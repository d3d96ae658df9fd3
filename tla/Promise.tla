-------------------------------- MODULE Promise --------------------------------
(***************************************************************************)
(* What run_all relies on when it asks a probe: one answer, and never a    *)
(* clean one unless the invariant was measured and held (Contract).  The   *)
(* loop of Harness is built on this; the modules of the probes implement   *)
(* it.  Findings and errors are told apart only by whether there are any.  *)
(***************************************************************************)
EXTENDS Report

VARIABLE answer  \* of the probe run_all is asking

Waiting == [given |-> FALSE]

Answers ==
    [given : {TRUE}, truth : Truths,
     outcome : [findings : SUBSET {"finding"}, errors : SUBSET {"error"}, control : Controls]]

Init == answer = Waiting

Return ==
    /\ answer = Waiting
    /\ answer' \in {a \in Answers : Contract(a.truth, a.outcome)}

Spec == Init /\ [][Return]_answer
=============================================================================
