------------------------------- MODULE Payload -------------------------------
(***************************************************************************)
(* The payload the attribution and the detection probe run inside the      *)
(* sandbox: for each host it sends one request through the proxy and reads *)
(* the answer before it goes on (cross_via_proxy).  A crossing is pending  *)
(* from the moment it is sent until the broker has handled it; only then   *)
(* does the broker answer.  Without a proxy (cross_direct) nothing logs a  *)
(* crossing, which the broker of this model may do as well.                *)
(***************************************************************************)
EXTENDS LogWindow

VARIABLES step,      \* position in ProbeHosts
          waiting,   \* waits for the answer to the last crossing
          pending,   \* crossings sent and not handled
          answered   \* history: crossings whose answer was read

payload == <<step, waiting, pending, answered>>

PayloadInit == step = 1 /\ waiting = FALSE /\ pending = {} /\ answered = {}

PayloadTypeOK ==
    /\ step \in 1..Len(ProbeHosts) + 1
    /\ waiting \in BOOLEAN /\ (waiting => step > 1)
    /\ pending \subseteq Hosts /\ answered \subseteq Hosts

LastSent == ProbeHosts[step - 1]

SendNext ==
    /\ ~waiting /\ step <= Len(ProbeHosts)
    /\ pending' = pending \cup {ProbeHosts[step]}
    /\ step' = step + 1 /\ waiting' = TRUE
    /\ UNCHANGED answered

(* Faulty variant: the payload goes on as soon as the request is sent.     *)
SentIsEnough(h) == TRUE

AnswerIsThere(h) == h \notin pending

GetAnswer ==
    /\ waiting /\ AnswerIsThere(LastSent)
    /\ waiting' = FALSE
    /\ answered' = answered \cup {LastSent}
    /\ UNCHANGED <<step, pending>>

(* Refused, or no answer in time: the attempt counts, the broker may still *)
(* have the request.                                                       *)
GiveUp ==
    /\ waiting
    /\ waiting' = FALSE
    /\ pending' \in {pending, pending \ {LastSent}}
    /\ UNCHANGED <<step, answered>>

PayloadStep == SendNext \/ GetAnswer \/ GiveUp
=============================================================================
