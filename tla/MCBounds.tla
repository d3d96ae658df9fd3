------------------------------- MODULE MCBounds -------------------------------
(* Three runs, and two checks for the new sandbox.  Limits at both ends of *)
(* what counts as one, in each hierarchy.                                  *)
EXTENDS Bounds

Capped == [hierarchy |-> "unified", memory |-> 0, pids |-> 0, cpu |-> 1, declared |-> TRUE]
Open == [hierarchy |-> "unified", memory |-> NoLimit, pids |-> NoLimit, cpu |-> NoLimit,
         declared |-> FALSE]
MCSetups ==
    {Capped, Open, [Capped EXCEPT !.hierarchy = "hidden"],
     [Open EXCEPT !.hierarchy = "split"],
     [Capped EXCEPT !.hierarchy = "joint", !.memory = Ceiling - 1]}
=============================================================================
