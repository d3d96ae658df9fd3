------------------------------- MODULE Ledger -------------------------------
(***************************************************************************)
(* What the egress broker promises of every crossing, whatever its threads *)
(* and clients do: a crossing is recorded once with the decision taken on  *)
(* it, only a recorded denial raises an alert and only once, and nobody is *)
(* answered before the record is complete (broker.py, module docstring and *)
(* _handle).                                                               *)
(***************************************************************************)
EXTENDS Sequences, Integers

CONSTANT Crossings

Decisions == {"allow", "deny"}

VARIABLES requests,  \* requests.log: sequence of [crossing, decision]
          events,    \* events.log: sequence of crossings
          answers    \* set of [crossing, decision] answered to a client

vars == <<requests, events, answers>>

Recorded(c, d) == \E i \in DOMAIN requests : requests[i] = [crossing |-> c, decision |-> d]
Alerted(c) == \E i \in DOMAIN events : events[i] = c

Init == requests = <<>> /\ events = <<>> /\ answers = {}

Record(c, d) ==
    /\ \A e \in Decisions : ~Recorded(c, e)
    /\ requests' = Append(requests, [crossing |-> c, decision |-> d])
    /\ UNCHANGED <<events, answers>>

Alert(c) ==
    /\ Recorded(c, "deny") /\ ~Alerted(c)
    /\ events' = Append(events, c)
    /\ UNCHANGED <<requests, answers>>

Answer(c, d) ==
    /\ Recorded(c, d)
    /\ d = "deny" => Alerted(c)
    /\ answers' = answers \cup {[crossing |-> c, decision |-> d]}
    /\ UNCHANGED <<requests, events>>

Next == \E c \in Crossings : Alert(c) \/ \E d \in Decisions : Record(c, d) \/ Answer(c, d)

Spec == Init /\ [][Next]_vars
=============================================================================
