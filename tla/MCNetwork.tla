------------------------------ MODULE MCNetwork ------------------------------
(* Two c2 names, as entries of their own, or joined by a comma in front of *)
(* an empty entry.  Every form of endpoint, and every other fault of the   *)
(* file, in a config that is otherwise good.                               *)
EXTENDS Network

MCC2Names == {"c1", "c2"}
MCC2Lists == {<<>>, <<<<"c1">>, <<"c2">>>>, <<<<"c1", "c2">>, <<>>>>}
GoodConfig == [file |-> "object", required |-> TRUE, exec |-> "list", typed |-> TRUE,
         endpoint |-> DefaultEndpoint, c2 |-> <<>>, proxy |-> "usable"]
MCConfigFiles ==
    {[GoodConfig EXCEPT !.endpoint = e] : e \in Endpoints}
      \cup {[GoodConfig EXCEPT !.required = r, !.exec = x, !.typed = t] :
              r \in BOOLEAN, x \in {"list", "null", "other"}, t \in BOOLEAN}
      \cup {[GoodConfig EXCEPT !.c2 = c] : c \in MCC2Lists}
      \cup {[GoodConfig EXCEPT !.proxy = p] : p \in {"none", "malformed"}}
      \cup UnusableFiles
MCNetworks ==
    {n \in [route : {"open", "refused", "dropped"}, proxy : {"serves", "down"},
           resolves : {{}, {Allowed, "c1", "c2"}, Names}, permits : {{}, {"c1", "c2"}},
           refuses : {{}, {Literal, "c1"}}] :
        \/ n.permits = {} /\ n.refuses = {} /\ n.proxy = "serves"
        \/ n.permits = {"c1", "c2"} /\ n.proxy = "serves" /\ n.route # "open"
        \/ n.permits = {} /\ n.refuses = {} /\ n.proxy = "down" /\ n.route = "refused"
        \/ n.permits = {} /\ n.refuses # {} /\ n.proxy = "serves" /\ n.route = "open"}
=============================================================================
