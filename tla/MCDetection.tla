----------------------------- MODULE MCDetection -----------------------------
(* Earlier runs left nothing or exactly what could mislead this one: an    *)
(* alert on the blocked host, a pair of request lines; other clients do    *)
(* the same.                                                               *)
EXTENDS Detection

Line(h, v, s) == [host |-> h, value |-> v, src |-> s]

MCEarlierEvents == {<<>>, <<Line(BlockedHost, "HIGH", "earlier")>>}
MCEarlierRequests ==
    {<<>>, <<Line(AllowedHost, "allow", "earlier"), Line(BlockedHost, "deny", "earlier")>>}
MCOtherEvents == {Line(BlockedHost, "HIGH", "other")}
MCOtherRequests == {Line(AllowedHost, "allow", "other")}
=============================================================================
