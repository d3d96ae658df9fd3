------------------------------- MODULE MCBroker -------------------------------
(* Two connections.  The host of the first request is listed in one of the *)
(* two allowlists and its target is decorated; the userinfo of the second  *)
(* reads like that host, its own host is listed in none; the third names   *)
(* an address in brackets and repeats a framing header.                    *)
EXTENDS Broker

Request(scheme, userinfo, host, port, path, first, more) ==
    [scheme |-> scheme, userinfo |-> userinfo, host |-> host, port |-> port, path |-> path,
     framing |-> [first |-> first, more |-> more]]

MCSchemes == {"http"}
HTTP == <<"http", "://">>
Port == <<":", "80">>
Files == <<"files", "pypi">>
MCRequests == {
    Request(HTTP, <<"evil", "@">>, Files, Port, <<"/", "a", ":", "b", "@", "c">>, "sized", FALSE),
    Request(<<>>, Files \o Port \o <<"@">>, <<"a">> \o Files, Port, <<>>, "untrusted", FALSE),
    Request(HTTP, <<>>, <<>>, <<>>, <<"[", "fd00", ":", "1", "]">>, "none", TRUE)}

(* A target with a bracket that is never closed.                           *)
MCUnparsable == {Request(HTTP, <<>>, <<>>, <<>>, <<"[", "evil", "/">>, "none", FALSE)}

MCAllowlists == {{[wild |-> TRUE, labels |-> <<"pypi">>]}, {[wild |-> FALSE, labels |-> <<"pypi">>]}}
=============================================================================
