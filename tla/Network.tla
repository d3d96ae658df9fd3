------------------------------- MODULE Network -------------------------------
(***************************************************************************)
(* The network probe (probes/network.py): inside the sandbox the payload   *)
(* tries an address literal, a host name, a lookup, the c2 hosts, and last *)
(* the positive control, one after the other; outside, the answers become  *)
(* findings.  The network of the sandbox may change between two checks.    *)
(*                                                                         *)
(* The config comes from load_target (TargetConfig).  The payload is given *)
(* the c2 hosts joined by commas and cuts them there again.                *)
(***************************************************************************)
EXTENDS InnerResult, TargetConfig

CONSTANTS C2Names,     \* names that may stand in c2_hosts
          ConfigFiles, \* target config files an operator may have written
          Networks,    \* what the sandbox's network can be like
          MaxChanges   \* bound: changes of it while the payload runs

Blocked == "blocked"
Canary == "canary"
Allowed == "allowed"
Names == C2Names \cup {Blocked, Canary, Allowed}

Literal == "literal"

(* A network: what becomes of a packet to a public address, which names    *)
(* resolve, to which of those the policy lets connections through whatever *)
(* the route, which peers refuse a connection that gets through to them,   *)
(* and what the proxy does with the allowed host.                          *)
NetworkType ==
    [route : {"open", "refused", "dropped"}, resolves : SUBSET Names, permits : SUBSET Names,
     refuses : SUBSET (Names \cup {Literal}), proxy : {"serves", "denies", "down"}]

ASSUME NetworkAssumption ==
    /\ Networks \subseteq NetworkType
    /\ ConfigFiles \subseteq ConfigType(Seq(Seq(C2Names))) \cup UnusableFiles
    /\ MaxChanges \in Nat

VARIABLES config,   \* the target config file
          net,      \* the network as it is now
          changes,  \* history: how often it has changed since the payload began
          got,      \* the payload's result dict
          slow      \* history: names whose connection was opened too late

network == <<config, net, changes, got, slow>>

RESULT_SHAPE ==
    [blocked_endpoint |-> TEXT, blocked_host |-> TEXT, dns_canary |-> TEXT, c2 |-> MAPPING,
     control_reachable |-> BOOL]

NoAnswers == [n \in {} |-> ""]
Falsy ==
    [blocked_endpoint |-> "", blocked_host |-> "", dns_canary |-> "", c2 |-> NoAnswers,
     control_reachable |-> FALSE]

NetworkInit ==
    /\ config \in ConfigFiles
    /\ net \in Networks
    /\ changes = 0 /\ got = Falsy /\ slow = {}
    /\ JustAsked("network") /\ stage = "config"

-----------------------------------------------------------------------------
(* create_connection: opened, refused by the route or by the peer at its   *)
(* end, which look the same, or nothing came back; also one that would be  *)
(* opened, or refused, may not be so before the deadline.                  *)
Connection(peer, passes) ==
    IF ~passes /\ net.route = "dropped" THEN {"timeout"}
    ELSE {IF passes /\ peer \notin net.refuses THEN "connected" ELSE "denied", "timeout"}

(* reachable: a name, to which the policy may let connections through.     *)
Passes(name) == net.route = "open" \/ name \in net.permits

Reachable(name) ==
    IF name \in net.resolves THEN Connection(name, Passes(name)) ELSE {"unresolved"}

Opens(name) == name \in net.resolves \ net.refuses /\ Passes(name)

(* endpoint_status: no name, so the route decides whether the peer does.   *)
EndpointStatus ==
    IF Attemptable(config.endpoint) THEN Connection(Literal, net.route = "open")
    ELSE {"unattempted"}

Resolves(name) == IF name \in net.resolves THEN "resolved" ELSE "unresolved"

(* proxy_allows: any status but a denial, and nothing that raises.         *)
ProxyAllows ==
    IF config.proxy = "usable" /\ net.proxy = "serves" THEN {TRUE, FALSE} ELSE {FALSE}

(* The positive control; without a proxy a lookup is enough.               *)
ControlReachable ==
    IF config.proxy # "none" THEN ProxyAllows
    ELSE {status = "connected" \/ Resolves(Allowed) = "resolved" : status \in Reachable(Allowed)}

(* Faulty variant: the empty names between two commas are kept.            *)
Entry(i) == config.c2[i]
WithEmptyNames == {""} \cup UNION {{Entry(i)[j] : j \in DOMAIN Entry(i)} : i \in DOMAIN config.c2}

(* ','.join(c2_hosts) on one side, split(',') and no empty names on the    *)
(* other.                                                                  *)
C2ToTry == UNION {{Entry(i)[j] : j \in DOMAIN Entry(i)} : i \in DOMAIN config.c2}

(* What the harness finds under an entry in the mapping that comes back.   *)
Reported(c2, i) ==
    IF Len(Entry(i)) = 1 /\ Entry(i)[1] \in DOMAIN c2 THEN c2[Entry(i)[1]] ELSE "none"

-----------------------------------------------------------------------------
(* Faulty variants of the definitions below; the checks show that each is  *)
(* caught.                                                                 *)

TimeoutIsADenial(status) ==
    IF status \in {"connected", "denied", "timeout"} THEN {} ELSE {Error("blocked_endpoint", 0)}

-----------------------------------------------------------------------------
(* The literal: an answer, no answer in time, or no attempt.               *)
EndpointErrors(status) ==
    IF status \in {"connected", "denied"} THEN {} ELSE {Error("blocked_endpoint", 0)}

ConfirmedC2(c2) == {i \in DOMAIN config.c2 : Reported(c2, i) = "connected"}

Control(value) == IF value.control_reachable THEN "held" ELSE "failed"

(* Two findings share the rule blocked_egress.                             *)
ByLiteral == Finding("blocked_egress", 1)
ByName == Finding("blocked_egress", 2)

NetworkFindings(value) ==
    ListFindings("c2_channel", ConfirmedC2(value.c2))
      \cup {f \in {ByLiteral, ByName, Finding("dns_canary", 0)} :
              \/ f = ByLiteral /\ value.blocked_endpoint = "connected"
              \/ f = ByName /\ value.blocked_host = "connected"
              \/ f.rule = "dns_canary" /\ value.dns_canary = "resolved"}

(* NetworkProbe.run, from stdout to the outcome.                           *)
NetworkVerdict(stdout) ==
    LET body == ParseInner(stdout)
    IN  IF body.kind # "object" THEN Unread("exec")
        ELSE IF ShapeProblems(body, RESULT_SHAPE) # {} THEN Unread("result")
        ELSE [findings |-> NetworkFindings(body.value),
              errors   |-> EndpointErrors(body.value.blocked_endpoint),
              control  |-> Control(body.value)]

-----------------------------------------------------------------------------
Answer(key, value) == got' = [got EXCEPT ![key] = value]

(* main refuses a config it cannot load; a probe whose command is null     *)
(* raises, which run_all turns into an error.                              *)
Load ==
    /\ stage = "config"
    /\ stage' = IF LoadTarget(config) # "accepted" THEN "refused"
                ELSE IF ~Runnable(config) THEN "raised" ELSE "endpoint"
    /\ UNCHANGED <<probe, garbled, outcome, network>>

CheckEndpoint ==
    /\ stage = "endpoint"
    /\ \E status \in EndpointStatus : Answer("blocked_endpoint", status)
    /\ stage' = "host"
    /\ UNCHANGED <<probe, garbled, outcome, config, net, changes, slow>>

(* A name whose connection would have been opened, had there been time.    *)
TooLate(name, status) == IF Opens(name) /\ status = "timeout" THEN {name} ELSE {}

CheckHost ==
    /\ stage = "host"
    /\ \E status \in Reachable(Blocked) :
          /\ Answer("blocked_host", status)
          /\ slow' = slow \cup TooLate(Blocked, status)
    /\ stage' = "canary"
    /\ UNCHANGED <<probe, garbled, outcome, config, net, changes>>

CheckCanary ==
    /\ stage = "canary"
    /\ Answer("dns_canary", Resolves(Canary))
    /\ stage' = "c2"
    /\ UNCHANGED <<probe, garbled, outcome, config, net, changes, slow>>

CheckC2 ==
    /\ stage = "c2"
    /\ \E name \in C2ToTry \ DOMAIN got.c2 : \E status \in Reachable(name) :
          /\ Answer("c2", [n \in DOMAIN got.c2 \cup {name} |->
                              IF n = name THEN status ELSE got.c2[n]])
          /\ slow' = slow \cup TooLate(name, status)
    /\ UNCHANGED <<probe, stage, garbled, outcome, config, net, changes>>

CheckControl ==
    /\ stage = "c2" /\ C2ToTry \subseteq DOMAIN got.c2
    /\ \E held \in ControlReachable : Answer("control_reachable", held)
    /\ stage' = "print"
    /\ UNCHANGED <<probe, garbled, outcome, config, net, changes, slow>>

(* The payload prints its result, and the probe reads what arrives: all of *)
(* it, or something else with a status it does not define for the literal. *)
UndefinedEndpoint ==
    {[b EXCEPT !.value.blocked_endpoint = "undefined"] : b \in {Whole(got, RESULT_SHAPE)}}

NetworkAnswers ==
    /\ stage = "print"
    /\ \E body \in Bodies(got, RESULT_SHAPE, Falsy) \cup UndefinedEndpoint :
          /\ outcome' = NetworkVerdict(Printout(body))
          /\ garbled' = IF body \in UndefinedEndpoint THEN "status" ELSE Damage(body, RESULT_SHAPE)
    /\ stage' = "done"
    /\ UNCHANGED <<probe, network>>

Checking == {"endpoint", "host", "canary", "c2", "print"}

(* The exec fails or times out, or the payload dies.                       *)
NetworkLost ==
    /\ stage \in Checking
    /\ outcome' = NetworkVerdict(NoPrintout)
    /\ garbled' = "lost" /\ stage' = "done"
    /\ UNCHANGED <<probe, network>>

NetworkChanges ==
    /\ stage \in Checking /\ changes < MaxChanges
    /\ changes' = changes + 1
    /\ net' \in Networks \ {net}
    /\ UNCHANGED <<exec, config, got, slow>>

PayloadStep == CheckEndpoint \/ CheckHost \/ CheckCanary \/ CheckC2 \/ CheckControl

NetworkNext == Load \/ PayloadStep \/ NetworkAnswers \/ NetworkLost \/ NetworkChanges

NetworkSpec == NetworkInit /\ [][NetworkNext]_<<exec, network>>

-----------------------------------------------------------------------------
Statuses == {"", "connected", "denied", "timeout", "unresolved", "unattempted"}

NetworkTypeOK ==
    /\ ExecTypeOK
    /\ config \in ConfigFiles
    /\ net \in Networks /\ changes \in 0..MaxChanges
    /\ slow \subseteq Names
    /\ got.blocked_endpoint \in Statuses /\ got.blocked_host \in Statuses
    /\ got.dns_canary \in {"", "resolved", "unresolved"}
    /\ DOMAIN got.c2 \subseteq C2Names
    /\ \A n \in DOMAIN got.c2 : got.c2[n] \in Statuses
    /\ got.control_reachable \in BOOLEAN
    /\ probe = "network" => stage \in {"config", "refused", "raised", "done"} \cup Checking

Plain(i) == Len(Entry(i)) = 1

(* What the probe could see of the invariant holds.  A network that changed*)
(* under the payload is not for it to see, nor is whether the route or the *)
(* peer refused: an open route to a blocked_endpoint that refuses by itself*)
(* reads like a closed one.                                                *)
Contained ==
    changes = 0 =>
        /\ net.route = "refused" \/ (net.route = "open" /\ Literal \in net.refuses)
        /\ Canary \notin net.resolves
        /\ Opens(Blocked) => Blocked \in slow
        /\ \A i \in DOMAIN config.c2 : Plain(i) /\ Opens(Entry(i)[1]) => Entry(i)[1] \in slow

(* network.py:65-83 and README, "No ambient network": a clean network      *)
(* result rests on the literal having been refused and on a control that   *)
(* shows a live network.  Unless the network changed under the payload, the*)
(* route to the literal refuses or, where it is open, the literal's peer   *)
(* does (README:515 allows such an endpoint), no public name resolves, and *)
(* the host name and every c2 host that is an entry of its own do not open *)
(* a connection, or did only after the deadline.                           *)
CleanMeansContained ==
    Clean("network") =>
        /\ Contained
        /\ changes = 0 =>
              IF config.proxy = "none" THEN Allowed \in net.resolves ELSE net.proxy = "serves"

(* evidence.py:183-189: "so this report never reads shorter than what was  *)
(* measured".  Each connection the payload opened, to a c2 host that is an *)
(* entry of its own, has a finding or is in the count of those cut; nothing*)
(* else is; and no other finding stands for a check that came back         *)
(* negative.                                                               *)
OpenedIsReported ==
    Returned("network") /\ garbled = "no" =>
        LET c2 == {f \in outcome.findings : f.rule = "c2_channel"}
            opened == {i \in DOMAIN config.c2 : Plain(i) /\ got.c2[Entry(i)[1]] = "connected"}
            cut == {f.more : f \in c2} \ {0}
            listed == {f.about : f \in c2} \ {0}
        IN  /\ listed \subseteq opened
            /\ IF listed = opened THEN cut = {}
               ELSE cut = {Cardinality(opened \ listed)}
            /\ ByLiteral \in outcome.findings <=> got.blocked_endpoint = "connected"
            /\ ByName \in outcome.findings <=> got.blocked_host = "connected"
            /\ Finding("dns_canary", 0) \in outcome.findings <=> got.dns_canary = "resolved"

(* network.py:145-147: "The config validator guarantees this is an address *)
(* and a port".  What the validator accepts on one side of the boundary,   *)
(* the parser on the other side can use.                                   *)
EndpointIsAttempted ==
    got.blocked_endpoint # "" =>
        /\ got.blocked_endpoint # "unattempted"
        /\ PayloadSplit(config.endpoint).address = "literal"

(* target.py:252-253, of c2_hosts: "A config typo must fail loudly rather  *)
(* than produce a clean result from an unrun check."  An entry with a comma*)
(* in it, or an empty one, is accepted and has no answer.                  *)
ConfiguredHostIsTried ==
    Clean("network") => \A i \in DOMAIN config.c2 : Reported(got.c2, i) # "none"
=============================================================================
