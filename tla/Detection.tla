------------------------------ MODULE Detection ------------------------------
(***************************************************************************)
(* The detection probe (probes/detection.py) against an event channel and  *)
(* a request log that others may write to and rotate: it counts the lines  *)
(* of both, has the sandbox make an allowed and a denied crossing, reads   *)
(* the events again for an alert on the denied one, and only then the      *)
(* request log, to tell whether the alert channel carries allowed traffic  *)
(* too.                                                                    *)
(*                                                                         *)
(* The broker handles a crossing in two writes, requests.log and then      *)
(* events.log, and answers after both; it may leave out either.            *)
(***************************************************************************)
EXTENDS Payload

EventLines(sources) == Lines({"HIGH", "LOW"}, sources)
RequestLines(sources) == Lines({"allow", "deny"}, sources)

CONSTANTS EarlierEvents, EarlierRequests,  \* what the logs can hold beforehand
          OtherEvents, OtherRequests       \* lines other clients can cause

ASSUME DetectionAssumption ==
    /\ EarlierEvents \subseteq Seq(EventLines({"earlier"}))
    /\ EarlierRequests \subseteq Seq(RequestLines({"earlier"}))
    /\ OtherEvents \subseteq EventLines({"other"})
    /\ OtherRequests \subseteq RequestLines({"other"})

VARIABLES configured,  \* the commands the target has: "events", "requests"
          events, requests,   \* the two logs
          exists,      \* events.log is there
          pc,
          eventsBefore, requestsBefore,  \* lines counted in the baseline reads
          requestsRead,  \* request_baseline_read
          baseline,    \* history: how the baseline read of the events went
          half,        \* pending crossings past the broker's first write
          delta,       \* entries of the event channel's window
          rotated, crowded,   \* history: a log was rotated; others wrote
          outcome

vars == <<configured, events, requests, exists, pc, eventsBefore, requestsBefore,
          requestsRead, baseline, half, delta, payload, rotated, crowded, outcome>>
files == <<events, requests, exists>>
counts == <<eventsBefore, requestsBefore, requestsRead, baseline>>
history == <<rotated, crowded>>
world == <<configured, files, half, payload, history>>

Init ==
    /\ configured \in SUBSET {"events", "requests"}
    /\ events \in EarlierEvents
    /\ requests \in EarlierRequests
    /\ exists \in BOOLEAN /\ (events # <<>> => exists)
    /\ pc = "start" /\ eventsBefore = 0 /\ requestsBefore = 0
    /\ requestsRead = TRUE /\ baseline = "none"
    /\ PayloadInit /\ half = {} /\ delta = {}
    /\ rotated = FALSE /\ crowded = FALSE
    /\ outcome = [findings |-> {}, errors |-> {}, control |-> "none"]

Running == pc \notin {"start", "done"}

Finish(findings, errors, control) ==
    /\ pc' = "done"
    /\ outcome' = [findings |-> findings, errors |-> errors, control |-> control]

-----------------------------------------------------------------------------
(* No event channel configured: a finding, and the control did not hold.   *)
NoEventChannel ==
    /\ pc = "start" /\ "events" \notin configured
    /\ Finish({"no_event_channel"}, {}, "failed")
    /\ UNCHANGED <<world, counts, delta>>

(* The event channel's baseline: any failed read counts as zero lines.     *)
ReadEventsBaseline ==
    /\ pc = "start" /\ "events" \in configured
    /\ \/ exists /\ eventsBefore' = Count(events) /\ baseline' = "read"
       \/ eventsBefore' = 0 /\ baseline' = IF exists THEN "failed" ELSE "missing"
    /\ pc' = IF "requests" \in configured THEN "baseline" ELSE "crossing"
    /\ UNCHANGED <<world, requestsBefore, requestsRead, delta, outcome>>

(* Faulty variant: the failed read of the request log is forgiven.         *)
ForgivingBaseline(ok) == TRUE

BaselineUsable(ok) == ok

(* The request log's baseline: a failed read is remembered.                *)
ReadRequestsBaseline ==
    /\ pc = "baseline"
    /\ \E ok \in BOOLEAN :
        /\ requestsBefore' = IF ok THEN Count(requests) ELSE 0
        /\ requestsRead' = BaselineUsable(ok)
    /\ pc' = "crossing"
    /\ UNCHANGED <<world, eventsBefore, baseline, delta, outcome>>

(* The payload makes its way through the hosts.                            *)
Crossing ==
    /\ pc = "crossing" /\ PayloadStep
    /\ half' = half \cap pending'
    /\ UNCHANGED <<configured, files, pc, counts, delta, history, outcome>>

(* The marked line comes out: the payload is through, or the sandbox lies. *)
PayloadReports ==
    /\ pc = "crossing" /\ pc' = "events"
    /\ UNCHANGED <<world, counts, delta, outcome>>

(* No marked line, or not an object in it.                                 *)
PayloadFails ==
    /\ pc = "crossing"
    /\ Finish({}, {"exec"}, "failed")
    /\ UNCHANGED <<world, counts, delta>>

-----------------------------------------------------------------------------
(* Faulty variant: one event below HIGH is enough to call the alert short. *)
SomeBelowHigh(matching) == \E e \in matching : e.value # "HIGH"

Understated(matching) == \A e \in matching : e.value # "HIGH"

(* What the events in the window prove.                                    *)
AlertFindings(window) ==
    LET matching == {e \in window : e.host = BlockedHost}
    IN  IF matching = {} THEN {"violation_unalerted"}
        ELSE IF Understated(matching) THEN {"severity_understated"} ELSE {}

ReadEventsFails ==
    /\ pc = "events"
    /\ Finish({}, {"read_events"}, "failed")
    /\ UNCHANGED <<world, counts, delta>>

(* The second read of the events; with no request log this is the end, and *)
(* without a baseline of it the separation check cannot be evaluated.      *)
ReadEvents ==
    /\ pc = "events" /\ exists
    /\ IF Shrank(events, eventsBefore)
       THEN Finish({}, {"read_events"}, "failed") /\ UNCHANGED delta
       ELSE LET window == Entries(Window(events, eventsBefore))
            IN  /\ delta' = window
                /\ IF "requests" \notin configured
                   THEN Finish(AlertFindings(window), {}, "held")
                   ELSE IF ~requestsRead
                   THEN Finish(AlertFindings(window), {"channel_separation"}, "failed")
                   ELSE pc' = "requests" /\ UNCHANGED outcome
    /\ UNCHANGED <<world, counts>>

(* Faulty variant: an error leaves the findings out.                       *)
NoFindings(window) == {}

ProvedFindings(window) == AlertFindings(window)

ReadRequestsFails ==
    /\ pc = "requests"
    /\ Finish(ProvedFindings(delta), {"read_request_log"}, "failed")
    /\ UNCHANGED <<world, counts, delta>>

(* The window of the request log shows both of this run's crossings.       *)
Evaluable(window) ==
    /\ \E e \in window : e.host = AllowedHost /\ e.value = "allow"
    /\ \E e \in window : e.host = BlockedHost /\ e.value = "deny"

(* Faulty variant: only an alert counts as allowed traffic.                *)
HighOnly(window) == \E e \in window : e.host = AllowedHost /\ e.value = "HIGH"

CarriesAllowed(window) == \E e \in window : e.host = AllowedHost

ReadRequests ==
    /\ pc = "requests"
    /\ IF Shrank(requests, requestsBefore)
       THEN Finish(ProvedFindings(delta), {"read_request_log"}, "failed")
       ELSE IF ~Evaluable(Entries(Window(requests, requestsBefore)))
       THEN Finish(ProvedFindings(delta), {"channel_separation"}, "failed")
       ELSE Finish(AlertFindings(delta)
                     \cup (IF CarriesAllowed(delta) THEN {"channel_not_separated"} ELSE {}),
                   {}, "held")
    /\ UNCHANGED <<world, counts, delta>>

(* ---- the broker and everybody else ---- *)

(* The broker's first write for a crossing of this probe, or none.         *)
HandleRequest(h) ==
    /\ h \in pending \ half
    /\ half' = half \cup {h}
    /\ \/ UNCHANGED requests
       \/ \E l \in RequestLines({"own"}) : l.host = h /\ requests' = Append(requests, l)
    /\ UNCHANGED <<configured, events, exists, pc, counts, delta, payload, history, outcome>>

(* Its second write, or none.                                              *)
HandleEvent(h) ==
    /\ h \in pending \cap half
    /\ half' = half \ {h} /\ pending' = pending \ {h}
    /\ \/ UNCHANGED <<events, exists>>
       \/ /\ \E l \in EventLines({"own"}) : l.host = h /\ events' = Append(events, l)
          /\ exists' = TRUE
    /\ UNCHANGED <<configured, requests, pc, counts, delta, step, waiting, answered,
                   history, outcome>>

(* A crossing of another client, or of an earlier probe's payload that     *)
(* outlived its exec, shows in either log; once, as a bound.               *)
OtherWrites ==
    /\ Running /\ ~crowded
    /\ \/ /\ UNCHANGED requests /\ exists' = TRUE
          /\ \E l \in OtherEvents : events' = Append(events, l)
       \/ /\ UNCHANGED <<events, exists>>
          /\ \E l \in OtherRequests : requests' = Append(requests, l)
    /\ crowded' = TRUE
    /\ UNCHANGED <<configured, pc, counts, half, delta, payload, rotated, outcome>>

Rotate ==
    /\ Running /\ ~rotated
    /\ \/ events' \in Rotations(events) /\ UNCHANGED requests
       \/ requests' \in Rotations(requests) /\ UNCHANGED events
    /\ rotated' = TRUE
    /\ UNCHANGED <<configured, exists, pc, counts, half, delta, payload, crowded, outcome>>

Next ==
    \/ NoEventChannel \/ ReadEventsBaseline \/ ReadRequestsBaseline
    \/ Crossing \/ PayloadReports \/ PayloadFails
    \/ ReadEventsFails \/ ReadEvents \/ ReadRequestsFails \/ ReadRequests
    \/ \E h \in Hosts : HandleRequest(h) \/ HandleEvent(h)
    \/ OtherWrites \/ Rotate

Spec == Init /\ [][Next]_vars

-----------------------------------------------------------------------------
TypeOK ==
    /\ configured \subseteq {"events", "requests"}
    /\ events \in Seq(EventLines(Sources)) /\ requests \in Seq(RequestLines(Sources))
    /\ exists \in BOOLEAN
    /\ pc \in {"start", "baseline", "crossing", "events", "requests", "done"}
    /\ eventsBefore \in Nat /\ requestsBefore \in Nat /\ requestsRead \in BOOLEAN
    /\ baseline \in {"none", "read", "missing", "failed"}
    /\ PayloadTypeOK /\ half \subseteq pending
    /\ delta \subseteq EventLines(Sources)
    /\ rotated \in BOOLEAN /\ crowded \in BOOLEAN
    /\ outcome.findings \subseteq {"no_event_channel", "violation_unalerted",
                                   "severity_understated", "channel_not_separated"}
    /\ outcome.errors \subseteq {"exec", "read_events", "read_request_log",
                                 "channel_separation"}
    /\ outcome.control \in {"none", "held", "failed"}

Clean == outcome.control = "held" /\ outcome.findings = {} /\ outcome.errors = {}

Own(log, host) == \E i \in DOMAIN log : log[i].src = "own" /\ log[i].host = host

OwnValue(log, host, value) ==
    \E i \in DOMAIN log : log[i] = [host |-> host, value |-> value, src |-> "own"]

(* detection.py:13-25: a stale alert never makes a run clean.  If the      *)
(* baseline read of the events did not fail and nobody else wrote, clean   *)
(* means that this run's violation raised a HIGH alert, whatever was       *)
(* rotated away meanwhile.                                                 *)
CleanMeansAlerted ==
    Clean /\ baseline # "failed" /\ ~crowded =>
        [host |-> BlockedHost, value |-> "HIGH", src |-> "own"] \in delta

(* detection.py:35-48: clean, with a request log, also means that both     *)
(* crossings of this run went through and the alert channel carries only   *)
(* the denied one.                                                         *)
CleanMeansSeparated ==
    Clean /\ "requests" \in configured /\ ~crowded /\ ~rotated =>
        /\ OwnValue(requests, AllowedHost, "allow")
        /\ OwnValue(requests, BlockedHost, "deny")
        /\ AllowedHost \in answered => ~Own(events, AllowedHost)

(* detection.py:61-70: no stale pair of request lines opens the separation *)
(* check, not even when a baseline read failed: its verdict, good or bad,  *)
(* rests on this run's crossings.                                          *)
SeparationNeverStale ==
    outcome.control = "held" /\ "requests" \in configured /\ ~crowded =>
        OwnValue(requests, AllowedHost, "allow") /\ OwnValue(requests, BlockedHost, "deny")

(* detection.py:72-77: once the events were read, a violation that raised  *)
(* no alert is reported, whatever happens to the request log afterwards.   *)
ProvedFindingIsKept ==
    (/\ pc = "done" /\ "events" \in configured
     /\ outcome.errors \subseteq {"read_request_log", "channel_separation"}
     /\ baseline # "failed" /\ ~crowded /\ ~rotated
     /\ ~Own(events, BlockedHost))
    => "violation_unalerted" \in outcome.findings

(* Lines of earlier runs are behind the count only if the baseline read    *)
(* failed, those of other clients only if there were any.                  *)
Accounted(line) ==
    /\ line.src = "earlier" => baseline = "failed"
    /\ line.src = "other" => crowded

NotStale(host, decision) ==
    \E i \in DOMAIN requests : /\ requests[i].host = host /\ requests[i].value = decision
                               /\ requests[i].src # "earlier"

Alerts(host) == {e \in delta : e.host = host}
High(host) == {e \in Alerts(host) : e.value = "HIGH"}

(* detection.py:50-70: what the probe says rests on lines behind the       *)
(* baseline: a clean answer on a HIGH alert, a missing one on the absence  *)
(* of any, an understated one on alerts none of which is HIGH, and an      *)
(* unseparated channel on an alert about the allowed host.  No such line   *)
(* is an earlier run's, unless the baseline read of the events failed; and *)
(* whoever else writes, no pair of request lines of an earlier run opens   *)
(* the separation check.                                                   *)
VerdictsRestOnWindow ==
    /\ \A e \in delta : Accounted(e)
    /\ Clean => High(BlockedHost) # {}
    /\ "violation_unalerted" \in outcome.findings => Alerts(BlockedHost) = {}
    /\ "severity_understated" \in outcome.findings =>
          Alerts(BlockedHost) # {} /\ High(BlockedHost) = {}
    /\ "channel_not_separated" \in outcome.findings => Alerts(AllowedHost) # {}
    /\ outcome.control = "held" /\ "requests" \in configured =>
          NotStale(AllowedHost, "allow") /\ NotStale(BlockedHost, "deny")
=============================================================================
