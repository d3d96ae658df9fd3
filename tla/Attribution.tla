----------------------------- MODULE Attribution -----------------------------
(***************************************************************************)
(* The attribution probe (probes/attribution.py) against a request log     *)
(* that others may write to and rotate: it counts the log's lines, has the *)
(* sandbox cross to the allowed and to the blocked host, reads the log     *)
(* again and looks for both crossings in the lines that were added.        *)
(*                                                                         *)
(* The broker handles a crossing some time after it was sent and answers   *)
(* only then; it may log it well, badly or not at all.  The sandbox may be *)
(* dead, slow or lying about having run the payload.                       *)
(***************************************************************************)
EXTENDS Payload

CONSTANTS MaxEarlier,  \* bound: lines earlier runs left in the log
          MaxLines     \* bound: length at which other clients stop adding lines

ASSUME AttributionAssumption == MaxEarlier \in Nat /\ MaxLines \in Nat

VARIABLES hasLog,    \* request_log_command is configured
          log,       \* requests.log
          exists,    \* the file is there
          pc,
          before,    \* lines counted in the baseline read
          baseline,  \* history: how the baseline read went
          rotated, crowded,   \* history: the log was rotated; others wrote to it
          outcome

vars == <<hasLog, log, exists, pc, before, baseline, payload, rotated, crowded, outcome>>
file == <<log, exists>>
history == <<rotated, crowded>>

RequestLines(sources) == Lines({"decided", "none"}, sources)
NoOutcome == [findings |-> {}, errors |-> {}, control |-> "none"]
Finding(rule, host) == [rule |-> rule, host |-> host]

Init ==
    /\ hasLog \in BOOLEAN
    /\ log \in LogsUpTo(MaxEarlier, RequestLines({"earlier"}))
    /\ exists \in BOOLEAN /\ (log # <<>> => exists)
    /\ pc = "start" /\ before = 0 /\ baseline = "none"
    /\ PayloadInit
    /\ rotated = FALSE /\ crowded = FALSE
    /\ outcome = NoOutcome

Running == pc \notin {"start", "done"}

-----------------------------------------------------------------------------
Finish(findings, errors, control) ==
    /\ pc' = "done"
    /\ outcome' = [findings |-> findings, errors |-> errors, control |-> control]

(* No request log configured: a finding, and the control did not hold.     *)
NoRequestLog ==
    /\ pc = "start" /\ ~hasLog
    /\ Finish({Finding("no_request_log", OtherHost)}, {}, "failed")
    /\ UNCHANGED <<hasLog, file, before, baseline, payload, history>>

(* The baseline read.  Any failure counts as zero lines: the file may not  *)
(* exist yet ("missing"), or the read itself failed ("failed").            *)
ReadBaseline ==
    /\ pc = "start" /\ hasLog
    /\ \/ exists /\ before' = Count(log) /\ baseline' = "read"
       \/ before' = 0 /\ baseline' = IF exists THEN "failed" ELSE "missing"
    /\ pc' = "crossing"
    /\ UNCHANGED <<hasLog, file, payload, history, outcome>>

(* The payload makes its way through the hosts.                            *)
Crossing ==
    /\ pc = "crossing" /\ PayloadStep
    /\ UNCHANGED <<hasLog, file, pc, before, baseline, history, outcome>>

(* The marked line comes out: the payload is through, or the sandbox lies. *)
PayloadReports ==
    /\ pc = "crossing"
    /\ pc' = "after"
    /\ UNCHANGED <<hasLog, file, before, baseline, payload, history, outcome>>

(* No marked line, or not an object in it.                                 *)
PayloadFails ==
    /\ pc = "crossing"
    /\ Finish({}, {"exec"}, "failed")
    /\ UNCHANGED <<hasLog, file, before, baseline, payload, history>>

-----------------------------------------------------------------------------
Unlogged(entries) == {h \in Hosts : \A e \in entries : e.host # h}

(* Faulty variant: a host no line names is taken for undecided as well.    *)
NeverDecided(entries) ==
    {h \in Hosts : \A e \in entries : e.host = h => e.value = "none"}

Undecided(entries) == {h \in Hosts : \E e \in entries : e.host = h /\ e.value = "none"}

ReadFails ==
    /\ pc = "after"
    /\ Finish({}, {"read_request_log"}, "failed")
    /\ UNCHANGED <<hasLog, file, before, baseline, payload, history>>

(* The second read and the comparison with the hosts the harness supplied. *)
ReadAfter ==
    /\ pc = "after" /\ exists
    /\ IF Shrank(log, before)
       THEN Finish({}, {"read_request_log"}, "failed")
       ELSE LET entries == Entries(Window(log, before))
            IN  Finish({Finding("crossing_unlogged", h) : h \in Unlogged(entries)}
                         \cup {Finding("decision_missing", h) : h \in Undecided(entries)},
                       {}, "held")
    /\ UNCHANGED <<hasLog, file, before, baseline, payload, history>>

(* ---- the broker and everybody else ---- *)

(* The broker handles a crossing of this probe and logs it, or does not.   *)
Handle(h) ==
    /\ h \in pending
    /\ pending' = pending \ {h}
    /\ \/ UNCHANGED file
       \/ /\ \E l \in RequestLines({"own"}) : l.host \in {h, OtherHost} /\ log' = Append(log, l)
          /\ exists' = TRUE
    /\ UNCHANGED <<hasLog, pc, before, baseline, step, waiting, answered, history, outcome>>

(* A crossing of another client, or of an earlier probe's payload that     *)
(* outlived its exec, is logged.                                           *)
OtherWrites ==
    /\ Running /\ Len(log) < MaxLines
    /\ \E l \in RequestLines({"other"}) : log' = Append(log, l)
    /\ exists' = TRUE /\ crowded' = TRUE
    /\ UNCHANGED <<hasLog, pc, before, baseline, payload, rotated, outcome>>

Rotate ==
    /\ Running /\ ~rotated
    /\ log' \in Rotations(log)
    /\ rotated' = TRUE
    /\ UNCHANGED <<hasLog, exists, pc, before, baseline, payload, crowded, outcome>>

ProbeStep ==
    \/ NoRequestLog \/ ReadBaseline
    \/ Crossing \/ PayloadReports \/ PayloadFails
    \/ ReadFails \/ ReadAfter

Next ==
    \/ ProbeStep
    \/ \E h \in Hosts : Handle(h)
    \/ OtherWrites
    \/ Rotate

Spec == Init /\ [][Next]_vars

-----------------------------------------------------------------------------
TypeOK ==
    /\ hasLog \in BOOLEAN /\ exists \in BOOLEAN
    /\ log \in Seq(RequestLines(Sources))
    /\ pc \in {"start", "crossing", "after", "done"}
    /\ before \in Nat /\ baseline \in {"none", "read", "missing", "failed"}
    /\ PayloadTypeOK
    /\ rotated \in BOOLEAN /\ crowded \in BOOLEAN
    /\ outcome.findings \subseteq [rule : {"no_request_log", "crossing_unlogged",
                                           "decision_missing"},
                                   host : Hosts \cup {OtherHost}]
    /\ outcome.errors \subseteq {"exec", "read_request_log"}
    /\ outcome.control \in {"none", "held", "failed"}

Clean == outcome.control = "held" /\ outcome.findings = {} /\ outcome.errors = {}

OwnEntry(h) == \E i \in DOMAIN log : log[i].src = "own" /\ log[i].host = h

(* attribution.py:20-32: a stale line never makes a run clean.  If the     *)
(* baseline read did not fail and nobody else wrote to the log, a clean    *)
(* answer means that both crossings of this very run are in the log, with  *)
(* a decision, even when the log was rotated meanwhile.                    *)
CleanIsThisRuns ==
    Clean /\ baseline # "failed" /\ ~crowded =>
        \A h \in Hosts : \E i \in DOMAIN log :
            log[i].src = "own" /\ log[i].host = h /\ log[i].value = "decided"

(* A line of an earlier run is never in the window, whatever was rotated   *)
(* away since the baseline.                                                *)
WindowIsFresh ==
    Running /\ baseline \in {"read", "missing"} =>
        \A i \in DOMAIN Window(log, before) : Window(log, before)[i].src # "earlier"

(* attribution.py:90-96: an answer that was read back proves that the      *)
(* broker is done with the crossing, so reading the log afterwards does    *)
(* not race with it.  A crossing that was answered and logged is never     *)
(* reported as unlogged, unless the log was rotated.                       *)
AnsweredIsNotReportedUnlogged ==
    ~rotated => \A h \in answered :
        Finding("crossing_unlogged", h) \in outcome.findings => ~OwnEntry(h)

(* attribution.py:20-32, 256-283: how far the two ways to be misled reach. *)
(* Every verdict about a host rests on a line of the log that says so; the *)
(* line of an earlier run can stand for one of this run's only after a     *)
(* baseline read that failed, that of another client only if one wrote.    *)
Accounted(line) ==
    /\ line.src = "earlier" => baseline = "failed"
    /\ line.src = "other" => crowded

Shows(h, value) ==
    \E i \in DOMAIN log : log[i].host = h /\ log[i].value = value /\ Accounted(log[i])

VerdictsRestOnLines ==
    /\ Clean => \A h \in Hosts : Shows(h, "decided")
    /\ \A h \in Hosts :
          Finding("decision_missing", h) \in outcome.findings => Shows(h, "none")

(* attribution.py:204-206: "If the read is broken for a real reason rather *)
(* than a missing file, the second read below will fail the same way and   *)
(* that failure is not forgiven."  A baseline read that fails once does    *)
(* not fail the run.                                                       *)
BrokenBaselineIsNotForgiven ==
    baseline = "failed" => ~Clean
=============================================================================
