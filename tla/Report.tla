------------------------------- MODULE Report -------------------------------
(***************************************************************************)
(* From the outcomes of the probes to what a reader is told: the merge and *)
(* exit code of result.py, the two renderings of render.py.  The exit code *)
(* (cli.py), the JSON document and the table each decide on their own      *)
(* whether the run was complete; they are translated separately so that    *)
(* their agreement can be checked.                                         *)
(*                                                                         *)
(* An outcome is a record [findings, errors, control]; findings and errors *)
(* are sets, control is the positive control: "held" (True), "failed"      *)
(* (False) or "absent" (None).                                             *)
(***************************************************************************)
EXTENDS Integers, FiniteSets

EXIT_OK == 0
EXIT_CANNOT_START == 1
EXIT_INCOMPLETE == 2
EXIT_FINDINGS == 3

Controls == {"held", "failed", "absent"}

(* "unmeasured": the probe could not measure its invariant; "holds" and    *)
(* "broken": it could, and the invariant did or did not hold.              *)
Truths == {"unmeasured", "holds", "broken"}

(* What every probe promises: no measurement is never a clean outcome, and *)
(* a broken invariant is a finding unless something went wrong.            *)
Contract(t, o) ==
    \/ t = "holds"
    \/ t = "broken" /\ o.findings # {}
    \/ o.errors # {}
    \/ o.control = "failed"

ControlsFailed(outcomes) == {p \in DOMAIN outcomes : outcomes[p].control = "failed"}

ControlsAbsent(outcomes) == {p \in DOMAIN outcomes : outcomes[p].control = "absent"}

(* Faulty variant: an outcome that carries errors contributes no findings. *)
MergeCleanOutcomes(outcomes) ==
    [findings       |-> UNION {outcomes[p].findings :
                                 p \in {q \in DOMAIN outcomes : outcomes[q].errors = {}}},
     errors         |-> UNION {outcomes[p].errors : p \in DOMAIN outcomes},
     controlsFailed |-> ControlsFailed(outcomes),
     controlsAbsent |-> ControlsAbsent(outcomes),
     ran            |-> DOMAIN outcomes]

MergeOutcomes(outcomes) ==
    [findings       |-> UNION {outcomes[p].findings : p \in DOMAIN outcomes},
     errors         |-> UNION {outcomes[p].errors : p \in DOMAIN outcomes},
     controlsFailed |-> ControlsFailed(outcomes),
     controlsAbsent |-> ControlsAbsent(outcomes),
     ran            |-> DOMAIN outcomes]

Complete(report) == report.errors = {} /\ report.controlsFailed = {}

Covers(report, expected) == expected = report.ran

(* Faulty variant: findings come first.                                    *)
FindingsFirst(report) ==
    IF report.findings # {} THEN EXIT_FINDINGS
    ELSE IF ~Complete(report) THEN EXIT_INCOMPLETE ELSE EXIT_OK

ReportExitCode(report) ==
    IF ~Complete(report) THEN EXIT_INCOMPLETE
    ELSE IF report.findings # {} THEN EXIT_FINDINGS ELSE EXIT_OK

(* _coverage_gap: there is one when the probes that ran are not the        *)
(* registered ones, or a selected probe produced nothing.                  *)
CoverageGap(report, meta) ==
    \/ report.ran # meta.registered
    \/ meta.selected \ report.ran # {}

(* to_json: what a consumer gating on metadata.complete and the findings   *)
(* reads.                                                                  *)
ToJson(report, meta) ==
    [format           |-> "json",
     complete         |-> Complete(report) /\ ~CoverageGap(report, meta),
     coverageComplete |-> ~CoverageGap(report, meta),
     findings         |-> report.findings]

(* to_table: the blocks printed, in any order, and the findings listed.    *)
ToTable(report, meta) ==
    LET gap == CoverageGap(report, meta)
    IN  [format   |-> "table",
         blocks   |-> {b \in {"PARTIAL RUN", "INCOMPLETE RUN", "POSITIVE CONTROL FAILED",
                              "CONTAINED", "No findings in what could be measured"} :
                         \/ b = "PARTIAL RUN" /\ gap
                         \/ b = "INCOMPLETE RUN" /\ report.errors # {}
                         \/ b = "POSITIVE CONTROL FAILED" /\ report.controlsFailed # {}
                         \/ b = "CONTAINED" /\ report.findings = {} /\ Complete(report) /\ ~gap
                         \/ /\ b = "No findings in what could be measured"
                            /\ report.findings = {}
                            /\ ~(Complete(report) /\ ~gap)},
         findings |-> report.findings]

(* What each reader concludes.                                             *)
SaysContained(doc) ==
    IF doc.format = "json" THEN doc.complete /\ doc.findings = {}
    ELSE "CONTAINED" \in doc.blocks

SaysIncomplete(doc) ==
    IF doc.format = "json" THEN ~doc.complete
    ELSE doc.blocks \cap {"PARTIAL RUN", "INCOMPLETE RUN", "POSITIVE CONTROL FAILED"} # {}
=============================================================================
