---------------------------- MODULE HarnessProofs ----------------------------
(***************************************************************************)
(* Theorems about one run of the command line tool, for any number of      *)
(* probe modules, any ids they declare and any order of outcomes.          *)
(***************************************************************************)
EXTENDS Harness, TLAPS

(* The registry holds exactly the modules imported so far, each under the  *)
(* id it declares.                                                         *)
RegistryFaithful ==
    /\ \A m \in 1..imported : /\ declared[m] \in DOMAIN registry
                              /\ registry[declared[m]] = m
    /\ pc = "running" => imported = NumModules

(* What run_all has recorded respects the contract of the probes, and only *)
(* registered probes are asked.                                            *)
RecordsFaithful ==
    /\ pc = "importing" => selected = {}
    /\ selected \subseteq DOMAIN registry
    /\ \A p \in DOMAIN outcomes : Contract(truth[p], outcomes[p])

(* A printed document and the exit status stem from the final outcomes.    *)
ReportFaithful ==
    Assessed =>
        /\ pc = "done" /\ todo = {} /\ imported = NumModules
        /\ exit = ExitCode
        /\ printed \in {ToJson(MergeOutcomes(outcomes), Metadata),
                        ToTable(MergeOutcomes(outcomes), Metadata)}

IInv == TypeOK /\ RegistryFaithful /\ RecordsFaithful /\ ReportFaithful

-----------------------------------------------------------------------------
(* The initial states satisfy the inductive invariant.                    *)
LEMMA InitIInv == Init => IInv
  <1> SUFFICES ASSUME Init PROVE IInv
    OBVIOUS
  <1>1. TypeOK
    BY HarnessAssumption DEF Init, TypeOK, NoArgs, NotYet, Modules
  <1>2. RegistryFaithful /\ RecordsFaithful
    BY DEF Init, RegistryFaithful, RecordsFaithful
  <1>3. ReportFaithful
    BY DEF Init, ReportFaithful, Assessed
  <1> QED BY <1>1, <1>2, <1>3 DEF IInv

(* Recording an outcome that respects the contract keeps the invariant.    *)
LEMMA AskedIInv ==
    ASSUME IInv, NEW p \in ProbeIds, NEW t \in Truths, NEW o \in Outcome(p),
           NextProbe(p), Contract(t, o), Asked(p, t, o)
    PROVE  IInv'
  <1> USE DEF IInv, Asked
  <1>1. /\ DOMAIN outcomes' = DOMAIN outcomes \cup {p}
        /\ outcomes'[p] = o
        /\ \A q \in DOMAIN outcomes \ {p} : outcomes'[q] = outcomes[q]
    BY DEF Extend
  <1>2. /\ DOMAIN truth' = DOMAIN truth \cup {p}
        /\ truth'[p] = t
        /\ \A q \in DOMAIN truth \ {p} : truth'[q] = truth[q]
    BY DEF Extend
  <1>3. p \in todo /\ pc = "running" /\ todo \subseteq selected
    BY DEF NextProbe, TypeOK
  <1>4. DOMAIN outcomes' = selected' \ todo' /\ DOMAIN truth' = DOMAIN outcomes'
    BY <1>1, <1>2, <1>3 DEF TypeOK
  <1>5. \A q \in DOMAIN outcomes' : /\ outcomes'[q] \in Outcome(q)
                                    /\ truth'[q] \in Truths
                                    /\ Contract(truth'[q], outcomes'[q])
    BY <1>1, <1>2 DEF TypeOK, RecordsFaithful
  <1>6. TypeOK'
    BY <1>4, <1>5, <1>3 DEF TypeOK
  <1>7. RegistryFaithful' /\ RecordsFaithful'
    BY <1>3, <1>5 DEF RegistryFaithful, RecordsFaithful
  <1>8. ReportFaithful'
    BY <1>3 DEF ReportFaithful, Assessed
  <1> QED BY <1>6, <1>7, <1>8

(* Every step keeps the inductive invariant.                              *)
LEMMA NextIInv == IInv /\ [Next]_vars => IInv'
  <1> SUFFICES ASSUME IInv, [Next]_vars PROVE IInv'
    OBVIOUS
  <1>1. CASE Register
    <2> USE <1>1 DEF Register, IInv
    <2>1. CASE declared[imported + 1] \in DOMAIN registry
      BY <2>1 DEF TypeOK, RegistryFaithful, RecordsFaithful, ReportFaithful, Assessed,
                  Stop, EXIT_CANNOT_START
    <2>2. CASE declared[imported + 1] \notin DOMAIN registry
      <3>1. /\ DOMAIN registry' = DOMAIN registry \cup {declared[imported + 1]}
            /\ registry'[declared[imported + 1]] = imported + 1
            /\ \A q \in DOMAIN registry : registry'[q] = registry[q]
        BY <2>2 DEF Extend
      <3>2. imported' = imported + 1 /\ imported' \in 1..NumModules
        BY <2>2, HarnessAssumption DEF TypeOK
      <3>3. TypeOK'
        BY <2>2, <3>1, <3>2, HarnessAssumption DEF TypeOK, Modules
      <3>4. RegistryFaithful'
        <4>1. \A m \in 1..imported' : /\ declared'[m] \in DOMAIN registry'
                                      /\ registry'[declared'[m]] = m
          BY <2>2, <3>1, <3>2, HarnessAssumption DEF TypeOK, RegistryFaithful
        <4> QED BY <2>2, <4>1 DEF RegistryFaithful
      <3>5. RecordsFaithful'
        BY <2>2, <3>1 DEF RecordsFaithful
      <3>6. ReportFaithful'
        BY <2>2 DEF ReportFaithful, Assessed
      <3> QED BY <3>3, <3>4, <3>5, <3>6
    <2> QED BY <2>1, <2>2
  <1>2. CASE ParseArgs
    <2> USE <1>2 DEF ParseArgs, IInv
    <2>1. PICK a \in CommandLines :
            /\ args' = a
            /\ IF a.command = "list" THEN Stop(EXIT_OK) /\ UNCHANGED <<selected, todo>>
               ELSE IF a.command = "invalid"
               THEN Stop(UsageError) /\ UNCHANGED <<selected, todo>>
               ELSE IF CannotStart(a)
               THEN Stop(EXIT_CANNOT_START) /\ UNCHANGED <<selected, todo>>
               ELSE /\ pc' = "running"
                    /\ selected' = Selection(a) /\ todo' = Selection(a)
                    /\ UNCHANGED exit
      OBVIOUS
    <2>2. selected = {} /\ todo = {} /\ DOMAIN outcomes = {} /\ printed = NothingPrinted
      BY DEF RecordsFaithful, TypeOK, ReportFaithful, Assessed
    <2>3. Selection(a) \subseteq DOMAIN registry
      BY DEF Selection, Registered
    <2>4. TypeOK'
      BY <2>1, <2>2, <2>3 DEF TypeOK, Stop, EXIT_OK, EXIT_CANNOT_START
    <2>5. RegistryFaithful' /\ RecordsFaithful'
      BY <2>1, <2>2, <2>3 DEF RegistryFaithful, RecordsFaithful, Stop
    <2>6. ReportFaithful'
      BY <2>2 DEF ReportFaithful, Assessed
    <2> QED BY <2>4, <2>5, <2>6
  <1>3. ASSUME NEW p \in ProbeIds, ProbeReturns(p) PROVE IInv'
    BY <1>3, AskedIInv DEF ProbeReturns
  <1>4. ASSUME NEW p \in ProbeIds, ProbeRaises(p) PROVE IInv'
    <2>1. RaisedOutcome(p) \in Outcome(p)
      BY DEF RaisedOutcome, Outcome, Controls
    <2>2. \A t \in Truths : Contract(t, RaisedOutcome(p))
      BY DEF Contract, RaisedOutcome
    <2> QED BY <1>4, <2>1, <2>2, AskedIInv DEF ProbeRaises
  <1>5. CASE Interrupt
    BY <1>5 DEF Interrupt, Stop, Interrupted, IInv, TypeOK, RegistryFaithful,
                RecordsFaithful, ReportFaithful, Assessed
  <1>6. CASE PrintReport
    <2> USE <1>6 DEF PrintReport, Stop, IInv
    <2>1. exit' \in {EXIT_OK, EXIT_INCOMPLETE, EXIT_FINDINGS}
      BY DEF ExitCode, ReportExitCode
    <2>2. TypeOK'
      BY <2>1 DEF TypeOK
    <2>3. RegistryFaithful' /\ RecordsFaithful'
      BY DEF RegistryFaithful, RecordsFaithful
    <2>4. ReportFaithful'
      <3>1. ExitCode' = ExitCode /\ Metadata' = Metadata
        BY DEF ExitCode, Metadata, Registered
      <3> QED BY <3>1 DEF ReportFaithful, RegistryFaithful, Assessed
    <2> QED BY <2>2, <2>3, <2>4
  <1>7. CASE UNCHANGED vars
    <2>1. ExitCode' = ExitCode /\ Metadata' = Metadata
      BY <1>7 DEF vars, ExitCode, Metadata, Registered
    <2> QED BY <1>7, <2>1 DEF vars, IInv, TypeOK, RegistryFaithful, RecordsFaithful,
                              ReportFaithful, Assessed
  <1> QED BY <1>1, <1>2, <1>3, <1>4, <1>5, <1>6, <1>7 DEF Next

(* The strengthening is an invariant.                                      *)
THEOREM IInvHolds == Spec => []IInv
  BY InitIInv, NextIInv, PTL DEF Spec

(* Every variable keeps its type, whatever ids the modules declare.        *)
THEOREM TypeCorrect == Spec => []TypeOK
  BY IInvHolds, PTL DEF IInv

-----------------------------------------------------------------------------
(* What exit status 0 means of the merged report.                          *)
LEMMA ZeroMeansCleanAndCovered ==
    ASSUME ExitCode = EXIT_OK
    PROVE  /\ DOMAIN outcomes = Registered
           /\ \A p \in DOMAIN outcomes : /\ outcomes[p].findings = {}
                                         /\ outcomes[p].errors = {}
                                         /\ outcomes[p].control # "failed"
  <1> DEFINE report == MergeOutcomes(outcomes)
  <1>1. Covers(report, Registered) /\ Complete(report) /\ report.findings = {}
    BY DEF ExitCode, ReportExitCode, EXIT_OK, EXIT_INCOMPLETE, EXIT_FINDINGS
  <1> QED BY <1>1 DEF Covers, Complete, MergeOutcomes, ControlsFailed

(* Exit status 0 is earned: every imported probe module measured its       *)
(* invariant and found it to hold (cli.py, runner.py, result.py).          *)
THEOREM ContainedIsEarnedHolds == Spec => []ContainedIsEarned
  <1>1. IInv => ContainedIsEarned
    <2> SUFFICES ASSUME IInv, Assessed, exit = EXIT_OK, NEW m \in Modules
                 PROVE  /\ declared[m] \in DOMAIN truth
                        /\ registry[declared[m]] = m
                        /\ truth[declared[m]] = "holds"
      BY DEF ContainedIsEarned
    <2>1. imported = NumModules /\ ExitCode = EXIT_OK /\ todo = {}
      BY DEF IInv, ReportFaithful
    <2>2. declared[m] \in Registered /\ registry[declared[m]] = m
      BY <2>1 DEF IInv, RegistryFaithful, Modules, Registered
    <2>3. declared[m] \in DOMAIN outcomes /\ DOMAIN truth = DOMAIN outcomes
      BY <2>1, <2>2, ZeroMeansCleanAndCovered DEF IInv, TypeOK
    <2>4. truth[declared[m]] = "holds"
      BY <2>1, <2>3, ZeroMeansCleanAndCovered DEF IInv, RecordsFaithful, Contract
    <2> QED BY <2>2, <2>3, <2>4
  <1> QED BY <1>1, IInvHolds, PTL

(* What the readers of one final state conclude.                           *)
LEMMA ReadersAgreeStep == IInv => ReadersAgree
  <1> SUFFICES ASSUME IInv, Assessed
               PROVE  /\ exit = EXIT_OK <=> SaysContained(printed)
                      /\ exit = EXIT_INCOMPLETE <=> SaysIncomplete(printed)
    BY DEF ReadersAgree
  <1> DEFINE report == MergeOutcomes(outcomes)
  <1>1. selected \subseteq Registered /\ exit = ExitCode
    BY DEF IInv, RecordsFaithful, ReportFaithful, Registered
  <1>2. CoverageGap(report, Metadata) <=> ~Covers(report, Registered)
    BY <1>1 DEF CoverageGap, Covers, Metadata, MergeOutcomes
  <1>3. /\ exit = EXIT_OK <=> /\ Covers(report, Registered)
                             /\ Complete(report) /\ report.findings = {}
        /\ exit = EXIT_INCOMPLETE <=> ~(Covers(report, Registered) /\ Complete(report))
    BY <1>1 DEF ExitCode, ReportExitCode, EXIT_OK, EXIT_INCOMPLETE, EXIT_FINDINGS
  <1>4. CASE printed = ToJson(report, Metadata)
    <2>1. printed.format = "json" /\ printed.findings = report.findings
      BY <1>4 DEF ToJson
    <2>2. printed.complete = (Complete(report) /\ ~CoverageGap(report, Metadata))
      BY <1>4, Zenon DEF ToJson
    <2>3. printed.complete <=> Complete(report) /\ ~CoverageGap(report, Metadata)
      BY <2>2
    <2>4. SaysContained(printed) <=> /\ Covers(report, Registered)
                                     /\ Complete(report) /\ report.findings = {}
      BY <2>1, <2>3, <1>2, Zenon DEF SaysContained
    <2>5. SaysIncomplete(printed) <=> ~(Covers(report, Registered) /\ Complete(report))
      BY <2>1, <2>3, <1>2, Zenon DEF SaysIncomplete
    <2> QED BY <2>4, <2>5, <1>3, Zenon
  <1>5. CASE printed = ToTable(report, Metadata)
    <2>1. "CONTAINED" \in printed.blocks <=>
            report.findings = {} /\ Complete(report) /\ ~CoverageGap(report, Metadata)
      BY <1>5 DEF ToTable
    <2>2. printed.blocks \cap {"PARTIAL RUN", "INCOMPLETE RUN", "POSITIVE CONTROL FAILED"} # {}
            <=> CoverageGap(report, Metadata) \/ ~Complete(report)
      BY <1>5 DEF ToTable, Complete
    <2>3. printed.format = "table"
      BY <1>5 DEF ToTable
    <2> QED BY <2>1, <2>2, <2>3, <1>2, <1>3 DEF SaysContained, SaysIncomplete
  <1> QED BY <1>4, <1>5 DEF IInv, ReportFaithful

(* The exit status, the JSON document and the table never disagree, though *)
(* cli.py takes one from the report's coverage and render.py the others    *)
(* from the metadata.                                                      *)
THEOREM ReadersAgreeHolds == Spec => []ReadersAgree
  BY ReadersAgreeStep, IInvHolds, PTL

(* No finding of any probe and no broken invariant goes unsaid, whatever   *)
(* happens to the other probes of the run (runner.py, result.py).          *)
THEOREM NothingFoundIsLostHolds == Spec => []NothingFoundIsLost
  <1>1. IInv => NothingFoundIsLost
    <2> SUFFICES ASSUME IInv, Assessed PROVE NothingFoundIsLost
      BY DEF NothingFoundIsLost
    <2> DEFINE report == MergeOutcomes(outcomes)
    <2>1. printed.findings = report.findings
      <3>1. CASE printed = ToJson(report, Metadata)
        BY <3>1 DEF ToJson
      <3>2. CASE printed = ToTable(report, Metadata)
        BY <3>2 DEF ToTable
      <3> QED BY <3>1, <3>2 DEF IInv, ReportFaithful
    <2>2. \A p \in DOMAIN outcomes : outcomes[p].findings \subseteq printed.findings
      BY <2>1 DEF MergeOutcomes
    <2>3. ASSUME NEW p \in selected, truth[p] = "broken", p \notin printed.findings
          PROVE  exit = EXIT_INCOMPLETE
      <3>1. p \in DOMAIN outcomes /\ outcomes[p] \in Outcome(p) /\ Contract(truth[p], outcomes[p])
        BY <2>3 DEF IInv, TypeOK, RecordsFaithful, ReportFaithful
      <3>2. outcomes[p].findings = {}
        BY <2>2, <2>3, <3>1 DEF Outcome
      <3>3. outcomes[p].errors # {} \/ outcomes[p].control = "failed"
        BY <2>3, <3>1, <3>2 DEF Contract
      <3>4. ~Complete(report)
        BY <3>1, <3>3 DEF Complete, MergeOutcomes, ControlsFailed
      <3> QED BY <3>4 DEF IInv, ReportFaithful, ExitCode, ReportExitCode
    <2> QED BY <2>2, <2>3 DEF NothingFoundIsLost
  <1> QED BY <1>1, IInvHolds, PTL

-----------------------------------------------------------------------------
(* Where a status comes from when no report was printed, and that nothing  *)
(* was asked before the run started.                                       *)
StatusOrigin ==
    /\ pc # "done" => exit = NotYet
    /\ pc = "importing" => DOMAIN outcomes = {}
    /\ exit = EXIT_OK => Assessed \/ args.command = "list"
    /\ exit = EXIT_INCOMPLETE => Assessed \/ args.command = "invalid"
    /\ exit = EXIT_FINDINGS => Assessed
    /\ exit = EXIT_CANNOT_START => DOMAIN outcomes = {} /\ ~Assessed
    /\ imported < NumModules => pc = "importing" \/ exit = EXIT_CANNOT_START

(* Statuses are told apart by their numbers, 2 aside, which argparse uses. *)
LEMMA StatusOriginStep == IInv /\ StatusOrigin /\ [Next]_vars => StatusOrigin'
  <1> SUFFICES ASSUME IInv, StatusOrigin, [Next]_vars PROVE StatusOrigin'
    OBVIOUS
  <1> USE DEF StatusOrigin, Assessed, NotYet, EXIT_OK, EXIT_INCOMPLETE, EXIT_FINDINGS,
              EXIT_CANNOT_START, UsageError, Interrupted
  <1>0. imported \in 0..NumModules /\ NumModules \in Nat
    BY HarnessAssumption DEF IInv, TypeOK
  <1>1. CASE Register
    <2>1. printed = NothingPrinted /\ imported + 1 <= NumModules /\ pc = "importing"
      BY <1>0, <1>1 DEF Register, IInv, ReportFaithful
    <2> QED BY <2>1, <1>0, <1>1 DEF Register, Stop
  <1>2. CASE ParseArgs
    <2>1. printed = NothingPrinted /\ pc = "importing" /\ imported = NumModules
      BY <1>2 DEF ParseArgs, IInv, ReportFaithful
    <2>2. exit = NotYet
      BY <2>1
    <2> QED BY <1>0, <2>1, <2>2, <1>2 DEF ParseArgs, Stop
  <1>3. ASSUME NEW p \in ProbeIds, ProbeReturns(p) \/ ProbeRaises(p) PROVE StatusOrigin'
    <2>1. pc = "running" /\ UNCHANGED <<imported, pc, args, printed, exit>>
      BY <1>3 DEF ProbeReturns, ProbeRaises, NextProbe, Asked
    <2> QED BY <2>1
  <1>4. CASE Interrupt
    BY <1>4 DEF Interrupt, Stop
  <1>5. CASE PrintReport
    <2>1. exit' \in {EXIT_OK, EXIT_INCOMPLETE, EXIT_FINDINGS} /\ pc' = "done"
      BY <1>5 DEF PrintReport, Stop, ExitCode, ReportExitCode
    <2>2. printed' # NothingPrinted
      BY <1>5 DEF PrintReport, NothingPrinted, ToJson, ToTable
    <2> QED BY <2>1, <2>2, <1>5 DEF PrintReport
  <1>6. CASE UNCHANGED vars
    BY <1>6 DEF vars
  <1> QED BY <1>1, <1>2, <1>3, <1>4, <1>5, <1>6 DEF Next

(* What a status says of a run that printed nothing (cli.py, README "Exit  *)
(* codes"): 3 never, 0 only for --list-probes, 1 only when no probe was    *)
(* asked.  2 is shared: a command line argparse cannot parse has it too.   *)
THEOREM StatusOriginHolds == Spec => []StatusOrigin
  <1>1. Init => StatusOrigin
    BY HarnessAssumption DEF Init, StatusOrigin, NotYet, EXIT_OK, EXIT_INCOMPLETE, EXIT_FINDINGS,
       EXIT_CANNOT_START
  <1> QED BY <1>1, StatusOriginStep, IInvHolds, PTL DEF Spec

(* Status 3 is earned as well (result.py, exit_code: 2 outranks 3): nothing *)
(* is missing from a run that ends with it, and the document says so.      *)
THEOREM FindingsAreMeasuredHolds == Spec => []FindingsAreMeasured
  <1>1. IInv /\ StatusOrigin => FindingsAreMeasured
    <2> SUFFICES ASSUME IInv, StatusOrigin, exit = EXIT_FINDINGS PROVE FindingsAreMeasured
      BY DEF FindingsAreMeasured
    <2> DEFINE report == MergeOutcomes(outcomes)
    <2>1. Assessed /\ exit = ExitCode /\ todo = {} /\ imported = NumModules
      BY DEF IInv, ReportFaithful, StatusOrigin, EXIT_FINDINGS, EXIT_OK, EXIT_CANNOT_START,
             UsageError, NotYet, Interrupted
    <2>2. Covers(report, Registered) /\ Complete(report) /\ report.findings # {}
      BY <2>1 DEF ExitCode, ReportExitCode, EXIT_OK, EXIT_INCOMPLETE, EXIT_FINDINGS
    <2>3. printed.findings = report.findings
      <3>1. CASE printed = ToJson(report, Metadata)
        BY <3>1 DEF ToJson
      <3>2. CASE printed = ToTable(report, Metadata)
        BY <3>2 DEF ToTable
      <3> QED BY <2>1, <3>1, <3>2 DEF IInv, ReportFaithful
    <2>4. ~SaysIncomplete(printed)
      <3>1. exit # EXIT_INCOMPLETE
        BY DEF EXIT_INCOMPLETE, EXIT_FINDINGS
      <3> QED BY <2>1, <3>1, ReadersAgreeStep DEF ReadersAgree
    <2>5. ASSUME NEW m \in Modules
          PROVE  /\ declared[m] \in DOMAIN truth
                 /\ registry[declared[m]] = m
                 /\ truth[declared[m]] # "unmeasured"
      <3>1. declared[m] \in Registered /\ registry[declared[m]] = m
        BY <2>1 DEF IInv, RegistryFaithful, Modules, Registered
      <3>2. declared[m] \in DOMAIN outcomes /\ DOMAIN truth = DOMAIN outcomes
        BY <3>1, <2>2 DEF Covers, MergeOutcomes, IInv, TypeOK
      <3>3. outcomes[declared[m]].errors = {} /\ outcomes[declared[m]].control # "failed"
        BY <3>2, <2>2 DEF Complete, MergeOutcomes, ControlsFailed
      <3>4. Contract(truth[declared[m]], outcomes[declared[m]])
        BY <3>2 DEF IInv, RecordsFaithful
      <3> QED BY <3>1, <3>2, <3>3, <3>4 DEF Contract
    <2> QED BY <2>1, <2>2, <2>3, <2>4, <2>5 DEF FindingsAreMeasured
  <1> QED BY <1>1, IInvHolds, StatusOriginHolds, PTL

-----------------------------------------------------------------------------
(* A target that cannot be reached is measured by no probe.                *)
NothingMeasured == ~reachable => \A p \in DOMAIN truth : truth[p] = "unmeasured"

(* Only a probe that reaches the target measures anything.                 *)
LEMMA NothingMeasuredStep == NothingMeasured /\ [Next]_vars => NothingMeasured'
  <1> SUFFICES ASSUME NothingMeasured, [Next]_vars PROVE NothingMeasured'
    OBVIOUS
  <1>1. ASSUME NEW p, NEW t, NEW o, Asked(p, t, o) PROVE NothingMeasured'
    BY <1>1 DEF Asked, Extend, NothingMeasured
  <1>2. ASSUME NEW p \in ProbeIds, ProbeReturns(p) \/ ProbeRaises(p) PROVE NothingMeasured'
    BY <1>1, <1>2 DEF ProbeReturns, ProbeRaises
  <1>3. CASE Register \/ ParseArgs \/ Interrupt \/ PrintReport \/ UNCHANGED vars
    <2>1. UNCHANGED <<reachable, truth>>
      BY <1>3 DEF Register, ParseArgs, Interrupt, PrintReport, vars
    <2> QED BY <2>1 DEF NothingMeasured
  <1> QED BY <1>2, <1>3 DEF Next

(* What the documented status 1 for an unreachable target comes to: a run  *)
(* against it is never read as contained, nor as one with findings only;   *)
(* its status is 2 and the document reads as incomplete, whichever probes  *)
(* were selected and however each of them fails.                           *)
THEOREM UnreachableIsIncomplete ==
    Spec => [](Assessed /\ ~reachable => exit = EXIT_INCOMPLETE /\ SaysIncomplete(printed))
  <1>1. Init => NothingMeasured
    BY DEF Init, NothingMeasured
  <1>2. ASSUME IInv, NothingMeasured, Assessed, ~reachable
        PROVE  exit = EXIT_INCOMPLETE /\ SaysIncomplete(printed)
    <2> DEFINE report == MergeOutcomes(outcomes)
    <2>1. exit = ExitCode /\ DOMAIN truth = DOMAIN outcomes /\ imported = NumModules
      BY <1>2 DEF IInv, ReportFaithful, TypeOK
    <2>2. ASSUME DOMAIN outcomes = {} PROVE exit = EXIT_INCOMPLETE
      <3>1. 1 \in 1..imported
        BY <2>1, HarnessAssumption
      <3>2. Registered # {}
        BY <1>2, <3>1 DEF IInv, RegistryFaithful, Registered
      <3>3. ~Covers(report, Registered)
        BY <2>2, <3>2 DEF Covers, MergeOutcomes
      <3> QED BY <2>1, <3>3 DEF ExitCode
    <2>3. ASSUME NEW p \in DOMAIN outcomes PROVE exit = EXIT_INCOMPLETE
      <3>1. Contract("unmeasured", outcomes[p])
        BY <1>2, <2>1 DEF IInv, RecordsFaithful, NothingMeasured
      <3>2. ~Complete(report)
        BY <3>1 DEF Contract, Complete, MergeOutcomes, ControlsFailed
      <3> QED BY <2>1, <3>2 DEF ExitCode, ReportExitCode
    <2>4. exit = EXIT_INCOMPLETE
      BY <2>2, <2>3
    <2> QED BY <1>2, <2>4, ReadersAgreeStep DEF ReadersAgree
  <1> QED BY <1>1, <1>2, NothingMeasuredStep, IInvHolds, PTL DEF Spec

(* "A --probe subset run always exits 2, even when it finds nothing"       *)
(* (README, "Running a subset"): the status of a run that left out a       *)
(* registered probe is 2, whatever the others answered.                    *)
THEOREM SubsetIsIncomplete ==
    Spec => [](Assessed /\ selected # Registered => exit = EXIT_INCOMPLETE)
  <1>1. IInv => (Assessed /\ selected # Registered => exit = EXIT_INCOMPLETE)
    <2> SUFFICES ASSUME IInv, Assessed, selected # Registered PROVE exit = EXIT_INCOMPLETE
      OBVIOUS
    <2>1. exit = ExitCode /\ DOMAIN outcomes = selected
      BY DEF IInv, ReportFaithful, TypeOK
    <2> QED BY <2>1 DEF ExitCode, Covers, MergeOutcomes
  <1> QED BY <1>1, IInvHolds, PTL

(* Two probe modules that declare one id never get as far as a run: no     *)
(* probe is asked, nothing is printed, and the process ends with status 1  *)
(* (probes/__init__.py, register).                                                  *)
ClashNeverRuns ==
    (\E m, n \in Modules : m # n /\ declared[m] = declared[n]) =>
        ~Assessed /\ DOMAIN outcomes = {} /\ exit \in {NotYet, EXIT_CANNOT_START}

(* Holds for any number of modules and whichever two of them clash, next   *)
(* to each other in the order of the imports or not.                       *)
THEOREM ClashTheorem == Spec => []ClashNeverRuns
  <1>1. IInv /\ StatusOrigin => ClashNeverRuns
    <2> SUFFICES ASSUME IInv, StatusOrigin, NEW m \in Modules, NEW n \in Modules, m # n,
                        declared[m] = declared[n]
                 PROVE  ~Assessed /\ DOMAIN outcomes = {} /\ exit \in {NotYet, EXIT_CANNOT_START}
      BY DEF ClashNeverRuns
    <2>1. ~(m \in 1..imported /\ n \in 1..imported)
      BY DEF IInv, RegistryFaithful
    <2>2. imported < NumModules
      BY <2>1, HarnessAssumption DEF IInv, TypeOK, Modules
    <2>3. ~Assessed
      BY <2>2, HarnessAssumption DEF IInv, ReportFaithful
    <2> QED BY <2>2, <2>3 DEF StatusOrigin
  <1> QED BY <1>1, IInvHolds, StatusOriginHolds, PTL

-----------------------------------------------------------------------------
(* An outcome of a probe, with its findings and errors counted as none or  *)
(* some, keeps the contract if the outcome itself does.                    *)
LEMMA AnswerIsPromised ==
    ASSUME NEW p \in ProbeIds, NEW t \in Truths, NEW o \in Outcome(p), Contract(t, o),
           p \notin DOMAIN outcomes, Asked(p, t, o)
    PROVE  Asker(p)!Return
  <1> DEFINE told == [findings |-> {f \in {"finding"} : o.findings # {}},
                      errors   |-> {e \in {"error"} : o.errors # {}},
                      control  |-> o.control]
             given == [given |-> TRUE, truth |-> t, outcome |-> told]
  <1>1. AnswerOf(p)' = given
    <2>1. p \in DOMAIN outcomes' /\ outcomes'[p] = o /\ truth'[p] = t
      BY DEF Asked, Extend
    <2> QED BY <2>1 DEF AnswerOf
  <1>2. AnswerOf(p) = [given |-> FALSE]
    BY DEF AnswerOf
  <1>3. told \in [findings : SUBSET {"finding"}, errors : SUBSET {"error"}, control : Controls]
    BY DEF Outcome
  <1>4. /\ told.findings = {} <=> o.findings = {}
        /\ told.errors = {} <=> o.errors = {}
        /\ told.control = o.control
    OBVIOUS
  <1>5. Asker(p)!Contract(t, told)
    BY <1>4 DEF Asker!Contract, Contract
  <1>6. given \in Asker(p)!Answers
    BY <1>3 DEF Asker!Answers, Asker!Truths, Asker!Controls, Truths, Controls
  <1> QED BY <1>1, <1>2, <1>5, <1>6 DEF Asker!Return, Asker!Waiting

(* One turn of the loop answers for the probe it asked and for no other.   *)
LEMMA OthersKeepTheirAnswer ==
    ASSUME DOMAIN truth = DOMAIN outcomes, NEW p, NEW t, NEW o, Asked(p, t, o), NEW q, q # p
    PROVE  AnswerOf(q)' = AnswerOf(q)
  <1>1. /\ q \in DOMAIN outcomes' <=> q \in DOMAIN outcomes
        /\ q \in DOMAIN outcomes => outcomes'[q] = outcomes[q] /\ truth'[q] = truth[q]
    BY DEF Asked, Extend
  <1> QED BY <1>1 DEF AnswerOf

(* Each probe is asked at most once, its answer stays as it is, and it     *)
(* keeps the promise: run_all, which also answers for a probe that raised, *)
(* is an implementation of Promise for every id, for any number of probes  *)
(* and whatever they do (runner.py:20-31).                                 *)
THEOREM AsksOnceTheorem == Spec => AsksOnce
  <1>1. Init => NobodyAnswered
    BY DEF Init, NobodyAnswered, Asker!Init, Asker!Waiting, AnswerOf
  <1>2. ASSUME IInv, [Next]_vars PROVE AnswersOrWaits
    <2>1. DOMAIN truth = DOMAIN outcomes /\ DOMAIN outcomes = selected \ todo
      BY <1>2 DEF IInv, TypeOK
    <2>2. ASSUME NEW p \in ProbeIds, NEW t \in Truths, NEW o \in Outcome(p), Contract(t, o),
                 NextProbe(p), Asked(p, t, o)
          PROVE  AnswersOrWaits
      <3>1. p \notin DOMAIN outcomes
        BY <2>1, <2>2 DEF NextProbe
      <3>2. Asker(p)!Return
        BY <2>2, <3>1, AnswerIsPromised
      <3>3. \A q \in ProbeIds : q # p => AnswerOf(q)' = AnswerOf(q)
        BY <2>1, <2>2, OthersKeepTheirAnswer
      <3> QED BY <3>2, <3>3 DEF AnswersOrWaits
    <2>3. ASSUME NEW p \in ProbeIds, ProbeReturns(p) PROVE AnswersOrWaits
      BY <2>2, <2>3 DEF ProbeReturns
    <2>4. ASSUME NEW p \in ProbeIds, ProbeRaises(p) PROVE AnswersOrWaits
      <3>1. RaisedOutcome(p) \in Outcome(p) /\ \A t \in Truths : Contract(t, RaisedOutcome(p))
        BY DEF RaisedOutcome, Outcome, Controls, Contract
      <3> QED BY <2>2, <2>4, <3>1 DEF ProbeRaises
    <2>5. CASE Register \/ ParseArgs \/ Interrupt \/ PrintReport \/ UNCHANGED vars
      <3>1. UNCHANGED <<outcomes, truth>>
        BY <2>5 DEF Register, ParseArgs, Interrupt, PrintReport, vars
      <3> QED BY <3>1 DEF AnswersOrWaits, AnswerOf
    <2> QED BY <1>2, <2>3, <2>4, <2>5 DEF Next
  <1>3. IInv /\ [Next]_vars => [AnswersOrWaits]_vars
    BY <1>2
  <1> QED BY <1>1, <1>3, IInvHolds, PTL DEF Spec, AsksOnce
=============================================================================
