------------------------------- MODULE Harness -------------------------------
(***************************************************************************)
(* One run of the command line tool: the probe modules register themselves *)
(* on import (probes/__init__.py), main parses its arguments and the       *)
(* target (cli.py), run_all asks every selected probe in the order of its  *)
(* id (runner.py), and the merged report becomes an exit code and a        *)
(* document (Report).                                                      *)
(*                                                                         *)
(* A probe is known here only by its contract: what it may answer, given   *)
(* what really was the case (the history variable truth).  The modules of  *)
(* the single probes show how that contract is kept.  A finding, like an   *)
(* error, is represented by the id of the probe that reports it.           *)
(***************************************************************************)
EXTENDS Report

CONSTANTS ProbeIds,     \* the ids probe modules may declare; sorted() is <=
          NumModules,   \* how many probe modules cli.py imports, in order
          UnknownNames  \* other names an operator may give to --probe

ASSUME HarnessAssumption ==
    /\ ProbeIds \subseteq Nat /\ ProbeIds # {}
    /\ NumModules \in Nat \ {0}
    /\ UnknownNames \cap ProbeIds = {}

VARIABLES declared,   \* [module -> the id it declares]
          reachable,  \* can the harness reach the target at all?
          imported,   \* modules imported so far
          registry,   \* _REGISTRY: [id -> module]
          pc,
          args,       \* the parsed command line and the state of the target config
          selected,   \* ids handed to run_all
          todo,       \* of those, the ones run_all has not asked yet
          outcomes,   \* run_all's dict: [id -> outcome]
          truth,      \* history: [id -> what was the case when the probe ran]
          printed,    \* the document on stdout
          exit        \* exit status

vars == <<declared, reachable, imported, registry, pc, args, selected, todo,
          outcomes, truth, printed, exit>>

Modules == 1..NumModules
NotYet == -1
Interrupted == 130
UsageError == 2
NothingPrinted == [format |-> "none"]
NoArgs == [command |-> "none"]

Outcome(p) == [findings : SUBSET {p}, errors : SUBSET {p}, control : Controls]

CommandLines ==
    [command : {"list", "invalid"}]
    \cup [command : {"run"}, config : {"good", "bad"},
          probes : SUBSET (ProbeIds \cup UnknownNames), json : BOOLEAN]

Extend(f, x, v) == [y \in DOMAIN f \cup {x} |-> IF y = x THEN v ELSE f[y]]

Init ==
    /\ declared \in [Modules -> ProbeIds]
    /\ reachable \in BOOLEAN
    /\ imported = 0
    /\ registry = [p \in {} |-> 0]
    /\ pc = "importing"
    /\ args = NoArgs
    /\ selected = {} /\ todo = {}
    /\ outcomes = [p \in {} |-> 0]
    /\ truth = [p \in {} |-> "unmeasured"]
    /\ printed = NothingPrinted
    /\ exit = NotYet

Stop(code) == pc' = "done" /\ exit' = code

-----------------------------------------------------------------------------
(* Faulty variants of the definitions below; the checks show that each is  *)
(* caught.                                                                 *)

RegisterReplacing ==
    /\ pc = "importing" /\ imported < NumModules
    /\ imported' = imported + 1
    /\ registry' = Extend(registry, declared[imported + 1], imported + 1)
    /\ UNCHANGED <<declared, reachable, pc, args, selected, todo, outcomes, truth,
                   printed, exit>>

ExitCodeOfSelection ==
    LET report == MergeOutcomes(outcomes)
    IN  IF Covers(report, selected) THEN ReportExitCode(report) ELSE EXIT_INCOMPLETE

AskedUnlessError(p, t, o) ==
    /\ reachable \/ t = "unmeasured"
    /\ todo' = todo \ {p}
    /\ outcomes' = IF o.errors # {} THEN outcomes ELSE Extend(outcomes, p, o)
    /\ truth' = Extend(truth, p, t)
    /\ UNCHANGED <<declared, reachable, imported, registry, pc, args, selected, printed, exit>>

RaisedIsSkipped(p) == [findings |-> {}, errors |-> {}, control |-> "absent"]

-----------------------------------------------------------------------------
(* Importing the next probe module registers it; an id that is taken       *)
(* raises, and the interpreter ends with status 1.                         *)
Register ==
    /\ pc = "importing" /\ imported < NumModules
    /\ LET m == imported + 1
       IN  IF declared[m] \in DOMAIN registry
           THEN /\ Stop(1)
                /\ UNCHANGED <<imported, registry>>
           ELSE /\ imported' = m
                /\ registry' = Extend(registry, declared[m], m)
                /\ UNCHANGED <<pc, exit>>
    /\ UNCHANGED <<declared, reachable, args, selected, todo, outcomes, truth, printed>>

(* all_probes, and the selection main makes of it.                         *)
Registered == DOMAIN registry
Selection(a) == IF a.probes = {} THEN Registered ELSE Registered \cap a.probes

CannotStart(a) == a.config = "bad" \/ a.probes \ Registered # {}

(* main up to the call of run_all.  argparse ends the process with status  *)
(* 2 on a command line it cannot parse.                                    *)
ParseArgs ==
    /\ pc = "importing" /\ imported = NumModules
    /\ \E a \in CommandLines :
        /\ args' = a
        /\ IF a.command = "list" THEN Stop(EXIT_OK) /\ UNCHANGED <<selected, todo>>
           ELSE IF a.command = "invalid" THEN Stop(UsageError) /\ UNCHANGED <<selected, todo>>
           ELSE IF CannotStart(a) THEN Stop(EXIT_CANNOT_START) /\ UNCHANGED <<selected, todo>>
           ELSE /\ pc' = "running"
                /\ selected' = Selection(a) /\ todo' = Selection(a)
                /\ UNCHANGED exit
    /\ UNCHANGED <<declared, reachable, imported, registry, outcomes, truth, printed>>

NextProbe(p) == pc = "running" /\ p \in todo /\ \A q \in todo : p <= q

(* One turn of run_all's loop: probe p has run, o is recorded, t was the   *)
(* case.                                                                   *)
Asked(p, t, o) ==
    /\ reachable \/ t = "unmeasured"
    /\ todo' = todo \ {p}
    /\ outcomes' = Extend(outcomes, p, o)
    /\ truth' = Extend(truth, p, t)
    /\ UNCHANGED <<declared, reachable, imported, registry, pc, args, selected, printed, exit>>

ProbeReturns(p) ==
    /\ NextProbe(p)
    /\ \E t \in Truths, o \in Outcome(p) : Contract(t, o) /\ Asked(p, t, o)

(* The outcome run_all puts in the place of a probe that raised.           *)
RaisedOutcome(p) == [findings |-> {}, errors |-> {p}, control |-> "failed"]

ProbeRaises(p) ==
    /\ NextProbe(p)
    /\ \E t \in Truths : Asked(p, t, RaisedOutcome(p))

(* KeyboardInterrupt is not an Exception: it ends the process.             *)
Interrupt ==
    /\ pc = "running"
    /\ Stop(Interrupted)
    /\ UNCHANGED <<declared, reachable, imported, registry, args, selected, todo,
                   outcomes, truth, printed>>

ExitCode ==
    LET report == MergeOutcomes(outcomes)
    IN  IF Covers(report, Registered) THEN ReportExitCode(report) ELSE EXIT_INCOMPLETE

Metadata == [selected |-> selected, registered |-> Registered]

(* The rest of main once run_all has returned.                             *)
PrintReport ==
    /\ pc = "running" /\ todo = {}
    /\ printed' = IF args.json THEN ToJson(MergeOutcomes(outcomes), Metadata)
                  ELSE ToTable(MergeOutcomes(outcomes), Metadata)
    /\ Stop(ExitCode)
    /\ UNCHANGED <<declared, reachable, imported, registry, args, selected, todo,
                   outcomes, truth>>

Next ==
    \/ Register
    \/ ParseArgs
    \/ \E p \in ProbeIds : ProbeReturns(p) \/ ProbeRaises(p)
    \/ Interrupt
    \/ PrintReport

Spec == Init /\ [][Next]_vars

-----------------------------------------------------------------------------
TypeOK ==
    /\ declared \in [Modules -> ProbeIds]
    /\ reachable \in BOOLEAN
    /\ imported \in 0..NumModules
    /\ DOMAIN registry \subseteq ProbeIds
    /\ \A p \in DOMAIN registry : registry[p] \in Modules
    /\ pc \in {"importing", "running", "done"}
    /\ args \in CommandLines \cup {NoArgs}
    /\ selected \subseteq ProbeIds /\ todo \subseteq selected
    /\ DOMAIN outcomes = selected \ todo
    /\ \A p \in DOMAIN outcomes : outcomes[p] \in Outcome(p)
    /\ DOMAIN truth = DOMAIN outcomes
    /\ \A p \in DOMAIN truth : truth[p] \in Truths
    /\ exit \in {NotYet, EXIT_OK, EXIT_CANNOT_START, EXIT_INCOMPLETE, EXIT_FINDINGS, UsageError,
                Interrupted}

Assessed == printed # NothingPrinted

(* Exit status 0 of an assessment is earned: every probe module cli.py     *)
(* imports was asked under its own id, measured its invariant, and the     *)
(* invariant held.  It takes the registry, run_all's exception handler,    *)
(* the merge and the coverage rule together (README, "Exit codes": code 0  *)
(* is the only code that means the sandbox was assessed and held).         *)
ContainedIsEarned ==
    Assessed /\ exit = EXIT_OK =>
        \A m \in Modules :
            /\ declared[m] \in DOMAIN truth
            /\ registry[declared[m]] = m
            /\ truth[declared[m]] = "holds"

(* The exit status and the document are computed separately, from the      *)
(* report and from the metadata; they never tell two readers different     *)
(* things: 0 exactly when the document reads as contained, 2 exactly when  *)
(* it reads as incomplete.                                                 *)
ReadersAgree ==
    Assessed =>
        /\ exit = EXIT_OK <=> SaysContained(printed)
        /\ exit = EXIT_INCOMPLETE <=> SaysIncomplete(printed)

(* Whatever else goes wrong in a run, no broken invariant goes unsaid: the *)
(* probe that could measure it is in the printed findings, or the run is   *)
(* reported as incomplete, and what a probe found is printed even when     *)
(* another probe raised.                                                   *)
NothingFoundIsLost ==
    Assessed =>
        /\ \A p \in DOMAIN outcomes : outcomes[p].findings \subseteq printed.findings
        /\ \A p \in selected : truth[p] = "broken" =>
              p \in printed.findings \/ exit = EXIT_INCOMPLETE

(* README, "Exit codes": "Code 2 outranks code 3".  Status 3 is only       *)
(* given when nothing is missing: every probe module was asked, under its  *)
(* own id, and measured its invariant, and the document that lists the     *)
(* findings does not read as incomplete.                                   *)
FindingsAreMeasured ==
    exit = EXIT_FINDINGS =>
        /\ Assessed /\ printed.findings # {} /\ ~SaysIncomplete(printed)
        /\ \A m \in Modules :
              /\ declared[m] \in DOMAIN truth
              /\ registry[declared[m]] = m
              /\ truth[declared[m]] # "unmeasured"

(* What run_all has of probe p, as the caller of Promise sees it.          *)
AnswerOf(p) ==
    IF p \in DOMAIN outcomes
    THEN [given |-> TRUE, truth |-> truth[p],
          outcome |-> [findings |-> {f \in {"finding"} : outcomes[p].findings # {}},
                       errors   |-> {e \in {"error"} : outcomes[p].errors # {}},
                       control  |-> outcomes[p].control]]
    ELSE [given |-> FALSE]

Asker(p) == INSTANCE Promise WITH answer <- AnswerOf(p)
NobodyAnswered == \A p \in ProbeIds : Asker(p)!Init
AnswersOrWaits == \A p \in ProbeIds : [Asker(p)!Return]_(AnswerOf(p))

(* What the loop of run_all makes of each probe it asks (runner.py:20-31): *)
(* one answer, never replaced and never a clean one without a measurement, *)
(* also for a probe that raised.  It is the promise the probes implement.  *)
AsksOnce == NobodyAnswered /\ [][AnswersOrWaits]_vars

(* README, "Exit codes": status 1 is "a target the harness could not       *)
(* reach".  main never looks: each probe errors, and the status is 2.      *)
UnreachableCannotStart ==
    Assessed /\ ~reachable => exit = EXIT_CANNOT_START
=============================================================================
