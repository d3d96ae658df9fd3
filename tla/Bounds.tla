-------------------------------- MODULE Bounds --------------------------------
(***************************************************************************)
(* The bounds probe (probes/bounds.py), several runs of it against the     *)
(* same sandbox: the first exec reads the caps and leaves a marker, the    *)
(* sandbox is reset, the second exec looks for the marker and removes it.  *)
(* The sandbox and the reset are those of module Sandbox.                  *)
(***************************************************************************)
EXTENDS Sandbox, Caps

CONSTANTS Setups,   \* limits a sandbox under test can have
          MaxRuns   \* bound: runs of the probe

ASSUME BoundsAssumption == Setups \subseteq Limits /\ MaxRuns \in Nat \ {0}

VARIABLES resettable,  \* reset_command is configured
          limits,      \* the caps of the sandbox
          run,         \* which run this is
          pc,
          findings, errors, control,   \* the outcome of the run
          wroteIn,     \* history: generation in which this run's write was confirmed
          seenIn,      \* history: generation in which the marker was found again
          seen,        \* history: whose marker that was
          removing     \* history: this run has asked for a removal

config == <<resettable, limits>>
outcome == <<findings, errors, control>>
history == <<wroteIn, seenIn, seen, removing>>
vars == <<setup, sandbox, resetting, config, run, pc, outcome, history>>

Init ==
    /\ SandboxInit
    /\ resettable \in BOOLEAN /\ limits \in Setups
    /\ run = 1 /\ pc = "first"
    /\ findings = {} /\ errors = {} /\ control = "none"
    /\ wroteIn = 0 /\ seenIn = 0 /\ seen = {} /\ removing = FALSE

-----------------------------------------------------------------------------
(* Faulty variants of the definitions below; the checks show that each is  *)
(* caught.                                                                 *)

AbsentIsEnough(wrote, present) == ~present

CleanupSwallowed(left) == {}

-----------------------------------------------------------------------------
(* Both halves of the precondition: this run's marker, and no other.       *)
Measurable(wrote, present) == wrote /\ ~present

(* _marker_cleanup_error: what is still there could not be removed.        *)
CleanupErrors(left) == IF left # {} THEN {"cleanup"} ELSE {}

(* The first exec answers: caps, and the marker.                           *)
FirstAnswers ==
    /\ pc = "first" /\ Answers
    /\ Write(run)
    /\ wroteIn' = IF writable THEN generation ELSE 0
    /\ IF ~resettable
       THEN /\ findings' = CapFindings(limits) \cup {"no_reset_configured"}
            /\ control' = "failed" /\ pc' = "cleanup"
            /\ UNCHANGED <<errors, resetting>>
       ELSE /\ findings' = CapFindings(limits)
            /\ IF Measurable(writable, marker # {})
               THEN pc' = "reset" /\ BeginReset /\ UNCHANGED <<errors, control>>
               ELSE /\ errors' = {"marker"} /\ control' = "failed" /\ pc' = "cleanup"
                    /\ UNCHANGED resetting
    /\ UNCHANGED <<setup, phase, generation, restarting, late, overtaken, config, run,
                   seenIn, seen, removing>>

(* It does not: the run is over, and nothing is removed.                   *)
FirstLost ==
    /\ pc = "first"
    /\ ExecLost("write", run)
    /\ errors' = {"exec"} /\ control' = "failed" /\ pc' = "done"
    /\ UNCHANGED <<setup, phase, generation, restarting, overtaken, resetting, config, run,
                   findings, history>>

Resetting ==
    /\ pc = "reset" /\ ResetStep
    /\ UNCHANGED <<setup, config, run, pc, outcome, history>>

ResetConfirmed ==
    /\ pc = "reset" /\ reset = "done"
    /\ pc' = "second"
    /\ UNCHANGED <<setup, sandbox, resetting, config, run, outcome, history>>

ResetFailed ==
    /\ pc = "reset" /\ reset = "failed"
    /\ errors' = {"reset"} /\ control' = "failed" /\ pc' = "cleanup"
    /\ UNCHANGED <<setup, sandbox, resetting, config, run, findings, history>>

(* The second exec answers: is the marker there, and could it be removed?  *)
SecondAnswers ==
    /\ pc = "second" /\ Answers
    /\ findings' = findings \cup (IF marker # {} THEN {"persists_across_runs"} ELSE {})
    /\ marker' \in {{}, marker}
    /\ errors' = CleanupErrors(marker')
    /\ control' = "held" /\ pc' = "done"
    /\ seenIn' = generation /\ seen' = marker /\ removing' = TRUE
    /\ UNCHANGED <<setup, phase, generation, restarting, late, overtaken, resetting, config,
                   run, wroteIn>>

SecondLost ==
    /\ pc = "second"
    /\ ExecLost("remove", run)
    /\ errors' = {"exec"} /\ control' = "failed" /\ pc' = "done" /\ removing' = TRUE
    /\ UNCHANGED <<setup, phase, generation, restarting, overtaken, resetting, config, run,
                   findings, wroteIn, seenIn, seen>>

(* _cleanup, on the paths that do not get to the second exec.              *)
CleanupAnswers ==
    /\ pc = "cleanup" /\ Answers
    /\ marker' \in {{}, marker}
    /\ errors' = errors \cup CleanupErrors(marker')
    /\ pc' = "done" /\ removing' = TRUE
    /\ UNCHANGED <<setup, phase, generation, restarting, late, overtaken, resetting, config,
                   run, findings, control, wroteIn, seenIn, seen>>

CleanupLost ==
    /\ pc = "cleanup"
    /\ ExecLost("remove", run)
    /\ errors' = errors \cup {"exec"} /\ pc' = "done" /\ removing' = TRUE
    /\ UNCHANGED <<setup, phase, generation, restarting, overtaken, resetting, config, run,
                   findings, control, wroteIn, seenIn, seen>>

(* The operator runs the tool again.                                       *)
RunAgain ==
    /\ pc = "done" /\ run < MaxRuns
    /\ run' = run + 1 /\ pc' = "first"
    /\ findings' = {} /\ errors' = {} /\ control' = "none"
    /\ wroteIn' = 0 /\ seenIn' = 0 /\ seen' = {} /\ removing' = FALSE
    /\ reset' = "idle" /\ before' = NoIdentity /\ attempts' = 0 /\ overtaken' = FALSE
    /\ UNCHANGED <<setup, phase, generation, restarting, marker, late, config>>

ProbeStep ==
    \/ FirstAnswers \/ FirstLost
    \/ Resetting \/ ResetConfirmed \/ ResetFailed
    \/ SecondAnswers \/ SecondLost \/ CleanupAnswers \/ CleanupLost

Next ==
    \/ ProbeStep
    \/ RunAgain
    \/ SandboxStep /\ UNCHANGED <<setup, resetting, config, run, pc, outcome, history>>

(* Every exec and every command of the harness has a timeout.              *)
Spec == Init /\ [][Next]_vars /\ WF_vars(ProbeStep)

-----------------------------------------------------------------------------
TypeOK ==
    /\ SandboxTypeOK
    /\ resettable \in BOOLEAN /\ limits \in Setups /\ run \in 1..MaxRuns
    /\ pc \in {"first", "reset", "second", "cleanup", "done"}
    /\ findings \subseteq CapFindings(limits) \cup {"no_reset_configured", "persists_across_runs"}
    /\ errors \subseteq {"exec", "marker", "reset", "cleanup"}
    /\ control \in {"none", "held", "failed"}
    /\ wroteIn \in 0..generation /\ seenIn \in 0..generation
    /\ seen \subseteq 1..run /\ removing \in BOOLEAN

Clean == pc = "done" /\ control = "held" /\ errors = {} /\ findings = {}

(* bounds.py:39-54 and target.py:92-96: "survives a reset" is said only of *)
(* this run's own marker, and, if the sandbox had said who it was before   *)
(* the reset, only of a sandbox that was started since and does keep its   *)
(* workspace.  Neither an old marker nor a container on its way down leads *)
(* to that finding; a payload of an earlier run that wakes up meanwhile    *)
(* can put another marker in the place of this run's.                      *)
PersistsIsTruthful ==
    "persists_across_runs" \in findings =>
        /\ ~overtaken => seen = {run}
        /\ before # NoIdentity => seenIn > wroteIn /\ ~disposable

(* A clean run saw its own write disposed of (bounds.py:46-54): the write  *)
(* happened; a reset that compared identities was followed by a look at a  *)
(* sandbox started since; and with either kind of readiness the workspace  *)
(* was wiped by a restart, unless a payload of an earlier run that outlived*)
(* its exec removed the marker, which the probe cannot tell apart.         *)
CleanMeansDisposed ==
    Clean =>
        /\ wroteIn > 0
        /\ before # NoIdentity => seenIn > wroteIn
        /\ ~overtaken => disposable /\ seenIn > wroteIn

(* bounds.py:8-37, 104-136, 192-236: each run that got an answer reports as*)
(* uncapped exactly the resources without a limit, whichever hierarchy the *)
(* files are in and however it writes "none"; a limit the sandbox cannot   *)
(* see counts as none.                                                     *)
CapsAreTold ==
    pc = "done" /\ removing =>
        findings \ {"no_reset_configured", "persists_across_runs"} = Uncapped(limits)

(* A marker left behind by a run is never silent: the run that ends with   *)
(* its marker in the workspace, or with a payload still about to put it    *)
(* there, has errors and so cannot count as complete.                      *)
LeftMarkerIsAnError ==
    pc = "done" /\ (run \in marker \/ [op |-> "write", run |-> run] \in late) => errors # {}

(* Every run of the probe ends: the wait for the reset is bounded, whatever*)
(* the sandbox does.                                                       *)
EveryRunEnds == \A r \in 1..MaxRuns : (run = r) ~> (run = r /\ pc = "done")

(* bounds.py:56-63: "The marker this probe writes is always removed before *)
(* the probe finishes, on every path".  When the answer to the first exec  *)
(* is lost, nothing asks for a removal.                                    *)
MarkerRemovedOnEveryPath ==
    pc = "done" /\ run \in marker => removing
=============================================================================
