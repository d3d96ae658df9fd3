------------------------------- MODULE Sandbox -------------------------------
(***************************************************************************)
(* The sandbox under test as the harness reaches it (target.py): commands  *)
(* run inside it, which may fail, lose their answer or be executed long    *)
(* after the harness gave up on them, and Target.reset, which runs the     *)
(* reset command and then waits for a sandbox that is not the old one.     *)
(*                                                                         *)
(* The sandbox itself (container runtime, workspace, init process) is not  *)
(* part of the repository: it restarts asynchronously, keeps or wipes its  *)
(* workspace, and on its way down it still answers.                        *)
(***************************************************************************)
EXTENDS Integers, FiniteSets

CONSTANTS MaxAttempts  \* checks _await_ready makes (60 in the code)

ASSUME SandboxAssumption == MaxAttempts \in Nat \ {0}

VARIABLES identities,  \* what /proc/1/stat says: "distinct", "frozen" or "silent"
          disposable,  \* a restart wipes the workspace
          writable,    \* the workspace can be written
          phase,       \* "up", "stopping" (still answering) or "down"
          generation,  \* how many times it was started
          restarting,  \* a restart was requested and has not happened
          marker,      \* runs whose write left the marker in the workspace
          late,        \* payloads whose exec timed out and that still run
          overtaken,   \* history: one of them took effect during this run
          reset,       \* where Target.reset stands
          before,      \* the identity read before the reset, NoIdentity if none
          attempts     \* checks left

sandbox == <<phase, generation, restarting, marker, late, overtaken>>
setup == <<identities, disposable, writable>>
resetting == <<reset, before, attempts>>

NoIdentity == 0

SandboxInit ==
    /\ identities \in {"distinct", "frozen", "silent"}
    /\ disposable \in BOOLEAN /\ writable \in BOOLEAN
    /\ phase = "up" /\ generation = 1 /\ restarting = FALSE
    /\ marker = {} /\ late = {} /\ overtaken = FALSE
    /\ reset = "idle" /\ before = NoIdentity /\ attempts = 0

SandboxTypeOK ==
    /\ identities \in {"distinct", "frozen", "silent"}
    /\ disposable \in BOOLEAN /\ writable \in BOOLEAN
    /\ phase \in {"up", "stopping", "down"}
    /\ generation \in Nat \ {0} /\ restarting \in BOOLEAN
    /\ marker \subseteq Nat
    /\ late \subseteq [op : {"write", "remove"}, run : Nat]
    /\ overtaken \in BOOLEAN
    /\ reset \in {"idle", "identify", "command", "await", "done", "failed"}
    /\ before \in 0..generation /\ attempts \in 0..MaxAttempts

-----------------------------------------------------------------------------
(* ---- the sandbox (external) ---- *)

Answers == phase # "down"

(* What the payload does to the workspace for run r; a removal may fail.   *)
Write(r) == marker' = IF writable THEN marker \cup {r} ELSE marker
Remove == marker' = {}
Effect(op, r) == IF op = "write" THEN Write(r) ELSE marker' \in {{}, marker}

(* An exec without an answer: it never ran, ran, or is still to run.       *)
ExecLost(op, r) ==
    \/ UNCHANGED <<marker, late>>
    \/ Answers /\ Effect(op, r) /\ UNCHANGED late
    \/ Answers /\ late' = late \cup {[op |-> op, run |-> r]} /\ UNCHANGED marker

LatePayload ==
    /\ Answers
    /\ \E l \in late : Effect(l.op, l.run) /\ late' = late \ {l}
    /\ overtaken' = TRUE
    /\ UNCHANGED <<phase, generation, restarting>>

Stop ==
    /\ restarting /\ phase = "up"
    /\ phase' = "stopping"
    /\ UNCHANGED <<generation, restarting, marker, late, overtaken>>

(* Every process inside dies with the sandbox.                             *)
Die ==
    /\ phase = "stopping"
    /\ phase' = "down" /\ late' = {}
    /\ UNCHANGED <<generation, restarting, marker, overtaken>>

Start ==
    /\ phase = "down"
    /\ phase' = "up" /\ generation' = generation + 1 /\ restarting' = FALSE
    /\ marker' = IF disposable THEN {} ELSE marker
    /\ UNCHANGED <<late, overtaken>>

SandboxStep == LatePayload \/ Stop \/ Die \/ Start

-----------------------------------------------------------------------------
(* ---- Target.reset ---- *)

Identity(g) ==
    IF identities = "distinct" THEN g ELSE IF identities = "frozen" THEN 1 ELSE NoIdentity

(* _identity: what the sandbox says, or nothing if the exec fails.         *)
IdentityAnswers == {NoIdentity} \cup (IF Answers THEN {Identity(generation)} ELSE {})

BeginReset == reset = "idle" /\ reset' = "identify" /\ UNCHANGED <<before, attempts>>

ReadIdentity ==
    /\ reset = "identify"
    /\ before' \in IdentityAnswers
    /\ reset' = "command"
    /\ UNCHANGED <<attempts, sandbox>>

(* The reset command is started; it may ask for a restart or do nothing.   *)
RunCommand ==
    /\ reset = "command" /\ attempts = 0
    /\ restarting' \in {restarting, TRUE}
    /\ attempts' = MaxAttempts
    /\ UNCHANGED <<reset, before, phase, generation, marker, late, overtaken>>

(* It returns, perhaps before anything has happened, or fails or times out.*)
CommandReturns ==
    /\ reset = "command" /\ attempts > 0
    /\ reset' \in {"await", "failed"}
    /\ UNCHANGED <<before, attempts, sandbox>>

(* Faulty variants of the definitions below; the checks show that each is  *)
(* caught.                                                                 *)

AnyAnswer(answer) == answer # NoIdentity

OneTooMany == attempts = 0

CheckNotCounted == attempts

(* _identity gave an answer, and it is not the one from before the reset.  *)
Different(answer) == answer \notin {NoIdentity, before}

(* _is_back: another identity than before, or, with none to compare, any   *)
(* exec that succeeds.                                                     *)
CheckSucceeds ==
    IF before # NoIdentity THEN \E answer \in IdentityAnswers : Different(answer)
    ELSE Answers

Confirm ==
    /\ reset = "await" /\ CheckSucceeds
    /\ reset' = "done"
    /\ UNCHANGED <<before, attempts, sandbox>>

(* for remaining in range(attempts - 1, -1, -1)                            *)
LastCheck == attempts = 1

Remaining == attempts - 1

(* A check that fails, which any exec may; the last one fails the reset.   *)
CheckFails ==
    /\ reset = "await"
    /\ attempts' = Remaining
    /\ reset' = IF LastCheck THEN "failed" ELSE "await"
    /\ UNCHANGED <<before, sandbox>>

ResetStep == ReadIdentity \/ RunCommand \/ CommandReturns \/ Confirm \/ CheckFails
=============================================================================
