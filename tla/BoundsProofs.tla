----------------------------- MODULE BoundsProofs -----------------------------
(***************************************************************************)
(* Theorems about the bounds probe: what it says of the caps and of the    *)
(* marker is true for any limits, any number of runs and of checks for the *)
(* new sandbox, and wherever an exec is lost or overtaken.                 *)
(***************************************************************************)
EXTENDS Bounds, TLAPS

(* Nothing runs in a sandbox that is down; what still runs is of this run  *)
(* or an earlier one, and this run's own write is awaited until it is lost.*)
LatesAreTold ==
    /\ marker \subseteq 1..run
    /\ phase = "down" => late = {}
    /\ \A l \in late : l.run \in 1..run
    /\ \A l \in late : l.op = "write" /\ l.run = run => pc = "done" /\ errors # {}
    /\ pc = "done" /\ errors = {} => run \notin marker

CapsAreKept ==
    /\ pc \in {"reset", "second", "cleanup"} => CapFindings(limits) \subseteq findings
    /\ removing => pc = "done" /\ CapFindings(limits) \subseteq findings

(* Where the reset stands with the probe.                                  *)
Progress ==
    /\ pc = "first" => reset = "idle" /\ before = NoIdentity
    /\ pc = "second" => reset = "done"
    /\ pc = "cleanup" => control = "failed"
    /\ reset = "identify" => before = NoIdentity
    /\ reset = "await" => attempts # 0
    /\ pc # "done" => "persists_across_runs" \notin findings

(* From this run's write to the second look: the marker is this run's until*)
(* a restart wipes it, which also ends every payload that could put it     *)
(* back, and an identity that differs is a later generation's.             *)
Measuring ==
    pc \in {"reset", "second"} =>
        /\ wroteIn > 0
        /\ before # NoIdentity =>
              \/ identities = "distinct" /\ wroteIn <= before
              \/ identities = "frozen" /\ before = 1
        /\ reset = "done" /\ before # NoIdentity => generation > wroteIn
        /\ disposable /\ generation > wroteIn => marker = {} /\ late = {}
        /\ ~overtaken /\ ~(disposable /\ generation > wroteIn) => marker = {run}

IInv ==
    /\ TypeOK /\ LatesAreTold /\ CapsAreKept /\ Progress /\ Measuring
    /\ PersistsIsTruthful /\ CleanMeansDisposed

-----------------------------------------------------------------------------
(* The first path that opens decides, whatever hierarchy it is of.         *)
LEMMA OnlyOneOpens ==
    \A files : \A i \in DOMAIN files :
        /\ i \in Int /\ files[i].kind # "unreadable"
        /\ \A j \in DOMAIN files : j # i => files[j].kind = "unreadable"
        => ReadFirst(files) = files[i]
<1> SUFFICES ASSUME NEW files, NEW i \in DOMAIN files, i \in Int, files[i].kind # "unreadable",
                    \A j \in DOMAIN files : j # i => files[j].kind = "unreadable"
             PROVE  ReadFirst(files) = files[i]
  OBVIOUS
<1> DEFINE opened == {j \in DOMAIN files : files[j].kind # "unreadable"}
<1>1. opened = {i} /\ i \in Int
  OBVIOUS
<1>2. (CHOOSE j \in opened : \A k \in opened : j <= k) = i
  <2> HIDE DEF opened
  <2> QED  BY <1>1
<1> QED  BY <1>1, <1>2 DEF ReadFirst

(* Where no path opens, read_first returns nothing.                       *)
LEMMA NoneOpens ==
    ASSUME NEW files, \A j \in DOMAIN files : files[j].kind = "unreadable"
    PROVE  ReadFirst(files) = [kind |-> "none", number |-> 0]
  BY DEF ReadFirst

(* bounds.py:104-136 against the kernel's files: what is reported is what  *)
(* has no limit, whichever hierarchy shows it.                             *)
LEMMA CapsLemma ==
    ASSUME NEW l \in Limits
    PROVE  CapFindings(l) = Uncapped(l)
<1>1. /\ l.hierarchy \in {"unified", "split", "joint", "hidden"}
      /\ l.memory = NoLimit \/ (l.memory \in Nat /\ l.memory < Ceiling)
      /\ l.cpu = NoLimit \/ (l.cpu \in Nat /\ l.cpu > 0)
  BY CapsAssumption DEF Limits
<1>2. CgroupCapped(ReadFirst(MemoryFiles(l))) <=> ~(l.memory = NoLimit \/ l.hierarchy = "hidden")
  <2> DEFINE files == MemoryFiles(l)
  <2>1. DOMAIN files = 1..2
    BY DEF MemoryFiles
  <2>2. CASE l.hierarchy = "unified"
    <3>0. /\ WordOr(l.memory).kind = IF l.memory = NoLimit THEN "max" ELSE "number"
          /\ l.memory # NoLimit => WordOr(l.memory).number = l.memory
      BY DEF WordOr, Word, Number
    <3>1. files[1] = WordOr(l.memory) /\ files[2].kind = "unreadable"
      BY <2>2 DEF MemoryFiles, File, Unreadable
    <3>2. ReadFirst(files) = WordOr(l.memory)
      <4> HIDE DEF files
      <4> QED  BY <2>1, <3>1, <3>0, OnlyOneOpens
    <3> QED  BY <1>1, <2>2, <3>2, <3>0 DEF CgroupCapped, NoLimit
  <2>3. CASE l.hierarchy \in {"split", "joint"}
    <3> DEFINE shown == IF l.memory = NoLimit THEN Unlimited ELSE l.memory
    <3>0. Number(shown).kind = "number" /\ Number(shown).number = shown
      BY DEF Number
    <3>1. files[2] = Number(shown) /\ files[1].kind = "unreadable"
      BY <2>3 DEF MemoryFiles, File, Unreadable
    <3>2. ReadFirst(files) = Number(shown)
      <4> HIDE DEF files, shown
      <4> QED  BY <2>1, <3>1, <3>0, OnlyOneOpens
    <3> QED  BY <1>1, <2>3, <3>2, <3>0, CapsAssumption DEF CgroupCapped, NoLimit
  <2>4. CASE l.hierarchy = "hidden"
    <3>1. \A j \in DOMAIN files : files[j].kind = "unreadable"
      BY <2>1, <2>4 DEF MemoryFiles, File, Unreadable
    <3>2. ReadFirst(files).kind = "none"
      BY <3>1, NoneOpens
    <3> QED  BY <2>4, <3>2 DEF CgroupCapped
  <2> QED  BY <1>1, <2>2, <2>3, <2>4
<1>3. PidsCapped(ReadFirst(PidsFiles(l))) <=> ~(l.pids = NoLimit \/ l.hierarchy = "hidden")
  <2> DEFINE files == PidsFiles(l)
  <2>1. DOMAIN files = 1..2
    BY DEF PidsFiles
  <2>2. CASE l.hierarchy # "hidden"
    <3>0. /\ WordOr(l.pids).kind = IF l.pids = NoLimit THEN "max" ELSE "number"
          /\ l.pids # NoLimit => WordOr(l.pids).number = l.pids
      BY DEF WordOr, Word, Number
    <3>1. \/ files[1] = WordOr(l.pids) /\ files[2].kind = "unreadable"
          \/ files[2] = WordOr(l.pids) /\ files[1].kind = "unreadable"
      BY <1>1, <2>2 DEF PidsFiles, File, Unreadable
    <3>2. ReadFirst(files) = WordOr(l.pids)
      <4> HIDE DEF files
      <4> QED  BY <2>1, <3>1, <3>0, OnlyOneOpens
    <3> QED  BY <2>2, <3>2, <3>0 DEF PidsCapped
  <2>3. CASE l.hierarchy = "hidden"
    <3>1. \A j \in DOMAIN files : files[j].kind = "unreadable"
      BY <2>1, <2>3 DEF PidsFiles, File, Unreadable
    <3>2. ReadFirst(files).kind = "none"
      BY <3>1, NoneOpens
    <3> QED  BY <2>3, <3>2 DEF PidsCapped
  <2> QED  BY <2>2, <2>3
<1>4. CpuCapped(ReadFirst(CpuFiles(l))) <=> ~(l.cpu = NoLimit \/ l.hierarchy = "hidden")
  <2> DEFINE files == CpuFiles(l)
  <2>1. DOMAIN files = 1..3
    BY DEF CpuFiles
  <2>2. CASE l.hierarchy = "unified"
    <3>0. /\ WordOr(l.cpu).kind = IF l.cpu = NoLimit THEN "max" ELSE "number"
          /\ l.cpu # NoLimit => WordOr(l.cpu).number = l.cpu
      BY DEF WordOr, Word, Number
    <3>1. files[1] = WordOr(l.cpu) /\ files[2].kind = "unreadable" /\ files[3].kind = "unreadable"
      BY <2>2 DEF CpuFiles, File, Unreadable
    <3>2. ReadFirst(files) = WordOr(l.cpu)
      <4> HIDE DEF files
      <4> QED  BY <2>1, <3>1, <3>0, OnlyOneOpens
    <3> QED  BY <1>1, <2>2, <3>2, <3>0 DEF CpuCapped, NoLimit
  <2>3. CASE l.hierarchy \in {"split", "joint"}
    <3>0. Number(l.cpu).kind = "number" /\ Number(l.cpu).number = l.cpu
      BY DEF Number
    <3>1. \/ /\ files[2] = Number(l.cpu)
             /\ files[1].kind = "unreadable" /\ files[3].kind = "unreadable"
          \/ /\ files[3] = Number(l.cpu)
             /\ files[1].kind = "unreadable" /\ files[2].kind = "unreadable"
      BY <2>3 DEF CpuFiles, File, Unreadable
    <3>2. ReadFirst(files) = Number(l.cpu)
      <4> HIDE DEF files
      <4> QED  BY <2>1, <3>1, <3>0, OnlyOneOpens
    <3> QED  BY <1>1, <2>3, <3>2, <3>0 DEF CpuCapped, NoLimit
  <2>4. CASE l.hierarchy = "hidden"
    <3>1. \A j \in DOMAIN files : files[j].kind = "unreadable"
      BY <2>1, <2>4 DEF CpuFiles, File, Unreadable
    <3>2. ReadFirst(files).kind = "none"
      BY <3>1, NoneOpens
    <3> QED  BY <2>4, <3>2 DEF CpuCapped
  <2> QED  BY <1>1, <2>2, <2>3, <2>4
<1> QED  BY <1>2, <1>3, <1>4 DEF CapFindings, Uncapped

-----------------------------------------------------------------------------
(* The initial states satisfy the inductive invariant.                    *)
LEMMA InitIInv == Init => IInv
<1> SUFFICES ASSUME Init
             PROVE  IInv
  OBVIOUS
<1> USE BoundsAssumption, SandboxAssumption DEF Init, SandboxInit, NoIdentity
<1>1. TypeOK
  <2>1. 0 \in 0..MaxAttempts /\ 0 \in 0..generation /\ 1 \in 1..MaxRuns
    OBVIOUS
  <2>2. SandboxTypeOK
    <3>1. /\ identities \in {"distinct", "frozen", "silent"}
          /\ disposable \in BOOLEAN /\ writable \in BOOLEAN
          /\ phase \in {"up", "stopping", "down"}
      OBVIOUS
    <3>2. generation \in Nat \ {0} /\ restarting \in BOOLEAN /\ overtaken \in BOOLEAN
      <4>1. generation = 1 /\ restarting = FALSE /\ overtaken = FALSE
        OBVIOUS
      <4>2. 1 \in Nat \ {0} /\ FALSE \in BOOLEAN
        OBVIOUS
      <4> QED  BY ONLY <4>1, <4>2, Zenon
    <3>3. marker \subseteq Nat /\ late \subseteq [op : {"write", "remove"}, run : Nat]
      OBVIOUS
    <3>4. /\ reset \in {"idle", "identify", "command", "await", "done", "failed"}
          /\ before \in 0..generation /\ attempts \in 0..MaxAttempts
      BY <2>1
    <3> QED  BY <3>1, <3>2, <3>3, <3>4 DEF SandboxTypeOK
  <2> QED  BY <2>1, <2>2 DEF TypeOK
<1>2. LatesAreTold /\ CapsAreKept /\ Progress /\ Measuring
  BY DEF LatesAreTold, CapsAreKept, Progress, Measuring
<1>3. PersistsIsTruthful /\ CleanMeansDisposed
  BY DEF PersistsIsTruthful, CleanMeansDisposed, Clean
<1> QED  BY <1>1, <1>2, <1>3 DEF IInv

(* What an exec whose answer is lost may do to the workspace.              *)
LEMMA LostWrite ==
    ASSUME IInv, ExecLost("write", run)
    PROVE  /\ marker' \subseteq 1..run
           /\ late' \subseteq [op : {"write", "remove"}, run : Nat]
           /\ \A l \in late' : l.run \in 1..run
           /\ phase = "down" => late' = late
<1>1. run \in Nat \ {0} /\ run \in 1..run
  BY BoundsAssumption DEF IInv, TypeOK
<1>2. marker \subseteq 1..run /\ \A l \in late : l.run \in 1..run
  BY DEF IInv, LatesAreTold
<1>3. late \subseteq [op : {"write", "remove"}, run : Nat]
  BY DEF IInv, TypeOK, SandboxTypeOK
<1> DEFINE own == [op |-> "write", run |-> run]
<1>4. own \in [op : {"write", "remove"}, run : Nat] /\ own.run = run
  BY <1>1
<1>5. marker' = marker \/ marker' = marker \cup {run}
  BY DEF ExecLost, Effect, Write
<1>6. late' = late \/ (phase # "down" /\ late' = late \cup {own})
  BY DEF ExecLost, Answers
<1> HIDE DEF own
<1>7. \A l \in late' : l.run \in 1..run
  BY <1>1, <1>2, <1>4, <1>6
<1> QED  BY <1>1, <1>2, <1>3, <1>4, <1>5, <1>6, <1>7

(* An exec that was to remove the marker and was lost may have done so,   *)
(* may do so later, or never.                                             *)
LEMMA LostRemoval ==
    ASSUME IInv, ExecLost("remove", run)
    PROVE  /\ marker' \subseteq 1..run /\ marker' \subseteq marker
           /\ late' \subseteq [op : {"write", "remove"}, run : Nat]
           /\ \A l \in late' : l.run \in 1..run
           /\ \A l \in late' : l.op = "write" => l \in late
           /\ phase = "down" => late' = late
<1>1. run \in Nat \ {0} /\ run \in 1..run
  BY BoundsAssumption DEF IInv, TypeOK
<1>2. marker \subseteq 1..run /\ \A l \in late : l.run \in 1..run
  BY DEF IInv, LatesAreTold
<1>3. late \subseteq [op : {"write", "remove"}, run : Nat]
  BY DEF IInv, TypeOK, SandboxTypeOK
<1> DEFINE own == [op |-> "remove", run |-> run]
<1>4. own \in [op : {"write", "remove"}, run : Nat] /\ own.run = run /\ own.op # "write"
  BY <1>1
<1>5. marker' = marker \/ marker' = {}
  BY DEF ExecLost, Effect
<1>6. late' = late \/ (phase # "down" /\ late' = late \cup {own})
  BY DEF ExecLost, Answers
<1> HIDE DEF own
<1>7. /\ \A l \in late' : l.run \in 1..run
      /\ \A l \in late' : l.op = "write" => l \in late
  BY <1>1, <1>2, <1>4, <1>6
<1> QED  BY <1>1, <1>2, <1>3, <1>4, <1>5, <1>6, <1>7

-----------------------------------------------------------------------------
(* The first exec answers: the invariant is kept.                         *)
LEMMA FirstAnswersKeeps ==
    ASSUME IInv, FirstAnswers
    PROVE  IInv'
<1> USE DEF IInv, FirstAnswers, resetting, setup, config
<1>0. run \in Nat \ {0} /\ run \in 1..run /\ generation \in Nat \ {0} /\ marker \subseteq 1..run
  BY BoundsAssumption DEF TypeOK, SandboxTypeOK, LatesAreTold
<1>1. /\ marker' = IF writable THEN marker \cup {run} ELSE marker
      /\ wroteIn' = IF writable THEN generation ELSE 0
  BY DEF Write
<1>2. /\ findings' = CapFindings(limits) \cup {"no_reset_configured"}
         \/ findings' = CapFindings(limits)
      /\ errors' \in {errors, {"marker"}}
      /\ pc' \in {"cleanup", "reset"}
      /\ control' \in {control, "failed"}
  BY DEF Measurable
<1>3. /\ reset' \in {reset, "identify"} /\ before' = before /\ attempts' = attempts
      /\ reset = "idle" /\ before = NoIdentity
  BY DEF Measurable, BeginReset, Progress
<1>4. pc' = "reset" => writable /\ marker = {} /\ reset' = "identify"
  BY DEF Measurable, BeginReset
<1>5. "persists_across_runs" \notin findings'
  BY <1>2 DEF CapFindings
<1>6. UNCHANGED <<setup, phase, generation, restarting, late, overtaken, config, run,
                  seenIn, seen, removing>>
  OBVIOUS
<1>7. TypeOK'
  <2>1. SandboxTypeOK'
    BY <1>0, <1>1, <1>3, <1>6 DEF TypeOK, SandboxTypeOK
  <2>2. wroteIn' \in 0..generation'
    BY <1>0, <1>1, <1>6
  <2> QED  BY <1>2, <1>6, <2>1, <2>2 DEF TypeOK
<1>8. LatesAreTold'
  BY <1>0, <1>1, <1>2, <1>6 DEF LatesAreTold
<1>9. CapsAreKept'
  BY <1>2, <1>6 DEF CapsAreKept
<1>10. Progress'
  BY <1>2, <1>3, <1>5 DEF Progress
<1>11. Measuring'
  <2>1. pc' = "reset" => wroteIn' = generation /\ marker' = {run}
    BY <1>1, <1>4
  <2> QED  BY <1>0, <1>2, <1>3, <1>4, <1>6, <2>1 DEF Measuring
<1>12. PersistsIsTruthful' /\ CleanMeansDisposed'
  BY <1>2, <1>5 DEF PersistsIsTruthful, CleanMeansDisposed, Clean
<1> QED  BY <1>7, <1>8, <1>9, <1>10, <1>11, <1>12

(* The first exec is lost: the invariant is kept.                         *)
LEMMA FirstLostKeeps ==
    ASSUME IInv, FirstLost
    PROVE  IInv'
<1> USE DEF IInv, FirstLost, resetting, setup, config, history
<1>0. /\ marker' \subseteq 1..run /\ \A l \in late' : l.run \in 1..run
      /\ late' \subseteq [op : {"write", "remove"}, run : Nat]
      /\ phase = "down" => late' = late
  BY LostWrite
<1>1. run \in Nat \ {0}
  BY BoundsAssumption DEF TypeOK
<1>2. TypeOK'
  <2>1. marker' \subseteq Nat
    BY <1>0, <1>1
  <2> QED  BY <1>0, <2>1 DEF TypeOK, SandboxTypeOK
<1>3. LatesAreTold'
  BY <1>0 DEF LatesAreTold
<1>4. CapsAreKept' /\ Progress' /\ Measuring'
  BY DEF CapsAreKept, Progress, Measuring
<1>5. PersistsIsTruthful' /\ CleanMeansDisposed'
  BY DEF PersistsIsTruthful, CleanMeansDisposed, Clean, Progress
<1> QED  BY <1>2, <1>3, <1>4, <1>5

(* The reset touches neither the workspace nor what the run found, and ends*)
(* well only on another identity than before.                              *)
LEMMA ResettingKeeps ==
    ASSUME IInv, Resetting
    PROVE  IInv'
<1> USE DEF IInv, Resetting, setup, config, outcome, history
<1>0. /\ pc = "reset" /\ ResetStep
      /\ UNCHANGED <<setup, config, run, pc, outcome, history>>
  OBVIOUS
<1>1. UNCHANGED <<phase, generation, marker, late, overtaken>>
  BY DEF ResetStep, ReadIdentity, RunCommand, CommandReturns, Confirm, CheckFails, sandbox
<1>2. generation \in Nat \ {0} /\ before \in Nat /\ attempts \in Nat /\ MaxAttempts \in Nat \ {0}
  BY SandboxAssumption DEF TypeOK, SandboxTypeOK
<1>3. /\ before' \in 0..generation
      /\ before' # NoIdentity =>
            before' = before \/ (identities = "distinct" /\ before' = generation)
                            \/ (identities = "frozen" /\ before' = 1)
      /\ reset' = "identify" => before' = before /\ reset = "identify"
  <2>1. CASE ReadIdentity
    BY <1>2, <2>1 DEF ReadIdentity, IdentityAnswers, Identity, NoIdentity
  <2>2. CASE RunCommand \/ CommandReturns \/ Confirm \/ CheckFails
    BY <2>2 DEF RunCommand, CommandReturns, Confirm, CheckFails, TypeOK, SandboxTypeOK
  <2> QED  BY <2>1, <2>2 DEF ResetStep
<1>4. /\ attempts' \in 0..MaxAttempts
      /\ reset' \in {"identify", "command", "await", "done", "failed"}
      /\ reset' = "await" => attempts' # 0
      /\ restarting' \in BOOLEAN
  <2>1. CASE ReadIdentity
    BY <2>1 DEF ReadIdentity, TypeOK, SandboxTypeOK, sandbox
  <2>2. CASE RunCommand
    <3>1. /\ reset' = "command" /\ attempts' = MaxAttempts
          /\ restarting' = restarting \/ restarting' = TRUE
      BY <2>2 DEF RunCommand
    <3>2. restarting \in BOOLEAN
      BY DEF TypeOK, SandboxTypeOK
    <3>3. restarting' \in BOOLEAN
      BY <3>1, <3>2
    <3>4. attempts' \in 0..MaxAttempts
      BY <1>2, <3>1
    <3> QED  BY <3>1, <3>3, <3>4
  <2>3. CASE CommandReturns
    BY <2>3 DEF CommandReturns, TypeOK, SandboxTypeOK, sandbox
  <2>4. CASE Confirm
    BY <2>4 DEF Confirm, TypeOK, SandboxTypeOK, sandbox
  <2>5. CASE CheckFails
    <3>1. reset = "await" /\ attempts # 0
      BY <2>5 DEF CheckFails, Progress
    <3> QED  BY <1>2, <2>5, <3>1
             DEF CheckFails, LastCheck, Remaining, TypeOK, SandboxTypeOK, sandbox
  <2> QED  BY <2>1, <2>2, <2>3, <2>4, <2>5 DEF ResetStep
<1>5. reset' = "done" /\ before' # NoIdentity => generation > wroteIn
  <2>1. CASE Confirm
    <3>1. SUFFICES ASSUME before # NoIdentity
                   PROVE  generation > wroteIn
      BY <2>1 DEF Confirm
    <3>2. PICK answer \in IdentityAnswers : answer # NoIdentity /\ answer # before
      BY <2>1, <3>1 DEF Confirm, CheckSucceeds, Different
    <3>3. answer = Identity(generation)
      BY <3>2 DEF IdentityAnswers
    <3>4. \/ identities = "distinct" /\ wroteIn <= before
          \/ identities = "frozen" /\ before = 1
      BY <3>1 DEF Measuring
    <3>5. identities = "distinct" /\ answer = generation /\ wroteIn <= before
      BY <3>2, <3>3, <3>4 DEF Identity
    <3>6. before \in 0..generation /\ wroteIn \in 0..generation
      BY DEF TypeOK, SandboxTypeOK
    <3> QED  BY <1>2, <3>2, <3>5, <3>6
  <2>2. CASE ReadIdentity \/ RunCommand \/ CommandReturns \/ CheckFails
    BY <2>2 DEF ReadIdentity, RunCommand, CommandReturns, CheckFails
  <2> QED  BY <2>1, <2>2 DEF ResetStep
<1>6. TypeOK'
  <2>1. SandboxTypeOK'
    BY <1>0, <1>1, <1>3, <1>4 DEF TypeOK, SandboxTypeOK
  <2> QED  BY <1>0, <1>1, <2>1 DEF TypeOK
<1>7. LatesAreTold' /\ CapsAreKept'
  BY <1>0, <1>1 DEF LatesAreTold, CapsAreKept
<1>8. Progress'
  BY <1>0, <1>3, <1>4 DEF Progress
<1>9. Measuring'
  <2>1. wroteIn \in 0..generation
    BY DEF TypeOK
  <2> QED  BY <1>0, <1>1, <1>2, <1>3, <1>5, <2>1 DEF Measuring
<1>10. PersistsIsTruthful' /\ CleanMeansDisposed'
  BY <1>0 DEF PersistsIsTruthful, CleanMeansDisposed, Clean, Progress
<1> QED  BY <1>6, <1>7, <1>8, <1>9, <1>10

(* The reset is confirmed or given up: the invariant is kept.             *)
LEMMA ResetEndsKeeps ==
    ASSUME IInv, ResetConfirmed \/ ResetFailed
    PROVE  IInv'
<1> USE DEF IInv, setup, sandbox, resetting, config, outcome, history
<1>1. CASE ResetConfirmed
  <2> USE <1>1 DEF ResetConfirmed
  <2>1. TypeOK' /\ LatesAreTold' /\ CapsAreKept'
    BY DEF TypeOK, SandboxTypeOK, LatesAreTold, CapsAreKept
  <2>2. Progress' /\ Measuring'
    BY DEF Progress, Measuring
  <2>3. PersistsIsTruthful' /\ CleanMeansDisposed'
    BY DEF PersistsIsTruthful, CleanMeansDisposed, Clean, Progress
  <2> QED  BY <2>1, <2>2, <2>3
<1>2. CASE ResetFailed
  <2> USE <1>2 DEF ResetFailed
  <2>1. TypeOK' /\ LatesAreTold' /\ CapsAreKept'
    BY DEF TypeOK, SandboxTypeOK, LatesAreTold, CapsAreKept
  <2>2. Progress' /\ Measuring'
    BY DEF Progress, Measuring
  <2>3. PersistsIsTruthful' /\ CleanMeansDisposed'
    BY DEF PersistsIsTruthful, CleanMeansDisposed, Clean, Progress
  <2> QED  BY <2>1, <2>2, <2>3
<1> QED  BY <1>1, <1>2

(* The second look: the marker it finds, or does not, is this run's.       *)
LEMMA SecondAnswersKeeps ==
    ASSUME IInv, SecondAnswers
    PROVE  IInv'
<1> USE DEF IInv, SecondAnswers, setup, resetting, config
<1>0. /\ generation \in Nat \ {0} /\ wroteIn \in 0..generation /\ marker \subseteq 1..run
      /\ run \in Nat \ {0}
  BY BoundsAssumption DEF TypeOK, SandboxTypeOK, LatesAreTold
<1>1. /\ pc = "second" /\ pc' = "done" /\ control' = "held" /\ removing' = TRUE
      /\ findings' = findings \cup (IF marker # {} THEN {"persists_across_runs"} ELSE {})
      /\ marker' \in {{}, marker}
      /\ errors' = IF marker' # {} THEN {"cleanup"} ELSE {}
      /\ seenIn' = generation /\ seen' = marker
  BY DEF CleanupErrors
<1>2. UNCHANGED <<setup, phase, generation, restarting, late, overtaken, resetting, config, run,
                  wroteIn>>
  OBVIOUS
<1>3. TypeOK'
  <2>1. SandboxTypeOK'
    BY <1>1, <1>2 DEF TypeOK, SandboxTypeOK
  <2> QED  BY <1>0, <1>1, <1>2, <2>1 DEF TypeOK
<1>4. LatesAreTold'
  BY <1>1, <1>2 DEF LatesAreTold
<1>5. CapsAreKept' /\ Progress' /\ Measuring'
  BY <1>1, <1>2 DEF CapsAreKept, Progress, Measuring
<1>6. /\ wroteIn > 0
      /\ before # NoIdentity => generation > wroteIn
      /\ disposable /\ generation > wroteIn => marker = {}
      /\ ~overtaken /\ ~(disposable /\ generation > wroteIn) => marker = {run}
  BY <1>1 DEF Measuring, Progress
<1>7. PersistsIsTruthful'
  <2>1. ASSUME "persists_across_runs" \in findings'
        PROVE  marker # {}
    BY <1>1, <2>1 DEF Progress
  <2>2. marker # {} => ~(disposable /\ generation > wroteIn)
    BY <1>6
  <2>3. marker # {} /\ ~overtaken => seen' = {run'}
    BY <1>1, <1>2, <1>6, <2>2
  <2>4. marker # {} /\ before # NoIdentity => seenIn' > wroteIn' /\ ~disposable
    BY <1>1, <1>2, <1>6, <2>2
  <2> QED  BY <1>2, <2>1, <2>3, <2>4 DEF PersistsIsTruthful
<1>8. CleanMeansDisposed'
  <2>1. ASSUME Clean'
        PROVE  marker = {}
    BY <1>1, <2>1 DEF Clean
  <2> QED  BY <1>0, <1>1, <1>2, <1>6, <2>1 DEF CleanMeansDisposed
<1> QED  BY <1>3, <1>4, <1>5, <1>7, <1>8

(* The clean-up exec answers: the invariant is kept.                      *)
LEMMA CleanupAnswersKeeps ==
    ASSUME IInv, CleanupAnswers
    PROVE  IInv'
<1> USE DEF IInv, CleanupAnswers, setup, resetting, config
<1>1. /\ marker' \in {{}, marker} /\ errors \subseteq errors'
      /\ marker' # {} => "cleanup" \in errors'
      /\ errors' \subseteq errors \cup {"cleanup"}
  BY DEF CleanupErrors
<1>2. /\ pc = "cleanup" /\ pc' = "done" /\ removing' = TRUE
      /\ UNCHANGED <<setup, phase, generation, restarting, late, overtaken, resetting, config, run,
                     findings, control, wroteIn, seenIn, seen>>
  OBVIOUS
<1>3. TypeOK'
  <2>1. SandboxTypeOK'
    BY <1>1, <1>2 DEF TypeOK, SandboxTypeOK
  <2> QED  BY <1>1, <1>2, <2>1 DEF TypeOK
<1>4. LatesAreTold'
  BY <1>1, <1>2 DEF LatesAreTold
<1>5. CapsAreKept' /\ Progress' /\ Measuring'
  BY <1>2 DEF CapsAreKept, Progress, Measuring
<1>6. PersistsIsTruthful' /\ CleanMeansDisposed'
  BY <1>2 DEF PersistsIsTruthful, CleanMeansDisposed, Clean, Progress
<1> QED  BY <1>3, <1>4, <1>5, <1>6

(* The exec that removes the marker is lost: the invariant is kept.       *)
LEMMA RemovalLostKeeps ==
    ASSUME IInv, SecondLost \/ CleanupLost
    PROVE  IInv'
<1> USE DEF IInv, SecondLost, CleanupLost, setup, resetting, config
<1>0. /\ marker' \subseteq 1..run /\ \A l \in late' : l.run \in 1..run
      /\ late' \subseteq [op : {"write", "remove"}, run : Nat]
      /\ phase = "down" => late' = late
  BY LostRemoval
<1>1. /\ pc \in {"second", "cleanup"} /\ pc' = "done" /\ removing' = TRUE
      /\ "exec" \in errors' /\ errors' \subseteq errors \cup {"exec"}
      /\ control' \in {control, "failed"}
      /\ UNCHANGED <<setup, phase, generation, restarting, overtaken, resetting, config, run,
                     findings, wroteIn, seenIn, seen>>
  OBVIOUS
<1>2. run \in Nat \ {0}
  BY BoundsAssumption DEF TypeOK
<1>3. TypeOK'
  <2>1. marker' \subseteq Nat
    BY <1>0, <1>2
  <2>2. SandboxTypeOK'
    BY <1>0, <1>1, <2>1 DEF TypeOK, SandboxTypeOK
  <2> QED  BY <1>1, <2>2 DEF TypeOK
<1>4. LatesAreTold'
  BY <1>0, <1>1 DEF LatesAreTold
<1>5. CapsAreKept' /\ Progress' /\ Measuring'
  BY <1>1 DEF CapsAreKept, Progress, Measuring
<1>6. PersistsIsTruthful' /\ CleanMeansDisposed'
  BY <1>1 DEF PersistsIsTruthful, CleanMeansDisposed, Clean, Progress
<1> QED  BY <1>3, <1>4, <1>5, <1>6

(* A new run starts on what the last one left: the invariant is kept.     *)
LEMMA RunAgainKeeps ==
    ASSUME IInv, RunAgain
    PROVE  IInv'
<1> USE DEF IInv, RunAgain, setup, config
<1>0. run \in Nat \ {0} /\ run' = run + 1 /\ run' \in 1..MaxRuns /\ 1..run \subseteq 1..run'
  BY BoundsAssumption DEF TypeOK
<1>1. run' \notin 1..run
  BY <1>0
<1>2. TypeOK'
  <2>1. SandboxTypeOK'
    <3>1. 0 \in 0..MaxAttempts /\ 0 \in 0..generation
      BY SandboxAssumption DEF TypeOK, SandboxTypeOK
    <3> QED  BY <3>1 DEF TypeOK, SandboxTypeOK, NoIdentity
  <2>2. 0 \in 0..generation' /\ limits' \in Setups /\ resettable' \in BOOLEAN
    BY DEF TypeOK, SandboxTypeOK
  <2> QED  BY <1>0, <2>1, <2>2 DEF TypeOK
<1>3. LatesAreTold'
  BY <1>0, <1>1 DEF LatesAreTold
<1>4. CapsAreKept' /\ Progress' /\ Measuring'
  BY DEF CapsAreKept, Progress, Measuring
<1>5. PersistsIsTruthful' /\ CleanMeansDisposed'
  BY DEF PersistsIsTruthful, CleanMeansDisposed, Clean
<1> QED  BY <1>2, <1>3, <1>4, <1>5

(* The sandbox on its own: a payload of an earlier run takes effect, or the*)
(* sandbox stops, dies with everything in it, and starts again.            *)
LEMMA SandboxStepKeeps ==
    ASSUME IInv, SandboxStep, UNCHANGED <<setup, resetting, config, run, pc, outcome, history>>
    PROVE  IInv'
<1> USE DEF IInv, setup, resetting, config, outcome, history
<1>0. generation \in Nat \ {0} /\ run \in Nat \ {0} /\ wroteIn \in 0..generation
  BY BoundsAssumption DEF TypeOK, SandboxTypeOK
<1>1. CASE LatePayload
  <2>1. PICK l \in late : Effect(l.op, l.run) /\ late' = late \ {l}
    BY <1>1 DEF LatePayload
  <2>2. /\ UNCHANGED <<phase, generation, restarting>> /\ overtaken' = TRUE
        /\ phase # "down"
    BY <1>1 DEF LatePayload, Answers
  <2>3. l.run \in 1..run
    BY <2>1 DEF LatesAreTold
  <2>4. \/ l.op = "write" /\ marker' \in {marker, marker \cup {l.run}}
        \/ marker' \in {{}, marker}
    BY <2>1 DEF Effect, Write
  <2>5. marker' \subseteq 1..run /\ marker' \subseteq Nat
    <3>1. marker \subseteq 1..run
      BY DEF LatesAreTold
    <3>2. marker' \subseteq 1..run
      BY <2>3, <2>4, <3>1
    <3> QED  BY <1>0, <3>2
  <2>6. TypeOK'
    BY <2>1, <2>2, <2>5 DEF TypeOK, SandboxTypeOK
  <2>7. LatesAreTold'
    BY <2>1, <2>2, <2>4, <2>5 DEF LatesAreTold
  <2>8. CapsAreKept' /\ Progress'
    BY DEF CapsAreKept, Progress
  <2>9. Measuring'
    BY <2>1, <2>2 DEF Measuring
  <2>10. PersistsIsTruthful' /\ CleanMeansDisposed'
    BY <2>2 DEF PersistsIsTruthful, CleanMeansDisposed, Clean
  <2> QED  BY <2>6, <2>7, <2>8, <2>9, <2>10
<1>2. CASE Stop \/ Die
  <2>1. /\ UNCHANGED <<generation, restarting, marker, overtaken>>
        /\ phase' \in {"stopping", "down"} /\ late' \subseteq late
        /\ phase' = "down" => late' = {}
    BY <1>2 DEF Stop, Die
  <2>2. TypeOK'
    BY <2>1 DEF TypeOK, SandboxTypeOK
  <2>3. LatesAreTold' /\ CapsAreKept' /\ Progress'
    BY <2>1 DEF LatesAreTold, CapsAreKept, Progress
  <2>4. Measuring'
    BY <2>1 DEF Measuring
  <2>5. PersistsIsTruthful' /\ CleanMeansDisposed'
    BY <2>1 DEF PersistsIsTruthful, CleanMeansDisposed, Clean
  <2> QED  BY <2>2, <2>3, <2>4, <2>5
<1>3. CASE Start
  <2>1. /\ phase' = "up" /\ generation' = generation + 1 /\ restarting' = FALSE
        /\ marker' = IF disposable THEN {} ELSE marker
        /\ UNCHANGED <<late, overtaken>> /\ late = {}
    BY <1>3 DEF Start, LatesAreTold
  <2>2. generation' > wroteIn /\ 0..generation \subseteq 0..generation'
    BY <1>0, <2>1
  <2>3. TypeOK'
    <3>1. marker' \subseteq Nat /\ generation' \in Nat \ {0}
      <4>1. marker \subseteq Nat
        BY DEF TypeOK, SandboxTypeOK
      <4>2. marker' \subseteq Nat
        BY <2>1, <4>1
      <4>3. generation' \in Nat /\ generation' # 0
        BY <1>0, <2>1
      <4> QED  BY <4>2, <4>3
    <3>2. SandboxTypeOK'
      BY <2>1, <2>2, <3>1 DEF TypeOK, SandboxTypeOK
    <3> QED  BY <2>1, <2>2, <3>2 DEF TypeOK
  <2>4. LatesAreTold' /\ CapsAreKept' /\ Progress'
    BY <2>1 DEF LatesAreTold, CapsAreKept, Progress
  <2>5. Measuring'
    BY <1>0, <2>1, <2>2 DEF Measuring
  <2>6. PersistsIsTruthful' /\ CleanMeansDisposed'
    BY <2>1 DEF PersistsIsTruthful, CleanMeansDisposed, Clean
  <2> QED  BY <2>3, <2>4, <2>5, <2>6
<1> QED  BY <1>1, <1>2, <1>3 DEF SandboxStep

(* Every step keeps the inductive invariant.                              *)
LEMMA NextIInv == IInv /\ [Next]_vars => IInv'
<1> SUFFICES ASSUME IInv, [Next]_vars
             PROVE  IInv'
  OBVIOUS
<1>1. CASE UNCHANGED vars
  BY <1>1 DEF vars, setup, sandbox, resetting, config, outcome, history, IInv, TypeOK, SandboxTypeOK,
              LatesAreTold, CapsAreKept, Progress, Measuring, PersistsIsTruthful,
              CleanMeansDisposed, Clean
<1>2. CASE ProbeStep
  BY <1>2, FirstAnswersKeeps, FirstLostKeeps, ResettingKeeps, ResetEndsKeeps, SecondAnswersKeeps,
     CleanupAnswersKeeps, RemovalLostKeeps DEF ProbeStep
<1> QED  BY <1>1, <1>2, RunAgainKeeps, SandboxStepKeeps DEF Next

(* The inductive invariant holds in every reachable state.                *)
LEMMA Invariance == Spec => []IInv
  BY InitIInv, NextIInv, PTL DEF Spec

-----------------------------------------------------------------------------
(* Every reachable state is well typed, for any number of runs.            *)
THEOREM BoundsTypeCorrect == Spec => []TypeOK
  BY Invariance, PTL DEF IInv

(* bounds.py:104-136, 192-236: for every set of limits, the caps reported  *)
(* as missing are those the sandbox does not have.                         *)
THEOREM CapsTheorem == Spec => []CapsAreTold
<1>1. IInv => CapsAreTold
  <2> SUFFICES ASSUME IInv, removing
               PROVE  findings \ {"no_reset_configured", "persists_across_runs"} = Uncapped(limits)
    BY DEF CapsAreTold
  <2>1. CapFindings(limits) \subseteq findings
    BY DEF IInv, CapsAreKept
  <2>2. findings \subseteq CapFindings(limits) \cup {"no_reset_configured", "persists_across_runs"}
    BY DEF IInv, TypeOK
  <2>3. limits \in Limits
    BY BoundsAssumption DEF IInv, TypeOK
  <2>4. CapFindings(limits) = Uncapped(limits)
    BY <2>3, CapsLemma
  <2>5. Uncapped(limits) \cap {"no_reset_configured", "persists_across_runs"} = {}
    BY DEF Uncapped
  <2> QED  BY <2>1, <2>2, <2>4, <2>5
<1> QED  BY <1>1, Invariance, PTL

(* bounds.py:39-54: "survives a reset" is said only of this run's marker.  *)
THEOREM PersistsTheorem == Spec => []PersistsIsTruthful
  BY Invariance, PTL DEF IInv

(* bounds.py:46-54: a clean run saw its own write disposed of.             *)
THEOREM DisposedTheorem == Spec => []CleanMeansDisposed
  BY Invariance, PTL DEF IInv

(* bounds.py:56-63, as far as the code keeps it: a marker left behind, or  *)
(* still on its way, is never silent.                                      *)
THEOREM LeftMarkerTheorem == Spec => []LeftMarkerIsAnError
<1>1. IInv => LeftMarkerIsAnError
  <2> SUFFICES ASSUME IInv, pc = "done", errors = {}
               PROVE  run \notin marker /\ [op |-> "write", run |-> run] \notin late
    BY DEF LeftMarkerIsAnError
  <2> DEFINE own == [op |-> "write", run |-> run]
  <2>1. own.op = "write" /\ own.run = run
    OBVIOUS
  <2>2. own \notin late
    <3> HIDE DEF own
    <3> QED  BY <2>1 DEF IInv, LatesAreTold
  <2> QED  BY <2>2 DEF IInv, LatesAreTold
<1> QED  BY <1>1, Invariance, PTL

-----------------------------------------------------------------------------
(* How many steps of the probe a run has left at most.                     *)
StepsLeft ==
    CASE pc = "first"  -> MaxAttempts + 8
      [] pc = "reset" /\ reset = "idle" -> MaxAttempts + 7
      [] pc = "reset" /\ reset = "identify" -> MaxAttempts + 6
      [] pc = "reset" /\ reset = "command" /\ attempts = 0 -> MaxAttempts + 5
      [] pc = "reset" /\ reset = "command" /\ attempts # 0 -> MaxAttempts + 4
      [] pc = "reset" /\ reset = "await" -> attempts + 3
      [] pc = "reset" /\ reset \in {"done", "failed"} -> 2
      [] pc \in {"second", "cleanup"} -> 1
      [] pc = "done" -> 0

Counts == StepsLeft \in 0..MaxAttempts + 8 /\ (StepsLeft = 0 <=> pc = "done")

(* Only a step of the probe brings the end of the run nearer, and each one *)
(* does.                                                                   *)
EachStepCounts ==
    /\ ProbeStep => StepsLeft' < StepsLeft
    /\ ~ProbeStep /\ pc # "done" => StepsLeft' = StepsLeft

(* The steps left are counted at every stage.                              *)
LEMMA StepsAreCounted == TypeOK => Counts
<1> SUFFICES ASSUME TypeOK
             PROVE  Counts
  OBVIOUS
<1> USE SandboxAssumption DEF TypeOK, SandboxTypeOK
<1>1. CASE pc = "reset"
  BY <1>1 DEF StepsLeft, Counts
<1>2. CASE pc # "reset"
  BY <1>2 DEF StepsLeft, Counts
<1> QED  BY <1>1, <1>2

(* A step of the reset counts.                                             *)
LEMMA ResettingCounts == TypeOK /\ Resetting => StepsLeft' < StepsLeft
<1> SUFFICES ASSUME TypeOK, Resetting
             PROVE  StepsLeft' < StepsLeft
  OBVIOUS
<1>0. /\ pc = "reset" /\ pc' = "reset"
      /\ MaxAttempts \in Nat \ {0} /\ attempts \in 0..MaxAttempts
  BY SandboxAssumption DEF Resetting, TypeOK, SandboxTypeOK
<1>1. CASE ReadIdentity
  BY <1>0, <1>1 DEF ReadIdentity, StepsLeft
<1>2. CASE RunCommand
  BY <1>0, <1>2 DEF RunCommand, StepsLeft
<1>3. CASE CommandReturns
  BY <1>0, <1>3 DEF CommandReturns, StepsLeft
<1>4. CASE Confirm
  BY <1>0, <1>4 DEF Confirm, StepsLeft
<1>5. CASE CheckFails
  <2>1. reset = "await" /\ attempts' = attempts - 1 /\ reset' \in {"failed", "await"}
    BY <1>5 DEF CheckFails, Remaining
  <2> QED  BY <1>0, <2>1 DEF StepsLeft
<1> QED  BY <1>1, <1>2, <1>3, <1>4, <1>5 DEF Resetting, ResetStep

(* So does every other step of the probe; the sandbox's steps do not.      *)
LEMMA StepsCount == IInv /\ [Next]_vars => EachStepCounts \/ UNCHANGED vars
<1> SUFFICES ASSUME IInv, Next
             PROVE  EachStepCounts
  OBVIOUS
<1>0. /\ pc \in {"first", "reset", "second", "cleanup", "done"}
      /\ MaxAttempts \in Nat \ {0} /\ attempts \in 0..MaxAttempts
      /\ reset \in {"idle", "identify", "command", "await", "done", "failed"}
      /\ reset = "await" => attempts # 0
  BY SandboxAssumption DEF IInv, TypeOK, SandboxTypeOK, Progress
<1>1. ASSUME ProbeStep
      PROVE  StepsLeft' < StepsLeft
  <2>1. CASE FirstAnswers
    <3>1. \/ pc = "first" /\ pc' = "cleanup"
          \/ pc = "first" /\ pc' = "reset" /\ reset' = "identify"
      BY <2>1 DEF FirstAnswers, BeginReset
    <3> QED  BY <1>0, <3>1 DEF StepsLeft
  <2>2. CASE Resetting
    BY <2>2, ResettingCounts DEF IInv
  <2>3. CASE ResetConfirmed \/ ResetFailed
    BY <1>0, <2>3 DEF ResetConfirmed, ResetFailed, StepsLeft
  <2>4. CASE FirstLost
    BY <1>0, <2>4 DEF FirstLost, StepsLeft
  <2>5. CASE SecondAnswers \/ SecondLost \/ CleanupAnswers \/ CleanupLost
    BY <1>0, <2>5 DEF SecondAnswers, SecondLost, CleanupAnswers, CleanupLost, StepsLeft
  <2> QED  BY <1>1, <2>1, <2>2, <2>3, <2>4, <2>5 DEF ProbeStep
<1>2. ASSUME ~ProbeStep, pc # "done"
      PROVE  StepsLeft' = StepsLeft
  <2>1. UNCHANGED <<pc, reset, attempts>>
    BY <1>2 DEF Next, RunAgain, resetting
  <2> QED  BY <2>1 DEF StepsLeft
<1> QED  BY <1>1, <1>2 DEF EachStepCounts

(* target.py:73-163, bounds.py:187-394: no run takes more than             *)
(* MaxAttempts + 8 steps of the probe, whatever the sandbox does meanwhile:*)
(* what fairness of those steps then makes of EveryRunEnds.                *)
THEOREM BoundedWork ==
    Spec => /\ []Counts
            /\ [][EachStepCounts]_vars
<1>1. Spec => []Counts
  <2>1. IInv => Counts
    BY StepsAreCounted DEF IInv
  <2> QED  BY <2>1, Invariance, PTL
<1>2. Spec => [][EachStepCounts]_vars
  BY StepsCount, Invariance, PTL DEF Spec
<1> QED  BY <1>1, <1>2

(* How a run ends that never asked for the removal of its marker.          *)
NeverAsked ==
    /\ pc = "done" /\ ~removing =>
         errors = {"exec"} /\ control = "failed" /\ findings = {} /\ seen = {}
    /\ pc = "first" => errors = {} /\ findings = {} /\ seen = {}

(* bounds.py:56-63: the one path on which no removal is asked for is that  *)
(* of the first exec whose answer is lost; the run has no finding then, and*)
(* says that it is incomplete.                                             *)
THEOREM OnlyALostWriteIsLeft == Spec => []NeverAsked
<1>1. Init => NeverAsked
  BY DEF Init, NeverAsked
<1>2. NeverAsked /\ [Next]_vars => NeverAsked'
  <2> SUFFICES ASSUME NeverAsked, [Next]_vars
               PROVE  NeverAsked'
    OBVIOUS
  <2> USE DEF NeverAsked, outcome, history
  <2>1. CASE FirstAnswers \/ FirstLost
    BY <2>1 DEF FirstAnswers, FirstLost
  <2>2. CASE Resetting \/ ResetConfirmed \/ ResetFailed
    BY <2>2 DEF Resetting, ResetConfirmed, ResetFailed
  <2>3. CASE SecondAnswers \/ SecondLost \/ CleanupAnswers \/ CleanupLost
    BY <2>3 DEF SecondAnswers, SecondLost, CleanupAnswers, CleanupLost
  <2>4. CASE RunAgain
    BY <2>4 DEF RunAgain
  <2>5. CASE UNCHANGED vars \/ UNCHANGED <<setup, resetting, config, run, pc, outcome, history>>
    BY <2>5 DEF vars
  <2> QED  BY <2>1, <2>2, <2>3, <2>4, <2>5 DEF Next, ProbeStep
<1> QED  BY <1>1, <1>2, PTL DEF Spec
=============================================================================
