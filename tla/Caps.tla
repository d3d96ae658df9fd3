---------------------------------- MODULE Caps ----------------------------------
(***************************************************************************)
(* How the bounds payload reads the resource caps of its sandbox           *)
(* (PAYLOAD_BODY in probes/bounds.py) and which finding a missing one is.  *)
(*                                                                         *)
(* The files are the kernel's, in one of several hierarchies.  The text of *)
(* a file is known by its first field: none, the word "max", a number, or  *)
(* something else.  "unreadable" stands for a file that cannot be opened.  *)
(***************************************************************************)
EXTENDS Integers

CONSTANTS Ceiling,   \* 1 << 62, below which a memory limit is one
          Unlimited  \* what the older hierarchy shows where no limit is set

ASSUME CapsAssumption ==
    /\ Ceiling \in Nat \ {0}
    /\ Unlimited \in Nat /\ Unlimited >= Ceiling

NoLimit == -1

(* The limits of a sandbox, where its files are, and whether the target    *)
(* declares a wall-clock limit.  A kernel takes no CPU quota of 0, and no  *)
(* memory limit beyond what it can count.                                  *)
Limits ==
    [hierarchy : {"unified", "split", "joint", "hidden"},
     memory : {NoLimit} \cup 0..(Ceiling - 1), pids : {NoLimit} \cup Nat,
     cpu : {NoLimit} \cup (Nat \ {0}), declared : BOOLEAN]

-----------------------------------------------------------------------------
(* ---- the kernel's files (external) ---- *)

Unreadable == [kind |-> "unreadable", number |-> 0]
Word == [kind |-> "max", number |-> 0]
Number(n) == [kind |-> "number", number |-> n]

WordOr(limit) == IF limit = NoLimit THEN Word ELSE Number(limit)
File(there, text) == IF there THEN text ELSE Unreadable

(* The paths the payload tries, in their order.                            *)
MemoryFiles(l) ==
    <<File(l.hierarchy = "unified", WordOr(l.memory)),
      File(l.hierarchy \in {"split", "joint"},
           Number(IF l.memory = NoLimit THEN Unlimited ELSE l.memory))>>

PidsFiles(l) ==
    <<File(l.hierarchy = "unified", WordOr(l.pids)),
      File(l.hierarchy \in {"split", "joint"}, WordOr(l.pids))>>

CpuFiles(l) ==
    <<File(l.hierarchy = "unified", WordOr(l.cpu)),
      File(l.hierarchy = "split", Number(l.cpu)),
      File(l.hierarchy = "joint", Number(l.cpu))>>

-----------------------------------------------------------------------------
(* read_first: the first path that opens, whatever it holds.               *)
ReadFirst(files) ==
    LET opened == {i \in DOMAIN files : files[i].kind # "unreadable"}
    IN  IF opened = {} THEN [kind |-> "none", number |-> 0]
        ELSE files[CHOOSE i \in opened : \A j \in opened : i <= j]

(* cgroup_capped, for memory.                                              *)
CgroupCapped(text) == text.kind = "number" /\ text.number < Ceiling

(* pids: any text but the word.                                            *)
PidsCapped(text) == text.kind \in {"number", "other"}

(* Faulty variant: any number is a quota, also the -1 that means none.     *)
AnyQuota(text) == text.kind = "number"

(* cpu_capped: only a positive quota is a ceiling.                         *)
CpuCapped(text) == text.kind = "number" /\ text.number > 0

(* BoundsProbe.run: a finding for each cap the first exec did not see, and *)
(* one if the target declares no wall-clock limit.                         *)
CapFindings(l) ==
    {f \in {"memory_uncapped", "pids_uncapped", "cpu_uncapped", "wallclock_uncapped"} :
        \/ f = "memory_uncapped" /\ ~CgroupCapped(ReadFirst(MemoryFiles(l)))
        \/ f = "pids_uncapped" /\ ~PidsCapped(ReadFirst(PidsFiles(l)))
        \/ f = "cpu_uncapped" /\ ~CpuCapped(ReadFirst(CpuFiles(l)))
        \/ f = "wallclock_uncapped" /\ ~l.declared}

(* What should be said of them.                                            *)
Uncapped(l) ==
    {f \in {"memory_uncapped", "pids_uncapped", "cpu_uncapped", "wallclock_uncapped"} :
        \/ f = "memory_uncapped" /\ (l.memory = NoLimit \/ l.hierarchy = "hidden")
        \/ f = "pids_uncapped" /\ (l.pids = NoLimit \/ l.hierarchy = "hidden")
        \/ f = "cpu_uncapped" /\ (l.cpu = NoLimit \/ l.hierarchy = "hidden")
        \/ f = "wallclock_uncapped" /\ ~l.declared}
=============================================================================
