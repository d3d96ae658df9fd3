------------------------------ MODULE Filesystem ------------------------------
(***************************************************************************)
(* The filesystem probe (probes/filesystem.py): inside the sandbox the     *)
(* payload opens paths, walks the process table, and writes marker files it*)
(* removes again; outside, what it printed becomes findings.               *)
(*                                                                         *)
(* Other processes run meanwhile: they start, exit and change their user,  *)
(* and a pid may pass to another process.  The process table or an owner   *)
(* may not be readable.  The exec may be lost at any point; a marker it had*)
(* written stays.                                                          *)
(***************************************************************************)
EXTENDS InnerResult

CONSTANTS Readable, Listed, Writable, Sockets,  \* the candidate paths, numbered
                                                \* in the harness's order
          Worlds,    \* what the sandbox can be like to begin with
          Pids,      \* pids a process may have
          ScanLimit, \* scan_limit: how many processes are looked at
          MaxChurn   \* bound: pids that change hands while the payload runs

Workspace == 0
Places == Writable \cup {Workspace}

(* What becomes of a marker: no file can be created; one is created and the*)
(* write fails, as on a full disk; it is written and cannot be removed; or *)
(* both work.  What a pid stands for: nothing, a process of the payload's  *)
(* own user, or another user's, its environment closed or open to it.      *)
Fates == {"denied", "full", "sticky", "fine"}
Holders == {"free", "own", "closed", "exposed"}

WorldType ==
    [open : SUBSET (Readable \cup Listed \cup Sockets),  \* paths it can read, list or see
     fate : [Places -> Fates], procs : [Pids -> Holders]]

ASSUME FilesystemAssumption ==
    /\ Readable \cup Listed \cup Writable \cup Sockets \cup Pids \subseteq Nat \ {Workspace}
    /\ IsFiniteSet(Pids)
    /\ Worlds \subseteq WorldType
    /\ ScanLimit \in Nat \ {0} /\ MaxChurn \in Nat

VARIABLES open,     \* the candidate paths the sandbox can read, list or see
          fate,     \* [place -> what becomes of a marker there]
          procs,    \* the process table
          todo,     \* what the loop under way has still to look at
          seen,     \* the payload's result dict
          markers,  \* places in which a marker file lies
          foreign,  \* history: pids that have been another user's,
          everOpen, \* whose environment has been open to the payload,
          crossed,  \* that came to its own user after having been another's,
          churned,  \* that changed hands at all;
          skipped   \* and whose owner the payload could not determine

table == <<procs, foreign, everOpen, crossed, churned>>
filesystem == <<open, fate, todo, seen, markers, skipped, table>>

FILESYSTEM_SHAPE ==
    [readable_outside |-> LIST, listed_outside |-> LIST, writable_outside |-> LIST,
     cleanup_failed_outside |-> LIST, foreign_environ_count |-> COUNT,
     foreign_environ_uids |-> LIST, runtime_sockets |-> LIST,
     workspace_writable |-> BOOL, workspace_cleanup_failed |-> BOOL]

NothingSeen ==
    [readable_outside |-> {}, listed_outside |-> {}, writable_outside |-> {},
     cleanup_failed_outside |-> {}, foreign_environ_count |-> 0, foreign_environ_uids |-> {},
     runtime_sockets |-> {}, workspace_writable |-> FALSE,
     workspace_cleanup_failed |-> FALSE]

FilesystemInit ==
    /\ \E w \in Worlds : open = w.open /\ fate = w.fate /\ procs = w.procs
    /\ foreign = {p \in Pids : procs[p] \in {"closed", "exposed"}}
    /\ everOpen = {p \in Pids : procs[p] = "exposed"} /\ crossed = {} /\ churned = {}
    /\ todo = {} /\ seen = NothingSeen /\ markers = {} /\ skipped = {}
    /\ JustAsked("filesystem") /\ stage = "paths"

First(S) == CHOOSE i \in S : \A j \in S : i <= j
Lowest(S, n) == {i \in S : Cardinality({j \in S : j < i}) < n}

-----------------------------------------------------------------------------
(* Faulty variants of the definitions below; the checks show that each is  *)
(* caught.                                                                 *)

RemovedIsWritten(p, wrote, removed) ==
    seen' = IF p = Workspace
            THEN [seen EXCEPT !.workspace_writable = wrote]
            ELSE [seen EXCEPT !.writable_outside = @ \cup {q \in {p} : wrote /\ removed},
                              !.cleanup_failed_outside = @ \cup {q \in {p} : wrote /\ ~removed}]

OpenWithoutOwner ==
    /\ stage = "stat" /\ todo # {}
    /\ stage' = "open"
    /\ UNCHANGED <<probe, garbled, outcome, filesystem>>

-----------------------------------------------------------------------------
(* _confirmed: of the paths that came back, those that went in.            *)
Confirmed(rule, reported, candidates) == {Finding(rule, path) : path \in reported \cap candidates}

(* Paths that can be read and paths that can be written share a rule.      *)
FilesystemFindings(value) ==
    Confirmed("outside_workspace", value.readable_outside, Readable)
      \cup Confirmed("host_mount", value.listed_outside, Listed)
      \cup Confirmed("outside_workspace", value.writable_outside, Writable)
      \cup {Finding("proc_environ", n) : n \in {value.foreign_environ_count} \ {0}}
      \cup Confirmed("runtime_socket", value.runtime_sockets, Sockets)
      \cup {f \in {Finding("workspace_missing", Workspace)} : ~value.workspace_writable}

CleanupErrors(value) ==
    {Error("cleanup", p) : p \in value.cleanup_failed_outside \cap Writable}
      \cup {e \in {Error("cleanup", Workspace)} : value.workspace_cleanup_failed}

WorkspaceControl(value) == IF value.workspace_writable THEN "held" ELSE "failed"

(* FilesystemProbe.run, from stdout to the outcome.                        *)
FilesystemVerdict(stdout) ==
    LET body == ParseInner(stdout)
    IN  IF body.kind # "object" THEN Unread("exec")
        ELSE IF ShapeProblems(body, FILESYSTEM_SHAPE) # {} THEN Unread("result")
        ELSE [findings |-> FilesystemFindings(body.value),
              errors   |-> CleanupErrors(body.value),
              control  |-> WorkspaceControl(body.value)]

-----------------------------------------------------------------------------
(* The payload: what can be read and listed, then the numeric entries of   *)
(* /proc as they are at this moment, the lowest ScanLimit of them; none    *)
(* when os.listdir fails.                                                  *)
LookAtPaths ==
    /\ stage = "paths"
    /\ seen' = [seen EXCEPT !.readable_outside = open \cap Readable,
                            !.listed_outside = open \cap Listed]
    /\ \/ /\ todo' = Lowest({p \in Pids : procs[p] # "free"}, ScanLimit)
          /\ UNCHANGED skipped
       \/ todo' = {} /\ skipped' = Pids
    /\ stage' = "stat"
    /\ UNCHANGED <<probe, garbled, outcome, open, fate, markers, table>>

(* os.stat of the next process: another user's, or one's own, or it fails, *)
(* as of a process that is gone or that may not be looked at.              *)
Another(p) == procs[p] \notin {"free", "own"}

StatProcess ==
    /\ stage = "stat" /\ todo # {}
    /\ \/ Another(First(todo)) /\ stage' = "open" /\ UNCHANGED <<todo, skipped>>
       \/ /\ todo' = todo \ {First(todo)}
          /\ skipped' = skipped \cup {p \in {First(todo)} : Another(p)}
          /\ UNCHANGED stage
    /\ UNCHANGED <<probe, garbled, outcome, open, fate, seen, markers, table>>

(* open of its environ, a system call later: whoever holds the pid now.    *)
(* The owner recorded is the one the stat found; all others count as one.  *)
OpenEnviron ==
    /\ stage = "open"
    /\ seen' = IF procs[First(todo)] \in {"own", "exposed"}
               THEN [seen EXCEPT !.foreign_environ_count = @ + 1,
                                 !.foreign_environ_uids = {"another"}] ELSE seen
    /\ todo' = todo \ {First(todo)}
    /\ stage' = "stat"
    /\ UNCHANGED <<probe, garbled, outcome, open, fate, markers, skipped, table>>

LookForSockets ==
    /\ stage = "stat" /\ todo = {}
    /\ seen' = [seen EXCEPT !.runtime_sockets = open \cap Sockets]
    /\ todo' = Writable
    /\ stage' = "write"
    /\ UNCHANGED <<probe, garbled, outcome, open, fate, markers, skipped, table>>

(* write_marker, for every base and last for the workspace.                *)
Base == IF todo = {} THEN Workspace ELSE First(todo)

RecordMarker(p, wrote, removed) ==
    seen' = IF p = Workspace
            THEN [seen EXCEPT !.workspace_writable = wrote,
                              !.workspace_cleanup_failed = wrote /\ ~removed]
            ELSE [seen EXCEPT !.writable_outside = @ \cup {q \in {p} : wrote},
                              !.cleanup_failed_outside = @ \cup {q \in {p} : wrote /\ ~removed}]

NextBase ==
    /\ todo' = todo \ {Base}
    /\ stage' = IF Base = Workspace THEN "reply" ELSE "write"

WriteMarker ==
    /\ stage = "write"
    /\ markers' = IF fate[Base] = "denied" THEN markers ELSE markers \cup {Base}
    /\ IF fate[Base] \in {"denied", "full"}
       THEN RecordMarker(Base, FALSE, FALSE) /\ NextBase
       ELSE stage' = "remove" /\ UNCHANGED <<todo, seen>>
    /\ UNCHANGED <<probe, garbled, outcome, open, fate, skipped, table>>

RemoveMarker ==
    /\ stage = "remove"
    /\ markers' = IF fate[Base] = "fine" THEN markers \ {Base} ELSE markers
    /\ RecordMarker(Base, TRUE, fate[Base] = "fine")
    /\ NextBase
    /\ UNCHANGED <<probe, garbled, outcome, open, fate, skipped, table>>

FilesystemAnswers ==
    /\ stage = "reply"
    /\ \E body \in Bodies(seen, FILESYSTEM_SHAPE, NothingSeen) :
          /\ outcome' = FilesystemVerdict(Printout(body))
          /\ garbled' = Damage(body, FILESYSTEM_SHAPE)
    /\ stage' = "done"
    /\ UNCHANGED <<probe, filesystem>>

Looking == {"paths", "stat", "open", "write", "remove", "reply"}

FilesystemLost ==
    /\ stage \in Looking
    /\ outcome' = FilesystemVerdict(NoPrintout)
    /\ garbled' = "lost" /\ stage' = "done"
    /\ UNCHANGED <<probe, filesystem>>

(* Another process starts, exits or changes its user, as long as the       *)
(* payload still looks at processes.                                       *)
ProcessChanges ==
    /\ stage \in {"paths", "stat", "open"}
    /\ \E p \in Pids, h \in Holders :
          /\ h # procs[p] /\ Cardinality(churned \cup {p}) <= MaxChurn
          /\ procs' = [procs EXCEPT ![p] = h]
          /\ churned' = churned \cup {p}
          /\ everOpen' = everOpen \cup {q \in {p} : h = "exposed"}
          /\ foreign' = foreign \cup {q \in {p} : h \in {"closed", "exposed"}}
          /\ crossed' = crossed \cup {q \in foreign \cap {p} : h = "own"}
    /\ UNCHANGED <<exec, open, fate, todo, seen, markers, skipped>>

FilesystemNext ==
    \/ LookAtPaths \/ StatProcess \/ OpenEnviron \/ LookForSockets
    \/ WriteMarker \/ RemoveMarker \/ FilesystemAnswers \/ FilesystemLost
    \/ ProcessChanges

FilesystemSpec == FilesystemInit /\ [][FilesystemNext]_<<exec, filesystem>>

-----------------------------------------------------------------------------
FilesystemTypeOK ==
    /\ ExecTypeOK
    /\ probe = "filesystem" => stage \in Looking \cup {"done"}
    /\ open \subseteq Readable \cup Listed \cup Sockets
    /\ fate \in [Places -> Fates]
    /\ procs \in [Pids -> Holders]
    /\ todo \subseteq Pids \cup Writable
    /\ seen.foreign_environ_count \in 0..ScanLimit
    /\ seen.writable_outside \subseteq Writable
    /\ seen.cleanup_failed_outside \subseteq seen.writable_outside
    /\ markers \subseteq Places
    /\ everOpen \cup crossed \subseteq foreign
    /\ foreign \cup churned \cup skipped \subseteq Pids

(* An open environment the scan cannot have passed over: the process was   *)
(* there all along, is among the first ScanLimit whoever else came, /proc  *)
(* could be listed and the owner be determined.  Where that failed the code*)
(* counts nothing, by design (filesystem.py:200-202), and says nothing.    *)
InReach(p) ==
    /\ procs[p] = "exposed" /\ p \notin churned \cup skipped
    /\ Cardinality({q \in Pids : q < p /\ (procs[q] # "free" \/ q \in churned)}) < ScanLimit

(* What the probe could see of the invariant holds.                        *)
Confined ==
    /\ open = {}
    /\ \A p \in Writable : fate[p] \in {"denied", "full"}
    /\ \A p \in Pids : ~InReach(p)

(* README, invariant 3, and filesystem.py:1-9: a clean filesystem result   *)
(* means that no candidate path is open, no marker can be written outside  *)
(* the workspace, no environment of another user's process that was within *)
(* the scan's reach is open, and that the workspace really was written.  It*)
(* does not mean that the scan was made: see InReach.                      *)
CleanMeansConfined ==
    Clean("filesystem") => Confined /\ fate[Workspace] = "fine"

(* filesystem.py:41-43, 200-239: the payload decides whose a process is    *)
(* before it opens the environment, and another process may have the pid by*)
(* then.  The reported count never exceeds the environments that were open *)
(* at some time and the pids that went over to the payload's own user in   *)
(* between, and it misses none that was in reach: that of a process whose  *)
(* stat failed it may miss.                                                *)
ForeignCountIsReal ==
    Returned("filesystem") /\ garbled = "no" =>
        LET reported == {f.about : f \in {g \in outcome.findings : g.rule = "proc_environ"}}
            inReach == {p \in Pids : InReach(p)}
        IN  /\ \A n \in reported : n <= Cardinality(everOpen \cup crossed)
                                   /\ n >= Cardinality(inReach)
            /\ reported = {} => inReach = {}

(* filesystem.py:35-40: a write whose removal failed is an error of its own*)
(* that names where the file lies, and it "must never make a successful    *)
(* write read as a failed one".                                            *)
FailedRemovalIsTold ==
    Returned("filesystem") /\ garbled = "no" =>
        LET stuck == {p \in markers : fate[p] = "sticky"}
        IN  /\ {e.about : e \in outcome.errors} = stuck
            /\ \A p \in stuck \cap Writable : Finding("outside_workspace", p) \in outcome.findings
            /\ Workspace \in stuck =>
                  Finding("workspace_missing", Workspace) \notin outcome.findings

(* filesystem.py:38-39: "A stray marker left in a system directory must be *)
(* reported".  Also one that was created by an open whose write then       *)
(* failed: the payload neither removes nor mentions it.                    *)
StrayMarkerIsReported ==
    Returned("filesystem") /\ garbled = "no" =>
        \A p \in markers \cap Writable :
            \/ Error("cleanup", p) \in outcome.errors
            \/ Finding("outside_workspace", p) \in outcome.findings
=============================================================================
