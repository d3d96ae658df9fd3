---------------------------- MODULE OneExecProofs ----------------------------
(***************************************************************************)
(* Theorems about the probes that rest on one exec, for every environment, *)
(* set of paths, process table, network, config and bound: none of them is *)
(* clean unless its invariant was measured and held, which is the promise  *)
(* the loop of Harness rests on.                                           *)
(*                                                                         *)
(* The invariants say, for each probe and stage, what the part of the      *)
(* result dict that is filled in by then shows about the sandbox.          *)
(***************************************************************************)
EXTENDS OneExec, InnerResultProofs

(* A result that did not come through whole is an error, and an outcome    *)
(* that says nothing rests on a sandbox in which the invariant holds.      *)
Silent == outcome.findings = {} /\ outcome.errors = {} /\ outcome.control # "failed"

Judged(holds) ==
    /\ outcome.control \in {"held", "failed", "absent"}
    /\ garbled # "no" => outcome.errors # {} \/ outcome.control = "failed"
    /\ Silent => holds

CredentialsInv ==
    /\ stage \in Searching \cup {"done"}
    /\ stage \in {"files", "imds", "send"} => found.env_secrets = Secrets
    /\ stage \in {"imds", "send"} => found.readable_paths = files
    /\ stage = "send" => found.imds # "unreachable" \/ imds = "absent" \/ tooLate
    /\ DOMAIN found = DOMAIN NothingFound /\ found.imds \in ImdsStates
    /\ env \in Environments /\ files \subseteq CredentialPaths
    /\ stage = "done" => Judged(NothingToTake)
    /\ stage = "done" /\ garbled = "no" =>
          outcome.findings = CredentialsFindings(found) /\ found.env_secrets = Secrets

(* The scan has not passed over an environment within its reach, and the   *)
(* writes have not passed over a place that takes a marker.                *)
ScannedSoFar == \A p \in Pids : InReach(p) => p \in todo \/ seen.foreign_environ_count > 0
Scanned == \A p \in Pids : InReach(p) => seen.foreign_environ_count > 0
Writes(p) == fate[p] \in {"sticky", "fine"}
WrittenSoFar == \A p \in Writable : Writes(p) => p \in todo \/ p \in seen.writable_outside
Written == \A p \in Writable : Writes(p) => p \in seen.writable_outside

FilesystemInv ==
    /\ stage \in Looking \cup {"done"}
    /\ fate \in [Places -> Fates] /\ procs \in [Pids -> Holders]
    /\ churned \subseteq Pids
    /\ open \subseteq Readable \cup Listed \cup Sockets
    /\ DOMAIN seen = DOMAIN NothingSeen /\ seen.foreign_environ_count \in Nat
    /\ stage \notin {"paths", "done"} =>
          seen.readable_outside = open \cap Readable /\ seen.listed_outside = open \cap Listed
    /\ stage \in {"stat", "open"} => ScannedSoFar
    /\ stage \in {"write", "remove", "reply"} => Scanned
    /\ stage \in {"write", "remove", "reply"} => seen.runtime_sockets = open \cap Sockets
    /\ stage \in {"write", "remove"} => todo \subseteq Writable /\ WrittenSoFar
    /\ stage = "reply" => Written
    /\ seen.workspace_writable /\ ~seen.workspace_cleanup_failed => fate[Workspace] = "fine"
    /\ stage = "done" => Judged(Confined /\ fate[Workspace] = "fine")

(* Of a network that did not change under the payload.                     *)
ShutOrTold(name, status) == Opens(name) => status = "connected" \/ name \in slow
LiveNetwork ==
    IF config.proxy = "none" THEN Allowed \in net.resolves ELSE net.proxy = "serves"
Refused == net.route = "refused" \/ (net.route = "open" /\ Literal \in net.refuses)
AnswersHold ==
    /\ got.blocked_endpoint = "denied" => Refused
    /\ stage \in {"canary", "c2", "print"} => ShutOrTold(Blocked, got.blocked_host)
    /\ stage \in {"c2", "print"} => got.dns_canary = Resolves(Canary)
    /\ \A n \in DOMAIN got.c2 : ShutOrTold(n, got.c2[n])
    /\ got.control_reachable => LiveNetwork

NetworkHolds == Contained /\ (changes = 0 => LiveNetwork)

NetworkInv ==
    /\ stage \in {"config", "refused", "raised", "done"} \cup Checking
    /\ config \in ConfigFiles /\ net \in Networks /\ changes \in Nat
    /\ stage \in {"done"} \cup Checking => config.file = "object"
    /\ stage = "print" => C2ToTry \subseteq DOMAIN got.c2
    /\ stage = "done" /\ garbled = "no" =>
          outcome.findings = NetworkFindings(got) /\ C2ToTry \subseteq DOMAIN got.c2
    /\ DOMAIN got = DOMAIN Falsy
    /\ stage # "done" /\ changes = 0 => AnswersHold
    /\ stage = "done" => Judged(NetworkHolds)

IInv ==
    /\ probe \in {"credentials", "filesystem", "network"}
    /\ probe = "credentials" => CredentialsInv
    /\ probe = "filesystem" => FilesystemInv
    /\ probe = "network" => NetworkInv

-----------------------------------------------------------------------------
(* ---- what a verdict rests on ---- *)

(* A list of which nothing is said is empty, whatever the limit.           *)
LEMMA NothingListed ==
    ASSUME NEW rule, NEW S \in SUBSET Nat, IsFiniteSet(S), ListFindings(rule, S) = {}
    PROVE  S = {}
<1>1. Shown(S) = {}
  BY DEF ListFindings
<1>2. Cardinality(Shown(S)) = 0
  BY <1>1, FS_EmptySet
<1>3. Shown(S) = S
  BY <1>2, ShownCardinality, ListLimitAssumption
<1> QED  BY <1>1, <1>3

(* A result that could not be read never says more than it knows.         *)
LEMMA UnreadIsNotSilent ==
    ASSUME NEW check, outcome = Unread(check), NEW holds
    PROVE  Judged(holds)
  BY DEF Unread, Judged, Silent

(* The line that arrives is damaged, or the one that was printed.          *)
LEMMA ReadBack ==
    ASSUME NEW value, NEW expected, NEW falsy, NEW body \in Bodies(value, expected, falsy)
    PROVE  \/ body.kind # "object"
           \/ ShapeProblems(body, expected) # {}
           \/ /\ body = Whole(value, expected)
              /\ Damage(body, expected) = "no"
<1>1. SUFFICES ASSUME body.kind = "object", ShapeProblems(body, expected) = {}
               PROVE  body = Whole(value, expected) /\ Damage(body, expected) = "no"
  OBVIOUS
<1>2. body = Whole(value, expected)
  BY <1>1, MisshapenIsNoticed
<1> QED  BY <1>1, <1>2 DEF Damage

-----------------------------------------------------------------------------
(* ---- the credentials probe ---- *)

(* The secrets of an environment are finitely many.                       *)
LEMMA SecretsListed ==
    ASSUME env \in Environments
    PROVE  Secrets \in SUBSET Nat /\ IsFiniteSet(Secrets)
<1>1. env \in Seq(Variables)
  BY CredentialsAssumption
<1>2. Len(env) \in Nat /\ DOMAIN env = 1..Len(env)
  BY <1>1
<1>3. IsFiniteSet(1..Len(env))
  BY <1>2, FS_Interval
<1>4. Secrets \in SUBSET (1..Len(env))
  BY <1>2 DEF Secrets
<1>5. IsFiniteSet(Secrets)
  BY <1>3, <1>4, FS_Subset
<1> QED  BY <1>2, <1>4, <1>5

(* What the verdict of the credentials probe says of what was seen.       *)
LEMMA CredentialsAreJudged ==
    ASSUME CredentialsInv, CredentialsAnswers
    PROVE  /\ Judged(NothingToTake)'
           /\ garbled' = "no" => outcome'.findings = CredentialsFindings(found)
<1> USE DEF CredentialsAnswers
<1>1. PICK body \in Bodies(found, CREDENTIALS_SHAPE, NothingFound) \cup UndefinedImds :
          /\ outcome' = CredentialsVerdict(Printout(body))
          /\ garbled' = IF body \in UndefinedImds THEN "status"
                        ELSE Damage(body, CREDENTIALS_SHAPE)
  OBVIOUS
<1>2. ParseInner(Printout(body)) = body
  BY ParsePrintout
<1>3. CASE \/ body.kind # "object" \/ ShapeProblems(body, CREDENTIALS_SHAPE) # {}
           \/ UndefinedState(body)
  <2>1. outcome' = Unread("exec") \/ outcome' = Unread("result")
    BY <1>1, <1>2, <1>3 DEF CredentialsVerdict
  <2>2. garbled' # "no"
    <3>1. CASE body \in UndefinedImds
      BY <1>1, <3>1
    <3>2. CASE body \notin UndefinedImds
      <4>1. body = Whole(found, CREDENTIALS_SHAPE) => ~UndefinedState(body)
        BY DEF Whole, UndefinedState, CredentialsInv
      <4>2. body.kind # "object" \/ ShapeProblems(body, CREDENTIALS_SHAPE) # {}
        BY <1>3, <3>2, <4>1, ReadBack
      <4> QED  BY <1>1, <3>2, <4>2 DEF Damage
    <3> QED  BY <3>1, <3>2
  <2> QED  BY <2>1, <2>2 DEF Unread, Judged, Silent
<1>4. CASE /\ body.kind = "object" /\ ShapeProblems(body, CREDENTIALS_SHAPE) = {}
           /\ ~UndefinedState(body)
  <2>1. body \notin UndefinedImds
    BY <1>4 DEF UndefinedImds, UndefinedState, ImdsStates, Whole, CredentialsInv, NothingFound
  <2>2. body = Whole(found, CREDENTIALS_SHAPE) /\ garbled' = "no"
    BY <1>1, <1>4, <2>1, ReadBack
  <2>3. outcome' = [findings |-> CredentialsFindings(found), errors |-> {}, control |-> "absent"]
    <3>1. outcome' = [findings |-> CredentialsFindings(body.value), errors |-> {},
                      control |-> "absent"]
      BY <1>1, <1>2, <1>4 DEF CredentialsVerdict
    <3>2. body.value = found
      BY <2>2 DEF Whole
    <3> QED  BY <3>1, <3>2
  <2>4. ASSUME CredentialsFindings(found) = {}
        PROVE  NothingToTake
    <3>1. ListFindings("env_secret", found.env_secrets) = {}
      BY <2>4 DEF CredentialsFindings
    <3>2. found.env_secrets = Secrets /\ found.readable_paths = files /\ files \subseteq CredentialPaths
      BY DEF CredentialsInv
    <3>3. Secrets = {}
      BY <3>1, <3>2, SecretsListed, NothingListed DEF CredentialsInv
    <3>4. files = {}
      BY <2>4, <3>2 DEF CredentialsFindings
    <3>5. found.imds = "unreachable"
      <4>1. found.imds \notin {"token_blocked", "token_obtained"}
        BY <2>4 DEF CredentialsFindings
      <4> QED  BY <4>1 DEF CredentialsInv, ImdsStates
    <3>6. imds = "absent" \/ tooLate
      BY <3>5 DEF CredentialsInv
    <3> QED  BY <3>3, <3>4, <3>6 DEF NothingToTake, Secrets
  <2>5. NothingToTake' <=> NothingToTake
    BY DEF NothingToTake, credentials, LooksSecret
  <2> QED  BY <2>2, <2>3, <2>4, <2>5 DEF Judged, Silent
<1> QED  BY <1>3, <1>4

(* Every step of the credentials probe keeps its part of the invariant.   *)
LEMMA CredentialsStep ==
    ASSUME CredentialsInv, CredentialsNext
    PROVE  CredentialsInv'
<1> USE DEF CredentialsInv, Searching, NothingFound
<1>1. CASE LookAtEnvironment
  <2>1. Secrets' = Secrets
    BY <1>1 DEF LookAtEnvironment, Secrets, LooksSecret
  <2> QED  BY <1>1, <2>1 DEF LookAtEnvironment
<1>2. CASE LookAtFiles
  <2>1. Secrets' = Secrets
    BY <1>2 DEF LookAtFiles, Secrets, LooksSecret
  <2> QED  BY <1>2, <2>1 DEF LookAtFiles
<1>3. CASE AskImds
  <2>1. Secrets' = Secrets
    BY <1>3 DEF AskImds, Secrets, LooksSecret
  <2> QED  BY <1>3, <2>1 DEF AskImds
<1>4. CASE CredentialsAnswers
  <2>1. Judged(NothingToTake)' /\ (garbled' = "no" => outcome'.findings = CredentialsFindings(found))
    BY <1>4, CredentialsAreJudged
  <2>2. Secrets' = Secrets /\ CredentialsFindings(found)' = CredentialsFindings(found)
    BY <1>4 DEF CredentialsAnswers, credentials, Secrets, LooksSecret, CredentialsFindings
  <2> QED  BY <1>4, <2>1, <2>2 DEF CredentialsAnswers, credentials
<1>5. CASE CredentialsLost
  <2>1. outcome' = Unread("exec")
    BY <1>5, ParseNothing DEF CredentialsLost, CredentialsVerdict, Nothing
  <2>2. Judged(NothingToTake)'
    BY <2>1 DEF Unread, Judged, Silent
  <2> QED  BY <1>5, <2>2 DEF CredentialsLost, credentials
<1> QED  BY <1>1, <1>2, <1>3, <1>4, <1>5 DEF CredentialsNext

-----------------------------------------------------------------------------
(* ---- the filesystem probe ---- *)

(* What churns only grows, so what is in reach was in reach before.        *)
LEMMA ReachShrinks ==
    ASSUME procs \in [Pids -> Holders], churned \subseteq Pids, ProcessChanges
    PROVE  \A p \in Pids : InReach(p)' => InReach(p)
<1>1. PICK r \in Pids, h \in Holders :
          procs' = [procs EXCEPT ![r] = h] /\ churned' = churned \cup {r}
  BY DEF ProcessChanges
<1>2. SUFFICES ASSUME NEW p \in Pids, InReach(p)'
               PROVE  InReach(p)
  OBVIOUS
<1> DEFINE taken == {q \in Pids : q < p /\ (procs[q] # "free" \/ q \in churned)}
           takenNow == {q \in Pids : q < p /\ (procs'[q] # "free" \/ q \in churned')}
<1>3. /\ procs[p] = "exposed" /\ p \notin churned \cup skipped
      /\ Cardinality(takenNow) < ScanLimit
  BY <1>1, <1>2 DEF InReach, ProcessChanges
<1>4. taken \in SUBSET takenNow /\ takenNow \in SUBSET Pids
  BY <1>1
<1>5. IsFiniteSet(takenNow) /\ IsFiniteSet(taken)
  BY <1>4, FS_Subset, FilesystemAssumption
<1>6. Cardinality(taken) <= Cardinality(takenNow)
  <2> HIDE DEF taken, takenNow
  <2> QED  BY <1>4, <1>5, FS_Subset
<1>7. Cardinality(taken) \in Nat /\ Cardinality(takenNow) \in Nat
  <2> HIDE DEF taken, takenNow
  <2> QED  BY <1>5, FS_CardinalityType
<1>8. Cardinality(taken) < ScanLimit
  <2> HIDE DEF taken, takenNow
  <2> QED  BY <1>3, <1>6, <1>7, FilesystemAssumption
<1> QED  BY <1>3, <1>8 DEF InReach

(* What could not be looked at only grows as well.                         *)
LEMMA ReachKept ==
    ASSUME UNCHANGED table, \A p \in Pids \cap skipped : p \in skipped'
    PROVE  \A p \in Pids : InReach(p)' <=> InReach(p) /\ p \notin skipped'
  BY DEF InReach, table

(* A process in reach is among those the scan is going to look at.         *)
LEMMA ReachIsScanned ==
    ASSUME procs \in [Pids -> Holders], NEW p \in Pids, InReach(p)
    PROVE  p \in Lowest({q \in Pids : procs[q] # "free"}, ScanLimit)
<1> DEFINE living == {q \in Pids : procs[q] # "free"}
           smaller == {q \in living : q < p}
           taken == {q \in Pids : q < p /\ (procs[q] # "free" \/ q \in churned)}
<1>1. procs[p] = "exposed" /\ Cardinality(taken) < ScanLimit
  BY DEF InReach
<1>2. smaller \in SUBSET taken /\ taken \in SUBSET Pids
  OBVIOUS
<1>3. IsFiniteSet(taken) /\ IsFiniteSet(smaller)
  BY <1>2, FS_Subset, FilesystemAssumption
<1>4. /\ Cardinality(smaller) <= Cardinality(taken)
      /\ Cardinality(smaller) \in Nat /\ Cardinality(taken) \in Nat
  <2> HIDE DEF smaller, taken
  <2> QED  BY <1>2, <1>3, FS_Subset, FS_CardinalityType
<1>5. Cardinality(smaller) < ScanLimit
  <2> HIDE DEF smaller, taken
  <2> QED  BY <1>1, <1>4, FilesystemAssumption
<1>6. p \in living
  BY <1>1
<1> QED  BY <1>5, <1>6 DEF Lowest

(* The first of a set of numbers that is not empty is one of them.        *)
LEMMA FirstIsMember ==
    ASSUME NEW S \in SUBSET Nat, S # {}
    PROVE  First(S) \in S
  BY LeastMember DEF First

(* What the verdict of the filesystem probe says of what was seen.        *)
LEMMA FilesystemIsJudged ==
    ASSUME FilesystemInv, FilesystemAnswers
    PROVE  /\ Judged(Confined /\ fate[Workspace] = "fine")'
           /\ garbled' = "no" =>
                 outcome' = [findings |-> FilesystemFindings(seen), errors |-> CleanupErrors(seen),
                             control |-> WorkspaceControl(seen)]
<1> USE DEF FilesystemAnswers
<1> DEFINE holds == Confined /\ fate[Workspace] = "fine"
<1>1. PICK body \in Bodies(seen, FILESYSTEM_SHAPE, NothingSeen) :
          /\ outcome' = FilesystemVerdict(Printout(body))
          /\ garbled' = Damage(body, FILESYSTEM_SHAPE)
  OBVIOUS
<1>2. ParseInner(Printout(body)) = body
  BY ParsePrintout
<1>3. CASE body.kind # "object" \/ ShapeProblems(body, FILESYSTEM_SHAPE) # {}
  <2>1. outcome' = Unread("exec") \/ outcome' = Unread("result")
    BY <1>1, <1>2, <1>3 DEF FilesystemVerdict
  <2>2. garbled' # "no"
    BY <1>1, <1>3 DEF Damage
  <2> QED  BY <2>1, <2>2 DEF Unread, Judged, Silent
<1>4. CASE body.kind = "object" /\ ShapeProblems(body, FILESYSTEM_SHAPE) = {}
  <2>1. body = Whole(seen, FILESYSTEM_SHAPE) /\ garbled' = "no"
    BY <1>1, <1>4, ReadBack
  <2>2. outcome' = [findings |-> FilesystemFindings(seen), errors |-> CleanupErrors(seen),
                    control |-> WorkspaceControl(seen)]
    <3>1. outcome' = [findings |-> FilesystemFindings(body.value),
                      errors |-> CleanupErrors(body.value),
                      control |-> WorkspaceControl(body.value)]
      BY <1>1, <1>2, <1>4 DEF FilesystemVerdict
    <3>2. body.value = seen
      BY <2>1 DEF Whole
    <3> QED  BY <3>1, <3>2
  <2>3. ASSUME FilesystemFindings(seen) = {}, CleanupErrors(seen) = {},
               WorkspaceControl(seen) # "failed"
        PROVE  holds
    <3>1. fate[Workspace] = "fine"
      BY <2>3 DEF CleanupErrors, WorkspaceControl, FilesystemInv
    <3>2. open = {}
      <4>1. /\ seen.readable_outside = open \cap Readable
            /\ seen.listed_outside = open \cap Listed
            /\ seen.runtime_sockets = open \cap Sockets
            /\ open \subseteq Readable \cup Listed \cup Sockets
        BY DEF FilesystemInv
      <4>2. /\ seen.readable_outside \cap Readable = {} /\ seen.listed_outside \cap Listed = {}
            /\ seen.runtime_sockets \cap Sockets = {}
        BY <2>3 DEF FilesystemFindings, Confirmed
      <4> QED  BY <4>1, <4>2
    <3>3. \A p \in Writable : fate[p] \in {"denied", "full"}
      <4>1. seen.writable_outside \cap Writable = {}
        BY <2>3 DEF FilesystemFindings, Confirmed
      <4>2. \A p \in Writable : ~Writes(p)
        BY <4>1 DEF FilesystemInv, Written
      <4>3. \A p \in Writable : fate[p] \in Fates
        BY DEF FilesystemInv, Places
      <4> QED  BY <4>2, <4>3 DEF Writes, Fates
    <3>4. \A p \in Pids : ~InReach(p)
      <4>1. seen.foreign_environ_count = 0
        BY <2>3 DEF FilesystemFindings
      <4> QED  BY <4>1 DEF FilesystemInv, Scanned
    <3> QED  BY <3>1, <3>2, <3>3, <3>4 DEF Confined
  <2>4. holds' <=> holds
    BY DEF Confined, InReach, filesystem, table
  <2> QED  BY <2>1, <2>2, <2>3, <2>4 DEF Judged, Silent, WorkspaceControl
<1> QED  BY <1>3, <1>4

(* Every step of the filesystem probe keeps its part of the invariant.    *)
LEMMA FilesystemStep ==
    ASSUME FilesystemInv, FilesystemNext
    PROVE  FilesystemInv'
<1> USE DEF FilesystemInv, Looking
<1>0. /\ DOMAIN seen = DOMAIN NothingSeen
      /\ DOMAIN NothingSeen =
            {"readable_outside", "listed_outside", "writable_outside", "cleanup_failed_outside",
             "foreign_environ_count", "foreign_environ_uids", "runtime_sockets",
             "workspace_writable", "workspace_cleanup_failed"}
  BY DEF NothingSeen
<1>1. CASE LookAtPaths
  <2>1. \A p \in Pids : InReach(p)' => InReach(p) /\ p \notin skipped'
    BY <1>1, ReachKept DEF LookAtPaths
  <2>2. todo' = Lowest({q \in Pids : procs[q] # "free"}, ScanLimit) \/ skipped' = Pids
    BY <1>1 DEF LookAtPaths
  <2>3. ScannedSoFar'
    BY <2>1, <2>2, ReachIsScanned DEF ScannedSoFar
  <2> QED  BY <1>0, <1>1, <2>3 DEF LookAtPaths, table
<1>2. CASE StatProcess
  <2>1. \A p \in Pids : InReach(p)' => InReach(p) /\ p \notin skipped'
    BY <1>2, ReachKept DEF StatProcess
  <2>2. ScannedSoFar'
    <3>1. CASE todo' = todo \ {First(todo)} /\ (Another(First(todo)) => First(todo) \in skipped')
      <4>1. \A p \in Pids : InReach(p)' => p # First(todo)
        BY <2>1, <3>1 DEF InReach, Another
      <4> QED  BY <1>2, <2>1, <3>1, <4>1 DEF StatProcess, ScannedSoFar
    <3>2. CASE UNCHANGED todo
      BY <1>2, <2>1, <3>2 DEF StatProcess, ScannedSoFar
    <3> QED  BY <1>2, <3>1, <3>2 DEF StatProcess
  <2> QED  BY <1>2, <2>2 DEF StatProcess, table
<1>3. CASE OpenEnviron
  <2>1. \A p \in Pids : InReach(p)' <=> InReach(p)
    BY <1>3 DEF OpenEnviron, InReach, table
  <2>2. CASE procs[First(todo)] \in {"own", "exposed"}
    <3>1. seen' = [seen EXCEPT !.foreign_environ_count = @ + 1,
                               !.foreign_environ_uids = {"another"}]
      BY <1>3, <2>2 DEF OpenEnviron
    <3>2. /\ seen'.foreign_environ_count = seen.foreign_environ_count + 1
          /\ seen'.readable_outside = seen.readable_outside
          /\ seen'.listed_outside = seen.listed_outside
          /\ seen'.workspace_writable = seen.workspace_writable
          /\ seen'.workspace_cleanup_failed = seen.workspace_cleanup_failed
          /\ DOMAIN seen' = DOMAIN seen
      BY <1>0, <3>1
    <3>3. seen'.foreign_environ_count > 0
      BY <3>2
    <3>4. ScannedSoFar'
      BY <3>3 DEF ScannedSoFar
    <3> QED  BY <1>3, <3>2, <3>4 DEF OpenEnviron, table
  <2>3. CASE procs[First(todo)] \notin {"own", "exposed"}
    <3>1. \A p \in Pids : InReach(p) => p # First(todo)
      BY <2>3 DEF InReach
    <3>2. ScannedSoFar'
      BY <1>3, <2>1, <2>3, <3>1 DEF OpenEnviron, ScannedSoFar
    <3> QED  BY <1>3, <2>3, <3>2 DEF OpenEnviron, table
  <2> QED  BY <2>2, <2>3
<1>4. CASE LookForSockets
  <2>1. \A p \in Pids : InReach(p)' <=> InReach(p)
    BY <1>4 DEF LookForSockets, InReach, table
  <2>2. seen' = [seen EXCEPT !.runtime_sockets = open \cap Sockets]
    BY <1>4 DEF LookForSockets
  <2>3. /\ seen'.foreign_environ_count = seen.foreign_environ_count
        /\ seen'.readable_outside = seen.readable_outside
        /\ seen'.listed_outside = seen.listed_outside
        /\ seen'.runtime_sockets = open \cap Sockets
        /\ seen'.workspace_writable = seen.workspace_writable
        /\ seen'.workspace_cleanup_failed = seen.workspace_cleanup_failed
        /\ DOMAIN seen' = DOMAIN seen
    BY <1>0, <2>2
  <2>4. Scanned' /\ WrittenSoFar'
    BY <1>4, <2>1, <2>3 DEF LookForSockets, Scanned, ScannedSoFar, WrittenSoFar
  <2> QED  BY <1>4, <2>3, <2>4 DEF LookForSockets, table
<1>5. CASE WriteMarker \/ RemoveMarker
  <2>1. /\ UNCHANGED <<probe, garbled, outcome, open, fate, skipped, table>>
        /\ stage \in {"write", "remove"}
    BY <1>5 DEF WriteMarker, RemoveMarker
  <2>2. \A p \in Pids : InReach(p)' <=> InReach(p)
    BY <2>1 DEF InReach, table
  <2>3. \A p : Writes(p)' <=> Writes(p)
    BY <2>1 DEF Writes
  <2>4. Base = Workspace <=> todo = {}
    <3>1. todo \in SUBSET Nat /\ Workspace \notin todo
      BY <2>1, FilesystemAssumption DEF FilesystemInv
    <3> QED  BY <3>1, FirstIsMember DEF Base
  <2>5. Base # Workspace => Base \in todo /\ Base \in Writable
    <3>1. todo \in SUBSET Nat /\ todo \subseteq Writable
      BY <2>1, FilesystemAssumption DEF FilesystemInv
    <3> QED  BY <2>4, <3>1, FirstIsMember DEF Base
  <2>6. CASE WriteMarker /\ fate[Base] \notin {"denied", "full"}
    <3>1. Scanned' /\ WrittenSoFar'
      BY <2>2, <2>3, <2>6 DEF WriteMarker, Scanned, WrittenSoFar
    <3> QED  BY <2>1, <2>6, <3>1 DEF WriteMarker, table
  <2>7. ASSUME NEW wrote \in BOOLEAN, NEW removed \in BOOLEAN,
               RecordMarker(Base, wrote, removed), NextBase,
               Writes(Base) => wrote,
               wrote /\ removed => fate[Base] = "fine"
        PROVE  FilesystemInv'
    <3>1. /\ seen'.foreign_environ_count = seen.foreign_environ_count
          /\ seen'.readable_outside = seen.readable_outside
          /\ seen'.listed_outside = seen.listed_outside
          /\ seen'.runtime_sockets = seen.runtime_sockets
          /\ DOMAIN seen' = DOMAIN seen
      <4>1. CASE Base = Workspace
        BY <1>0, <2>7, <4>1 DEF RecordMarker
      <4>2. CASE Base # Workspace
        BY <1>0, <2>7, <4>2 DEF RecordMarker
      <4> QED  BY <4>1, <4>2
    <3>2. Scanned'
      BY <2>1, <2>2, <3>1 DEF Scanned
    <3>3. CASE Base = Workspace
      <4>1. /\ seen'.writable_outside = seen.writable_outside
            /\ seen'.workspace_writable = wrote
            /\ seen'.workspace_cleanup_failed = (wrote /\ ~removed)
        BY <1>0, <2>7, <3>3 DEF RecordMarker
      <4>2. stage' = "reply"
        BY <2>7, <3>3 DEF NextBase
      <4>3. Written'
        BY <2>1, <2>3, <2>4, <3>3, <4>1 DEF WrittenSoFar, Written
      <4>4. seen'.workspace_writable /\ ~seen'.workspace_cleanup_failed => fate[Workspace] = "fine"
        BY <2>7, <3>3, <4>1
      <4> QED  BY <2>1, <3>1, <3>2, <4>2, <4>3, <4>4 DEF table
    <3>4. CASE Base # Workspace
      <4>1. /\ seen'.writable_outside = seen.writable_outside \cup {q \in {Base} : wrote}
            /\ seen'.workspace_writable = seen.workspace_writable
            /\ seen'.workspace_cleanup_failed = seen.workspace_cleanup_failed
        BY <1>0, <2>7, <3>4 DEF RecordMarker
      <4>2. stage' = "write" /\ todo' = todo \ {Base}
        BY <2>7, <3>4 DEF NextBase
      <4>3. WrittenSoFar'
        <5>1. ASSUME NEW p \in Writable, Writes(p)
              PROVE  p \in todo' \/ p \in seen'.writable_outside
          <6>1. CASE p = Base
            BY <2>7, <4>1, <5>1, <6>1
          <6>2. CASE p # Base
            BY <2>1, <4>1, <4>2, <5>1, <6>2 DEF WrittenSoFar
          <6> QED  BY <6>1, <6>2
        <5> QED  BY <2>3, <5>1 DEF WrittenSoFar
      <4> QED  BY <2>1, <3>1, <3>2, <4>1, <4>2, <4>3 DEF table
    <3> QED  BY <3>3, <3>4
  <2>8. CASE WriteMarker /\ fate[Base] \in {"denied", "full"}
    <3>1. RecordMarker(Base, FALSE, FALSE) /\ NextBase /\ ~Writes(Base)
      BY <2>8 DEF WriteMarker, Writes
    <3> QED  BY <2>7, <3>1
  <2>9. CASE RemoveMarker
    <3>1. RecordMarker(Base, TRUE, fate[Base] = "fine") /\ NextBase
      BY <2>9 DEF RemoveMarker
    <3>2. (fate[Base] = "fine") \in BOOLEAN
      OBVIOUS
    <3> QED  BY <2>7, <3>1, <3>2
  <2> QED  BY <1>5, <2>6, <2>8, <2>9
<1>6. CASE FilesystemAnswers
  <2>1. Judged(Confined /\ fate[Workspace] = "fine")'
    BY <1>6, FilesystemIsJudged
  <2> QED  BY <1>6, <2>1 DEF FilesystemAnswers, filesystem, table
<1>7. CASE FilesystemLost
  <2>1. outcome' = Unread("exec")
    BY <1>7, ParseNothing DEF FilesystemLost, FilesystemVerdict, Nothing
  <2>2. Judged(Confined /\ fate[Workspace] = "fine")'
    BY <2>1 DEF Unread, Judged, Silent
  <2> QED  BY <1>7, <2>2 DEF FilesystemLost, filesystem, table
<1>8. CASE ProcessChanges
  <2>1. \A p \in Pids : InReach(p)' => InReach(p)
    BY <1>8, ReachShrinks
  <2>2. stage \in {"stat", "open"} => ScannedSoFar'
    BY <1>8, <2>1 DEF ProcessChanges, ScannedSoFar
  <2>3. procs' \in [Pids -> Holders] /\ churned' \subseteq Pids
    BY <1>8 DEF ProcessChanges
  <2> QED  BY <1>8, <2>2, <2>3 DEF ProcessChanges, exec
<1> QED  BY <1>1, <1>2, <1>3, <1>4, <1>5, <1>6, <1>7, <1>8 DEF FilesystemNext

-----------------------------------------------------------------------------
(* ---- the network probe ---- *)

(* Only a file with an object in it is accepted.                          *)
LEMMA AcceptedIsObject ==
    ASSUME NEW c \in ConfigFiles, LoadTarget(c) = "accepted"
    PROVE  c.file = "object"
  BY DEF LoadTarget

(* What the payload is told in the time it waits.                          *)
LEMMA ReachableTells ==
    ASSUME NEW name, NEW status \in Reachable(name), Opens(name), slow' = slow \cup TooLate(name, status)
    PROVE  status = "connected" \/ name \in slow'
  BY DEF Reachable, Connection, Opens, TooLate

(* A denial is told only where the route refuses, or the peer does.        *)
LEMMA EndpointTells ==
    ASSUME "denied" \in EndpointStatus, net \in Networks
    PROVE  Refused
<1>1. net.route \in {"open", "refused", "dropped"}
  BY NetworkAssumption DEF NetworkType
<1> QED  BY <1>1 DEF EndpointStatus, Connection, Refused

(* The control is seen only on a network that is up.                      *)
LEMMA ControlTells ==
    ASSUME TRUE \in ControlReachable, net \in Networks
    PROVE  LiveNetwork
<1>1. CASE config.proxy = "none"
  <2>1. PICK status \in Reachable(Allowed) :
            status = "connected" \/ Resolves(Allowed) = "resolved"
    BY <1>1 DEF ControlReachable
  <2>2. Allowed \in net.resolves
    BY <2>1 DEF Reachable, Resolves
  <2> QED  BY <1>1, <2>2 DEF LiveNetwork
<1>2. CASE config.proxy # "none"
  BY <1>2 DEF ControlReachable, ProxyAllows, LiveNetwork
<1> QED  BY <1>1, <1>2

(* An object lists its c2 hosts, and 0 is none of their places.           *)
LEMMA C2Positions ==
    ASSUME config \in ConfigFiles, config.file = "object"
    PROVE  /\ config.c2 \in Seq(Seq(C2Names)) /\ 0 \notin DOMAIN config.c2
<1>1. config \notin UnusableFiles
  BY DEF UnusableFiles
<1>2. config \in ConfigType(Seq(Seq(C2Names)))
  BY <1>1, NetworkAssumption
<1> QED  BY <1>2 DEF ConfigType

(* The c2 entries are a finite list, and a plain one is a name that was    *)
(* tried.                                                                  *)
LEMMA C2Entries ==
    ASSUME config \in ConfigFiles, config.file = "object"
    PROVE  /\ \A c2 : ConfirmedC2(c2) \in SUBSET Nat /\ IsFiniteSet(ConfirmedC2(c2))
           /\ \A i \in DOMAIN config.c2 : Plain(i) => Entry(i)[1] \in C2ToTry
<1>1. config.c2 \in Seq(Seq(C2Names))
  BY C2Positions
<1>2. Len(config.c2) \in Nat /\ DOMAIN config.c2 = 1..Len(config.c2)
  BY <1>1
<1>3. IsFiniteSet(1..Len(config.c2))
  BY <1>2, FS_Interval
<1>4. ASSUME NEW c2
      PROVE  ConfirmedC2(c2) \in SUBSET Nat /\ IsFiniteSet(ConfirmedC2(c2))
  <2>1. ConfirmedC2(c2) \in SUBSET (1..Len(config.c2))
    BY <1>2 DEF ConfirmedC2
  <2>2. IsFiniteSet(ConfirmedC2(c2))
    BY <1>3, <2>1, FS_Subset
  <2> QED  BY <1>2, <2>1, <2>2
<1>5. ASSUME NEW i \in DOMAIN config.c2, Plain(i)
      PROVE  Entry(i)[1] \in C2ToTry
  <2>1. Entry(i) \in Seq(C2Names) /\ Len(Entry(i)) = 1
    BY <1>1, <1>5 DEF Entry, Plain
  <2>2. 1 \in DOMAIN Entry(i)
    BY <2>1
  <2> QED  BY <2>2 DEF C2ToTry
<1> QED  BY <1>4, <1>5

(* What the verdict of the network probe says of what was seen.           *)
LEMMA NetworkIsJudged ==
    ASSUME NetworkInv, NetworkAnswers
    PROVE  /\ Judged(NetworkHolds)'
           /\ garbled' = "no" => outcome'.findings = NetworkFindings(got)
<1> USE DEF NetworkAnswers
<1>0. stage = "print" /\ config.file = "object" /\ DOMAIN got = DOMAIN Falsy
  BY DEF NetworkInv, Checking
<1>1. PICK body \in Bodies(got, RESULT_SHAPE, Falsy) \cup UndefinedEndpoint :
          /\ outcome' = NetworkVerdict(Printout(body))
          /\ garbled' = IF body \in UndefinedEndpoint THEN "status"
                        ELSE Damage(body, RESULT_SHAPE)
  OBVIOUS
<1>2. ParseInner(Printout(body)) = body
  BY ParsePrintout
<1>3. CASE body.kind # "object" \/ ShapeProblems(body, RESULT_SHAPE) # {}
  <2>1. outcome' = Unread("exec") \/ outcome' = Unread("result")
    BY <1>1, <1>2, <1>3 DEF NetworkVerdict
  <2>2. garbled' # "no"
    BY <1>1, <1>3 DEF Damage
  <2> QED  BY <2>1, <2>2 DEF Unread, Judged, Silent
<1>4. CASE body.kind = "object" /\ ShapeProblems(body, RESULT_SHAPE) = {}
  <2>1. outcome' = [findings |-> NetworkFindings(body.value),
                    errors |-> EndpointErrors(body.value.blocked_endpoint),
                    control |-> Control(body.value)]
    BY <1>1, <1>2, <1>4 DEF NetworkVerdict
  <2>2. CASE body \in UndefinedEndpoint
    <3>1. body.value.blocked_endpoint = "undefined"
      <4>1. DOMAIN Whole(got, RESULT_SHAPE) = {"kind", "types", "value"}
            /\ Whole(got, RESULT_SHAPE).value = got
        BY DEF Whole
      <4>2. body = [Whole(got, RESULT_SHAPE) EXCEPT !.value.blocked_endpoint = "undefined"]
        BY <2>2 DEF UndefinedEndpoint
      <4>3. "blocked_endpoint" \in DOMAIN got
        BY <1>0 DEF Falsy
      <4> QED  BY <4>1, <4>2, <4>3
    <3>2. garbled' # "no"
      BY <1>1, <2>2
    <3> QED  BY <2>1, <3>1, <3>2 DEF EndpointErrors, Judged, Silent, Control
  <2>3. CASE body \notin UndefinedEndpoint
    <3>1. body = Whole(got, RESULT_SHAPE) /\ garbled' = "no"
      BY <1>1, <1>4, <2>3, ReadBack
    <3>2. body.value = got
      BY <3>1 DEF Whole
    <3>3. ASSUME NetworkFindings(got) = {}, EndpointErrors(got.blocked_endpoint) = {},
                 Control(got) # "failed", changes = 0
          PROVE  NetworkHolds
      <4>1. AnswersHold /\ C2ToTry \subseteq DOMAIN got.c2
        BY <1>0, <3>3 DEF NetworkInv
      <4>2. /\ got.blocked_endpoint # "connected" /\ got.blocked_host # "connected"
            /\ got.dns_canary # "resolved"
            /\ ListFindings("c2_channel", ConfirmedC2(got.c2)) = {}
        <5>1. ~(got.blocked_endpoint = "connected")
          BY <3>3 DEF NetworkFindings
        <5>2. ~(got.blocked_host = "connected")
          BY <3>3 DEF NetworkFindings
        <5>3. ~(got.dns_canary = "resolved")
          <6>1. Finding("dns_canary", 0).rule = "dns_canary"
            BY DEF Finding
          <6> QED  BY <3>3, <6>1 DEF NetworkFindings
        <5> QED  BY <3>3, <5>1, <5>2, <5>3 DEF NetworkFindings
      <4>3. Refused
        BY <3>3, <4>1, <4>2 DEF EndpointErrors, AnswersHold
      <4>4. Canary \notin net.resolves
        BY <1>0, <4>1, <4>2 DEF AnswersHold, Resolves
      <4>5. Opens(Blocked) => Blocked \in slow
        BY <1>0, <4>1, <4>2 DEF AnswersHold, ShutOrTold
      <4>6. ASSUME NEW i \in DOMAIN config.c2, Plain(i), Opens(Entry(i)[1])
            PROVE  Entry(i)[1] \in slow
        <5>1. ConfirmedC2(got.c2) = {}
          <6>1. ConfirmedC2(got.c2) \in SUBSET Nat /\ IsFiniteSet(ConfirmedC2(got.c2))
            BY <1>0, C2Entries DEF NetworkInv
          <6> QED  BY <4>2, <6>1, NothingListed
        <5>2. Entry(i)[1] \in DOMAIN got.c2
          BY <1>0, <4>1, <4>6, C2Entries DEF NetworkInv
        <5>3. got.c2[Entry(i)[1]] # "connected"
          BY <4>6, <5>1, <5>2 DEF ConfirmedC2, Reported, Plain
        <5> QED  BY <4>1, <4>6, <5>2, <5>3 DEF AnswersHold, ShutOrTold
      <4>7. LiveNetwork
        BY <3>3, <4>1 DEF AnswersHold, Control
      <4> QED  BY <4>3, <4>4, <4>5, <4>6, <4>7 DEF NetworkHolds, Contained, Refused
    <3>4. changes # 0 => NetworkHolds
      BY DEF NetworkHolds, Contained
    <3>5. NetworkHolds' <=> NetworkHolds
      BY DEF NetworkHolds, Contained, LiveNetwork, Opens, Passes, Plain, Entry, network
    <3> QED  BY <2>1, <3>1, <3>2, <3>3, <3>4, <3>5 DEF Judged, Silent, Control
  <2> QED  BY <2>2, <2>3
<1> QED  BY <1>3, <1>4

(* Every step of the network probe keeps its part of the invariant.       *)
LEMMA NetworkStep ==
    ASSUME NetworkInv, NetworkNext
    PROVE  NetworkInv'
<1> USE DEF NetworkInv, Checking, Answer
<1>0. /\ DOMAIN got = DOMAIN Falsy
      /\ DOMAIN Falsy = {"blocked_endpoint", "blocked_host", "dns_canary", "c2",
                         "control_reachable"}
  BY DEF Falsy
<1>1. CASE Load
  <2>1. stage' \in {"refused", "raised"} \/ (stage' = "endpoint" /\ config.file = "object")
    BY <1>1, AcceptedIsObject DEF Load
  <2>2. changes = 0 => AnswersHold'
    BY <1>1, <2>1 DEF Load, AnswersHold, network, LiveNetwork, ShutOrTold, Opens, Passes, Refused
  <2> QED  BY <1>1, <2>1, <2>2 DEF Load, network
<1>2. CASE CheckEndpoint
  <2>1. PICK status \in EndpointStatus : got' = [got EXCEPT !["blocked_endpoint"] = status]
    BY <1>2 DEF CheckEndpoint
  <2>2. /\ got'.blocked_endpoint = status /\ got'.c2 = got.c2
        /\ got'.control_reachable = got.control_reachable /\ DOMAIN got' = DOMAIN got
    BY <1>0, <2>1
  <2>3. got'.blocked_endpoint = "denied" => Refused
    BY <2>2, EndpointTells
  <2>4. changes = 0 => AnswersHold'
    BY <1>2, <2>2, <2>3 DEF CheckEndpoint, AnswersHold, LiveNetwork, ShutOrTold, Opens, Passes, Refused
  <2> QED  BY <1>2, <2>2, <2>4 DEF CheckEndpoint
<1>3. CASE CheckHost
  <2>1. PICK status \in Reachable(Blocked) :
            /\ got' = [got EXCEPT !["blocked_host"] = status]
            /\ slow' = slow \cup TooLate(Blocked, status)
    BY <1>3 DEF CheckHost
  <2>2. /\ got'.blocked_host = status /\ got'.c2 = got.c2
        /\ got'.blocked_endpoint = got.blocked_endpoint
        /\ got'.control_reachable = got.control_reachable /\ DOMAIN got' = DOMAIN got
    BY <1>0, <2>1
  <2>3. ShutOrTold(Blocked, got.blocked_host)'
    BY <1>3, <2>1, <2>2, ReachableTells DEF CheckHost, ShutOrTold, Opens, Passes
  <2>4. changes = 0 => AnswersHold'
    BY <1>3, <2>1, <2>2, <2>3 DEF CheckHost, AnswersHold, LiveNetwork, ShutOrTold, Opens, Passes, Refused
  <2> QED  BY <1>3, <2>2, <2>4 DEF CheckHost
<1>4. CASE CheckCanary
  <2>1. got' = [got EXCEPT !["dns_canary"] = Resolves(Canary)]
    BY <1>4 DEF CheckCanary
  <2>2. /\ got'.dns_canary = Resolves(Canary) /\ got'.c2 = got.c2
        /\ got'.blocked_host = got.blocked_host /\ got'.blocked_endpoint = got.blocked_endpoint
        /\ got'.control_reachable = got.control_reachable /\ DOMAIN got' = DOMAIN got
    BY <1>0, <2>1
  <2>3. changes = 0 => AnswersHold'
    BY <1>4, <2>2
    DEF CheckCanary, AnswersHold, LiveNetwork, ShutOrTold, Opens, Passes, Refused, Resolves
  <2> QED  BY <1>4, <2>2, <2>3 DEF CheckCanary
<1>5. CASE CheckC2
  <2> DEFINE Now(name, status) ==
          [n \in DOMAIN got.c2 \cup {name} |-> IF n = name THEN status ELSE got.c2[n]]
  <2>0. PICK name \in C2ToTry \ DOMAIN got.c2 :
            \E status \in Reachable(name) :
                Answer("c2", Now(name, status)) /\ slow' = slow \cup TooLate(name, status)
    <3> HIDE DEF Answer
    <3> QED  BY <1>5, Zenon DEF CheckC2
  <2>1. PICK status \in Reachable(name) :
            got' = [got EXCEPT !["c2"] = Now(name, status)] /\ slow' = slow \cup TooLate(name, status)
    <3> HIDE DEF Now
    <3> QED  BY <2>0
  <2>2. /\ got'.c2 = [n \in DOMAIN got.c2 \cup {name} |->
                          IF n = name THEN status ELSE got.c2[n]]
        /\ got'.dns_canary = got.dns_canary
        /\ got'.blocked_host = got.blocked_host /\ got'.blocked_endpoint = got.blocked_endpoint
        /\ got'.control_reachable = got.control_reachable /\ DOMAIN got' = DOMAIN got
    BY <1>0, <2>1
  <2>3. Opens(name) => status = "connected" \/ name \in slow'
    BY <2>1, ReachableTells
  <2>4. /\ DOMAIN got'.c2 = DOMAIN got.c2 \cup {name}
        /\ got'.c2[name] = status
        /\ \A n \in DOMAIN got.c2 : got'.c2[n] = got.c2[n]
    BY <2>2
  <2>5. UNCHANGED <<probe, stage, garbled, outcome, config, net, changes>>
    BY <1>5 DEF CheckC2
  <2>6. \A n : (Opens(n)' <=> Opens(n)) /\ Resolves(n)' = Resolves(n)
    BY <2>5 DEF Opens, Passes, Resolves
  <2>7. ASSUME AnswersHold
        PROVE  (\A n \in DOMAIN got.c2 : ShutOrTold(n, got.c2[n]))'
    <3> SUFFICES ASSUME NEW n \in DOMAIN got'.c2
                 PROVE  Opens(n)' => got'.c2[n] = "connected" \/ n \in slow'
      BY DEF ShutOrTold
    <3>1. CASE n = name
      BY <2>3, <2>4, <2>6, <3>1 DEF ShutOrTold
    <3>2. CASE n # name
      <4>1. n \in DOMAIN got.c2 /\ got'.c2[n] = got.c2[n]
        BY <2>4, <3>2
      <4>2. slow \subseteq slow'
        BY <2>1
      <4> QED  BY <2>6, <2>7, <4>1, <4>2 DEF AnswersHold, ShutOrTold
    <3> QED  BY <3>1, <3>2
  <2>8. ASSUME AnswersHold
        PROVE  AnswersHold'
    <3>1. ShutOrTold(Blocked, got.blocked_host) => ShutOrTold(Blocked, got.blocked_host)'
      BY <2>1, <2>2, <2>6 DEF ShutOrTold
    <3>2. (LiveNetwork' <=> LiveNetwork) /\ (Refused' <=> Refused)
      BY <2>5 DEF LiveNetwork, Refused
    <3> QED  BY <2>2, <2>5, <2>6, <2>7, <2>8, <3>1, <3>2 DEF AnswersHold
  <2>9. stage = "c2"
    BY <1>5 DEF CheckC2
  <2> QED  BY <2>2, <2>5, <2>8, <2>9
<1>6. CASE CheckControl
  <2>1. PICK held \in ControlReachable : got' = [got EXCEPT !["control_reachable"] = held]
    BY <1>6 DEF CheckControl
  <2>2. /\ got'.control_reachable = held /\ got'.c2 = got.c2
        /\ got'.dns_canary = got.dns_canary
        /\ got'.blocked_host = got.blocked_host /\ got'.blocked_endpoint = got.blocked_endpoint
        /\ DOMAIN got' = DOMAIN got
    BY <1>0, <2>1
  <2>3. ControlReachable \subseteq BOOLEAN
    BY DEF ControlReachable, ProxyAllows
  <2>4. got'.control_reachable => LiveNetwork
    BY <2>1, <2>2, <2>3, ControlTells
  <2>5. C2ToTry' = C2ToTry /\ C2ToTry \subseteq DOMAIN got.c2
    BY <1>6 DEF CheckControl, C2ToTry, Entry
  <2>6. changes = 0 => AnswersHold'
    BY <1>6, <2>2, <2>4
    DEF CheckControl, AnswersHold, LiveNetwork, ShutOrTold, Opens, Passes, Refused, Resolves
  <2> QED  BY <1>6, <2>2, <2>5, <2>6 DEF CheckControl
<1>7. CASE NetworkAnswers
  <2>1. Judged(NetworkHolds)' /\ (garbled' = "no" => outcome'.findings = NetworkFindings(got))
    BY <1>7, NetworkIsJudged
  <2>2. C2ToTry' = C2ToTry /\ NetworkFindings(got)' = NetworkFindings(got)
    BY <1>7 DEF NetworkAnswers, network, C2ToTry, NetworkFindings, ConfirmedC2, Reported, Entry
  <2> QED  BY <1>7, <2>1, <2>2 DEF NetworkAnswers, network
<1>8. CASE NetworkLost
  <2>1. outcome' = Unread("exec")
    BY <1>8, ParseNothing DEF NetworkLost, NetworkVerdict, Nothing
  <2>2. Judged(NetworkHolds)'
    BY <2>1 DEF Unread, Judged, Silent
  <2> QED  BY <1>8, <2>2 DEF NetworkLost, network
<1>9. CASE NetworkChanges
  <2>1. changes' \in Nat /\ changes' # 0 /\ net' \in Networks
    BY <1>9 DEF NetworkChanges
  <2>2. C2ToTry' = C2ToTry
    BY <1>9 DEF NetworkChanges, C2ToTry, Entry
  <2> QED  BY <1>9, <2>1, <2>2 DEF NetworkChanges, exec
<1> QED  BY <1>1, <1>2, <1>3, <1>4, <1>5, <1>6, <1>7, <1>8, <1>9 DEF NetworkNext, PayloadStep

-----------------------------------------------------------------------------
(* ---- the theorems ---- *)

(* The initial states satisfy the inductive invariant.                    *)
LEMMA IInvInit == Init => IInv
<1> SUFFICES ASSUME Init
             PROVE  IInv
  OBVIOUS
<1>1. CASE CredentialsInit
  BY <1>1 DEF CredentialsInit, JustAsked, IInv, CredentialsInv, Searching, NothingFound, ImdsStates
<1>2. CASE FilesystemInit
  <2>1. open \subseteq Readable \cup Listed \cup Sockets /\ fate \in [Places -> Fates]
        /\ procs \in [Pids -> Holders]
    BY <1>2, FilesystemAssumption DEF FilesystemInit, WorldType
  <2> QED  BY <1>2, <2>1 DEF FilesystemInit, JustAsked, IInv, FilesystemInv, Looking, NothingSeen
<1>3. CASE NetworkInit
  BY <1>3 DEF NetworkInit, JustAsked, IInv, NetworkInv, AnswersHold, Checking, Falsy, NoAnswers
<1> QED  BY <1>1, <1>2, <1>3 DEF Init

(* Every step keeps the inductive invariant.                              *)
LEMMA IInvStep == IInv /\ [Next]_all => IInv'
<1> SUFFICES ASSUME IInv, [Next]_all
             PROVE  IInv'
  OBVIOUS
<1>1. CASE probe = "credentials" /\ CredentialsNext
  <2>1. probe' = probe
    BY <1>1 DEF CredentialsNext, LookAtEnvironment, LookAtFiles, AskImds, CredentialsAnswers,
                CredentialsLost
  <2> QED  BY <1>1, <2>1, CredentialsStep DEF IInv
<1>2. CASE probe = "filesystem" /\ FilesystemNext
  <2>1. probe' = probe
    BY <1>2 DEF FilesystemNext, LookAtPaths, StatProcess, OpenEnviron, LookForSockets,
                WriteMarker, RemoveMarker, FilesystemAnswers, FilesystemLost, ProcessChanges, exec
  <2> QED  BY <1>2, <2>1, FilesystemStep DEF IInv
<1>3. CASE probe = "network" /\ NetworkNext
  <2>1. probe' = probe
    BY <1>3 DEF NetworkNext, PayloadStep, Load, CheckEndpoint, CheckHost, CheckCanary, CheckC2,
                CheckControl, NetworkAnswers, NetworkLost, NetworkChanges, exec
  <2> QED  BY <1>3, <2>1, NetworkStep DEF IInv
<1>4. CASE UNCHANGED all
  <2> USE <1>4 DEF all, exec
  <2>1. CredentialsInv' <=> CredentialsInv
    BY DEF credentials, CredentialsInv, Judged, Silent, NothingToTake, Secrets, LooksSecret,
           CredentialsFindings
  <2>2. FilesystemInv' <=> FilesystemInv
    BY DEF filesystem, table, FilesystemInv, Judged, Silent, Confined, InReach, ScannedSoFar,
           Scanned, Writes, WrittenSoFar, Written
  <2>3. NetworkInv' <=> NetworkInv
    BY DEF network, NetworkInv, Judged, Silent, NetworkHolds, Contained, LiveNetwork, AnswersHold,
           ShutOrTold, Opens, Passes, Refused, Resolves, Plain, Entry, C2ToTry, NetworkFindings, ConfirmedC2,
           Reported
  <2> QED  BY <2>1, <2>2, <2>3 DEF IInv
<1> QED  BY <1>1, <1>2, <1>3, <1>4 DEF Next

(* The inductive invariant holds in every reachable state.                *)
LEMMA Invariance == Spec => []IInv
<1> QED  BY IInvInit, IInvStep, PTL DEF Spec

(* credentials.py:41-56: a clean result of the credentials probe is never  *)
(* one in which the environment, the files or the metadata service were not*)
(* looked at, or held something.                                           *)
THEOREM CredentialsTheorem == Spec => []CleanMeansNoCredentials
<1>1. IInv => CleanMeansNoCredentials
  BY DEF IInv, CredentialsInv, Judged, Silent, CleanMeansNoCredentials, Clean, Returned
<1> QED  BY <1>1, Invariance, PTL

(* filesystem.py:1-9, 200-239: a clean result of the filesystem probe      *)
(* means that no candidate path was open, no marker could be put outside   *)
(* the workspace, and no foreign environment was open whose process the    *)
(* scan could list and whose owner it could determine, whatever processes  *)
(* came and went meanwhile.  Where /proc could not be listed or a stat was *)
(* denied the code skips, by design, and this says nothing (InReach).      *)
THEOREM FilesystemTheorem == Spec => []CleanMeansConfined
<1>1. IInv => CleanMeansConfined
  BY DEF IInv, FilesystemInv, Judged, Silent, CleanMeansConfined, Clean, Returned
<1> QED  BY <1>1, Invariance, PTL

(* network.py:65-83, 111-156: a clean result of the network probe rests on *)
(* a live network and on a refusal of the literal, by the route or, over an*)
(* open route, by the peer, which look the same; if the network did not    *)
(* change, nothing the payload could try by name was open in time.         *)
THEOREM NetworkTheorem == Spec => []CleanMeansContained
<1>1. IInv => CleanMeansContained
  <2>1. ASSUME IInv, Clean("network")
        PROVE  NetworkHolds
    BY <2>1 DEF IInv, NetworkInv, Judged, Silent, Clean, Returned
  <2> QED  BY <2>1 DEF CleanMeansContained, NetworkHolds, LiveNetwork
<1> QED  BY <1>1, Invariance, PTL

(* evidence.py:183-189: the names listed and the number of those cut add   *)
(* up to the variables that hold a secret, whatever the limit.             *)
THEOREM CountsTheorem == Spec => []CountsAddUp
<1>1. ASSUME IInv, Returned("credentials"), garbled = "no"
      PROVE  CountsAddUp
  <2>1. outcome.findings = CredentialsFindings(found) /\ found.env_secrets = Secrets
    BY <1>1 DEF IInv, CredentialsInv, Returned
  <2>2. Secrets \in SUBSET Nat /\ IsFiniteSet(Secrets)
    BY <1>1, SecretsListed DEF IInv, CredentialsInv, Returned
  <2> DEFINE told == {f \in outcome.findings : f.rule = "env_secret"}
  <2>3. told = ListFindings("env_secret", Secrets)
    <3>1. \A f \in ListFindings("env_secret", Secrets) : f.rule = "env_secret"
      BY DEF ListFindings, Finding, Overflow
    <3>2. \A p : /\ Finding("credential_file", p).rule # "env_secret"
                 /\ Finding("imds_reachable", p).rule # "env_secret"
                 /\ Finding("imds_hop_limit", p).rule # "env_secret"
      BY DEF Finding
    <3> QED  BY <2>1, <3>1, <3>2 DEF CredentialsFindings
  <2> HIDE DEF told
  <2>4. /\ {f.about : f \in {g \in told : g.more = 0}} = Shown(Secrets)
        /\ Shown(Secrets) \subseteq Secrets
        /\ {f.more : f \in told} \ {0} =
              IF Shown(Secrets) = Secrets THEN {} ELSE {Cardinality(Secrets \ Shown(Secrets))}
    BY <2>2, <2>3, ListAddsUp
  <2> QED  BY <2>4 DEF CountsAddUp, told
<1>2. IInv => CountsAddUp
  BY <1>1 DEF CountsAddUp
<1> QED  BY <1>2, Invariance, PTL

(* network.py, the findings: each connection the payload opened to a c2    *)
(* host is listed or counted, and each of the three other findings stands  *)
(* for the answer it is about.                                             *)
THEOREM OpenedTheorem == Spec => []OpenedIsReported
<1>1. ASSUME IInv, Returned("network"), garbled = "no"
      PROVE  OpenedIsReported
  <2>1. outcome.findings = NetworkFindings(got) /\ C2ToTry \subseteq DOMAIN got.c2
    BY <1>1 DEF IInv, NetworkInv, Returned
  <2>2. config \in ConfigFiles /\ config.file = "object"
    BY <1>1 DEF IInv, NetworkInv, Returned
  <2> DEFINE opened == {i \in DOMAIN config.c2 :
                          Plain(i) /\ got.c2[Entry(i)[1]] = "connected"}
             c2 == {f \in outcome.findings : f.rule = "c2_channel"}
  <2>3. opened = ConfirmedC2(got.c2)
    <3>1. \A i \in DOMAIN config.c2 : Plain(i) => Entry(i)[1] \in DOMAIN got.c2
      BY <2>1, <2>2, C2Entries
    <3>2. \A i \in DOMAIN config.c2 :
              Reported(got.c2, i) = "connected"
                <=> Plain(i) /\ got.c2[Entry(i)[1]] = "connected"
      BY <3>1 DEF Reported, Plain
    <3> QED  BY <3>2 DEF ConfirmedC2
  <2>4. opened \in SUBSET Nat /\ IsFiniteSet(opened) /\ 0 \notin opened
    <3>1. ConfirmedC2(got.c2) \in SUBSET Nat /\ IsFiniteSet(ConfirmedC2(got.c2))
      BY <2>2, C2Entries
    <3>2. 0 \notin DOMAIN config.c2
      BY <2>2, C2Positions
    <3> QED  BY <2>3, <3>1, <3>2
  <2>5. \A f \in ListFindings("c2_channel", opened) : f.rule = "c2_channel"
    <3> HIDE DEF opened
    <3> QED  BY DEF ListFindings, Finding, Overflow
  <2>6. /\ ByLiteral.rule = "blocked_egress" /\ ByName.rule = "blocked_egress"
        /\ ByLiteral.about = 1 /\ ByName.about = 2
        /\ Finding("dns_canary", 0).rule = "dns_canary"
    BY DEF ByLiteral, ByName, Finding
  <2>7. outcome.findings =
            ListFindings("c2_channel", opened)
              \cup {f \in {ByLiteral, ByName, Finding("dns_canary", 0)} :
                      \/ f = ByLiteral /\ got.blocked_endpoint = "connected"
                      \/ f = ByName /\ got.blocked_host = "connected"
                      \/ f.rule = "dns_canary" /\ got.dns_canary = "resolved"}
    BY <2>1, <2>3 DEF NetworkFindings
  <2> HIDE DEF opened
  <2>8. c2 = ListFindings("c2_channel", opened)
    BY <2>5, <2>6, <2>7
  <2>9. /\ ByLiteral \in outcome.findings <=> got.blocked_endpoint = "connected"
        /\ ByName \in outcome.findings <=> got.blocked_host = "connected"
        /\ Finding("dns_canary", 0) \in outcome.findings <=> got.dns_canary = "resolved"
    BY <2>5, <2>6, <2>7
  <2> HIDE DEF c2
  <2>10. /\ {f.about : f \in c2} \ {0} = Shown(opened) \ {0}
         /\ Shown(opened) \subseteq opened
         /\ {f.more : f \in c2} \ {0} =
               IF Shown(opened) = opened THEN {} ELSE {Cardinality(opened \ Shown(opened))}
    BY <2>4, <2>8, ListAddsUp
  <2>11. {f.about : f \in c2} \ {0} = Shown(opened)
    BY <2>4, <2>10
  <2> QED  BY <2>9, <2>10, <2>11 DEF OpenedIsReported, opened, c2
<1>2. IInv => OpenedIsReported
  BY <1>1 DEF OpenedIsReported
<1> QED  BY <1>2, Invariance, PTL

-----------------------------------------------------------------------------
(* ---- the promise ---- *)

Terminal == stage \in {"done", "raised"}

(* A probe that has answered, or raised, does not go on.                   *)
LEMMA AnswerIsFinal ==
    ASSUME Terminal, [Next]_all
    PROVE  UNCHANGED all
<1>1. ~CredentialsNext
  BY DEF Terminal, CredentialsNext, LookAtEnvironment, LookAtFiles, AskImds, CredentialsAnswers,
         CredentialsLost, Searching
<1>2. ~FilesystemNext
  BY DEF Terminal, FilesystemNext, LookAtPaths, StatProcess, OpenEnviron, LookForSockets,
         WriteMarker, RemoveMarker, FilesystemAnswers, FilesystemLost, ProcessChanges, Looking
<1>3. ~NetworkNext
  BY DEF Terminal, NetworkNext, PayloadStep, Load, CheckEndpoint, CheckHost, CheckCanary, CheckC2,
         CheckControl, NetworkAnswers, NetworkLost, NetworkChanges, Checking
<1> QED  BY <1>1, <1>2, <1>3 DEF Next

(* Whatever the probe, its answer keeps the contract.                      *)
LEMMA AnswerIsPromised ==
    ASSUME IInv, Terminal
    PROVE  /\ Answered \in Promised!Answers
           /\ Promised!Contract(Answered.truth, Answered.outcome)
<1>1. Answered = [given |-> TRUE, truth |-> Truth, outcome |-> Recorded]
  BY DEF Answered, Terminal
<1>2. Truth \in Promised!Truths
  BY DEF Truth, Promised!Truths
<1>3. CASE stage = "raised"
  <2>1. Recorded = [findings |-> {}, errors |-> {"error"}, control |-> "failed"]
    BY <1>3 DEF Recorded
  <2>2. Recorded \in [findings : SUBSET {"finding"}, errors : SUBSET {"error"},
                      control : Promised!Controls]
    BY <2>1 DEF Promised!Controls
  <2>3. Answered \in Promised!Answers
    BY <1>1, <1>2, <2>2 DEF Promised!Answers
  <2>4. Answered.outcome.control = "failed"
    BY <1>1, <2>1
  <2> QED  BY <2>3, <2>4 DEF Promised!Contract
<1>4. CASE stage = "done"
  <2>1. /\ outcome.control \in {"held", "failed", "absent"}
        /\ garbled # "no" => outcome.errors # {} \/ outcome.control = "failed"
        /\ Silent => /\ probe = "credentials" => NothingToTake
                     /\ probe = "filesystem" => Confined
                     /\ probe = "network" => Contained
    BY <1>4 DEF IInv, CredentialsInv, FilesystemInv, NetworkInv, Judged, NetworkHolds
  <2>2. Silent => Truth = "holds"
    BY <1>4, <2>1 DEF Truth, IInv, Silent
  <2>3. Recorded = [findings |-> {f \in {"finding"} : outcome.findings # {}},
                    errors   |-> {e \in {"error"} : outcome.errors # {}},
                    control  |-> outcome.control]
    BY <1>4 DEF Recorded
  <2>4. Recorded \in [findings : SUBSET {"finding"}, errors : SUBSET {"error"},
                      control : Promised!Controls]
    BY <2>1, <2>3 DEF Promised!Controls
  <2>5. Answered \in Promised!Answers
    BY <1>1, <1>2, <2>4 DEF Promised!Answers
  <2>6. \/ Recorded.errors # {} \/ Recorded.control = "failed"
        \/ Recorded.findings # {} \/ Silent
    BY <2>3 DEF Silent
  <2>7. Answered.truth = Truth /\ Answered.outcome = Recorded
    BY <1>1
  <2>8. Truth = "unmeasured" => Recorded.errors # {} \/ Recorded.control = "failed"
    BY <1>4, <2>1, <2>3 DEF Truth
  <2>9. Truth \in {"unmeasured", "holds", "broken"}
    BY DEF Truth
  <2> QED  BY <2>2, <2>5, <2>6, <2>7, <2>8, <2>9 DEF Promised!Contract
<1> QED  BY <1>3, <1>4 DEF Terminal

(* runner.py:20-31 and Harness: each of the three probes implements the    *)
(* promise run_all builds on: one answer, final, and a clean one only if   *)
(* its invariant was measured and held, as far as the probe can see: Truth *)
(* speaks of what Confined and Contained leave to it.                      *)
THEOREM PromiseTheorem == Spec => KeepsPromise
<1>1. Init => Promised!Init
  BY DEF Init, Promised!Init, Promised!Waiting, Answered, CredentialsInit, FilesystemInit,
         NetworkInit
<1>2. IInv /\ IInv' /\ [Next]_all => [Promised!Return]_Answered
  <2> SUFFICES ASSUME IInv, IInv', [Next]_all
               PROVE  [Promised!Return]_Answered
    OBVIOUS
  <2>1. CASE Terminal
    <3>1. UNCHANGED all
      BY <2>1, AnswerIsFinal
    <3>2. Answered' = Answered
      BY <3>1 DEF all, exec, credentials, filesystem, table, network, Answered, Truth, Recorded,
                  NothingToTake, LooksSecret, Confined, InReach, Contained, Opens, Passes, Plain,
                  Entry
    <3> QED  BY <3>2
  <2>2. CASE ~Terminal /\ ~Terminal'
    BY <2>2 DEF Terminal, Answered
  <2>3. CASE ~Terminal /\ Terminal'
    <3>1. Answered = Promised!Waiting
      BY <2>3 DEF Terminal, Answered, Promised!Waiting
    <3>2. (Answered \in Promised!Answers /\ Promised!Contract(Answered.truth, Answered.outcome))'
      BY <2>3, AnswerIsPromised, PTL
    <3> QED  BY <3>1, <3>2 DEF Promised!Return
  <2> QED  BY <2>1, <2>2, <2>3
<1> QED  BY <1>1, <1>2, Invariance, PTL DEF Spec, KeepsPromise, Promised!Spec

-----------------------------------------------------------------------------
(* ---- the two parsers of an address and port ---- *)

(* What the validator accepts, the payload can use: a cut that leaves a    *)
(* literal and a port in range is the cut the payload makes as well.       *)
LEMMA AcceptedIsUsable ==
    ASSUME LoadTarget(config) = "accepted"
    PROVE  /\ PayloadSplit(config.endpoint).address = "literal"
           /\ Attemptable(config.endpoint)
<1> DEFINE e == config.endpoint
<1>1. ValidateBlockedEndpoint(e) = "accepted"
  BY DEF LoadTarget
<1>2. /\ ConfigSplit(e).address = "literal" /\ IsDigit(ConfigSplit(e).port)
      /\ ConfigSplit(e).port = "in range"
  BY <1>1 DEF ValidateBlockedEndpoint
<1>3. PayloadSplit(e) = ConfigSplit(e)
  <2>1. CASE e.opens
    <3>1. e.closes
      BY <1>2, <2>1 DEF ConfigSplit
    <3> QED  BY <2>1, <3>1 DEF ConfigSplit, PayloadSplit
  <2>2. CASE ~e.opens
    <3>1. e.separator
      BY <1>2, <2>2 DEF ConfigSplit
    <3> QED  BY <2>2, <3>1 DEF ConfigSplit, PayloadSplit
  <2> QED  BY <2>1, <2>2
<1> QED  BY <1>2, <1>3 DEF Attemptable, IntRaises

(* No check has begun unless the config was accepted.                      *)
EndpointInv ==
    /\ probe # "network" => got.blocked_endpoint = ""
    /\ probe = "network" /\ stage \in Checking => LoadTarget(config) = "accepted"
    /\ EndpointIsAttempted

(* Every step keeps that.                                                  *)
LEMMA EndpointStep == IInv /\ EndpointInv /\ [Next]_all => EndpointInv'
<1> SUFFICES ASSUME IInv, EndpointInv, [Next]_all
             PROVE  EndpointInv'
  OBVIOUS
<1> USE DEF EndpointInv, Checking
<1>1. ASSUME UNCHANGED <<probe, network>>, stage' \in Checking => stage \in Checking
      PROVE  EndpointInv'
  BY <1>1 DEF network, EndpointIsAttempted
<1>2. CASE probe = "credentials" /\ CredentialsNext /\ UNCHANGED <<filesystem, network>>
  <2>1. probe' = probe
    BY <1>2 DEF CredentialsNext, LookAtEnvironment, LookAtFiles, AskImds, CredentialsAnswers,
                CredentialsLost
  <2> QED  BY <1>2, <2>1 DEF network, EndpointIsAttempted
<1>3. CASE probe = "filesystem" /\ FilesystemNext /\ UNCHANGED <<credentials, network>>
  <2>1. probe' = probe
    BY <1>3 DEF FilesystemNext, LookAtPaths, StatProcess, OpenEnviron, LookForSockets,
                WriteMarker, RemoveMarker, FilesystemAnswers, FilesystemLost, ProcessChanges, exec
  <2> QED  BY <1>3, <2>1 DEF network, EndpointIsAttempted
<1>4. CASE probe = "network" /\ NetworkNext
  <2> USE <1>4
  <2>0. /\ DOMAIN got = {"blocked_endpoint", "blocked_host", "dns_canary", "c2",
                         "control_reachable"}
    BY DEF IInv, NetworkInv, Falsy
  <2>1. CASE Load
    BY <2>1 DEF Load, network, EndpointIsAttempted
  <2>2. CASE CheckEndpoint
    <3>1. PICK status \in EndpointStatus : got' = [got EXCEPT !["blocked_endpoint"] = status]
      BY <2>2 DEF CheckEndpoint, Answer
    <3>2. LoadTarget(config) = "accepted" /\ UNCHANGED <<probe, config>> /\ stage' = "host"
      BY <2>2 DEF CheckEndpoint
    <3>3. got'.blocked_endpoint = status
      BY <2>0, <3>1
    <3>4. status # "unattempted"
      BY <3>2, AcceptedIsUsable DEF EndpointStatus, Connection
    <3> QED  BY <3>2, <3>3, <3>4, AcceptedIsUsable DEF EndpointIsAttempted
  <2>3. ASSUME UNCHANGED <<probe, config>>, stage \in Checking,
               got'.blocked_endpoint = got.blocked_endpoint
        PROVE  EndpointInv'
    BY <2>3 DEF EndpointIsAttempted
  <2>4. CASE CheckHost
    BY <2>0, <2>3, <2>4 DEF CheckHost, Answer
  <2>5. CASE CheckCanary
    BY <2>0, <2>3, <2>5 DEF CheckCanary, Answer
  <2>6. CASE CheckC2
    BY <2>0, <2>3, <2>6 DEF CheckC2, Answer
  <2>7. CASE CheckControl
    BY <2>0, <2>3, <2>7 DEF CheckControl, Answer
  <2>8. CASE NetworkAnswers \/ NetworkLost \/ NetworkChanges
    BY <2>3, <2>8 DEF NetworkAnswers, NetworkLost, NetworkChanges, network, exec
  <2> QED  BY <2>1, <2>2, <2>4, <2>5, <2>6, <2>7, <2>8 DEF NetworkNext, PayloadStep
<1>5. CASE UNCHANGED all
  BY <1>1, <1>5 DEF all, exec
<1> QED  BY <1>2, <1>3, <1>4, <1>5 DEF Next

(* network.py:145-147: whatever blocked_endpoint the config is accepted    *)
(* with, the payload finds the same address and port in it.                *)
THEOREM EndpointTheorem == Spec => []EndpointIsAttempted
<1>1. Init => EndpointInv
  <2> SUFFICES ASSUME Init
               PROVE  EndpointInv
    OBVIOUS
  <2>1. got.blocked_endpoint = ""
    <3>1. got = Falsy
      BY DEF Init, NetworkIdle, NetworkInit
    <3> QED  BY <3>1 DEF Falsy
  <2>2. probe = "network" => stage = "config"
    BY DEF Init, CredentialsInit, FilesystemInit, NetworkInit, JustAsked
  <2> QED  BY <2>1, <2>2 DEF EndpointInv, EndpointIsAttempted, Checking
<1>2. EndpointInv => EndpointIsAttempted
  BY DEF EndpointInv
<1> QED  BY <1>1, <1>2, EndpointStep, Invariance, PTL DEF Spec

-----------------------------------------------------------------------------
(* ---- markers that stay ---- *)

Stuck(p) == p \in markers /\ fate[p] = "sticky"

(* What the payload has noted of removals is what lies there, but for the  *)
(* marker it is about to remove; and it is at most once at each place.     *)
RemovalsNoted ==
    /\ seen.cleanup_failed_outside \subseteq Writable
    /\ \A p \in Writable :
          p \in seen.cleanup_failed_outside <=> Stuck(p) /\ ~(stage = "remove" /\ p = Base)
    /\ seen.workspace_cleanup_failed \in BOOLEAN
    /\ seen.workspace_cleanup_failed <=>
          Stuck(Workspace) /\ ~(stage = "remove" /\ Base = Workspace)
    /\ seen.cleanup_failed_outside \subseteq seen.writable_outside
    /\ seen.workspace_cleanup_failed => seen.workspace_writable

MarkerInv ==
    /\ markers \subseteq Places
    /\ stage \in Looking => RemovalsNoted
    /\ stage \in {"paths", "stat", "open"} => markers = {}
    /\ stage = "write" => todo \cap markers = {} /\ Workspace \notin markers
    /\ stage = "remove" =>
          /\ fate[Base] \in {"sticky", "fine"} /\ Base \in markers
          /\ (todo \ {Base}) \cap markers = {}
          /\ Base # Workspace => Workspace \notin markers
    /\ stage = "done" /\ garbled = "no" =>
          /\ RemovalsNoted
          /\ outcome.findings = FilesystemFindings(seen) /\ outcome.errors = CleanupErrors(seen)

(* Each step of the filesystem probe keeps that.                           *)
LEMMA MarkerStep ==
    ASSUME FilesystemInv, MarkerInv, FilesystemNext
    PROVE  MarkerInv'
<1> USE DEF Looking
<1>0. /\ DOMAIN seen = {"readable_outside", "listed_outside", "writable_outside",
                        "cleanup_failed_outside", "foreign_environ_count",
                        "foreign_environ_uids", "runtime_sockets", "workspace_writable",
                        "workspace_cleanup_failed"}
      /\ fate \in [Places -> Fates]
  BY DEF FilesystemInv, NothingSeen
<1>1. ASSUME UNCHANGED <<fate, markers, outcome, garbled>>,
             stage \in Looking, stage' \in Looking \ {"remove"}, stage # "remove",
             stage' = "write" => stage = "stat",
             stage' \in {"paths", "stat", "open"} => stage \in {"paths", "stat", "open"},
             /\ seen'.cleanup_failed_outside = seen.cleanup_failed_outside
             /\ seen'.workspace_cleanup_failed = seen.workspace_cleanup_failed
             /\ seen'.writable_outside = seen.writable_outside
             /\ seen'.workspace_writable = seen.workspace_writable
      PROVE  MarkerInv'
  BY <1>1 DEF MarkerInv, RemovalsNoted, Stuck
<1>2. CASE LookAtPaths
  BY <1>0, <1>1, <1>2 DEF LookAtPaths
<1>3. CASE StatProcess
  BY <1>0, <1>1, <1>3 DEF StatProcess
<1>4. CASE OpenEnviron
  <2>1. CASE procs[First(todo)] \in {"own", "exposed"}
    BY <1>0, <1>1, <1>4, <2>1 DEF OpenEnviron
  <2>2. CASE procs[First(todo)] \notin {"own", "exposed"}
    BY <1>0, <1>1, <1>4, <2>2 DEF OpenEnviron
  <2> QED  BY <2>1, <2>2
<1>5. CASE LookForSockets
  BY <1>0, <1>1, <1>5 DEF LookForSockets
<1>6. CASE WriteMarker \/ RemoveMarker
  <2>1. UNCHANGED <<garbled, outcome, fate>> /\ stage \in {"write", "remove"}
    BY <1>6 DEF WriteMarker, RemoveMarker
  <2>2. Workspace \notin Writable /\ todo \in SUBSET Nat /\ todo \subseteq Writable
    BY <2>1, FilesystemAssumption DEF FilesystemInv
  <2>3. /\ Base = Workspace => todo = {}
        /\ Base # Workspace => Base \in todo /\ Base \in Writable
    BY <2>2, FirstIsMember DEF Base
  <2>4. Base \in Places /\ fate[Base] \in Fates
    BY <1>0, <2>3 DEF Places
  <2>5. CASE WriteMarker /\ fate[Base] \notin {"denied", "full"}
    <3>1. /\ markers' = markers \cup {Base} /\ stage' = "remove" /\ stage = "write"
          /\ UNCHANGED <<todo, seen>> /\ Base' = Base
      BY <2>5 DEF WriteMarker, Base
    <3>2. RemovalsNoted'
      BY <2>1, <2>2, <2>3, <3>1 DEF MarkerInv, RemovalsNoted, Stuck
    <3> QED  BY <2>1, <2>2, <2>3, <2>4, <2>5, <3>1, <3>2 DEF MarkerInv, Fates
  <2>6. ASSUME NEW wrote \in BOOLEAN, NEW removed \in BOOLEAN,
               RecordMarker(Base, wrote, removed), NextBase,
               Base \notin markers' \/ fate[Base] # "sticky" <=> ~(wrote /\ ~removed),
               markers' \ {Base} = markers \ {Base}, markers' \subseteq Places,
               (todo \ {Base}) \cap markers = {},
               Base # Workspace => Workspace \notin markers
        PROVE  MarkerInv'
    <3>1. \A p : p # Base => (Stuck(p)' <=> Stuck(p))
      BY <2>1, <2>6 DEF Stuck
    <3>2. \A p : p = Base => (Stuck(p)' <=> wrote /\ ~removed)
      <4>1. \A p : Stuck(p)' <=> p \in markers' /\ fate[p] = "sticky"
        BY <2>1 DEF Stuck
      <4> QED  BY <2>6, <4>1
    <3>3. RemovalsNoted
      BY <2>1 DEF MarkerInv
    <3>4. CASE Base = Workspace
      <4>1. /\ seen'.writable_outside = seen.writable_outside
            /\ seen'.cleanup_failed_outside = seen.cleanup_failed_outside
            /\ seen'.workspace_writable = wrote
            /\ seen'.workspace_cleanup_failed = (wrote /\ ~removed)
        BY <1>0, <2>6, <3>4 DEF RecordMarker
      <4>2. stage' = "reply"
        BY <2>6, <3>4 DEF NextBase
      <4>3. RemovalsNoted'
        BY <2>2, <3>1, <3>2, <3>3, <3>4, <4>1, <4>2 DEF RemovalsNoted
      <4> QED  BY <2>6, <4>2, <4>3 DEF MarkerInv
    <3>5. CASE Base # Workspace
      <4>1. /\ seen'.writable_outside = seen.writable_outside \cup {q \in {Base} : wrote}
            /\ seen'.cleanup_failed_outside =
                  seen.cleanup_failed_outside \cup {q \in {Base} : wrote /\ ~removed}
            /\ seen'.workspace_writable = seen.workspace_writable
            /\ seen'.workspace_cleanup_failed = seen.workspace_cleanup_failed
        BY <1>0, <2>6, <3>5 DEF RecordMarker
      <4>2. stage' = "write" /\ todo' = todo \ {Base}
        BY <2>6, <3>5 DEF NextBase
      <4>3. Base \in Writable
        BY <2>3, <3>5
      <4>4. Base \notin seen.cleanup_failed_outside
        <5>1. stage = "write" => Base \notin markers
          BY <2>3, <3>5 DEF MarkerInv
        <5> QED  BY <2>1, <3>3, <4>3, <5>1 DEF RemovalsNoted, Stuck
      <4>5. RemovalsNoted'
        BY <2>2, <3>1, <3>2, <3>3, <3>5, <4>1, <4>2, <4>3, <4>4 DEF RemovalsNoted
      <4>6. todo' \cap markers' = {} /\ Workspace \notin markers'
        BY <2>6, <3>5, <4>2
      <4> QED  BY <2>6, <4>2, <4>5, <4>6 DEF MarkerInv
    <3> QED  BY <3>4, <3>5
  <2>7. CASE WriteMarker /\ fate[Base] \in {"denied", "full"}
    <3>1. RecordMarker(Base, FALSE, FALSE) /\ NextBase /\ stage = "write"
      BY <2>7 DEF WriteMarker
    <3>2. markers' \ {Base} = markers \ {Base} /\ markers' \subseteq Places
      BY <2>4, <2>7 DEF WriteMarker, MarkerInv
    <3> QED  BY <2>6, <2>7, <3>1, <3>2 DEF MarkerInv
  <2>8. CASE RemoveMarker
    <3>1. RecordMarker(Base, TRUE, fate[Base] = "fine") /\ NextBase /\ stage = "remove"
      BY <2>8 DEF RemoveMarker
    <3>2. markers' \ {Base} = markers \ {Base} /\ markers' \subseteq Places
      BY <2>4, <2>8 DEF RemoveMarker, MarkerInv
    <3>3. Base \notin markers' \/ fate[Base] # "sticky" <=> fate[Base] = "fine"
      BY <2>8, <3>1 DEF RemoveMarker, MarkerInv
    <3> QED  BY <2>6, <3>1, <3>2, <3>3 DEF MarkerInv
  <2> QED  BY <1>6, <2>5, <2>7, <2>8
<1>7. CASE FilesystemAnswers
  <2>1. garbled' = "no" => /\ outcome'.findings = FilesystemFindings(seen)
                           /\ outcome'.errors = CleanupErrors(seen)
    BY <1>7, FilesystemIsJudged
  <2>2. /\ UNCHANGED <<fate, markers, seen>> /\ stage = "reply" /\ stage' = "done"
        /\ FilesystemFindings(seen)' = FilesystemFindings(seen)
        /\ CleanupErrors(seen)' = CleanupErrors(seen)
    BY <1>7 DEF FilesystemAnswers, filesystem, FilesystemFindings, CleanupErrors
  <2> QED  BY <2>1, <2>2 DEF MarkerInv, RemovalsNoted, Stuck
<1>8. CASE FilesystemLost
  BY <1>8 DEF FilesystemLost, filesystem, MarkerInv
<1>9. CASE ProcessChanges
  BY <1>9 DEF ProcessChanges, MarkerInv, RemovalsNoted, Stuck, exec, Base
<1> QED  BY <1>2, <1>3, <1>4, <1>5, <1>6, <1>7, <1>8, <1>9 DEF FilesystemNext

(* A run asks one probe.                                                   *)
LEMMA ProbeStays == [Next]_all => probe' = probe
  BY DEF Next, all, CredentialsNext, LookAtEnvironment, LookAtFiles, AskImds, CredentialsAnswers,
         CredentialsLost, FilesystemNext, LookAtPaths, StatProcess, OpenEnviron, LookForSockets,
         WriteMarker, RemoveMarker, FilesystemAnswers, FilesystemLost, ProcessChanges,
         NetworkNext, PayloadStep, Load, CheckEndpoint, CheckHost, CheckCanary, CheckC2,
         CheckControl, NetworkAnswers, NetworkLost, NetworkChanges, exec

(* filesystem.py:35-40: what could not be removed is in the report, each   *)
(* where it lies, and no write that succeeded reads as a failed one.       *)
THEOREM RemovalTheorem == Spec => []FailedRemovalIsTold
<1> DEFINE Inv == probe = "filesystem" => MarkerInv
<1>1. Init => Inv
  <2> SUFFICES ASSUME Init, probe = "filesystem"
               PROVE  MarkerInv
    OBVIOUS
  <2>1. FilesystemInit
    BY DEF Init, CredentialsInit, NetworkInit, JustAsked
  <2> QED  BY <2>1 DEF FilesystemInit, JustAsked, MarkerInv, RemovalsNoted, Stuck, NothingSeen
<1>2. IInv /\ Inv /\ [Next]_all => Inv'
  <2> SUFFICES ASSUME IInv, Inv, [Next]_all, probe' = "filesystem"
               PROVE  MarkerInv'
    OBVIOUS
  <2>1. CASE probe = "filesystem" /\ FilesystemNext
    BY <2>1, MarkerStep DEF IInv
  <2>2. CASE UNCHANGED all
    BY <2>2 DEF all, exec, filesystem, MarkerInv, RemovalsNoted, Stuck, Base, FilesystemFindings,
                CleanupErrors
  <2>3. probe' = probe
    BY ProbeStays
  <2> QED  BY <2>1, <2>2, <2>3 DEF Next
<1>3. Inv => FailedRemovalIsTold
  <2> SUFFICES ASSUME MarkerInv, Returned("filesystem"), garbled = "no"
               PROVE  FailedRemovalIsTold
    BY DEF FailedRemovalIsTold, Returned
  <2> DEFINE stuck == {p \in markers : fate[p] = "sticky"}
  <2>1. /\ RemovalsNoted /\ markers \subseteq Writable \cup {Workspace} /\ stage = "done"
        /\ outcome.findings = FilesystemFindings(seen) /\ outcome.errors = CleanupErrors(seen)
    BY DEF MarkerInv, Returned, Places
  <2>2. /\ \A p \in Writable : p \in seen.cleanup_failed_outside <=> p \in stuck
        /\ seen.workspace_cleanup_failed <=> Workspace \in stuck
    BY <2>1 DEF RemovalsNoted, Stuck
  <2>3. {e.about : e \in outcome.errors} = stuck
    <3>1. \A e \in outcome.errors : e.about \in stuck
      BY <2>1, <2>2 DEF CleanupErrors, Error
    <3>2. \A p \in stuck : Error("cleanup", p) \in outcome.errors
      BY <2>1, <2>2 DEF CleanupErrors
    <3>3. \A p : Error("cleanup", p).about = p
      BY DEF Error
    <3> QED  BY <3>1, <3>2, <3>3
  <2>4. \A p \in stuck \cap Writable : Finding("outside_workspace", p) \in outcome.findings
    BY <2>1, <2>2 DEF FilesystemFindings, Confirmed, RemovalsNoted
  <2>5. Workspace \in stuck => Finding("workspace_missing", Workspace) \notin outcome.findings
    BY <2>1, <2>2 DEF FilesystemFindings, Confirmed, RemovalsNoted, Finding
  <2> QED  BY <2>3, <2>4, <2>5 DEF FailedRemovalIsTold
<1> QED  BY <1>1, <1>2, <1>3, Invariance, PTL DEF Spec

-----------------------------------------------------------------------------
(* ---- the environments counted ---- *)

(* Of the pids the scan is done with, as many are counted as at least were *)
(* in reach, and at most had an open environment or came over.             *)
InReachSet == {p \in Pids : InReach(p)}
Counted(rest) ==
    /\ seen.foreign_environ_count <= Cardinality((everOpen \cup crossed) \ rest)
    /\ Cardinality(InReachSet \ rest) <= seen.foreign_environ_count

CountInv ==
    /\ everOpen \cup crossed \cup foreign \subseteq Pids
    /\ \A p \in Pids : /\ procs[p] = "exposed" => p \in everOpen
                       /\ procs[p] \in {"closed", "exposed"} => p \in foreign
    /\ stage = "paths" => seen.foreign_environ_count = 0
    /\ stage \in {"stat", "open"} => todo \subseteq Pids /\ Counted(todo)
    /\ stage = "open" =>
          /\ todo # {} /\ First(todo) \in foreign
          /\ procs[First(todo)] = "own" => First(todo) \in crossed
    /\ stage \in {"write", "remove", "reply"} => Counted({})
    /\ stage = "done" /\ garbled = "no" =>
          Counted({}) /\ outcome.findings = FilesystemFindings(seen)

(* Sets of pids are finite, and the larger has no smaller cardinality.     *)
LEMMA PidSets ==
    /\ \A S \in SUBSET Pids : IsFiniteSet(S) /\ Cardinality(S) \in Nat
    /\ \A S \in SUBSET Pids : \A T \in SUBSET S : Cardinality(T) <= Cardinality(S)
    /\ \A S \in SUBSET Pids : \A p \in Pids \ S : Cardinality(S \cup {p}) = Cardinality(S) + 1
<1>1. \A S \in SUBSET Pids : IsFiniteSet(S)
  BY FS_Subset, FilesystemAssumption
<1>2. \A S \in SUBSET Pids : Cardinality(S) \in Nat
  BY <1>1, FS_CardinalityType
<1>3. \A S \in SUBSET Pids : \A T \in SUBSET S : Cardinality(T) <= Cardinality(S)
  BY <1>1, FS_Subset
<1>4. \A S \in SUBSET Pids : \A p \in Pids \ S : Cardinality(S \cup {p}) = Cardinality(S) + 1
  BY <1>1, FS_AddElement
<1> QED  BY <1>1, <1>2, <1>3, <1>4

(* A count stays right while sets that bound it from above grow and those  *)
(* that bound it from below shrink; and one more on each side is one more. *)
LEMMA CountMoves ==
    ASSUME NEW n \in Nat, NEW low \in SUBSET Pids, NEW up \in SUBSET Pids,
           Cardinality(low) <= n, n <= Cardinality(up)
    PROVE  /\ \A S \in SUBSET low : Cardinality(S) <= n
           /\ \A T \in SUBSET Pids : up \subseteq T => n <= Cardinality(T)
           /\ \A p \in Pids : \A S \in SUBSET (low \cup {p}) : Cardinality(S) <= n + 1
           /\ \A p \in Pids \ up : \A T \in SUBSET Pids :
                 up \cup {p} \subseteq T => n + 1 <= Cardinality(T)
<1>1. \A S \in SUBSET low : Cardinality(S) \in Nat /\ Cardinality(S) <= Cardinality(low)
  BY PidSets
<1>2. \A T \in SUBSET Pids : Cardinality(T) \in Nat
  BY PidSets
<1>3. \A T \in SUBSET Pids : up \subseteq T => Cardinality(up) <= Cardinality(T)
  BY PidSets
<1>4. \A p \in Pids : Cardinality(low \cup {p}) <= n + 1
  <2> TAKE p \in Pids
  <2>1. CASE p \in low
    <3>1. low \cup {p} = low
      BY <2>1
    <3> QED  BY <1>2, <3>1
  <2>2. CASE p \notin low
    <3>1. Cardinality(low \cup {p}) = Cardinality(low) + 1
      BY <2>2, PidSets
    <3> QED  BY <1>2, <3>1
  <2> QED  BY <2>1, <2>2
<1>5. \A p \in Pids : \A S \in SUBSET (low \cup {p}) : Cardinality(S) <= n + 1
  <2> TAKE p \in Pids
  <2> TAKE S \in SUBSET (low \cup {p})
  <2>1. low \cup {p} \in SUBSET Pids /\ S \in SUBSET Pids
    OBVIOUS
  <2>2. Cardinality(S) <= Cardinality(low \cup {p})
    BY <2>1, PidSets
  <2> QED  BY <1>2, <1>4, <2>1, <2>2
<1>6. \A p \in Pids \ up : \A T \in SUBSET Pids :
          up \cup {p} \subseteq T => n + 1 <= Cardinality(T)
  <2> TAKE p \in Pids \ up
  <2> TAKE T \in SUBSET Pids
  <2> HAVE up \cup {p} \subseteq T
  <2>1. Cardinality(up \cup {p}) = Cardinality(up) + 1
    BY PidSets
  <2>2. Cardinality(up \cup {p}) <= Cardinality(T)
    BY PidSets
  <2> QED  BY <1>2, <2>1, <2>2
<1> QED  BY <1>1, <1>2, <1>3, <1>5, <1>6

(* Each step of the filesystem probe keeps the count right.                *)
LEMMA CountStep ==
    ASSUME FilesystemInv, CountInv, FilesystemNext
    PROVE  CountInv'
<1> USE DEF Looking
<1>0. /\ DOMAIN seen = {"readable_outside", "listed_outside", "writable_outside",
                        "cleanup_failed_outside", "foreign_environ_count",
                        "foreign_environ_uids", "runtime_sockets", "workspace_writable",
                        "workspace_cleanup_failed"}
      /\ seen.foreign_environ_count \in Nat /\ procs \in [Pids -> Holders]
  BY DEF FilesystemInv, NothingSeen
<1> DEFINE n == seen.foreign_environ_count
           met == everOpen \cup crossed
<1>1. InReachSet \in SUBSET Pids /\ met \in SUBSET Pids
  BY DEF InReachSet, CountInv
<1>2. ASSUME UNCHANGED table, \A p \in Pids \cap skipped : p \in skipped'
      PROVE  /\ InReachSet' = InReachSet \ skipped' /\ met' = met
             /\ CountInv' <=>
                   /\ stage' = "paths" => seen'.foreign_environ_count = 0
                   /\ stage' \in {"stat", "open"} => todo' \subseteq Pids /\ Counted(todo)'
                   /\ stage' = "open" =>
                         /\ todo' # {} /\ First(todo)' \in foreign
                         /\ procs[First(todo)'] = "own" => First(todo)' \in crossed
                   /\ stage' \in {"write", "remove", "reply"} => Counted({})'
                   /\ stage' = "done" /\ garbled' = "no" =>
                         Counted({})' /\ outcome'.findings = FilesystemFindings(seen)'
  <2>1. InReachSet' = InReachSet \ skipped'
    BY <1>2, ReachKept DEF InReachSet
  <2> QED  BY <1>2, <2>1 DEF table, CountInv
<1>3. CASE LookAtPaths
  <2>1. /\ UNCHANGED table /\ stage = "paths" /\ stage' = "stat"
        /\ \A p \in Pids \cap skipped : p \in skipped'
    BY <1>3 DEF LookAtPaths
  <2>2. seen'.foreign_environ_count = 0
    BY <1>0, <1>3, <2>1 DEF LookAtPaths, CountInv
  <2>3. \/ todo' = Lowest({p \in Pids : procs[p] # "free"}, ScanLimit)
        \/ todo' = {} /\ skipped' = Pids
    BY <1>3 DEF LookAtPaths
  <2>4. todo' \subseteq Pids /\ (InReachSet \ skipped') \ todo' = {}
    BY <1>0, <2>3, ReachIsScanned DEF Lowest, InReachSet
  <2>5. Counted(todo)'
    <3>1. met \ todo' \in SUBSET Pids
      BY <1>1
    <3>2. Cardinality(met \ todo') \in Nat /\ Cardinality({}) = 0
      <4> HIDE DEF met
      <4> QED  BY <3>1, PidSets, FS_EmptySet
    <3>3. InReachSet' = InReachSet \ skipped' /\ met' = met
      BY <1>2, <2>1
    <3> QED  BY <2>2, <2>4, <3>2, <3>3 DEF Counted
  <2> QED  BY <1>2, <2>1, <2>4, <2>5
<1>4. CASE stage \in {"stat", "open"} /\ todo # {} /\ UNCHANGED table
           /\ skipped \subseteq skipped'
           /\ stage' = "stat" /\ todo' = todo \ {First(todo)}
           /\ \/ seen' = seen /\ (procs[First(todo)] # "exposed" \/ First(todo) \in skipped')
              \/ /\ seen'.foreign_environ_count = n + 1
                 /\ First(todo) \in met
  <2>1. PICK f \in todo : f = First(todo)
    <3>1. todo \in SUBSET Nat
      BY <1>4, FilesystemAssumption DEF CountInv
    <3> QED  BY <1>4, <3>1, FirstIsMember
  <2>2. f \in Pids /\ todo' \subseteq Pids
    BY <1>4, <2>1 DEF CountInv
  <2>3. /\ Cardinality(InReachSet \ todo) <= n /\ n <= Cardinality(met \ todo)
        /\ InReachSet \ todo \in SUBSET Pids /\ met \ todo \in SUBSET Pids
        /\ met \ todo' \in SUBSET Pids
    BY <1>1, <1>4 DEF CountInv, Counted
  <2>4. /\ InReachSet' = InReachSet \ skipped' /\ met' = met
        /\ InReachSet' \ todo' \subseteq (InReachSet \ todo) \cup {f}
        /\ met \ todo \subseteq met \ todo'
    BY <1>2, <1>4, <2>1
  <2>5. CASE seen' = seen /\ (procs[f] # "exposed" \/ f \in skipped')
    <3>1. f \notin InReachSet'
      BY <2>4, <2>5 DEF InReachSet, InReach
    <3>2. InReachSet' \ todo' \in SUBSET (InReachSet \ todo)
      BY <2>4, <3>1
    <3>3. Cardinality(InReachSet' \ todo') <= n /\ n <= Cardinality(met \ todo')
      <4> HIDE DEF met, n
      <4>1. n \in Nat
        BY <1>0 DEF n
      <4> QED  BY <2>3, <2>4, <3>2, <4>1, CountMoves
    <3>4. Counted(todo)'
      BY <2>4, <2>5, <3>3 DEF Counted
    <3> QED  BY <1>2, <1>4, <2>2, <3>4
  <2>6. CASE seen'.foreign_environ_count = n + 1 /\ f \in met
    <3>1. f \in Pids \ (met \ todo) /\ (met \ todo) \cup {f} \subseteq met \ todo'
      BY <1>4, <2>1, <2>2, <2>6
    <3>2. Cardinality(InReachSet' \ todo') <= n + 1 /\ n + 1 <= Cardinality(met \ todo')
      <4> HIDE DEF met, n
      <4>1. n \in Nat
        BY <1>0 DEF n
      <4> QED  BY <2>2, <2>3, <2>4, <3>1, <4>1, CountMoves
    <3>3. Counted(todo)'
      BY <2>4, <2>6, <3>2 DEF Counted
    <3> QED  BY <1>2, <1>4, <2>2, <3>3
  <2> QED  BY <1>4, <2>1, <2>5, <2>6
<1>5. CASE StatProcess
  <2>1. CASE todo' = todo \ {First(todo)} /\ UNCHANGED stage
             /\ skipped' = skipped \cup {p \in {First(todo)} : Another(p)}
    <3>1. procs[First(todo)] # "exposed" \/ First(todo) \in skipped'
      BY <2>1 DEF Another
    <3> QED  BY <1>4, <1>5, <2>1, <3>1 DEF StatProcess
  <2>2. CASE Another(First(todo)) /\ stage' = "open" /\ UNCHANGED <<todo, skipped>>
    <3>1. UNCHANGED <<table, todo, seen>> /\ stage = "stat" /\ todo # {}
      BY <1>5, <2>2 DEF StatProcess
    <3>2. First(todo) \in Pids
      <4>1. todo \in SUBSET Nat /\ todo \subseteq Pids
        BY <3>1, FilesystemAssumption DEF CountInv
      <4> QED  BY <3>1, <4>1, FirstIsMember
    <3>3. First(todo) \in foreign /\ procs[First(todo)] # "own"
      BY <1>0, <2>2, <3>2 DEF CountInv, Holders, Another
    <3>4. Counted(todo)' /\ First(todo)' = First(todo)
      <4>1. InReachSet' = InReachSet /\ met' = met
        BY <2>2, <3>1 DEF InReachSet, InReach, table
      <4> QED  BY <3>1, <4>1 DEF CountInv, Counted
    <3>5. todo' \subseteq Pids
      BY <3>1 DEF CountInv
    <3> QED  BY <1>2, <2>2, <3>1, <3>3, <3>4, <3>5
  <2> QED  BY <1>5, <2>1, <2>2 DEF StatProcess
<1>6. CASE OpenEnviron
  <2>1. todo # {}
    BY <1>6 DEF OpenEnviron, CountInv
  <2>2. CASE procs[First(todo)] \in {"own", "exposed"}
    <3>1. seen'.foreign_environ_count = n + 1
      BY <1>0, <1>6, <2>2 DEF OpenEnviron
    <3>2. First(todo) \in met
      <4>1. First(todo) \in Pids
        <5>1. todo \in SUBSET Nat /\ todo \subseteq Pids
          BY <1>6, FilesystemAssumption DEF CountInv, OpenEnviron
        <5> QED  BY <2>1, <5>1, FirstIsMember
      <4> QED  BY <1>6, <2>2, <4>1 DEF CountInv, OpenEnviron
    <3> QED  BY <1>4, <1>6, <2>1, <3>1, <3>2 DEF OpenEnviron
  <2>3. CASE procs[First(todo)] \notin {"own", "exposed"}
    BY <1>4, <1>6, <2>1, <2>3 DEF OpenEnviron
  <2> QED  BY <2>2, <2>3
<1>7. ASSUME UNCHANGED <<table, skipped, outcome, garbled>>, stage \in Looking, Counted({}),
             stage' \in {"write", "remove", "reply"},
             seen'.foreign_environ_count = n
      PROVE  CountInv'
  <2>1. Counted({})'
    <3>1. InReachSet' = InReachSet /\ met' = met
      BY <1>7 DEF InReachSet, InReach, table
    <3> QED  BY <1>7, <3>1 DEF Counted
  <2> QED  BY <1>2, <1>7, <2>1
<1>8. CASE LookForSockets
  <2>1. Counted({})
    BY <1>8 DEF LookForSockets, CountInv
  <2> QED  BY <1>0, <1>7, <1>8, <2>1 DEF LookForSockets
<1>9. CASE WriteMarker \/ RemoveMarker
  <2>1. /\ UNCHANGED <<table, skipped, outcome, garbled>> /\ stage \in {"write", "remove"}
        /\ stage' \in {"write", "remove", "reply"}
    BY <1>9 DEF WriteMarker, RemoveMarker, NextBase
  <2>2. ASSUME NEW p, NEW wrote, NEW removed, RecordMarker(p, wrote, removed)
        PROVE  seen'.foreign_environ_count = n
    <3>1. CASE p = Workspace
      BY <1>0, <2>2, <3>1 DEF RecordMarker
    <3>2. CASE p # Workspace
      BY <1>0, <2>2, <3>2 DEF RecordMarker
    <3> QED  BY <3>1, <3>2
  <2>3. seen'.foreign_environ_count = n
    BY <1>9, <2>2 DEF WriteMarker, RemoveMarker
  <2> QED  BY <1>7, <2>1, <2>3 DEF CountInv
<1>10. CASE FilesystemAnswers
  <2>1. garbled' = "no" => outcome'.findings = FilesystemFindings(seen)
    BY <1>10, FilesystemIsJudged
  <2>2. UNCHANGED <<table, skipped, seen>> /\ stage = "reply" /\ stage' = "done"
    BY <1>10 DEF FilesystemAnswers, filesystem
  <2>3. Counted({})' /\ FilesystemFindings(seen)' = FilesystemFindings(seen)
    <3>1. InReachSet' = InReachSet /\ met' = met
      BY <2>2 DEF InReachSet, InReach, table
    <3> QED  BY <2>2, <3>1 DEF CountInv, Counted, FilesystemFindings
  <2> QED  BY <1>2, <2>1, <2>2, <2>3
<1>11. CASE FilesystemLost
  BY <1>2, <1>11 DEF FilesystemLost, filesystem
<1>12. CASE ProcessChanges
  <2>1. PICK p \in Pids, h \in Holders :
            /\ procs' = [procs EXCEPT ![p] = h]
            /\ everOpen' = everOpen \cup {q \in {p} : h = "exposed"}
            /\ foreign' = foreign \cup {q \in {p} : h \in {"closed", "exposed"}}
            /\ crossed' = crossed \cup {q \in foreign \cap {p} : h = "own"}
    BY <1>12 DEF ProcessChanges
  <2>2. stage \in {"paths", "stat", "open"} /\ UNCHANGED <<stage, todo, seen>>
    BY <1>12 DEF ProcessChanges, exec
  <2>3. everOpen' \cup crossed' \cup foreign' \subseteq Pids
    BY <2>1 DEF CountInv
  <2>4. \A q \in Pids : /\ procs'[q] = "exposed" => q \in everOpen'
                        /\ procs'[q] \in {"closed", "exposed"} => q \in foreign'
    BY <1>0, <2>1 DEF CountInv
  <2>5. InReachSet' \in SUBSET InReachSet
    <3>1. churned \subseteq Pids
      BY DEF FilesystemInv
    <3>2. \A q \in Pids : InReach(q)' => InReach(q)
      BY <1>0, <1>12, <3>1, ReachShrinks
    <3> QED  BY <3>2 DEF InReachSet
  <2>6. Counted(todo) => Counted(todo)'
    <3> SUFFICES ASSUME Counted(todo)
                 PROVE  Counted(todo)'
      OBVIOUS
    <3>1. /\ InReachSet' \ todo \in SUBSET (InReachSet \ todo)
          /\ met \ todo \subseteq met' \ todo /\ met' \ todo \in SUBSET Pids
          /\ InReachSet \ todo \in SUBSET Pids /\ met \ todo \in SUBSET Pids
      BY <1>1, <2>1, <2>3, <2>5
    <3>2. Cardinality(InReachSet \ todo) <= n /\ n <= Cardinality(met \ todo)
      BY DEF Counted
    <3>3. Cardinality(InReachSet' \ todo) <= n /\ n <= Cardinality(met' \ todo)
      <4> HIDE DEF met, n
      <4>1. n \in Nat
        BY <1>0 DEF n
      <4> QED  BY <3>1, <3>2, <4>1, CountMoves
    <3> QED  BY <2>2, <3>3 DEF Counted
  <2>7. stage = "open" =>
            /\ First(todo) \in foreign'
            /\ procs'[First(todo)] = "own" => First(todo) \in crossed'
    <3> SUFFICES ASSUME stage = "open"
                 PROVE  /\ First(todo) \in foreign'
                        /\ procs'[First(todo)] = "own" => First(todo) \in crossed'
      OBVIOUS
    <3>1. First(todo) \in foreign /\ First(todo) \in Pids
      BY DEF CountInv
    <3>2. CASE First(todo) = p
      <4>1. procs'[p] = h /\ (h = "own" => p \in crossed')
        BY <1>0, <2>1, <3>1, <3>2
      <4> QED  BY <2>1, <3>1, <3>2, <4>1
    <3>3. CASE First(todo) # p
      BY <1>0, <2>1, <3>1, <3>3 DEF CountInv
    <3> QED  BY <3>2, <3>3
  <2> QED  BY <2>2, <2>3, <2>4, <2>6, <2>7 DEF CountInv
<1> QED  BY <1>3, <1>5, <1>6, <1>8, <1>9, <1>10, <1>11, <1>12 DEF FilesystemNext

(* filesystem.py:41-43, 200-239: the number in the report is of real       *)
(* environments, and no fewer than were in reach throughout, that is, open,*)
(* listed and of an owner the scan could determine, however processes and  *)
(* pids come and go.                                                       *)
THEOREM CountTheorem == Spec => []ForeignCountIsReal
<1> DEFINE Inv == probe = "filesystem" => CountInv
<1>1. Init => Inv
  <2> SUFFICES ASSUME Init, probe = "filesystem"
               PROVE  CountInv
    OBVIOUS
  <2>1. FilesystemInit
    BY DEF Init, CredentialsInit, NetworkInit, JustAsked
  <2> QED  BY <2>1 DEF FilesystemInit, JustAsked, CountInv, NothingSeen
<1>2. IInv /\ Inv /\ [Next]_all => Inv'
  <2> SUFFICES ASSUME IInv, Inv, [Next]_all, probe' = "filesystem"
               PROVE  CountInv'
    OBVIOUS
  <2>1. CASE probe = "filesystem" /\ FilesystemNext
    BY <2>1, CountStep DEF IInv
  <2>2. CASE UNCHANGED all
    BY <2>2 DEF all, exec, filesystem, table, CountInv, Counted, InReachSet, InReach,
                FilesystemFindings
  <2>3. probe' = probe
    BY ProbeStays
  <2> QED  BY <2>1, <2>2, <2>3 DEF Next
<1>3. Inv => ForeignCountIsReal
  <2> SUFFICES ASSUME CountInv, Returned("filesystem"), garbled = "no"
               PROVE  ForeignCountIsReal
    BY DEF ForeignCountIsReal, Returned
  <2> DEFINE reported == {f.about : f \in {g \in outcome.findings : g.rule = "proc_environ"}}
  <2>1. Counted({}) /\ outcome.findings = FilesystemFindings(seen)
    BY DEF CountInv, Returned
  <2>2. /\ seen.foreign_environ_count <= Cardinality(everOpen \cup crossed)
        /\ Cardinality(InReachSet) <= seen.foreign_environ_count
    BY <2>1 DEF Counted
  <2>3. reported = {seen.foreign_environ_count} \ {0}
    <3>1. {g \in outcome.findings : g.rule = "proc_environ"} =
             {Finding("proc_environ", k) : k \in {seen.foreign_environ_count} \ {0}}
      BY <2>1 DEF FilesystemFindings, Confirmed, Finding
    <3>2. \A k : Finding("proc_environ", k).about = k
      BY DEF Finding
    <3> QED  BY <3>1, <3>2
  <2>4. reported = {} => InReachSet = {}
    <3> SUFFICES ASSUME reported = {}
                 PROVE  InReachSet = {}
      OBVIOUS
    <3>1. InReachSet \in SUBSET Pids
      BY DEF InReachSet
    <3>2. IsFiniteSet(InReachSet) /\ Cardinality(InReachSet) \in Nat
      BY <3>1, PidSets
    <3>3. Cardinality(InReachSet) = 0
      BY <2>2, <2>3, <3>2
    <3> QED  BY <3>2, <3>3, FS_EmptySet
  <2> HIDE DEF reported
  <2> QED  BY <2>2, <2>3, <2>4 DEF ForeignCountIsReal, InReachSet, reported
<1> QED  BY <1>1, <1>2, <1>3, Invariance, PTL DEF Spec

-----------------------------------------------------------------------------
(* ---- types ---- *)

(* The parts of TypeOK that are each probe's own; and that the scan is     *)
(* never handed more than ScanLimit processes, counted ones included.      *)
CredentialsTypes ==
    /\ env \in Environments /\ files \subseteq CredentialPaths
    /\ found.env_secrets \subseteq DOMAIN env /\ found.readable_paths \subseteq files
    /\ found.imds \in ImdsStates

FilesystemTypes ==
    /\ open \subseteq Readable \cup Listed \cup Sockets
    /\ fate \in [Places -> Fates] /\ procs \in [Pids -> Holders]
    /\ todo \subseteq Pids \cup Writable
    /\ seen.foreign_environ_count \in 0..ScanLimit
    /\ seen.writable_outside \subseteq Writable
    /\ seen.cleanup_failed_outside \subseteq seen.writable_outside
    /\ markers \subseteq Places
    /\ everOpen \cup crossed \subseteq foreign
    /\ foreign \cup churned \cup skipped \subseteq Pids

ScanFits ==
    /\ stage = "paths" => seen.foreign_environ_count = 0
    /\ stage \in {"stat", "open"} =>
          todo \subseteq Pids /\ seen.foreign_environ_count + Cardinality(todo) <= ScanLimit
    /\ stage = "open" => todo # {}

NetworkTypes ==
    /\ config \in ConfigFiles /\ net \in Networks
    /\ changes \in 0..MaxChanges /\ slow \subseteq Names
    /\ got.blocked_endpoint \in Statuses /\ got.blocked_host \in Statuses
    /\ got.dns_canary \in {"", "resolved", "unresolved"}
    /\ DOMAIN got.c2 \subseteq C2Names /\ \A name \in DOMAIN got.c2 : got.c2[name] \in Statuses
    /\ got.control_reachable \in BOOLEAN

Types ==
    /\ ExecTypeOK /\ CredentialsTypes /\ FilesystemTypes /\ NetworkTypes
    /\ probe = "filesystem" => ScanFits

(* A probe step that has not ended leaves the verdict alone.               *)
LEMMA VerdictTypes == IInv /\ IInv' /\ ExecTypeOK /\ [Next]_all => ExecTypeOK'
<1> SUFFICES ASSUME IInv, IInv', ExecTypeOK, [Next]_all
             PROVE  ExecTypeOK'
  OBVIOUS
<1>1. CASE UNCHANGED <<garbled, outcome>>
  BY <1>1 DEF ExecTypeOK
<1>2. ASSUME stage' = "done", garbled' \in {"no", "lost", "shape", "status"}
      PROVE  ExecTypeOK'
  <2>1. outcome'.control \in {"held", "failed", "absent"}
    BY <1>2 DEF IInv, CredentialsInv, FilesystemInv, NetworkInv, Judged
  <2> QED  BY <1>2, <2>1 DEF ExecTypeOK
<1>3. \A body, expected : Damage(body, expected) \in {"no", "lost", "shape", "status"}
  BY DEF Damage
<1>4. CASE CredentialsAnswers \/ CredentialsLost
  BY <1>2, <1>3, <1>4 DEF CredentialsAnswers, CredentialsLost
<1>5. CASE FilesystemAnswers \/ FilesystemLost
  BY <1>2, <1>3, <1>5 DEF FilesystemAnswers, FilesystemLost
<1>6. CASE NetworkAnswers \/ NetworkLost
  BY <1>2, <1>3, <1>6 DEF NetworkAnswers, NetworkLost
<1> QED  BY <1>1, <1>4, <1>5, <1>6 DEF Next, all, exec, CredentialsNext, LookAtEnvironment,
            LookAtFiles, AskImds, FilesystemNext, LookAtPaths, StatProcess, OpenEnviron,
            LookForSockets, WriteMarker, RemoveMarker, ProcessChanges, NetworkNext, PayloadStep,
            Load, CheckEndpoint, CheckHost, CheckCanary, CheckC2, CheckControl, NetworkChanges

(* The credentials probe keeps its types.                                  *)
LEMMA CredentialsTypesStep ==
    ASSUME CredentialsInv, CredentialsTypes, CredentialsNext
    PROVE  CredentialsTypes'
<1> USE DEF CredentialsTypes
<1>0. DOMAIN found = {"env_secrets", "readable_paths", "imds"}
  BY DEF CredentialsInv, NothingFound
<1>1. CASE LookAtEnvironment
  <2>1. Secrets \subseteq DOMAIN env
    BY DEF Secrets
  <2> QED  BY <1>0, <1>1, <2>1 DEF LookAtEnvironment
<1>2. CASE LookAtFiles
  BY <1>0, <1>2 DEF LookAtFiles
<1>3. CASE AskImds
  BY <1>0, <1>3 DEF AskImds
<1>4. CASE CredentialsAnswers \/ CredentialsLost
  BY <1>4 DEF CredentialsAnswers, CredentialsLost, credentials
<1> QED  BY <1>1, <1>2, <1>3, <1>4 DEF CredentialsNext

(* The network probe keeps its types.                                      *)
LEMMA NetworkTypesStep ==
    ASSUME NetworkInv, NetworkTypes, NetworkNext
    PROVE  NetworkTypes'
<1> USE DEF NetworkTypes
<1>0. /\ DOMAIN got = {"blocked_endpoint", "blocked_host", "dns_canary", "c2",
                       "control_reachable"}
      /\ \A name : Reachable(name) \subseteq Statuses
      /\ EndpointStatus \subseteq Statuses
      /\ \A name, status : TooLate(name, status) \subseteq {name}
  BY DEF NetworkInv, Falsy, Reachable, Connection, EndpointStatus, Statuses, TooLate
<1>1. CASE Load
  BY <1>1 DEF Load, network
<1>2. CASE CheckEndpoint
  <2>1. PICK status \in EndpointStatus : got' = [got EXCEPT !["blocked_endpoint"] = status]
    BY <1>2 DEF CheckEndpoint, Answer
  <2>2. /\ got'.blocked_endpoint = status /\ got'.blocked_host = got.blocked_host
        /\ got'.dns_canary = got.dns_canary /\ got'.c2 = got.c2
        /\ got'.control_reachable = got.control_reachable
    BY <1>0, <2>1
  <2> QED  BY <1>0, <1>2, <2>2 DEF CheckEndpoint
<1>3. CASE CheckHost
  <2>1. PICK status \in Reachable(Blocked) :
            /\ got' = [got EXCEPT !["blocked_host"] = status]
            /\ slow' = slow \cup TooLate(Blocked, status)
    BY <1>3 DEF CheckHost, Answer
  <2>2. /\ got'.blocked_endpoint = got.blocked_endpoint /\ got'.blocked_host = status
        /\ got'.dns_canary = got.dns_canary /\ got'.c2 = got.c2
        /\ got'.control_reachable = got.control_reachable
    BY <1>0, <2>1
  <2>3. slow' \subseteq Names
    BY <1>0, <2>1 DEF Names
  <2> QED  BY <1>0, <1>3, <2>2, <2>3 DEF CheckHost
<1>4. CASE CheckCanary
  <2>1. got' = [got EXCEPT !["dns_canary"] = Resolves(Canary)]
    BY <1>4 DEF CheckCanary, Answer
  <2>2. /\ got'.blocked_endpoint = got.blocked_endpoint /\ got'.blocked_host = got.blocked_host
        /\ got'.dns_canary = Resolves(Canary) /\ got'.c2 = got.c2
        /\ got'.control_reachable = got.control_reachable
    BY <1>0, <2>1
  <2> QED  BY <1>4, <2>2 DEF CheckCanary, Resolves
<1>5. CASE CheckC2
  <2>0. PICK name \in C2ToTry : \E status \in Reachable(name) :
            /\ got' = [got EXCEPT !["c2"] = [n \in DOMAIN got.c2 \cup {name} |->
                                               IF n = name THEN status ELSE got.c2[n]]]
            /\ slow' = slow \cup TooLate(name, status)
    BY <1>5 DEF CheckC2, Answer
  <2>1. PICK status \in Reachable(name) :
            /\ got' = [got EXCEPT !["c2"] = [n \in DOMAIN got.c2 \cup {name} |->
                                               IF n = name THEN status ELSE got.c2[n]]]
            /\ slow' = slow \cup TooLate(name, status)
    BY <2>0
  <2>2. name \in C2Names
    <3>1. config.c2 \in Seq(Seq(C2Names))
      BY <1>5, C2Positions DEF CheckC2, NetworkInv, Checking
    <3>2. PICK i \in DOMAIN config.c2 : \E j \in DOMAIN Entry(i) : name = Entry(i)[j]
      BY DEF C2ToTry
    <3> HIDE DEF NetworkTypes
    <3>3. ASSUME NEW S, NEW q \in Seq(S), NEW j \in DOMAIN q
          PROVE  q[j] \in S
      <4>1. Len(q) \in Nat /\ DOMAIN q = 1..Len(q)
        OBVIOUS
      <4> QED  BY <4>1
    <3>4. Entry(i) \in Seq(C2Names)
      BY <3>1, <3>2, <3>3, Zenon DEF Entry
    <3> QED  BY <3>2, <3>3, <3>4, Zenon
  <2>3. /\ got'.blocked_endpoint = got.blocked_endpoint /\ got'.blocked_host = got.blocked_host
        /\ got'.dns_canary = got.dns_canary
        /\ got'.control_reachable = got.control_reachable
        /\ got'.c2 = [n \in DOMAIN got.c2 \cup {name} |-> IF n = name THEN status ELSE got.c2[n]]
    BY <1>0, <2>1
  <2>4. slow' \subseteq Names
    <3>1. TooLate(name, status) \subseteq {name}
      BY <1>0
    <3> QED  BY <2>1, <2>2, <3>1 DEF Names
  <2>5. DOMAIN got'.c2 \subseteq C2Names /\ \A n \in DOMAIN got'.c2 : got'.c2[n] \in Statuses
    BY <1>0, <2>2, <2>3
  <2> QED  BY <1>5, <2>3, <2>4, <2>5 DEF CheckC2
<1>6. CASE CheckControl
  <2>1. PICK held \in ControlReachable : got' = [got EXCEPT !["control_reachable"] = held]
    BY <1>6 DEF CheckControl, Answer
  <2>2. /\ got'.blocked_endpoint = got.blocked_endpoint /\ got'.blocked_host = got.blocked_host
        /\ got'.dns_canary = got.dns_canary /\ got'.c2 = got.c2
        /\ got'.control_reachable = held
    BY <1>0, <2>1
  <2>3. held \in BOOLEAN
    BY <2>1 DEF ControlReachable, ProxyAllows
  <2> QED  BY <1>6, <2>2, <2>3 DEF CheckControl
<1>7. CASE NetworkAnswers \/ NetworkLost
  BY <1>7 DEF NetworkAnswers, NetworkLost, network
<1>8. CASE NetworkChanges
  <2>0. changes \in Nat /\ changes < MaxChanges
    BY <1>8 DEF NetworkChanges, NetworkInv
  <2>3. changes' = changes + 1
    BY <1>8 DEF NetworkChanges
  <2>1. changes' \in 0..MaxChanges
    <3> HIDE DEF NetworkTypes
    <3> QED  BY <2>0, <2>3, NetworkAssumption
  <2>2. net' \in Networks /\ UNCHANGED <<config, got, slow>>
    BY <1>8 DEF NetworkChanges
  <2> QED  BY <2>1, <2>2
<1> QED  BY <1>1, <1>2, <1>3, <1>4, <1>5, <1>6, <1>7, <1>8 DEF NetworkNext, PayloadStep

(* The filesystem probe keeps its types, and its scan stays in its limit.  *)
LEMMA FilesystemTypesStep ==
    ASSUME FilesystemInv, FilesystemTypes, ScanFits, FilesystemNext
    PROVE  FilesystemTypes' /\ ScanFits'
<1>0. /\ DOMAIN seen = {"readable_outside", "listed_outside", "writable_outside",
                        "cleanup_failed_outside", "foreign_environ_count",
                        "foreign_environ_uids", "runtime_sockets", "workspace_writable",
                        "workspace_cleanup_failed"}
      /\ seen.foreign_environ_count \in Nat /\ ScanLimit \in Nat \ {0}
  BY FilesystemAssumption DEF FilesystemInv, NothingSeen
<1>1. ASSUME UNCHANGED <<open, fate, markers, table>>, todo' \subseteq Pids \cup Writable,
             skipped' \subseteq Pids,
             seen'.foreign_environ_count \in 0..ScanLimit,
             seen'.writable_outside = seen.writable_outside,
             seen'.cleanup_failed_outside = seen.cleanup_failed_outside
      PROVE  FilesystemTypes'
  BY <1>1 DEF FilesystemTypes, table
<1>2. CASE LookAtPaths
  <2> DEFINE living == {p \in Pids : procs[p] # "free"}
  <2>1. stage = "paths" /\ stage' = "stat" /\ UNCHANGED <<open, fate, markers, table>>
    BY <1>2 DEF LookAtPaths
  <2>2. /\ seen'.foreign_environ_count = 0
        /\ seen'.writable_outside = seen.writable_outside
        /\ seen'.cleanup_failed_outside = seen.cleanup_failed_outside
    BY <1>0, <1>2, <2>1 DEF LookAtPaths, ScanFits
  <2>3. living \in SUBSET Pids /\ living \in SUBSET Nat
    BY FilesystemAssumption
  <2>4. /\ \/ todo' = {i \in living : Cardinality({j \in living : j < i}) < ScanLimit}
           \/ todo' = {}
        /\ skipped' \subseteq Pids
    BY <1>2 DEF LookAtPaths, Lowest, FilesystemTypes
  <2>5. todo' \subseteq Pids /\ Cardinality(todo') <= ScanLimit
    <3>1. IsFiniteSet(living)
      <4> HIDE DEF living
      <4> QED  BY <2>3, PidSets
    <3> HIDE DEF living
    <3>2. todo' \subseteq living /\ Cardinality(todo') <= ScanLimit
      <4>1. CASE todo' = {i \in living : Cardinality({j \in living : j < i}) < ScanLimit}
        BY <1>0, <2>3, <3>1, <4>1, LowestCardinality
      <4>2. CASE todo' = {}
        BY <1>0, <4>2, FS_EmptySet
      <4> QED  BY <2>4, <4>1, <4>2
    <3> QED  BY <2>3, <3>2
  <2>6. Cardinality(todo') \in Nat
    BY <2>5, PidSets
  <2>7. FilesystemTypes'
    BY <1>0, <1>1, <2>1, <2>2, <2>4, <2>5
  <2>8. ScanFits'
    BY <1>0, <2>1, <2>2, <2>5, <2>6 DEF ScanFits
  <2> QED  BY <2>7, <2>8
<1>3. ASSUME todo # {}, stage \in {"stat", "open"}, stage' = "stat",
             todo' = todo \ {First(todo)}, UNCHANGED <<open, fate, markers, table>>,
             skipped' \subseteq Pids,
             \/ seen' = seen
             \/ /\ seen'.foreign_environ_count = seen.foreign_environ_count + 1
                /\ seen'.writable_outside = seen.writable_outside
                /\ seen'.cleanup_failed_outside = seen.cleanup_failed_outside
      PROVE  FilesystemTypes' /\ ScanFits'
  <2>1. todo \in SUBSET Pids /\ todo \in SUBSET Nat
    BY <1>3, FilesystemAssumption DEF ScanFits
  <2>2. PICK f \in todo : f = First(todo)
    BY <1>3, <2>1, FirstIsMember
  <2>3. todo' \in SUBSET Pids /\ f \in Pids \ todo' /\ todo' \cup {f} = todo
    BY <1>3, <2>1, <2>2
  <2>4. Cardinality(todo) = Cardinality(todo') + 1 /\ Cardinality(todo') \in Nat
    BY <2>3, PidSets
  <2>5. seen.foreign_environ_count + Cardinality(todo) <= ScanLimit
    BY <1>3 DEF ScanFits
  <2>6. /\ seen'.foreign_environ_count \in 0..ScanLimit
        /\ seen'.foreign_environ_count + Cardinality(todo') <= ScanLimit
        /\ seen'.writable_outside = seen.writable_outside
        /\ seen'.cleanup_failed_outside = seen.cleanup_failed_outside
    BY <1>0, <1>3, <2>4, <2>5
  <2>7. FilesystemTypes'
    BY <1>1, <1>3, <2>3, <2>6
  <2>8. ScanFits'
    BY <1>3, <2>3, <2>6 DEF ScanFits
  <2> QED  BY <2>7, <2>8
<1>4. CASE StatProcess
  <2>1. CASE todo' = todo \ {First(todo)} /\ UNCHANGED stage
             /\ skipped' = skipped \cup {p \in {First(todo)} : Another(p)}
    <3>1. todo \in SUBSET Nat /\ todo \subseteq Pids
      BY <1>4, FilesystemAssumption DEF StatProcess, ScanFits
    <3>2. First(todo) \in Pids
      BY <1>4, <3>1, FirstIsMember DEF StatProcess
    <3>3. skipped' \subseteq Pids
      BY <2>1, <3>2 DEF FilesystemTypes
    <3> QED  BY <1>3, <1>4, <2>1, <3>3 DEF StatProcess
  <2>2. CASE stage' = "open" /\ UNCHANGED <<todo, skipped>>
    BY <1>4, <2>2 DEF StatProcess, FilesystemTypes, ScanFits, table
  <2> QED  BY <1>4, <2>1, <2>2 DEF StatProcess
<1>5. CASE OpenEnviron
  <2>1. todo # {} /\ skipped' \subseteq Pids
    BY <1>5 DEF OpenEnviron, ScanFits, FilesystemTypes
  <2>2. CASE procs[First(todo)] \in {"own", "exposed"}
    <3>1. /\ seen'.foreign_environ_count = seen.foreign_environ_count + 1
          /\ seen'.writable_outside = seen.writable_outside
          /\ seen'.cleanup_failed_outside = seen.cleanup_failed_outside
      BY <1>0, <1>5, <2>2 DEF OpenEnviron
    <3> QED  BY <1>3, <1>5, <2>1, <3>1 DEF OpenEnviron
  <2>3. CASE procs[First(todo)] \notin {"own", "exposed"}
    BY <1>3, <1>5, <2>1, <2>3 DEF OpenEnviron
  <2> QED  BY <2>2, <2>3
<1>6. CASE LookForSockets
  <2>1. /\ seen'.foreign_environ_count = seen.foreign_environ_count
        /\ seen'.writable_outside = seen.writable_outside
        /\ seen'.cleanup_failed_outside = seen.cleanup_failed_outside
    BY <1>0, <1>6 DEF LookForSockets
  <2>2. /\ todo' = Writable /\ stage' = "write"
        /\ UNCHANGED <<open, fate, markers, skipped, table>>
    BY <1>6 DEF LookForSockets
  <2>3. FilesystemTypes'
    BY <1>1, <2>1, <2>2 DEF FilesystemTypes
  <2> QED  BY <2>2, <2>3 DEF ScanFits
<1>7. CASE WriteMarker \/ RemoveMarker
  <2>1. /\ UNCHANGED <<open, fate, skipped, table>> /\ stage \in {"write", "remove"}
        /\ stage' \in {"write", "remove", "reply"}
        /\ todo' \subseteq todo /\ markers' \subseteq markers \cup {Base}
        /\ \/ seen' = seen
           \/ \E wrote, removed \in BOOLEAN : RecordMarker(Base, wrote, removed)
    BY <1>7 DEF WriteMarker, RemoveMarker, NextBase
  <2>2. Base = Workspace \/ Base \in Writable
    <3>1. todo \in SUBSET Nat /\ todo \subseteq Writable
      BY <2>1, FilesystemAssumption DEF FilesystemInv
    <3> QED  BY <3>1, FirstIsMember DEF Base
  <2>3. ASSUME NEW p, p = Workspace \/ p \in Writable,
               NEW wrote \in BOOLEAN, NEW removed \in BOOLEAN, RecordMarker(p, wrote, removed)
        PROVE  /\ seen'.foreign_environ_count = seen.foreign_environ_count
               /\ seen'.writable_outside \subseteq Writable
               /\ seen'.cleanup_failed_outside \subseteq seen'.writable_outside
    <3>1. CASE p = Workspace
      BY <1>0, <2>3, <3>1 DEF RecordMarker, FilesystemTypes
    <3>2. CASE p # Workspace
      <4>1. /\ seen'.foreign_environ_count = seen.foreign_environ_count
            /\ seen'.writable_outside = seen.writable_outside \cup {q \in {p} : wrote}
            /\ seen'.cleanup_failed_outside =
                  seen.cleanup_failed_outside \cup {q \in {p} : wrote /\ ~removed}
        BY <1>0, <2>3, <3>2 DEF RecordMarker
      <4> QED  BY <2>3, <3>2, <4>1 DEF FilesystemTypes
    <3> QED  BY <3>1, <3>2
  <2>4. /\ seen'.foreign_environ_count = seen.foreign_environ_count
        /\ seen'.writable_outside \subseteq Writable
        /\ seen'.cleanup_failed_outside \subseteq seen'.writable_outside
    BY <2>1, <2>2, <2>3 DEF FilesystemTypes
  <2>5. markers' \subseteq Places
    BY <2>1, <2>2 DEF FilesystemTypes, Places
  <2>6. FilesystemTypes'
    BY <2>1, <2>4, <2>5 DEF FilesystemTypes, table
  <2> QED  BY <2>1, <2>6 DEF ScanFits
<1>8. CASE FilesystemAnswers \/ FilesystemLost
  BY <1>8 DEF FilesystemAnswers, FilesystemLost, filesystem, table, FilesystemTypes, ScanFits
<1>9. CASE ProcessChanges
  <2>1. PICK p \in Pids, h \in Holders :
            /\ procs' = [procs EXCEPT ![p] = h]
            /\ churned' = churned \cup {p}
            /\ everOpen' = everOpen \cup {q \in {p} : h = "exposed"}
            /\ foreign' = foreign \cup {q \in {p} : h \in {"closed", "exposed"}}
            /\ crossed' = crossed \cup {q \in foreign \cap {p} : h = "own"}
    BY <1>9 DEF ProcessChanges
  <2>2. UNCHANGED <<stage, open, fate, todo, seen, markers, skipped>>
    BY <1>9 DEF ProcessChanges, exec
  <2>3. everOpen' \cup crossed' \subseteq foreign' /\ foreign' \cup churned' \subseteq Pids
    BY <2>1 DEF FilesystemTypes
  <2>4. procs' \in [Pids -> Holders]
    BY <2>1 DEF FilesystemTypes
  <2> QED  BY <2>2, <2>3, <2>4 DEF FilesystemTypes, ScanFits
<1> QED  BY <1>2, <1>4, <1>5, <1>6, <1>7, <1>8, <1>9 DEF FilesystemNext

(* The state of the three probes is well typed: no scan counts more than   *)
(* its limit, no answer is one the payload does not know, whatever the     *)
(* environment, and a probe that is not asked keeps out of it.             *)
THEOREM OneExecTypeCorrect == Spec => []TypeOK
<1>1. Init => Types
  <2> SUFFICES ASSUME Init
               PROVE  Types
    OBVIOUS
  <2>1. ExecTypeOK
    BY DEF Init, CredentialsInit, FilesystemInit, NetworkInit, JustAsked, NoOutcome, ExecTypeOK
  <2>2. CredentialsTypes
    BY OneExecAssumption DEF Init, CredentialsInit, CredentialsIdle, CredentialsTypes,
       NothingFound, ImdsStates
  <2>3. config \in ConfigFiles /\ net \in Networks
    BY OneExecAssumption DEF Init, NetworkInit, NetworkIdle
  <2>4. changes = 0 /\ slow = {} /\ got = Falsy
    BY DEF Init, NetworkInit, NetworkIdle
  <2>5. NetworkTypes
    <3>1. changes \in 0..MaxChanges
      BY <2>4, NetworkAssumption
    <3>2. /\ got.blocked_endpoint = "" /\ got.blocked_host = "" /\ got.dns_canary = ""
          /\ DOMAIN got.c2 = {} /\ got.control_reachable = FALSE
      BY <2>4 DEF Falsy, NoAnswers
    <3> QED  BY <2>3, <2>4, <3>1, <3>2 DEF NetworkTypes, Statuses
  <2>6. /\ todo = {} /\ seen = NothingSeen /\ markers = {} /\ crossed = {} /\ churned = {}
        /\ skipped = {} /\ everOpen \subseteq foreign /\ foreign \subseteq Pids
    BY DEF Init, FilesystemInit, FilesystemIdle
  <2>7. /\ open \subseteq Readable \cup Listed \cup Sockets
        /\ fate \in [Places -> Fates] /\ procs \in [Pids -> Holders]
    BY FilesystemAssumption
    DEF Init, FilesystemInit, FilesystemIdle, WorldType, Fates, Holders
  <2>8. FilesystemTypes
    BY <2>6, <2>7, FilesystemAssumption DEF FilesystemTypes, NothingSeen
  <2>9. probe = "filesystem" => ScanFits
    <3>1. probe = "filesystem" => stage = "paths"
      BY DEF Init, CredentialsInit, FilesystemInit, NetworkInit, JustAsked
    <3> QED  BY <2>6, <3>1 DEF ScanFits, NothingSeen
  <2> QED  BY <2>1, <2>2, <2>5, <2>8, <2>9 DEF Types
<1>2. IInv /\ IInv' /\ Types /\ [Next]_all => Types'
  <2> SUFFICES ASSUME IInv, IInv', Types, [Next]_all
               PROVE  Types'
    OBVIOUS
  <2>1. ExecTypeOK' /\ probe' = probe
    BY VerdictTypes, ProbeStays DEF Types
  <2>2. UNCHANGED credentials => CredentialsTypes'
    BY DEF credentials, Types, CredentialsTypes
  <2>3. UNCHANGED filesystem => FilesystemTypes'
    BY DEF filesystem, table, Types, FilesystemTypes
  <2>4. UNCHANGED network => NetworkTypes'
    BY DEF network, Types, NetworkTypes
  <2>5. CASE probe = "credentials" /\ CredentialsNext /\ UNCHANGED <<filesystem, network>>
    <3>1. CredentialsTypes'
      BY <2>5, CredentialsTypesStep DEF IInv, Types
    <3> QED  BY <2>1, <2>3, <2>4, <2>5, <3>1 DEF Types
  <2>6. CASE probe = "filesystem" /\ FilesystemNext /\ UNCHANGED <<credentials, network>>
    <3>1. FilesystemTypes' /\ ScanFits'
      BY <2>6, FilesystemTypesStep DEF IInv, Types
    <3> QED  BY <2>1, <2>2, <2>4, <2>6, <3>1 DEF Types
  <2>7. CASE probe = "network" /\ NetworkNext /\ UNCHANGED <<credentials, filesystem>>
    <3>1. NetworkTypes'
      BY <2>7, NetworkTypesStep DEF IInv, Types
    <3> QED  BY <2>1, <2>2, <2>3, <2>7, <3>1 DEF Types
  <2>8. CASE UNCHANGED all
    <3>1. (probe = "filesystem" => ScanFits)'
      BY <2>8 DEF all, exec, filesystem, Types, ScanFits
    <3> QED  BY <2>1, <2>2, <2>3, <2>4, <2>8, <3>1 DEF Types, all
  <2> QED  BY <2>5, <2>6, <2>7, <2>8 DEF Next
<1>3. IInv /\ Types => TypeOK
  <2> SUFFICES ASSUME IInv, Types
               PROVE  TypeOK
    OBVIOUS
  <2>1. CredentialsTypeOK
    BY DEF IInv, CredentialsInv, Types, CredentialsTypes, CredentialsTypeOK
  <2>2. FilesystemTypeOK
    BY DEF IInv, FilesystemInv, Types, FilesystemTypes, FilesystemTypeOK
  <2>3. NetworkTypeOK
    BY DEF IInv, NetworkInv, Types, NetworkTypes, NetworkTypeOK
  <2> QED  BY <2>1, <2>2, <2>3 DEF TypeOK, IInv
<1> QED  BY <1>1, <1>2, <1>3, Invariance, PTL DEF Spec

-----------------------------------------------------------------------------
(* ---- what a whole answer of the filesystem probe says ---- *)

(* What a place keeps when the payload is through with it.                 *)
Keeps(p) == fate[p] \in {"full", "sticky"}

(* The dict, once it is complete, and what then lies in the sandbox.       *)
SeenAll ==
    /\ seen.readable_outside = open \cap Readable
    /\ seen.listed_outside = open \cap Listed
    /\ seen.runtime_sockets = open \cap Sockets
    /\ seen.writable_outside = {p \in Writable : Writes(p)}
    /\ seen.workspace_writable = Writes(Workspace)
    /\ markers = {p \in Places : Keeps(p)}

(* Of the places the payload is through with, it noted those it wrote in.  *)
ExactInv ==
    /\ stage \in {"paths", "stat", "open"} => seen.writable_outside = {} /\ markers = {}
    /\ stage \in {"write", "remove"} => seen.writable_outside = {p \in Writable \ todo : Writes(p)}
    /\ stage = "write" => markers = {p \in Writable \ todo : Keeps(p)}
    /\ stage = "remove" => /\ markers = {p \in Writable \ todo : Keeps(p)} \cup {Base}
                           /\ Writes(Base)
    /\ stage = "reply" => SeenAll
    /\ stage = "done" /\ garbled = "no" =>
          /\ SeenAll
          /\ outcome = [findings |-> FilesystemFindings(seen), errors |-> CleanupErrors(seen),
                        control |-> WorkspaceControl(seen)]

(* Each step of the filesystem probe keeps that.                           *)
LEMMA ExactStep ==
    ASSUME FilesystemInv, ExactInv, FilesystemNext
    PROVE  ExactInv'
<1>0. /\ DOMAIN seen = {"readable_outside", "listed_outside", "writable_outside",
                        "cleanup_failed_outside", "foreign_environ_count",
                        "foreign_environ_uids", "runtime_sockets", "workspace_writable",
                        "workspace_cleanup_failed"}
      /\ fate \in [Places -> Fates]
  BY DEF FilesystemInv, NothingSeen
<1>1. ASSUME UNCHANGED markers, stage \in {"paths", "stat", "open"},
             stage' \in {"paths", "stat", "open"},
             seen'.writable_outside = seen.writable_outside
      PROVE  ExactInv'
  BY <1>1 DEF ExactInv
<1>2. CASE LookAtPaths
  BY <1>0, <1>1, <1>2 DEF LookAtPaths
<1>3. CASE StatProcess
  BY <1>0, <1>1, <1>3 DEF StatProcess
<1>4. CASE OpenEnviron
  <2>1. CASE procs[First(todo)] \in {"own", "exposed"}
    BY <1>0, <1>1, <1>4, <2>1 DEF OpenEnviron
  <2>2. CASE procs[First(todo)] \notin {"own", "exposed"}
    BY <1>0, <1>1, <1>4, <2>2 DEF OpenEnviron
  <2> QED  BY <2>1, <2>2
<1>5. CASE LookForSockets
  BY <1>0, <1>5 DEF LookForSockets, ExactInv
<1>6. CASE WriteMarker \/ RemoveMarker
  <2>1. UNCHANGED <<garbled, outcome, open, fate>> /\ stage \in {"write", "remove"}
    BY <1>6 DEF WriteMarker, RemoveMarker
  <2>2. Workspace \notin Writable /\ todo \in SUBSET Nat /\ todo \subseteq Writable
    BY <2>1, FilesystemAssumption DEF FilesystemInv
  <2>3. /\ Base = Workspace => todo = {}
        /\ Base # Workspace => Base \in todo /\ Base \in Writable
    BY <2>2, FirstIsMember DEF Base
  <2>4. Base \in Places /\ fate[Base] \in Fates
    BY <1>0, <2>3 DEF Places
  <2>5. \A p : (Writes(p)' <=> Writes(p)) /\ (Keeps(p)' <=> Keeps(p))
    BY <2>1 DEF Writes, Keeps
  <2>6. CASE WriteMarker /\ fate[Base] \notin {"denied", "full"}
    <3>1. /\ markers' = markers \cup {Base} /\ stage' = "remove" /\ stage = "write"
          /\ UNCHANGED <<todo, seen>> /\ Base' = Base /\ Writes(Base)
      BY <2>4, <2>6 DEF WriteMarker, Base, Writes, Fates
    <3>2. Writes(Base)'
      BY <2>1, <3>1 DEF Writes
    <3> QED  BY <2>5, <3>1, <3>2 DEF ExactInv
  <2>7. ASSUME NEW removed \in BOOLEAN, RecordMarker(Base, Writes(Base), removed), NextBase,
               markers' = {p \in Writable \ todo : Keeps(p)} \cup {q \in {Base} : Keeps(Base)}
        PROVE  ExactInv'
    <3>1. seen.writable_outside = {p \in Writable \ todo : Writes(p)}
      BY <2>1 DEF ExactInv
    <3>2. /\ seen'.readable_outside = seen.readable_outside
          /\ seen'.listed_outside = seen.listed_outside
          /\ seen'.runtime_sockets = seen.runtime_sockets
      <4>1. CASE Base = Workspace
        BY <1>0, <2>7, <4>1 DEF RecordMarker
      <4>2. CASE Base # Workspace
        BY <1>0, <2>7, <4>2 DEF RecordMarker
      <4> QED  BY <4>1, <4>2
    <3>3. CASE Base = Workspace
      <4>1. stage' = "reply" /\ todo = {}
        BY <2>3, <2>7, <3>3 DEF NextBase
      <4>2. /\ seen'.writable_outside = seen.writable_outside
            /\ seen'.workspace_writable = Writes(Workspace)
        BY <1>0, <2>7, <3>3 DEF RecordMarker
      <4>3. markers' = {p \in Places : Keeps(p)}
        BY <2>7, <3>3, <4>1 DEF Places
      <4>4. /\ seen.readable_outside = open \cap Readable
            /\ seen.listed_outside = open \cap Listed
            /\ seen.runtime_sockets = open \cap Sockets
        BY <2>1 DEF FilesystemInv
      <4>5. markers' = {p \in Places : Keeps(p)'}
        BY <2>5, <4>3
      <4>6. seen'.writable_outside = {p \in Writable : Writes(p)'}
        BY <2>5, <3>1, <4>1, <4>2
      <4>7. Writes(Workspace)' = Writes(Workspace)
        BY <2>1 DEF Writes
      <4>8. SeenAll'
        BY <2>1, <3>2, <4>2, <4>4, <4>5, <4>6, <4>7 DEF SeenAll
      <4> QED  BY <4>1, <4>8 DEF ExactInv
    <3>4. CASE Base # Workspace
      <4>1. seen'.writable_outside = seen.writable_outside \cup {q \in {Base} : Writes(Base)}
        BY <1>0, <2>7, <3>4 DEF RecordMarker
      <4>2. stage' = "write" /\ todo' = todo \ {Base}
        BY <2>7, <3>4 DEF NextBase
      <4>3. Base \in todo /\ Base \in Writable
        BY <2>3, <3>4
      <4>4. seen'.writable_outside = {p \in Writable \ todo' : Writes(p)'}
        BY <2>5, <3>1, <4>1, <4>2, <4>3
      <4>5. markers' = {p \in Writable \ todo' : Keeps(p)'}
        BY <2>5, <2>7, <4>2, <4>3
      <4> QED  BY <4>2, <4>4, <4>5 DEF ExactInv
    <3> QED  BY <3>3, <3>4
  <2>8. CASE WriteMarker /\ fate[Base] \in {"denied", "full"}
    <3>1. RecordMarker(Base, FALSE, FALSE) /\ NextBase /\ stage = "write"
      BY <2>8 DEF WriteMarker
    <3>2. Writes(Base) = FALSE
      BY <2>8 DEF Writes
    <3>3. markers' = {p \in Writable \ todo : Keeps(p)} \cup {q \in {Base} : Keeps(Base)}
      BY <2>8, <3>1 DEF WriteMarker, ExactInv, Keeps
    <3> QED  BY <2>7, <3>1, <3>2, <3>3
  <2>9. CASE RemoveMarker
    <3>1. RecordMarker(Base, TRUE, fate[Base] = "fine") /\ NextBase /\ stage = "remove"
      BY <2>9 DEF RemoveMarker
    <3>2. Writes(Base) = TRUE /\ (fate[Base] = "fine") \in BOOLEAN
      BY <3>1 DEF ExactInv, Writes
    <3>3. markers = {p \in Writable \ todo : Keeps(p)} \cup {Base}
      BY <3>1 DEF ExactInv
    <3>4. Base \notin Writable \ todo
      BY <2>2, <2>3
    <3>5. markers' = IF fate[Base] = "fine" THEN markers \ {Base} ELSE markers
      BY <2>9 DEF RemoveMarker
    <3>6. Keeps(Base) <=> fate[Base] # "fine"
      BY <3>2 DEF Keeps, Writes
    <3>7. markers' = {p \in Writable \ todo : Keeps(p)} \cup {q \in {Base} : Keeps(Base)}
      BY <3>3, <3>4, <3>5, <3>6
    <3> QED  BY <2>7, <3>1, <3>2, <3>7
  <2> QED  BY <1>6, <2>6, <2>8, <2>9
<1>7. CASE FilesystemAnswers
  <2>1. garbled' = "no" =>
            outcome' = [findings |-> FilesystemFindings(seen), errors |-> CleanupErrors(seen),
                        control |-> WorkspaceControl(seen)]
    BY <1>7, FilesystemIsJudged
  <2>2. /\ UNCHANGED <<open, fate, markers, seen>> /\ stage = "reply" /\ stage' = "done"
        /\ FilesystemFindings(seen)' = FilesystemFindings(seen)
        /\ CleanupErrors(seen)' = CleanupErrors(seen)
        /\ WorkspaceControl(seen)' = WorkspaceControl(seen)
    BY <1>7 DEF FilesystemAnswers, filesystem, FilesystemFindings, CleanupErrors, WorkspaceControl
  <2>3. SeenAll' <=> SeenAll
    BY <2>2 DEF SeenAll, Writes, Keeps
  <2> QED  BY <2>1, <2>2, <2>3 DEF ExactInv
<1>8. CASE FilesystemLost
  BY <1>8 DEF FilesystemLost, filesystem, ExactInv
<1>9. CASE ProcessChanges
  BY <1>9 DEF ProcessChanges, ExactInv, exec
<1> QED  BY <1>2, <1>3, <1>4, <1>5, <1>6, <1>7, <1>8, <1>9 DEF FilesystemNext

(* filesystem.py: in a whole answer each candidate path is reported exactly*)
(* if the sandbox could read, list, see or write it, and the workspace     *)
(* exactly if it could not be written.                                     *)
ReportIsExact ==
    Returned("filesystem") /\ garbled = "no" =>
        /\ \A p : /\ Finding("outside_workspace", p) \in outcome.findings
                        <=> p \in open \cap Readable \/ (p \in Writable /\ Writes(p))
                  /\ Finding("host_mount", p) \in outcome.findings <=> p \in open \cap Listed
                  /\ Finding("runtime_socket", p) \in outcome.findings <=> p \in open \cap Sockets
        /\ Finding("workspace_missing", Workspace) \in outcome.findings <=> ~Writes(Workspace)
        /\ outcome.control = "held" <=> Writes(Workspace)

(* StrayMarkerIsReported of the run filesystem_marker, as far as it holds: *)
(* a marker that lies in a system directory is told of if it could not be  *)
(* removed, and one that an open left whose write failed only if the place *)
(* is reported anyway, as one that can be read.                            *)
StrayMarkers ==
    Returned("filesystem") /\ garbled = "no" =>
        \A p \in markers \cap Writable :
            /\ fate[p] \in {"full", "sticky"}
            /\ Error("cleanup", p) \in outcome.errors <=> fate[p] = "sticky"
            /\ Finding("outside_workspace", p) \in outcome.findings
                  <=> fate[p] = "sticky" \/ p \in open \cap Readable

(* What a complete dict says is what the report says.                      *)
LEMMA SeenIsReported ==
    ASSUME SeenAll, fate \in [Places -> Fates],
           outcome = [findings |-> FilesystemFindings(seen), errors |-> CleanupErrors(seen),
                      control |-> WorkspaceControl(seen)]
    PROVE  /\ \A p : /\ Finding("outside_workspace", p) \in outcome.findings
                           <=> p \in open \cap Readable \/ (p \in Writable /\ Writes(p))
                     /\ Finding("host_mount", p) \in outcome.findings <=> p \in open \cap Listed
                     /\ Finding("runtime_socket", p) \in outcome.findings
                           <=> p \in open \cap Sockets
           /\ Finding("workspace_missing", Workspace) \in outcome.findings <=> ~Writes(Workspace)
           /\ outcome.control = "held" <=> Writes(Workspace)
<1>1. /\ outcome.findings = FilesystemFindings(seen)
      /\ outcome.control = WorkspaceControl(seen)
  OBVIOUS
<1>2. ASSUME NEW r, NEW S, NEW T, NEW rule, NEW p
      PROVE  Finding(rule, p) \in Confirmed(r, S, T) <=> rule = r /\ p \in S \cap T
  BY DEF Confirmed, Finding
<1>3. \A rule, p : Finding(rule, p) \in {Finding("proc_environ", n) :
                          n \in {seen.foreign_environ_count} \ {0}} => rule = "proc_environ"
  BY DEF Finding
<1>4. \A rule, p : Finding(rule, p) \in {f \in {Finding("workspace_missing", Workspace)} :
                                           ~seen.workspace_writable}
                     <=> /\ rule = "workspace_missing" /\ p = Workspace
                         /\ ~seen.workspace_writable
  BY DEF Finding
<1>5. ASSUME NEW p
      PROVE  /\ Finding("outside_workspace", p) \in outcome.findings
                   <=> p \in seen.readable_outside \cap Readable
                       \/ p \in seen.writable_outside \cap Writable
             /\ Finding("host_mount", p) \in outcome.findings
                   <=> p \in seen.listed_outside \cap Listed
             /\ Finding("runtime_socket", p) \in outcome.findings
                   <=> p \in seen.runtime_sockets \cap Sockets
             /\ Finding("workspace_missing", Workspace) \in outcome.findings
                   <=> ~seen.workspace_writable
  BY <1>1, <1>2, <1>3, <1>4 DEF FilesystemFindings
<1>6. outcome.control = "held" <=> seen.workspace_writable
  BY <1>1 DEF WorkspaceControl
<1> QED  BY <1>5, <1>6 DEF SeenAll

(* The exact part of the invariant holds in every reachable state.         *)
LEMMA ExactHolds == Spec => [](IInv /\ (probe = "filesystem" => ExactInv /\ MarkerInv))
<1> DEFINE Inv == probe = "filesystem" => ExactInv /\ MarkerInv
<1>1. Init => Inv
  <2> SUFFICES ASSUME Init, probe = "filesystem"
               PROVE  ExactInv /\ MarkerInv
    OBVIOUS
  <2>1. FilesystemInit
    BY DEF Init, CredentialsInit, NetworkInit, JustAsked
  <2>2. ExactInv
    BY <2>1 DEF FilesystemInit, JustAsked, ExactInv, NothingSeen
  <2>3. MarkerInv
    BY <2>1 DEF FilesystemInit, JustAsked, MarkerInv, RemovalsNoted, Stuck, NothingSeen
  <2> QED  BY <2>2, <2>3
<1>2. IInv /\ Inv /\ [Next]_all => Inv'
  <2> SUFFICES ASSUME IInv, Inv, [Next]_all, probe' = "filesystem"
               PROVE  (ExactInv /\ MarkerInv)'
    OBVIOUS
  <2>1. CASE probe = "filesystem" /\ FilesystemNext
    BY <2>1, ExactStep, MarkerStep DEF IInv
  <2>2. CASE UNCHANGED all
    <3>1. ExactInv'
      BY <2>2, ProbeStays DEF all, exec, filesystem, ExactInv, SeenAll, Writes, Keeps, Base,
                  FilesystemFindings, CleanupErrors, WorkspaceControl
    <3>2. MarkerInv'
      BY <2>2, ProbeStays DEF all, exec, filesystem, MarkerInv, RemovalsNoted, Stuck, Base,
                  FilesystemFindings, CleanupErrors
    <3> QED  BY <3>1, <3>2
  <2>3. probe' = probe
    BY ProbeStays
  <2> QED  BY <2>1, <2>2, <2>3 DEF Next
<1> QED  BY <1>1, <1>2, Invariance, PTL DEF Spec

(* filesystem.py: the report of the filesystem probe neither misses nor    *)
(* invents a path, whatever the candidates, their overlaps and the sandbox.*)
THEOREM ReportTheorem == Spec => []ReportIsExact
<1>1. IInv /\ (probe = "filesystem" => ExactInv /\ MarkerInv) => ReportIsExact
  <2> SUFFICES ASSUME IInv, ExactInv, Returned("filesystem"), garbled = "no"
               PROVE  ReportIsExact
    BY DEF ReportIsExact, Returned
  <2> QED  BY SeenIsReported DEF ExactInv, ReportIsExact, Returned, IInv, FilesystemInv
<1> QED  BY <1>1, ExactHolds, PTL

(* filesystem.py:35-40: which of the markers that stay are told of.        *)
THEOREM StrayMarkersTheorem == Spec => []StrayMarkers
<1>1. IInv /\ (probe = "filesystem" => ExactInv /\ MarkerInv) => StrayMarkers
  <2> SUFFICES ASSUME IInv, ExactInv, MarkerInv, Returned("filesystem"), garbled = "no",
                      NEW p \in markers \cap Writable
               PROVE  /\ fate[p] \in {"full", "sticky"}
                      /\ Error("cleanup", p) \in outcome.errors <=> fate[p] = "sticky"
                      /\ Finding("outside_workspace", p) \in outcome.findings
                            <=> fate[p] = "sticky" \/ p \in open \cap Readable
    BY DEF StrayMarkers, Returned
  <2>1. /\ SeenAll /\ RemovalsNoted /\ fate \in [Places -> Fates] /\ stage = "done"
        /\ outcome = [findings |-> FilesystemFindings(seen), errors |-> CleanupErrors(seen),
                      control |-> WorkspaceControl(seen)]
    BY DEF ExactInv, MarkerInv, Returned, IInv, FilesystemInv
  <2>2. fate[p] \in {"full", "sticky"}
    BY <2>1 DEF SeenAll, Keeps
  <2>3. p \in seen.cleanup_failed_outside <=> fate[p] = "sticky"
    BY <2>1 DEF RemovalsNoted, Stuck
  <2>4. p # Workspace
    BY FilesystemAssumption
  <2>5. Error("cleanup", p) \in outcome.errors <=> p \in seen.cleanup_failed_outside
    BY <2>1, <2>4 DEF CleanupErrors, Error
  <2>6. Writes(p) <=> fate[p] = "sticky"
    BY <2>2 DEF Writes
  <2> QED  BY <2>1, <2>2, <2>3, <2>5, <2>6, SeenIsReported
<1> QED  BY <1>1, ExactHolds, PTL

-----------------------------------------------------------------------------
(* ---- which of the configured c2 hosts were tried ---- *)

(* ConfiguredHostIsTried of the run network_typo, as far as it holds: an   *)
(* entry of c2_hosts is answered for exactly if it is a single name.  One  *)
(* with a comma in it, or an empty one, is not, whatever the network.      *)
PlainIsTried ==
    Returned("network") /\ garbled = "no" =>
        \A i \in DOMAIN config.c2 :
            /\ Reported(got.c2, i) # "none" <=> Plain(i)
            /\ i \in ConfirmedC2(got.c2) => Plain(i)

(* network.py: which entries of c2_hosts the verdict is about.             *)
THEOREM PlainTheorem == Spec => []PlainIsTried
<1>1. IInv /\ TypeOK => PlainIsTried
  <2> SUFFICES ASSUME IInv, TypeOK, Returned("network"), garbled = "no",
                      NEW i \in DOMAIN config.c2
               PROVE  /\ Reported(got.c2, i) # "none" <=> Plain(i)
                      /\ i \in ConfirmedC2(got.c2) => Plain(i)
    BY DEF PlainIsTried
  <2>1. /\ config \in ConfigFiles /\ config.file = "object"
        /\ C2ToTry \subseteq DOMAIN got.c2
    BY DEF IInv, NetworkInv, Returned
  <2>2. \A name \in DOMAIN got.c2 : got.c2[name] # "none"
    BY DEF TypeOK, NetworkTypeOK, Statuses
  <2>3. Plain(i) => Entry(i)[1] \in DOMAIN got.c2
    BY <2>1, C2Entries
  <2> QED  BY <2>2, <2>3 DEF Reported, Plain, ConfirmedC2
<1> QED  BY <1>1, Invariance, OneExecTypeCorrect, PTL

-----------------------------------------------------------------------------
(* ---- what a whole answer of the credentials probe says ---- *)

(* What the payload found of files and of the metadata service, from when  *)
(* it looked to when the report is made.                                   *)
FoundInv ==
    /\ found.imds = "token_obtained" => imds = "answers"
    /\ found.imds = "token_blocked" => imds # "absent"
    /\ stage = "done" /\ garbled = "no" =>
          /\ found.readable_paths = files
          /\ found.imds = "unreachable" => imds = "absent" \/ tooLate

(* credentials.py, the findings: a file is reported exactly if it could be *)
(* read; the metadata service is never made up, nor a token of it; and it  *)
(* is missed only if its answer came too late.                             *)
FindingsAreFound ==
    Returned("credentials") /\ garbled = "no" =>
        /\ \A p : Finding("credential_file", p) \in outcome.findings <=> p \in files
        /\ Finding("imds_reachable", 0) \in outcome.findings => imds # "absent"
        /\ Finding("imds_hop_limit", 0) \in outcome.findings => imds = "answers"
        /\ Finding("imds_hop_limit", 0) \in outcome.findings
              => Finding("imds_reachable", 0) \in outcome.findings
        /\ imds # "absent" /\ ~tooLate => Finding("imds_reachable", 0) \in outcome.findings

(* Each step of the credentials probe keeps that.                          *)
LEMMA FoundStep ==
    ASSUME CredentialsInv, FoundInv, CredentialsNext
    PROVE  FoundInv'
<1>0. DOMAIN found = {"env_secrets", "readable_paths", "imds"}
  BY DEF CredentialsInv, NothingFound
<1>1. CASE LookAtEnvironment
  BY <1>0, <1>1 DEF LookAtEnvironment, FoundInv
<1>2. CASE LookAtFiles
  BY <1>0, <1>2 DEF LookAtFiles, FoundInv
<1>3. CASE AskImds
  <2>1. PICK state \in ImdsStates : /\ state = "token_obtained" => imds = "answers"
                                    /\ state = "token_blocked" => imds # "absent"
                                    /\ found' = [found EXCEPT !.imds = state]
    BY <1>3 DEF AskImds
  <2>2. found'.imds = state
    BY <1>0, <2>1
  <2> QED  BY <1>3, <2>1, <2>2 DEF AskImds, FoundInv
<1>4. CASE CredentialsAnswers
  BY <1>4 DEF CredentialsAnswers, credentials, CredentialsInv, FoundInv
<1>5. CASE CredentialsLost
  BY <1>5 DEF CredentialsLost, credentials, FoundInv
<1> QED  BY <1>1, <1>2, <1>3, <1>4, <1>5 DEF CredentialsNext

(* credentials.py: what is reported of files and of the metadata service is*)
(* what there was, whatever the environment and the list of secrets.       *)
THEOREM FindingsAreFoundTheorem == Spec => []FindingsAreFound
<1> DEFINE Inv == probe = "credentials" => FoundInv
<1>1. Init => Inv
  <2> SUFFICES ASSUME Init, probe = "credentials"
               PROVE  FoundInv
    OBVIOUS
  <2>1. CredentialsInit
    BY DEF Init, FilesystemInit, NetworkInit, JustAsked
  <2> QED  BY <2>1 DEF CredentialsInit, JustAsked, FoundInv, NothingFound
<1>2. IInv /\ Inv /\ [Next]_all => Inv'
  <2> SUFFICES ASSUME IInv, Inv, [Next]_all, probe' = "credentials"
               PROVE  FoundInv'
    OBVIOUS
  <2>1. CASE probe = "credentials" /\ CredentialsNext
    BY <2>1, FoundStep DEF IInv
  <2>2. CASE UNCHANGED all
    BY <2>2, ProbeStays DEF all, exec, credentials, FoundInv
  <2>3. probe' = probe
    BY ProbeStays
  <2> QED  BY <2>1, <2>2, <2>3 DEF Next
<1>3. IInv /\ Inv => FindingsAreFound
  <2> SUFFICES ASSUME CredentialsInv, FoundInv, Returned("credentials"), garbled = "no"
               PROVE  FindingsAreFound
    BY DEF FindingsAreFound, Returned, IInv
  <2>1. /\ outcome.findings = CredentialsFindings(found) /\ found.readable_paths = files
        /\ files \subseteq CredentialPaths /\ found.imds \in ImdsStates
        /\ found.imds = "unreachable" => imds = "absent" \/ tooLate
    BY DEF CredentialsInv, FoundInv, Returned
  <2>2. \A rule, p : rule # "env_secret" => Finding(rule, p) \notin
                         ListFindings("env_secret", found.env_secrets)
    BY DEF ListFindings, Finding, Overflow
  <2>3. \A p : Finding("credential_file", p) \in outcome.findings <=> p \in files
    BY <2>1, <2>2 DEF CredentialsFindings, Finding
  <2>4. Finding("imds_reachable", 0) \in outcome.findings
            <=> found.imds \in {"token_blocked", "token_obtained"}
    BY <2>1, <2>2 DEF CredentialsFindings, Finding
  <2>5. Finding("imds_hop_limit", 0) \in outcome.findings <=> found.imds = "token_obtained"
    BY <2>1, <2>2 DEF CredentialsFindings, Finding
  <2> QED  BY <2>1, <2>3, <2>4, <2>5 DEF FindingsAreFound, FoundInv, ImdsStates
<1> QED  BY <1>1, <1>2, <1>3, Invariance, PTL DEF Spec
=============================================================================
