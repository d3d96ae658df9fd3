-------------------------------- MODULE OneExec --------------------------------
(***************************************************************************)
(* The three probes whose evidence is a single exec in the sandbox, as     *)
(* run_all meets them: one of them is asked, its payload runs, and an      *)
(* answer comes back, or the probe raises (runner.py).  They share the     *)
(* protocol of InnerResult, and they keep one promise.                     *)
(***************************************************************************)
EXTENDS Credentials, Filesystem, Network

(* There is something a probe that is not asked would look at.             *)
ASSUME OneExecAssumption == <<>> \in Environments /\ ConfigFiles # {} /\ Networks # {}

all == <<exec, credentials, filesystem, network>>

(* What a probe that is not asked would look at.                           *)
CredentialsIdle ==
    /\ env = <<>> /\ files = {} /\ imds = "absent" /\ found = NothingFound /\ tooLate = FALSE
FilesystemIdle ==
    /\ open = {} /\ fate = [p \in Places |-> "denied"]
    /\ procs = [p \in Pids |-> "free"] /\ foreign = {} /\ everOpen = {} /\ crossed = {}
    /\ churned = {}
    /\ todo = {} /\ seen = NothingSeen /\ markers = {} /\ skipped = {}
NetworkIdle ==
    /\ config = CHOOSE c \in ConfigFiles : TRUE
    /\ net = CHOOSE n \in Networks : TRUE
    /\ changes = 0 /\ got = Falsy /\ slow = {}

Init ==
    \/ CredentialsInit /\ FilesystemIdle /\ NetworkIdle
    \/ FilesystemInit /\ CredentialsIdle /\ NetworkIdle
    \/ NetworkInit /\ CredentialsIdle /\ FilesystemIdle

Next ==
    \/ probe = "credentials" /\ CredentialsNext /\ UNCHANGED <<filesystem, network>>
    \/ probe = "filesystem" /\ FilesystemNext /\ UNCHANGED <<credentials, network>>
    \/ probe = "network" /\ NetworkNext /\ UNCHANGED <<credentials, filesystem>>

Spec == Init /\ [][Next]_all

-----------------------------------------------------------------------------
TypeOK ==
    /\ CredentialsTypeOK /\ FilesystemTypeOK /\ NetworkTypeOK
    /\ probe \in {"credentials", "filesystem", "network"}

(* What was the case when the probe returned.                              *)
Truth ==
    IF garbled # "no" \/ stage = "raised" THEN "unmeasured"
    ELSE IF \/ probe = "credentials" /\ NothingToTake
            \/ probe = "filesystem" /\ Confined
            \/ probe = "network" /\ Contained
    THEN "holds" ELSE "broken"

(* What run_all records: run_all itself answers for a probe that raised.   *)
Recorded ==
    IF stage = "raised" THEN [findings |-> {}, errors |-> {"error"}, control |-> "failed"]
    ELSE [findings |-> {f \in {"finding"} : outcome.findings # {}},
          errors   |-> {e \in {"error"} : outcome.errors # {}},
          control  |-> outcome.control]

Answered ==
    IF stage \in {"done", "raised"}
    THEN [given |-> TRUE, truth |-> Truth, outcome |-> Recorded]
    ELSE [given |-> FALSE]

(* runner.py:20-31 and Harness: whichever probe is asked gives one answer, *)
(* and it is clean only if the invariant was measured and held, whatever   *)
(* became of the exec, of its output, and of the sandbox under the payload.*)
Promised == INSTANCE Promise WITH answer <- Answered
KeepsPromise == Promised!Spec
=============================================================================
