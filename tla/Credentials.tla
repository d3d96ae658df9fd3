------------------------------ MODULE Credentials ------------------------------
(***************************************************************************)
(* The credentials probe (probes/credentials.py): the payload looks at its *)
(* environment, at the places credential files lie in, and asks the cloud's*)
(* metadata service for a token; the names that come back, never the       *)
(* values, become findings.                                                *)
(***************************************************************************)
EXTENDS InnerResult

CONSTANTS Environments,    \* environments a sandbox can have
          CredentialPaths  \* _CREDENTIAL_PATHS, numbered

(* A variable, by what looks_secret tests in its name and in its value.    *)
Variables ==
    [reserved : BOOLEAN,    \* the name begins with PROBE_
     suggestive : BOOLEAN,  \* the name holds a word such as TOKEN
     prefixed : BOOLEAN,    \* the value begins like a known key
     long : BOOLEAN, entropic : BOOLEAN]

ASSUME CredentialsAssumption ==
    /\ \A e \in Environments : e \in Seq(Variables)
    /\ CredentialPaths \subseteq Nat

VARIABLES env,      \* the environment: a sequence in the order of the names
          files,    \* the credential files that can be opened
          imds,     \* what the metadata service does with a packet
          found,    \* the payload's result dict
          tooLate   \* history: its connection was there, and not in time

credentials == <<env, files, imds, found, tooLate>>

CREDENTIALS_SHAPE == [env_secrets |-> LIST, readable_paths |-> LIST, imds |-> TEXT]

NothingFound == [env_secrets |-> {}, readable_paths |-> {}, imds |-> "unreachable"]

CredentialsInit ==
    /\ env \in Environments
    /\ files \in SUBSET CredentialPaths
    /\ imds \in {"answers", "silent", "absent"}
    /\ found = NothingFound /\ tooLate = FALSE
    /\ JustAsked("credentials") /\ stage = "environment"

-----------------------------------------------------------------------------
(* Faulty variant of UndefinedState, to show that it is caught: any text   *)
(* will do.                                                                *)
AnyState(body) == FALSE

-----------------------------------------------------------------------------
LooksSecret(v) == v.prefixed \/ (v.long /\ v.suggestive /\ v.entropic)

Secrets == {i \in DOMAIN env : ~env[i].reserved /\ LooksSecret(env[i])}

ImdsStates == {"token_blocked", "token_obtained", "unreachable"}

UndefinedState(body) == body.value.imds \notin ImdsStates

(* CredentialsProbe.run, from stdout to the outcome.  The candidate paths  *)
(* are not capped; the names, which come from the sandbox, are.            *)
CredentialsFindings(value) ==
    ListFindings("env_secret", value.env_secrets)
      \cup {Finding("credential_file", p) : p \in value.readable_paths \cap CredentialPaths}
      \cup {f \in {Finding("imds_reachable", 0)} :
              value.imds \in {"token_blocked", "token_obtained"}}
      \cup {f \in {Finding("imds_hop_limit", 0)} : value.imds = "token_obtained"}

CredentialsVerdict(stdout) ==
    LET body == ParseInner(stdout)
    IN  IF body.kind # "object" THEN Unread("exec")
        ELSE IF ShapeProblems(body, CREDENTIALS_SHAPE) # {} \/ UndefinedState(body)
        THEN Unread("result")
        ELSE [findings |-> CredentialsFindings(body.value), errors |-> {}, control |-> "absent"]

-----------------------------------------------------------------------------
LookAtEnvironment ==
    /\ stage = "environment"
    /\ found' = [found EXCEPT !.env_secrets = Secrets]
    /\ stage' = "files"
    /\ UNCHANGED <<probe, garbled, outcome, env, files, imds, tooLate>>

LookAtFiles ==
    /\ stage = "files"
    /\ found' = [found EXCEPT !.readable_paths = files]
    /\ stage' = "imds"
    /\ UNCHANGED <<probe, garbled, outcome, env, files, imds, tooLate>>

(* imds_state: a connection, a request, an answer; whatever fails before   *)
(* the answer is awaited reads as unreachable, an answer that does not come*)
(* in time as blocked.                                                     *)
AskImds ==
    /\ stage = "imds"
    /\ \E state \in ImdsStates :
          /\ state = "token_obtained" => imds = "answers"
          /\ state = "token_blocked" => imds # "absent"
          /\ found' = [found EXCEPT !.imds = state]
          /\ tooLate' = (state = "unreachable" /\ imds # "absent")
    /\ stage' = "send"
    /\ UNCHANGED <<probe, garbled, outcome, env, files, imds>>

(* The result arrives whole or damaged, or with a status of its own.       *)
UndefinedImds ==
    {[b EXCEPT !.value.imds = "undefined"] : b \in {Whole(found, CREDENTIALS_SHAPE)}}

CredentialsAnswers ==
    /\ stage = "send"
    /\ \E body \in Bodies(found, CREDENTIALS_SHAPE, NothingFound) \cup UndefinedImds :
          /\ outcome' = CredentialsVerdict(Printout(body))
          /\ garbled' = IF body \in UndefinedImds THEN "status"
                        ELSE Damage(body, CREDENTIALS_SHAPE)
    /\ stage' = "done"
    /\ UNCHANGED <<probe, credentials>>

Searching == {"environment", "files", "imds", "send"}

CredentialsLost ==
    /\ stage \in Searching
    /\ outcome' = CredentialsVerdict(NoPrintout)
    /\ garbled' = "lost" /\ stage' = "done"
    /\ UNCHANGED <<probe, credentials>>

CredentialsNext ==
    LookAtEnvironment \/ LookAtFiles \/ AskImds \/ CredentialsAnswers \/ CredentialsLost

CredentialsSpec == CredentialsInit /\ [][CredentialsNext]_<<exec, credentials>>

-----------------------------------------------------------------------------
CredentialsTypeOK ==
    /\ ExecTypeOK
    /\ probe = "credentials" => stage \in Searching \cup {"done"}
    /\ env \in Environments
    /\ files \subseteq CredentialPaths
    /\ found.env_secrets \subseteq DOMAIN env
    /\ found.readable_paths \subseteq files
    /\ found.imds \in ImdsStates

(* A credential the probe knows the look of, wherever it is.               *)
NothingToTake ==
    /\ \A i \in DOMAIN env : ~env[i].reserved => ~LooksSecret(env[i])
    /\ files = {}
    /\ imds = "absent" \/ tooLate

(* README, invariant 2, and credentials.py:41-56: a clean result is never  *)
(* one in which the environment, the files or the metadata service were not*)
(* looked at.  The status that means the service is not there is also what *)
(* an answer nobody waited for leaves behind.                              *)
CleanMeansNoCredentials == Clean("credentials") => NothingToTake

(* evidence.py:183-189, credentials.py:238-254: "this report never reads   *)
(* shorter than what was measured".  Listed names and the count of those   *)
(* cut add up to the variables that hold a secret.                         *)
CountsAddUp ==
    Returned("credentials") /\ garbled = "no" =>
        LET told == {f \in outcome.findings : f.rule = "env_secret"}
            listed == {f.about : f \in {g \in told : g.more = 0}}
            cut == {f.more : f \in told} \ {0}
        IN  /\ listed \subseteq Secrets
            /\ IF listed = Secrets THEN cut = {} ELSE cut = {Cardinality(Secrets \ listed)}
=============================================================================
