-------------------------- MODULE AttributionProofs --------------------------
(***************************************************************************)
(* Theorems about the attribution probe, for logs of any length, any       *)
(* number of lines of earlier runs and of other clients, and a rotation at *)
(* any moment.                                                             *)
(***************************************************************************)
EXTENDS Attribution, SequenceTheorems, TLAPS

(* After a baseline that did not fail, the lines of earlier runs are those *)
(* it counted: a line added later is not theirs, and a rotation only moves *)
(* them towards the front.                                                 *)
StaleIsCounted ==
    baseline \in {"read", "missing"} =>
        \A i \in 1..Len(log) : log[i].src = "earlier" => i <= before

OthersAreSeen == ~crowded => \A i \in 1..Len(log) : log[i].src # "other"

OwnDecided(h) ==
    \E i \in 1..Len(log) : log[i].src = "own" /\ log[i].host = h /\ log[i].value = "decided"

Earned == Clean /\ baseline # "failed" /\ ~crowded => \A h \in Hosts : OwnDecided(h)

(* Where the probe stands, and what it knows by then.                      *)
Progress ==
    /\ ~exists => log = <<>>
    /\ pc \in {"crossing", "after"} => baseline # "none"
    /\ outcome.control = "held" => pc = "done"
    /\ pc = "start" => pending = {}

IInv == TypeOK /\ Progress /\ StaleIsCounted /\ OthersAreSeen /\ Earned

-----------------------------------------------------------------------------
(* What a line is.                                                         *)
LEMMA LineFields ==
    ASSUME NEW l \in RequestLines(Sources)
    PROVE  /\ l.src \in Sources
           /\ l.host \in Hosts => l.value \in {"decided", "none"}
  BY DEF RequestLines, Lines, Sources, Hosts

(* A line added at the end leaves the others where they are.               *)
LEMMA AppendLine ==
    ASSUME TypeOK, NEW l \in RequestLines(Sources), log' = Append(log, l)
    PROVE  /\ log' \in Seq(RequestLines(Sources))
           /\ Len(log') = Len(log) + 1
           /\ \A i \in 1..Len(log) : log'[i] = log[i]
           /\ log'[Len(log')] = l
  BY AppendProperties DEF TypeOK

(* What is left of the log after a rotation, and where it was.             *)
LEMMA RotatedLog ==
    ASSUME TypeOK, log' \in Rotations(log)
    PROVE  /\ log' \in Seq(RequestLines(Sources))
           /\ \E k \in Nat : \A i \in 1..Len(log') : i + k \in 1..Len(log) /\ log'[i] = log[i + k]
  <1>1. PICK m \in 2..Len(log) + 1 : log' = SubSeq(log, m, Len(log))
    BY DEF Rotations
  <1>2. log \in Seq(RequestLines(Sources)) /\ Len(log) \in Nat
    BY DEF TypeOK
  <1>3. m \in Int /\ Len(log) \in Int /\ \A i \in m..Len(log) : log[i] \in RequestLines(Sources)
    BY <1>1, <1>2, ElementOfSeq
  <1>4. /\ log' \in Seq(RequestLines(Sources))
        /\ Len(log') = IF m <= Len(log) THEN Len(log) - m + 1 ELSE 0
        /\ \A i \in 1..Len(log) - m + 1 : log'[i] = log[m + i - 1]
    BY <1>1, <1>3, SubSeqProperties
  <1>5. \A i \in 1..Len(log') : i + (m - 1) \in 1..Len(log) /\ log'[i] = log[i + (m - 1)]
    BY <1>1, <1>2, <1>4
  <1>6. \E k \in Nat : \A i \in 1..Len(log') : i + k \in 1..Len(log) /\ log'[i] = log[i + k]
    <2>1. m - 1 \in Nat
      BY <1>1, <1>2
    <2> QED BY <2>1, <1>5
  <1> QED BY <1>4, <1>6

(* The lines of the window, as lines of the log.                           *)
LEMMA WindowLines ==
    ASSUME TypeOK
    PROVE  \A i \in DOMAIN Window(log, before) :
             /\ i \in Nat \ {0}
             /\ before + i \in 1..Len(log)
             /\ Window(log, before)[i] = log[before + i]
             /\ log[before + i] \in RequestLines(Sources)
  <1>1. log \in Seq(RequestLines(Sources)) /\ Len(log) \in Nat /\ before \in Nat
    BY DEF TypeOK
  <1>2. \A i \in before + 1..Len(log) : log[i] \in RequestLines(Sources)
    BY <1>1, ElementOfSeq
  <1>3. /\ Window(log, before) \in Seq(RequestLines(Sources))
        /\ Len(Window(log, before)) = IF before + 1 <= Len(log) THEN Len(log) - before ELSE 0
        /\ \A i \in 1..Len(log) - before : Window(log, before)[i] = log[before + i]
    BY <1>1, <1>2, SubSeqProperties DEF Window
  <1> QED BY <1>1, <1>2, <1>3, LenProperties

-----------------------------------------------------------------------------
(* The initial states satisfy the inductive invariant.                    *)
LEMMA InitIInv == Init => IInv
  <1> SUFFICES ASSUME Init PROVE IInv
    OBVIOUS
  <1>1. PICK n \in 0..MaxEarlier : log \in [1..n -> RequestLines({"earlier"})]
    BY DEF Init, LogsUpTo
  <1>2. RequestLines({"earlier"}) \subseteq RequestLines(Sources)
    BY DEF RequestLines, Lines, Sources
  <1>3. log \in Seq(RequestLines(Sources)) /\ Len(log) = n /\ DOMAIN log = 1..n
    BY <1>1, <1>2, AttributionAssumption
  <1>4. \A i \in 1..Len(log) : log[i].src = "earlier"
    BY <1>1, <1>3 DEF RequestLines, Lines
  <1>5. PayloadTypeOK
    <2>1. Len(ProbeHosts) = 2
      BY DEF ProbeHosts
    <2>2. step = 1 /\ waiting = FALSE /\ pending = {} /\ answered = {}
      BY DEF Init, PayloadInit
    <2>3. step \in 1..Len(ProbeHosts) + 1
      BY <2>1, <2>2
    <2> QED BY <2>2, <2>3 DEF PayloadTypeOK
  <1>6. TypeOK
    BY <1>3, <1>5 DEF Init, TypeOK, NoOutcome
  <1>7. Progress /\ OthersAreSeen
    <2>1. Progress
      BY DEF Init, PayloadInit, Progress, NoOutcome
    <2> QED BY <2>1, <1>4 DEF OthersAreSeen
  <1>8. StaleIsCounted /\ Earned
    BY DEF Init, StaleIsCounted, Earned, Clean, NoOutcome
  <1> QED BY <1>6, <1>7, <1>8 DEF IInv

(* A line of this run or of another client, added while the probe is at    *)
(* work or done, does not disturb what is known of the log.                *)
LEMMA AppendKeeps ==
    ASSUME IInv, NEW l \in RequestLines(Sources), l.src # "earlier",
           log' = Append(log, l), pc # "start", exists' = TRUE,
           UNCHANGED <<pc, before, baseline, outcome>>,
           crowded' = (crowded \/ l.src = "other")
    PROVE  Progress' /\ StaleIsCounted' /\ OthersAreSeen' /\ Earned'
  <1> USE DEF IInv
  <1>1. /\ Len(log') = Len(log) + 1 /\ Len(log) \in Nat
        /\ \A i \in 1..Len(log) : log'[i] = log[i]
        /\ log'[Len(log')] = l
    BY AppendLine DEF TypeOK
  <1>2. Progress'
    BY DEF Progress
  <1>3. \A i \in 1..Len(log') : \/ i \in 1..Len(log) /\ log'[i] = log[i]
                                \/ log'[i] = l
    BY <1>1
  <1>4. StaleIsCounted'
    BY <1>3 DEF StaleIsCounted
  <1>5. OthersAreSeen'
    BY <1>3 DEF OthersAreSeen
  <1>6. \A h \in Hosts : OwnDecided(h) => OwnDecided(h)'
    BY <1>1 DEF OwnDecided
  <1>7. Earned'
    BY <1>6 DEF Earned, Clean
  <1> QED BY <1>2, <1>4, <1>5, <1>7

(* Finishing with an error or a finding is not clean.                      *)
LEMMA FinishKeeps ==
    ASSUME IInv, NEW findings, NEW errors, NEW control,
           Finish(findings, errors, control),
           control # "held" \/ findings # {} \/ errors # {},
           UNCHANGED <<log, exists, before, baseline, crowded>>
    PROVE  Progress' /\ StaleIsCounted' /\ OthersAreSeen' /\ Earned'
  BY DEF IInv, Finish, Progress, StaleIsCounted, OthersAreSeen, Earned, Clean

(* The second read comes out clean only on this run's own lines.           *)
LEMMA CleanReadIsEarned ==
    ASSUME IInv, pc = "after", baseline # "failed", ~crowded, ~Shrank(log, before),
           Unlogged(Entries(Window(log, before))) = {},
           Undecided(Entries(Window(log, before))) = {}
    PROVE  \A h \in Hosts : OwnDecided(h)
  <1> USE DEF IInv
  <1> DEFINE window == Window(log, before)
  <1> SUFFICES ASSUME NEW h \in Hosts PROVE OwnDecided(h)
    OBVIOUS
  <1>1. PICK e \in Entries(window) : e.host = h
    BY DEF Unlogged
  <1>2. e.value # "none"
    BY <1>1 DEF Undecided
  <1>3. PICK i \in DOMAIN window : window[i] = e
    BY <1>1 DEF Entries
  <1>4. /\ before + i \in 1..Len(log) /\ log[before + i] = e
        /\ e \in RequestLines(Sources)
    BY <1>3, WindowLines
  <1>5. e.src \in Sources /\ e.value = "decided"
    BY <1>1, <1>2, <1>4, LineFields
  <1>6. before \in Nat /\ i \in Nat \ {0}
    BY <1>3, WindowLines DEF TypeOK
  <1>7. e.src # "earlier"
    BY <1>4, <1>6 DEF StaleIsCounted, Progress, TypeOK
  <1>8. e.src = "own"
    BY <1>4, <1>5, <1>7 DEF OthersAreSeen, Sources
  <1> QED BY <1>1, <1>4, <1>5, <1>8 DEF OwnDecided

(* A step of the payload leaves its variables well typed.                 *)
LEMMA PayloadStepTypeOK ==
    ASSUME PayloadTypeOK, PayloadStep
    PROVE  PayloadTypeOK'
  <1>1. Len(ProbeHosts) = 2 /\ ProbeHosts[1] \in Hosts /\ ProbeHosts[2] \in Hosts
    BY DEF ProbeHosts, Hosts
  <1>2. step \in 1..3 /\ (waiting => step - 1 \in 1..2)
    BY <1>1 DEF PayloadTypeOK
  <1>3. waiting => LastSent \in Hosts
    BY <1>1, <1>2 DEF LastSent
  <1>4. CASE SendNext
    BY <1>4, <1>1, <1>2 DEF SendNext, PayloadTypeOK
  <1>5. CASE GetAnswer
    BY <1>5, <1>3 DEF GetAnswer, PayloadTypeOK
  <1>6. CASE GiveUp
    BY <1>6 DEF GiveUp, PayloadTypeOK
  <1> QED BY <1>4, <1>5, <1>6 DEF PayloadStep

-----------------------------------------------------------------------------
(* Every step keeps the inductive invariant.                              *)
LEMMA NextIInv == IInv /\ [Next]_vars => IInv'
  <1> SUFFICES ASSUME IInv, [Next]_vars PROVE IInv'
    OBVIOUS
  <1> USE DEF IInv, file, history
  <1>1. CASE NoRequestLog
    <2>1. Progress' /\ StaleIsCounted' /\ OthersAreSeen' /\ Earned'
      BY <1>1, FinishKeeps DEF NoRequestLog
    <2>2. TypeOK'
      BY <1>1 DEF NoRequestLog, Finish, Finding, TypeOK, PayloadTypeOK, payload
    <2> QED BY <2>1, <2>2
  <1>2. CASE ReadBaseline
    <2> USE <1>2 DEF ReadBaseline
    <2>1. Len(log) \in Nat
      BY DEF TypeOK
    <2>2. TypeOK'
      BY <2>1 DEF TypeOK, Count, PayloadTypeOK, payload
    <2>3. StaleIsCounted'
      BY <2>1 DEF StaleIsCounted, Count, Progress
    <2>4. Progress' /\ OthersAreSeen' /\ Earned'
      BY DEF Progress, OthersAreSeen, Earned, Clean
    <2> QED BY <2>2, <2>3, <2>4
  <1>3. CASE Crossing
    <2>1. PayloadTypeOK'
      BY <1>3, PayloadStepTypeOK DEF Crossing, TypeOK
    <2>2. TypeOK'
      BY <1>3, <2>1 DEF Crossing, TypeOK
    <2>3. Progress' /\ StaleIsCounted' /\ OthersAreSeen' /\ Earned'
      BY <1>3 DEF Crossing, Progress, StaleIsCounted, OthersAreSeen, Earned, Clean, OwnDecided
    <2> QED BY <2>2, <2>3
  <1>4. CASE PayloadReports
    BY <1>4 DEF PayloadReports, TypeOK, PayloadTypeOK, payload, Progress, StaleIsCounted,
                OthersAreSeen, Earned, Clean, OwnDecided
  <1>5. CASE PayloadFails
    <2>1. Progress' /\ StaleIsCounted' /\ OthersAreSeen' /\ Earned'
      BY <1>5, FinishKeeps DEF PayloadFails
    <2>2. TypeOK'
      BY <1>5 DEF PayloadFails, Finish, TypeOK, PayloadTypeOK, payload
    <2> QED BY <2>1, <2>2
  <1>6. CASE ReadFails
    <2>1. Progress' /\ StaleIsCounted' /\ OthersAreSeen' /\ Earned'
      BY <1>6, FinishKeeps DEF ReadFails
    <2>2. TypeOK'
      BY <1>6 DEF ReadFails, Finish, TypeOK, PayloadTypeOK, payload
    <2> QED BY <2>1, <2>2
  <1>7. CASE ReadAfter
    <2> USE <1>7 DEF ReadAfter
    <2>1. CASE Shrank(log, before)
      <3>1. Progress' /\ StaleIsCounted' /\ OthersAreSeen' /\ Earned'
        BY <2>1, FinishKeeps
      <3>2. TypeOK'
        BY <2>1 DEF Finish, TypeOK, PayloadTypeOK, payload
      <3> QED BY <3>1, <3>2
    <2>2. CASE ~Shrank(log, before)
      <3> DEFINE entries == Entries(Window(log, before))
                 found == {Finding("crossing_unlogged", h) : h \in Unlogged(entries)}
                            \cup {Finding("decision_missing", h) : h \in Undecided(entries)}
      <3>1. Finish(found, {}, "held")
        BY <2>2
      <3>2. TypeOK'
        <4>1. found \subseteq [rule : {"no_request_log", "crossing_unlogged",
                                       "decision_missing"},
                               host : Hosts \cup {OtherHost}]
          BY DEF Finding, Unlogged, Undecided
        <4> QED BY <3>1, <4>1 DEF Finish, TypeOK, PayloadTypeOK, payload
      <3>3. Progress' /\ StaleIsCounted' /\ OthersAreSeen'
        BY <3>1 DEF Finish, Progress, StaleIsCounted, OthersAreSeen
      <3>4. ASSUME found = {}, baseline # "failed", ~crowded
            PROVE  \A h \in Hosts : OwnDecided(h)
        <4>1. Unlogged(entries) = {} /\ Undecided(entries) = {}
          BY <3>4
        <4> QED BY <2>2, <3>4, <4>1, CleanReadIsEarned
      <3>5. Earned'
        BY <3>1, <3>4 DEF Finish, Earned, Clean, OwnDecided
      <3> QED BY <3>2, <3>3, <3>5
    <2> QED BY <2>1, <2>2
  <1>8. ASSUME NEW h \in Hosts, Handle(h) PROVE IInv'
    <2> USE <1>8 DEF Handle
    <2>1. PayloadTypeOK'
      BY DEF TypeOK, PayloadTypeOK
    <2>2. CASE UNCHANGED file
      <3>1. TypeOK'
        BY <2>1, <2>2 DEF TypeOK
      <3>2. Progress' /\ StaleIsCounted' /\ OthersAreSeen' /\ Earned'
        BY <2>2 DEF Progress, StaleIsCounted, OthersAreSeen, Earned, Clean, OwnDecided
      <3> QED BY <3>1, <3>2
    <2>3. ASSUME NEW l \in RequestLines({"own"}), log' = Append(log, l), exists' = TRUE
          PROVE  IInv'
      <3>1. l \in RequestLines(Sources) /\ l.src = "own"
        BY DEF RequestLines, Lines, Sources
      <3>2. TypeOK'
        BY <2>1, <2>3, <3>1, AppendLine DEF TypeOK
      <3>3. pc # "start"
        BY DEF Progress, TypeOK
      <3>4. crowded' = (crowded \/ l.src = "other")
        BY <3>1 DEF TypeOK
      <3> QED BY <2>3, <3>1, <3>2, <3>3, <3>4, AppendKeeps
    <2> QED BY <2>2, <2>3
  <1>9. CASE OtherWrites
    <2> USE <1>9 DEF OtherWrites
    <2>1. PICK l \in RequestLines({"other"}) : log' = Append(log, l)
      OBVIOUS
    <2>2. l \in RequestLines(Sources) /\ l.src = "other"
      BY DEF RequestLines, Lines, Sources
    <2>3. TypeOK'
      BY <2>1, <2>2, AppendLine DEF TypeOK, PayloadTypeOK, payload
    <2>4. pc # "start" /\ crowded' = (crowded \/ l.src = "other")
      BY <2>2 DEF Running
    <2> QED BY <2>1, <2>2, <2>3, <2>4, AppendKeeps
  <1>10. CASE Rotate
    <2> USE <1>10 DEF Rotate
    <2>1. /\ log' \in Seq(RequestLines(Sources))
          /\ \E k \in Nat : \A i \in 1..Len(log') : i + k \in 1..Len(log)
                                                   /\ log'[i] = log[i + k]
      BY RotatedLog
    <2>2. PICK k \in Nat : \A i \in 1..Len(log') : i + k \in 1..Len(log)
                                                 /\ log'[i] = log[i + k]
      BY <2>1
    <2>3. TypeOK'
      BY <2>1 DEF TypeOK, PayloadTypeOK, payload
    <2>4. StaleIsCounted'
      BY <2>2 DEF StaleIsCounted, TypeOK
    <2>5. OthersAreSeen'
      BY <2>2 DEF OthersAreSeen
    <2>6. Progress'
      <3>1. log = <<>> => log' = <<>>
        <4> SUFFICES ASSUME log = <<>> PROVE log' = <<>>
          OBVIOUS
        <4>1. Len(log) = 0 /\ Len(log') \in Nat
          BY <2>1, EmptySeq
        <4>2. Len(log') = 0
          BY <4>1, <2>2
        <4> QED BY <2>1, <4>2, EmptySeq
      <3> QED BY <3>1 DEF Progress, Running
    <2>7. Earned'
      BY DEF Earned, Clean, Progress, Running
    <2> QED BY <2>3, <2>4, <2>5, <2>6, <2>7
  <1>11. CASE UNCHANGED vars
    BY <1>11 DEF vars, payload, TypeOK, PayloadTypeOK, Progress, StaleIsCounted,
                 OthersAreSeen, Earned, Clean, OwnDecided
  <1> QED BY <1>1, <1>2, <1>3, <1>4, <1>5, <1>6, <1>7, <1>8, <1>9, <1>10, <1>11
          DEF Next, ProbeStep

(* The inductive invariant holds in every reachable state.                *)
THEOREM IInvHolds == Spec => []IInv
  BY InitIInv, NextIInv, PTL DEF Spec

-----------------------------------------------------------------------------
(* Every reachable state is well typed: the findings name only hosts the   *)
(* harness supplied, the log has only lines, whatever was rotated.         *)
THEOREM TypeCorrect == Spec => []TypeOK
  BY IInvHolds, PTL DEF IInv

(* A line of an earlier run is never in the window of a baseline that did  *)
(* not fail (attribution.py, the slice at len(before_lines)), for logs of  *)
(* any length.                                                             *)
THEOREM WindowIsFreshHolds == Spec => []WindowIsFresh
  <1>1. IInv => WindowIsFresh
    <2> SUFFICES ASSUME IInv, baseline \in {"read", "missing"},
                        NEW i \in DOMAIN Window(log, before)
                 PROVE  Window(log, before)[i].src # "earlier"
      BY DEF WindowIsFresh
    <2>1. TypeOK /\ StaleIsCounted
      BY DEF IInv
    <2>2. /\ before + i \in 1..Len(log)
          /\ Window(log, before)[i] = log[before + i]
      BY <2>1, WindowLines
    <2>3. i \in Nat \ {0} /\ before \in Nat
      BY <2>1, WindowLines DEF TypeOK
    <2> QED BY <2>1, <2>2, <2>3 DEF StaleIsCounted
  <1> QED BY <1>1, IInvHolds, PTL

(* A clean answer of the probe rests on lines this run caused, unless the  *)
(* baseline read failed or others wrote to the log.                        *)
THEOREM CleanIsThisRunsHolds == Spec => []CleanIsThisRuns
  <1>1. IInv => CleanIsThisRuns
    BY LenProperties DEF IInv, TypeOK, Earned, OwnDecided, CleanIsThisRuns
  <1> QED BY <1>1, IInvHolds, PTL

-----------------------------------------------------------------------------
(* ---- crossings that were answered ---- *)

(* Lines of this run come after those the baseline counted, until the log  *)
(* is rotated.                                                             *)
OwnIsNew ==
    IF pc = "start" THEN before = 0 /\ \A i \in 1..Len(log) : log[i].src # "own"
    ELSE ~rotated => /\ before <= Len(log)
                     /\ \A i \in 1..Len(log) : log[i].src = "own" => i > before

(* The hosts the payload has sent to.  Each is sent to once, so a crossing *)
(* that was answered is never pending again and adds no further line.      *)
Sent == {h \in Hosts : (h = AllowedHost /\ step > 1) \/ (h = BlockedHost /\ step > 2)}
AnsweredIsSettled ==
    /\ pending \cup answered \subseteq Sent
    /\ answered \cap pending = {}
    /\ waiting => step \in {2, 3}

OwnLine(h) == \E i \in 1..Len(log) : log[i].src = "own" /\ log[i].host = h
Told ==
    /\ pc # "done" => outcome.findings = {}
    /\ ~rotated => \A h \in answered :
          Finding("crossing_unlogged", h) \in outcome.findings => ~OwnLine(h)

AnswerInv == OwnIsNew /\ AnsweredIsSettled /\ Told

(* The second read finds the line of every answered crossing that has one. *)
LEMMA AnsweredIsFound ==
    ASSUME IInv, AnswerInv, pc = "after", ~rotated, NEW h \in Hosts,
           h \in Unlogged(Entries(Window(log, before)))
    PROVE  ~OwnLine(h)
  <1> SUFFICES ASSUME NEW i \in 1..Len(log), log[i].src = "own", log[i].host = h PROVE FALSE
    BY DEF OwnLine
  <1> DEFINE window == Window(log, before)
  <1>1. log \in Seq(RequestLines(Sources)) /\ Len(log) \in Nat /\ before \in Nat
    BY DEF IInv, TypeOK
  <1>2. i > before
    BY DEF AnswerInv, OwnIsNew
  <1>3. \A j \in before + 1..Len(log) : log[j] \in RequestLines(Sources)
    BY <1>1, ElementOfSeq
  <1>4. /\ window \in Seq(RequestLines(Sources))
        /\ Len(window) = IF before + 1 <= Len(log) THEN Len(log) - before ELSE 0
        /\ \A j \in 1..Len(log) - before : window[j] = log[before + j]
    BY <1>1, <1>3, SubSeqProperties DEF Window
  <1>5. i - before \in 1..Len(log) - before /\ before + (i - before) = i
    BY <1>1, <1>2
  <1>6. i - before \in DOMAIN window /\ window[i - before] = log[i]
    BY <1>1, <1>4, <1>5, LenProperties
  <1>7. log[i] \in Entries(window)
    <2> HIDE DEF window
    <2> QED BY <1>6 DEF Entries, IsEntry
  <1> QED BY <1>7 DEF Unlogged

(* Every step keeps that.                                                  *)
LEMMA AnswerStep == IInv /\ AnswerInv /\ [Next]_vars => AnswerInv'
  <1> SUFFICES ASSUME IInv, AnswerInv, [Next]_vars PROVE AnswerInv'
    OBVIOUS
  <1> USE DEF file, history
  <1>0. /\ Len(log) \in Nat /\ before \in Nat /\ rotated \in BOOLEAN
        /\ pending \subseteq Hosts /\ answered \subseteq Hosts
        /\ pc = "start" => pending = {}
    BY DEF IInv, TypeOK, PayloadTypeOK, Progress
  <1>1. ASSUME UNCHANGED <<log, rotated, payload>>, pc # "start", pc' # "start", before' = before,
               UNCHANGED <<pc, outcome>> \/ (pc' = "after" /\ UNCHANGED outcome)
                 \/ \A h : Finding("crossing_unlogged", h) \notin outcome'.findings,
               pc' # "done" => outcome'.findings = {}
        PROVE  AnswerInv'
    BY <1>1 DEF AnswerInv, OwnIsNew, AnsweredIsSettled, Sent, Told, OwnLine, payload
  <1>2. CASE NoRequestLog
    <2>1. \A h : Finding("crossing_unlogged", h) \notin outcome'.findings
      BY <1>2 DEF NoRequestLog, Finish, Finding
    <2>2. OwnIsNew'
      BY <1>0, <1>2 DEF NoRequestLog, Finish, AnswerInv, OwnIsNew
    <2> QED BY <1>2, <2>1, <2>2 DEF NoRequestLog, Finish, AnswerInv, AnsweredIsSettled, Sent, Told,
                                    payload
  <1>3. CASE ReadBaseline
    <2>1. OwnIsNew'
      BY <1>0, <1>3 DEF ReadBaseline, Count, AnswerInv, OwnIsNew
    <2> QED BY <1>3, <2>1 DEF ReadBaseline, AnswerInv, AnsweredIsSettled, Sent, Told, OwnLine, payload
  <1>4. CASE Crossing
    <2>1. /\ Len(ProbeHosts) = 2 /\ ProbeHosts[1] = AllowedHost /\ ProbeHosts[2] = BlockedHost
          /\ AllowedHost # BlockedHost
      BY HostsDistinct DEF ProbeHosts
    <2>2. step \in 1..3
      BY <2>1 DEF IInv, TypeOK, PayloadTypeOK
    <2>3. AnsweredIsSettled'
      <3> USE <2>1, <2>2 DEF AnswerInv, AnsweredIsSettled, Sent, Hosts
      <3>1. CASE SendNext
        BY <3>1 DEF SendNext
      <3>2. CASE GetAnswer
        BY <3>2 DEF GetAnswer, LastSent, AnswerIsThere
      <3>3. CASE GiveUp
        BY <3>3 DEF GiveUp
      <3> QED BY <1>4, <3>1, <3>2, <3>3 DEF Crossing, PayloadStep
    <2>4. OwnIsNew' /\ Told'
      BY <1>4 DEF Crossing, AnswerInv, OwnIsNew, Told
    <2> QED BY <2>3, <2>4 DEF AnswerInv
  <1>5. CASE PayloadReports
    BY <1>1, <1>5 DEF PayloadReports, AnswerInv, Told
  <1>6. CASE PayloadFails \/ ReadFails
    <2>1. outcome'.findings = {} /\ pc' = "done" /\ pc \in {"crossing", "after"}
      BY <1>6 DEF PayloadFails, ReadFails, Finish
    <2> QED BY <1>1, <1>6, <2>1 DEF PayloadFails, ReadFails
  <1>7. CASE ReadAfter
    <2> DEFINE entries == Entries(Window(log, before))
               found == {Finding("crossing_unlogged", h) : h \in Unlogged(entries)}
                          \cup {Finding("decision_missing", h) : h \in Undecided(entries)}
    <2>1. pc = "after" /\ pc' = "done" /\ UNCHANGED <<log, before, rotated, payload>>
      BY <1>7 DEF ReadAfter, Finish
    <2>2. outcome'.findings = {} \/ outcome'.findings = found
      BY <1>7 DEF ReadAfter, Finish
    <2>3. \A h : Finding("crossing_unlogged", h) \in found => h \in Unlogged(entries)
      BY DEF Finding
    <2>4. ASSUME ~rotated, NEW h \in answered,
                 Finding("crossing_unlogged", h) \in outcome'.findings
          PROVE  ~OwnLine(h)
      <3>1. h \in Unlogged(entries) /\ h \in Hosts
        BY <1>0, <2>2, <2>3, <2>4
      <3> QED BY <2>1, <2>4, <3>1, AnsweredIsFound
    <2>5. Told'
      BY <2>1, <2>4 DEF Told, OwnLine, payload
    <2> QED BY <2>1, <2>5 DEF AnswerInv, OwnIsNew, AnsweredIsSettled, Sent, payload
  <1>8. ASSUME NEW l \in RequestLines(Sources), log' = Append(log, l), pc # "start",
               l.src = "own" => l.host \notin answered,
               UNCHANGED <<pc, before, rotated, outcome, step, waiting, answered>>,
               pending' \subseteq pending
        PROVE  AnswerInv'
    <2>1. /\ Len(log') = Len(log) + 1
          /\ \A i \in 1..Len(log) : log'[i] = log[i]
          /\ log'[Len(log')] = l
      BY <1>8, AppendLine DEF IInv
    <2>2. \A i \in 1..Len(log') : \/ i \in 1..Len(log) /\ log'[i] = log[i]
                                  \/ i = Len(log) + 1 /\ log'[i] = l
      BY <1>0, <2>1
    <2>3. AnsweredIsSettled'
      BY <1>8 DEF AnswerInv, AnsweredIsSettled, Sent
    <2>4. \A h \in answered : OwnLine(h)' => OwnLine(h)
      BY <1>8, <2>2 DEF OwnLine
    <2>5. Told'
      BY <1>8, <2>4 DEF AnswerInv, Told
    <2>6. ~rotated => before <= Len(log)
      BY <1>8 DEF AnswerInv, OwnIsNew
    <2>7. OwnIsNew'
      BY <1>0, <1>8, <2>1, <2>2, <2>6 DEF AnswerInv, OwnIsNew
    <2> QED BY <2>3, <2>5, <2>7 DEF AnswerInv
  <1>9. ASSUME NEW h \in Hosts, Handle(h) PROVE AnswerInv'
    <2> USE <1>9 DEF Handle
    <2>1. h \notin answered /\ pc # "start"
      BY <1>0 DEF AnswerInv, AnsweredIsSettled
    <2>2. CASE UNCHANGED file
      BY <2>1, <2>2 DEF AnswerInv, OwnIsNew, AnsweredIsSettled, Sent, Told, OwnLine
    <2>3. ASSUME NEW l \in RequestLines({"own"}), l.host \in {h, OtherHost},
                 log' = Append(log, l)
          PROVE  AnswerInv'
      <3>1. l \in RequestLines(Sources)
        BY DEF RequestLines, Lines, Sources
      <3>2. l.host \notin answered
        BY <1>0, <2>1, <2>3, HostsDistinct DEF Hosts
      <3> QED BY <1>8, <2>1, <2>3, <3>1, <3>2
    <2> QED BY <2>2, <2>3
  <1>10. CASE OtherWrites
    <2>1. PICK l \in RequestLines({"other"}) : log' = Append(log, l)
      BY <1>10 DEF OtherWrites
    <2>2. l \in RequestLines(Sources) /\ l.src = "other"
      BY DEF RequestLines, Lines, Sources
    <2> QED BY <1>8, <1>10, <2>1, <2>2 DEF OtherWrites, Running, payload
  <1>11. CASE Rotate
    <2>1. rotated' /\ pc # "start" /\ UNCHANGED <<pc, outcome, payload>>
      BY <1>11 DEF Rotate, Running
    <2> QED BY <2>1 DEF AnswerInv, OwnIsNew, AnsweredIsSettled, Sent, Told, payload
  <1>12. CASE UNCHANGED vars
    BY <1>12 DEF vars, payload, AnswerInv, OwnIsNew, AnsweredIsSettled, Sent, Told, OwnLine
  <1> QED BY <1>2, <1>3, <1>4, <1>5, <1>6, <1>7, <1>9, <1>10, <1>11, <1>12
          DEF Next, ProbeStep

(* attribution.py:90-96: a crossing whose answer was read back and whose   *)
(* line is in the log is never reported as unlogged, unless the log was    *)
(* rotated: nothing the broker still does comes between answer and read.   *)
THEOREM AnsweredTheorem == Spec => []AnsweredIsNotReportedUnlogged
  <1>1. Init => AnswerInv
    <2> SUFFICES ASSUME Init PROVE AnswerInv
      OBVIOUS
    <2>1. PICK n \in 0..MaxEarlier : log \in [1..n -> RequestLines({"earlier"})]
      BY DEF Init, LogsUpTo
    <2>2. \A i \in 1..Len(log) : log[i].src # "own"
      <3>1. Len(log) = n
        BY <2>1, AttributionAssumption
      <3>2. \A l \in RequestLines({"earlier"}) : l.src = "earlier"
        BY DEF RequestLines, Lines
      <3> QED BY <2>1, <3>1, <3>2
    <2> QED BY <2>2 DEF Init, PayloadInit, NoOutcome, AnswerInv, OwnIsNew, AnsweredIsSettled, Told
  <1>2. IInv /\ AnswerInv => AnsweredIsNotReportedUnlogged
    <2> SUFFICES ASSUME IInv, AnswerInv PROVE AnsweredIsNotReportedUnlogged
      OBVIOUS
    <2>1. \A h : OwnEntry(h) => OwnLine(h)
      BY LenProperties DEF IInv, TypeOK, OwnEntry, OwnLine
    <2> QED BY <2>1 DEF AnswerInv, Told, AnsweredIsNotReportedUnlogged
  <1> QED BY <1>1, <1>2, IInvHolds, AnswerStep, PTL DEF Spec

-----------------------------------------------------------------------------
(* ---- what a verdict rests on ---- *)

RestsOn(h, value) ==
    \E i \in 1..Len(log) : log[i].host = h /\ log[i].value = value /\ Accounted(log[i])

VerdictInv ==
    /\ pc # "done" => outcome.findings = {} /\ outcome.control # "held"
    /\ Clean => \A h \in Hosts : RestsOn(h, "decided")
    /\ \A h \in Hosts :
          Finding("decision_missing", h) \in outcome.findings => RestsOn(h, "none")

(* Each line of the window can be accounted for.                           *)
LEMMA WindowIsAccounted ==
    ASSUME IInv, pc = "after", NEW e \in Entries(Window(log, before))
    PROVE  /\ \E i \in 1..Len(log) : log[i] = e
           /\ Accounted(e)
           /\ e \in RequestLines(Sources)
  <1> DEFINE window == Window(log, before)
  <1>1. PICK i \in DOMAIN window : window[i] = e
    BY DEF Entries
  <1>2. /\ before + i \in 1..Len(log) /\ log[before + i] = e
        /\ e \in RequestLines(Sources) /\ i \in Nat \ {0}
    BY <1>1, WindowLines DEF IInv
  <1>3. before \in Nat /\ baseline \in {"none", "read", "missing", "failed"} /\ baseline # "none"
    BY DEF IInv, TypeOK, Progress
  <1>4. e.src = "earlier" => baseline = "failed"
    BY <1>2, <1>3 DEF IInv, StaleIsCounted
  <1>5. e.src = "other" => crowded
    BY <1>2 DEF IInv, OthersAreSeen
  <1> QED BY <1>2, <1>4, <1>5 DEF Accounted

(* Lines stay where they are when one is added at the end.                 *)
LEMMA RestsStays ==
    ASSUME TypeOK, NEW l \in RequestLines(Sources), log' = Append(log, l),
           UNCHANGED baseline, crowded => crowded', NEW h, NEW value, RestsOn(h, value)
    PROVE  RestsOn(h, value)'
  <1>1. /\ Len(log') = Len(log) + 1 /\ Len(log) \in Nat
        /\ \A i \in 1..Len(log) : log'[i] = log[i]
    BY AppendLine DEF TypeOK
  <1>2. PICK i \in 1..Len(log) :
          log[i].host = h /\ log[i].value = value /\ Accounted(log[i])
    BY DEF RestsOn
  <1>3. i \in 1..Len(log') /\ log'[i] = log[i]
    BY <1>1
  <1>4. log'[i].host = h /\ log'[i].value = value /\ Accounted(log[i])'
    BY <1>2, <1>3 DEF Accounted
  <1> QED BY <1>3, <1>4 DEF RestsOn

(* A probe that ends without a verdict on a host gives none.               *)
LEMMA NoVerdict ==
    ASSUME NEW findings, NEW errors, NEW control, Finish(findings, errors, control),
           \A h \in Hosts : Finding("decision_missing", h) \notin findings,
           control = "failed"
    PROVE  VerdictInv'
  BY DEF Finish, VerdictInv, Clean

(* Every step keeps that.                                                  *)
LEMMA VerdictStep == IInv /\ VerdictInv /\ [Next]_vars => VerdictInv'
  <1> SUFFICES ASSUME IInv, VerdictInv, [Next]_vars PROVE VerdictInv'
    OBVIOUS
  <1> USE DEF file, history
  <1>1. CASE NoRequestLog \/ PayloadFails \/ ReadFails
    BY <1>1, NoVerdict DEF NoRequestLog, PayloadFails, ReadFails, Finding
  <1>2. ASSUME UNCHANGED <<log, outcome, crowded>>, pc' # "done" \/ pc' = pc,
               baseline' = baseline \/ pc # "done", pc = "done" => pc' = "done"
        PROVE  VerdictInv'
    <2>1. CASE pc # "done"
      BY <1>2, <2>1 DEF VerdictInv, Clean
    <2>2. CASE pc = "done"
      BY <1>2, <2>2 DEF VerdictInv, Clean, RestsOn, Accounted
    <2> QED BY <2>1, <2>2
  <1>3. CASE ReadBaseline \/ Crossing \/ PayloadReports
    BY <1>2, <1>3 DEF ReadBaseline, Crossing, PayloadReports
  <1>4. CASE ReadAfter
    <2> USE <1>4 DEF ReadAfter
    <2> DEFINE entries == Entries(Window(log, before))
               found == {Finding("crossing_unlogged", h) : h \in Unlogged(entries)}
                          \cup {Finding("decision_missing", h) : h \in Undecided(entries)}
    <2>1. CASE Shrank(log, before)
      BY <2>1, NoVerdict
    <2>2. CASE ~Shrank(log, before)
      <3>1. Finish(found, {}, "held") /\ pc = "after" /\ UNCHANGED <<log, baseline, crowded>>
        BY <2>2
      <3>2. ASSUME NEW e \in entries, NEW value, e.value = value
            PROVE  RestsOn(e.host, value)'
        <4>1. PICK i \in 1..Len(log) : log[i] = e
          BY <3>1, <3>2, WindowIsAccounted
        <4>2. Accounted(e)
          BY <3>1, <3>2, WindowIsAccounted
        <4>3. RestsOn(e.host, value)
          BY <3>2, <4>1, <4>2 DEF RestsOn
        <4> QED BY <3>1, <4>3 DEF RestsOn, Accounted
      <3>3. ASSUME found = {}, NEW h \in Hosts PROVE RestsOn(h, "decided")'
        <4>1. PICK e \in entries : e.host = h
          BY <3>3 DEF Unlogged
        <4>2. e.value # "none"
          BY <3>3, <4>1 DEF Undecided
        <4>3. e.value = "decided"
          <5>1. e \in RequestLines(Sources)
            BY <3>1, <4>1, WindowIsAccounted
          <5> QED BY <4>1, <4>2, <5>1, LineFields
        <4> QED BY <3>2, <4>1, <4>3
      <3>4. ASSUME NEW h \in Hosts, Finding("decision_missing", h) \in found
            PROVE  RestsOn(h, "none")'
        <4>1. h \in Undecided(entries)
          BY <3>4 DEF Finding
        <4>2. PICK e \in entries : e.host = h /\ e.value = "none"
          BY <4>1 DEF Undecided
        <4> QED BY <3>2, <4>2
      <3> HIDE DEF found
      <3> QED BY <3>1, <3>3, <3>4 DEF Finish, VerdictInv, Clean
    <2> QED BY <2>1, <2>2
  <1>5. ASSUME NEW l \in RequestLines(Sources), log' = Append(log, l),
               UNCHANGED <<pc, baseline, outcome>>, crowded => crowded'
        PROVE  VerdictInv'
    <2>1. \A h \in Hosts, value \in {"decided", "none"} : RestsOn(h, value) => RestsOn(h, value)'
      BY <1>5, RestsStays DEF IInv
    <2> QED BY <1>5, <2>1 DEF VerdictInv, Clean
  <1>6. ASSUME NEW h \in Hosts, Handle(h) PROVE VerdictInv'
    <2>1. CASE UNCHANGED file
      BY <1>6, <2>1, <1>2 DEF Handle
    <2>2. ASSUME NEW l \in RequestLines({"own"}), log' = Append(log, l) PROVE VerdictInv'
      <3>1. l \in RequestLines(Sources)
        BY DEF RequestLines, Lines, Sources
      <3> QED BY <1>6, <1>5, <2>2, <3>1 DEF Handle
    <2> QED BY <1>6, <2>1, <2>2 DEF Handle
  <1>7. CASE OtherWrites
    <2>1. PICK l \in RequestLines({"other"}) : log' = Append(log, l)
      BY <1>7 DEF OtherWrites
    <2>2. l \in RequestLines(Sources)
      BY DEF RequestLines, Lines, Sources
    <2> QED BY <1>7, <1>5, <2>1, <2>2 DEF OtherWrites
  <1>8. CASE Rotate
    BY <1>8 DEF Rotate, Running, VerdictInv, Clean
  <1>9. CASE UNCHANGED vars
    BY <1>9 DEF vars, VerdictInv, Clean, RestsOn, Accounted
  <1> QED BY <1>1, <1>3, <1>4, <1>6, <1>7, <1>8, <1>9 DEF Next, ProbeStep

(* How far a stale or a foreign line can mislead the probe: a verdict on a *)
(* host always rests on a line that bears it out, one of an earlier run    *)
(* only after a failed baseline read, one of another client only when      *)
(* another client wrote, whatever is rotated and whenever.                 *)
THEOREM VerdictsTheorem == Spec => []VerdictsRestOnLines
  <1>1. Init => VerdictInv
    BY DEF Init, NoOutcome, VerdictInv, Clean
  <1>2. IInv /\ VerdictInv => VerdictsRestOnLines
    <2> SUFFICES ASSUME IInv, VerdictInv PROVE VerdictsRestOnLines
      OBVIOUS
    <2>1. DOMAIN log = 1..Len(log)
      BY LenProperties DEF IInv, TypeOK
    <2>2. \A h, value : RestsOn(h, value) <=> Shows(h, value)
      BY <2>1 DEF RestsOn, Shows
    <2> QED BY <2>2 DEF VerdictInv, VerdictsRestOnLines
  <1> QED BY <1>1, <1>2, IInvHolds, VerdictStep, PTL DEF Spec
=============================================================================
