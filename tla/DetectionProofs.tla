--------------------------- MODULE DetectionProofs ---------------------------
(***************************************************************************)
(* Theorems about the detection probe, for logs of any length, whatever    *)
(* earlier runs left in them, and a rotation of either at any moment.      *)
(***************************************************************************)
EXTENDS Detection, SequenceTheorems, TLAPS

Stale(log, before) == \A i \in 1..Len(log) : log[i].src = "earlier" => i <= before

NoneFrom(log, source) == \A i \in 1..Len(log) : log[i].src # source

(* Lines of earlier runs are those the baseline counted, in both logs.     *)
StaleIsCounted ==
    /\ baseline \in {"read", "missing"} => Stale(events, eventsBefore)
    /\ (pc \in {"crossing", "events", "requests"} /\ requestsRead
          /\ "requests" \in configured)
       => Stale(requests, requestsBefore)

OthersAreSeen == ~crowded => NoneFrom(events, "other") /\ NoneFrom(requests, "other")

(* Where the probe stands, and what it has by then.                        *)
Progress ==
    /\ ~exists => events = <<>>
    /\ pc \in {"start", "baseline"} => pending = {}
    /\ pc = "start" => NoneFrom(events, "own")
    /\ pc \in {"start", "baseline", "crossing", "events"} => delta = {}
    /\ pc \in {"baseline", "crossing", "events", "requests"} => baseline # "none"
    /\ outcome.control = "held" => pc = "done" /\ baseline # "none"
    /\ pc = "requests" => requestsRead /\ "requests" \in configured

(* Without a rotation, this run's alerts are behind the baseline.          *)
OwnIsFresh ==
    ~rotated =>
        /\ eventsBefore <= Len(events)
        /\ \A i \in 1..Len(events) : events[i].src = "own" => i > eventsBefore

(* What the second read of the events took out of the log: only lines of   *)
(* this run, all of which are still there, and any on the allowed host.    *)
DeltaIsOwn ==
    baseline \in {"read", "missing"} /\ ~crowded => \A e \in delta : e.src = "own"

DeltaIsLogged == ~rotated => \A e \in delta : \E i \in 1..Len(events) : events[i] = e

OwnAllowed(log) == \E i \in 1..Len(log) : log[i].src = "own" /\ log[i].host = AllowedHost

DeltaIsComplete ==
    (/\ ~rotated /\ AllowedHost \in answered
     /\ pc = "requests" \/ (outcome.control = "held" /\ "requests" \in configured)
     /\ OwnAllowed(events))
    => CarriesAllowed(delta)

(* An answer means that the broker is done with the crossing.              *)
AnsweredIsDone == AllowedHost \in answered => step > 1 /\ AllowedHost \notin pending

Separated == Clean /\ "requests" \in configured => ~CarriesAllowed(delta)

Evidence == DeltaIsOwn /\ DeltaIsLogged /\ DeltaIsComplete
Verdicts == CleanMeansAlerted /\ Separated /\ SeparationNeverStale /\ ProvedFindingIsKept

Kept ==
    /\ Progress /\ StaleIsCounted /\ OthersAreSeen /\ OwnIsFresh
    /\ AnsweredIsDone /\ Evidence /\ Verdicts

IInv == TypeOK /\ Kept

-----------------------------------------------------------------------------
(* What the fields of a line can be.                                      *)
LEMMA LineFields ==
    /\ \A l \in EventLines(Sources) :
         /\ l.src \in Sources
         /\ l.host = BlockedHost /\ l.value = "HIGH" /\ l.src = "own"
              => l = [host |-> BlockedHost, value |-> "HIGH", src |-> "own"]
    /\ \A l \in RequestLines(Sources) :
         /\ l.src \in Sources
         /\ l.host \in Hosts => l = [host |-> l.host, value |-> l.value, src |-> l.src]
  BY HostsDistinct DEF EventLines, RequestLines, Lines, Sources, Hosts

(* A line added at the end leaves the others where they are.               *)
LEMMA Grown ==
    \A S : \A s \in Seq(S) : \A l \in S :
        /\ Append(s, l) \in Seq(S)
        /\ Len(Append(s, l)) = Len(s) + 1 /\ Len(s) \in Nat
        /\ \A i \in 1..Len(s) : Append(s, l)[i] = s[i]
        /\ Append(s, l)[Len(s) + 1] = l
        /\ \A i \in 1..Len(Append(s, l)) :
             (i \in 1..Len(s) /\ Append(s, l)[i] = s[i]) \/ i = Len(s) + 1
  BY AppendProperties

(* What is left of a log after a rotation, and where it was.               *)
LEMMA Rotated ==
    \A S : \A s \in Seq(S) : \A t \in Rotations(s) :
        /\ t \in Seq(S)
        /\ \E k \in Nat : \A i \in 1..Len(t) : i + k \in 1..Len(s) /\ t[i] = s[i + k]
<1> SUFFICES ASSUME NEW S, NEW s \in Seq(S), NEW t \in Rotations(s)
             PROVE  /\ t \in Seq(S)
                    /\ \E k \in Nat : \A i \in 1..Len(t) : i + k \in 1..Len(s) /\ t[i] = s[i + k]
  OBVIOUS
<1>1. PICK m \in 2..Len(s) + 1 : t = SubSeq(s, m, Len(s))
  BY DEF Rotations
<1>2. m \in Int /\ Len(s) \in Nat /\ \A i \in m..Len(s) : s[i] \in S
  BY <1>1, ElementOfSeq
<1>3. /\ t \in Seq(S)
      /\ Len(t) = IF m <= Len(s) THEN Len(s) - m + 1 ELSE 0
      /\ \A i \in 1..Len(s) - m + 1 : t[i] = s[m + i - 1]
  BY <1>1, <1>2, SubSeqProperties
<1>4. m - 1 \in Nat
  BY <1>1, <1>2
<1>5. \A i \in 1..Len(t) : i + (m - 1) \in 1..Len(s) /\ t[i] = s[i + (m - 1)]
  BY <1>1, <1>2, <1>3
<1> QED  BY <1>3, <1>4, <1>5

(* A log that did not change is a suffix of itself.                       *)
LEMMA NotRotated ==
    \A s : \E k \in Nat : \A i \in 1..Len(s) : i + k \in 1..Len(s) /\ s[i] = s[i + k]
<1> TAKE s
<1>1. \A i \in 1..Len(s) : i + 0 = i
  OBVIOUS
<1>2. 0 \in Nat
  OBVIOUS
<1> QED  BY <1>1, <1>2

(* The entries of a window are the entries of the log behind the count.    *)
LEMMA WindowEntries ==
    \A S : \A s \in Seq(S) : \A b \in Nat :
        /\ \A e \in Entries(Window(s, b)) : \E i \in 1..Len(s) : i > b /\ s[i] = e
        /\ \A i \in 1..Len(s) : i > b /\ IsEntry(s[i]) => s[i] \in Entries(Window(s, b))
<1> SUFFICES ASSUME NEW S, NEW s \in Seq(S), NEW b \in Nat
             PROVE  /\ \A e \in Entries(Window(s, b)) :
                         \E i \in 1..Len(s) : i > b /\ s[i] = e
                    /\ \A i \in 1..Len(s) :
                         i > b /\ IsEntry(s[i]) => s[i] \in Entries(Window(s, b))
  OBVIOUS
<1> DEFINE w == Window(s, b)
<1>1. \A i \in b + 1..Len(s) : s[i] \in S
  BY ElementOfSeq
<1>2. /\ w \in Seq(S)
      /\ Len(w) = IF b + 1 <= Len(s) THEN Len(s) - b ELSE 0
      /\ \A i \in 1..Len(s) - b : w[i] = s[b + i]
  BY <1>1, SubSeqProperties, LenProperties DEF Window
<1>3. DOMAIN w = 1..Len(w) /\ Len(s) \in Nat
  BY <1>2, LenProperties
<1> HIDE DEF w
<1>4. \A i \in DOMAIN w : b + i \in 1..Len(s) /\ b + i > b /\ w[i] = s[b + i]
  BY <1>2, <1>3
<1>5. ASSUME NEW e \in Entries(w)
      PROVE  \E i \in 1..Len(s) : i > b /\ s[i] = e
  <2>1. PICK i \in DOMAIN w : w[i] = e
    BY DEF Entries
  <2> QED  BY <2>1, <1>4
<1>6. ASSUME NEW i \in 1..Len(s), i > b, IsEntry(s[i])
      PROVE  s[i] \in Entries(w)
  <2>1. i - b \in DOMAIN w /\ w[i - b] = s[i]
    BY <1>2, <1>3, <1>6
  <2> QED  BY <2>1, <1>6 DEF Entries
<1> QED  BY <1>5, <1>6 DEF w

(* A line behind the count is this run's, if the earlier ones are counted  *)
(* and nobody else wrote.                                                  *)
LEMMA BehindIsOwn ==
    \A S : \A s \in Seq(S) : \A b \in Nat :
        (/\ Stale(s, b) /\ NoneFrom(s, "other")
         /\ \A l \in S : l.src \in Sources)
        => \A i \in 1..Len(s) : i > b => s[i].src = "own"
<1> SUFFICES ASSUME NEW S, NEW s \in Seq(S), NEW b \in Nat,
                    Stale(s, b), NoneFrom(s, "other"), \A l \in S : l.src \in Sources,
                    NEW i \in 1..Len(s), i > b
             PROVE  s[i].src = "own"
  OBVIOUS
<1>1. s[i].src \in Sources
  BY ElementOfSeq
<1>2. s[i].src # "other" /\ s[i].src # "earlier"
  BY LenProperties DEF Stale, NoneFrom
<1> QED  BY <1>1, <1>2 DEF Sources

-----------------------------------------------------------------------------
(* The initial states satisfy the inductive invariant.                    *)
LEMMA InitIInv == Init => IInv
<1> SUFFICES ASSUME Init
             PROVE  IInv
  OBVIOUS
<1> USE DEF Init, PayloadInit
<1>1. /\ events \in Seq(EventLines({"earlier"})) /\ requests \in Seq(RequestLines({"earlier"}))
  BY DetectionAssumption
<1>2. /\ EventLines({"earlier"}) \subseteq EventLines(Sources)
      /\ RequestLines({"earlier"}) \subseteq RequestLines(Sources)
  BY DEF EventLines, RequestLines, Lines, Sources
<1>3. /\ \A i \in 1..Len(events) : events[i] \in EventLines({"earlier"})
      /\ \A i \in 1..Len(requests) : requests[i] \in RequestLines({"earlier"})
  BY <1>1, ElementOfSeq
<1>4. /\ \A i \in 1..Len(events) : events[i].src = "earlier"
      /\ \A i \in 1..Len(requests) : requests[i].src = "earlier"
  BY <1>3 DEF EventLines, RequestLines, Lines
<1>5. /\ events \in Seq(EventLines(Sources)) /\ requests \in Seq(RequestLines(Sources))
      /\ Len(events) \in Nat
  BY <1>1, <1>2
<1>6. PayloadTypeOK
  <2>1. Len(ProbeHosts) = 2
    BY DEF ProbeHosts
  <2>2. step \in 1..Len(ProbeHosts) + 1
    BY <2>1
  <2> QED  BY <2>2 DEF PayloadTypeOK
<1>7. TypeOK
  BY <1>5, <1>6 DEF TypeOK
<1>8. Progress /\ OthersAreSeen
  BY <1>4 DEF Progress, OthersAreSeen, NoneFrom
<1>9. StaleIsCounted /\ OwnIsFresh /\ AnsweredIsDone
  BY <1>4, <1>5 DEF StaleIsCounted, OwnIsFresh, AnsweredIsDone
<1>10. Evidence
  BY DEF Evidence, DeltaIsOwn, DeltaIsLogged, DeltaIsComplete
<1>11. Verdicts
  BY DEF Verdicts, CleanMeansAlerted, Separated, SeparationNeverStale, ProvedFindingIsKept, Clean
<1> QED  BY <1>7, <1>8, <1>9, <1>10, <1>11 DEF IInv, Kept

(* A line in the event channel that is no earlier run's.                   *)
LEMMA EventGrows ==
    ASSUME IInv, NEW l \in EventLines(Sources), l.src # "earlier", pc # "start",
           events' = Append(events, l), exists' = TRUE,
           crowded' = (crowded \/ l.src = "other"),
           l.src = "own" /\ l.host = AllowedHost => AllowedHost \notin answered,
           pending' \subseteq pending,
           UNCHANGED <<configured, requests, pc, counts, delta, step, answered, rotated, outcome>>
    PROVE  Kept'
<1> USE DEF IInv, Kept, counts
<1>1. events \in Seq(EventLines(Sources)) /\ eventsBefore \in Nat
  BY DEF TypeOK
<1>2. /\ Len(events') = Len(events) + 1 /\ Len(events) \in Nat
      /\ \A i \in 1..Len(events) : events'[i] = events[i]
      /\ events'[Len(events) + 1] = l
      /\ \A i \in 1..Len(events') :
           (i \in 1..Len(events) /\ events'[i] = events[i]) \/ i = Len(events) + 1
  BY <1>1, Grown
<1>3. \A i \in 1..Len(events) : i \in 1..Len(events')
  BY <1>2
<1>4. Progress'
  BY DEF Progress
<1>5. StaleIsCounted'
  BY <1>2 DEF StaleIsCounted, Stale
<1>6. OthersAreSeen'
  BY <1>2 DEF OthersAreSeen, NoneFrom
<1>7. OwnIsFresh'
  BY <1>1, <1>2 DEF OwnIsFresh
<1>8. AnsweredIsDone'
  BY DEF AnsweredIsDone
<1>9. Evidence'
  <2>1. DeltaIsOwn' /\ DeltaIsLogged'
    BY <1>2, <1>3 DEF Evidence, DeltaIsOwn, DeltaIsLogged
  <2>2. AllowedHost \in answered /\ OwnAllowed(events)' => OwnAllowed(events)
    BY <1>2 DEF OwnAllowed
  <2>3. DeltaIsComplete'
    BY <2>2 DEF Evidence, DeltaIsComplete, CarriesAllowed
  <2> QED  BY <2>1, <2>3 DEF Evidence
<1>10. Verdicts'
  <2>1. Own(events, BlockedHost) => Own(events, BlockedHost)'
    <3>1. events' \in Seq(EventLines(Sources))
      BY <1>1, Grown
    <3>2. DOMAIN events = 1..Len(events) /\ DOMAIN events' = 1..Len(events')
      BY <1>1, <3>1, LenProperties
    <3> QED  BY <1>2, <1>3, <3>2 DEF Own
  <2>2. CleanMeansAlerted' /\ Separated'
    BY DEF Verdicts, CleanMeansAlerted, Separated, Clean, CarriesAllowed
  <2>3. SeparationNeverStale'
    BY DEF Verdicts, SeparationNeverStale, OwnValue
  <2>4. ProvedFindingIsKept'
    BY <2>1 DEF Verdicts, ProvedFindingIsKept
  <2> QED  BY <2>2, <2>3, <2>4 DEF Verdicts
<1> QED  BY <1>4, <1>5, <1>6, <1>7, <1>8, <1>9, <1>10 DEF Kept

(* A line in the request log that is no earlier run's.                     *)
LEMMA RequestGrows ==
    ASSUME IInv, NEW l \in RequestLines(Sources), l.src # "earlier",
           requests' = Append(requests, l),
           crowded' = (crowded \/ l.src = "other"),
           UNCHANGED <<configured, events, exists, pc, counts, delta, payload, rotated, outcome>>
    PROVE  Kept'
<1> USE DEF IInv, Kept, counts, payload
<1>1. requests \in Seq(RequestLines(Sources)) /\ requestsBefore \in Nat
  BY DEF TypeOK
<1>2. /\ Len(requests') = Len(requests) + 1 /\ Len(requests) \in Nat
      /\ requests' \in Seq(RequestLines(Sources))
      /\ \A i \in 1..Len(requests) : requests'[i] = requests[i]
      /\ requests'[Len(requests) + 1] = l
      /\ \A i \in 1..Len(requests') :
           (i \in 1..Len(requests) /\ requests'[i] = requests[i]) \/ i = Len(requests) + 1
  BY <1>1, Grown
<1>3. \A h, v : OwnValue(requests, h, v) => OwnValue(requests, h, v)'
  <2>1. DOMAIN requests = 1..Len(requests) /\ DOMAIN requests' = 1..Len(requests')
    BY <1>1, <1>2, LenProperties
  <2> QED  BY <1>2, <2>1 DEF OwnValue
<1>4. Progress' /\ AnsweredIsDone'
  BY DEF Progress, AnsweredIsDone, NoneFrom
<1>5. pc \notin {"crossing", "events", "requests"} \/ ~requestsRead
        \/ "requests" \notin configured \/ Stale(requests', requestsBefore)
  <2> SUFFICES ASSUME Stale(requests, requestsBefore)
               PROVE  Stale(requests', requestsBefore)
    BY DEF StaleIsCounted
  <2> QED  BY <1>2 DEF Stale
<1>6. StaleIsCounted'
  BY <1>5 DEF StaleIsCounted, Stale
<1>7. OthersAreSeen'
  BY <1>2 DEF OthersAreSeen, NoneFrom
<1>8. OwnIsFresh'
  BY DEF OwnIsFresh
<1>9. Evidence'
  BY DEF Evidence, DeltaIsOwn, DeltaIsLogged, DeltaIsComplete, OwnAllowed, CarriesAllowed
<1>10. Verdicts'
  <2>1. CleanMeansAlerted' /\ Separated' /\ ProvedFindingIsKept'
    BY DEF Verdicts, CleanMeansAlerted, Separated, ProvedFindingIsKept, Clean, CarriesAllowed, Own
  <2>2. SeparationNeverStale'
    BY <1>3 DEF Verdicts, SeparationNeverStale
  <2> QED  BY <2>1, <2>2 DEF Verdicts
<1> QED  BY <1>4, <1>6, <1>7, <1>8, <1>9, <1>10 DEF Kept

(* What the second read of the events saw is in the log still: with no     *)
(* alert of this run there, the missing alert is among the findings.       *)
LEMMA UnalertedIsProved ==
    ASSUME IInv, baseline \in {"read", "missing"}, ~crowded, ~rotated, ~Own(events, BlockedHost)
    PROVE  "violation_unalerted" \in AlertFindings(delta)
<1> USE DEF IInv, Kept, Evidence
<1>1. events \in Seq(EventLines(Sources)) /\ DOMAIN events = 1..Len(events)
  BY LenProperties DEF TypeOK
<1>2. \A e \in delta : e.host # BlockedHost
  BY <1>1 DEF DeltaIsOwn, DeltaIsLogged, Own
<1> QED  BY <1>2 DEF AlertFindings

(* A rotation moves lines towards the front and adds none.                 *)
LEMMA RotateKeeps == IInv /\ Rotate => TypeOK' /\ Kept'
<1> SUFFICES ASSUME IInv, Rotate
             PROVE  TypeOK' /\ Kept'
  OBVIOUS
<1> USE DEF IInv, Kept, Rotate, counts, payload, Running
<1>1. /\ events \in Seq(EventLines(Sources)) /\ requests \in Seq(RequestLines(Sources))
      /\ eventsBefore \in Nat /\ requestsBefore \in Nat /\ rotated' = TRUE
  BY DEF TypeOK
<1>2. \/ events' \in Rotations(events) /\ requests' = requests
      \/ requests' \in Rotations(requests) /\ events' = events
  OBVIOUS
<1>3. /\ events' \in Seq(EventLines(Sources))
      /\ \E k \in Nat : \A i \in 1..Len(events') :
           i + k \in 1..Len(events) /\ events'[i] = events[i + k]
  <2>1. CASE events' \in Rotations(events)
    BY <1>1, <2>1, Rotated
  <2>2. CASE events' = events
    BY <1>1, <2>2, NotRotated
  <2> QED  BY <1>2, <2>1, <2>2
<1>4. /\ requests' \in Seq(RequestLines(Sources))
      /\ \E k \in Nat : \A i \in 1..Len(requests') :
           i + k \in 1..Len(requests) /\ requests'[i] = requests[i + k]
  <2>1. CASE requests' \in Rotations(requests)
    BY <1>1, <2>1, Rotated
  <2>2. CASE requests' = requests
    BY <1>1, <2>2, NotRotated
  <2> QED  BY <1>2, <2>1, <2>2
<1>5. PICK k \in Nat : \A i \in 1..Len(events') :
           i + k \in 1..Len(events) /\ events'[i] = events[i + k]
  BY <1>3
<1>6. PICK m \in Nat : \A i \in 1..Len(requests') :
           i + m \in 1..Len(requests) /\ requests'[i] = requests[i + m]
  BY <1>4
<1>7. TypeOK'
  BY <1>3, <1>4 DEF TypeOK, PayloadTypeOK
<1>8. Progress'
  <2>1. events = <<>> => events' = <<>>
    <3> SUFFICES ASSUME events = <<>>
                 PROVE  events' = <<>>
      OBVIOUS
    <3>1. Len(events) = 0 /\ Len(events') \in Nat
      BY <1>3, EmptySeq
    <3>2. Len(events') = 0
      BY <3>1, <1>5
    <3> QED  BY <1>3, <3>2, EmptySeq
  <2> QED  BY <2>1 DEF Progress
<1>9. StaleIsCounted'
  <2>1. Stale(events, eventsBefore) => Stale(events', eventsBefore)
    BY <1>1, <1>3, <1>5 DEF Stale
  <2>2. Stale(requests, requestsBefore) => Stale(requests', requestsBefore)
    <3> SUFFICES ASSUME Stale(requests, requestsBefore), NEW i \in 1..Len(requests'),
                        requests'[i].src = "earlier"
                 PROVE  i <= requestsBefore
      BY DEF Stale
    <3>1. i + m \in 1..Len(requests) /\ requests[i + m].src = "earlier"
      BY <1>6
    <3>2. i + m <= requestsBefore
      BY <3>1 DEF Stale
    <3> QED  BY <1>1, <1>4, <3>2
  <2>3. StaleIsCounted' = (/\ baseline \in {"read", "missing"} => Stale(events', eventsBefore)
                           /\ (pc \in {"crossing", "events", "requests"} /\ requestsRead
                                 /\ "requests" \in configured)
                              => Stale(requests', requestsBefore))
    BY DEF StaleIsCounted, Stale
  <2> QED  BY <2>1, <2>2, <2>3 DEF StaleIsCounted
<1>10. OthersAreSeen'
  BY <1>5, <1>6 DEF OthersAreSeen, NoneFrom
<1>11. OwnIsFresh' /\ AnsweredIsDone'
  BY <1>1 DEF OwnIsFresh, AnsweredIsDone
<1>12. Evidence'
  BY <1>1 DEF Evidence, DeltaIsOwn, DeltaIsLogged, DeltaIsComplete
<1>13. Verdicts'
  BY DEF Verdicts, CleanMeansAlerted, Separated, SeparationNeverStale, ProvedFindingIsKept,
         Clean, Progress
<1> QED  BY <1>7, <1>8, <1>9, <1>10, <1>11, <1>12, <1>13

(* A step that ends the run with an error, leaving all else as it was.     *)
LEMMA ErrorKeeps ==
    ASSUME IInv, NEW findings, NEW errors,
           Finish(findings, errors, "failed"), pc # "done",
           "events" \in configured /\ errors \subseteq {"read_request_log", "channel_separation"}
             => /\ pc = "requests"
                /\ findings = AlertFindings(delta),
           UNCHANGED <<world, counts, delta>>
    PROVE  Kept'
<1> USE DEF IInv, Kept, Finish, world, files, counts, payload, history
<1>1. Progress' /\ StaleIsCounted' /\ OthersAreSeen' /\ OwnIsFresh' /\ AnsweredIsDone'
  BY DEF Progress, StaleIsCounted, Stale, OthersAreSeen, NoneFrom, OwnIsFresh, AnsweredIsDone
<1>2. Evidence'
  BY DEF Evidence, DeltaIsOwn, DeltaIsLogged, DeltaIsComplete
<1>3. CleanMeansAlerted' /\ Separated' /\ SeparationNeverStale'
  BY DEF CleanMeansAlerted, Separated, SeparationNeverStale, Clean
<1>4. ProvedFindingIsKept'
  <2> SUFFICES ASSUME "events" \in configured,
                      errors \subseteq {"read_request_log", "channel_separation"},
                      baseline # "failed", ~crowded, ~rotated, ~Own(events, BlockedHost)
               PROVE  "violation_unalerted" \in findings
    BY DEF ProvedFindingIsKept, Own
  <2>1. pc = "requests" /\ findings = AlertFindings(delta)
    OBVIOUS
  <2>2. baseline \in {"read", "missing"}
    BY <2>1 DEF Progress, TypeOK
  <2> QED  BY <2>1, <2>2, UnalertedIsProved
<1> QED  BY <1>1, <1>2, <1>3, <1>4 DEF Verdicts

(* No finding means an alert of the right severity.                        *)
LEMMA NoFindingMeansAlert ==
    \A w : AlertFindings(w) = {} => \E e \in w : e.host = BlockedHost /\ e.value = "HIGH"
<1> SUFFICES ASSUME NEW w, AlertFindings(w) = {}
             PROVE  \E e \in w : e.host = BlockedHost /\ e.value = "HIGH"
  OBVIOUS
<1>1. {e \in w : e.host = BlockedHost} # {}
  BY DEF AlertFindings
<1>2. ~ \A e \in {x \in w : x.host = BlockedHost} : e.value # "HIGH"
  BY <1>1 DEF AlertFindings, Understated
<1> QED  BY <1>2

(* The second read of the events: what its window holds, and the verdict   *)
(* if this is already the end.                                             *)
LEMMA ReadEventsKeeps == IInv /\ ReadEvents => TypeOK' /\ Kept'
<1> SUFFICES ASSUME IInv, ReadEvents
             PROVE  TypeOK' /\ Kept'
  OBVIOUS
<1> USE DEF IInv, Kept
<1> DEFINE w == Entries(Window(events, eventsBefore))
<1>0. /\ pc = "events" /\ baseline # "none" /\ UNCHANGED <<world, counts>>
      /\ events \in Seq(EventLines(Sources)) /\ eventsBefore \in Nat
      /\ baseline \in {"none", "read", "missing", "failed"}
      /\ outcome.control # "held"
  BY DEF ReadEvents, Progress, TypeOK
<1>1. \A e \in w : \E i \in 1..Len(events) : i > eventsBefore /\ events[i] = e
  BY <1>0, WindowEntries
<1>2. \A i \in 1..Len(events) : i > eventsBefore /\ IsEntry(events[i]) => events[i] \in w
  BY <1>0, WindowEntries
<1> HIDE DEF w
<1>3. w \subseteq EventLines(Sources)
  BY <1>0, <1>1, ElementOfSeq
<1>4. ASSUME baseline # "failed", ~crowded
      PROVE  \A e \in w : e.src = "own"
  <2>1. Stale(events, eventsBefore) /\ NoneFrom(events, "other")
    BY <1>0, <1>4 DEF StaleIsCounted, OthersAreSeen
  <2>2. \A l \in EventLines(Sources) : l.src \in Sources
    BY LineFields
  <2>3. \A i \in 1..Len(events) : i > eventsBefore => events[i].src = "own"
    BY <1>0, <2>1, <2>2, BehindIsOwn
  <2> QED  BY <1>1, <2>3
<1>5. ~rotated /\ OwnAllowed(events) => CarriesAllowed(w)
  BY <1>0, <1>2 DEF OwnIsFresh, OwnAllowed, CarriesAllowed, IsEntry, Hosts
<1>6. CASE Shrank(events, eventsBefore)
  <2>1. Finish({}, {"read_events"}, "failed") /\ UNCHANGED delta
    BY <1>6 DEF ReadEvents
  <2>2. Kept'
    BY <1>0, <2>1, ErrorKeeps
  <2>3. TypeOK'
    BY <1>0, <2>1 DEF TypeOK, PayloadTypeOK, Finish, world, files, counts, payload, history
  <2> QED  BY <2>2, <2>3
<1>7. CASE ~Shrank(events, eventsBefore)
  <2>1. /\ delta' = w
        /\ \/ /\ "requests" \notin configured
              /\ Finish(AlertFindings(w), {}, "held")
           \/ Finish(AlertFindings(w), {"channel_separation"}, "failed")
           \/ /\ "requests" \in configured /\ requestsRead
              /\ pc' = "requests" /\ UNCHANGED outcome
    BY <1>0, <1>7 DEF ReadEvents, w, TypeOK
  <2> USE DEF Finish, world, files, counts, payload, history
  <2>2. AlertFindings(w) \subseteq {"violation_unalerted", "severity_understated"}
    BY DEF AlertFindings
  <2>3. TypeOK'
    BY <1>0, <1>3, <2>1, <2>2 DEF TypeOK, PayloadTypeOK
  <2>4. Progress'
    BY <1>0, <2>1 DEF Progress, NoneFrom
  <2>5. StaleIsCounted' /\ OthersAreSeen' /\ OwnIsFresh' /\ AnsweredIsDone'
    BY <1>0, <2>1 DEF StaleIsCounted, Stale, OthersAreSeen, NoneFrom, OwnIsFresh, AnsweredIsDone
  <2>6. DeltaIsOwn' /\ DeltaIsLogged'
    BY <1>0, <1>1, <1>4, <2>1 DEF DeltaIsOwn, DeltaIsLogged
  <2>7. DeltaIsComplete'
    BY <1>0, <1>5, <2>1 DEF DeltaIsComplete, OwnAllowed, CarriesAllowed
  <2>8. CleanMeansAlerted'
    <3> SUFFICES ASSUME Clean', baseline # "failed", ~crowded
                 PROVE  [host |-> BlockedHost, value |-> "HIGH", src |-> "own"] \in w
      BY <1>0, <2>1 DEF CleanMeansAlerted
    <3>1. AlertFindings(w) = {}
      BY <1>0, <2>1 DEF Clean
    <3>2. PICK e \in w : e.host = BlockedHost /\ e.value = "HIGH"
      BY <3>1, NoFindingMeansAlert
    <3>3. e.src = "own" /\ e \in EventLines(Sources)
      BY <1>3, <1>4
    <3> QED  BY <3>2, <3>3, LineFields
  <2>9. Separated' /\ SeparationNeverStale'
    BY <1>0, <2>1 DEF Separated, SeparationNeverStale, Clean
  <2>10. ProvedFindingIsKept'
    <3> SUFFICES ASSUME pc' = "done", baseline # "failed", ~crowded, ~rotated,
                        ~Own(events, BlockedHost)
                 PROVE  "violation_unalerted" \in outcome'.findings
      BY <1>0, <2>1 DEF ProvedFindingIsKept, Own
    <3>1. DOMAIN events = 1..Len(events)
      BY <1>0, LenProperties
    <3>2. \A e \in w : e.host # BlockedHost
      BY <1>1, <1>4, <3>1 DEF Own
    <3>3. "violation_unalerted" \in AlertFindings(w)
      BY <3>2 DEF AlertFindings
    <3> QED  BY <2>1, <3>3
  <2> QED  BY <2>3, <2>4, <2>5, <2>6, <2>7, <2>8, <2>9, <2>10 DEF Evidence, Verdicts
<1> QED  BY <1>6, <1>7

(* The second read of the request log: its verdict, good or bad, is drawn  *)
(* from this run's pair.                                                   *)
LEMMA ReadRequestsKeeps == IInv /\ ReadRequests => TypeOK' /\ Kept'
<1> SUFFICES ASSUME IInv, ReadRequests
             PROVE  TypeOK' /\ Kept'
  OBVIOUS
<1> USE DEF IInv, Kept
<1> DEFINE w == Entries(Window(requests, requestsBefore))
           found == AlertFindings(delta)
                      \cup (IF CarriesAllowed(delta) THEN {"channel_not_separated"} ELSE {})
<1>0. /\ pc = "requests" /\ requestsRead /\ "requests" \in configured
      /\ baseline \in {"read", "missing", "failed"}
      /\ UNCHANGED <<world, counts, delta>>
      /\ requests \in Seq(RequestLines(Sources)) /\ requestsBefore \in Nat
  BY DEF ReadRequests, Progress, TypeOK
<1>1. AlertFindings(delta) \subseteq {"violation_unalerted", "severity_understated"}
  BY DEF AlertFindings
<1>2. CASE ~(Finish(found, {}, "held") /\ Evaluable(w))
  <2>1. PICK e \in {"read_request_log", "channel_separation"} :
          Finish(AlertFindings(delta), {e}, "failed")
    BY <1>2 DEF ReadRequests, ProvedFindings
  <2>2. Kept'
    BY <1>0, <2>1, ErrorKeeps
  <2>3. TypeOK'
    BY <1>0, <1>1, <2>1 DEF TypeOK, PayloadTypeOK, Finish, world, files, counts, payload, history
  <2> QED  BY <2>2, <2>3
<1>3. CASE Finish(found, {}, "held") /\ Evaluable(w)
  <2>1. \A e \in w : \E i \in 1..Len(requests) : i > requestsBefore /\ requests[i] = e
    BY <1>0, WindowEntries
  <2> HIDE DEF w
  <2>2. ASSUME ~crowded, NEW e \in w, e.host \in Hosts
        PROVE  OwnValue(requests, e.host, e.value)
    <3>1. Stale(requests, requestsBefore) /\ NoneFrom(requests, "other")
      BY <1>0, <2>2 DEF StaleIsCounted, OthersAreSeen
    <3>2. \A i \in 1..Len(requests) : i > requestsBefore => requests[i].src = "own"
      BY <1>0, <3>1, LineFields, BehindIsOwn
    <3>3. PICK i \in 1..Len(requests) : requests[i] = e /\ e.src = "own"
      BY <2>1, <3>2
    <3>4. e \in RequestLines(Sources)
      BY <1>0, <3>3, ElementOfSeq
    <3>5. e = [host |-> e.host, value |-> e.value, src |-> "own"]
      BY <2>2, <3>3, <3>4, LineFields
    <3>6. i \in DOMAIN requests
      BY <1>0, LenProperties
    <3> QED  BY <3>3, <3>5, <3>6 DEF OwnValue
  <2>3. ~crowded => /\ OwnValue(requests, AllowedHost, "allow")
                    /\ OwnValue(requests, BlockedHost, "deny")
    BY <1>3, <2>2 DEF Evaluable, Hosts
  <2> USE DEF Finish, world, files, counts, payload, history
  <2>4. TypeOK'
    BY <1>0, <1>1, <1>3 DEF TypeOK, PayloadTypeOK
  <2>5. Progress' /\ StaleIsCounted' /\ OthersAreSeen' /\ OwnIsFresh' /\ AnsweredIsDone'
    BY <1>0, <1>3 DEF Progress, NoneFrom, StaleIsCounted, Stale, OthersAreSeen, OwnIsFresh,
                      AnsweredIsDone
  <2>6. Evidence'
    BY <1>0, <1>3 DEF Evidence, DeltaIsOwn, DeltaIsLogged, DeltaIsComplete, OwnAllowed,
                      CarriesAllowed
  <2>7. CleanMeansAlerted'
    <3> SUFFICES ASSUME Clean', baseline # "failed", ~crowded
                 PROVE  [host |-> BlockedHost, value |-> "HIGH", src |-> "own"] \in delta
      BY <1>0 DEF CleanMeansAlerted
    <3>1. AlertFindings(delta) = {}
      BY <1>3 DEF Clean
    <3>2. PICK e \in delta : e.host = BlockedHost /\ e.value = "HIGH"
      BY <3>1, NoFindingMeansAlert
    <3>3. e.src = "own" /\ e \in EventLines(Sources)
      BY <1>0 DEF Evidence, DeltaIsOwn, TypeOK
    <3> QED  BY <3>2, <3>3, LineFields
  <2>8. Separated' /\ SeparationNeverStale'
    BY <1>0, <1>3, <2>3 DEF Separated, SeparationNeverStale, Clean, OwnValue, CarriesAllowed
  <2>9. ProvedFindingIsKept'
    <3> SUFFICES ASSUME baseline # "failed", ~crowded, ~rotated, ~Own(events, BlockedHost)
                 PROVE  "violation_unalerted" \in found
      BY <1>0, <1>3 DEF ProvedFindingIsKept, Own
    <3> QED  BY <1>0, UnalertedIsProved
  <2> QED  BY <2>4, <2>5, <2>6, <2>7, <2>8, <2>9 DEF Verdicts
<1> QED  BY <1>2, <1>3

(* A step of the payload leaves its variables well typed.                 *)
LEMMA PayloadStepTypeOK ==
    ASSUME PayloadTypeOK, PayloadStep
    PROVE  PayloadTypeOK'
<1>1. Len(ProbeHosts) = 2 /\ ProbeHosts[1] \in Hosts /\ ProbeHosts[2] \in Hosts
  BY DEF ProbeHosts, Hosts
<1>2. step \in 1..3 /\ (waiting => step - 1 \in 1..2)
  BY <1>1 DEF PayloadTypeOK
<1>3. waiting => LastSent \in Hosts
  BY <1>1, <1>2 DEF LastSent
<1>4. CASE SendNext
  BY <1>4, <1>1, <1>2 DEF SendNext, PayloadTypeOK
<1>5. CASE GetAnswer
  BY <1>5, <1>3 DEF GetAnswer, PayloadTypeOK
<1>6. CASE GiveUp
  BY <1>6 DEF GiveUp, PayloadTypeOK
<1> QED  BY <1>4, <1>5, <1>6 DEF PayloadStep

(* The allowed host is crossed to once, so its answer is the end of it.    *)
LEMMA PayloadStepAnswers ==
    ASSUME PayloadTypeOK, AnsweredIsDone, PayloadStep
    PROVE  AnsweredIsDone'
<1>1. /\ Len(ProbeHosts) = 2 /\ ProbeHosts[1] = AllowedHost /\ ProbeHosts[2] = BlockedHost
      /\ AllowedHost # BlockedHost
  BY HostsDistinct DEF ProbeHosts
<1>2. step \in 1..3 /\ (waiting => step > 1)
  BY <1>1 DEF PayloadTypeOK
<1>3. CASE SendNext
  BY <1>1, <1>2, <1>3 DEF SendNext, AnsweredIsDone
<1>4. CASE GetAnswer
  BY <1>2, <1>4 DEF GetAnswer, AnswerIsThere, AnsweredIsDone
<1>5. CASE GiveUp
  BY <1>5 DEF GiveUp, AnsweredIsDone
<1> QED  BY <1>3, <1>4, <1>5 DEF PayloadStep

(* Every step keeps the inductive invariant.                              *)
LEMMA NextIInv == IInv /\ [Next]_vars => IInv'
<1> SUFFICES ASSUME IInv, [Next]_vars
             PROVE  TypeOK' /\ Kept'
  BY DEF IInv
<1> USE DEF IInv, world, files, counts, history
<1>1. ASSUME NoEventChannel \/ PayloadFails \/ ReadEventsFails
      PROVE  TypeOK' /\ Kept'
  <2>1. PICK found \in {{}, {"no_event_channel"}}, failed \in {{}, {"exec"}, {"read_events"}} :
          /\ Finish(found, failed, "failed") /\ pc # "done"
          /\ "events" \in configured => failed # {}
          /\ UNCHANGED <<world, counts, delta>>
    BY <1>1 DEF NoEventChannel, PayloadFails, ReadEventsFails
  <2>2. ~("events" \in configured /\ failed \subseteq {"read_request_log", "channel_separation"})
    BY <2>1
  <2>3. Kept'
    BY <2>1, <2>2, ErrorKeeps
  <2>4. TypeOK'
    BY <2>1 DEF TypeOK, PayloadTypeOK, payload, Finish
  <2> QED  BY <2>3, <2>4
<1>2. CASE ReadEventsBaseline
  <2> USE <1>2 DEF ReadEventsBaseline, Kept, payload
  <2>0. Len(events) \in Nat /\ outcome.control # "held"
    BY DEF TypeOK, Progress
  <2>1. TypeOK'
    BY <2>0 DEF TypeOK, PayloadTypeOK, Count
  <2>2. Progress' /\ OthersAreSeen' /\ AnsweredIsDone'
    BY <2>0 DEF Progress, OthersAreSeen, NoneFrom, AnsweredIsDone
  <2>3. StaleIsCounted' /\ OwnIsFresh'
    BY <2>0 DEF StaleIsCounted, Stale, OwnIsFresh, Progress, NoneFrom, Count
  <2>4. Evidence'
    BY <2>0 DEF Evidence, DeltaIsOwn, DeltaIsLogged, DeltaIsComplete, Progress
  <2>5. Verdicts'
    BY <2>0 DEF Verdicts, CleanMeansAlerted, Separated, SeparationNeverStale,
                ProvedFindingIsKept, Clean
  <2> QED  BY <2>1, <2>2, <2>3, <2>4, <2>5
<1>3. CASE ReadRequestsBaseline
  <2> USE <1>3 DEF ReadRequestsBaseline, BaselineUsable, Kept, payload
  <2>0. Len(requests) \in Nat /\ outcome.control # "held"
    BY DEF TypeOK, Progress
  <2>1. TypeOK'
    BY <2>0 DEF TypeOK, PayloadTypeOK, Count
  <2>2. Progress' /\ OthersAreSeen' /\ AnsweredIsDone' /\ OwnIsFresh'
    BY <2>0 DEF Progress, OthersAreSeen, NoneFrom, AnsweredIsDone, OwnIsFresh
  <2>3. StaleIsCounted'
    BY <2>0 DEF StaleIsCounted, Stale, Count
  <2>4. Evidence'
    BY <2>0 DEF Evidence, DeltaIsOwn, DeltaIsLogged, DeltaIsComplete
  <2>5. Verdicts'
    BY <2>0 DEF Verdicts, CleanMeansAlerted, Separated, SeparationNeverStale,
                ProvedFindingIsKept, Clean
  <2> QED  BY <2>1, <2>2, <2>3, <2>4, <2>5
<1>4. CASE Crossing
  <2> USE <1>4 DEF Crossing, Kept
  <2>0. outcome.control # "held"
    BY DEF Progress
  <2>1. PayloadTypeOK' /\ AnsweredIsDone'
    BY PayloadStepTypeOK, PayloadStepAnswers DEF TypeOK
  <2>2. TypeOK'
    BY <2>1 DEF TypeOK
  <2>3. Progress' /\ StaleIsCounted' /\ OthersAreSeen' /\ OwnIsFresh'
    BY DEF Progress, StaleIsCounted, Stale, OthersAreSeen, NoneFrom, OwnIsFresh
  <2>4. Evidence'
    BY <2>0 DEF Evidence, DeltaIsOwn, DeltaIsLogged, DeltaIsComplete
  <2>5. Verdicts'
    BY <2>0 DEF Verdicts, CleanMeansAlerted, Separated, SeparationNeverStale,
                ProvedFindingIsKept, Clean
  <2> QED  BY <2>1, <2>2, <2>3, <2>4, <2>5
<1>5. CASE PayloadReports
  <2> USE <1>5 DEF PayloadReports, Kept, payload
  <2>0. outcome.control # "held"
    BY DEF Progress
  <2>1. TypeOK'
    BY DEF TypeOK, PayloadTypeOK
  <2>2. Progress' /\ StaleIsCounted' /\ OthersAreSeen' /\ OwnIsFresh' /\ AnsweredIsDone'
    BY DEF Progress, StaleIsCounted, Stale, OthersAreSeen, NoneFrom, OwnIsFresh, AnsweredIsDone
  <2>3. Evidence'
    BY <2>0 DEF Evidence, DeltaIsOwn, DeltaIsLogged, DeltaIsComplete
  <2>4. Verdicts'
    BY <2>0 DEF Verdicts, CleanMeansAlerted, Separated, SeparationNeverStale,
                ProvedFindingIsKept, Clean
  <2> QED  BY <2>1, <2>2, <2>3, <2>4
<1>6. CASE ReadEvents
  BY <1>6, ReadEventsKeeps
<1>7. CASE ReadRequestsFails
  <2>1. /\ Finish(AlertFindings(delta), {"read_request_log"}, "failed") /\ pc = "requests"
        /\ UNCHANGED <<world, counts, delta>>
    BY <1>7 DEF ReadRequestsFails, ProvedFindings
  <2>2. Kept'
    BY <2>1, ErrorKeeps
  <2>3. TypeOK'
    BY <2>1 DEF TypeOK, PayloadTypeOK, payload, Finish, AlertFindings
  <2> QED  BY <2>2, <2>3
<1>8. CASE ReadRequests
  BY <1>8, ReadRequestsKeeps
<1>9. ASSUME NEW h \in Hosts, HandleRequest(h)
      PROVE  TypeOK' /\ Kept'
  <2> USE <1>9 DEF HandleRequest, payload
  <2>1. CASE UNCHANGED requests
    <3> USE <2>1 DEF Kept
    <3>1. TypeOK'
      BY DEF TypeOK, PayloadTypeOK
    <3>2. Progress' /\ StaleIsCounted' /\ OthersAreSeen' /\ OwnIsFresh' /\ AnsweredIsDone'
      BY DEF Progress, StaleIsCounted, Stale, OthersAreSeen, NoneFrom, OwnIsFresh, AnsweredIsDone
    <3>3. Evidence'
      BY DEF Evidence, DeltaIsOwn, DeltaIsLogged, DeltaIsComplete, OwnAllowed, CarriesAllowed
    <3>4. Verdicts'
      BY DEF Verdicts, CleanMeansAlerted, Separated, SeparationNeverStale, OwnValue, Own,
             ProvedFindingIsKept, Clean, CarriesAllowed
    <3> QED  BY <3>1, <3>2, <3>3, <3>4
  <2>2. ASSUME NEW l \in RequestLines({"own"}), requests' = Append(requests, l)
        PROVE  TypeOK' /\ Kept'
    <3>1. l \in RequestLines(Sources) /\ l.src = "own"
      BY DEF RequestLines, Lines, Sources
    <3>2. requests' \in Seq(RequestLines(Sources))
      BY <2>2, <3>1, Grown DEF TypeOK
    <3>3. TypeOK'
      BY <3>2 DEF TypeOK, PayloadTypeOK
    <3>4. crowded' = (crowded \/ l.src = "other")
      BY <3>1 DEF TypeOK
    <3> QED  BY <2>2, <3>1, <3>3, <3>4, RequestGrows
  <2> QED  BY <2>1, <2>2
<1>10. ASSUME NEW h \in Hosts, HandleEvent(h)
       PROVE  TypeOK' /\ Kept'
  <2> USE <1>10 DEF HandleEvent
  <2>0. pc # "start" /\ pending' \subseteq pending
    BY DEF Kept, Progress, TypeOK
  <2>1. CASE UNCHANGED <<events, exists>>
    <3> USE <2>1 DEF Kept
    <3>1. TypeOK'
      BY DEF TypeOK, PayloadTypeOK
    <3>2. Progress' /\ StaleIsCounted' /\ OthersAreSeen' /\ OwnIsFresh' /\ AnsweredIsDone'
      BY <2>0 DEF Progress, StaleIsCounted, Stale, OthersAreSeen, NoneFrom, OwnIsFresh,
                  AnsweredIsDone
    <3>3. Evidence'
      BY DEF Evidence, DeltaIsOwn, DeltaIsLogged, DeltaIsComplete, OwnAllowed, CarriesAllowed
    <3>4. Verdicts'
      BY DEF Verdicts, CleanMeansAlerted, Separated, SeparationNeverStale, OwnValue, Own,
             ProvedFindingIsKept, Clean, CarriesAllowed
    <3> QED  BY <3>1, <3>2, <3>3, <3>4
  <2>2. ASSUME NEW l \in EventLines({"own"}), l.host = h, events' = Append(events, l),
               exists' = TRUE
        PROVE  TypeOK' /\ Kept'
    <3>1. l \in EventLines(Sources) /\ l.src = "own"
      BY DEF EventLines, Lines, Sources
    <3>2. events' \in Seq(EventLines(Sources))
      BY <2>2, <3>1, Grown DEF TypeOK
    <3>3. TypeOK'
      BY <2>2, <3>2 DEF TypeOK, PayloadTypeOK
    <3>4. crowded' = (crowded \/ l.src = "other")
      BY <3>1 DEF TypeOK
    <3>5. l.host = AllowedHost => AllowedHost \notin answered
      BY <2>2 DEF Kept, AnsweredIsDone
    <3> QED  BY <2>0, <2>2, <3>1, <3>3, <3>4, <3>5, EventGrows
  <2> QED  BY <2>1, <2>2
<1>11. CASE OtherWrites
  <2> USE <1>11 DEF OtherWrites, payload
  <2>0. pc # "start" /\ crowded' = TRUE
    BY DEF Running
  <2>1. ASSUME NEW l \in OtherEvents, events' = Append(events, l), exists' = TRUE,
               UNCHANGED requests
        PROVE  TypeOK' /\ Kept'
    <3>1. l \in EventLines(Sources) /\ l.src = "other"
      BY DetectionAssumption DEF EventLines, Lines, Sources
    <3>2. events' \in Seq(EventLines(Sources))
      BY <2>1, <3>1, Grown DEF TypeOK
    <3>3. TypeOK'
      BY <2>0, <2>1, <3>2 DEF TypeOK, PayloadTypeOK
    <3> QED  BY <2>0, <2>1, <3>1, <3>3, EventGrows
  <2>2. ASSUME NEW l \in OtherRequests, requests' = Append(requests, l),
               UNCHANGED <<events, exists>>
        PROVE  TypeOK' /\ Kept'
    <3>1. l \in RequestLines(Sources) /\ l.src = "other"
      BY DetectionAssumption DEF RequestLines, Lines, Sources
    <3>2. requests' \in Seq(RequestLines(Sources))
      BY <2>2, <3>1, Grown DEF TypeOK
    <3>3. TypeOK'
      BY <2>0, <2>2, <3>2 DEF TypeOK, PayloadTypeOK
    <3> QED  BY <2>0, <2>2, <3>1, <3>3, RequestGrows
  <2> QED  BY <2>1, <2>2
<1>12. CASE Rotate
  BY <1>12, RotateKeeps
<1>13. CASE UNCHANGED vars
  <2> USE <1>13 DEF vars, payload, Kept
  <2>1. TypeOK'
    BY DEF TypeOK, PayloadTypeOK
  <2>2. Progress' /\ StaleIsCounted' /\ OthersAreSeen' /\ OwnIsFresh' /\ AnsweredIsDone'
    BY DEF Progress, StaleIsCounted, Stale, OthersAreSeen, NoneFrom, OwnIsFresh, AnsweredIsDone
  <2>3. Evidence'
    BY DEF Evidence, DeltaIsOwn, DeltaIsLogged, DeltaIsComplete, OwnAllowed, CarriesAllowed
  <2>4. Verdicts'
    BY DEF Verdicts, CleanMeansAlerted, Separated, SeparationNeverStale, OwnValue, Own,
           ProvedFindingIsKept, Clean, CarriesAllowed
  <2> QED  BY <2>1, <2>2, <2>3, <2>4
<1> QED  BY <1>1, <1>2, <1>3, <1>4, <1>5, <1>6, <1>7, <1>8, <1>9, <1>10, <1>11, <1>12, <1>13
         DEF Next

(* The inductive invariant holds in every reachable state.                *)
THEOREM IInvHolds == Spec => []IInv
  BY InitIInv, NextIInv, PTL DEF Spec

-----------------------------------------------------------------------------
(* The type invariant, for logs of any length.                             *)
THEOREM DetectionTypeCorrect == Spec => []TypeOK
  BY IInvHolds, PTL DEF IInv

(* A clean answer rests on the HIGH alert of this very run, unless the     *)
(* baseline read failed or others wrote to a log; rotations make no        *)
(* difference (detection.py:13-25).                                        *)
THEOREM AlertedTheorem == Spec => []CleanMeansAlerted
  BY IInvHolds, PTL DEF IInv, Kept, Verdicts

(* The verdict on channel separation is drawn from this run's pair of      *)
(* crossings, not from a stale one (detection.py:61-70).                   *)
THEOREM SeparationTheorem == Spec => []SeparationNeverStale
  BY IInvHolds, PTL DEF IInv, Kept, Verdicts

(* A missing alert that the events proved is among the findings, whatever  *)
(* the request log does afterwards (detection.py:72-77).                   *)
THEOREM ProvedFindingTheorem == Spec => []ProvedFindingIsKept
  BY IInvHolds, PTL DEF IInv, Kept, Verdicts

(* With a request log, a clean answer means that both crossings of this    *)
(* run went through and that the allowed one, if answered, raised nothing  *)
(* in the alert channel (detection.py:35-48).                              *)
THEOREM SeparatedTheorem == Spec => []CleanMeansSeparated
<1>1. IInv => CleanMeansSeparated
  <2> SUFFICES ASSUME IInv, Clean, "requests" \in configured, ~crowded, ~rotated
               PROVE  /\ OwnValue(requests, AllowedHost, "allow")
                      /\ OwnValue(requests, BlockedHost, "deny")
                      /\ AllowedHost \in answered => ~Own(events, AllowedHost)
    BY DEF CleanMeansSeparated
  <2> USE DEF IInv, Kept, Evidence, Verdicts
  <2>1. /\ OwnValue(requests, AllowedHost, "allow")
        /\ OwnValue(requests, BlockedHost, "deny")
    BY DEF SeparationNeverStale, Clean
  <2>2. ~CarriesAllowed(delta)
    BY DEF Separated
  <2>3. AllowedHost \in answered => ~OwnAllowed(events)
    BY <2>2 DEF DeltaIsComplete, Clean
  <2>4. DOMAIN events = 1..Len(events)
    BY LenProperties DEF TypeOK
  <2> QED  BY <2>1, <2>3, <2>4 DEF Own, OwnAllowed
<1> QED  BY <1>1, IInvHolds, PTL

-----------------------------------------------------------------------------
(* What a set of findings says about the window it was drawn from.         *)
Fits(found, window) ==
    LET matching == {e \in window : e.host = BlockedHost}
    IN  /\ "violation_unalerted" \in found => matching = {}
        /\ "severity_understated" \in found =>
              matching # {} /\ \A e \in matching : e.value # "HIGH"
        /\ "channel_not_separated" \in found => CarriesAllowed(window)

WindowIsAccounted == \A e \in delta : Accounted(e)

NoVerdict == outcome.findings = {} /\ outcome.control = "none"

PairIsFresh ==
    outcome.control = "held" /\ "requests" \in configured =>
        NotStale(AllowedHost, "allow") /\ NotStale(BlockedHost, "deny")

CleanIsAlerted ==
    Clean => \E e \in delta : e.host = BlockedHost /\ e.value = "HIGH"

(* The verdict has its ground, and there is none before the end.           *)
VerdictInv ==
    /\ WindowIsAccounted
    /\ pc # "done" => NoVerdict
    /\ Fits(outcome.findings, delta) /\ CleanIsAlerted /\ PairIsFresh

(* What the alerts prove, they prove.                                      *)
LEMMA AlertsFit ==
    \A w : /\ Fits(AlertFindings(w), w)
           /\ CarriesAllowed(w) => Fits(AlertFindings(w) \cup {"channel_not_separated"}, w)
  BY DEF Fits, AlertFindings, Understated

(* A line behind the count is accounted for.                               *)
LEMMA WindowOfEvents ==
    ASSUME IInv, NEW e \in Entries(Window(events, eventsBefore)), baseline # "none"
    PROVE  Accounted(e)
<1> USE DEF IInv, Kept
<1>1. events \in Seq(EventLines(Sources)) /\ eventsBefore \in Nat
  BY DEF TypeOK
<1>2. PICK i \in 1..Len(events) : i > eventsBefore /\ events[i] = e
  BY <1>1, WindowEntries
<1>3. e.src = "earlier" => baseline = "failed"
  <2> SUFFICES ASSUME baseline \in {"read", "missing"}
               PROVE  e.src # "earlier"
    BY DEF TypeOK
  <2>1. Stale(events, eventsBefore)
    BY DEF StaleIsCounted
  <2> QED  BY <1>1, <1>2, <2>1 DEF Stale
<1>4. e.src = "other" => crowded
  BY <1>2 DEF OthersAreSeen, NoneFrom
<1> QED  BY <1>3, <1>4 DEF Accounted

(* A log that only grows keeps the pair it shows.                          *)
LEMMA PairStays ==
    ASSUME requests \in Seq(RequestLines(Sources)), requests' \in Seq(RequestLines(Sources)),
           Len(requests) <= Len(requests'),
           \A i \in 1..Len(requests) : requests'[i] = requests[i],
           PairIsFresh, UNCHANGED <<outcome, configured>>
    PROVE  PairIsFresh'
<1>1. DOMAIN requests = 1..Len(requests) /\ DOMAIN requests' = 1..Len(requests')
  BY LenProperties
<1>2. Len(requests) \in Nat /\ Len(requests') \in Nat
  BY LenProperties
<1>3. \A i \in DOMAIN requests : i \in DOMAIN requests' /\ requests'[i] = requests[i]
  BY <1>1, <1>2
<1> QED  BY <1>3 DEF PairIsFresh, NotStale

(* Every step keeps the ground of the verdict.                             *)
LEMMA VerdictStep == IInv /\ IInv' /\ VerdictInv /\ [Next]_vars => VerdictInv'
<1> SUFFICES ASSUME IInv, IInv', VerdictInv, [Next]_vars
             PROVE  VerdictInv'
  OBVIOUS
<1> USE DEF VerdictInv, world, files, counts, history
<1>0. /\ requests \in Seq(RequestLines(Sources)) /\ requests' \in Seq(RequestLines(Sources))
      /\ pc \in {"start", "baseline", "crossing", "events"} => delta = {}
      /\ pc \in {"baseline", "crossing", "events", "requests"} => baseline # "none"
      /\ crowded \in BOOLEAN
  BY DEF IInv, TypeOK, Kept, Progress
<1>1. ASSUME NoEventChannel \/ PayloadFails \/ ReadEventsFails
      PROVE  VerdictInv'
  <2>1. PICK found \in {{}, {"no_event_channel"}} :
          /\ pc' = "done" /\ outcome'.findings = found /\ outcome'.control = "failed"
          /\ UNCHANGED <<baseline, crowded, delta>>
    BY <1>1 DEF NoEventChannel, PayloadFails, ReadEventsFails, Finish
  <2>2. WindowIsAccounted'
    BY <2>1 DEF WindowIsAccounted, Accounted
  <2>3. Fits(outcome'.findings, delta')
    BY <2>1 DEF Fits
  <2> QED  BY <2>1, <2>2, <2>3 DEF CleanIsAlerted, PairIsFresh, Clean
<1>2. ASSUME ReadEventsBaseline \/ ReadRequestsBaseline \/ Crossing \/ PayloadReports
      PROVE  VerdictInv'
  <2>1. /\ pc \in {"start", "baseline", "crossing"} /\ pc' # "done"
        /\ UNCHANGED <<delta, outcome, configured>>
    BY <1>2 DEF ReadEventsBaseline, ReadRequestsBaseline, Crossing, PayloadReports
  <2>2. delta' = {} /\ NoVerdict'
    BY <1>0, <2>1 DEF NoVerdict
  <2> QED  BY <2>2 DEF WindowIsAccounted, Fits, NoVerdict, CleanIsAlerted, PairIsFresh, Clean
<1>3. CASE ReadEvents
  <2> DEFINE w == Entries(Window(events, eventsBefore))
  <2>1. /\ pc = "events" /\ UNCHANGED <<world, counts>>
        /\ \/ Finish({}, {"read_events"}, "failed") /\ UNCHANGED delta
           \/ /\ delta' = w
              /\ \/ /\ "requests" \notin configured
                    /\ Finish(AlertFindings(w), {}, "held")
                 \/ Finish(AlertFindings(w), {"channel_separation"}, "failed")
                 \/ pc' = "requests" /\ UNCHANGED outcome
    BY <1>3 DEF ReadEvents
  <2>2. \A e \in w : Accounted(e)
    BY <1>0, <2>1, WindowOfEvents
  <2> HIDE DEF w
  <2>3. WindowIsAccounted'
    BY <1>0, <2>1, <2>2 DEF WindowIsAccounted, Accounted
  <2>4. pc' # "done" => NoVerdict'
    BY <2>1 DEF Finish, NoVerdict
  <2>5. Fits(outcome'.findings, delta')
    <3>1. \A d : Fits({}, d)
      BY DEF Fits
    <3>2. \/ outcome'.findings = {}
          \/ outcome'.findings = AlertFindings(w) /\ delta' = w
      BY <2>1 DEF Finish, NoVerdict
    <3> QED  BY <3>1, <3>2, AlertsFit
  <2>6. CleanIsAlerted'
    <3> SUFFICES ASSUME Clean'
                 PROVE  \E e \in delta' : e.host = BlockedHost /\ e.value = "HIGH"
      BY DEF CleanIsAlerted
    <3>1. delta' = w /\ AlertFindings(w) = {}
      BY <2>1 DEF Clean, Finish, NoVerdict
    <3> QED  BY <3>1, NoFindingMeansAlert
  <2>7. PairIsFresh'
    BY <2>1 DEF PairIsFresh, Finish, NoVerdict
  <2> QED  BY <2>3, <2>4, <2>5, <2>6, <2>7
<1>4. CASE ReadRequestsFails
  <2>1. /\ Finish(AlertFindings(delta), {"read_request_log"}, "failed")
        /\ UNCHANGED <<world, counts, delta>>
    BY <1>4 DEF ReadRequestsFails, ProvedFindings
  <2> QED  BY <2>1, AlertsFit DEF Finish, WindowIsAccounted, Accounted, CleanIsAlerted,
                                  PairIsFresh, Clean
<1>5. CASE ReadRequests
  <2> DEFINE w == Entries(Window(requests, requestsBefore))
             found == AlertFindings(delta)
                        \cup (IF CarriesAllowed(delta) THEN {"channel_not_separated"} ELSE {})
  <2>1. /\ pc = "requests" /\ UNCHANGED <<world, counts, delta>> /\ pc' = "done"
        /\ \/ outcome'.findings = AlertFindings(delta) /\ outcome'.control = "failed"
           \/ /\ Evaluable(w)
              /\ outcome'.findings = found /\ outcome'.control = "held"
    BY <1>5 DEF ReadRequests, Finish, ProvedFindings
  <2>2. requestsRead /\ "requests" \in configured /\ requestsBefore \in Nat
    BY <2>1 DEF IInv, Kept, Progress, TypeOK
  <2>3. ASSUME NEW e \in w
        PROVE  e.src # "earlier" /\ \E i \in DOMAIN requests : requests[i] = e
    <3>1. Stale(requests, requestsBefore)
      BY <2>1, <2>2 DEF IInv, Kept, StaleIsCounted
    <3>2. PICK i \in 1..Len(requests) : i > requestsBefore /\ requests[i] = e
      BY <1>0, <2>2, WindowEntries
    <3>3. Len(requests) \in Nat /\ DOMAIN requests = 1..Len(requests)
      BY <1>0, LenProperties
    <3> QED  BY <2>2, <3>1, <3>2, <3>3 DEF Stale
  <2> HIDE DEF w
  <2>4. Evaluable(w) => NotStale(AllowedHost, "allow") /\ NotStale(BlockedHost, "deny")
    BY <2>3 DEF Evaluable, NotStale
  <2>5. PairIsFresh'
    BY <2>1, <2>4 DEF PairIsFresh, NotStale
  <2>6. WindowIsAccounted'
    BY <2>1 DEF WindowIsAccounted, Accounted
  <2>7. Fits(outcome'.findings, delta')
    <3>1. CarriesAllowed(delta) => found = AlertFindings(delta) \cup {"channel_not_separated"}
      OBVIOUS
    <3>2. ~CarriesAllowed(delta) => found = AlertFindings(delta)
      OBVIOUS
    <3> QED  BY <2>1, <3>1, <3>2, AlertsFit
  <2>8. CleanIsAlerted'
    BY <2>1, NoFindingMeansAlert DEF CleanIsAlerted, Clean
  <2> QED  BY <2>1, <2>5, <2>6, <2>7, <2>8
<1>6. ASSUME NEW h \in Hosts, HandleRequest(h) \/ HandleEvent(h)
      PROVE  VerdictInv'
  <2>1. UNCHANGED <<delta, outcome, configured, baseline, crowded, pc>>
    BY <1>6 DEF HandleRequest, HandleEvent
  <2>2. /\ Len(requests) <= Len(requests')
        /\ \A i \in 1..Len(requests) : requests'[i] = requests[i]
    <3>1. CASE UNCHANGED requests
      BY <1>0, <3>1, LenProperties
    <3>2. ASSUME NEW l \in RequestLines({"own"}), requests' = Append(requests, l)
          PROVE  /\ Len(requests) <= Len(requests')
                 /\ \A i \in 1..Len(requests) : requests'[i] = requests[i]
      <4>1. l \in RequestLines(Sources)
        BY DEF RequestLines, Lines, Sources
      <4> QED  BY <1>0, <3>2, <4>1, Grown
    <3> QED  BY <1>6, <3>1, <3>2 DEF HandleRequest, HandleEvent
  <2>3. PairIsFresh'
    BY <1>0, <2>1, <2>2, PairStays
  <2>4. WindowIsAccounted' /\ CleanIsAlerted' /\ (pc' # "done" => NoVerdict')
    BY <2>1 DEF WindowIsAccounted, Accounted, CleanIsAlerted, Clean, NoVerdict
  <2> QED  BY <2>1, <2>3, <2>4
<1>7. ASSUME OtherWrites \/ Rotate
      PROVE  VerdictInv'
  <2>1. /\ pc # "done" /\ UNCHANGED <<delta, outcome, configured, baseline, pc>>
        /\ crowded => crowded'
    BY <1>7 DEF OtherWrites, Rotate, Running
  <2>2. NoVerdict'
    BY <2>1 DEF NoVerdict
  <2>3. WindowIsAccounted'
    BY <2>1 DEF WindowIsAccounted, Accounted
  <2> QED  BY <2>1, <2>2, <2>3 DEF NoVerdict, CleanIsAlerted, PairIsFresh, Clean
<1>8. CASE UNCHANGED vars
  BY <1>8 DEF vars, WindowIsAccounted, Accounted, NoVerdict, CleanIsAlerted, Clean,
              PairIsFresh, NotStale
<1> QED  BY <1>1, <1>2, <1>3, <1>4, <1>5, <1>6, <1>7, <1>8 DEF Next

(* What the probe says rests on lines of the window, none of which is an   *)
(* earlier run's unless the baseline read of the events failed; no pair of *)
(* an earlier run opens the separation check, whoever else writes          *)
(* (detection.py:50-70).                                                   *)
THEOREM VerdictsTheorem == Spec => []VerdictsRestOnWindow
<1>1. Init => VerdictInv
  BY DEF Init, VerdictInv, WindowIsAccounted, NoVerdict, Fits, CleanIsAlerted, PairIsFresh, Clean
<1>2. VerdictInv => VerdictsRestOnWindow
  BY DEF VerdictInv, WindowIsAccounted, Fits, CleanIsAlerted, PairIsFresh, CarriesAllowed,
         VerdictsRestOnWindow, Alerts, High
<1>3. Spec => []VerdictInv
  BY <1>1, VerdictStep, IInvHolds, PTL DEF Spec
<1> QED  BY <1>2, <1>3, PTL
=============================================================================
