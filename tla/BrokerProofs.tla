----------------------------- MODULE BrokerProofs -----------------------------
(***************************************************************************)
(* Theorems about the broker, for any number of connections, any requests  *)
(* and allowlists, and any number of edits, failed reads and writes and    *)
(* crashes.                                                                *)
(***************************************************************************)
EXTENDS Broker, SequenceTheorems, FiniteSetTheorems, WellFoundedInduction, TLAPS

Texts == Seq(STRING)
Units == [kind : {"head", "body", "rest"}, crossing : Nat]
Decisions == {"allow", "deny"}

(* What is known of the allowlist file and of the mishaps so far.          *)
WorldShapes ==
    /\ versions \in Seq(Allowlists) /\ Len(versions) >= 1
    /\ faults \in Nat /\ Mishaps <= MaxMishaps
    /\ inForce \in [Crossings -> SUBSET (1..Len(versions))]

(* What the variables hold, in full.                                       *)
Shapes ==
    /\ WorldShapes
    /\ sent \in Seq(Requests) /\ Len(sent) <= MaxRequests
    /\ stream \in [Conns -> Seq(Units)]
    /\ \A k \in Conns : \A i \in 1..Len(stream[k]) :
         \/ stream[k][i].kind = "head" /\ stream[k][i].crossing \in 1..Len(sent)
         \/ stream[k][i].kind # "head" /\ stream[k][i].crossing = Nobody
    /\ owes \in [Conns -> SUBSET {"body", "rest"}] /\ hungUp \in [Conns -> BOOLEAN]
    /\ pc \in [Conns -> {"none", "idle", "parsed", "decided", "alerting", "draining", "answering"}]
    /\ current \in [Conns -> Nat]
    /\ \A k \in Conns : IF pc[k] \in {"none", "idle"} THEN current[k] = Nobody
                        ELSE current[k] \in 1..Len(sent)
    /\ decision \in [Conns -> Decisions] /\ closing \in [Conns -> BOOLEAN]
    /\ lost \subseteq 1..Len(sent)

(* What the two log files and the answers hold.                            *)
LogShapes ==
    /\ requests \in Seq([crossing : Nat, host : Texts, decision : Decisions])
    /\ events \in Seq([crossing : Nat, host : Texts])
    /\ answers \subseteq [crossing : Nat, decision : Decisions]
    /\ \A i \in 1..Len(requests) : requests[i].crossing \in 1..Len(sent)

Recorded(n) == \E i \in 1..Len(requests) : requests[i].crossing = n
RecordedAs(n, h, d) ==
    \E i \in 1..Len(requests) :
        requests[i] = [crossing |-> n, host |-> h, decision |-> d]
Alerted(n) == \E i \in 1..Len(events) : events[i].crossing = n

(* A crossing is in one place: once in one client's stream, or with one    *)
(* handler.                                                                *)
OnePlace ==
    /\ \A k, m \in Conns : \A i \in 1..Len(stream[k]), j \in 1..Len(stream[m]) :
         stream[k][i].kind = "head" /\ stream[k][i] = stream[m][j] => k = m /\ i = j
    /\ \A k, m \in Conns : \A i \in 1..Len(stream[m]) :
         stream[m][i].kind = "head" => stream[m][i].crossing # current[k]
    /\ \A k, m \in Conns : current[k] # Nobody /\ current[k] = current[m] => k = m

(* What is recorded was read, by a handler past its first write.           *)
RecordedIsRead ==
    /\ \A k \in Conns : \A i \in 1..Len(stream[k]) :
         stream[k][i].kind = "head" => ~Recorded(stream[k][i].crossing)
    /\ \A k \in Conns : pc[k] \in {"parsed", "decided"} => ~Recorded(current[k])

(* What a handler has written by the time it is where it is.               *)
RecordFollowsAt(k) ==
    /\ pc[k] \in {"alerting", "draining", "answering"} =>
         RecordedAs(current[k], Named[sent[current[k]]], decision[k])
    /\ pc[k] = "alerting" => decision[k] = "deny" /\ ~Alerted(current[k])
    /\ pc[k] \in {"draining", "answering"} /\ decision[k] = "deny" => Alerted(current[k])

RecordFollows == \A k \in Conns : RecordFollowsAt(k)

AnnouncesBody(n) == sent[n].framing.first # "none"
Owing(u) == u.kind = "head" /\ AnnouncesBody(u.crossing)

(* Bodies follow their heads as announced, across what is still to be     *)
(* read, what the client still owes and what the handler works on; only a  *)
(* connection that is about to be closed is out of step.                   *)
FramedAt(k) ==
    /\ \A i \in 2..Len(stream[k]) : stream[k][i].kind = "body" <=> Owing(stream[k][i - 1])
    /\ Len(stream[k]) > 0 => ("body" \in owes[k] <=> Owing(stream[k][Len(stream[k])]))
    /\ pc[k] = "none" => stream[k] = <<>> /\ owes[k] = {}
    /\ pc[k] \in {"parsed", "decided", "alerting", "draining"} =>
         /\ Len(stream[k]) > 0 => (stream[k][1].kind = "body" <=> AnnouncesBody(current[k]))
         /\ Len(stream[k]) = 0 => ("body" \in owes[k] <=> AnnouncesBody(current[k]))
    /\ pc[k] = "idle" \/ (pc[k] = "answering" /\ ~closing[k]) =>
         /\ Len(stream[k]) > 0 => stream[k][1].kind # "body"
         /\ Len(stream[k]) = 0 => "body" \notin owes[k]
    /\ closing[k] => pc[k] = "answering"

Framed == \A k \in Conns : FramedAt(k)

Kept == OnePlace /\ RecordedIsRead /\ RecordFollows /\ Framed

IInv == Shapes /\ LogShapes /\ Kept /\ LogsAgree /\ misread \subseteq {"rest"}

-----------------------------------------------------------------------------
(* The shapes are at least the type invariant of Broker.                  *)
LEMMA ShapesGiveTypes == Shapes /\ misread \subseteq {"rest"} => TypeOK
<1> SUFFICES ASSUME Shapes, misread \subseteq {"rest"}
             PROVE  TypeOK
  OBVIOUS
<1> USE DEF Shapes
<1>1. DOMAIN sent = 1..Len(sent) /\ \A n \in 1..Len(sent) : sent[n] \in Requests
  BY LenProperties, ElementOfSeq
<1>2. ASSUME NEW k \in Conns, NEW i \in DOMAIN stream[k]
      PROVE  stream[k][i] \in [kind : {"head"}, crossing : DOMAIN sent]
                               \cup [kind : {"body", "rest"}, crossing : {Nobody}]
  <2>1. stream[k] \in Seq(Units) /\ i \in 1..Len(stream[k])
    BY <1>2, LenProperties
  <2>2. stream[k][i] \in Units
    BY <2>1, ElementOfSeq
  <2>3. \/ stream[k][i].kind = "head" /\ stream[k][i].crossing \in DOMAIN sent
        \/ stream[k][i].kind # "head" /\ stream[k][i].crossing = Nobody
    BY <1>1, <2>1
  <2> QED  BY <2>2, <2>3 DEF Units
<1>3. \A k \in Conns : current[k] \in IF pc[k] \in {"none", "idle"} THEN {Nobody} ELSE DOMAIN sent
  BY <1>1
<1>4. lost \subseteq DOMAIN sent /\ misread \subseteq {"body", "rest"}
  BY <1>1
<1>5. /\ DOMAIN versions = 1..Len(versions)
      /\ \A v \in DOMAIN versions : versions[v] \in Allowlists
      /\ Len(versions) >= 1 /\ faults \in Nat /\ Mishaps <= MaxMishaps
      /\ inForce \in [Crossings -> SUBSET DOMAIN versions]
  <2>1. DOMAIN versions = 1..Len(versions)
    BY LenProperties DEF WorldShapes
  <2>2. \A v \in DOMAIN versions : versions[v] \in Allowlists
    BY <2>1, ElementOfSeq DEF WorldShapes
  <2> QED  BY <2>1, <2>2 DEF WorldShapes
<1>6. /\ owes \in [Conns -> SUBSET {"body", "rest"}] /\ hungUp \in [Conns -> BOOLEAN]
      /\ closing \in [Conns -> BOOLEAN] /\ decision \in [Conns -> {"allow", "deny"}]
      /\ pc \in [Conns -> {"none", "idle", "parsed", "decided", "alerting", "draining",
                           "answering"}]
  BY Zenon DEF Decisions
<1>7. Len(sent) <= MaxRequests /\ \A n \in DOMAIN sent : sent[n] \in Requests
  BY <1>1
<1> QED  BY <1>2, <1>3, <1>4, <1>5, <1>6, <1>7 DEF TypeOK

(* A line added at the end leaves the others where they are.               *)
LEMMA Grown ==
    \A S : \A s \in Seq(S) : \A x \in S :
        /\ Append(s, x) \in Seq(S)
        /\ Len(Append(s, x)) = Len(s) + 1 /\ Len(s) \in Nat
        /\ \A i \in 1..Len(s) : Append(s, x)[i] = s[i]
        /\ Append(s, x)[Len(s) + 1] = x
        /\ \A i \in 1..Len(s) : i \in 1..Len(Append(s, x))
        /\ \A i \in 1..Len(Append(s, x)) : i \in 1..Len(s) \/ i = Len(s) + 1
  BY AppendProperties

(* What was read leaves the rest one place nearer to the front.            *)
LEMMA Popped ==
    \A S : \A s \in Seq(S) : s # <<>> =>
        /\ Head(s) = s[1] /\ s[1] \in S /\ 1 \in 1..Len(s)
        /\ Tail(s) \in Seq(S)
        /\ Len(s) \in Nat \ {0} /\ Len(Tail(s)) = Len(s) - 1
        /\ \A i \in 1..Len(Tail(s)) : i + 1 \in 1..Len(s) /\ Tail(s)[i] = s[i + 1]
<1> SUFFICES ASSUME NEW S, NEW s \in Seq(S), s # <<>>
             PROVE  /\ Head(s) = s[1] /\ s[1] \in S /\ 1 \in 1..Len(s)
                    /\ Tail(s) \in Seq(S)
                    /\ Len(s) \in Nat \ {0} /\ Len(Tail(s)) = Len(s) - 1
                    /\ \A i \in 1..Len(Tail(s)) :
                         i + 1 \in 1..Len(s) /\ Tail(s)[i] = s[i + 1]
  OBVIOUS
<1>1. Len(s) \in Nat \ {0}
  BY EmptySeq
<1>2. 1 \in 1..Len(s)
  BY <1>1
<1>3. Head(s) = s[1] /\ s[1] \in S
  BY <1>2, ElementOfSeq, HeadTailProperties
<1>4. /\ Tail(s) \in Seq(S) /\ Len(Tail(s)) = Len(s) - 1
      /\ \A i \in 1..Len(Tail(s)) : Tail(s)[i] = s[i + 1]
  BY HeadTailProperties
<1>5. \A i \in 1..Len(Tail(s)) : i + 1 \in 1..Len(s)
  BY <1>1, <1>4
<1> QED  BY <1>1, <1>2, <1>3, <1>4, <1>5

-----------------------------------------------------------------------------
(* What host_of makes of a request target.                                 *)

(* A set of natural numbers that is not empty has a least element.         *)
LEMMA LeastOf ==
    ASSUME NEW S \in SUBSET Nat, S # {}
    PROVE  Min(S) \in S /\ \A y \in S : Min(S) <= y
<1>1. \E x \in S : \A y \in S : ~ (<<y, x>> \in OpToRel(<, Nat))
  BY NatLessThanWellFounded, WFMin
<1>2. \A x, y \in Nat : x < y => <<y, x>> \in Nat \X Nat /\ <<x, y>> \in OpToRel(<, Nat)
  BY DEF OpToRel
<1>3. \E x \in S : \A y \in S : x <= y
  <2>1. PICK x \in S : \A y \in S : ~ (<<y, x>> \in OpToRel(<, Nat))
    BY <1>1
  <2>2. \A y \in S : ~(y < x)
    BY <1>2, <2>1
  <2>3. \A y \in S : x <= y
    BY <2>2
  <2> QED  BY <2>3
<1> QED  BY <1>3 DEF Min

(* One that is bounded has a greatest.                                     *)
LEMMA GreatestOf ==
    ASSUME NEW n \in Nat, NEW S \in SUBSET (1..n), S # {}
    PROVE  Max(S) \in S /\ \A y \in S : Max(S) >= y
<1> DEFINE T == {n - x : x \in S}
<1>0. \A x \in S : x \in Nat /\ n - x \in Nat /\ n - x \in T
  OBVIOUS
<1>1. T \in SUBSET Nat /\ T # {}
  BY <1>0
<1>2. Min(T) \in T /\ \A y \in T : Min(T) <= y
  BY <1>1, LeastOf
<1>3. PICK x \in S : Min(T) = n - x
  BY <1>2
<1>4. \A y \in S : n - x <= n - y
  BY <1>0, <1>2, <1>3
<1>5. \A y \in S : x >= y
  BY <1>0, <1>4
<1> QED  BY <1>5 DEF Max

(* A part of a text is a text.                                             *)
LEMMA PartOfText ==
    ASSUME NEW s \in Texts, NEW m \in Int, NEW n \in Int, m >= 1, n <= Len(s)
    PROVE  /\ SubSeq(s, m, n) \in Texts
           /\ Len(SubSeq(s, m, n)) = IF m <= n THEN n - m + 1 ELSE 0
           /\ \A i \in 1..n - m + 1 : SubSeq(s, m, n)[i] = s[m + i - 1]
<1>1. \A i \in m..n : s[i] \in STRING
  BY ElementOfSeq, LenProperties DEF Texts
<1> QED  BY <1>1, SubSeqProperties DEF Texts

(* What is in front of a stop.                                             *)
LEMMA UntilIsText ==
    ASSUME NEW s \in Texts, NEW tokens
    PROVE  Until(s, tokens) \in Texts
<1> DEFINE stops == {i \in 1..Len(s) : s[i] \in tokens}
<1>1. CASE stops = {}
  BY <1>1 DEF Until
<1>2. CASE stops # {}
  <2>1. Min(stops) \in stops
    BY <1>2, LeastOf
  <2>2. Min(stops) \in 1..Len(s) /\ Len(s) \in Nat
    BY <2>1, LenProperties DEF Texts
  <2> HIDE DEF stops
  <2>3. SubSeq(s, 1, Min(stops) - 1) \in Texts
    BY <2>2, PartOfText
  <2> QED  BY <1>2, <2>3 DEF Until, stops
<1> QED  BY <1>1, <1>2

(* What is behind the last stop.                                           *)
LEMMA AfterLastIsText ==
    ASSUME NEW s \in Texts, NEW token
    PROVE  AfterLast(s, token) \in Texts
<1> DEFINE stops == {i \in 1..Len(s) : s[i] = token}
<1>0. Len(s) \in Nat
  BY LenProperties DEF Texts
<1>1. CASE stops = {}
  BY <1>1 DEF AfterLast
<1>2. CASE stops # {}
  <2>1. Max(stops) \in stops
    BY <1>0, <1>2, GreatestOf
  <2>2. Max(stops) \in 1..Len(s)
    BY <2>1
  <2> HIDE DEF stops
  <2>3. SubSeq(s, Max(stops) + 1, Len(s)) \in Texts
    BY <1>0, <2>2, PartOfText
  <2> QED  BY <1>2, <2>3 DEF AfterLast, stops
<1> QED  BY <1>1, <1>2

(* host_of returns a text whatever it is given.                            *)
LEMMA HostIsText ==
    ASSUME NEW text \in Texts
    PROVE  HostOf(text) \in Texts
<1> DEFINE scheme == Until(text, {"://"})
           netloc == IF IsURL(text) THEN NetLoc(text) ELSE text
           authority == AfterLast(netloc, "@")
           inside == Until(authority, {"]"})
           first == {i \in 1..Len(inside) : inside[i] # "["}
<1>1. <<>> \in Texts /\ Len(text) \in Nat
  BY EmptySeq, LenProperties DEF Texts
<1>2. NetLoc(text) \in Texts
  <2>1. scheme \in Texts /\ Len(scheme) \in Nat
    BY UntilIsText, LenProperties DEF Texts
  <2> HIDE DEF scheme
  <2>2. SubSeq(text, Len(scheme) + 2, Len(text)) \in Texts
    BY <1>1, <2>1, PartOfText
  <2>3. Until(SubSeq(text, Len(scheme) + 2, Len(text)), Ends) \in Texts
    BY <2>2, UntilIsText
  <2> QED  BY <1>1, <2>3 DEF NetLoc, scheme
<1>3. authority \in Texts
  <2>1. netloc \in Texts
    BY <1>2
  <2> HIDE DEF netloc
  <2> QED  BY <2>1, AfterLastIsText
<1> HIDE DEF authority
<1>4. inside \in Texts /\ Len(inside) \in Nat
  BY <1>3, UntilIsText, LenProperties DEF Texts
<1>5. Until(authority, {":"}) \in Texts
  BY <1>3, UntilIsText
<1> HIDE DEF inside
<1>6. first # {} => SubSeq(inside, Min(first), Len(inside)) \in Texts
  <2> SUFFICES ASSUME first # {}
               PROVE  SubSeq(inside, Min(first), Len(inside)) \in Texts
    OBVIOUS
  <2>1. Min(first) \in first
    BY LeastOf
  <2>2. Min(first) \in 1..Len(inside)
    BY <2>1
  <2> HIDE DEF first
  <2> QED  BY <1>4, <2>2, PartOfText
<1> HIDE DEF first
<1>7. HostOf(text) = IF authority # <<>> /\ authority[1] = "["
                     THEN IF first = {} THEN <<>> ELSE SubSeq(inside, Min(first), Len(inside))
                     ELSE Until(authority, {":"})
  BY DEF HostOf, authority, inside, first
<1> QED  BY <1>1, <1>5, <1>6, <1>7

(* What a client composes of texts is one.                                 *)
LEMMA JoinedTexts ==
    ASSUME NEW a \in Texts, NEW b \in Texts
    PROVE  /\ a \o b \in Texts /\ Len(a) \in Nat /\ Len(b) \in Nat
           /\ Len(a \o b) = Len(a) + Len(b)
           /\ \A i \in 1..Len(a) : (a \o b)[i] = a[i] /\ i \in 1..Len(a \o b)
           /\ \A i \in 1..Len(b) : (a \o b)[Len(a) + i] = b[i] /\ Len(a) + i \in 1..Len(a \o b)
           /\ \A i \in 1..Len(a \o b) : i \in 1..Len(a)
                                         \/ \E j \in 1..Len(b) : i = Len(a) + j
<1>1. /\ Len(a) \in Nat /\ Len(b) \in Nat
      /\ a \o b \in Texts /\ Len(a \o b) = Len(a) + Len(b)
      /\ \A i \in 1..Len(a) + Len(b) :
           (a \o b)[i] = IF i <= Len(a) THEN a[i] ELSE b[i - Len(a)]
  BY ConcatProperties, LenProperties DEF Texts
<1>2. ASSUME NEW i \in 1..Len(a \o b), i \notin 1..Len(a)
      PROVE  \E j \in 1..Len(b) : i = Len(a) + j
  <2>1. i - Len(a) \in 1..Len(b) /\ i = Len(a) + (i - Len(a))
    BY <1>1, <1>2
  <2> QED  BY <2>1
<1>3. \A i \in 1..Len(b) :
        /\ Len(a) + i \in 1..Len(a) + Len(b) /\ ~(Len(a) + i <= Len(a))
        /\ (Len(a) + i) - Len(a) = i
  BY <1>1
<1>4. \A i \in 1..Len(a) : i \in 1..Len(a) + Len(b) /\ i <= Len(a)
  BY <1>1
<1> QED  BY <1>1, <1>2, <1>3, <1>4

(* Joined texts are free of what both are free of.                         *)
LEMMA JoinedFree ==
    ASSUME NEW a \in Texts, NEW b \in Texts, NEW C, FreeOf(a, C), FreeOf(b, C)
    PROVE  FreeOf(a \o b, C)
<1>1. /\ DOMAIN a = 1..Len(a) /\ DOMAIN b = 1..Len(b)
      /\ DOMAIN (a \o b) = 1..Len(a \o b)
  BY JoinedTexts, LenProperties DEF Texts
<1>2. ASSUME NEW i \in 1..Len(a \o b)
      PROVE  (a \o b)[i] \notin C
  <2>1. CASE i \in 1..Len(a)
    <3>1. (a \o b)[i] = a[i]
      BY <2>1, JoinedTexts
    <3> QED  BY <1>1, <2>1, <3>1 DEF FreeOf
  <2>2. CASE \E j \in 1..Len(b) : i = Len(a) + j
    <3>1. PICK j \in 1..Len(b) : i = Len(a) + j
      BY <2>2
    <3>2. (a \o b)[i] = b[j]
      BY <3>1, JoinedTexts
    <3> QED  BY <1>1, <3>2 DEF FreeOf
  <2> QED  BY <2>1, <2>2, JoinedTexts
<1> QED  BY <1>1, <1>2 DEF FreeOf

(* The targets of all requests, and so the hosts recorded of them.         *)
LEMMA TargetIsText ==
    ASSUME NEW r \in Requests
    PROVE  Target(r) \in Texts
<1> DEFINE a == r.scheme \o r.userinfo
           b == a \o r.host
           c == b \o r.port
<1>1. /\ r.scheme \in Texts /\ r.userinfo \in Texts /\ r.host \in Texts
      /\ r.port \in Texts /\ r.path \in Texts
  BY BrokerAssumption DEF IsText, Texts
<1>2. a \in Texts
  BY <1>1, JoinedTexts
<1> HIDE DEF a
<1>3. b \in Texts
  BY <1>1, <1>2, JoinedTexts
<1> HIDE DEF b
<1>4. c \in Texts
  BY <1>1, <1>3, JoinedTexts
<1> HIDE DEF c
<1>5. c \o r.path \in Texts
  BY <1>1, <1>4, JoinedTexts
<1> QED  BY <1>5 DEF Target, a, b, c

(* The text recorded of a request's target is a text.                      *)
LEMMA NamesAreTexts == \A r \in Requests : Named[r] \in Texts
  BY TargetIsText, HostIsText DEF Named

(* A first part without a stop is what is in front of the second's.        *)
LEMMA UntilSecond ==
    ASSUME NEW a \in Texts, NEW b \in Texts, NEW C, FreeOf(a, C), b = <<>> \/ b[1] \in C
    PROVE  Until(a \o b, C) = a
<1> DEFINE s == a \o b
           stops == {i \in 1..Len(s) : s[i] \in C}
<1>1. /\ DOMAIN a = 1..Len(a) /\ Len(<<>>) = 0
      /\ \A i \in 1..Len(a) : a[i] \notin C
  BY LenProperties, EmptySeq DEF Texts, FreeOf
<1>2. CASE b = <<>>
  <2>1. s = a
    BY <1>2, ConcatEmptySeq DEF Texts
  <2>2. stops = {}
    BY <1>1, <2>1
  <2> QED  BY <2>1, <2>2 DEF Until
<1>3. CASE b # <<>>
  <2>1. 1 \in 1..Len(b) /\ b[1] \in C
    BY <1>3, EmptySeq, LenProperties DEF Texts
  <2>2. /\ Len(a) \in Nat /\ s \in Texts
        /\ Len(a) + 1 \in 1..Len(s) /\ s[Len(a) + 1] \in C
        /\ \A i \in 1..Len(a) : s[i] = a[i]
    BY <2>1, JoinedTexts
  <2>3. Len(a) + 1 \in stops
    BY <2>2
  <2>4. \A i \in stops : i >= Len(a) + 1
    BY <1>1, <2>2
  <2>5. stops \in SUBSET Nat /\ stops # {}
    BY <2>3
  <2>6. Min(stops) = Len(a) + 1
    <3>1. Min(stops) \in stops /\ \A y \in stops : Min(stops) <= y
      BY <2>5, LeastOf
    <3> DEFINE least == Min(stops)
               n == Len(a)
    <3>2. least \in Nat /\ n \in Nat /\ least >= n + 1 /\ least <= n + 1
      BY <2>2, <2>3, <2>4, <2>5, <3>1
    <3> HIDE DEF least, n
    <3>3. least = n + 1
      BY <3>2
    <3> QED  BY <3>3 DEF least, n
  <2>7. Until(s, C) = SubSeq(s, 1, Len(a))
    <3>1. Until(s, C) = SubSeq(s, 1, Min(stops) - 1)
      BY <2>5 DEF Until
    <3> HIDE DEF stops
    <3>2. Min(stops) - 1 = Len(a)
      BY <2>2, <2>6
    <3> QED  BY <3>1, <3>2
  <2> HIDE DEF stops
  <2>8. /\ SubSeq(s, 1, Len(a)) \in Texts /\ Len(SubSeq(s, 1, Len(a))) = Len(a)
        /\ \A i \in 1..Len(a) : SubSeq(s, 1, Len(a))[i] = a[i]
    <3>1. Len(a) <= Len(s) /\ Len(s) \in Nat
      BY <2>2, LenProperties DEF Texts
    <3> HIDE DEF s
    <3>2. /\ SubSeq(s, 1, Len(a)) \in Texts
          /\ Len(SubSeq(s, 1, Len(a))) = IF 1 <= Len(a) THEN Len(a) - 1 + 1 ELSE 0
          /\ \A i \in 1..Len(a) - 1 + 1 : SubSeq(s, 1, Len(a))[i] = s[1 + i - 1]
      BY <2>2, <3>1, PartOfText
    <3>3. \A i \in 1..Len(a) : 1 + i - 1 = i /\ i \in 1..Len(a) - 1 + 1
      BY <2>2
    <3> QED  BY <2>2, <3>2, <3>3
  <2> QED  BY <2>7, <2>8, SeqEqual DEF Texts
<1> QED  BY <1>2, <1>3

(* A second part without a stop is what is behind the first's.             *)
LEMMA AfterFirst ==
    ASSUME NEW a \in Texts, NEW b \in Texts, NEW c, FreeOf(b, {c}), a = <<>> \/ a[Len(a)] = c
    PROVE  AfterLast(a \o b, c) = b
<1> DEFINE s == a \o b
           stops == {i \in 1..Len(s) : s[i] = c}
<1>1. /\ Len(<<>>) = 0
      /\ \A i \in 1..Len(b) : b[i] # c
  BY LenProperties, EmptySeq DEF Texts, FreeOf
<1>2. CASE a = <<>>
  <2>1. s = b
    BY <1>2, ConcatEmptySeq DEF Texts
  <2>2. stops = {}
    BY <1>1, <2>1
  <2> QED  BY <2>1, <2>2 DEF AfterLast
<1>3. CASE a # <<>>
  <2>1. Len(a) \in 1..Len(a) /\ a[Len(a)] = c
    BY <1>3, EmptySeq, LenProperties DEF Texts
  <2>2. /\ Len(a) \in Nat /\ Len(b) \in Nat /\ s \in Texts /\ Len(s) = Len(a) + Len(b)
        /\ Len(a) \in 1..Len(s) /\ s[Len(a)] = c
        /\ \A i \in 1..Len(b) : s[Len(a) + i] = b[i]
        /\ \A i \in 1..Len(s) : i \in 1..Len(a) \/ \E j \in 1..Len(b) : i = Len(a) + j
    BY <2>1, JoinedTexts
  <2>3. Len(a) \in stops
    BY <2>2
  <2>4. \A i \in stops : i <= Len(a)
    <3> SUFFICES ASSUME NEW i \in 1..Len(s), s[i] = c
                 PROVE  i \in 1..Len(a)
      OBVIOUS
    <3> HIDE DEF s
    <3> QED  BY <1>1, <2>2
  <2>5. Max(stops) \in stops /\ \A y \in stops : Max(stops) >= y
    <3>1. Len(s) \in Nat /\ stops \in SUBSET (1..Len(s)) /\ stops # {}
      BY <2>2, <2>3
    <3> HIDE DEF stops, s
    <3> QED  BY <3>1, GreatestOf
  <2>6. Max(stops) = Len(a)
    <3> DEFINE most == Max(stops)
               n == Len(a)
    <3>1. most \in stops /\ n \in stops /\ most <= n /\ most >= n
      BY <2>3, <2>4, <2>5
    <3>0. stops \subseteq Nat
      OBVIOUS
    <3> HIDE DEF most, n, stops
    <3>2. most \in Nat /\ n \in Nat
      BY <3>0, <3>1
    <3>3. most = n
      BY <3>1, <3>2
    <3> QED  BY <3>3 DEF most, n
  <2> HIDE DEF stops
  <2>7. AfterLast(s, c) = SubSeq(s, Len(a) + 1, Len(s))
    BY <2>2, <2>3, <2>6 DEF AfterLast, stops
  <2> HIDE DEF s
  <2>8. /\ SubSeq(s, Len(a) + 1, Len(s)) \in Texts
        /\ Len(SubSeq(s, Len(a) + 1, Len(s))) = Len(b)
        /\ \A i \in 1..Len(b) : SubSeq(s, Len(a) + 1, Len(s))[i] = b[i]
    <3> DEFINE m == Len(a) + 1
               n == Len(s)
    <3>1. /\ m \in Int /\ m >= 1 /\ n \in Int /\ n <= Len(s) /\ n - m + 1 = Len(b)
          /\ (m <= n <=> Len(b) # 0)
          /\ \A i \in 1..Len(b) : m + i - 1 = Len(a) + i
      BY <2>2
    <3> HIDE DEF m, n
    <3>2. /\ SubSeq(s, m, n) \in Texts
          /\ Len(SubSeq(s, m, n)) = IF m <= n THEN n - m + 1 ELSE 0
          /\ \A i \in 1..n - m + 1 : SubSeq(s, m, n)[i] = s[m + i - 1]
      BY <2>2, <3>1, PartOfText
    <3>3. Len(SubSeq(s, m, n)) = Len(b)
      BY <3>1, <3>2
    <3>4. \A i \in 1..Len(b) : SubSeq(s, m, n)[i] = b[i]
      BY <2>2, <3>1, <3>2
    <3> QED  BY <3>2, <3>3, <3>4 DEF m, n
  <2> QED  BY <2>7, <2>8, SeqEqual DEF Texts, s
<1> QED  BY <1>2, <1>3

(* The text of a host with a port behind it and a user before it.          *)
LEMMA HostInAuthority ==
    ASSUME NEW user \in Texts, NEW host \in Texts, NEW port \in Texts,
           user = <<>> \/ user[Len(user)] = "@",
           host # <<>>, \A i \in 1..Len(host) : host[i] \in Words,
           FreeOf(port, {"@"}), port = <<>> \/ port[1] = ":"
    PROVE  /\ AfterLast(user \o (host \o port), "@") = host \o port
           /\ host \o port # <<>> /\ (host \o port)[1] # "["
           /\ Until(host \o port, {":"}) = host
<1>1. DOMAIN host = 1..Len(host) /\ 1 \in 1..Len(host)
  BY EmptySeq, LenProperties DEF Texts
<1>2. FreeOf(host, {"@"}) /\ FreeOf(host, {":"}) /\ host[1] # "["
  BY <1>1 DEF FreeOf, Words, Punctuation, Ends, Brackets
<1>3. FreeOf(host \o port, {"@"}) /\ host \o port \in Texts
  BY <1>2, JoinedFree, JoinedTexts
<1>4. AfterLast(user \o (host \o port), "@") = host \o port
  BY <1>3, AfterFirst
<1>5. (host \o port)[1] = host[1] /\ 1 \in 1..Len(host \o port)
  BY <1>1, JoinedTexts
<1>6. host \o port # <<>>
  BY <1>5, EmptySeq
<1>7. Until(host \o port, {":"}) = host
  BY <1>2, UntilSecond
<1> QED  BY <1>2, <1>4, <1>5, <1>6, <1>7

(* Joining texts is associative.                                           *)
LEMMA JoinedAnyhow ==
    ASSUME NEW a \in Texts, NEW b \in Texts, NEW c \in Texts
    PROVE  (a \o b) \o c = a \o (b \o c)
<1>1. a \in Seq(STRING) /\ b \in Seq(STRING) /\ c \in Seq(STRING)
  BY DEF Texts
<1> QED  BY <1>1, ConcatAssociative

(* A request target taken apart: its scheme and what is behind it, which   *)
(* is the authority and the path.                                          *)
LEMMA TargetParts ==
    ASSUME NEW r \in Requests
    PROVE  /\ r.userinfo \o (r.host \o r.port) \in Texts
           /\ (r.userinfo \o (r.host \o r.port)) \o r.path \in Texts
           /\ Target(r) = r.scheme \o ((r.userinfo \o (r.host \o r.port)) \o r.path)
<1> DEFINE scheme == r.scheme
           user == r.userinfo
           host == r.host
           port == r.port
           path == r.path
<1>1. /\ scheme \in Texts /\ user \in Texts /\ host \in Texts /\ port \in Texts /\ path \in Texts
  BY BrokerAssumption DEF IsText, Texts
<1>2. Target(r) = (((scheme \o user) \o host) \o port) \o path
  BY DEF Target
<1> HIDE DEF scheme, user, host, port, path
<1> DEFINE front == user \o host
           back == host \o port
           all == user \o back
<1>3. front \in Texts /\ back \in Texts
  BY <1>1, JoinedTexts
<1>4. (scheme \o user) \o host = scheme \o front
  <2>1. scheme \in Texts /\ user \in Texts /\ host \in Texts
    BY <1>1
  <2> QED  BY <2>1, JoinedAnyhow
<1>10. front \o port = all
  <2>1. user \in Texts /\ host \in Texts /\ port \in Texts
    BY <1>1
  <2> QED  BY <2>1, JoinedAnyhow
<1> HIDE DEF front, back
<1>5. all \in Texts
  BY <1>1, <1>3, JoinedTexts
<1> HIDE DEF all
<1>6. (scheme \o front) \o port = scheme \o (front \o port)
  <2>1. scheme \in Texts /\ front \in Texts /\ port \in Texts
    BY <1>1, <1>3
  <2> QED  BY <2>1, JoinedAnyhow
<1>7. (scheme \o all) \o path = scheme \o (all \o path)
  <2>1. scheme \in Texts /\ all \in Texts /\ path \in Texts
    BY <1>1, <1>5
  <2> QED  BY <2>1, JoinedAnyhow
<1>8. all \o path \in Texts
  BY <1>1, <1>5, JoinedTexts
<1>9. Target(r) = scheme \o (all \o path)
  <2>1. Target(r) = ((scheme \o front) \o port) \o path
    BY <1>2, <1>4
  <2>2. Target(r) = (scheme \o all) \o path
    BY <2>1, <1>6, <1>10
  <2> QED  BY <2>2, <1>7
<1>11. all = r.userinfo \o (r.host \o r.port) /\ scheme = r.scheme /\ path = r.path
  BY DEF scheme, user, host, port, path, back, all
<1> QED  BY <1>5, <1>8, <1>9, <1>11

(* The authority a client composes, and where it ends.                     *)
LEMMA AuthorityOf ==
    ASSUME NEW r \in Requests, r.host # <<>>
    PROVE  LET authority == r.userinfo \o (r.host \o r.port)
           IN  /\ FreeOf(authority, Ends) /\ FreeOf(authority, Brackets)
               /\ AfterLast(authority, "@") = r.host \o r.port
               /\ r.host \o r.port # <<>> /\ (r.host \o r.port)[1] # "["
               /\ Until(r.host \o r.port, {":"}) = r.host
               /\ Until(authority \o r.path, Ends) = authority
<1> DEFINE user == r.userinfo
           host == r.host
           port == r.port
           path == r.path
           authority == user \o (host \o port)
<1>1. user \in Texts /\ host \in Texts /\ port \in Texts /\ path \in Texts /\ Composed(r)
  BY BrokerAssumption DEF IsText, Texts
<1>2. \A i \in 1..Len(host) : host[i] \in Words
  BY <1>1, LenProperties DEF Composed, IsName, Texts
<1>3. /\ FreeOf(user, Ends) /\ FreeOf(user, Brackets)
      /\ FreeOf(port, Ends) /\ FreeOf(port, Brackets) /\ FreeOf(port, {"@"})
  BY <1>1 DEF Composed, FreeOf
<1>4. /\ user = <<>> \/ user[Len(user)] = "@"
      /\ port = <<>> \/ port[1] = ":"
      /\ path = <<>> \/ path[1] \in Ends
      /\ host # <<>>
  BY <1>1 DEF Composed, Last
<1> HIDE DEF user, host, port, path
<1>5. FreeOf(host, Ends) /\ FreeOf(host, Brackets)
  BY <1>1, <1>2, LenProperties DEF FreeOf, Words, Punctuation, Texts
<1>6. host \o port \in Texts /\ FreeOf(host \o port, Ends) /\ FreeOf(host \o port, Brackets)
  BY <1>1, <1>3, <1>5, JoinedFree, JoinedTexts
<1>7. FreeOf(authority, Ends) /\ FreeOf(authority, Brackets) /\ authority \in Texts
  BY <1>1, <1>3, <1>6, JoinedFree, JoinedTexts
<1>8. Until(authority \o path, Ends) = authority
  BY <1>1, <1>4, <1>7, UntilSecond
<1>9. /\ AfterLast(authority, "@") = host \o port
      /\ host \o port # <<>> /\ (host \o port)[1] # "["
      /\ Until(host \o port, {":"}) = host
  BY <1>1, <1>2, <1>3, <1>4, HostInAuthority
<1> QED  BY <1>7, <1>8, <1>9 DEF user, host, port, path

(* A text without an authority's end is no URL.                            *)
LEMMA NoURL ==
    ASSUME NEW s \in Texts, FreeOf(s, Ends)
    PROVE  ~IsURL(s)
  BY LenProperties DEF IsURL, FreeOf, Ends, Texts

(* One element alone is a sequence.                                        *)
LEMMA SingleIsSeq ==
    ASSUME NEW S, NEW x \in S
    PROVE  <<x>> \in Seq(S)
  OBVIOUS

(* A word alone is a text.                                                 *)
LEMMA WordIsText ==
    ASSUME NEW s \in STRING
    PROVE  <<s>> \in Texts /\ Len(<<s>>) = 1 /\ <<s>>[1] = s
  BY SingleIsSeq DEF Texts

(* Behind a scheme, the authority is the netloc.                           *)
LEMMA NetLocBehindScheme ==
    ASSUME NEW s \in Schemes, <<s, "://">> \in Texts, NEW rest \in Texts
    PROVE  LET text == <<s, "://">> \o rest
           IN  IsURL(text) /\ NetLoc(text) = Until(rest, Ends)
<1> DEFINE head == <<s>>
           mark == <<"://">>
           text == <<s, "://">> \o rest
<1>1. s \in STRING /\ s # "://"
  BY BrokerAssumption DEF Words, Punctuation, Ends
<1>2. /\ head \in Texts /\ Len(head) = 1 /\ head[1] = s
      /\ mark \in Texts /\ Len(mark) = 1 /\ mark[1] = "://"
  <2>1. head \in Texts /\ Len(head) = 1 /\ head[1] = s
    BY <1>1, WordIsText
  <2>2. "://" \in STRING
    <3> DEFINE both == <<s, "://">>
    <3>1. both \in Seq(STRING) /\ 2 \in 1..Len(both) /\ both[2] = "://"
      BY DEF Texts
    <3> HIDE DEF both
    <3>2. both[2] \in STRING
      BY <3>1, ElementOfSeq
    <3> QED  BY <3>1, <3>2, Zenon
  <2>3. mark \in Texts /\ Len(mark) = 1 /\ mark[1] = "://"
    BY <2>2, WordIsText, Zenon
  <2> QED  BY <2>1, <2>3
<1>3. text = (head \o mark) \o rest
  BY <1>1
<1> HIDE DEF head, mark
<1>4. text = head \o (mark \o rest)
  BY <1>2, <1>3, JoinedAnyhow
<1>5. /\ mark \o rest \in Texts /\ (mark \o rest)[1] = "://"
      /\ text \in Texts /\ Len(text) = Len(rest) + 2 /\ Len(rest) \in Nat
      /\ text[2] = "://" /\ 2 \in 1..Len(text)
      /\ \A i \in 1..Len(rest) : text[2 + i] = rest[i]
  <2> DEFINE back == mark \o rest
  <2>1. /\ back \in Texts /\ Len(back) = Len(rest) + 1 /\ Len(rest) \in Nat
        /\ back[1] = "://" /\ 1 \in 1..Len(back)
        /\ \A i \in 1..Len(rest) : back[1 + i] = rest[i] /\ 1 + i \in 1..Len(back)
    <3>1. /\ back \in Texts /\ Len(back) = Len(mark) + Len(rest) /\ Len(rest) \in Nat
          /\ \A i \in 1..Len(mark) : back[i] = mark[i] /\ i \in 1..Len(back)
          /\ \A i \in 1..Len(rest) :
               back[Len(mark) + i] = rest[i] /\ Len(mark) + i \in 1..Len(back)
      BY <1>2, JoinedTexts
    <3> HIDE DEF back
    <3> QED  BY <1>2, <3>1
  <2> HIDE DEF back
  <2>2. text = head \o back
    BY <1>4 DEF back
  <2>3. /\ text \in Texts /\ Len(text) = 1 + Len(back)
        /\ \A i \in 1..Len(back) : text[1 + i] = back[i]
    <3> HIDE DEF text
    <3>0. head \in Texts /\ back \in Texts
      BY <1>2, <2>1
    <3>1. /\ head \o back \in Texts /\ Len(head \o back) = Len(head) + Len(back)
          /\ \A i \in 1..Len(back) : (head \o back)[Len(head) + i] = back[i]
      BY <3>0, JoinedTexts
    <3> QED  BY <1>2, <2>2, <3>1
  <2>4. text[1 + 1] = "://" /\ 2 \in 1..Len(text)
    BY <2>1, <2>3
  <2>5. \A i \in 1..Len(rest) : text[1 + (1 + i)] = rest[i] /\ 1 + (1 + i) = 2 + i
    BY <2>1, <2>3
  <2> QED  BY <2>1, <2>3, <2>4, <2>5 DEF back
<1>6. FreeOf(head, {"://"})
  BY <1>1, <1>2, LenProperties DEF FreeOf, Texts
<1>7. Until(text, {"://"}) = head
  BY <1>2, <1>4, <1>5, <1>6, UntilSecond
<1>8. IsURL(text)
  BY <1>5 DEF IsURL
<1> HIDE DEF text
<1>9. SubSeq(text, 3, Len(text)) = rest
  <2> DEFINE part == SubSeq(text, 3, Len(text))
             n == Len(text)
  <2>1. /\ part \in Texts /\ Len(part) = IF 3 <= n THEN n - 3 + 1 ELSE 0
        /\ \A i \in 1..n - 3 + 1 : part[i] = text[3 + i - 1]
    BY <1>5, PartOfText
  <2>2. Len(part) = Len(rest) /\ \A i \in 1..Len(rest) : i \in 1..n - 3 + 1 /\ 3 + i - 1 = 2 + i
    BY <1>5, <2>1
  <2> HIDE DEF part, n
  <2>3. \A i \in 1..Len(rest) : part[i] = rest[i]
    BY <1>5, <2>1, <2>2
  <2> QED  BY <2>1, <2>2, <2>3, SeqEqual DEF Texts, part
<1>10. head # <<>> /\ \A i \in 1..Len(head) : head[i] \in Schemes
  BY <1>2, EmptySeq
<1>11. SubSeq(text, Len(head) + 2, Len(text)) = rest
  BY <1>2, <1>9
<1>12. NetLoc(text) = Until(rest, Ends)
  BY <1>7, <1>10, <1>11 DEF NetLoc
<1> QED  BY <1>8, <1>12 DEF text

(* host_of of an authority, whether the target is one or a URL with one.   *)
LEMMA NetLocOfTarget ==
    ASSUME NEW r \in Requests, r.host # <<>>
    PROVE  LET authority == r.userinfo \o (r.host \o r.port)
           IN  IF IsURL(Target(r)) THEN NetLoc(Target(r)) = authority ELSE Target(r) = authority
<1> DEFINE authority == r.userinfo \o (r.host \o r.port)
           rest == authority \o r.path
<1>1. /\ authority \in Texts /\ rest \in Texts /\ Target(r) = r.scheme \o rest
  BY TargetParts
<1>2. FreeOf(authority, Ends) /\ Until(rest, Ends) = authority
  BY AuthorityOf
<1>3. Composed(r)
  BY BrokerAssumption
<1>4. r.path = <<>> => rest = authority
  <2> HIDE DEF authority
  <2> QED  BY <1>1, ConcatEmptySeq DEF Texts
<1> HIDE DEF authority, rest
<1>5. CASE r.scheme = <<>>
  <2>1. rest = authority
    BY <1>3, <1>4, <1>5 DEF Composed
  <2>2. Target(r) = authority
    BY <1>1, <1>5, <2>1, ConcatEmptySeq DEF Texts
  <2>3. ~IsURL(Target(r))
    BY <1>1, <1>2, <2>2, NoURL
  <2> QED  BY <2>2, <2>3 DEF authority
<1>6. CASE r.scheme # <<>>
  <2>1. PICK s \in Schemes : r.scheme = <<s, "://">>
    BY <1>3, <1>6 DEF Composed
  <2>2. Target(r) = <<s, "://">> \o rest
    BY <1>1, <2>1
  <2>3. <<s, "://">> \in Texts
    BY <2>1, BrokerAssumption DEF IsText, Texts
  <2>4. IsURL(Target(r)) /\ NetLoc(Target(r)) = Until(rest, Ends)
    BY <1>1, <2>2, <2>3, NetLocBehindScheme
  <2> QED  BY <1>2, <2>4 DEF authority
<1> QED  BY <1>5, <1>6

(* What the request names, host_of finds: behind a userinfo that may hold  *)
(* anything but brackets and slashes, before the port and the path; and it *)
(* finds the same once more in what it found.                              *)
LEMMA NamedHost ==
    ASSUME NEW r \in Requests, r.host # <<>>
    PROVE  Named[r] = r.host /\ Matched[r] = r.host /\ r \notin Refusable
<1> DEFINE authority == r.userinfo \o (r.host \o r.port)
<1>1. IF IsURL(Target(r)) THEN NetLoc(Target(r)) = authority ELSE Target(r) = authority
  BY NetLocOfTarget
<1>2. /\ FreeOf(authority, Brackets) /\ AfterLast(authority, "@") = r.host \o r.port
      /\ r.host \o r.port # <<>> /\ (r.host \o r.port)[1] # "["
      /\ Until(r.host \o r.port, {":"}) = r.host
  BY AuthorityOf
<1>3. HostOf(Target(r)) = r.host
  <2> HIDE DEF authority
  <2> QED  BY <1>1, <1>2 DEF HostOf
<1>4. r \notin Refusable
  <2> HIDE DEF authority
  <2> QED  BY <1>1, <1>2 DEF Refusable
<1>5. HostOf(r.host) = r.host
  <2> DEFINE host == r.host
  <2>1. host \in Texts /\ host # <<>> /\ IsName(host)
    BY BrokerAssumption DEF IsText, Texts, Composed
  <2> HIDE DEF host
  <2>2. DOMAIN host = 1..Len(host) /\ \A i \in 1..Len(host) : host[i] \in Words
    BY <2>1, LenProperties DEF IsName, Texts
  <2>3. FreeOf(host, Ends) /\ FreeOf(<<>>, {"@"}) /\ <<>> \in Texts
    BY <2>2, EmptySeq DEF FreeOf, Words, Punctuation, Texts
  <2>4. ~IsURL(host)
    BY <2>1, <2>3, NoURL
  <2>5. /\ AfterLast(<<>> \o (host \o <<>>), "@") = host \o <<>>
        /\ (host \o <<>>)[1] # "[" /\ Until(host \o <<>>, {":"}) = host
    BY <2>1, <2>2, <2>3, HostInAuthority
  <2>6. <<>> \o (host \o <<>>) = host /\ host \o <<>> = host
    BY <2>1, ConcatEmptySeq DEF Texts
  <2>7. AfterLast(host, "@") = host /\ host[1] # "[" /\ Until(host, {":"}) = host
    BY <2>5, <2>6
  <2>8. HostOf(host) = host
    BY <2>1, <2>4, <2>7 DEF HostOf
  <2> QED  BY <2>8 DEF host
<1> QED  BY <1>3, <1>4, <1>5 DEF Named, Matched

-----------------------------------------------------------------------------
(* The initial states satisfy the inductive invariant.                    *)
LEMMA InitIInv == Init => IInv
<1> SUFFICES ASSUME Init
             PROVE  IInv
  OBVIOUS
<1> USE BrokerAssumption DEF Init, Nobody
<1>1. \A k \in Conns : Len(stream[k]) = 0 /\ stream[k] \in Seq(Units)
  BY EmptySeq
<1>2. Len(requests) = 0 /\ Len(events) = 0 /\ Len(sent) = 0
  BY EmptySeq
<1>3. Shapes
  <2>1. WorldShapes /\ stream \in [Conns -> Seq(Units)]
    <3>1. PICK entries \in Allowlists : versions = <<entries>>
      OBVIOUS
    <3>2. versions \in Seq(Allowlists) /\ Len(versions) = 1
      BY <3>1, SingleIsSeq
    <3>3. Mishaps <= MaxMishaps
      BY <3>2 DEF Mishaps
    <3> QED  BY <1>1, <3>2, <3>3 DEF WorldShapes
  <2>2. sent \in Seq(Requests) /\ Len(sent) <= MaxRequests /\ lost \subseteq 1..Len(sent)
    BY <1>2, EmptySeq
  <2>3. current \in [Conns -> Nat]
    OBVIOUS
  <2>4. \A k \in Conns : pc[k] = "none" /\ current[k] = Nobody
    OBVIOUS
  <2>5. /\ owes \in [Conns -> SUBSET {"body", "rest"}] /\ hungUp \in [Conns -> BOOLEAN]
        /\ closing \in [Conns -> BOOLEAN]
    BY Zenon
  <2>6. /\ decision \in [Conns -> Decisions]
        /\ pc \in [Conns -> {"none", "idle", "parsed", "decided", "alerting", "draining",
                             "answering"}]
    BY DEF Decisions
  <2> QED  BY <1>1, <2>1, <2>2, <2>3, <2>4, <2>5, <2>6 DEF Shapes
<1>4. LogShapes
  BY <1>2, EmptySeq DEF LogShapes
<1>5. OnePlace /\ RecordedIsRead /\ RecordFollows
  BY <1>1 DEF OnePlace, RecordedIsRead, RecordFollows, RecordFollowsAt
<1>6. Framed
  BY <1>1 DEF Framed, FramedAt
<1>7. LogsAgree
  BY DEF LogsAgree
<1> QED  BY <1>3, <1>4, <1>5, <1>6, <1>7 DEF IInv, Kept

-----------------------------------------------------------------------------
(* Connections that end take their crossings with them.                    *)
LEMMA EndThreadsKeeps ==
    ASSUME IInv, NEW K \in SUBSET Conns, EndThreads(K),
           UNCHANGED <<sent, requests, events>>
    PROVE  /\ Kept'
           /\ WorldShapes' /\ lost' \subseteq 1..Len(sent) => Shapes'
<1> USE DEF IInv, EndThreads
<1>0. /\ stream \in [Conns -> Seq(Units)] /\ current \in [Conns -> Nat]
      /\ pc \in [Conns -> {"none", "idle", "parsed", "decided", "alerting", "draining",
                           "answering"}]
      /\ decision \in [Conns -> Decisions]
  BY DEF Shapes
<1>1. \A k \in Conns :
        IF k \in K
        THEN /\ stream'[k] = <<>> /\ Len(stream'[k]) = 0 /\ pc'[k] = "none" /\ owes'[k] = {}
             /\ current'[k] = Nobody /\ closing'[k] = FALSE
        ELSE /\ stream'[k] = stream[k] /\ pc'[k] = pc[k] /\ current'[k] = current[k]
             /\ decision'[k] = decision[k] /\ owes'[k] = owes[k] /\ closing'[k] = closing[k]
  <2> SUFFICES ASSUME NEW k \in Conns
               PROVE  IF k \in K
                      THEN /\ stream'[k] = <<>> /\ Len(stream'[k]) = 0 /\ pc'[k] = "none"
                           /\ owes'[k] = {} /\ current'[k] = Nobody /\ closing'[k] = FALSE
                      ELSE /\ stream'[k] = stream[k] /\ pc'[k] = pc[k]
                           /\ current'[k] = current[k] /\ decision'[k] = decision[k]
                           /\ owes'[k] = owes[k] /\ closing'[k] = closing[k]
    OBVIOUS
  <2>1. closing[k] \in BOOLEAN
    BY DEF Shapes
  <2>2. Len(<<>>) = 0
    BY EmptySeq
  <2> QED  BY <2>1, <2>2
<1>2. \A k \in Conns : \A i \in 1..Len(stream'[k]) :
        k \notin K /\ i \in 1..Len(stream[k]) /\ stream'[k][i] = stream[k][i]
  BY <1>1
<1>3. OnePlace'
  <2>1. \A k, m \in Conns : \A i \in 1..Len(stream'[k]), j \in 1..Len(stream'[m]) :
          stream'[k][i].kind = "head" /\ stream'[k][i] = stream'[m][j] => k = m /\ i = j
    BY <1>2 DEF Kept, OnePlace
  <2>2. \A k, m \in Conns : \A i \in 1..Len(stream'[m]) :
          stream'[m][i].kind = "head" => stream'[m][i].crossing # current'[k]
    <3> SUFFICES ASSUME NEW k \in Conns, NEW m \in Conns, NEW i \in 1..Len(stream'[m]),
                        stream'[m][i].kind = "head"
                 PROVE  stream'[m][i].crossing # current'[k]
      OBVIOUS
    <3>1. i \in 1..Len(stream[m]) /\ stream'[m][i] = stream[m][i]
      BY <1>2
    <3>2. stream[m][i].crossing \in 1..Len(sent)
      BY <3>1 DEF Shapes
    <3>3. stream[m][i].crossing # current[k]
      BY <3>1 DEF Kept, OnePlace
    <3> QED  BY <1>1, <3>1, <3>2, <3>3 DEF Nobody
  <2>3. \A k, m \in Conns : current'[k] # Nobody /\ current'[k] = current'[m] => k = m
    BY <1>1 DEF Kept, OnePlace
  <2> QED  BY <2>1, <2>2, <2>3 DEF OnePlace
<1>4. RecordedIsRead'
  BY <1>1, <1>2 DEF Kept, RecordedIsRead, Recorded
<1>5. RecordFollows'
  BY <1>1 DEF Kept, RecordFollows, RecordFollowsAt, RecordedAs, Alerted
<1>6. Framed'
  BY <1>1, <1>2 DEF Kept, Framed, FramedAt, Owing, AnnouncesBody
<1>7. ASSUME WorldShapes', lost' \subseteq 1..Len(sent)
      PROVE  Shapes'
  <2>1. /\ stream' \in [Conns -> Seq(Units)] /\ current' \in [Conns -> Nat]
        /\ pc' \in [Conns -> {"none", "idle", "parsed", "decided", "alerting", "draining",
                              "answering"}]
        /\ decision' \in [Conns -> Decisions]
    BY <1>0, EmptySeq DEF Decisions, Nobody
  <2>2. hungUp' \in [Conns -> BOOLEAN] /\ closing' \in [Conns -> BOOLEAN]
    BY Zenon DEF Shapes
  <2>5. owes' \in [Conns -> SUBSET {"body", "rest"}]
    BY DEF Shapes
  <2>3. /\ sent' \in Seq(Requests) /\ Len(sent') <= MaxRequests
        /\ \A k \in Conns : IF pc'[k] \in {"none", "idle"} THEN current'[k] = Nobody
                            ELSE current'[k] \in 1..Len(sent')
        /\ lost' \subseteq 1..Len(sent')
    BY <1>1, <1>7 DEF Shapes
  <2>4. \A k \in Conns : \A i \in 1..Len(stream'[k]) :
         \/ stream'[k][i].kind = "head" /\ stream'[k][i].crossing \in 1..Len(sent')
         \/ stream'[k][i].kind # "head" /\ stream'[k][i].crossing = Nobody
    BY <1>2 DEF Shapes
  <2> QED  BY <1>7, <2>1, <2>2, <2>3, <2>4, <2>5 DEF Shapes
<1> QED  BY <1>3, <1>4, <1>5, <1>6, <1>7 DEF Kept

(* Steps that leave the allowlist file, and what handlers saw of it.       *)
LEMMA WorldStays ==
    ASSUME Shapes, UNCHANGED <<world, inForce>>
    PROVE  WorldShapes'
  BY DEF Shapes, WorldShapes, Mishaps, world

(* The types every connection starts from.                                 *)
LEMMA ConnShapes ==
    Shapes => \A k \in Conns :
        /\ stream[k] \in Seq(Units) /\ Len(stream[k]) \in Nat /\ current[k] \in Nat
        /\ owes[k] \subseteq {"body", "rest"} /\ hungUp[k] \in BOOLEAN /\ closing[k] \in BOOLEAN
        /\ decision[k] \in Decisions
<1> SUFFICES ASSUME Shapes, NEW k \in Conns
             PROVE  /\ stream[k] \in Seq(Units) /\ Len(stream[k]) \in Nat /\ current[k] \in Nat
                    /\ owes[k] \subseteq {"body", "rest"} /\ hungUp[k] \in BOOLEAN /\ closing[k] \in BOOLEAN
                    /\ decision[k] \in Decisions
  OBVIOUS
<1>1. stream[k] \in Seq(Units) /\ current[k] \in Nat /\ decision[k] \in Decisions
  BY DEF Shapes
<1>2. owes[k] \subseteq {"body", "rest"} /\ hungUp[k] \in BOOLEAN /\ closing[k] \in BOOLEAN
  BY DEF Shapes
<1> QED  BY <1>1, <1>2, LenProperties

(* A new connection starts in step: nothing sent, nothing owed.           *)
LEMMA ConnectKeeps ==
    ASSUME IInv, NEW k \in Conns, Connect(k)
    PROVE  Shapes' /\ Kept'
<1> USE DEF IInv, Connect, logs, ghosts, world
<1>0. /\ pc[k] = "none" /\ current[k] = Nobody /\ stream[k] = <<>> /\ owes[k] = {}
      /\ closing[k] = FALSE
  <2>1. pc[k] = "none" /\ stream[k] = <<>> /\ owes[k] = {} /\ ~closing[k]
    BY DEF Kept, Framed, FramedAt
  <2> QED  BY <2>1, ConnShapes DEF Shapes
<1>1. stream' = stream /\ owes' = owes
  BY <1>0 DEF Shapes
<1>2. pc'[k] = "idle" /\ \A m \in Conns : m # k => pc'[m] = pc[m]
  BY DEF Shapes
<1>3. hungUp' \in [Conns -> BOOLEAN]
  BY DEF Shapes
<1>4. Shapes'
  <2>1. WorldShapes'
    BY WorldStays
  <2>2. pc' \in [Conns -> {"none", "idle", "parsed", "decided", "alerting", "draining",
                           "answering"}]
    BY DEF Shapes
  <2>3. \A m \in Conns : IF pc'[m] \in {"none", "idle"} THEN current'[m] = Nobody
                         ELSE current'[m] \in 1..Len(sent)
    BY <1>0, <1>2 DEF Shapes
  <2> QED  BY <1>1, <1>3, <2>1, <2>2, <2>3 DEF Shapes
<1>5. OnePlace'
  BY <1>1 DEF Kept, OnePlace
<1>6. RecordedIsRead' /\ RecordFollows'
  BY <1>1, <1>2 DEF Kept, RecordedIsRead, Recorded, RecordFollows, RecordFollowsAt, RecordedAs,
                    Alerted
<1>7. Len(stream[k]) = 0
  BY <1>0, EmptySeq
<1>8. Framed'
  BY <1>0, <1>1, <1>2, <1>7 DEF Kept, Framed, FramedAt, Owing, AnnouncesBody
<1> QED  BY <1>4, <1>5, <1>6, <1>8 DEF Kept

(* A client that hangs up changes nothing that is sent or owed.           *)
LEMMA HangUpKeeps ==
    ASSUME IInv, NEW k \in Conns, HangUp(k)
    PROVE  Shapes' /\ Kept'
<1> USE DEF IInv, HangUp, handler, logs, ghosts, world
<1>1. hungUp' \in [Conns -> BOOLEAN]
  BY DEF Shapes
<1>2. Shapes'
  BY <1>1, WorldStays DEF Shapes
<1>3. OnePlace' /\ RecordedIsRead' /\ RecordFollows'
  BY DEF Kept, OnePlace, RecordedIsRead, Recorded, RecordFollows, RecordFollowsAt, RecordedAs,
         Alerted
<1>4. Framed'
  BY DEF Kept, Framed, FramedAt, Owing, AnnouncesBody
<1> QED  BY <1>2, <1>3, <1>4 DEF Kept

(* A request nobody has seen yet.                                          *)
LEMMA SendHeadKeeps ==
    ASSUME IInv, NEW k \in Conns, SendHead(k)
    PROVE  Shapes' /\ Kept' /\ LogShapes' /\ LogsAgree'
<1> USE DEF IInv, handler, logs, ghosts, world
<1> DEFINE n == Len(sent) + 1
<1>1. PICK r \in Requests :
        /\ sent' = Append(sent, r)
        /\ owes' = [owes EXCEPT ![k] = Announced(r.framing)]
  BY DEF SendHead
<1>2. /\ pc[k] # "none" /\ owes[k] = {} /\ Len(sent) < MaxRequests
      /\ stream' = [stream EXCEPT ![k] = Append(stream[k], Unit("head", n))]
      /\ UNCHANGED <<hungUp, handler, logs, ghosts, world>>
  BY DEF SendHead
<1>3. /\ sent' \in Seq(Requests) /\ Len(sent') = n /\ Len(sent) \in Nat /\ sent'[n] = r
      /\ \A i \in 1..Len(sent) : sent'[i] = sent[i] /\ i \in 1..Len(sent')
      /\ n \in 1..Len(sent') /\ n \notin 1..Len(sent)
  BY <1>1, Grown DEF Shapes
<1>4. Unit("head", n) \in Units /\ Unit("head", n).kind = "head"
        /\ Unit("head", n).crossing = n
  BY <1>3 DEF Unit, Units
<1>5. /\ stream'[k] = Append(stream[k], Unit("head", n))
      /\ stream'[k] \in Seq(Units)
      /\ Len(stream[k]) \in Nat /\ Len(stream'[k]) = Len(stream[k]) + 1
      /\ \A i \in 1..Len(stream[k]) : stream'[k][i] = stream[k][i]
      /\ stream'[k][Len(stream[k]) + 1] = Unit("head", n)
      /\ \A i \in 1..Len(stream'[k]) : i \in 1..Len(stream[k]) \/ i = Len(stream[k]) + 1
  <2>1. stream'[k] = Append(stream[k], Unit("head", n)) /\ stream[k] \in Seq(Units)
    BY <1>2 DEF Shapes
  <2> QED  BY <2>1, <1>4, Grown
<1>6. \A m \in Conns : m # k => stream'[m] = stream[m] /\ owes'[m] = owes[m]
  BY <1>1, <1>2 DEF Shapes
<1>7. /\ owes'[k] \subseteq {"body", "rest"}
      /\ "body" \in owes'[k] <=> r.framing.first # "none"
  BY <1>1 DEF Shapes, Announced
<1> HIDE DEF n
(* Every place of a unit is an old one, or the new end.                    *)
<1>8. \A m \in Conns : \A i \in 1..Len(stream'[m]) :
        \/ i \in 1..Len(stream[m]) /\ stream'[m][i] = stream[m][i]
        \/ m = k /\ i = Len(stream[k]) + 1 /\ stream'[m][i] = Unit("head", n)
  BY <1>5, <1>6
<1>9. \A m \in Conns : \A i \in 1..Len(stream[m]) :
        stream[m][i].kind = "head" => stream[m][i].crossing \in 1..Len(sent)
  BY DEF Shapes, Nobody
<1>10. \A m \in Conns : current[m] # n
  BY <1>3 DEF Shapes, Nobody, n
<1>11. Shapes'
  <2>1. /\ stream' \in [Conns -> Seq(Units)] /\ Len(sent') <= MaxRequests
        /\ owes' \in [Conns -> SUBSET {"body", "rest"}]
    <3>1. stream' \in [Conns -> Seq(Units)]
      BY <1>2, <1>5 DEF Shapes
    <3>2. Len(sent') <= MaxRequests
      BY <1>2, <1>3, BrokerAssumption DEF n
    <3>3. owes' \in [Conns -> SUBSET {"body", "rest"}]
      BY <1>1, <1>7 DEF Shapes, Announced
    <3> QED  BY <3>1, <3>2, <3>3
  <2>2. \A m \in Conns : \A i \in 1..Len(stream'[m]) :
          \/ stream'[m][i].kind = "head" /\ stream'[m][i].crossing \in 1..Len(sent')
          \/ stream'[m][i].kind # "head" /\ stream'[m][i].crossing = Nobody
    <3> SUFFICES ASSUME NEW m \in Conns, NEW i \in 1..Len(stream'[m])
                 PROVE  \/ stream'[m][i].kind = "head" /\ stream'[m][i].crossing \in 1..Len(sent')
                        \/ stream'[m][i].kind # "head" /\ stream'[m][i].crossing = Nobody
      OBVIOUS
    <3>1. CASE i \in 1..Len(stream[m]) /\ stream'[m][i] = stream[m][i]
      BY <1>3, <3>1 DEF Shapes
    <3>2. CASE stream'[m][i] = Unit("head", n)
      BY <1>3, <1>4, <3>2
    <3> QED  BY <1>8, <3>1, <3>2
  <2>3. \A m \in Conns : IF pc[m] \in {"none", "idle"} THEN current[m] = Nobody
                         ELSE current[m] \in 1..Len(sent')
    BY <1>3 DEF Shapes
  <2>4. lost \subseteq 1..Len(sent')
    BY <1>3 DEF Shapes
  <2>5. WorldShapes'
    BY <1>2, WorldStays
  <2> QED  BY <1>2, <1>3, <2>1, <2>2, <2>3, <2>4, <2>5 DEF Shapes
<1>12. OnePlace'
  <2>1. ASSUME NEW a \in Conns, NEW b \in Conns,
               NEW i \in 1..Len(stream'[a]), NEW j \in 1..Len(stream'[b]),
               stream'[a][i].kind = "head", stream'[a][i] = stream'[b][j]
        PROVE  a = b /\ i = j
    <3>1. CASE stream'[a][i] = Unit("head", n)
      <4>1. /\ ~(i \in 1..Len(stream[a]) /\ stream'[a][i] = stream[a][i])
            /\ ~(j \in 1..Len(stream[b]) /\ stream'[b][j] = stream[b][j])
        BY <1>3, <1>4, <1>9, <2>1, <3>1
      <4> QED  BY <1>8, <4>1
    <3>2. CASE stream'[a][i] # Unit("head", n)
      <4>1. /\ i \in 1..Len(stream[a]) /\ stream'[a][i] = stream[a][i]
            /\ j \in 1..Len(stream[b]) /\ stream'[b][j] = stream[b][j]
        BY <1>8, <2>1, <3>2
      <4>2. stream[a][i].kind = "head" /\ stream[a][i] = stream[b][j]
        BY <2>1, <4>1
      <4> QED  BY <4>1, <4>2 DEF Kept, OnePlace
    <3> QED  BY <3>1, <3>2
  <2>2. ASSUME NEW a \in Conns, NEW b \in Conns, NEW i \in 1..Len(stream'[b]),
               stream'[b][i].kind = "head"
        PROVE  stream'[b][i].crossing # current[a]
    BY <1>4, <1>8, <1>10, <2>2 DEF Kept, OnePlace
  <2> QED  BY <1>2, <2>1, <2>2 DEF OnePlace, Kept
<1>13. ~Recorded(n)
  BY <1>3 DEF Recorded, LogShapes
<1>14. RecordedIsRead'
  BY <1>2, <1>4, <1>8, <1>13 DEF Kept, RecordedIsRead, Recorded
<1>15. RecordFollows'
  <2>1. \A m \in Conns : pc[m] \in {"alerting", "draining", "answering"} =>
          sent'[current[m]] = sent[current[m]]
    BY <1>3 DEF Shapes
  <2>2. \A m \in Conns : RecordFollowsAt(m) => RecordFollowsAt(m)'
    BY <1>2, <2>1 DEF RecordFollowsAt, RecordedAs, Alerted
  <2> QED  BY <2>2 DEF Kept, RecordFollows
<1>16. \A m \in Conns : \A i \in 1..Len(stream[m]) :
         stream'[m][i] = stream[m][i] /\ (Owing(stream[m][i])' <=> Owing(stream[m][i]))
  <2> SUFFICES ASSUME NEW m \in Conns, NEW i \in 1..Len(stream[m])
               PROVE  /\ stream'[m][i] = stream[m][i]
                      /\ Owing(stream[m][i])' <=> Owing(stream[m][i])
    OBVIOUS
  <2>1. stream'[m][i] = stream[m][i]
    BY <1>5, <1>6
  <2>2. stream[m][i].kind = "head" => sent'[stream[m][i].crossing] = sent[stream[m][i].crossing]
    BY <1>3, <1>9
  <2> QED  BY <2>1, <2>2 DEF Owing, AnnouncesBody
<1>17. Framed'
  <2> SUFFICES ASSUME NEW m \in Conns
               PROVE  FramedAt(m)'
    BY DEF Framed
  <2>0. FramedAt(m)
    BY DEF Kept, Framed
  <2>1. pc[m] \notin {"none", "idle"} => (AnnouncesBody(current[m])' <=> AnnouncesBody(current[m]))
    BY <1>2, <1>3 DEF Shapes, AnnouncesBody
  <2>2. Len(stream[m]) \in Nat
    BY ConnShapes
  <2>3. CASE m # k
    <3>1. stream'[m] = stream[m] /\ owes'[m] = owes[m]
      BY <1>6, <2>3
    <3>2. \A i \in 2..Len(stream[m]) : i - 1 \in 1..Len(stream[m])
      BY <2>2
    <3>3. \A i \in 2..Len(stream'[m]) : stream'[m][i].kind = "body" <=> Owing(stream[m][i - 1])'
      BY <1>16, <2>0, <3>1, <3>2 DEF FramedAt
    <3>4. Len(stream'[m]) > 0 => ("body" \in owes'[m] <=> Owing(stream[m][Len(stream[m])])')
      BY <1>16, <2>0, <2>2, <3>1 DEF FramedAt
    <3> QED  BY <1>2, <2>0, <2>1, <3>1, <3>3, <3>4 DEF FramedAt
  <2>4. CASE m = k
    <3>1. \A i \in 2..Len(stream'[k]) : stream'[k][i].kind = "body" <=> Owing(stream[k][i - 1])'
      <4> SUFFICES ASSUME NEW i \in 2..Len(stream'[k])
                   PROVE  stream'[k][i].kind = "body" <=> Owing(stream[k][i - 1])'
        OBVIOUS
      <4>1. i - 1 \in 1..Len(stream[k])
        BY <1>5
      <4>2. Owing(stream[k][i - 1])' <=> Owing(stream[k][i - 1])
        BY <1>16, <4>1
      <4>3. CASE i \in 1..Len(stream[k])
        BY <1>5, <2>0, <2>4, <4>2, <4>3 DEF FramedAt
      <4>4. CASE i = Len(stream[k]) + 1
        BY <1>2, <1>4, <1>5, <2>0, <2>4, <4>1, <4>2, <4>4 DEF FramedAt
      <4> QED  BY <1>5, <4>3, <4>4
    <3>2. "body" \in owes'[k] <=> Owing(stream[k][Len(stream[k])])'
      BY <1>3, <1>4, <1>5, <1>7 DEF Owing, AnnouncesBody
    <3>3. Len(stream'[k]) > 0 /\ (Len(stream[k]) = 0 => stream'[k][1].kind # "body")
            /\ (Len(stream[k]) > 0 => stream'[k][1] = stream[k][1])
      BY <1>4, <1>5
    <3>4. pc[k] \in {"parsed", "decided", "alerting", "draining"} =>
            (stream'[k][1].kind = "body" <=> AnnouncesBody(current[k])')
      BY <1>2, <1>5, <2>0, <2>1, <2>4, <3>3 DEF FramedAt
    <3>5. pc[k] = "idle" \/ (pc[k] = "answering" /\ ~closing[k]) => stream'[k][1].kind # "body"
      BY <1>5, <2>0, <2>4, <3>3 DEF FramedAt
    <3> QED  BY <1>2, <1>5, <2>0, <2>4, <3>1, <3>2, <3>3, <3>4, <3>5 DEF FramedAt
  <2> QED  BY <2>3, <2>4
<1>18. LogShapes' /\ LogsAgree'
  <2>1. LogShapes'
    BY <1>2, <1>3 DEF LogShapes
  <2> QED  BY <1>2, <2>1 DEF LogsAgree
<1> QED  BY <1>11, <1>12, <1>14, <1>15, <1>17, <1>18 DEF Kept

(* A part of a body that a client owes.                                    *)
LEMMA SendBodyKeeps ==
    ASSUME IInv, NEW k \in Conns, SendBody(k)
    PROVE  Shapes' /\ Kept'
<1> USE DEF IInv, handler, logs, ghosts, world
<1>1. PICK part \in owes[k] :
        /\ part = "rest" => "body" \notin owes[k]
        /\ owes' = [owes EXCEPT ![k] = owes[k] \ {part}]
        /\ stream' = [stream EXCEPT ![k] = Append(stream[k], Unit(part, Nobody))]
        /\ UNCHANGED <<sent, hungUp, handler, logs, ghosts, world>>
        /\ pc[k] # "none"
  BY DEF SendBody
<1>0. /\ part \in {"body", "rest"} /\ part = "body" <=> "body" \in owes[k]
      /\ owes[k] \subseteq {"body", "rest"}
  BY <1>1, ConnShapes
<1>2. /\ Unit(part, Nobody) \in Units /\ Unit(part, Nobody).kind = part
      /\ Unit(part, Nobody).crossing = Nobody
  BY <1>0 DEF Unit, Units, Nobody
<1>3. /\ stream'[k] \in Seq(Units)
      /\ Len(stream[k]) \in Nat /\ Len(stream'[k]) = Len(stream[k]) + 1
      /\ \A i \in 1..Len(stream[k]) : stream'[k][i] = stream[k][i]
      /\ stream'[k][Len(stream[k]) + 1] = Unit(part, Nobody)
      /\ \A i \in 1..Len(stream'[k]) : i \in 1..Len(stream[k]) \/ i = Len(stream[k]) + 1
  <2>1. stream'[k] = Append(stream[k], Unit(part, Nobody)) /\ stream[k] \in Seq(Units)
    BY <1>1 DEF Shapes
  <2> QED  BY <2>1, <1>2, Grown
<1>4. \A m \in Conns : m # k => stream'[m] = stream[m] /\ owes'[m] = owes[m]
  BY <1>1 DEF Shapes
<1>5. owes'[k] \subseteq {"body", "rest"} /\ "body" \notin owes'[k]
  BY <1>0, <1>1 DEF Shapes
<1>6. \A m \in Conns : \A i \in 1..Len(stream'[m]) :
        \/ i \in 1..Len(stream[m]) /\ stream'[m][i] = stream[m][i]
        \/ m = k /\ i = Len(stream[k]) + 1 /\ stream'[m][i] = Unit(part, Nobody)
  BY <1>3, <1>4
<1>7. Shapes'
  <2>1. stream' \in [Conns -> Seq(Units)]
    BY <1>1, <1>3 DEF Shapes
  <2>2. owes' \in [Conns -> SUBSET {"body", "rest"}]
    BY <1>0, <1>1 DEF Shapes
  <2>3. \A m \in Conns : \A i \in 1..Len(stream'[m]) :
          \/ stream'[m][i].kind = "head" /\ stream'[m][i].crossing \in 1..Len(sent)
          \/ stream'[m][i].kind # "head" /\ stream'[m][i].crossing = Nobody
    <3> SUFFICES ASSUME NEW m \in Conns, NEW i \in 1..Len(stream'[m])
                 PROVE  \/ stream'[m][i].kind = "head" /\ stream'[m][i].crossing \in 1..Len(sent)
                        \/ stream'[m][i].kind # "head" /\ stream'[m][i].crossing = Nobody
      OBVIOUS
    <3>1. CASE i \in 1..Len(stream[m]) /\ stream'[m][i] = stream[m][i]
      BY <3>1 DEF Shapes
    <3>2. CASE stream'[m][i] = Unit(part, Nobody)
      BY <1>0, <1>2, <3>2
    <3> QED  BY <1>6, <3>1, <3>2
  <2> QED  BY <1>1, <2>1, <2>2, <2>3, WorldStays DEF Shapes
<1>8. \A m \in Conns : \A i \in 1..Len(stream'[m]) : stream'[m][i].kind = "head" =>
        i \in 1..Len(stream[m]) /\ stream'[m][i] = stream[m][i]
  BY <1>0, <1>2, <1>6
<1>9. OnePlace' /\ RecordedIsRead'
  <2>1. ASSUME NEW a \in Conns, NEW b \in Conns,
               NEW i \in 1..Len(stream'[a]), NEW j \in 1..Len(stream'[b]),
               stream'[a][i].kind = "head", stream'[a][i] = stream'[b][j]
        PROVE  a = b /\ i = j
    <3>1. /\ i \in 1..Len(stream[a]) /\ j \in 1..Len(stream[b])
          /\ stream[a][i].kind = "head" /\ stream[a][i] = stream[b][j]
      BY <1>8, <2>1
    <3> QED  BY <3>1 DEF Kept, OnePlace
  <2>2. ASSUME NEW a \in Conns, NEW b \in Conns, NEW i \in 1..Len(stream'[b]),
               stream'[b][i].kind = "head"
        PROVE  stream'[b][i].crossing # current[a] /\ ~Recorded(stream'[b][i].crossing)
    BY <1>8, <2>2 DEF Kept, OnePlace, RecordedIsRead
  <2> QED  BY <1>1, <2>1, <2>2 DEF Kept, OnePlace, RecordedIsRead, Recorded
<1>10. RecordFollows'
  BY <1>1 DEF Kept, RecordFollows, RecordFollowsAt, RecordedAs, Alerted
<1>11. Framed'
  <2> SUFFICES ASSUME NEW m \in Conns
               PROVE  FramedAt(m)'
    BY DEF Framed
  <2>0. FramedAt(m)
    BY DEF Kept, Framed
  <2>1. CASE m # k
    BY <1>1, <1>4, <2>0, <2>1 DEF FramedAt, Owing, AnnouncesBody
  <2>2. CASE m = k
    <3>1. \A i \in 2..Len(stream'[k]) : stream'[k][i].kind = "body" <=> Owing(stream'[k][i - 1])
      <4> SUFFICES ASSUME NEW i \in 2..Len(stream'[k])
                   PROVE  stream'[k][i].kind = "body" <=> Owing(stream'[k][i - 1])
        OBVIOUS
      <4>1. i - 1 \in 1..Len(stream[k]) /\ stream'[k][i - 1] = stream[k][i - 1]
        BY <1>3
      <4>2. CASE i \in 1..Len(stream[k])
        <5>1. i \in 2..Len(stream[k]) /\ stream'[k][i] = stream[k][i]
          BY <1>3, <4>2
        <5> QED  BY <2>0, <2>2, <4>1, <5>1 DEF FramedAt
      <4>3. CASE i = Len(stream[k]) + 1
        BY <1>0, <1>1, <1>2, <1>3, <2>0, <2>2, <4>1, <4>3 DEF FramedAt
      <4> QED  BY <1>3, <4>2, <4>3
    <3>2. ~Owing(stream'[k][Len(stream'[k])])
      BY <1>0, <1>2, <1>3 DEF Owing
    <3>3. Len(stream'[k]) > 0 /\ (Len(stream[k]) = 0 => stream'[k][1].kind = part)
            /\ (Len(stream[k]) > 0 => stream'[k][1] = stream[k][1])
      BY <1>2, <1>3
    <3>4. pc[k] \in {"parsed", "decided", "alerting", "draining"} =>
            (stream'[k][1].kind = "body" <=> AnnouncesBody(current[k]))
      BY <1>0, <1>1, <1>3, <2>0, <2>2, <3>3 DEF FramedAt
    <3>5. pc[k] = "idle" \/ (pc[k] = "answering" /\ ~closing[k]) => stream'[k][1].kind # "body"
      BY <1>0, <1>1, <1>3, <2>0, <2>2, <3>3 DEF FramedAt
    <3>6. /\ pc'[k] = pc[k] /\ closing'[k] = closing[k] /\ current'[k] = current[k]
          /\ sent' = sent /\ pc[k] # "none"
      BY <1>1
    <3>7. \A i \in 2..Len(stream'[k]) :
              stream'[k][i].kind = "body" <=> Owing(stream[k][i - 1])'
      BY <3>1, <3>6 DEF Owing, AnnouncesBody
    <3>8. ~Owing(stream[k][Len(stream[k])])'
      BY <3>2, <3>6 DEF Owing, AnnouncesBody
    <3>9. AnnouncesBody(current[k])' <=> AnnouncesBody(current[k])
      BY <3>6 DEF AnnouncesBody
    <3>10. closing[k] => pc[k] = "answering"
      BY <2>0, <2>2 DEF FramedAt
    <3> QED  BY <1>5, <2>2, <3>3, <3>4, <3>5, <3>6, <3>7, <3>8, <3>9, <3>10 DEF FramedAt
  <2> QED  BY <2>1, <2>2
<1> QED  BY <1>7, <1>9, <1>10, <1>11 DEF Kept

(* A request head that is parsed as the request line.                      *)
LEMMA ReadHeadKeeps ==
    ASSUME IInv, NEW k \in Conns, ReadRequestLine(k), Head(stream[k]).kind = "head"
    PROVE  Shapes' /\ Kept' /\ misread' = misread
<1> USE DEF IInv, logs, world
<1> DEFINE unit == Head(stream[k])
           n == unit.crossing
<1>1. pc[k] = "idle" /\ stream[k] # <<>> /\ stream[k] \in Seq(Units) /\ Len(stream[k]) \in Nat
  BY ConnShapes DEF ReadRequestLine
<1>2. /\ unit = stream[k][1] /\ 1 \in 1..Len(stream[k])
      /\ Tail(stream[k]) \in Seq(Units)
      /\ Len(Tail(stream[k])) = Len(stream[k]) - 1
      /\ \A i \in 1..Len(Tail(stream[k])) :
           i + 1 \in 1..Len(stream[k]) /\ Tail(stream[k])[i] = stream[k][i + 1]
  BY <1>1, Popped
<1>3. unit.kind = "head"
  OBVIOUS
<1>4. /\ pc' = [pc EXCEPT ![k] = "parsed"]
      /\ current' = [current EXCEPT ![k] = n]
      /\ inForce' = [inForce EXCEPT ![n] = {Len(versions)}]
      /\ stream' = [stream EXCEPT ![k] = Tail(stream[k])]
      /\ UNCHANGED <<owes, hungUp, decision, closing, misread, sent, logs, lost, world>>
  BY <1>3 DEF ReadRequestLine
<1>5. n \in 1..Len(sent) /\ n # Nobody
  BY <1>2, <1>3 DEF Shapes, Nobody
<1>6. /\ stream'[k] = Tail(stream[k]) /\ pc'[k] = "parsed" /\ current'[k] = n
      /\ \A m \in Conns : m # k => stream'[m] = stream[m] /\ pc'[m] = pc[m]
                                    /\ current'[m] = current[m]
  BY <1>4 DEF Shapes
<1> HIDE DEF unit, n
<1>15. \A i \in 1..Len(stream'[k]) :
         i \in Nat \ {0} /\ i + 1 \in 1..Len(stream[k]) /\ stream'[k][i] = stream[k][i + 1]
  BY <1>1, <1>2, <1>6
<1>7. Shapes'
  <2>0. WorldShapes'
    <3>1. Len(versions) \in Nat /\ Len(versions) >= 1
      BY LenProperties DEF Shapes, WorldShapes
    <3>2. {Len(versions)} \subseteq 1..Len(versions)
      BY <3>1
    <3>3. inForce' \in [Crossings -> SUBSET (1..Len(versions))]
      BY <1>4, <3>2 DEF Shapes, WorldShapes
    <3> QED  BY <1>4, <3>3 DEF Shapes, WorldShapes, Mishaps
  <2>1. stream' \in [Conns -> Seq(Units)]
    BY <1>2, <1>4 DEF Shapes
  <2>2. /\ current' \in [Conns -> Nat]
        /\ pc' \in [Conns -> {"none", "idle", "parsed", "decided", "alerting", "draining",
                              "answering"}]
    BY <1>4, <1>5 DEF Shapes
  <2>3. \A m \in Conns : \A i \in 1..Len(stream'[m]) :
          \/ stream'[m][i].kind = "head" /\ stream'[m][i].crossing \in 1..Len(sent)
          \/ stream'[m][i].kind # "head" /\ stream'[m][i].crossing = Nobody
    <3> SUFFICES ASSUME NEW m \in Conns, NEW i \in 1..Len(stream'[m])
                 PROVE  \/ stream'[m][i].kind = "head" /\ stream'[m][i].crossing \in 1..Len(sent)
                        \/ stream'[m][i].kind # "head" /\ stream'[m][i].crossing = Nobody
      OBVIOUS
    <3>1. CASE m = k
      <4>1. i + 1 \in 1..Len(stream[k]) /\ stream'[m][i] = stream[k][i + 1]
        BY <1>15, <3>1
      <4>2. \/ stream[k][i + 1].kind = "head" /\ stream[k][i + 1].crossing \in 1..Len(sent)
            \/ stream[k][i + 1].kind # "head" /\ stream[k][i + 1].crossing = Nobody
        BY <4>1 DEF Shapes
      <4> QED  BY <4>1, <4>2
    <3>2. CASE m # k
      BY <1>6, <3>2 DEF Shapes
    <3> QED  BY <3>1, <3>2
  <2>4. \A m \in Conns : IF pc'[m] \in {"none", "idle"} THEN current'[m] = Nobody
                         ELSE current'[m] \in 1..Len(sent)
    BY <1>5, <1>6 DEF Shapes
  <2> QED  BY <1>4, <2>0, <2>1, <2>2, <2>3, <2>4 DEF Shapes
(* Where a unit was before it moved up.                                    *)
<1> DEFINE Was(m, i) == IF m = k THEN i + 1 ELSE i
<1>8. \A m \in Conns : \A i \in 1..Len(stream'[m]) :
        /\ Was(m, i) \in 1..Len(stream[m]) /\ stream'[m][i] = stream[m][Was(m, i)]
        /\ i \in Nat /\ (m = k => Was(m, i) # 1)
  <2> SUFFICES ASSUME NEW m \in Conns, NEW i \in 1..Len(stream'[m])
               PROVE  /\ Was(m, i) \in 1..Len(stream[m]) /\ stream'[m][i] = stream[m][Was(m, i)]
                      /\ i \in Nat /\ (m = k => Was(m, i) # 1)
    OBVIOUS
  <2>1. CASE m = k
    BY <1>15, <2>1
  <2>2. CASE m # k
    BY <1>6, <2>2, ConnShapes
  <2> QED  BY <2>1, <2>2
<1>9. \A m \in Conns : \A i \in 1..Len(stream'[m]) :
        stream'[m][i].kind = "head" => stream'[m][i].crossing # n
  <2> SUFFICES ASSUME NEW m \in Conns, NEW i \in 1..Len(stream'[m]),
                      stream'[m][i].kind = "head", stream'[m][i].crossing = n
               PROVE  FALSE
    OBVIOUS
  <2>1. stream'[m][i] \in Units /\ unit \in Units
    BY <1>1, <1>2, <1>7, ElementOfSeq DEF Shapes
  <2>2. stream'[m][i] = unit
    BY <1>3, <2>1 DEF Units, n
  <2>3. Was(m, i) \in 1..Len(stream[m]) /\ stream[m][Was(m, i)] = stream[k][1]
    BY <1>2, <1>8, <2>2
  <2>4. m = k /\ Was(m, i) = 1
    BY <1>2, <1>3, <2>3 DEF Kept, OnePlace
  <2> QED  BY <1>8, <2>4
<1>10. OnePlace'
  <2>1. ASSUME NEW a \in Conns, NEW b \in Conns,
               NEW i \in 1..Len(stream'[a]), NEW j \in 1..Len(stream'[b]),
               stream'[a][i].kind = "head", stream'[a][i] = stream'[b][j]
        PROVE  a = b /\ i = j
    <3>1. /\ Was(a, i) \in 1..Len(stream[a]) /\ Was(b, j) \in 1..Len(stream[b])
          /\ stream[a][Was(a, i)].kind = "head"
          /\ stream[a][Was(a, i)] = stream[b][Was(b, j)]
      BY <1>8, <2>1
    <3>2. a = b /\ Was(a, i) = Was(b, j)
      BY <3>1 DEF Kept, OnePlace
    <3> QED  BY <1>8, <3>2
  <2>2. ASSUME NEW a \in Conns, NEW b \in Conns, NEW i \in 1..Len(stream'[b]),
               stream'[b][i].kind = "head"
        PROVE  stream'[b][i].crossing # current'[a]
    <3>1. a = k => current'[a] = n
      BY <1>6
    <3>2. Was(b, i) \in 1..Len(stream[b]) /\ stream[b][Was(b, i)].kind = "head"
            /\ stream[b][Was(b, i)].crossing = stream'[b][i].crossing
      BY <1>8, <2>2
    <3>3. stream'[b][i].crossing # current[a]
      BY <3>2 DEF Kept, OnePlace
    <3> QED  BY <1>6, <1>9, <2>2, <3>1, <3>3
  <2>3. \A a \in Conns : current[a] # n
    BY <1>2, <1>3 DEF Kept, OnePlace, n
  <2>4. \A a, b \in Conns : current'[a] # Nobody /\ current'[a] = current'[b] => a = b
    BY <1>6, <2>3 DEF Kept, OnePlace
  <2> QED  BY <2>1, <2>2, <2>4 DEF OnePlace
<1>11. RecordedIsRead'
  <2>1. ~Recorded(n)
    BY <1>2, <1>3 DEF Kept, RecordedIsRead, n
  <2>2. \A m \in Conns : \A i \in 1..Len(stream'[m]) :
          stream'[m][i].kind = "head" => ~Recorded(stream'[m][i].crossing)
    BY <1>8 DEF Kept, RecordedIsRead
  <2>3. \A m \in Conns : pc'[m] \in {"parsed", "decided"} => ~Recorded(current'[m])
    BY <1>6, <2>1 DEF Kept, RecordedIsRead
  <2> QED  BY <1>4, <2>2, <2>3 DEF RecordedIsRead, Recorded
<1>12. RecordFollows'
  BY <1>4, <1>6 DEF Kept, RecordFollows, RecordFollowsAt, RecordedAs, Alerted
<1>13. Framed'
  <2> SUFFICES ASSUME NEW m \in Conns
               PROVE  FramedAt(m)'
    BY DEF Framed
  <2>0. FramedAt(m)
    BY DEF Kept, Framed
  <2>1. CASE m # k
    BY <1>4, <1>6, <2>0, <2>1 DEF FramedAt, Owing, AnnouncesBody
  <2>2. CASE m = k
    <3>1. \A i \in 2..Len(stream'[k]) : stream'[k][i].kind = "body" <=> Owing(stream'[k][i - 1])
      BY <1>1, <1>2, <1>6, <2>0, <2>2 DEF FramedAt
    <3>2. Len(stream'[k]) > 0 => ("body" \in owes[k] <=> Owing(stream'[k][Len(stream'[k])]))
      BY <1>1, <1>2, <1>6, <2>0, <2>2 DEF FramedAt
    <3>3. Owing(stream[k][1]) <=> AnnouncesBody(n)
      BY <1>2, <1>3 DEF Owing, n
    <3>4. Len(stream'[k]) > 0 => (stream'[k][1].kind = "body" <=> AnnouncesBody(n))
      BY <1>1, <1>2, <1>6, <2>0, <2>2, <3>3 DEF FramedAt
    <3>5. Len(stream'[k]) = 0 => ("body" \in owes[k] <=> AnnouncesBody(n))
      BY <1>1, <1>2, <1>6, <2>0, <2>2, <3>3 DEF FramedAt
    <3>6. ~closing[k]
      BY <1>1, <2>0, <2>2 DEF FramedAt
    <3> QED  BY <1>4, <1>6, <2>2, <3>1, <3>2, <3>4, <3>5, <3>6
             DEF FramedAt, Owing, AnnouncesBody
  <2> QED  BY <2>1, <2>2
<1> QED  BY <1>4, <1>7, <1>10, <1>11, <1>12, <1>13 DEF Kept

(* Other bytes parsed as the request line are no announced body, and they  *)
(* end the connection.                                                     *)
LEMMA ReadRestKeeps ==
    ASSUME IInv, NEW k \in Conns, ReadRequestLine(k), Head(stream[k]).kind # "head"
    PROVE  Shapes' /\ Kept' /\ misread' \subseteq {"rest"}
<1>1. /\ pc[k] = "idle" /\ stream[k] # <<>> /\ stream[k] \in Seq(Units)
      /\ Len(stream[k]) \in Nat
  BY ConnShapes DEF IInv, ReadRequestLine
<1>2. Head(stream[k]) = stream[k][1] /\ stream[k][1] \in Units /\ 1 \in 1..Len(stream[k])
  BY <1>1, Popped
<1>3. Head(stream[k]).kind = "rest"
  BY <1>1, <1>2 DEF IInv, Kept, Framed, FramedAt, Units
<1>4. /\ misread' = misread \cup {Head(stream[k]).kind} /\ EndThreads({k})
      /\ UNCHANGED <<inForce, sent, logs, lost, world>>
  BY DEF ReadRequestLine
<1>5. misread' \subseteq {"rest"}
  BY <1>3, <1>4 DEF IInv
<1>6. {k} \in SUBSET Conns /\ WorldShapes' /\ lost' \subseteq 1..Len(sent)
  BY <1>4, WorldStays DEF IInv, Shapes
<1> QED  BY <1>4, <1>5, <1>6, EndThreadsKeeps DEF logs

-----------------------------------------------------------------------------
(* A handler thread that goes on without reading from its connection.      *)
LEMMA HandlerMoves ==
    ASSUME IInv, NEW k \in Conns, NEW next \in {"decided", "alerting", "draining", "answering"},
           pc' = [pc EXCEPT ![k] = next],
           pc[k] \in {"parsed", "decided", "alerting", "draining"},
           next # "answering" => UNCHANGED closing,
           next = "answering" => \/ UNCHANGED closing /\ ~AnnouncesBody(current[k])
                                 \/ closing' = [closing EXCEPT ![k] = TRUE],
           decision' \in [Conns -> Decisions],
           UNCHANGED <<client, current, lost, inForce, world>>
    PROVE  Shapes' /\ OnePlace' /\ Framed'
<1> USE DEF IInv, client, world
<1>1. pc'[k] = next /\ \A m \in Conns : m # k => pc'[m] = pc[m] /\ closing'[m] = closing[m]
  BY DEF Shapes
<1>2. /\ pc' \in [Conns -> {"none", "idle", "parsed", "decided", "alerting", "draining",
                            "answering"}]
      /\ \A m \in Conns : IF pc'[m] \in {"none", "idle"} THEN current[m] = Nobody
                          ELSE current[m] \in 1..Len(sent)
  BY <1>1 DEF Shapes
<1>3. closing' \in [Conns -> BOOLEAN]
  BY DEF Shapes
<1>4. Shapes'
  BY <1>2, <1>3, WorldStays DEF Shapes
<1>5. OnePlace'
  BY DEF Kept, OnePlace
<1>6. Framed'
  <2> SUFFICES ASSUME NEW m \in Conns
               PROVE  FramedAt(m)'
    BY DEF Framed
  <2>0. FramedAt(m)
    BY DEF Kept, Framed
  <2>1. CASE m # k
    BY <1>1, <2>0, <2>1 DEF FramedAt, Owing, AnnouncesBody
  <2>2. CASE m = k /\ next # "answering"
    BY <1>1, <2>0, <2>2 DEF FramedAt, Owing, AnnouncesBody
  <2>3. CASE m = k /\ next = "answering" /\ UNCHANGED closing /\ ~AnnouncesBody(current[k])
    BY <1>1, <2>0, <2>3 DEF FramedAt, Owing, AnnouncesBody
  <2>4. CASE m = k /\ next = "answering" /\ closing' = [closing EXCEPT ![k] = TRUE]
    <3>1. closing'[k] = TRUE
      BY <2>4 DEF Shapes
    <3> QED  BY <1>1, <2>0, <2>4, <3>1 DEF FramedAt, Owing, AnnouncesBody
  <2> QED  BY <2>1, <2>2, <2>3, <2>4
<1> QED  BY <1>4, <1>5, <1>6

(* While neither the logs nor the requests change, nor does what the logs *)
(* say.                                                                   *)
LEMMA LogsStay ==
    ASSUME IInv, UNCHANGED <<sent, logs>>
    PROVE  LogShapes' /\ LogsAgree'
  BY DEF IInv, logs, LogShapes, LogsAgree

(* A decision is taken before anything is written.                        *)
LEMMA TakeDecisionKeeps ==
    ASSUME IInv, NEW k \in Conns, NEW d \in Decisions, pc[k] = "parsed",
           decision' = [decision EXCEPT ![k] = d], pc' = [pc EXCEPT ![k] = "decided"],
           UNCHANGED <<client, current, closing, logs, ghosts, world>>
    PROVE  Shapes' /\ Kept'
<1> USE DEF IInv, logs, ghosts
<1>1. decision' \in [Conns -> Decisions]
  BY DEF Shapes
<1>2. Shapes' /\ OnePlace' /\ Framed'
  BY <1>1, HandlerMoves
<1>3. /\ pc'[k] = "decided" /\ pc[k] = "parsed"
      /\ \A m \in Conns : m # k => pc'[m] = pc[m] /\ decision'[m] = decision[m]
  BY DEF Shapes
<1> USE DEF client
<1>4. RecordedIsRead'
  BY <1>3 DEF Kept, RecordedIsRead, Recorded
<1>5. RecordFollows'
  BY <1>3 DEF Kept, RecordFollows, RecordFollowsAt, RecordedAs, Alerted
<1> QED  BY <1>2, <1>4, <1>5 DEF Kept

(* The first write, for a crossing that is in neither log.                 *)
LEMMA LogRequestKeeps ==
    ASSUME IInv, NEW k \in Conns, LogRequest(k)
    PROVE  Shapes' /\ Kept' /\ LogShapes' /\ LogsAgree'
<1> USE DEF IInv, ghosts
<1> DEFINE n == current[k]
           line == [crossing |-> n, host |-> Named[sent[n]], decision |-> decision[k]]
<1>1. /\ pc[k] = "decided" /\ requests' = Append(requests, line)
      /\ pc' = [pc EXCEPT ![k] = AfterRequest(decision[k])]
      /\ UNCHANGED <<client, current, decision, closing, events, answers, ghosts, world>>
  BY DEF LogRequest
<1>2. /\ n \in 1..Len(sent) /\ decision[k] \in Decisions /\ sent[n] \in Requests
      /\ sent \in Seq(Requests) /\ Len(sent) \in Nat
  <2>1. n \in 1..Len(sent) /\ sent \in Seq(Requests)
    BY <1>1 DEF Shapes
  <2> QED  BY <2>1, ConnShapes, ElementOfSeq, LenProperties
<1>3. /\ line \in [crossing : Nat, host : Texts, decision : Decisions]
      /\ line.crossing = n
  BY <1>2, NamesAreTexts
<1> HIDE DEF line
<1>4. /\ requests' \in Seq([crossing : Nat, host : Texts, decision : Decisions])
      /\ Len(requests') = Len(requests) + 1 /\ Len(requests) \in Nat
      /\ \A i \in 1..Len(requests) : requests'[i] = requests[i] /\ i \in 1..Len(requests')
      /\ requests'[Len(requests) + 1] = line /\ Len(requests) + 1 \in 1..Len(requests')
      /\ \A i \in 1..Len(requests') : i \in 1..Len(requests) \/ i = Len(requests) + 1
  BY <1>1, <1>3, Grown DEF LogShapes
<1>5. ~Recorded(n)
  BY <1>1 DEF Kept, RecordedIsRead
<1>6. DOMAIN requests = 1..Len(requests) /\ DOMAIN requests' = 1..Len(requests')
        /\ DOMAIN events = 1..Len(events)
  BY <1>4, LenProperties DEF LogShapes
<1>7. ~Alerted(n)
  <2> SUFFICES ASSUME NEW i \in 1..Len(events), events[i].crossing = n
               PROVE  FALSE
    BY DEF Alerted
  <2>1. PICK j \in DOMAIN requests : requests[j] = [crossing |-> n, host |-> events[i].host,
                                                   decision |-> "deny"]
    BY <1>6 DEF LogsAgree
  <2> QED  BY <1>5, <1>6, <2>1 DEF Recorded
<1>8. Shapes' /\ OnePlace' /\ Framed'
  BY <1>1, HandlerMoves DEF AfterRequest, Shapes, client, world
<1>9. LogShapes'
  BY <1>1, <1>2, <1>3, <1>4 DEF LogShapes, client
<1>10. RecordedIsRead'
  <2> DEFINE RecordedNow(c) == \E i \in 1..Len(requests') : requests'[i].crossing = c
  <2>1. \A c : RecordedNow(c) => Recorded(c) \/ c = n
    BY <1>3, <1>4 DEF Recorded
  <2>2. \A m \in Conns : \A i \in 1..Len(stream[m]) :
          stream[m][i].kind = "head" => stream[m][i].crossing # n
    BY DEF Kept, OnePlace
  <2>3. \A m \in Conns : m # k => current[m] # n \/ n = Nobody
    BY DEF Kept, OnePlace
  <2>4. n # Nobody
    BY <1>2 DEF Nobody
  <2>5. pc'[k] \in {"alerting", "draining"} /\ \A m \in Conns : m # k => pc'[m] = pc[m]
    BY <1>1 DEF AfterRequest, Shapes
  <2> HIDE DEF RecordedNow
  <2>6. \A m \in Conns : \A i \in 1..Len(stream[m]) :
          stream[m][i].kind = "head" => ~RecordedNow(stream[m][i].crossing)
    BY <2>1, <2>2 DEF Kept, RecordedIsRead
  <2>7. \A m \in Conns : pc'[m] \in {"parsed", "decided"} => ~RecordedNow(current[m])
    BY <2>1, <2>3, <2>4, <2>5 DEF Kept, RecordedIsRead
  <2> QED  BY <1>1, <2>6, <2>7 DEF RecordedIsRead, Recorded, RecordedNow, client
<1>11. RecordFollows'
  <2> SUFFICES ASSUME NEW m \in Conns
               PROVE  RecordFollowsAt(m)'
    BY DEF RecordFollows
  <2>1. CASE m # k
    <3>1. \A c, h, d : RecordedAs(c, h, d) => RecordedAs(c, h, d)'
      BY <1>4 DEF RecordedAs
    <3>2. pc'[m] = pc[m] /\ RecordFollowsAt(m)
      BY <1>1, <2>1 DEF Shapes, Kept, RecordFollows
    <3> QED  BY <1>1, <3>1, <3>2 DEF RecordFollowsAt, Alerted, client
  <2>2. CASE m = k
    <3>1. pc'[k] = AfterRequest(decision[k])
      BY <1>1 DEF Shapes
    <3>2. RecordedAs(current[k], Named[sent[current[k]]], decision[k])'
      BY <1>1, <1>4 DEF RecordedAs, line, client
    <3>3. ~Alerted(current[k])'
      BY <1>1, <1>7 DEF Alerted
    <3>4. /\ decision[k] = "deny" => pc'[k] = "alerting"
          /\ decision[k] # "deny" => pc'[k] = "draining"
      BY <3>1 DEF AfterRequest
    <3> QED  BY <1>1, <2>2, <3>2, <3>3, <3>4 DEF RecordFollowsAt
  <2> QED  BY <2>1, <2>2
<1>12. LogsAgree'
  <2>1. \A i, j \in DOMAIN requests' :
          requests'[i].crossing = requests'[j].crossing => i = j
    BY <1>3, <1>4, <1>5, <1>6 DEF LogsAgree, Recorded
  <2>2. \A i \in DOMAIN events : \E j \in DOMAIN requests' :
          requests'[j] = [crossing |-> events[i].crossing, host |-> events[i].host,
                          decision |-> "deny"]
    BY <1>4, <1>6 DEF LogsAgree
  <2>3. ASSUME NEW a \in answers
        PROVE  \E j \in DOMAIN requests' :
                 /\ requests'[j].crossing = a.crossing /\ requests'[j].decision = a.decision
                 /\ a.decision = "deny" =>
                      \E i \in DOMAIN events : events[i].crossing = a.crossing
    <3>1. PICK j \in DOMAIN requests :
            /\ requests[j].crossing = a.crossing /\ requests[j].decision = a.decision
            /\ a.decision = "deny" => \E i \in DOMAIN events : events[i].crossing = a.crossing
      BY DEF LogsAgree
    <3>2. j \in DOMAIN requests' /\ requests'[j] = requests[j]
      BY <1>4, <1>6
    <3> QED  BY <3>1, <3>2
  <2> QED  BY <1>1, <2>1, <2>2, <2>3 DEF LogsAgree
<1> QED  BY <1>8, <1>9, <1>10, <1>11, <1>12 DEF Kept

(* The second write, for a denial that is recorded and not alerted.        *)
LEMMA LogEventKeeps ==
    ASSUME IInv, NEW k \in Conns, LogEvent(k)
    PROVE  Shapes' /\ Kept' /\ LogShapes' /\ LogsAgree'
<1> USE DEF IInv, ghosts
<1> DEFINE n == current[k]
           line == [crossing |-> n, host |-> Named[sent[n]]]
<1>1. /\ pc[k] = "alerting" /\ events' = Append(events, line)
      /\ pc' = [pc EXCEPT ![k] = "draining"]
      /\ UNCHANGED <<client, current, decision, closing, requests, answers, ghosts, world>>
  BY DEF LogEvent
<1>2. n \in 1..Len(sent) /\ sent[n] \in Requests /\ Len(sent) \in Nat
  <2>1. n \in 1..Len(sent) /\ sent \in Seq(Requests)
    BY <1>1 DEF Shapes
  <2> QED  BY <2>1, ElementOfSeq, LenProperties
<1>3. /\ line \in [crossing : Nat, host : Texts]
      /\ line.crossing = n /\ line.host = Named[sent[n]]
  BY <1>2, NamesAreTexts
<1> HIDE DEF line
<1>4. /\ events' \in Seq([crossing : Nat, host : Texts])
      /\ Len(events') = Len(events) + 1 /\ Len(events) \in Nat
      /\ \A i \in 1..Len(events) : events'[i] = events[i] /\ i \in 1..Len(events')
      /\ events'[Len(events) + 1] = line /\ Len(events) + 1 \in 1..Len(events')
      /\ \A i \in 1..Len(events') : i \in 1..Len(events) \/ i = Len(events) + 1
  BY <1>1, <1>3, Grown DEF LogShapes
<1>5. /\ RecordedAs(n, Named[sent[n]], "deny") /\ ~Alerted(n) /\ decision[k] = "deny"
  BY <1>1 DEF Kept, RecordFollows, RecordFollowsAt
<1>6. DOMAIN requests = 1..Len(requests) /\ DOMAIN events' = 1..Len(events')
        /\ DOMAIN events = 1..Len(events)
  BY <1>4, LenProperties DEF LogShapes
<1>7. Shapes' /\ OnePlace' /\ Framed'
  BY <1>1, HandlerMoves DEF Shapes, client, world
<1>8. LogShapes'
  BY <1>1, <1>4 DEF LogShapes, client
<1>9. pc'[k] = "draining" /\ \A m \in Conns : m # k => pc'[m] = pc[m]
  BY <1>1 DEF Shapes
<1>10. RecordedIsRead'
  BY <1>1, <1>9 DEF Kept, RecordedIsRead, Recorded, client
<1>11. RecordFollows'
  <2> SUFFICES ASSUME NEW m \in Conns
               PROVE  RecordFollowsAt(m)'
    BY DEF RecordFollows
  <2>0. RecordFollowsAt(m)
    BY DEF Kept, RecordFollows
  <2>1. CASE m # k
    <3>1. pc[m] = "alerting" => current[m] # n
      BY <1>2, <2>1 DEF Kept, OnePlace, Shapes, Nobody
    <3> DEFINE AlertedNow(c) == \E i \in 1..Len(events') : events'[i].crossing = c
    <3>2. AlertedNow(current[m]) => Alerted(current[m]) \/ current[m] = n
      BY <1>3, <1>4 DEF Alerted
    <3>3. Alerted(current[m]) => AlertedNow(current[m])
      BY <1>4 DEF Alerted
    <3> HIDE DEF AlertedNow
    <3>4. pc[m] = "alerting" => ~AlertedNow(current[m])
      BY <2>0, <3>1, <3>2 DEF RecordFollowsAt
    <3>5. pc[m] \in {"draining", "answering"} /\ decision[m] = "deny" => AlertedNow(current[m])
      BY <2>0, <3>3 DEF RecordFollowsAt
    <3> QED  BY <1>1, <1>9, <2>0, <2>1, <3>4, <3>5
             DEF RecordFollowsAt, RecordedAs, Alerted, AlertedNow, client
  <2>2. CASE m = k
    <3>1. Alerted(current[k])'
      BY <1>1, <1>3, <1>4 DEF Alerted
    <3>2. RecordedAs(current[k], Named[sent[current[k]]], decision[k])'
      BY <1>1, <1>5 DEF RecordedAs, client
    <3> QED  BY <1>9, <2>2, <3>1, <3>2 DEF RecordFollowsAt
  <2> QED  BY <2>1, <2>2
<1>12. LogsAgree'
  <2>1. \A i, j \in DOMAIN events' : events'[i].crossing = events'[j].crossing => i = j
    BY <1>3, <1>4, <1>5, <1>6 DEF LogsAgree, Alerted
  <2>2. \A i \in DOMAIN events' : \E j \in DOMAIN requests :
          requests[j] = [crossing |-> events'[i].crossing, host |-> events'[i].host,
                         decision |-> "deny"]
    <3> SUFFICES ASSUME NEW i \in DOMAIN events'
                 PROVE  \E j \in DOMAIN requests :
                          requests[j] = [crossing |-> events'[i].crossing,
                                         host |-> events'[i].host, decision |-> "deny"]
      OBVIOUS
    <3>1. CASE i \in 1..Len(events)
      BY <1>4, <1>6, <3>1 DEF LogsAgree
    <3>2. CASE i = Len(events) + 1
      BY <1>3, <1>4, <1>5, <1>6, <3>2 DEF RecordedAs
    <3> QED  BY <1>4, <1>6, <3>1, <3>2
  <2>3. \A a \in answers : \E j \in DOMAIN requests :
          /\ requests[j].crossing = a.crossing /\ requests[j].decision = a.decision
          /\ a.decision = "deny" => \E i \in DOMAIN events' : events'[i].crossing = a.crossing
    BY <1>4, <1>6 DEF LogsAgree
  <2> QED  BY <1>1, <2>1, <2>2, <2>3 DEF LogsAgree
<1> QED  BY <1>7, <1>8, <1>10, <1>11, <1>12 DEF Kept

(* A body that cannot be drained takes the connection with it.            *)
LEMMA CannotDrainKeeps ==
    ASSUME IInv, NEW k \in Conns, CannotDrain(k)
    PROVE  Shapes' /\ Kept'
<1> USE DEF IInv, CannotDrain, logs, client, world, ghosts
<1>1. Shapes' /\ OnePlace' /\ Framed'
  BY HandlerMoves DEF Shapes
<1>2. pc[k] = "draining" /\ pc'[k] = "answering" /\ \A m \in Conns : m # k => pc'[m] = pc[m]
  BY DEF Shapes
<1>3. RecordedIsRead'
  BY <1>2 DEF Kept, RecordedIsRead, Recorded
<1>4. RecordFollows'
  BY <1>2 DEF Kept, RecordFollows, RecordFollowsAt, RecordedAs, Alerted
<1> QED  BY <1>1, <1>3, <1>4 DEF Kept

(* What is drained is the body, and nothing else.                          *)
LEMMA DrainedKeeps ==
    ASSUME IInv, NEW k \in Conns, Drained(k)
    PROVE  Shapes' /\ Kept'
<1> USE DEF IInv, logs, world, ghosts
<1>1. /\ pc[k] = "draining" /\ pc' = [pc EXCEPT ![k] = "answering"]
      /\ UNCHANGED <<sent, owes, hungUp, current, decision, closing, logs, ghosts, world>>
  BY DEF Drained
<1>2. pc'[k] = "answering" /\ \A m \in Conns : m # k => pc'[m] = pc[m]
  BY <1>1 DEF Shapes
<1>3. RecordFollows'
  BY <1>1, <1>2 DEF Kept, RecordFollows, RecordFollowsAt, RecordedAs, Alerted
<1>4. CASE sent[current[k]].framing.first = "none"
  <2>1. UNCHANGED client
    BY <1>4 DEF Drained, client
  <2>2. Shapes' /\ OnePlace' /\ Framed'
    BY <1>1, <1>4, <2>1, HandlerMoves DEF AnnouncesBody, Shapes
  <2>3. RecordedIsRead'
    BY <1>1, <1>2, <2>1 DEF Kept, RecordedIsRead, Recorded, client
  <2> QED  BY <1>3, <2>2, <2>3 DEF Kept
<1>5. CASE sent[current[k]].framing.first = "sized"
  <2>1. /\ stream[k] # <<>> /\ stream[k] \in Seq(Units) /\ Len(stream[k]) \in Nat
        /\ stream' = [stream EXCEPT ![k] = Tail(stream[k])]
    BY <1>5, ConnShapes DEF Drained, Drainable
  <2>2. /\ stream'[k] = Tail(stream[k])
        /\ \A m \in Conns : m # k => stream'[m] = stream[m]
    BY <2>1 DEF Shapes
  <2>3. /\ 1 \in 1..Len(stream[k])
        /\ stream'[k] \in Seq(Units)
        /\ Len(stream'[k]) = Len(stream[k]) - 1
        /\ \A i \in 1..Len(stream'[k]) :
             i \in Nat \ {0} /\ i + 1 \in 1..Len(stream[k]) /\ stream'[k][i] = stream[k][i + 1]
    <3>1. /\ 1 \in 1..Len(stream[k]) /\ Tail(stream[k]) \in Seq(Units)
          /\ Len(Tail(stream[k])) = Len(stream[k]) - 1
          /\ \A i \in 1..Len(Tail(stream[k])) :
               i + 1 \in 1..Len(stream[k]) /\ Tail(stream[k])[i] = stream[k][i + 1]
      BY <2>1, Popped
    <3>2. \A i \in 1..Len(stream'[k]) :
            i \in Nat \ {0} /\ i + 1 \in 1..Len(stream[k]) /\ stream'[k][i] = stream[k][i + 1]
      <4>1. Len(stream[k]) \in Nat /\ stream'[k] = Tail(stream[k])
        BY <2>1, <2>2
      <4>2. \A i \in 1..Len(stream'[k]) : i \in Nat \ {0}
        BY <3>1, <4>1
      <4> QED  BY <3>1, <4>1, <4>2
    <3> QED  BY <2>2, <3>1, <3>2
  <2> DEFINE Was(m, i) == IF m = k THEN i + 1 ELSE i
  <2>4. \A m \in Conns : \A i \in 1..Len(stream'[m]) :
          /\ Was(m, i) \in 1..Len(stream[m]) /\ stream'[m][i] = stream[m][Was(m, i)]
          /\ i \in Nat
    <3> SUFFICES ASSUME NEW m \in Conns, NEW i \in 1..Len(stream'[m])
                 PROVE  /\ Was(m, i) \in 1..Len(stream[m])
                        /\ stream'[m][i] = stream[m][Was(m, i)] /\ i \in Nat
      OBVIOUS
    <3>1. CASE m = k
      BY <2>3, <3>1
    <3>2. CASE m # k
      BY <2>2, <3>2, ConnShapes
    <3> QED  BY <3>1, <3>2
  <2>5. Shapes'
    <3>1. stream' \in [Conns -> Seq(Units)]
      BY <2>1, <2>3, <2>2 DEF Shapes
    <3>2. /\ pc' \in [Conns -> {"none", "idle", "parsed", "decided", "alerting", "draining",
                                "answering"}]
          /\ \A m \in Conns : IF pc'[m] \in {"none", "idle"} THEN current[m] = Nobody
                              ELSE current[m] \in 1..Len(sent)
      BY <1>1, <1>2 DEF Shapes
    <3>3. \A m \in Conns : \A i \in 1..Len(stream'[m]) :
            \/ stream'[m][i].kind = "head" /\ stream'[m][i].crossing \in 1..Len(sent)
            \/ stream'[m][i].kind # "head" /\ stream'[m][i].crossing = Nobody
      <4> SUFFICES ASSUME NEW m \in Conns, NEW i \in 1..Len(stream'[m])
                   PROVE  \/ /\ stream'[m][i].kind = "head"
                             /\ stream'[m][i].crossing \in 1..Len(sent)
                          \/ stream'[m][i].kind # "head" /\ stream'[m][i].crossing = Nobody
        OBVIOUS
      <4>1. Was(m, i) \in 1..Len(stream[m]) /\ stream'[m][i] = stream[m][Was(m, i)]
        BY <2>4
      <4> HIDE DEF Was
      <4> QED  BY <4>1 DEF Shapes
    <3> QED  BY <1>1, <3>1, <3>2, <3>3, WorldStays DEF Shapes
  <2>6. OnePlace'
    <3>1. ASSUME NEW a \in Conns, NEW b \in Conns,
                 NEW i \in 1..Len(stream'[a]), NEW j \in 1..Len(stream'[b]),
                 stream'[a][i].kind = "head", stream'[a][i] = stream'[b][j]
          PROVE  a = b /\ i = j
      <4>1. /\ Was(a, i) \in 1..Len(stream[a]) /\ Was(b, j) \in 1..Len(stream[b])
            /\ stream[a][Was(a, i)].kind = "head"
            /\ stream[a][Was(a, i)] = stream[b][Was(b, j)]
        BY <2>4, <3>1
      <4>2. a = b /\ Was(a, i) = Was(b, j)
        BY <4>1 DEF Kept, OnePlace
      <4> QED  BY <2>4, <4>2
    <3>2. ASSUME NEW a \in Conns, NEW b \in Conns, NEW i \in 1..Len(stream'[b]),
                 stream'[b][i].kind = "head"
          PROVE  stream'[b][i].crossing # current[a] /\ ~Recorded(stream'[b][i].crossing)
      <4>1. /\ Was(b, i) \in 1..Len(stream[b]) /\ stream[b][Was(b, i)].kind = "head"
            /\ stream[b][Was(b, i)].crossing = stream'[b][i].crossing
        BY <2>4, <3>2
      <4> QED  BY <4>1 DEF Kept, OnePlace, RecordedIsRead
    <3> QED  BY <1>1, <3>1, <3>2 DEF Kept, OnePlace
  <2>7. RecordedIsRead'
    <3>1. \A b \in Conns : \A i \in 1..Len(stream'[b]) :
            stream'[b][i].kind = "head" => ~Recorded(stream'[b][i].crossing)
      <4> SUFFICES ASSUME NEW b \in Conns, NEW i \in 1..Len(stream'[b]),
                          stream'[b][i].kind = "head"
                   PROVE  ~Recorded(stream'[b][i].crossing)
        OBVIOUS
      <4>1. /\ Was(b, i) \in 1..Len(stream[b]) /\ stream[b][Was(b, i)].kind = "head"
            /\ stream[b][Was(b, i)].crossing = stream'[b][i].crossing
        BY <2>4
      <4> QED  BY <4>1 DEF Kept, RecordedIsRead
    <3> QED  BY <1>1, <1>2, <3>1 DEF Kept, RecordedIsRead, Recorded
  <2>8. Framed'
    <3> SUFFICES ASSUME NEW m \in Conns
                 PROVE  FramedAt(m)'
      BY DEF Framed
    <3>0. FramedAt(m)
      BY DEF Kept, Framed
    <3>1. CASE m # k
      BY <1>1, <1>2, <2>2, <3>0, <3>1 DEF FramedAt, Owing, AnnouncesBody
    <3>2. CASE m = k
      <4>0. AnnouncesBody(current[k]) /\ stream[k][1].kind = "body" /\ ~Owing(stream[k][1])
        BY <1>1, <1>5, <2>3, <3>0, <3>2, ConnShapes DEF FramedAt, AnnouncesBody, Owing
      <4>1. \A i \in 2..Len(stream'[k]) : stream'[k][i].kind = "body" <=> Owing(stream'[k][i - 1])
        BY <2>1, <2>3, <3>0, <3>2 DEF FramedAt
      <4>2. Len(stream'[k]) > 0 => ("body" \in owes[k] <=> Owing(stream'[k][Len(stream'[k])]))
        BY <2>1, <2>3, <3>0, <3>2 DEF FramedAt
      <4>3. Len(stream'[k]) > 0 => stream'[k][1].kind # "body"
        BY <2>1, <2>3, <3>0, <3>2, <4>0 DEF FramedAt
      <4>5. Len(stream'[k]) = 0 => "body" \notin owes[k]
        BY <2>1, <2>3, <3>0, <3>2, <4>0 DEF FramedAt
      <4>6. ~closing[k]
        BY <1>1, <3>0, <3>2 DEF FramedAt
      <4> QED  BY <1>1, <1>2, <3>2, <4>1, <4>2, <4>3, <4>5, <4>6
               DEF FramedAt, Owing, AnnouncesBody
    <3> QED  BY <3>1, <3>2
  <2> QED  BY <1>3, <2>5, <2>6, <2>7, <2>8 DEF Kept
<1> QED  BY <1>4, <1>5 DEF Drained, Drainable

(* Whatever comes after the answer: the record was complete before.        *)
LEMMA RespondKeeps ==
    ASSUME IInv, NEW k \in Conns, Respond(k)
    PROVE  Shapes' /\ Kept' /\ LogShapes' /\ LogsAgree'
<1> USE DEF IInv, world, ghosts
<1> DEFINE a == [crossing |-> current[k], decision |-> decision[k]]
<1>1. /\ pc[k] = "answering" /\ answers' = answers \cup {a}
      /\ UNCHANGED <<sent, requests, events, ghosts, world>>
  BY DEF Respond
<1>2. /\ RecordedAs(current[k], Named[sent[current[k]]], decision[k])
      /\ decision[k] = "deny" => Alerted(current[k])
  BY <1>1 DEF Kept, RecordFollows, RecordFollowsAt
<1>3. DOMAIN requests = 1..Len(requests) /\ DOMAIN events = 1..Len(events)
  BY LenProperties DEF LogShapes
<1>4. a \in [crossing : Nat, decision : Decisions]
  BY ConnShapes
<1>5. LogShapes'
  BY <1>1, <1>4 DEF LogShapes
<1>6. LogsAgree'
  <2>1. \E j \in DOMAIN requests :
          /\ requests[j].crossing = a.crossing /\ requests[j].decision = a.decision
          /\ a.decision = "deny" => \E i \in DOMAIN events : events[i].crossing = a.crossing
    BY <1>2, <1>3 DEF RecordedAs, Alerted
  <2> HIDE DEF a
  <2>2. \A x \in answers' : x \in answers \/ x = a
    BY <1>1
  <2> QED  BY <1>1, <2>1, <2>2 DEF LogsAgree
<1>7. CASE EndThreads({k})
  <2>1. /\ {k} \in SUBSET Conns
        /\ WorldShapes' /\ lost' \subseteq 1..Len(sent)
    BY <1>1, WorldStays DEF Shapes
  <2>2. Shapes' /\ Kept'
    BY <1>1, <1>7, <2>1, EndThreadsKeeps
  <2> QED  BY <1>5, <1>6, <2>2
<1>8. CASE /\ ~closing[k]
           /\ pc' = [pc EXCEPT ![k] = "idle"]
           /\ current' = [current EXCEPT ![k] = Nobody]
           /\ UNCHANGED <<stream, owes, hungUp, decision, closing>>
  <2>1. /\ pc'[k] = "idle" /\ current'[k] = Nobody
        /\ \A m \in Conns : m # k => pc'[m] = pc[m] /\ current'[m] = current[m]
    BY <1>8 DEF Shapes
  <2>2. Shapes'
    <3>1. /\ pc' \in [Conns -> {"none", "idle", "parsed", "decided", "alerting", "draining",
                                "answering"}]
          /\ current' \in [Conns -> Nat]
      BY <1>8 DEF Shapes, Nobody
    <3>2. \A m \in Conns : IF pc'[m] \in {"none", "idle"} THEN current'[m] = Nobody
                           ELSE current'[m] \in 1..Len(sent)
      BY <2>1 DEF Shapes
    <3> QED  BY <1>1, <1>8, <3>1, <3>2, WorldStays DEF Shapes
  <2>3. OnePlace'
    <3>1. ASSUME NEW b \in Conns, NEW m \in Conns, NEW i \in 1..Len(stream[m]),
                 stream[m][i].kind = "head"
          PROVE  stream[m][i].crossing # current'[b]
      <4>1. stream[m][i].crossing \in 1..Len(sent)
        BY <3>1 DEF Shapes
      <4>2. stream[m][i].crossing # Nobody
        BY <4>1 DEF Nobody
      <4>3. stream[m][i].crossing # current[b]
        BY <3>1 DEF Kept, OnePlace
      <4> QED  BY <2>1, <4>2, <4>3
    <3>2. \A b, m \in Conns : current'[b] # Nobody /\ current'[b] = current'[m] => b = m
      BY <2>1 DEF Kept, OnePlace
    <3> QED  BY <1>8, <3>1, <3>2 DEF Kept, OnePlace
  <2>4. RecordedIsRead'
    BY <1>1, <1>8, <2>1 DEF Kept, RecordedIsRead, Recorded
  <2>5. RecordFollows'
    BY <1>1, <1>8, <2>1 DEF Kept, RecordFollows, RecordFollowsAt, RecordedAs, Alerted
  <2>6. Framed'
    BY <1>1, <1>8, <2>1 DEF Kept, Framed, FramedAt, Owing, AnnouncesBody
  <2> QED  BY <1>5, <1>6, <2>2, <2>3, <2>4, <2>5, <2>6 DEF Kept
<1> QED  BY <1>7, <1>8 DEF Respond

-----------------------------------------------------------------------------
(* A fault is one more mishap; what handlers saw of the allowlist stays.   *)
LEMMA FaultKeepsWorld ==
    ASSUME Shapes, Mishaps < MaxMishaps, faults' = faults + 1,
           UNCHANGED <<versions, inForce>>
    PROVE  WorldShapes'
<1>1. Len(versions) \in Nat /\ faults \in Nat /\ MaxMishaps \in Nat
  BY LenProperties, BrokerAssumption DEF Shapes, WorldShapes
<1>2. Mishaps' = Mishaps + 1 /\ Mishaps' <= MaxMishaps
  BY <1>1 DEF Mishaps
<1> QED  BY <1>1, <1>2 DEF Shapes, WorldShapes

(* An edit adds a version, which handlers at work may yet see.             *)
LEMMA EditKeepsWorld ==
    ASSUME Shapes, EditAllowlist
    PROVE  /\ WorldShapes' /\ Len(versions') = Len(versions) + 1
           /\ Len(versions) \in Nat
           /\ \A v \in 1..Len(versions) : versions'[v] = versions[v]
           /\ \A n \in Crossings : inForce[n] \subseteq inForce'[n]
<1>1. PICK entries \in Allowlists : versions' = Append(versions, entries)
  BY DEF EditAllowlist
<1>2. /\ versions \in Seq(Allowlists) /\ inForce \in [Crossings -> SUBSET (1..Len(versions))]
      /\ Len(versions) \in Nat /\ faults \in Nat /\ MaxMishaps \in Nat
      /\ Mishaps < MaxMishaps
  BY LenProperties, BrokerAssumption DEF Shapes, WorldShapes, EditAllowlist
<1>3. /\ versions' \in Seq(Allowlists) /\ Len(versions') = Len(versions) + 1
      /\ \A v \in 1..Len(versions) : versions'[v] = versions[v]
  BY <1>1, <1>2, Grown
<1>4. /\ faults' = faults
      /\ inForce' = [n \in Crossings |->
                        inForce[n] \cup {v \in {Len(versions) + 1} : BeingDecided(n)}]
  BY DEF EditAllowlist
<1>5. 1..Len(versions) \subseteq 1..Len(versions') /\ Len(versions) + 1 \in 1..Len(versions')
  BY <1>2, <1>3
<1>6. inForce' \in [Crossings -> SUBSET (1..Len(versions'))]
  <2>1. ASSUME NEW n \in Crossings
        PROVE  inForce[n] \cup {v \in {Len(versions) + 1} : BeingDecided(n)}
                 \subseteq 1..Len(versions')
    BY <1>2, <1>5
  <2> QED  BY <1>4, <2>1
<1>7. Mishaps' <= MaxMishaps
  BY <1>2, <1>3, <1>4 DEF Mishaps
<1>8. \A n \in Crossings : inForce[n] \subseteq inForce'[n]
  BY <1>4
<1> QED  BY <1>2, <1>3, <1>4, <1>6, <1>7, <1>8 DEF WorldShapes

(* Every step keeps the inductive invariant.                              *)
LEMMA NextIInv == IInv /\ [Next]_vars => IInv'
<1> SUFFICES ASSUME IInv, [Next]_vars
             PROVE  IInv'
  OBVIOUS
<1>0. /\ Shapes /\ lost \subseteq 1..Len(sent)
      /\ misread \subseteq {"rest"}
      /\ \A k \in Conns : {k} \in SUBSET Conns
      /\ \A k \in Conns : pc[k] \notin {"none", "idle"} => current[k] \in 1..Len(sent)
  BY DEF IInv, Shapes
<1>7. ASSUME NEW k \in Conns, EndThreads({k}), UNCHANGED <<sent, logs, ghosts, world>>
      PROVE  IInv'
  <2>1. WorldShapes' /\ lost' \subseteq 1..Len(sent)
    BY <1>0, <1>7, WorldStays DEF ghosts
  <2>2. Shapes' /\ Kept'
    BY <1>0, <1>7, <2>1, EndThreadsKeeps DEF logs
  <2> QED  BY <1>0, <1>7, <2>2, LogsStay DEF IInv, ghosts
<1>1. ASSUME NEW k \in Conns, HandlerStep(k)
      PROVE  IInv'
  <2>1. CASE ReadRequestLine(k)
    <3>1. Shapes' /\ Kept' /\ misread' \subseteq {"rest"}
      BY <1>0, <2>1, ReadHeadKeeps, ReadRestKeeps
    <3>2. LogShapes' /\ LogsAgree'
      BY <2>1, LogsStay DEF ReadRequestLine
    <3> QED  BY <1>0, <3>1, <3>2 DEF IInv
  <2>2. CASE EndOfStream(k)
    <3>1. /\ EndThreads({k}) /\ UNCHANGED <<sent, logs, ghosts, world>>
      BY <2>2 DEF EndOfStream
    <3> QED  BY <1>7, <3>1
  <2>3. CASE TakeDecision(k)
    <3>1. pc[k] = "parsed" /\ UNCHANGED <<sent, logs, ghosts, world>>
      BY <2>3 DEF TakeDecision, Received
    <3>2. CASE EndThreads({k})
      BY <1>7, <3>1, <3>2
    <3>3. CASE ~EndThreads({k})
      <4> DEFINE d == Decide(sent[current[k]], allowlist)
      <4>1. /\ decision' = [decision EXCEPT ![k] = d]
            /\ pc' = [pc EXCEPT ![k] = "decided"]
            /\ UNCHANGED <<stream, owes, hungUp, current, closing>>
        BY <2>3, <3>3 DEF TakeDecision
      <4>2. d \in Decisions
        BY DEF Decide, Decisions
      <4> HIDE DEF d
      <4>3. Shapes' /\ Kept'
        BY <3>1, <4>1, <4>2, TakeDecisionKeeps DEF client
      <4> QED  BY <1>0, <3>1, <4>3, LogsStay DEF IInv, ghosts
    <3> QED  BY <3>2, <3>3
  <2>4. CASE ConnectionReset(k)
    BY <1>7, <2>4 DEF ConnectionReset
  <2>5. CASE LogRequest(k)
    BY <1>0, <2>5, LogRequestKeeps DEF IInv, LogRequest, ghosts
  <2>6. CASE LogEvent(k)
    BY <1>0, <2>6, LogEventKeeps DEF IInv, LogEvent, ghosts
  <2>7. CASE Drained(k)
    <3>1. Shapes' /\ Kept'
      BY <2>7, DrainedKeeps
    <3>2. LogShapes' /\ LogsAgree' /\ misread' = misread
      BY <2>7, LogsStay DEF Drained, ghosts
    <3> QED  BY <1>0, <3>1, <3>2 DEF IInv
  <2>8. CASE CannotDrain(k)
    <3>1. Shapes' /\ Kept'
      BY <2>8, CannotDrainKeeps
    <3>2. LogShapes' /\ LogsAgree' /\ misread' = misread
      BY <2>8, LogsStay DEF CannotDrain, ghosts, client
    <3> QED  BY <1>0, <3>1, <3>2 DEF IInv
  <2>9. CASE Respond(k)
    BY <1>0, <2>9, RespondKeeps DEF IInv, Respond, ghosts
  <2> QED  BY <1>1, <2>1, <2>2, <2>3, <2>4, <2>5, <2>6, <2>7, <2>8, <2>9 DEF HandlerStep
<1>2. ASSUME NEW k \in Conns, ClientStep(k)
      PROVE  IInv'
  <2>1. CASE Connect(k)
    <3>1. LogShapes' /\ LogsAgree' /\ misread' = misread
      BY <2>1, LogsStay DEF Connect, ghosts
    <3> QED  BY <1>0, <2>1, <3>1, ConnectKeeps DEF IInv
  <2>2. CASE SendHead(k)
    BY <1>0, <2>2, SendHeadKeeps DEF IInv, SendHead, ghosts
  <2>3. CASE SendBody(k)
    <3>1. LogShapes' /\ LogsAgree' /\ misread' = misread
      BY <2>3, LogsStay DEF SendBody, ghosts
    <3> QED  BY <1>0, <2>3, <3>1, SendBodyKeeps DEF IInv
  <2>4. CASE HangUp(k)
    <3>1. LogShapes' /\ LogsAgree' /\ misread' = misread
      BY <2>4, LogsStay DEF HangUp, ghosts
    <3> QED  BY <1>0, <2>4, <3>1, HangUpKeeps DEF IInv
  <2> QED  BY <1>2, <2>1, <2>2, <2>3, <2>4 DEF ClientStep
<1>3. ASSUME NEW k \in Conns, FileFails(k)
      PROVE  IInv'
  <2>1. /\ EndThreads({k}) /\ UNCHANGED <<sent, logs, misread, inForce, versions>>
        /\ lost' = lost \cup {current[k]} /\ pc[k] \in {"parsed", "decided", "alerting"}
        /\ Mishaps < MaxMishaps /\ faults' = faults + 1
    BY <1>3 DEF FileFails
  <2>2. lost' \subseteq 1..Len(sent) /\ WorldShapes'
    <3>1. pc[k] \notin {"none", "idle"}
      BY <2>1
    <3>2. current[k] \in 1..Len(sent) /\ lost \subseteq 1..Len(sent)
      BY <1>0, <3>1
    <3> QED  BY <1>0, <2>1, <3>2, FaultKeepsWorld
  <2>3. Shapes' /\ Kept'
    BY <1>0, <2>1, <2>2, EndThreadsKeeps DEF logs
  <2> QED  BY <1>0, <2>1, <2>3, LogsStay DEF IInv
<1>4. CASE EditAllowlist
  <2> USE <1>4 DEF EditAllowlist, client, handler, ghosts
  <2>1. WorldShapes'
    BY <1>0, <1>4, EditKeepsWorld
  <2>2. Shapes'
    BY <2>1 DEF IInv, Shapes
  <2>3. OnePlace' /\ RecordedIsRead' /\ RecordFollows'
    BY DEF IInv, Kept, logs, OnePlace, RecordedIsRead, Recorded, RecordFollows, RecordFollowsAt,
           RecordedAs, Alerted
  <2>4. Framed'
    BY DEF IInv, Kept, Framed, FramedAt, Owing, AnnouncesBody
  <2>5. LogShapes' /\ LogsAgree'
    BY LogsStay
  <2> QED  BY <1>0, <2>2, <2>3, <2>4, <2>5 DEF IInv, Kept
<1>5. CASE Crash
  <2>1. /\ EndThreads(Conns) /\ UNCHANGED <<sent, logs, misread, inForce, versions>>
        /\ lost' = lost \cup ({current[k] : k \in Conns} \ {Nobody})
        /\ Mishaps < MaxMishaps /\ faults' = faults + 1
    BY <1>5 DEF Crash
  <2>2. lost' \subseteq 1..Len(sent) /\ WorldShapes'
    <3>1. ASSUME NEW k \in Conns
          PROVE  current[k] = Nobody \/ current[k] \in 1..Len(sent)
      BY <3>1 DEF IInv, Shapes
    <3>2. lost' \subseteq 1..Len(sent)
      BY <2>1, <3>1 DEF IInv, Shapes
    <3>3. WorldShapes'
      BY <1>0, <2>1, FaultKeepsWorld
    <3> QED  BY <3>2, <3>3
  <2>3. Shapes' /\ Kept'
    BY <1>0, <2>1, <2>2, EndThreadsKeeps DEF logs
  <2> QED  BY <1>0, <2>1, <2>3, LogsStay DEF IInv
<1>6. CASE UNCHANGED vars
  <2> USE <1>6 DEF vars, client, handler, ghosts, world
  <2>1. Shapes'
    BY WorldStays DEF IInv, Shapes
  <2>2. OnePlace' /\ RecordedIsRead' /\ RecordFollows'
    BY DEF IInv, Kept, logs, OnePlace, RecordedIsRead, Recorded, RecordFollows, RecordFollowsAt,
           RecordedAs, Alerted
  <2>3. Framed'
    BY DEF IInv, Kept, Framed, FramedAt, Owing, AnnouncesBody
  <2>4. LogShapes' /\ LogsAgree'
    BY LogsStay
  <2> QED  BY <1>0, <2>1, <2>2, <2>3, <2>4 DEF IInv, Kept
<1> QED  BY <1>1, <1>2, <1>3, <1>4, <1>5, <1>6 DEF Next

(* The inductive invariant holds in every reachable state.                *)
THEOREM IInvHolds == Spec => []IInv
  BY InitIInv, NextIInv, PTL DEF Spec

(* The broker's variables hold what they should.                           *)
THEOREM BrokerTypeCorrect == Spec => []TypeOK
<1>1. IInv => TypeOK
  BY ShapesGiveTypes DEF IInv
<1> QED  BY <1>1, IInvHolds, PTL

(* _drain_body, close_connection: the body that the first framing headers  *)
(* of a request announce is never parsed as the request line of the next,  *)
(* though clients pipeline, stall, hang up and send what repeated headers  *)
(* announce, which the broker does not drain.                              *)
THEOREM FramingTheorem == Spec => []NoBodyReadAsRequest
<1>1. IInv => NoBodyReadAsRequest
  BY DEF IInv, NoBodyReadAsRequest
<1> QED  BY <1>1, IInvHolds, PTL

(* The two log files, which concurrent handlers fill by separate writes    *)
(* (log_decision), agree with each other and with every answer.            *)
THEOREM LogsTheorem == Spec => []LogsAgree
<1>1. IInv => LogsAgree
  BY DEF IInv
<1> QED  BY <1>1, IInvHolds, PTL

-----------------------------------------------------------------------------
(* The broker implements the ledger.                                       *)

RequestLines == [crossing : Nat, host : Texts, decision : Decisions]
EventLines == [crossing : Nat, host : Texts]
RequestSeen(x) == [crossing |-> x.crossing, decision |-> x.decision]
RequestsSeen(s) ==
    [i \in DOMAIN s |-> [crossing |-> s[i].crossing, decision |-> s[i].decision]]
EventsSeen(s) == [i \in DOMAIN s |-> s[i].crossing]

(* Seen through the mapping, a line added is a line added.                 *)
LEMMA RequestsSeenGrow ==
    \A s \in Seq(RequestLines) : \A x \in RequestLines :
        RequestsSeen(Append(s, x)) = Append(RequestsSeen(s), RequestSeen(x))
<1> SUFFICES ASSUME NEW s \in Seq(RequestLines), NEW x \in RequestLines
             PROVE  RequestsSeen(Append(s, x)) = Append(RequestsSeen(s), RequestSeen(x))
  OBVIOUS
<1> DEFINE Pairs == [crossing : Nat, decision : Decisions]
           t == Append(s, x)
<1>1. /\ Len(s) \in Nat /\ DOMAIN s = 1..Len(s)
      /\ t \in Seq(RequestLines) /\ Len(t) = Len(s) + 1 /\ DOMAIN t = 1..Len(t)
      /\ \A i \in 1..Len(s) : t[i] = s[i] /\ s[i] \in RequestLines
      /\ t[Len(s) + 1] = x
      /\ \A i \in 1..Len(t) : t[i] \in RequestLines
  BY Grown, LenProperties, ElementOfSeq
<1> HIDE DEF t
<1>2. RequestSeen(x) \in Pairs /\ \A y \in RequestLines : RequestSeen(y) \in Pairs
  BY DEF RequestSeen, RequestLines
<1>3. ASSUME NEW u \in Seq(RequestLines)
      PROVE  /\ RequestsSeen(u) \in Seq(Pairs) /\ Len(RequestsSeen(u)) = Len(u)
             /\ \A i \in 1..Len(u) : RequestsSeen(u)[i] = RequestSeen(u[i])
  <2>1. Len(u) \in Nat /\ DOMAIN u = 1..Len(u) /\ \A i \in 1..Len(u) : u[i] \in RequestLines
    BY LenProperties, ElementOfSeq
  <2>2. RequestsSeen(u) = [i \in 1..Len(u) |-> RequestSeen(u[i])]
    BY <2>1 DEF RequestsSeen, RequestSeen
  <2> HIDE DEF Pairs
  <2>3. RequestsSeen(u) \in [1..Len(u) -> Pairs]
    BY <1>2, <2>1, <2>2
  <2>4. RequestsSeen(u) \in Seq(Pairs)
    BY <2>1, <2>3, SeqDef
  <2>5. Len(RequestsSeen(u)) \in Nat /\ DOMAIN RequestsSeen(u) = 1..Len(RequestsSeen(u))
    BY <2>4, LenProperties
  <2>6. Len(RequestsSeen(u)) = Len(u)
    BY <2>1, <2>3, <2>5
  <2> QED  BY <2>2, <2>4, <2>6
<1> HIDE DEF Pairs
<1>4. /\ RequestsSeen(s) \in Seq(Pairs) /\ Len(RequestsSeen(s)) = Len(s)
      /\ \A i \in 1..Len(s) : RequestsSeen(s)[i] = RequestSeen(s[i])
  BY <1>3
<1>5. /\ RequestsSeen(t) \in Seq(Pairs) /\ Len(RequestsSeen(t)) = Len(t)
      /\ \A i \in 1..Len(t) : RequestsSeen(t)[i] = RequestSeen(t[i])
  BY <1>1, <1>3
<1> DEFINE a == Append(RequestsSeen(s), RequestSeen(x))
<1>6. /\ a \in Seq(Pairs) /\ Len(a) = Len(s) + 1
      /\ \A i \in 1..Len(s) : a[i] = RequestSeen(s[i])
      /\ a[Len(s) + 1] = RequestSeen(x)
  BY <1>2, <1>4, Grown
<1> HIDE DEF a
<1>7. \A i \in 1..Len(RequestsSeen(t)) : RequestsSeen(t)[i] = a[i]
  <2> SUFFICES ASSUME NEW i \in 1..Len(t)
               PROVE  RequestsSeen(t)[i] = a[i]
    BY <1>5
  <2>1. i \in 1..Len(s) \/ i = Len(s) + 1
    BY <1>1
  <2> QED  BY <1>1, <1>5, <1>6, <2>1
<1>8. RequestsSeen(t) = a
  BY <1>1, <1>5, <1>6, <1>7, SeqEqual
<1> QED  BY <1>8 DEF a, t

(* The same of the event log.                                             *)
LEMMA EventsSeenGrow ==
    \A s \in Seq(EventLines) : \A x \in EventLines :
        EventsSeen(Append(s, x)) = Append(EventsSeen(s), x.crossing)
<1> SUFFICES ASSUME NEW s \in Seq(EventLines), NEW x \in EventLines
             PROVE  EventsSeen(Append(s, x)) = Append(EventsSeen(s), x.crossing)
  OBVIOUS
<1> DEFINE t == Append(s, x)
<1>1. /\ Len(s) \in Nat /\ t \in Seq(EventLines) /\ Len(t) = Len(s) + 1
      /\ \A i \in 1..Len(s) : t[i] = s[i]
      /\ t[Len(s) + 1] = x
      /\ \A i \in 1..Len(t) : t[i] \in EventLines
  BY Grown, LenProperties, ElementOfSeq
<1> HIDE DEF t
<1>2. ASSUME NEW u \in Seq(EventLines)
      PROVE  /\ EventsSeen(u) \in Seq(Nat) /\ Len(EventsSeen(u)) = Len(u)
             /\ \A i \in 1..Len(u) : EventsSeen(u)[i] = u[i].crossing
  <2>1. Len(u) \in Nat /\ DOMAIN u = 1..Len(u) /\ \A i \in 1..Len(u) : u[i] \in EventLines
    BY LenProperties, ElementOfSeq
  <2>2. EventsSeen(u) = [i \in 1..Len(u) |-> u[i].crossing]
    BY <2>1 DEF EventsSeen
  <2>3. EventsSeen(u) \in [1..Len(u) -> Nat]
    BY <2>1, <2>2 DEF EventLines
  <2>4. EventsSeen(u) \in Seq(Nat)
    BY <2>1, <2>3, SeqDef
  <2>5. Len(EventsSeen(u)) \in Nat /\ DOMAIN EventsSeen(u) = 1..Len(EventsSeen(u))
    BY <2>4, LenProperties
  <2>6. Len(EventsSeen(u)) = Len(u)
    BY <2>1, <2>3, <2>5
  <2> QED  BY <2>2, <2>4, <2>6
<1>3. /\ EventsSeen(s) \in Seq(Nat) /\ Len(EventsSeen(s)) = Len(s)
      /\ \A i \in 1..Len(s) : EventsSeen(s)[i] = s[i].crossing
  BY <1>2
<1>4. /\ EventsSeen(t) \in Seq(Nat) /\ Len(EventsSeen(t)) = Len(t)
      /\ \A i \in 1..Len(t) : EventsSeen(t)[i] = t[i].crossing
  BY <1>1, <1>2
<1> DEFINE a == Append(EventsSeen(s), x.crossing)
<1>5. x.crossing \in Nat
  BY DEF EventLines
<1>6. /\ a \in Seq(Nat) /\ Len(a) = Len(s) + 1
      /\ \A i \in 1..Len(s) : a[i] = s[i].crossing
      /\ a[Len(s) + 1] = x.crossing
  BY <1>3, <1>5, Grown
<1> HIDE DEF a
<1>7. \A i \in 1..Len(EventsSeen(t)) : EventsSeen(t)[i] = a[i]
  <2> SUFFICES ASSUME NEW i \in 1..Len(t)
               PROVE  EventsSeen(t)[i] = a[i]
    BY <1>4
  <2>1. i \in 1..Len(s) \/ i = Len(s) + 1
    BY <1>1
  <2> QED  BY <1>1, <1>4, <1>6, <2>1
<1>8. EventsSeen(t) = a
  BY <1>1, <1>4, <1>6, <1>7, SeqEqual
<1> QED  BY <1>8 DEF a, t

(* The initial states of the broker are those of the ledger.              *)
LEMMA InitLedger == Init => L!Init
<1> SUFFICES ASSUME Init
             PROVE  L!Init
  OBVIOUS
<1>1. requests = <<>> /\ events = <<>> /\ answers = {}
  BY DEF Init
<1>2. DOMAIN requests = 1..0 /\ DOMAIN events = 1..0
  BY <1>1, EmptySeq, LenProperties
<1>3. /\ [i \in DOMAIN requests |-> [crossing |-> requests[i].crossing,
                                     decision |-> requests[i].decision]] = <<>>
      /\ [i \in DOMAIN events |-> events[i].crossing] = <<>>
  BY <1>1, <1>2
<1> QED  BY <1>1, <1>3 DEF L!Init

(* Recorded and alerted, in the words of the ledger.                       *)
LEMMA LedgerWords ==
    LogShapes =>
        /\ \A c, d : L!Recorded(c, d) <=>
             \E i \in 1..Len(requests) : requests[i].crossing = c /\ requests[i].decision = d
        /\ \A c : L!Alerted(c) <=> Alerted(c)
<1> SUFFICES ASSUME LogShapes
             PROVE  /\ \A c, d : L!Recorded(c, d) <=>
                         \E i \in 1..Len(requests) :
                            requests[i].crossing = c /\ requests[i].decision = d
                    /\ \A c : L!Alerted(c) <=> Alerted(c)
  OBVIOUS
<1>1. DOMAIN requests = 1..Len(requests) /\ DOMAIN events = 1..Len(events)
  BY LenProperties DEF LogShapes
<1>2. ASSUME NEW c, NEW d
      PROVE  L!Recorded(c, d) <=>
               \E i \in 1..Len(requests) : requests[i].crossing = c /\ requests[i].decision = d
  BY <1>1 DEF L!Recorded
<1>3. ASSUME NEW c
      PROVE  L!Alerted(c) <=> Alerted(c)
  BY <1>1 DEF L!Alerted, Alerted
<1> QED  BY <1>2, <1>3

(* Every step of the broker is a step of the ledger or leaves it alone.   *)
LEMMA NextLedger == IInv /\ IInv' /\ [Next]_vars => [L!Next]_(L!vars)
<1> SUFFICES ASSUME IInv, IInv', [Next]_vars
             PROVE  [L!Next]_(L!vars)
  OBVIOUS
<1> USE DEF Nobody
<1>1. ASSUME UNCHANGED logs
      PROVE  UNCHANGED L!vars
  BY <1>1 DEF logs, L!vars
<1>2. ASSUME NEW k \in Conns, pc[k] \notin {"none", "idle"}
      PROVE  current[k] \in Crossings /\ decision[k] \in Decisions
  <2>1. current[k] \in 1..Len(sent) /\ decision[k] \in Decisions
    BY <1>2 DEF IInv, Shapes
  <2>2. Len(sent) \in Nat /\ Len(sent) <= MaxRequests
    BY LenProperties DEF IInv, Shapes
  <2> QED  BY <2>1, <2>2, BrokerAssumption DEF Crossings
<1>3. ASSUME NEW k \in Conns, LogRequest(k)
      PROVE  L!Next
  <2> DEFINE line == [crossing |-> current[k], host |-> Named[sent[current[k]]],
                      decision |-> decision[k]]
  <2>1. /\ pc[k] = "decided" /\ requests' = Append(requests, line)
        /\ UNCHANGED <<events, answers>>
    BY <1>3 DEF LogRequest
  <2>2. current[k] \in Crossings /\ decision[k] \in Decisions
    BY <1>2, <2>1
  <2>3. line \in RequestLines
    <3>1. current[k] \in 1..Len(sent)
      BY <2>1 DEF IInv, Shapes
    <3>2. sent[current[k]] \in Requests
      BY <3>1, ElementOfSeq DEF IInv, Shapes
    <3>3. Named[sent[current[k]]] \in Texts
      BY <3>2, NamesAreTexts
    <3>4. current[k] \in Nat
      BY DEF IInv, Shapes
    <3> QED  BY <2>2, <3>3, <3>4 DEF RequestLines
  <2> HIDE DEF line
  <2>4. RequestsSeen(requests') = Append(RequestsSeen(requests), RequestSeen(line))
    BY <2>1, <2>3, RequestsSeenGrow DEF IInv, LogShapes, RequestLines
  <2>5. RequestSeen(line) = [crossing |-> current[k], decision |-> decision[k]]
    BY DEF line, RequestSeen
  <2>6. \A e \in L!Decisions : ~L!Recorded(current[k], e)
    BY <2>1, LedgerWords DEF IInv, Kept, RecordedIsRead, Recorded
  <2>7. PICK c \in Crossings, d \in L!Decisions : c = current[k] /\ d = decision[k]
    BY <2>2 DEF L!Decisions, Decisions
  <2>8. L!Record(c, d)
    BY <2>1, <2>4, <2>5, <2>6, <2>7 DEF L!Record, RequestsSeen
  <2> QED  BY <2>8 DEF L!Next
<1>4. ASSUME NEW k \in Conns, LogEvent(k)
      PROVE  L!Next
  <2> DEFINE line == [crossing |-> current[k], host |-> Named[sent[current[k]]]]
  <2>1. /\ pc[k] = "alerting" /\ events' = Append(events, line)
        /\ UNCHANGED <<requests, answers>>
    BY <1>4 DEF LogEvent
  <2>2. current[k] \in Crossings
    BY <1>2, <2>1
  <2>3. line \in EventLines
    <3>1. current[k] \in 1..Len(sent)
      BY <2>1 DEF IInv, Shapes
    <3>2. sent[current[k]] \in Requests
      BY <3>1, ElementOfSeq DEF IInv, Shapes
    <3>3. Named[sent[current[k]]] \in Texts
      BY <3>2, NamesAreTexts
    <3>4. current[k] \in Nat
      BY DEF IInv, Shapes
    <3> QED  BY <3>3, <3>4 DEF EventLines
  <2>4. line.crossing = current[k]
    OBVIOUS
  <2> HIDE DEF line
  <2>5. EventsSeen(events') = Append(EventsSeen(events), current[k])
    BY <2>1, <2>3, <2>4, EventsSeenGrow DEF IInv, LogShapes, EventLines
  <2>6. RecordFollowsAt(k)
    BY DEF IInv, Kept, RecordFollows
  <2>7. L!Recorded(current[k], "deny") /\ ~L!Alerted(current[k])
    BY <2>1, <2>6, LedgerWords DEF IInv, RecordFollowsAt, RecordedAs
  <2>8. PICK c \in Crossings : c = current[k]
    BY <2>2
  <2>9. L!Alert(c)
    BY <2>1, <2>5, <2>7, <2>8 DEF L!Alert, EventsSeen
  <2> QED  BY <2>9 DEF L!Next
<1>5. ASSUME NEW k \in Conns, Respond(k)
      PROVE  L!Next
  <2>1. /\ pc[k] = "answering" /\ UNCHANGED <<requests, events>>
        /\ answers' = answers \cup {[crossing |-> current[k], decision |-> decision[k]]}
    BY <1>5 DEF Respond
  <2>2. current[k] \in Crossings /\ decision[k] \in Decisions
    BY <1>2, <2>1
  <2>3. RecordFollowsAt(k)
    BY DEF IInv, Kept, RecordFollows
  <2>4. L!Recorded(current[k], decision[k]) /\ (decision[k] = "deny" => L!Alerted(current[k]))
    BY <2>1, <2>3, LedgerWords DEF IInv, RecordFollowsAt, RecordedAs
  <2>5. PICK c \in Crossings, d \in L!Decisions : c = current[k] /\ d = decision[k]
    BY <2>2 DEF L!Decisions, Decisions
  <2>6. L!Answer(c, d)
    BY <2>1, <2>4, <2>5 DEF L!Answer
  <2> QED  BY <2>6 DEF L!Next
<1>6. ASSUME NEW k \in Conns, HandlerStep(k)
      PROVE  L!Next \/ UNCHANGED logs
  BY <1>3, <1>4, <1>5, <1>6 DEF HandlerStep, ReadRequestLine, EndOfStream, TakeDecision, Drained,
                                CannotDrain, ConnectionReset
<1>7. ASSUME NEW k \in Conns, ClientStep(k) \/ FileFails(k)
      PROVE  UNCHANGED logs
  BY <1>7 DEF ClientStep, Connect, SendHead, SendBody, HangUp, FileFails
<1>8. CASE EditAllowlist \/ Crash \/ UNCHANGED vars
  BY <1>1, <1>8 DEF EditAllowlist, Crash, vars
<1> QED  BY <1>1, <1>6, <1>7, <1>8 DEF Next

(* The broker keeps the promise of Ledger: whatever its threads, clients   *)
(* and faults do, each crossing is recorded once, only a recorded denial   *)
(* raises an alert and only once, nobody is answered before the record is  *)
(* complete (_handle, log_decision).                                       *)
THEOREM LedgerTheorem == Spec => LedgerSpec
  BY InitLedger, NextLedger, IInvHolds, PTL DEF Spec, LedgerSpec, L!Spec

-----------------------------------------------------------------------------
(* What decide's wildcard covers, and that only covered crossings pass.    *)

(* The decision that a version in force while crossing n was decided and   *)
(* recorded calls for.                                                     *)
Justified(d, n) == \E v \in inForce[n] : d = Decide(sent[n], versions[v])
JustifiedThen(d, n) == \E v \in inForce'[n] : d = Decide(sent'[n], versions'[v])

DecidedAsListed(k) ==
    /\ pc[k] = "parsed" => Len(versions) \in inForce[current[k]]
    /\ pc[k] = "decided" => Justified(decision[k], current[k])

Listed ==
    /\ \A k \in Conns : DecidedAsListed(k)
    /\ \A i \in 1..Len(requests) : Justified(requests[i].decision, requests[i].crossing)

(* A suffix of a host that lacks one label lacks the first.                *)
LEMMA SuffixIsTail ==
    ASSUME NEW s \in Seq(STRING), NEW t \in Seq(STRING),
           IsSuffix(s, t), Len(t) = Len(s) + 1
    PROVE  1 \in DOMAIN t /\ Tail(t) = s
<1> DEFINE n == Len(s)
<1>1. /\ n \in Nat /\ DOMAIN t = 1..(n + 1) /\ t # <<>>
      /\ \A i \in 1..n : s[i] \in STRING
      /\ \A i \in 1..(n + 1) : t[i] \in STRING
  <2>1. n \in Nat /\ DOMAIN t = 1..Len(t) /\ t # <<>>
    BY LenProperties, EmptySeq
  <2> QED  BY <2>1, ElementOfSeq
<1>2. /\ Tail(t) \in Seq(STRING) /\ Len(Tail(t)) = n
      /\ \A i \in 1..n : Tail(t)[i] = t[i + 1]
  BY <1>1, Popped
<1> DEFINE r == Reverse(s)
           q == Reverse(t)
<1>3. /\ r = [i \in 1..n |-> s[(n - i) + 1]]
      /\ q = [i \in 1..(n + 1) |-> t[((n + 1) - i) + 1]]
  BY DEF Reverse
<1>4. \A i \in 1..n : (n - i) + 1 \in 1..n /\ r[i] = s[(n - i) + 1] /\ r[i] \in STRING
  BY <1>1, <1>3
<1>5. \A i \in 1..n : /\ i \in 1..(n + 1) /\ ((n + 1) - i) + 1 \in 1..(n + 1)
                      /\ q[i] = t[((n + 1) - i) + 1] /\ q[i] \in STRING
  BY <1>1, <1>3
<1>6. r \in Seq(STRING) /\ Len(r) = n
  <2>1. r \in [1..n -> STRING]
    BY <1>3, <1>4
  <2>2. r \in Seq(STRING)
    BY <1>1, <2>1, SeqDef
  <2>3. Len(r) \in Nat /\ DOMAIN r = 1..Len(r)
    BY <2>2, LenProperties
  <2> QED  BY <1>1, <2>1, <2>2, <2>3
<1>7. SubSeq(r, 1, n) = SubSeq(q, 1, n)
  BY <1>6 DEF IsSuffix, IsPrefix
<1> HIDE DEF r, q, n
<1>8. \A i \in 1..n : SubSeq(r, 1, n)[i] = r[1 + i - 1]
  BY <1>1, <1>4, SubSeqProperties
<1>9. \A i \in 1..n : SubSeq(q, 1, n)[i] = q[1 + i - 1]
  BY <1>1, <1>5, SubSeqProperties
<1>10. \A i \in 1..n : r[i] = q[i]
  BY <1>1, <1>7, <1>8, <1>9
<1>11. ASSUME NEW j \in 1..n
       PROVE  Tail(t)[j] = s[j]
  <2> DEFINE i == (n - j) + 1
  <2>1. i \in 1..n /\ (n - i) + 1 = j /\ ((n + 1) - i) + 1 = j + 1
    BY <1>1
  <2> HIDE DEF i
  <2>2. s[j] = r[i] /\ t[j + 1] = q[i]
    BY <1>4, <1>5, <2>1
  <2> QED  BY <1>2, <1>10, <2>1, <2>2
<1>12. Len(Tail(t)) = Len(s) /\ \A i \in 1..Len(Tail(t)) : Tail(t)[i] = s[i]
  BY <1>2, <1>11 DEF n
<1>13. Tail(t) = s
  BY <1>2, <1>12, SeqEqual
<1> QED  BY <1>1, <1>13

(* A host whose first label taken off leaves the labels of an entry ends   *)
(* in them.                                                                *)
LEMMA TailIsSuffix ==
    ASSUME NEW t \in Seq(STRING), 1 \in DOMAIN t
    PROVE  IsSuffix(Tail(t), t) /\ Len(t) = Len(Tail(t)) + 1
<1> DEFINE s == Tail(t)
           n == Len(s)
<1>1. t # <<>>
  BY LenProperties, EmptySeq
<1>2. /\ s \in Seq(STRING) /\ n \in Nat /\ Len(t) = n + 1
      /\ \A i \in 1..n : s[i] = t[i + 1] /\ s[i] \in STRING
      /\ \A i \in 1..(n + 1) : t[i] \in STRING
  <2>1. /\ s \in Seq(STRING) /\ Len(t) \in Nat /\ Len(s) = Len(t) - 1 /\ n \in Nat
        /\ \A i \in 1..Len(s) : s[i] = t[i + 1]
    BY <1>1, Popped, LenProperties
  <2>2. /\ \A i \in 1..Len(s) : s[i] \in STRING
        /\ \A i \in 1..Len(t) : t[i] \in STRING
    BY <2>1, ElementOfSeq
  <2> QED  BY <2>1, <2>2
<1> DEFINE r == Reverse(s)
           q == Reverse(t)
<1>3. /\ r = [i \in 1..n |-> s[(n - i) + 1]]
      /\ q = [i \in 1..(n + 1) |-> t[((n + 1) - i) + 1]]
  BY <1>2 DEF Reverse
<1> HIDE DEF n, s
<1>4. \A i \in 1..n : (n - i) + 1 \in 1..n /\ r[i] = s[(n - i) + 1] /\ r[i] \in STRING
  BY <1>2, <1>3
<1>5. \A i \in 1..(n + 1) : /\ ((n + 1) - i) + 1 \in 1..(n + 1)
                            /\ q[i] = t[((n + 1) - i) + 1] /\ q[i] \in STRING
  BY <1>2, <1>3
<1>6. r \in Seq(STRING) /\ Len(r) = n /\ q \in Seq(STRING) /\ Len(q) = n + 1
  <2>1. r \in [1..n -> STRING] /\ q \in [1..(n + 1) -> STRING]
    BY <1>3, <1>4, <1>5
  <2>2. r \in Seq(STRING) /\ q \in Seq(STRING)
    BY <1>2, <2>1, SeqDef
  <2>3. /\ Len(r) \in Nat /\ DOMAIN r = 1..Len(r)
        /\ Len(q) \in Nat /\ DOMAIN q = 1..Len(q)
    BY <2>2, LenProperties
  <2> QED  BY <1>2, <2>1, <2>2, <2>3
<1> HIDE DEF r, q
<1>7. \A i \in 1..n : r[i] = q[i]
  <2> TAKE i \in 1..n
  <2> DEFINE j == (n - i) + 1
  <2>1. /\ j \in 1..n /\ ((n + 1) - i) + 1 = j + 1 /\ i \in 1..(n + 1)
        /\ r[i] = s[j]
    BY <1>2, <1>4
  <2> HIDE DEF j
  <2>2. q[i] = t[j + 1]
    BY <1>5, <2>1
  <2> QED  BY <1>2, <2>1, <2>2
<1>8. SubSeq(r, 1, n) = SubSeq(q, 1, n)
  <2>0. n \in Int /\ 1 \in Int
    BY <1>2
  <2>1. /\ \A i \in 1..n : r[i] \in STRING
        /\ \A i \in 1..n : q[i] \in STRING
    BY <1>2, <1>4, <1>7
  <2>2. /\ SubSeq(r, 1, n) \in Seq(STRING) /\ SubSeq(q, 1, n) \in Seq(STRING)
        /\ Len(SubSeq(r, 1, n)) = n /\ Len(SubSeq(q, 1, n)) = n
        /\ \A i \in 1..n : SubSeq(r, 1, n)[i] = r[i] /\ SubSeq(q, 1, n)[i] = q[i]
    <3>1. /\ SubSeq(r, 1, n) \in Seq(STRING)
          /\ Len(SubSeq(r, 1, n)) = IF 1 <= n THEN n - 1 + 1 ELSE 0
          /\ \A i \in 1..n - 1 + 1 : SubSeq(r, 1, n)[i] = r[1 + i - 1]
      BY <2>0, <2>1, SubSeqProperties
    <3>2. /\ SubSeq(q, 1, n) \in Seq(STRING)
          /\ Len(SubSeq(q, 1, n)) = IF 1 <= n THEN n - 1 + 1 ELSE 0
          /\ \A i \in 1..n - 1 + 1 : SubSeq(q, 1, n)[i] = q[1 + i - 1]
      BY <2>0, <2>1, SubSeqProperties
    <3>3. n - 1 + 1 = n /\ (n < 1 => n = 0) /\ \A i \in 1..n : 1 + i - 1 = i
      BY <1>2
    <3> QED  BY <1>2, <3>1, <3>2, <3>3
  <2> QED  BY <1>7, <2>2, SeqEqual
<1>9. IsPrefix(r, q)
  BY <1>2, <1>6, <1>8 DEF IsPrefix
<1>10. IsSuffix(s, t)
  BY <1>9 DEF IsSuffix, r, q
<1> QED  BY <1>2, <1>10 DEF n, s

(* A name has a dot between each two of its labels.                        *)
LEMMA DotsOfName ==
    ASSUME NEW host \in Texts, IsName(host), host # <<>>
    PROVE  Dots(host) = Len(host) - 1
<1>1. Len(host) \in Nat \ {0} /\ DOMAIN host = 1..Len(host)
  BY EmptySeq, LenProperties DEF Texts
<1>2. {i \in 1..Len(host) - 1 : host[i] \in Words /\ host[i + 1] \in Words} = 1..Len(host) - 1
  BY <1>1 DEF IsName
<1>3. Cardinality(1..Len(host) - 1) = Len(host) - 1
  <2> DEFINE b == Len(host) - 1
  <2>1. 1 \in Int /\ b \in Int /\ (1 > b => b = 0) /\ b - 1 + 1 = b
    BY <1>1
  <2>2. Cardinality(1..b) = IF 1 > b THEN 0 ELSE b - 1 + 1
    BY <2>1, FS_Interval
  <2> QED  BY <2>1, <2>2
<1> QED  BY <1>2, <1>3 DEF Dots

(* An entry matches what it covers: the name itself or, for a wildcard,    *)
(* one with exactly one more label.                                        *)
LEMMA MatchesWhatItCovers ==
    ASSUME NEW host \in Texts, IsName(host), host # <<>>,
           NEW entries \in Allowlists, NEW e \in entries
    PROVE  Matches(host, e) <=> Covers(e, host)
<1>1. e.labels \in Seq(STRING) /\ Len(e.labels) \in Nat /\ host \in Seq(STRING)
  BY BrokerAssumption, LenProperties DEF IsName, IsText, Texts
<1>2. CASE ~e.wild
  BY <1>2 DEF Matches, Covers
<1>3. CASE e.wild
  <2>0. Dots(host) = Len(host) - 1 /\ Len(host) \in Nat /\ DOMAIN host = 1..Len(host)
    BY DotsOfName, LenProperties DEF Texts
  <2>1. Matches(host, e) => Covers(e, host)
    <3> SUFFICES ASSUME Matches(host, e)
                 PROVE  Covers(e, host)
      OBVIOUS
    <3>1. IsSuffix(e.labels, host) /\ Dots(host) = Len(e.labels)
      BY <1>3 DEF Matches
    <3>2. Len(host) = Len(e.labels) + 1
      <4>1. \A a, b \in Nat : a - 1 = b => a = b + 1
        OBVIOUS
      <4> QED  BY <1>1, <2>0, <3>1, <4>1
    <3>3. 1 \in DOMAIN host /\ Tail(host) = e.labels
      BY <1>1, <3>1, <3>2, SuffixIsTail
    <3> QED  BY <1>3, <3>3 DEF Covers
  <2>2. Covers(e, host) => Matches(host, e)
    <3> SUFFICES ASSUME Covers(e, host)
                 PROVE  Matches(host, e)
      OBVIOUS
    <3>1. 1 \in DOMAIN host /\ Tail(host) = e.labels
      BY <1>3 DEF Covers
    <3>2. IsSuffix(Tail(host), host) /\ Len(host) = Len(Tail(host)) + 1
      BY <1>1, <3>1, TailIsSuffix
    <3>3. /\ Len(host) - Len(e.labels) = 1 /\ Len(host) > Len(e.labels)
          /\ Dots(host) = Len(e.labels)
      <4>1. \A a, b \in Nat : a = b + 1 => a - b = 1 /\ a > b /\ a - 1 = b
        OBVIOUS
      <4>2. Len(host) = Len(e.labels) + 1
        BY <3>1, <3>2
      <4> QED  BY <1>1, <2>0, <4>1, <4>2
    <3>4. host[1] \in Words
      BY <3>1 DEF IsName
    <3>5. IsSuffix(e.labels, host)
      BY <3>1, <3>2
    <3> QED  BY <1>3, <3>3, <3>4, <3>5 DEF Matches
  <2> QED  BY <2>1, <2>2
<1> QED  BY <1>2, <1>3

(* So decide lets by what an entry covers, of requests to a named host.    *)
LEMMA DecideByCover ==
    ASSUME NEW request \in Requests, request.host # <<>>, NEW entries \in Allowlists
    PROVE  Decide(request, entries) =
             IF \E e \in entries : Covers(e, request.host) THEN "allow" ELSE "deny"
<1>1. Matched[request] = request.host
  BY NamedHost
<1>2. request.host \in Texts /\ IsName(request.host)
  BY BrokerAssumption DEF IsText, Texts, Composed
<1>3. \A e \in entries : Matches(request.host, e) <=> Covers(e, request.host)
  BY <1>2, MatchesWhatItCovers
<1> QED  BY <1>1, <1>3 DEF Decide

(* No crossing has been decided at first.                                 *)
LEMMA InitListed == Init => Listed
<1> SUFFICES ASSUME Init
             PROVE  Listed
  OBVIOUS
<1>1. Len(requests) = 0
  BY EmptySeq DEF Init
<1> QED  BY <1>1 DEF Init, Listed, DecidedAsListed

(* A decision stays justified while no version in force is taken away.     *)
LEMMA JustifiedStays ==
    ASSUME IInv, NEW n \in 1..Len(sent), NEW d, Justified(d, n),
           inForce[n] \subseteq inForce'[n], sent'[n] = sent[n],
           \A v \in 1..Len(versions) : versions'[v] = versions[v]
    PROVE  JustifiedThen(d, n)
<1>1. PICK v \in inForce[n] : d = Decide(sent[n], versions[v])
  BY DEF Justified
<1>2. n \in Crossings
  <2>1. Len(sent) \in Nat /\ Len(sent) <= MaxRequests
    BY LenProperties DEF IInv, Shapes
  <2> QED  BY <2>1, BrokerAssumption DEF Crossings
<1>3. v \in 1..Len(versions)
  BY <1>2 DEF IInv, Shapes, WorldShapes
<1> QED  BY <1>1, <1>3 DEF JustifiedThen

(* Steps that leave the versions and the record alone, and a handler that  *)
(* has not recorded its crossing as it is unless it lets go of it.         *)
LEMMA ListedStays ==
    ASSUME IInv, Listed, UNCHANGED <<versions, inForce, requests>>,
           \A n \in 1..Len(sent) : sent'[n] = sent[n],
           \A m \in Conns : \/ pc'[m] \notin {"parsed", "decided"}
                            \/ /\ pc'[m] = pc[m] /\ current'[m] = current[m]
                               /\ decision'[m] = decision[m]
    PROVE  Listed'
<1>0. /\ \A m \in Conns : pc[m] \notin {"none", "idle"} => current[m] \in 1..Len(sent)
      /\ \A i \in 1..Len(requests) : requests[i].crossing \in 1..Len(sent)
  BY DEF IInv, Shapes, LogShapes
<1>1. ASSUME NEW n \in 1..Len(sent), NEW d, Justified(d, n)
      PROVE  JustifiedThen(d, n)
  BY <1>1, JustifiedStays
<1>2. ASSUME NEW i \in 1..Len(requests)
      PROVE  JustifiedThen(requests[i].decision, requests[i].crossing)
  BY <1>0, <1>1 DEF Listed
<1>3. ASSUME NEW m \in Conns
      PROVE  DecidedAsListed(m)'
  <2>1. CASE pc'[m] \notin {"parsed", "decided"}
    BY <2>1 DEF DecidedAsListed
  <2>2. CASE /\ pc'[m] = pc[m] /\ current'[m] = current[m] /\ decision'[m] = decision[m]
             /\ pc[m] \in {"parsed", "decided"}
    <3>1. pc[m] = "decided" => JustifiedThen(decision[m], current[m])
      BY <1>0, <1>1 DEF Listed, DecidedAsListed
    <3> QED  BY <2>2, <3>1 DEF Listed, DecidedAsListed, Justified, JustifiedThen
  <2> QED  BY <2>1, <2>2
<1> QED  BY <1>2, <1>3 DEF Listed, Justified, JustifiedThen

(* A crossing is decided by a version in force from its request line on.   *)
LEMMA ReadKeepsListed ==
    ASSUME IInv, Listed, NEW k \in Conns, ReadRequestLine(k), Head(stream[k]).kind = "head"
    PROVE  Listed'
<1> DEFINE n == Head(stream[k]).crossing
<1>1. /\ pc[k] = "idle" /\ pc' = [pc EXCEPT ![k] = "parsed"]
      /\ current' = [current EXCEPT ![k] = n]
      /\ inForce' = [inForce EXCEPT ![n] = {Len(versions)}]
      /\ UNCHANGED <<decision, sent, requests, versions>>
  BY DEF ReadRequestLine, logs, world
<1>2. Head(stream[k]) = stream[k][1] /\ 1 \in 1..Len(stream[k])
  <2>1. stream[k] \in Seq(Units) /\ stream[k] # <<>>
    BY DEF ReadRequestLine, IInv, Shapes
  <2> QED  BY <2>1, Popped
<1>3. /\ n \in 1..Len(sent) /\ ~Recorded(n) /\ \A m \in Conns : current[m] # n
  BY <1>2 DEF IInv, Shapes, Kept, OnePlace, RecordedIsRead, Nobody
<1>4. /\ \A m \in Conns : pc[m] \notin {"none", "idle"} => current[m] \in 1..Len(sent)
      /\ \A i \in 1..Len(requests) : requests[i].crossing \in 1..Len(sent)
      /\ pc \in [Conns -> {"none", "idle", "parsed", "decided", "alerting", "draining",
                           "answering"}]
      /\ current \in [Conns -> Nat] /\ inForce \in [Crossings -> SUBSET (1..Len(versions))]
  BY DEF IInv, Shapes, LogShapes, WorldShapes
<1>5. n \in Crossings
  <2>1. Len(sent) \in Nat /\ Len(sent) <= MaxRequests
    BY LenProperties DEF IInv, Shapes
  <2> QED  BY <1>3, <2>1, BrokerAssumption DEF Crossings
<1> HIDE DEF n
<1>6. inForce'[n] = {Len(versions)} /\ \A c : c # n => inForce'[c] = inForce[c]
  BY <1>1, <1>4, <1>5
<1>7. ASSUME NEW c \in 1..Len(sent), NEW d, c # n, Justified(d, c)
      PROVE  JustifiedThen(d, c)
  BY <1>1, <1>6, <1>7, JustifiedStays
<1>8. ASSUME NEW i \in 1..Len(requests)
      PROVE  JustifiedThen(requests[i].decision, requests[i].crossing)
  BY <1>3, <1>4, <1>7 DEF Listed, Recorded
<1>9. ASSUME NEW m \in Conns
      PROVE  DecidedAsListed(m)'
  <2>1. CASE m = k
    BY <1>1, <1>4, <1>6, <2>1 DEF DecidedAsListed
  <2>2. CASE m # k
    <3>1. pc'[m] = pc[m] /\ current'[m] = current[m] /\ decision'[m] = decision[m]
      BY <1>1, <1>4, <2>2
    <3>2. pc[m] = "decided" => JustifiedThen(decision[m], current[m])
      BY <1>3, <1>4, <1>7 DEF Listed, DecidedAsListed
    <3>3. inForce'[current[m]] = inForce[current[m]]
      BY <1>3, <1>6
    <3> QED  BY <1>1, <3>1, <3>2, <3>3 DEF Listed, DecidedAsListed, Justified, JustifiedThen
  <2> QED  BY <2>1, <2>2
<1> QED  BY <1>1, <1>8, <1>9 DEF Listed, Justified, JustifiedThen

(* The decision is the one that the version there now calls for.           *)
LEMMA DecideKeepsListed ==
    ASSUME IInv, Listed, NEW k \in Conns, pc[k] = "parsed",
           decision' = [decision EXCEPT ![k] = Decide(sent[current[k]], allowlist)],
           pc' = [pc EXCEPT ![k] = "decided"],
           UNCHANGED <<current, sent, requests, versions, inForce>>
    PROVE  Listed'
<1>1. /\ pc'[k] = "decided" /\ decision'[k] = Decide(sent[current[k]], allowlist)
      /\ \A m \in Conns : m # k => pc'[m] = pc[m] /\ decision'[m] = decision[m]
  BY DEF IInv, Shapes
<1>2. Len(versions) \in inForce[current[k]]
  BY DEF Listed, DecidedAsListed
<1>3. ASSUME NEW m \in Conns
      PROVE  DecidedAsListed(m)'
  <2>1. CASE m = k
    BY <1>1, <1>2, <2>1 DEF DecidedAsListed, Justified, allowlist
  <2>2. CASE m # k
    BY <1>1, <2>2 DEF Listed, DecidedAsListed, Justified
  <2> QED  BY <2>1, <2>2
<1> QED  BY <1>3 DEF Listed, Justified

(* What is recorded is what was decided.                                   *)
LEMMA RecordKeepsListed ==
    ASSUME IInv, Listed, NEW k \in Conns, LogRequest(k)
    PROVE  Listed'
<1> DEFINE line == [crossing |-> current[k], host |-> Named[sent[current[k]]],
                    decision |-> decision[k]]
<1>1. /\ pc[k] = "decided" /\ requests' = Append(requests, line)
      /\ pc' = [pc EXCEPT ![k] = AfterRequest(decision[k])]
      /\ UNCHANGED <<sent, current, decision, versions, inForce>>
  BY DEF LogRequest, client, world, ghosts
<1>2. line.crossing = current[k] /\ line.decision = decision[k]
  OBVIOUS
<1>3. line \in RequestLines
  <2>1. current[k] \in 1..Len(sent) /\ sent \in Seq(Requests) /\ decision[k] \in Decisions
    BY <1>1 DEF IInv, Shapes
  <2>2. Named[sent[current[k]]] \in Texts
    BY <2>1, ElementOfSeq, NamesAreTexts
  <2>3. current[k] \in Nat
    BY DEF IInv, Shapes
  <2> QED  BY <2>1, <2>2, <2>3 DEF RequestLines
<1> HIDE DEF line
<1>4. /\ \A i \in 1..Len(requests) : requests'[i] = requests[i]
      /\ requests'[Len(requests) + 1] = line
      /\ \A i \in 1..Len(requests') : i \in 1..Len(requests) \/ i = Len(requests) + 1
  BY <1>1, <1>3, Grown DEF IInv, LogShapes, RequestLines
<1>5. Justified(decision[k], current[k])
  BY <1>1 DEF Listed, DecidedAsListed
<1>6. ASSUME NEW m \in Conns
      PROVE  DecidedAsListed(m)'
  <2>1. CASE m = k
    <3>1. pc'[k] \notin {"parsed", "decided"}
      BY <1>1 DEF AfterRequest, IInv, Shapes
    <3> QED  BY <2>1, <3>1 DEF DecidedAsListed
  <2>2. CASE m # k
    <3>1. pc'[m] = pc[m]
      BY <1>1, <2>2 DEF IInv, Shapes
    <3> QED  BY <1>1, <3>1 DEF Listed, DecidedAsListed, Justified
  <2> QED  BY <2>1, <2>2
<1>7. ASSUME NEW i \in 1..Len(requests')
      PROVE  Justified(requests'[i].decision, requests'[i].crossing)
  BY <1>2, <1>4, <1>5, <1>7 DEF Listed
<1> QED  BY <1>1, <1>6, <1>7 DEF Listed, Justified

(* An edit is one more version that a handler at work may decide by.       *)
LEMMA EditKeepsListed ==
    ASSUME IInv, Listed, EditAllowlist
    PROVE  Listed'
<1>1. /\ Len(versions') = Len(versions) + 1 /\ Len(versions) \in Nat
      /\ \A v \in 1..Len(versions) : versions'[v] = versions[v]
      /\ \A n \in Crossings : inForce[n] \subseteq inForce'[n]
  BY EditKeepsWorld DEF IInv
<1>2. /\ UNCHANGED <<sent, pc, current, decision, requests>>
      /\ inForce' = [n \in Crossings |->
                       inForce[n] \cup {v \in {Len(versions) + 1} : BeingDecided(n)}]
  BY DEF EditAllowlist, client, handler, logs
<1>3. /\ \A m \in Conns : pc[m] \notin {"none", "idle"} => current[m] \in 1..Len(sent)
      /\ \A i \in 1..Len(requests) : requests[i].crossing \in 1..Len(sent)
      /\ 1..Len(sent) \subseteq Crossings
  <2>1. Len(sent) \in Nat /\ Len(sent) <= MaxRequests
    BY LenProperties DEF IInv, Shapes
  <2>2. 1..Len(sent) \subseteq Crossings
    BY <2>1, BrokerAssumption DEF Crossings
  <2> QED  BY <2>2 DEF IInv, Shapes, LogShapes
<1>4. ASSUME NEW n \in 1..Len(sent), NEW d, Justified(d, n)
      PROVE  JustifiedThen(d, n)
  BY <1>1, <1>2, <1>3, <1>4, JustifiedStays
<1>5. ASSUME NEW i \in 1..Len(requests)
      PROVE  JustifiedThen(requests[i].decision, requests[i].crossing)
  BY <1>3, <1>4 DEF Listed
<1>6. ASSUME NEW m \in Conns
      PROVE  DecidedAsListed(m)'
  <2>1. pc[m] = "decided" => JustifiedThen(decision[m], current[m])
    BY <1>3, <1>4 DEF Listed, DecidedAsListed
  <2>2. pc[m] = "parsed" => Len(versions') \in inForce'[current[m]]
    <3> SUFFICES ASSUME pc[m] = "parsed"
                 PROVE  Len(versions') \in inForce'[current[m]]
      OBVIOUS
    <3>1. BeingDecided(current[m]) /\ current[m] \in Crossings
      BY <1>3 DEF BeingDecided
    <3> QED  BY <1>1, <1>2, <3>1
  <2> QED  BY <1>2, <2>1, <2>2 DEF DecidedAsListed, Justified, JustifiedThen
<1> QED  BY <1>2, <1>5, <1>6 DEF Listed, Justified, JustifiedThen

(* Every step keeps decisions justified.                                   *)
LEMMA NextListed == IInv /\ Listed /\ [Next]_vars => Listed'
<1> SUFFICES ASSUME IInv, Listed, [Next]_vars
             PROVE  Listed'
  OBVIOUS
<1>0. pc \in [Conns -> {"none", "idle", "parsed", "decided", "alerting", "draining",
                        "answering"}]
  BY DEF IInv, Shapes
<1>1. ASSUME NEW K, EndThreads(K), UNCHANGED <<sent, versions, inForce, requests>>
      PROVE  Listed'
  <2>1. \A m \in Conns : \/ pc'[m] \notin {"parsed", "decided"}
                         \/ /\ pc'[m] = pc[m] /\ current'[m] = current[m]
                            /\ decision'[m] = decision[m]
    BY <1>1 DEF EndThreads
  <2> QED  BY <1>1, <2>1, ListedStays
<1>2. ASSUME NEW k \in Conns, ReadRequestLine(k)
      PROVE  Listed'
  <2>1. CASE Head(stream[k]).kind = "head"
    BY <1>2, <2>1, ReadKeepsListed
  <2>2. CASE Head(stream[k]).kind # "head"
    BY <1>1, <1>2, <2>2 DEF ReadRequestLine, logs, world
  <2> QED  BY <2>1, <2>2
<1>3. ASSUME NEW k \in Conns, TakeDecision(k)
      PROVE  Listed'
  <2>1. UNCHANGED <<sent, versions, inForce, requests>> /\ pc[k] = "parsed"
    BY <1>3 DEF TakeDecision, Received, logs, world, ghosts
  <2>2. CASE EndThreads({k})
    BY <1>1, <2>1, <2>2
  <2>3. CASE ~EndThreads({k})
    <3>1. /\ decision' = [decision EXCEPT ![k] = Decide(sent[current[k]], allowlist)]
          /\ pc' = [pc EXCEPT ![k] = "decided"] /\ UNCHANGED current
      BY <1>3, <2>3 DEF TakeDecision
    <3> QED  BY <2>1, <3>1, DecideKeepsListed
  <2> QED  BY <2>2, <2>3
<1>4. ASSUME NEW k \in Conns, SendHead(k)
      PROVE  Listed'
  <2>1. PICK x \in Requests : sent' = Append(sent, x)
    BY <1>4 DEF SendHead
  <2>2. UNCHANGED <<versions, inForce, requests, pc, current, decision>>
    BY <1>4 DEF SendHead, handler, logs, world, ghosts
  <2>3. \A n \in 1..Len(sent) : sent'[n] = sent[n]
    BY <2>1, Grown DEF IInv, Shapes
  <2> QED  BY <2>2, <2>3, ListedStays
<1>5. ASSUME NEW k \in Conns, Respond(k)
      PROVE  Listed'
  <2>1. UNCHANGED <<sent, versions, inForce, requests>>
    BY <1>5 DEF Respond, world, ghosts
  <2>2. CASE EndThreads({k})
    BY <1>1, <2>1, <2>2
  <2>3. CASE ~EndThreads({k})
    <3>1. /\ pc' = [pc EXCEPT ![k] = "idle"] /\ current' = [current EXCEPT ![k] = Nobody]
          /\ UNCHANGED decision
      BY <1>5, <2>3 DEF Respond
    <3>2. \A m \in Conns : pc'[m] = "idle" \/ (pc'[m] = pc[m] /\ current'[m] = current[m])
      BY <1>0, <3>1
    <3> QED  BY <2>1, <3>1, <3>2, ListedStays
  <2> QED  BY <2>2, <2>3
<1>6. ASSUME NEW k \in Conns, EndOfStream(k) \/ ConnectionReset(k) \/ FileFails(k)
      PROVE  Listed'
  <2>1. EndThreads({k}) /\ UNCHANGED <<sent, versions, inForce, requests>>
    BY <1>6 DEF EndOfStream, ConnectionReset, FileFails, logs, world, ghosts
  <2> QED  BY <1>1, <2>1
<1>7. ASSUME NEW k \in Conns, LogEvent(k) \/ Drained(k) \/ CannotDrain(k)
      PROVE  Listed'
  <2>1. UNCHANGED <<sent, versions, inForce, requests, current, decision>>
    BY <1>7 DEF LogEvent, Drained, CannotDrain, client, logs, world, ghosts
  <2>2. /\ pc'[k] \in {"draining", "answering"}
        /\ \A m \in Conns : m # k => pc'[m] = pc[m]
    BY <1>0, <1>7 DEF LogEvent, Drained, CannotDrain
  <2> QED  BY <2>1, <2>2, ListedStays
<1>8. ASSUME NEW k \in Conns, Connect(k) \/ SendBody(k) \/ HangUp(k)
      PROVE  Listed'
  <2>1. UNCHANGED <<sent, versions, inForce, requests, current, decision>>
    BY <1>8 DEF Connect, SendBody, HangUp, handler, logs, world, ghosts
  <2>2. \A m \in Conns : pc'[m] = pc[m] \/ pc'[m] = "idle"
    BY <1>0, <1>8 DEF Connect, SendBody, HangUp, handler
  <2> QED  BY <2>1, <2>2, ListedStays
<1>9. CASE UNCHANGED vars
  BY <1>9, ListedStays DEF vars, client, handler, logs, world, ghosts
<1>10. CASE Crash
  BY <1>1, <1>10 DEF Crash, logs
<1> QED  BY <1>2, <1>3, <1>4, <1>5, <1>6, <1>7, <1>8, <1>9, <1>10, RecordKeepsListed,
            EditKeepsListed DEF Next, HandlerStep, ClientStep

(* A recorded decision on a named host is the one that a version of the    *)
(* allowlist in force at the time calls for.                               *)
LEMMA RecordedIsJustified ==
    ASSUME IInv, Listed, NEW i \in DOMAIN requests,
           sent[requests[i].crossing].host # <<>>
    PROVE  \E v \in inForce[requests[i].crossing] :
               LET host == sent[requests[i].crossing].host
               IN  requests[i].decision =
                     IF \E e \in versions[v] : Covers(e, host) THEN "allow" ELSE "deny"
<1> DEFINE n == requests[i].crossing
<1>1. DOMAIN requests = 1..Len(requests) /\ sent \in Seq(Requests)
  BY LenProperties DEF IInv, LogShapes, Shapes
<1>2. n \in 1..Len(sent) /\ Justified(requests[i].decision, n)
  BY <1>1 DEF IInv, LogShapes, Listed
<1>3. PICK v \in inForce[n] : requests[i].decision = Decide(sent[n], versions[v])
  BY <1>2 DEF Justified
<1>4. sent[n] \in Requests
  BY <1>1, <1>2, ElementOfSeq
<1>5. versions[v] \in Allowlists
  <2>1. Len(sent) \in Nat /\ Len(sent) <= MaxRequests
    BY LenProperties DEF IInv, Shapes
  <2>2. n \in Crossings
    BY <1>2, <2>1, BrokerAssumption DEF Crossings
  <2>3. v \in 1..Len(versions) /\ versions \in Seq(Allowlists)
    BY <2>2 DEF IInv, Shapes, WorldShapes
  <2> QED  BY <2>3, ElementOfSeq
<1> QED  BY <1>3, <1>4, <1>5, DecideByCover

(* Every reachable state has only justified decisions.                     *)
LEMMA ListedHolds == Spec => []Listed
  BY InitListed, NextListed, IInvHolds, PTL DEF Spec

(* broker.py:41-73, 168-170: whatever a client wraps around the name of a  *)
(* host, a crossing to it recorded as allowed is covered by an entry of    *)
(* the allowlist as it was at some moment between its request line and its *)
(* record: an edit takes effect on the next request.                       *)
THEOREM AllowedTheorem == Spec => []AllowedIsListed
<1>1. IInv /\ Listed => AllowedIsListed
  <2> SUFFICES ASSUME IInv, Listed, NEW i \in DOMAIN requests,
                      requests[i].decision = "allow",
                      sent[requests[i].crossing].host # <<>>
               PROVE  \E v \in inForce[requests[i].crossing] : \E e \in versions[v] :
                        Covers(e, sent[requests[i].crossing].host)
    BY DEF AllowedIsListed
  <2> QED  BY RecordedIsJustified
<1> QED  BY <1>1, ListedHolds, IInvHolds, PTL

(* One recorded as denied was covered by no entry of a version of that     *)
(* time: no crossing raises an alert that the allowlist lets by all along. *)
THEOREM DeniedTheorem == Spec => []DeniedIsUnlisted
<1>1. IInv /\ Listed => DeniedIsUnlisted
  <2> SUFFICES ASSUME IInv, Listed, NEW i \in DOMAIN requests,
                      requests[i].decision = "deny",
                      sent[requests[i].crossing].host # <<>>
               PROVE  \E v \in inForce[requests[i].crossing] : \A e \in versions[v] :
                        ~Covers(e, sent[requests[i].crossing].host)
    BY DEF DeniedIsUnlisted
  <2> QED  BY RecordedIsJustified
<1> QED  BY <1>1, ListedHolds, IInvHolds, PTL

-----------------------------------------------------------------------------
(* What a handler may do with the crossing it works on: keep it while      *)
(* others step, decide it, record it, or lose it to a fault or to a target *)
(* with brackets, which urlsplit may refuse.                               *)
Written(n) == \E i \in 1..Len(requests') : requests'[i].crossing = n

OnItsWay(k) ==
    pc[k] \in {"parsed", "decided"} =>
        \/ current[k] \in lost'
        \/ pc[k] = "parsed" /\ sent[current[k]] \in Refusable
        \/ pc'[k] = pc[k] /\ current'[k] = current[k]
        \/ pc[k] = "parsed" /\ pc'[k] = "decided" /\ current'[k] = current[k]
        \/ pc[k] = "decided" /\ Written(current[k])

LetGo(k) ==
    current[k] # Nobody /\ current'[k] # current[k] =>
        \/ Written(current[k]) \/ current[k] \in lost'
        \/ pc[k] = "parsed" /\ sent[current[k]] \in Refusable

NothingIsDropped ==
    \A k \in Conns : /\ OnItsWay(k) /\ LetGo(k)
                     /\ HandlerStep(k) => pc'[k] # pc[k]

(* No step of a handler leaves it where it is.                             *)
LEMMA HandlerMovesOn ==
    ASSUME Shapes, NEW k \in Conns, HandlerStep(k)
    PROVE  pc'[k] # pc[k]
<1> USE DEF Shapes
<1>1. CASE ReadRequestLine(k)
  BY <1>1 DEF ReadRequestLine, EndThreads
<1>2. CASE EndOfStream(k)
  BY <1>2 DEF EndOfStream, EndThreads
<1>3. CASE TakeDecision(k)
  BY <1>3 DEF TakeDecision, Received, EndThreads
<1>4. CASE LogRequest(k)
  BY <1>4 DEF LogRequest, AfterRequest
<1>5. CASE LogEvent(k) \/ Drained(k) \/ CannotDrain(k)
  BY <1>5 DEF LogEvent, Drained, CannotDrain
<1>6. CASE Respond(k)
  BY <1>6 DEF Respond, EndThreads
<1>7. CASE ConnectionReset(k)
  BY <1>7 DEF ConnectionReset, EndThreads
<1> QED  BY <1>1, <1>2, <1>3, <1>4, <1>5, <1>6, <1>7 DEF HandlerStep

(* A handler that ends does so without a crossing, or with a recorded one, *)
(* or with one that is noted as lost or has brackets in its target.        *)
LEMMA EndsDropNothing ==
    ASSUME Shapes, NEW K, EndThreads(K), UNCHANGED requests,
           \A k \in Conns : k \in K =>
               \/ current[k] \in lost'
               \/ current[k] = Nobody /\ pc[k] = "idle"
               \/ pc[k] \in {"draining", "answering"} /\ Recorded(current[k])
               \/ pc[k] = "parsed" /\ sent[current[k]] \in Refusable
    PROVE  \A k \in Conns : OnItsWay(k) /\ LetGo(k)
<1> TAKE k \in Conns
<1>1. CASE k \in K
  BY <1>1 DEF OnItsWay, LetGo, Recorded, Written
<1>2. CASE k \notin K
  BY <1>2 DEF OnItsWay, LetGo, EndThreads
<1> QED  BY <1>1, <1>2

(* Every step of the broker and of its clients.                            *)
LEMMA StepsDropNothing == IInv /\ [Next]_vars => NothingIsDropped
<1> SUFFICES ASSUME IInv, [Next]_vars
             PROVE  \A k \in Conns : OnItsWay(k) /\ LetGo(k)
  BY HandlerMovesOn DEF IInv, NothingIsDropped
<1>0. /\ Shapes
      /\ pc \in [Conns -> {"none", "idle", "parsed", "decided", "alerting", "draining",
                           "answering"}]
      /\ current \in [Conns -> Nat]
      /\ \A k \in Conns : pc[k] \in {"none", "idle"} => current[k] = Nobody
      /\ \A k \in Conns : pc[k] \in {"draining", "answering"} => Recorded(current[k])
  <2>1. \A n, h, d : RecordedAs(n, h, d) => Recorded(n)
    BY DEF RecordedAs, Recorded
  <2>2. \A k \in Conns : pc[k] \in {"draining", "answering"} => Recorded(current[k])
    BY <2>1 DEF IInv, Kept, RecordFollows, RecordFollowsAt
  <2> QED  BY <2>2 DEF IInv, Shapes
<1>1. ASSUME UNCHANGED current,
             \A m \in Conns : \/ pc'[m] = pc[m]
                              \/ pc[m] \notin {"parsed", "decided"}
                              \/ pc[m] = "parsed" /\ pc'[m] = "decided"
      PROVE  \A k \in Conns : OnItsWay(k) /\ LetGo(k)
  BY <1>1 DEF OnItsWay, LetGo
<1>2. ASSUME NEW k \in Conns, ReadRequestLine(k)
      PROVE  \A m \in Conns : OnItsWay(m) /\ LetGo(m)
  <2>1. pc[k] = "idle" /\ current[k] = Nobody /\ UNCHANGED requests
    BY <1>0, <1>2 DEF ReadRequestLine, logs
  <2>2. CASE EndThreads({k})
    BY <1>0, <2>1, <2>2, EndsDropNothing
  <2>3. CASE ~EndThreads({k})
    <3>1. \A m \in Conns : m # k => pc'[m] = pc[m] /\ current'[m] = current[m]
      BY <1>0, <1>2, <2>3 DEF ReadRequestLine
    <3> QED  BY <2>1, <3>1 DEF OnItsWay, LetGo
  <2> QED  BY <2>2, <2>3
<1>3. ASSUME NEW k \in Conns, TakeDecision(k)
      PROVE  \A m \in Conns : OnItsWay(m) /\ LetGo(m)
  <2>1. CASE EndThreads({k})
    <3>1. pc[k] = "parsed" /\ UNCHANGED requests
      BY <1>3 DEF TakeDecision, Received, logs
    <3>2. sent[current[k]] \in Refusable
      BY <1>0, <1>3, <2>1, <3>1 DEF TakeDecision, EndThreads
    <3> QED  BY <1>0, <2>1, <3>1, <3>2, EndsDropNothing
  <2>2. CASE ~EndThreads({k})
    <3>1. pc[k] = "parsed" /\ pc' = [pc EXCEPT ![k] = "decided"] /\ UNCHANGED current
      BY <1>3, <2>2 DEF TakeDecision, Received
    <3> QED  BY <1>0, <1>1, <3>1
  <2> QED  BY <2>1, <2>2
<1>4. ASSUME NEW k \in Conns, LogRequest(k)
      PROVE  \A m \in Conns : OnItsWay(m) /\ LetGo(m)
  <2> DEFINE line == [crossing |-> current[k], host |-> Named[sent[current[k]]],
                      decision |-> decision[k]]
  <2>1. /\ pc[k] = "decided" /\ requests' = Append(requests, line)
        /\ pc' = [pc EXCEPT ![k] = AfterRequest(decision[k])] /\ UNCHANGED current
    BY <1>4 DEF LogRequest
  <2>2. line \in RequestLines /\ requests \in Seq(RequestLines)
    <3>1. current[k] \in 1..Len(sent) /\ sent \in Seq(Requests) /\ decision[k] \in Decisions
      BY <2>1 DEF IInv, Shapes
    <3>2. sent[current[k]] \in Requests
      BY <3>1, ElementOfSeq
    <3>3. Named[sent[current[k]]] \in Texts
      BY <3>2, NamesAreTexts
    <3> QED  BY <1>0, <3>1, <3>3 DEF RequestLines, IInv, LogShapes
  <2>3. line.crossing = current[k]
    OBVIOUS
  <2> HIDE DEF line
  <2>4. /\ Len(requests') = Len(requests) + 1 /\ Len(requests) \in Nat
        /\ requests'[Len(requests) + 1] = line
    BY <2>1, <2>2, Grown
  <2>5. Written(current[k])
    <3>1. Len(requests) + 1 \in 1..Len(requests')
      BY <2>4
    <3> QED  BY <2>3, <2>4, <3>1 DEF Written
  <2>6. \A m \in Conns : m # k => pc'[m] = pc[m]
    BY <1>0, <2>1
  <2> QED  BY <2>1, <2>5, <2>6 DEF OnItsWay, LetGo
<1>5. ASSUME NEW k \in Conns, Respond(k)
      PROVE  \A m \in Conns : OnItsWay(m) /\ LetGo(m)
  <2>1. pc[k] = "answering" /\ Recorded(current[k]) /\ UNCHANGED requests
    BY <1>0, <1>5 DEF Respond
  <2>2. CASE EndThreads({k})
    BY <1>0, <2>1, <2>2, EndsDropNothing
  <2>3. CASE ~EndThreads({k})
    <3>1. \A m \in Conns : m # k => pc'[m] = pc[m] /\ current'[m] = current[m]
      BY <1>0, <1>5, <2>3 DEF Respond
    <3> QED  BY <2>1, <3>1 DEF OnItsWay, LetGo, Recorded, Written
  <2> QED  BY <2>2, <2>3
<1>6. ASSUME NEW k \in Conns, EndOfStream(k) \/ ConnectionReset(k)
      PROVE  \A m \in Conns : OnItsWay(m) /\ LetGo(m)
  <2>1. /\ pc[k] \in {"idle", "draining", "answering"} /\ EndThreads({k})
        /\ UNCHANGED requests
    BY <1>6 DEF EndOfStream, ConnectionReset, logs
  <2> QED  BY <1>0, <2>1, EndsDropNothing
<1>7. ASSUME NEW k \in Conns, FileFails(k)
      PROVE  \A m \in Conns : OnItsWay(m) /\ LetGo(m)
  <2>1. lost' = lost \cup {current[k]} /\ EndThreads({k}) /\ UNCHANGED requests
    BY <1>7 DEF FileFails, logs
  <2> QED  BY <1>0, <2>1, EndsDropNothing
<1>8. CASE Crash
  <2>1. /\ lost' = lost \cup ({current[k] : k \in Conns} \ {Nobody})
        /\ EndThreads(Conns) /\ UNCHANGED requests
    BY <1>8 DEF Crash, logs
  <2>2. \A k \in Conns : current[k] \in lost' \/ current[k] = Nobody
    BY <2>1
  <2>3. Nobody \notin 1..Len(sent)
    BY DEF Nobody
  <2>4. \A k \in Conns : pc[k] \in {"parsed", "decided"} => current[k] # Nobody
    BY <2>3 DEF IInv, Shapes
  <2> QED  BY <2>2, <2>4 DEF OnItsWay, LetGo
<1>9. ASSUME NEW k \in Conns, LogEvent(k) \/ Drained(k) \/ CannotDrain(k)
      PROVE  \A m \in Conns : OnItsWay(m) /\ LetGo(m)
  <2>1. /\ UNCHANGED current /\ pc[k] \in {"alerting", "draining"}
        /\ \A m \in Conns : m # k => pc'[m] = pc[m]
    BY <1>0, <1>9 DEF LogEvent, Drained, CannotDrain
  <2> QED  BY <1>1, <2>1
<1>10. ASSUME NEW k \in Conns, ClientStep(k)
       PROVE  \A m \in Conns : OnItsWay(m) /\ LetGo(m)
  <2>1. /\ UNCHANGED current
        /\ \A m \in Conns : pc'[m] = pc[m] \/ pc[m] = "none"
    BY <1>0, <1>10 DEF ClientStep, Connect, SendHead, SendBody, HangUp, handler
  <2> QED  BY <1>1, <2>1
<1>11. CASE EditAllowlist \/ UNCHANGED vars
  <2>1. UNCHANGED <<pc, current>>
    BY <1>11 DEF EditAllowlist, vars, handler
  <2> QED  BY <1>1, <2>1
<1> QED  BY <1>2, <1>3, <1>4, <1>5, <1>6, <1>7, <1>8, <1>9, <1>10, <1>11
        DEF Next, HandlerStep

(* broker.py:81-84, 99-111, 161-175: a crossing that a handler has taken   *)
(* up leaves it only for requests.log, through a fault that is noted, or   *)
(* because of a bracket in its target, which may make urlsplit raise; its  *)
(* own next two steps decide and record it, and no other thread's step and *)
(* no client holds it back or takes it away.  The fairness of the handlers *)
(* turns this into EveryCrossingIsRecorded.                                *)
THEOREM NothingIsDroppedTheorem == Spec => [][NothingIsDropped]_vars
  BY StepsDropNothing, IInvHolds, PTL DEF Spec
=============================================================================
