-------------------------- MODULE FindingOrderProofs --------------------------
(***************************************************************************)
(* The sort key orders findings totally, and a set of findings has one     *)
(* sorted list.                                                            *)
(***************************************************************************)
EXTENDS FindingOrder, FiniteSetTheorems, FunctionTheorems, TLAPS

(* Every part of a key is a number.                                        *)
LEMMA KeyType == \A f \in Findings : \A i \in 1..6 : SortKey(f)[i] \in Nat
<1>1. \A f \in Findings : Rank(f.severity) \in Nat
  BY DEF Findings, Severities, Rank
<1>2. TAKE f \in Findings
<1>3. SortKey(f) \in [1..6 -> Nat]
  BY <1>1, <1>2 DEF Findings, SortKey
<1> QED  BY <1>3

(* Only one finding has a given key: nothing that tells two findings apart *)
(* is missing from it.                                                     *)
LEMMA KeyIsUnique ==
    ASSUME NEW f \in Findings, NEW g \in Findings,
           \A i \in 1..6 : SortKey(f)[i] = SortKey(g)[i]
    PROVE  f = g
<1>1. /\ SortKey(f)[1] = SortKey(g)[1] /\ SortKey(f)[2] = SortKey(g)[2]
      /\ SortKey(f)[3] = SortKey(g)[3] /\ SortKey(f)[4] = SortKey(g)[4]
      /\ SortKey(f)[5] = SortKey(g)[5] /\ SortKey(f)[6] = SortKey(g)[6]
  OBVIOUS
<1>2. Rank(f.severity) = Rank(g.severity) /\ f.probe_id = g.probe_id /\ f.subject = g.subject
      /\ f.rule_key = g.rule_key /\ f.title = g.title /\ f.evidence = g.evidence
  BY <1>1 DEF SortKey
<1>3. f.severity = g.severity
  BY <1>2 DEF Findings, Severities, Rank
<1> QED  BY <1>2, <1>3 DEF Findings

(* finding.py:44-54, "A total order over the fields, not a partial one":   *)
(* of two different findings exactly one comes before the other, and the   *)
(* order is transitive.                                                    *)
THEOREM OrderIsTotal ==
    /\ \A f, g \in Findings : f = g \/ Before(f, g) \/ Before(g, f)
    /\ \A f, g \in Findings : ~(Before(f, g) /\ Before(g, f))
    /\ \A f \in Findings : ~Before(f, f)
    /\ \A f, g, h \in Findings : Before(f, g) /\ Before(g, h) => Before(f, h)
<1>1. ASSUME NEW f \in Findings, NEW g \in Findings, f # g
      PROVE  Before(f, g) \/ Before(g, f)
  <2> DEFINE differ == {i \in 1..6 : SortKey(f)[i] # SortKey(g)[i]}
  <2>1. differ # {}
    BY <1>1, KeyIsUnique
  <2>2. PICK i \in differ : \A j \in differ : i <= j
    <3>1. \/ 1 \in differ
          \/ 1 \notin differ /\ 2 \in differ
          \/ {1, 2} \cap differ = {} /\ 3 \in differ
          \/ {1, 2, 3} \cap differ = {} /\ 4 \in differ
          \/ {1, 2, 3, 4} \cap differ = {} /\ 5 \in differ
          \/ {1, 2, 3, 4, 5} \cap differ = {} /\ 6 \in differ
      BY <2>1
    <3> QED  BY <3>1
  <2>3. \A j \in 1..(i - 1) : SortKey(f)[j] = SortKey(g)[j]
    BY <2>2
  <2>4. SortKey(f)[i] \in Nat /\ SortKey(g)[i] \in Nat /\ SortKey(f)[i] # SortKey(g)[i]
    BY <2>2, KeyType
  <2>5. SortKey(f)[i] < SortKey(g)[i] \/ SortKey(g)[i] < SortKey(f)[i]
    BY <2>4
  <2> QED  BY <2>2, <2>3, <2>5 DEF Before
<1>2. ASSUME NEW f \in Findings, NEW g \in Findings, Before(f, g), Before(g, f)
      PROVE  FALSE
  <2>1. PICK i \in 1..6 : /\ SortKey(f)[i] < SortKey(g)[i]
                          /\ \A k \in 1..(i - 1) : SortKey(f)[k] = SortKey(g)[k]
    BY <1>2 DEF Before
  <2>2. PICK j \in 1..6 : /\ SortKey(g)[j] < SortKey(f)[j]
                          /\ \A k \in 1..(j - 1) : SortKey(g)[k] = SortKey(f)[k]
    BY <1>2 DEF Before
  <2>3. /\ SortKey(f)[i] \in Nat /\ SortKey(g)[i] \in Nat
        /\ SortKey(f)[j] \in Nat /\ SortKey(g)[j] \in Nat
    BY KeyType
  <2>4. i < j \/ i = j \/ j < i
    OBVIOUS
  <2> QED  BY <2>1, <2>2, <2>3, <2>4
<1>3. ASSUME NEW f \in Findings, NEW g \in Findings, NEW h \in Findings,
             Before(f, g), Before(g, h)
      PROVE  Before(f, h)
  <2>1. PICK i \in 1..6 : /\ SortKey(f)[i] < SortKey(g)[i]
                          /\ \A k \in 1..(i - 1) : SortKey(f)[k] = SortKey(g)[k]
    BY <1>3 DEF Before
  <2>2. PICK j \in 1..6 : /\ SortKey(g)[j] < SortKey(h)[j]
                          /\ \A k \in 1..(j - 1) : SortKey(g)[k] = SortKey(h)[k]
    BY <1>3 DEF Before
  <2>3. CASE i < j
    <3>1. SortKey(f)[i] < SortKey(h)[i]
      BY <2>1, <2>2, <2>3
    <3>2. \A k \in 1..(i - 1) : SortKey(f)[k] = SortKey(h)[k]
      BY <2>1, <2>2, <2>3
    <3> QED  BY <3>1, <3>2 DEF Before
  <2>4. CASE j <= i
    <3>1. SortKey(f)[j] < SortKey(h)[j]
      <4>1. /\ SortKey(f)[j] \in Nat /\ SortKey(g)[j] \in Nat /\ SortKey(h)[j] \in Nat
        BY KeyType
      <4>2. SortKey(f)[j] < SortKey(g)[j] \/ SortKey(f)[j] = SortKey(g)[j]
        BY <2>1, <2>4
      <4> QED  BY <2>2, <4>1, <4>2
    <3>2. \A k \in 1..(j - 1) : SortKey(f)[k] = SortKey(h)[k]
      BY <2>1, <2>2, <2>4
    <3> QED  BY <3>1, <3>2 DEF Before
  <2> QED  BY <2>3, <2>4
<1> QED  BY <1>1, <1>2, <1>3

(* A finding's place in a sorted list is one more than the number of       *)
(* findings that come before it.                                           *)
LEMMA PlaceInList ==
    ASSUME NEW S \in SUBSET Findings, NEW s, Lists(s, S), NEW i \in DOMAIN s
    PROVE  Cardinality({f \in S : Before(f, s[i])}) = i - 1
<1> DEFINE earlier == {f \in S : Before(f, s[i])}
<1> DEFINE upTo == [j \in 1..(i - 1) |-> s[j]]
<1>1. /\ s \in Seq(S) /\ DOMAIN s = 1..Len(s) /\ Len(s) \in Nat /\ i \in 1..Len(s)
      /\ \A j \in DOMAIN s : s[j] \in S /\ s[j] \in Findings
  BY DEF Lists
<1>2. \A j \in DOMAIN s : Before(s[j], s[i]) => j < i
  <2> SUFFICES ASSUME NEW j \in DOMAIN s, Before(s[j], s[i]), ~(j < i)
               PROVE  FALSE
    OBVIOUS
  <2>1. CASE j = i
    BY <1>1, <2>1, OrderIsTotal
  <2>2. CASE i < j
    BY <1>1, <2>2, OrderIsTotal DEF Lists
  <2> QED  BY <1>1, <2>1, <2>2
<1>3. upTo \in Bijection(1..(i - 1), earlier)
  <2>1. \A j \in 1..(i - 1) : s[j] \in earlier
    BY <1>1 DEF Lists
  <2>2. \A j, k \in 1..(i - 1) : s[j] = s[k] => j = k
    <3> SUFFICES ASSUME NEW j \in 1..(i - 1), NEW k \in 1..(i - 1), j < k, s[j] = s[k]
                 PROVE  FALSE
      BY <1>1
    <3> QED  BY <1>1, OrderIsTotal DEF Lists
  <2>3. \A f \in earlier : \E j \in 1..(i - 1) : s[j] = f
    BY <1>1, <1>2 DEF Lists
  <2> QED  BY <2>1, <2>2, <2>3 DEF Bijection, Injection, Surjection, IsInjective
<1>4. IsFiniteSet(1..(i - 1)) /\ Cardinality(1..(i - 1)) = i - 1
  <2>1. i - 1 \in Int /\ 1 \in Int /\ i - 1 >= 0
    BY <1>1
  <2>2. /\ IsFiniteSet(1..(i - 1))
        /\ Cardinality(1..(i - 1)) = IF 1 > i - 1 THEN 0 ELSE (i - 1) - 1 + 1
    BY <2>1, FS_Interval
  <2> QED  BY <2>1, <2>2
<1> QED  BY <1>3, <1>4, FS_Bijection DEF ExistsBijection

(* finding.py:66-68, "Independent of input order": a set of findings has   *)
(* one sorted list, whatever order the probes appended them in.            *)
THEOREM OneOrderOnly ==
    ASSUME NEW S \in SUBSET Findings, NEW s, NEW t, Lists(s, S), Lists(t, S)
    PROVE  s = t
<1>1. /\ s \in Seq(S) /\ t \in Seq(S) /\ Len(s) \in Nat /\ Len(t) \in Nat
      /\ DOMAIN s = 1..Len(s) /\ DOMAIN t = 1..Len(t)
  BY DEF Lists
<1>2. \A i \in DOMAIN s : i \in DOMAIN t /\ t[i] = s[i]
  <2> TAKE i \in DOMAIN s
  <2>1. s[i] \in S
    BY <1>1
  <2>2. PICK k \in DOMAIN t : t[k] = s[i]
    BY <2>1 DEF Lists
  <2>3. Cardinality({f \in S : Before(f, s[i])}) = i - 1
    BY PlaceInList
  <2>4. Cardinality({f \in S : Before(f, t[k])}) = k - 1
    BY PlaceInList
  <2>5. i = k
    BY <1>1, <2>2, <2>3, <2>4
  <2> QED  BY <2>2, <2>5
<1>3. \A k \in DOMAIN t : k \in DOMAIN s
  <2> TAKE k \in DOMAIN t
  <2>1. t[k] \in S
    BY <1>1
  <2>2. PICK i \in DOMAIN s : s[i] = t[k]
    BY <2>1 DEF Lists
  <2>3. Cardinality({f \in S : Before(f, s[i])}) = i - 1
    BY PlaceInList
  <2>4. Cardinality({f \in S : Before(f, t[k])}) = k - 1
    BY PlaceInList
  <2>5. i = k
    BY <1>1, <2>2, <2>3, <2>4
  <2> QED  BY <2>2, <2>5
<1>4. Len(s) = Len(t)
  <2>1. Len(s) \in 1..Len(t) \/ Len(s) = 0
    BY <1>1, <1>2
  <2>2. Len(t) \in 1..Len(s) \/ Len(t) = 0
    BY <1>1, <1>3
  <2>3. ASSUME NEW m \in Nat, NEW n \in Nat, m \in 1..n \/ m = 0, n \in 1..m \/ n = 0
        PROVE  m = n
    BY <2>3
  <2>4. Len(s) \in Nat /\ Len(t) \in Nat
    BY <1>1
  <2> QED  BY <2>1, <2>2, <2>3, <2>4
<1> QED  BY <1>1, <1>2, <1>4
=============================================================================
