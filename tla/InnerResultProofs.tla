--------------------------- MODULE InnerResultProofs ---------------------------
(***************************************************************************)
(* What the probes that rest on one exec need of the protocol: a line that *)
(* arrives is the one that was printed, a damaged result is noticed        *)
(* whatever its keys are, and a capped list is silent only if it is empty. *)
(***************************************************************************)
EXTENDS InnerResult, FiniteSetTheorems, FunctionTheorems, WellFoundedInduction, TLAPS

(* Only the payload's own line is marked.                                  *)
LEMMA ParsePrintout == \A body : ParseInner(Printout(body)) = body
<1> TAKE body
<1> DEFINE out == Printout(body)
<1> DEFINE marked == {i \in DOMAIN out : out[i].marked}
<1>1. /\ DOMAIN out = {1, 2}
      /\ ~out[1].marked /\ out[2].marked /\ out[2].body = body
  BY DEF Printout, Noise
<1>2. marked = {2}
  BY <1>1
<1>3. (CHOOSE i \in marked : \A j \in marked : i <= j) = 2
  <2> HIDE DEF marked
  <2> QED  BY <1>2
<1>4. ParseInner(out) = out[CHOOSE i \in marked : \A j \in marked : i <= j].body
  BY <1>2 DEF ParseInner
<1> QED  BY <1>1, <1>3, <1>4

(* A call that printed nothing parses as no result.                       *)
LEMMA ParseNothing == ParseInner(NoPrintout) = Nothing
<1>1. DOMAIN NoPrintout = {1} /\ ~NoPrintout[1].marked
  BY DEF NoPrintout, Noise
<1>2. {i \in DOMAIN NoPrintout : NoPrintout[i].marked} = {}
  BY <1>1
<1> QED  BY <1>2 DEF ParseInner

(* A key that is missing or null is a problem, whatever shape it should    *)
(* have; so what was read without one is what the payload had.             *)
LEMMA MisshapenIsNoticed ==
    ASSUME NEW value, NEW expected, NEW falsy, NEW body \in Bodies(value, expected, falsy),
           body.kind = "object", ShapeProblems(body, expected) = {}
    PROVE  body = Whole(value, expected)
<1>1. ASSUME NEW k \in DOMAIN expected, NEW t \in {Missing, "null"},
             body = Spoilt(value, expected, falsy, k, t)
      PROVE  FALSE
  <2>1. body.types[k] = t
    BY <1>1 DEF Spoilt, Whole
  <2>2. ~HasShape(expected[k], t)
    BY DEF HasShape, Missing
  <2> QED  BY <2>1, <2>2 DEF ShapeProblems
<1>2. body \notin Misshapen(value, expected, falsy)
  BY <1>1 DEF Misshapen
<1> QED  BY <1>2 DEF Bodies

-----------------------------------------------------------------------------
(* A set of naturals that is not empty has a least member.                 *)
LEMMA LeastMember ==
    ASSUME NEW S \in SUBSET Nat, S # {}
    PROVE  \E m \in S : \A i \in S : m <= i
<1> DEFINE segments == {0..i : i \in S}
<1>1. \A i \in Nat : IsFiniteSet(0..i)
  BY FS_Interval
<1>2. segments \subseteq FiniteSubsetsOf(Nat) /\ segments # {}
  <2>1. \A i \in S : 0..i \in FiniteSubsetsOf(Nat)
    <3> TAKE i \in S
    <3>1. i \in Nat /\ 0..i \in SUBSET Nat
      OBVIOUS
    <3> QED  BY <1>1, <3>1 DEF FiniteSubsetsOf
  <2> QED  BY <2>1
<1>3. IsWellFoundedOn(StrictSubsetOrdering(Nat), FiniteSubsetsOf(Nat))
  BY FS_StrictSubsetOrderingWellFounded
<1>4. PICK T \in segments : \A U \in segments : <<U, T>> \notin StrictSubsetOrdering(Nat)
  <2> HIDE DEF segments
  <2> QED  BY <1>2, <1>3, WFMin
<1>5. PICK m \in S : T = 0..m
  OBVIOUS
<1>6. ASSUME NEW i \in S, i < m
      PROVE  FALSE
  <2>1. 0..i \in segments
    OBVIOUS
  <2>2. 0..i \subseteq 0..m /\ 0..i # 0..m
    <3>1. m \in 0..m /\ m \notin 0..i
      BY <1>6
    <3> QED  BY <1>6, <3>1
  <2>3. 0..i \in SUBSET Nat /\ 0..m \in SUBSET Nat
    OBVIOUS
  <2>4. <<0..i, T>> \in StrictSubsetOrdering(Nat)
    BY <1>5, <2>2, <2>3 DEF StrictSubsetOrdering
  <2> QED  BY <1>4, <2>1, <2>4
<1> QED  BY <1>6

(* The members of a finite set with fewer than n smaller ones: if any is   *)
(* left out, exactly n are not.                                            *)
LEMMA LowestCardinality ==
    ASSUME NEW S \in SUBSET Nat, IsFiniteSet(S), NEW n \in Nat \ {0}, NEW low,
           low = {i \in S : Cardinality({j \in S : j < i}) < n}
    PROVE  /\ low \subseteq S /\ IsFiniteSet(low) /\ Cardinality(low) <= n
           /\ low # S => Cardinality(low) = n
<1> DEFINE below(i) == {j \in S : j < i}
<1> DEFINE rank == [i \in low |-> Cardinality(below(i))]
<1>1. \A i \in S : IsFiniteSet(below(i)) /\ Cardinality(below(i)) \in Nat
  BY FS_Subset, FS_CardinalityType
<1>2. \A i, j \in S : i < j => Cardinality(below(i)) < Cardinality(below(j))
  <2> SUFFICES ASSUME NEW i \in S, NEW j \in S, i < j
               PROVE  Cardinality(below(i)) < Cardinality(below(j))
    OBVIOUS
  <2>1. below(i) \in SUBSET below(j) /\ i \in below(j) /\ i \notin below(i)
    <3>1. i \in Nat /\ j \in Nat /\ \A k \in S : k \in Nat
      OBVIOUS
    <3>2. \A k \in S : k < i => k < j
      BY <3>1
    <3>3. ~(i < i)
      BY <3>1
    <3>4. \A k \in below(i) : k \in below(j)
      BY <3>2
    <3> QED  BY <3>3, <3>4
  <2>2. /\ Cardinality(below(i)) <= Cardinality(below(j))
        /\ Cardinality(below(i)) = Cardinality(below(j)) => below(i) = below(j)
    <3> HIDE DEF below
    <3> QED  BY <1>1, <2>1, FS_Subset
  <2>3. Cardinality(below(i)) # Cardinality(below(j))
    BY <2>1, <2>2
  <2> HIDE DEF below
  <2> QED  BY <1>1, <2>2, <2>3
<1>3. low \subseteq S /\ IsFiniteSet(low) /\ Cardinality(low) \in Nat
  <2>1. low \in SUBSET S
    OBVIOUS
  <2> QED  BY <2>1, FS_Subset, FS_CardinalityType
<1>4. rank \in Injection(low, 0..(n - 1))
  <2>1. \A i \in low : Cardinality(below(i)) \in 0..(n - 1)
    <3> TAKE i \in low
    <3>1. i \in S /\ Cardinality(below(i)) < n
      OBVIOUS
    <3> HIDE DEF below
    <3> QED  BY <1>1, <3>1
  <2>2. \A i, j \in low : Cardinality(below(i)) = Cardinality(below(j)) => i = j
    <3> TAKE i, j \in low
    <3>1. i \in S /\ j \in S /\ i \in Nat /\ j \in Nat
      BY <1>3
    <3>2. i < j \/ j < i \/ i = j
      BY <3>1
    <3> HIDE DEF below
    <3> QED  BY <1>1, <1>2, <3>1, <3>2
  <2> HIDE DEF below
  <2> QED  BY <2>1, <2>2 DEF Injection, IsInjective
<1>5. IsFiniteSet(0..(n - 1)) /\ Cardinality(0..(n - 1)) = n
  <2>1. /\ IsFiniteSet(0..(n - 1))
        /\ Cardinality(0..(n - 1)) =
              IF 0 > n - 1 THEN 0 ELSE (n - 1) - 0 + 1
    BY FS_Interval
  <2> QED  BY <2>1
<1>6. Cardinality(low) <= n
  <2> HIDE DEF rank
  <2> QED  BY <1>4, <1>5, FS_Injection
<1>7. ASSUME low # S
      PROVE  Cardinality(low) = n
  <2>1. S \ low \in SUBSET Nat /\ S \ low # {}
    BY <1>3, <1>7
  <2>2. PICK m \in S \ low : \A i \in S \ low : m <= i
    BY <2>1, LeastMember
  <2>3. Cardinality(below(m)) >= n
    <3>1. m \in S /\ ~(Cardinality(below(m)) < n)
      BY <2>2
    <3> HIDE DEF below
    <3> QED  BY <1>1, <3>1
  <2>4. below(m) \in SUBSET low
    BY <2>1, <2>2
  <2>5. Cardinality(below(m)) <= Cardinality(low)
    <3> HIDE DEF below
    <3> QED  BY <1>3, <2>4, FS_Subset
  <2>6. Cardinality(below(m)) \in Nat
    BY <1>1, <2>2
  <2> HIDE DEF below
  <2> QED  BY <1>3, <1>6, <2>3, <2>5, <2>6
<1> QED  BY <1>3, <1>6, <1>7

(* bounded: what is listed of a finite set is all of it, or ListLimit.     *)
LEMMA ShownCardinality ==
    ASSUME NEW S \in SUBSET Nat, IsFiniteSet(S)
    PROVE  /\ Shown(S) \subseteq S /\ IsFiniteSet(Shown(S))
           /\ Cardinality(Shown(S)) <= ListLimit
           /\ Shown(S) # S => Cardinality(Shown(S)) = ListLimit
<1>1. Shown(S) = {i \in S : Cardinality({j \in S : j < i}) < ListLimit}
  BY DEF Shown
<1>2. ListLimit \in Nat \ {0}
  BY ListLimitAssumption
<1> HIDE DEF Shown
<1> QED  BY <1>1, <1>2, LowestCardinality

-----------------------------------------------------------------------------
(* A capped list adds up: what is listed belongs to it, and if that is not *)
(* all, the one other finding holds the number of those left out.          *)
LEMMA ListAddsUp ==
    ASSUME NEW S \in SUBSET Nat, IsFiniteSet(S), NEW rule, NEW F, F = ListFindings(rule, S)
    PROVE  /\ {f.about : f \in {g \in F : g.more = 0}} = Shown(S)
           /\ {f.about : f \in F} \ {0} = Shown(S) \ {0}
           /\ Shown(S) \subseteq S
           /\ {f.more : f \in F} \ {0} =
                  IF Shown(S) = S THEN {} ELSE {Cardinality(S \ Shown(S))}
<1> USE ListLimitAssumption
<1>1. /\ Shown(S) \subseteq S /\ IsFiniteSet(Shown(S)) /\ Cardinality(Shown(S)) <= ListLimit
      /\ Shown(S) # S => Cardinality(Shown(S)) = ListLimit
  BY ShownCardinality
<1>2. Cardinality(S) \in Nat /\ Cardinality(Shown(S)) \in Nat
  BY <1>1, FS_CardinalityType
<1>3. CASE Shown(S) = S
  <2>1. Dropped(S) = 0
    BY <1>1, <1>2, <1>3 DEF Dropped
  <2>2. F = {Finding(rule, i) : i \in Shown(S)}
    BY <2>1 DEF ListFindings
  <2>3. \A i \in Shown(S) : Finding(rule, i).about = i /\ Finding(rule, i).more = 0
    BY DEF Finding
  <2>4. \A f \in F : f.more = 0 /\ f.about \in Shown(S)
    BY <2>2, <2>3
  <2>5. \A i \in Shown(S) : \E f \in F : f.more = 0 /\ f.about = i
    BY <2>2, <2>3
  <2> QED  BY <1>3, <2>4, <2>5
<1>4. CASE Shown(S) # S
  <2> DEFINE left == Cardinality(S \ Shown(S))
  <2>1. /\ Cardinality(S \ Shown(S)) = Cardinality(S) - Cardinality(S \cap Shown(S))
        /\ IsFiniteSet(S \ Shown(S))
    BY FS_Difference
  <2>2. S \cap Shown(S) = Shown(S) /\ S \ Shown(S) # {}
    BY <1>1, <1>4
  <2>3. left = Cardinality(S) - ListLimit
    BY <1>1, <1>4, <2>1, <2>2
  <2>4. left \in Nat /\ left # 0
    BY <2>1, <2>2, FS_CardinalityType, FS_EmptySet
  <2>5. Dropped(S) = left
    <3> HIDE DEF left
    <3> QED  BY <1>2, <2>3, <2>4 DEF Dropped
  <2> HIDE DEF left
  <2>6. F = {Finding(rule, i) : i \in Shown(S)} \cup {Overflow(rule, left)}
    BY <2>4, <2>5 DEF ListFindings
  <2>7. /\ \A i \in Shown(S) : Finding(rule, i).about = i /\ Finding(rule, i).more = 0
        /\ Overflow(rule, left).about = 0 /\ Overflow(rule, left).more = left
    BY DEF Finding, Overflow
  <2>8. \A f \in F : (f.more = 0 /\ f.about \in Shown(S)) \/ (f.more = left /\ f.about = 0)
    <3> TAKE f \in F
    <3>1. CASE f = Overflow(rule, left)
      BY <2>7, <3>1
    <3>2. CASE f \in {Finding(rule, i) : i \in Shown(S)}
      <4>1. PICK i \in Shown(S) : f = Finding(rule, i)
        BY <3>2
      <4> QED  BY <2>7, <4>1
    <3> QED  BY <2>6, <3>1, <3>2
  <2>9. /\ \A i \in Shown(S) : \E f \in F : f.more = 0 /\ f.about = i
        /\ \E f \in F : f.more = left
    <3>1. \A i \in Shown(S) : Finding(rule, i) \in F
      BY <2>6
    <3>2. Overflow(rule, left) \in F
      BY <2>6
    <3> QED  BY <2>7, <3>1, <3>2
  <2>10. {f.about : f \in {g \in F : g.more = 0}} = Shown(S)
    BY <2>4, <2>8, <2>9
  <2>11. {f.about : f \in F} \ {0} = Shown(S) \ {0}
    BY <2>8, <2>9
  <2>12. {f.more : f \in F} \ {0} = {left}
    BY <2>4, <2>8, <2>9
  <2> QED  BY <1>1, <1>4, <2>10, <2>11, <2>12 DEF left
<1> QED  BY <1>3, <1>4
=============================================================================
