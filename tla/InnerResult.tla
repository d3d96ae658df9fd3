----------------------------- MODULE InnerResult -----------------------------
(***************************************************************************)
(* How a probe reads back what its payload printed inside the sandbox: the *)
(* marked line (inner.py), the shape every key must arrive in and the cap  *)
(* on lists (evidence.py).  Shared by the probes that rest on one exec:    *)
(* Network, Filesystem and Credentials.                                    *)
(*                                                                         *)
(* A line of stdout is [marked, body].  The body of a marked line is JSON  *)
(* that does not parse ("broken"), JSON that is no object ("scalar"), or   *)
(* an object: the JSON type of each key, and what reading it yields.       *)
(***************************************************************************)
EXTENDS Integers, Sequences, FiniteSets

CONSTANT ListLimit  \* LIST_LIMIT: elements of one list that get a finding each

ASSUME ListLimitAssumption == ListLimit \in Nat \ {0}

VARIABLES probe,    \* the probe run_all has asked
          stage,    \* what it, or its payload, does next
          garbled,  \* history: how the answer that was read differs from the
                    \* payload's: "no"; "lost"; "shape"; "status", an undefined one
          outcome   \* what the probe returns

exec == <<probe, stage, garbled, outcome>>

(* evidence.py: the shapes, and the JSON types json.loads can hand out.    *)
BOOL == "a boolean"
COUNT == "a non-negative whole number"
LIST == "a list"
MAPPING == "an object"
TEXT == "a string"

JsonTypes == {"null", "bool", "negative", "count", "float", "str", "list", "dict"}
Missing == "missing"

-----------------------------------------------------------------------------
(* _has_shape: a bool is no count, although Python has it subclass int.    *)
HasShape(shape, type) ==
    <<shape, type>> \in
        {<<BOOL, "bool">>, <<COUNT, "count">>, <<LIST, "list">>, <<MAPPING, "dict">>, <<TEXT, "str">>}

(* Faulty variant: only an absent key is a problem.                        *)
AbsentKeys(object, expected) == {k \in DOMAIN expected : object.types[k] = Missing}

(* shape_problem_detail: the keys that are absent or of another shape.     *)
ShapeProblems(object, expected) ==
    {k \in DOMAIN expected : ~HasShape(expected[k], object.types[k])}

(* Faulty variant: one element too few is listed.                          *)
ShownBelowLimit(S) == {i \in S : Cardinality({j \in S : j <= i}) < ListLimit}

(* bounded: of the positions S in a list, the first are listed ...         *)
Shown(S) == {i \in S : Cardinality({j \in S : j < i}) < ListLimit}

(* Faulty variant: the rest is cut without a word.                         *)
CutSilently(S) == 0

(* ... and the rest is counted.                                            *)
Dropped(S) == IF Cardinality(S) > ListLimit THEN Cardinality(S) - ListLimit ELSE 0

(* A finding: its rule and a number that tells findings of one rule apart, *)
(* such as the position in a list (0 when there is one only).  more is the *)
(* count in the summary of a capped list (overflow_finding).               *)
Finding(rule, about) == [rule |-> rule, about |-> about, more |-> 0]
Overflow(rule, n) == [rule |-> rule, about |-> 0, more |-> n]

(* An error: the check it is about, and what of it.                        *)
Error(check, about) == [check |-> check, about |-> about]

ListFindings(rule, S) ==
    {Finding(rule, i) : i \in Shown(S)}
      \cup {Overflow(rule, n) : n \in {Dropped(S)} \ {0}}

-----------------------------------------------------------------------------
(* Faulty variant: what was not read has no findings and needs no control. *)
UnreadIsAbsent(check) == [findings |-> {}, errors |-> {}, control |-> "absent"]

(* The outcomes of a run that ended before there was anything to measure.  *)
Unread(check) == [findings |-> {}, errors |-> {Error(check, 0)}, control |-> "failed"]
NoOutcome == [findings |-> {}, errors |-> {}, control |-> "none"]

Nothing == [kind |-> "nothing"]

(* parse_inner: the first marked line counts.                              *)
ParseInner(stdout) ==
    LET marked == {i \in DOMAIN stdout : stdout[i].marked}
    IN  IF marked = {} THEN Nothing
        ELSE stdout[CHOOSE i \in marked : \A j \in marked : i <= j].body

(* What becomes of the line the payload prints: it arrives whole, is cut or*)
(* replaced, or one key is missing or of another type, and would be read   *)
(* as its falsy default.                                                   *)
Whole(value, expected) ==
    [kind  |-> "object",
     types |-> [k \in DOMAIN expected |-> CHOOSE t \in JsonTypes : HasShape(expected[k], t)],
     value |-> value]

Spoilt(value, expected, falsy, k, type) ==
    [Whole(value, expected) EXCEPT !.types[k] = type, !.value[k] = falsy[k]]

Misshapen(value, expected, falsy) ==
    {Spoilt(value, expected, falsy, k, type) :
        k \in DOMAIN expected, type \in {Missing, "null"}}

Bodies(value, expected, falsy) ==
    {[kind |-> "broken"], [kind |-> "scalar"], Whole(value, expected)}
        \cup Misshapen(value, expected, falsy)

(* The wrapper of the exec may print lines of its own before it.  A payload*)
(* that did not run, ran out of time or died prints nothing (_run).        *)
Noise == [marked |-> FALSE, body |-> Nothing]
Printout(body) == <<Noise, [marked |-> TRUE, body |-> body]>>
NoPrintout == <<Noise>>

Damage(body, expected) ==
    IF body.kind # "object" THEN "lost"
    ELSE IF ShapeProblems(body, expected) # {} THEN "shape" ELSE "no"

ExecTypeOK ==
    /\ garbled \in {"no", "lost", "shape", "status"}
    /\ outcome.control \in {"none", "held", "failed", "absent"}

(* p has returned; its outcome says that all is well.                      *)
Returned(p) == probe = p /\ stage = "done"

Clean(p) == /\ Returned(p)
            /\ outcome.findings = {} /\ outcome.errors = {}
            /\ outcome.control \in {"held", "absent"}

JustAsked(p) == probe = p /\ garbled = "no" /\ outcome = NoOutcome
=============================================================================
