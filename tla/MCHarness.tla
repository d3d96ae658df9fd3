------------------------------ MODULE MCHarness ------------------------------
(* Three probe modules, ids that may or may not clash, one name nobody     *)
(* registered.                                                             *)
(* The document prints findings in the order of FindingOrder: checked here *)
(* for every sequence of three that differ in the first, a middle or the   *)
(* last part of the key.                                                   *)
EXTENDS Harness

Order == INSTANCE FindingOrder

MCProbeIds == 1..3
MCUnknownNames == {9}

SomeFindings ==
    {[severity |-> v, probe_id |-> 1, subject |-> 1, rule_key |-> r, title |-> 1, evidence |-> e] :
        v \in {"HIGH", "LOW"}, r \in 1..2, e \in 1..2}

ASSUME SortedWhateverTheInput ==
    \A f, g, h \in SomeFindings :
        Cardinality({f, g, h}) = 3 =>
            /\ Order!Lists(Order!SortFindings(<<f, g, h>>), {f, g, h})
            /\ Order!SortFindings(<<f, g, h>>) = Order!SortFindings(<<h, f, g>>)
=============================================================================
