----------------------------- MODULE FindingOrder -----------------------------
(***************************************************************************)
(* The order in which findings are printed (finding.py).  Every other      *)
(* module holds findings in a set; this one says why nothing is lost by    *)
(* that: the printed list is a function of the set.                        *)
(*                                                                         *)
(* A text is a number, its place in the order of texts.                    *)
(***************************************************************************)
EXTENDS Integers, Sequences, TLC

Severities == {"HIGH", "MEDIUM", "LOW"}

Findings ==
    [severity : Severities, probe_id : Nat, subject : Nat, rule_key : Nat, title : Nat,
     evidence : Nat]

Rank(severity) == CASE severity = "HIGH" -> 0 [] severity = "MEDIUM" -> 1 [] severity = "LOW" -> 2

SortKey(f) == <<Rank(f.severity), f.probe_id, f.subject, f.rule_key, f.title, f.evidence>>

(* Python's order of tuples: the first difference decides.                 *)
Before(f, g) ==
    \E i \in 1..6 :
        /\ SortKey(f)[i] < SortKey(g)[i]
        /\ \A j \in 1..(i - 1) : SortKey(f)[j] = SortKey(g)[j]

SortFindings(findings) == SortSeq(findings, Before)

-----------------------------------------------------------------------------
(* s lists the findings of S, each once, worst first.                      *)
Lists(s, S) ==
    /\ s \in Seq(S)
    /\ \A f \in S : \E i \in DOMAIN s : s[i] = f
    /\ \A i, j \in DOMAIN s : i < j => Before(s[i], s[j])
=============================================================================
