------------------------------ MODULE LogWindow ------------------------------
(***************************************************************************)
(* How the attribution and the detection probe use an append-only log of   *)
(* the broker: the lines are counted before the probe's crossings and only *)
(* those after that count are its window.  A line that does not parse      *)
(* counts as a line and is no entry.                                       *)
(*                                                                         *)
(* src is history: who caused the line.  No probe can see it.              *)
(***************************************************************************)
EXTENDS Integers, Sequences, FiniteSets

CONSTANTS AllowedHost, BlockedHost, OtherHost

ASSUME HostsDistinct ==
    AllowedHost # BlockedHost /\ AllowedHost # OtherHost /\ BlockedHost # OtherHost

(* The hosts a probe crosses to, in this order.                            *)
ProbeHosts == <<AllowedHost, BlockedHost>>
Hosts == {AllowedHost, BlockedHost}

Sources == {"earlier", "own", "other"}

(* What a read shows of a line: an object with the host and the value the  *)
(* probe asks for, or a line that is nothing to it (unparsable, or of no   *)
(* host it asks for).                                                      *)
Lines(values, sources) ==
    [host : Hosts, value : values, src : sources]
    \cup [host : {OtherHost}, value : {"none"}, src : sources]

(* Sequences of at most n lines.                                           *)
LogsUpTo(n, lines) == UNION {[1..m -> lines] : m \in 0..n}

(* Faulty variant: the whole log is compared.                              *)
WholeLog(log, before) == log

Window(log, before) == SubSeq(log, before + 1, Len(log))

IsEntry(line) == line.host \in Hosts

Entries(window) == {window[i] : i \in {j \in DOMAIN window : IsEntry(window[j])}}

(* Faulty variants: lines are parsed before they are counted; the position *)
(* of the last line, counted from zero, is taken for their number.         *)
CountEntries(log) == Cardinality({i \in DOMAIN log : IsEntry(log[i])})

CountFromZero(log) == Len(log) - 1

Count(log) == Len(log)

Shrank(log, before) == Len(log) < before

(* A rotation or truncation leaves a proper suffix of the log.             *)
Rotations(log) == {SubSeq(log, i, Len(log)) : i \in 2..Len(log) + 1}
=============================================================================
