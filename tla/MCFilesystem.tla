----------------------------- MODULE MCFilesystem -----------------------------
(* One path of each kind to open and two to write.  Every process table,   *)
(* on an otherwise contained sandbox; and every other exposure, while      *)
(* processes come and go.                                                  *)
EXTENDS Filesystem

MCReadable == {1}
MCWritable == {2, 3}
MCListed == {4}
MCSockets == {5}
MCPids == 1..3
GoodWorld == [open |-> {}, fate |-> [p \in Places |-> IF p = Workspace THEN "fine" ELSE "denied"],
         procs |-> [p \in Pids |-> IF p = 1 THEN "own" ELSE "free"]]
MCWorlds ==
    {[GoodWorld EXCEPT !.procs = t] : t \in [Pids -> Holders]}
      \cup {[GoodWorld EXCEPT !.fate = f] : f \in [Places -> Fates]}
      \cup {[GoodWorld EXCEPT !.open = o] : o \in SUBSET (Readable \cup Listed \cup Sockets)}
=============================================================================
