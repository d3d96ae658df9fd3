---------------------------- MODULE MCAttribution ----------------------------
(* Up to two lines of earlier runs, and other clients that stop when the   *)
(* log has three lines.                                                    *)
EXTENDS Attribution
=============================================================================
