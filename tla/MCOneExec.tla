------------------------------ MODULE MCOneExec ------------------------------
(* Environments of up to three variables, so that there are more secrets   *)
(* than ListLimit; the worlds of MCFilesystem; the configs of MCNetwork.   *)
EXTENDS OneExec, MCFilesystem, MCNetwork

Plainly == [reserved |-> FALSE, suggestive |-> FALSE, prefixed |-> FALSE, long |-> FALSE,
            entropic |-> FALSE]
Key == [Plainly EXCEPT !.prefixed = TRUE]
Token == [Plainly EXCEPT !.suggestive = TRUE, !.long = TRUE, !.entropic = TRUE]
MCVariables ==
    {Plainly, Key, Token, [Key EXCEPT !.reserved = TRUE], [Token EXCEPT !.suggestive = FALSE]}
MCEnvironments == UNION {[1..n -> MCVariables] : n \in 0..3}
MCCredentialPaths == {1, 2}
=============================================================================
