----------------------------- MODULE TargetConfig -----------------------------
(***************************************************************************)
(* The target config file and its validation (load_target in target.py),   *)
(* and the parser inside the network payload that has to agree with it on  *)
(* blocked_endpoint.  The two parsers are separate code on the two sides of*)
(* the sandbox boundary.                                                   *)
(*                                                                         *)
(* The text of blocked_endpoint is known by its parts: brackets, the       *)
(* separator in front of the port, what the address and the port look like.*)
(* "digitlike" is text isdigit() accepts and int() does not, such as a     *)
(* superscript.                                                            *)
(***************************************************************************)
EXTENDS Integers, Sequences

Endpoints ==
    [opens : BOOLEAN, closes : BOOLEAN, separator : BOOLEAN,
     address : {"literal", "name", "empty"},
     port : {"in range", "out of range", "word", "digitlike", "empty"}]

(* The default, 1.1.1.1:443.                                               *)
DefaultEndpoint ==
    [opens |-> FALSE, closes |-> FALSE, separator |-> TRUE, address |-> "literal",
     port |-> "in range"]

(* What a port text is to isdigit and to int.                              *)
IsDigit(port) == port \in {"in range", "out of range", "digitlike"}
IntRaises(port) == port \in {"word", "digitlike", "empty"}

-----------------------------------------------------------------------------
(* The address and port _validate_blocked_endpoint sees.                   *)
ConfigSplit(e) ==
    IF e.opens
    THEN IF e.closes THEN [address |-> e.address, port |-> IF e.separator THEN e.port ELSE "empty"]
         ELSE [address |-> "name", port |-> "empty"]
    ELSE IF e.separator THEN [address |-> e.address, port |-> e.port]
         ELSE [address |-> "empty", port |-> "empty"]

(* Faulty variant: the port is not looked at.                              *)
AddressIsEnough(e) == IF ConfigSplit(e).address = "literal" THEN "accepted" ELSE "rejected"

(* _validate_blocked_endpoint.  int() in the range check may raise what    *)
(* load_target does not turn into an error of its own.                     *)
ValidateBlockedEndpoint(e) ==
    LET split == ConfigSplit(e)
    IN  IF split.address # "literal" \/ ~IsDigit(split.port) THEN "rejected"
        ELSE IF IntRaises(split.port) THEN "traceback"
        ELSE IF split.port = "in range" THEN "accepted" ELSE "rejected"

(* parse_host_port inside the payload: the same cut, except that a value   *)
(* without a separator is all host.                                        *)
PayloadSplit(e) ==
    IF e.opens
    THEN [address |-> e.address, port |-> IF e.closes /\ e.separator THEN e.port ELSE "empty"]
    ELSE IF e.separator THEN [address |-> e.address, port |-> e.port]
         ELSE [address |-> "name", port |-> "empty"]

(* endpoint_status: int() of the port decides whether there is an attempt. *)
Attemptable(e) == ~IntRaises(PayloadSplit(e).port)

-----------------------------------------------------------------------------
(* The file as a whole.  exec is "null" when the key is there and null,    *)
(* which the loop over the command keys skips; typed says that every other *)
(* key has the type the README lists.  c2_hosts is a list of entries; an   *)
(* entry is the sequence of names between its commas.                      *)
ConfigType(c2Lists) ==
    [file : {"object"}, required : BOOLEAN, exec : {"list", "null", "other"}, typed : BOOLEAN,
     endpoint : Endpoints, c2 : c2Lists, proxy : {"none", "usable", "malformed"}]

UnusableFiles == [file : {"missing", "undecodable", "not JSON", "not an object"}]

(* load_target: accepted, TargetConfigError, or an exception of its own.   *)
LoadTarget(c) ==
    IF c.file = "undecodable" THEN "traceback"
    ELSE IF c.file # "object" \/ ~c.required \/ c.exec = "other" \/ ~c.typed THEN "rejected"
    ELSE ValidateBlockedEndpoint(c.endpoint)

(* run_inside with a command that is null raises in every probe.           *)
Runnable(c) == c.exec = "list"
=============================================================================
