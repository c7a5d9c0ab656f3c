---------------------------- MODULE HeaderCoding ----------------------------
(***************************************************************************)
(* The two header codings, each on a connection of its own: HPACK, and      *)
(* QPACK within an HTTP/3 exchange.                                         *)
(***************************************************************************)
EXTENDS Hpack, Http3

VARIABLE protocol  \* which of the two connections this behaviour is about

InitCoding ==
    /\ Init /\ Init3
    /\ protocol \in {"h2", "h3"}
    /\ protocol = "h3" => side = "request"

NextCoding ==
    /\ \/ protocol = "h2" /\ Next /\ UNCHANGED h3vars
       \/ protocol = "h3" /\ Next3 /\ UNCHANGED vars
    /\ UNCHANGED protocol

SpecCoding == InitCoding /\ [][NextCoding]_<<vars, h3vars, protocol>>
=============================================================================
