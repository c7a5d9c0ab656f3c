----------------------------- MODULE FileTransfer -----------------------------
(***************************************************************************)
(* What a TFTP transfer promises, whichever side sends: the receiver only   *)
(* ever holds a prefix of the file, grown chunk by chunk in order; the      *)
(* transfer ends once, and it ends well only when the receiver has the      *)
(* whole file.  One that is refused at once has ended when it starts.       *)
(***************************************************************************)
EXTENDS Naturals, Sequences

VARIABLES total, received, ended
vars == <<total, received, ended>>

Init == total \in Nat \ {0} /\ received = <<>> /\ ended \in {"no", "failed"}

Receive ==
    /\ Len(received) < total
    /\ received' = Append(received, Len(received) + 1)

End ==
    /\ ended = "no"
    /\ ended' \in {"ok", "failed"}
    /\ ended' = "ok" => Len(received') = total

Step ==
    /\ Receive \/ UNCHANGED received
    /\ End \/ UNCHANGED ended
    /\ UNCHANGED total

Spec == Init /\ [][Step]_vars
=============================================================================
