-------------------------------- MODULE Tftp --------------------------------
(***************************************************************************)
(* What the two TFTP transfers of src/tftp.rs share: the packets, the block *)
(* numbers, and the network between the client and the server.             *)
(*                                                                         *)
(* The file is its chunks 1..total of BlockSize bytes; chunk `total` is the *)
(* short one.  `net` holds the datagrams in flight.  With Persist a         *)
(* datagram stays there when it is received, which covers loss (never       *)
(* received), delay, reordering and any number of duplicates; without it is *)
(* consumed, and losses are actions of their own.                          *)
(***************************************************************************)
EXTENDS Naturals, Sequences, FiniteSets

CONSTANTS
    MaxBlock,      \* u16::MAX
    MaxRetries,    \* MAX_RETRIES
    MaxTotalBytes, \* MAX_TOTAL_BYTES
    BlockSize,     \* BLOCK_SIZE
    LastSize,      \* bytes in the short last chunk
    Files,         \* lengths in chunks of the files transferred
    Tids,          \* the ports the server may pick for a session
    Stranger,      \* a socket on another host
    Persist,       \* see above
    Timely,        \* the receive timeout only expires when nothing is in flight
    MaxLosses      \* datagrams the network loses, when not Persist

ASSUME TftpAssumption ==
    /\ MaxBlock \in Nat \ {0} /\ MaxRetries \in Nat /\ MaxTotalBytes \in Nat
    /\ BlockSize \in Nat \ {0} /\ LastSize \in 0..(BlockSize - 1)
    /\ Files \subseteq Nat \ {0}
    /\ Stranger \notin Tids /\ IsFiniteSet(Tids)
    /\ Persist \in BOOLEAN /\ Timely \in BOOLEAN /\ MaxLosses \in Nat

Client == "client"
Port69 == "port69"
ASSUME SocketAssumption == {Client, Port69} \cap (Tids \cup {Stranger}) = {}
NoPeer == "none"    \* peer = None
ASSUME PeerAssumption == NoPeer \notin Tids \cup {Stranger, Client, Port69}
NoBlock == MaxBlock + 1   \* checked_add returned None

\* u16 wrapping_add(1), and how the server numbers its blocks.
WrappingNext(b) == IF b = MaxBlock THEN 0 ELSE b + 1

\* Mutant: block numbers wrap around instead of ending the transfer.
MutWrappingNext(b) == WrappingNext(b)

\* u16 checked_add(1)
CheckedNext(b) == IF b = MaxBlock THEN NoBlock ELSE b + 1

Request == [op |-> "REQ", src |-> Client, dst |-> Port69]
Data(src, dst, block, chunk) ==
    [op |-> "DATA", src |-> src, dst |-> dst, block |-> block, chunk |-> chunk]
Ack(src, dst, block) == [op |-> "ACK", src |-> src, dst |-> dst, block |-> block]
\* An ERROR packet; a packet that is too short or has an opcode the transfer
\* does not expect ends it in the same way.
ErrorTo(src) == [op |-> "ERROR", src |-> src, dst |-> Client]

Outcomes == {"running", "ok", "timeout", "wrapped", "toolarge", "error", "io"}

\* Mutant: a packet is taken from any port of the server.
MutAnyPort(peer, src) == src \in Tids

\* The source check: the latched TID, or any port of the server's host before.
FromPeer(peer, src) == IF peer = NoPeer THEN src \in Tids ELSE src = peer

\* Mutant: one resend too many.
MutOneMoreRetry(retries) == retries <= MaxRetries

MayRetry(retries) == retries < MaxRetries

\* Mutant: the count of resends is never increased.
MutSameRetries(retries) == retries

RetriesAfter(retries) == retries + 1

\* Mutant: the timeout is counted but nothing is sent.
MutResendNothing(net, packet) == net

Resend(net, packet) == net \cup {packet}

Received(net, m) == IF Persist THEN net ELSE net \ {m}
=============================================================================
