--------------------------- MODULE TftpStoreProofs ---------------------------
(***************************************************************************)
(* TLAPS proof that tftp::store implements FileTransfer for every upload,   *)
(* block-number width, retry budget and number of server sessions, over a   *)
(* network that loses, duplicates, delays and reorders.                    *)
(***************************************************************************)
EXTENDS TftpStore, TLAPS

\* A datagram m in flight when n chunks were sent to p and the sessions are ss: chunks
\* go to the latched session under their own number, and a session acknowledges what
\* it wrote.
NetOK(m, n, p, ss) ==
    /\ m.op \in {"REQ", "DATA", "ACK", "ERROR"}
    /\ m.op = "DATA" => m.dst = p /\ m.chunk \in 1..n /\ m.block = m.chunk
    /\ m.op = "ACK" /\ m.src # Stranger => m.src \in Tids /\ m.block \in 0..ss[m.src].blk

\* Session t counts the chunks it wrote; only the latched one wrote any.
SessionOK(t, s, n, p) ==
    /\ Len(s.got) = s.blk /\ s.blk <= n
    /\ t # p => s.blk = 0

StoreInv ==
    /\ TypeOK
    /\ block = offset /\ (sentFinal <=> offset = total)
    /\ peer = NoPeer => offset = 0
    /\ \A t \in Tids : SessionOK(t, srv[t], offset, peer)
    /\ \A m \in net : NetOK(m, offset, peer, srv)
    /\ NetOK(lastPacket, offset, peer, srv)

\* What the invariant says about the numbers in it.
LEMMA Numbers ==
    ASSUME StoreInv
    PROVE  /\ offset \in Nat /\ total \in Nat \ {0} /\ offset <= total /\ MaxBlock \in Nat
           /\ offset <= MaxBlock /\ \A t \in Tids : srv[t].blk \in Nat /\ srv[t].got \in Seq(Nat)
  BY TftpAssumption DEF StoreInv, TypeOK

\* An accepted datagram comes from a session.
LEMMA AcceptedFrom ==
    ASSUME TypeOK, NEW src, FromPeer(peer, src) PROVE src \in Tids /\ src # Stranger
  BY TftpAssumption DEF TypeOK, FromPeer

\* The session that the client hears of as latched wrote what it acknowledges.
LEMMA AcknowledgedIsWritten ==
    ASSUME StoreInv, NEW m \in net, FromPeer(peer, m.src), Acknowledges(m)
    PROVE  m.src \in Tids /\ srv[m.src].blk = offset /\ Len(srv[m.src].got) = offset
  <1>1. m.src \in Tids /\ m.src # Stranger
    BY AcceptedFrom DEF StoreInv
  <1>2. offset \in 0..srv[m.src].blk
    BY <1>1 DEF Acknowledges, StoreInv, NetOK
  <1>3. SessionOK(m.src, srv[m.src], offset, peer)
    BY <1>1 DEF StoreInv
  <1> QED BY <1>1, <1>2, <1>3, Numbers DEF SessionOK

\* What holds of a datagram still holds when the client and the sessions advance, and
\* when the first session is latched.
LEMMA Advancing ==
    ASSUME NEW n \in Nat, NEW n1 \in Nat, n <= n1, NEW p, NEW p1, p1 = p \/ n = 0,
           NEW ss, NEW ss1, \A t \in Tids : ss[t].blk \in Nat /\ ss1[t].blk \in Nat /\ ss[t].blk <= ss1[t].blk,
           NEW m, NetOK(m, n, p, ss)
    PROVE  NetOK(m, n1, p1, ss1)
  <1>1. m.op = "DATA" => m.dst = p1 /\ m.chunk \in 1..n1 /\ m.block = m.chunk
    BY DEF NetOK
  <1>2. m.op = "ACK" /\ m.src # Stranger => m.src \in Tids /\ m.block \in 0..ss1[m.src].blk
    BY DEF NetOK
  <1> QED BY <1>1, <1>2 DEF NetOK

\* The invariant holds when store has sent its request, or refused the upload.
LEMMA InitInv == Init => StoreInv
  <1> SUFFICES ASSUME Init PROVE StoreInv
    OBVIOUS
  <1>1. TypeOK /\ total \in Nat \ {0} /\ offset = 0
    <2>1. total \in Files /\ total \in Nat \ {0} /\ offset = 0 /\ block = 0 /\ peer = NoPeer /\ sentFinal = FALSE
      BY TftpAssumption DEF Init
    <2>2. block \in 0..MaxBlock /\ offset \in 0..total /\ retries \in 0..MaxRetries
      BY <2>1, TftpAssumption DEF Init
    <2>3. result \in Outcomes
      BY DEF Init, Outcomes
    <2>4. srv \in [Tids -> [open : BOOLEAN, got : Seq(Nat), blk : 0..MaxBlock]]
      BY TftpAssumption DEF Init
    <2> QED BY <2>1, <2>2, <2>3, <2>4 DEF TypeOK
  <1>2. \A t \in Tids : SessionOK(t, srv[t], offset, peer)
    BY <1>1 DEF Init, SessionOK
  <1>3. \A m \in {Request} \cup Strays : NetOK(m, offset, peer, srv)
    BY DEF NetOK, Request, Strays, Ack, ErrorTo
  <1>4. net \subseteq {Request} \cup Strays /\ lastPacket = Request /\ block = offset /\ sentFinal = FALSE
    BY DEF Init
  <1>5. (sentFinal <=> offset = total) /\ (peer = NoPeer => offset = 0)
    BY <1>1, <1>4
  <1> QED BY <1>1, <1>2, <1>3, <1>4, <1>5 DEF StoreInv

\* The client, the sessions and the upload stay: only the network may change.
LEMMA OnlyNetwork ==
    ASSUME StoreInv, UNCHANGED <<total, peer, block, offset, sentFinal, lastPacket, srv>>,
           retries' \in 0..MaxRetries, result' \in Outcomes,
           \A m \in net' : m \in net \/ NetOK(m, offset, peer, srv)
    PROVE  StoreInv'
  <1>1. TypeOK'
    BY DEF StoreInv, TypeOK
  <1> QED BY <1>1 DEF StoreInv

\* Once a session is latched it stays so; the first one has written nothing.
LEMMA Latching ==
    ASSUME StoreInv, NEW src \in Tids, FromPeer(peer, src), NEW n \in Nat, offset <= n
    PROVE  /\ \A t \in Tids : SessionOK(t, srv[t], n, src)
           /\ \A x : NetOK(x, offset, peer, srv) => NetOK(x, n, src, srv)
  <1>1. offset \in Nat /\ (src = peer \/ (offset = 0 /\ peer = NoPeer))
    BY Numbers DEF StoreInv, FromPeer
  <1>2. ASSUME NEW t \in Tids PROVE SessionOK(t, srv[t], n, src)
    <2>1. SessionOK(t, srv[t], offset, peer) /\ srv[t].blk \in Nat
      BY Numbers DEF StoreInv
    <2>2. srv[t].blk <= n
      BY <1>1, <2>1 DEF SessionOK
    <2>3. t # src => srv[t].blk = 0
      BY <1>1, <2>1 DEF SessionOK
    <2> QED BY <2>1, <2>2, <2>3 DEF SessionOK
  <1>3. ASSUME NEW x, NetOK(x, offset, peer, srv) PROVE NetOK(x, n, src, srv)
    <2>1. \A t \in Tids : srv[t].blk \in Nat /\ srv[t].blk <= srv[t].blk
      BY Numbers
    <2>2. offset \in Nat /\ offset <= n /\ (src = peer \/ offset = 0)
      BY <1>1
    <2> QED BY ONLY <2>1, <2>2, n \in Nat, NetOK(x, offset, peer, srv), Advancing
  <1> QED BY <1>2, <1>3

\* The awaited acknowledgement keeps the invariant, whatever store then does.
LEMMA AdvanceInv ==
    ASSUME StoreInv, result = "running", NEW m \in net, Advance(m), UNCHANGED <<total, srv, losses>>
    PROVE  StoreInv'
  <1> DEFINE src == m.src
  <1>1. FromPeer(peer, src) /\ Acknowledges(m) /\ src \in Tids /\ peer' = src
    BY AcknowledgedIsWritten DEF Advance
  <1>2. /\ offset \in Nat /\ total \in Nat \ {0} /\ offset <= total /\ MaxBlock \in Nat /\ offset <= MaxBlock
        /\ block = offset /\ retries \in 0..MaxRetries /\ 0 \in 0..MaxRetries
        /\ sentFinal <=> offset = total
    BY Numbers, TftpAssumption DEF StoreInv, TypeOK
  <1>3. CASE sentFinal \/ CheckedNext(block) = NoBlock
    <2>1. /\ result' \in Outcomes /\ net' \subseteq net
          /\ UNCHANGED <<total, srv, block, offset, sentFinal, lastPacket, retries>>
      BY <1>3 DEF Advance, Received, Outcomes
    <2>2. TypeOK'
      BY <1>1, <2>1 DEF StoreInv, TypeOK
    <2>3. /\ \A t \in Tids : SessionOK(t, srv[t], offset, src)
          /\ \A x : NetOK(x, offset, peer, srv) => NetOK(x, offset, src, srv)
      BY <1>1, <1>2, Latching
    <2>4. src # NoPeer
      BY <1>1, PeerAssumption
    <2> QED BY <1>1, <2>1, <2>2, <2>3, <2>4 DEF StoreInv
  <1>4. CASE ~sentFinal /\ CheckedNext(block) # NoBlock
    <2> DEFINE n == offset + 1
    <2> DEFINE dgram == Data(Client, src, n, n)
    <2>1. n <= MaxBlock /\ n <= total /\ CheckedNext(block) = n
      BY <1>2, <1>4 DEF CheckedNext, NoBlock
    <2>2. /\ net' \subseteq net \cup {dgram} /\ block' = n /\ offset' = n
          /\ sentFinal' = (Size(n) < BlockSize) /\ lastPacket' = dgram /\ retries' = 0 /\ UNCHANGED <<result, total, srv>>
      <3>1. (IF block = 0 THEN 1 ELSE offset + 1) = n
        BY <1>2
      <3> QED BY <1>4, <2>1, <3>1 DEF Advance, Received
    <2>3. sentFinal' = (n = total)
      BY <2>2, <1>2, TftpAssumption DEF Size
    <2>4. TypeOK'
      BY <1>1, <1>2, <2>1, <2>2 DEF StoreInv, TypeOK
    <2>5. n \in Nat /\ offset <= n
      BY <1>2
    <2> HIDE DEF n
    <2>6. /\ \A t \in Tids : SessionOK(t, srv[t], n, src)
          /\ \A x : NetOK(x, offset, peer, srv) => NetOK(x, n, src, srv)
      BY <1>1, <2>5, Latching
    <2>7. NetOK(dgram, n, src, srv)
      BY <1>2, <2>5 DEF NetOK, Data, n
    <2>8. src # NoPeer
      BY <1>1, PeerAssumption
    <2> HIDE DEF dgram
    <2> QED BY <1>1, <2>2, <2>3, <2>4, <2>6, <2>7, <2>8 DEF StoreInv
  <1> QED BY <1>3, <1>4

\* Every turn of the receive loop keeps the invariant.
LEMMA ReceiveInv == ASSUME StoreInv, Receive PROVE StoreInv'
  <1> PICK m \in net : m.dst = Client /\ (Ignore(m) \/ Advance(m) \/ Abort(m))
    BY DEF Receive
  <1>1. result = "running" /\ UNCHANGED <<total, srv, losses>> /\ retries \in 0..MaxRetries
        /\ result \in Outcomes
    BY DEF Receive, StoreInv, TypeOK
  <1>2. CASE Ignore(m)
    BY <1>1, <1>2, OnlyNetwork DEF Ignore, client, Received
  <1>3. CASE Advance(m)
    BY <1>1, <1>3, AdvanceInv
  <1>4. CASE Abort(m)
    BY <1>1, <1>4, OnlyNetwork DEF Abort, Received, Outcomes
  <1> QED BY <1>2, <1>3, <1>4

\* A receive timeout keeps it: the packet resent was sent before.
LEMMA TimeoutInv == ASSUME StoreInv, Timeout PROVE StoreInv'
  <1>1. UNCHANGED <<total, peer, block, offset, sentFinal, lastPacket, srv>>
    BY DEF Timeout
  <1>2. retries' \in 0..MaxRetries /\ result' \in Outcomes
    BY TftpAssumption DEF Timeout, MayRetry, RetriesAfter, StoreInv, TypeOK, Outcomes
  <1>3. \A m \in net' : m \in net \/ NetOK(m, offset, peer, srv)
    BY DEF Timeout, Resend, StoreInv
  <1> QED BY <1>1, <1>2, <1>3, OnlyNetwork

\* A session opened by a late request has written nothing.
LEMMA OpenSessionInv == ASSUME StoreInv, OpenSession PROVE StoreInv'
  <1> PICK t \in Tids : /\ srv' = [srv EXCEPT ![t].open = TRUE]
                        /\ net' = Received(net, Request) \cup {Ack(t, Client, 0)}
    BY DEF OpenSession
  <1>1. UNCHANGED <<total, peer, block, offset, sentFinal, lastPacket, retries, result>>
    BY DEF OpenSession, client
  <1>2. srv' \in [Tids -> [open : BOOLEAN, got : Seq(Nat), blk : 0..MaxBlock]]
        /\ \A u \in Tids : srv'[u].got = srv[u].got /\ srv'[u].blk = srv[u].blk
    BY DEF StoreInv, TypeOK
  <1>3. TypeOK'
    BY <1>1, <1>2 DEF StoreInv, TypeOK
  <1>4. \A u \in Tids : SessionOK(u, srv'[u], offset, peer)
    BY <1>2 DEF StoreInv, SessionOK
  <1>5. \A x : NetOK(x, offset, peer, srv) => NetOK(x, offset, peer, srv')
    BY <1>2 DEF NetOK
  <1>6. NetOK(Ack(t, Client, 0), offset, peer, srv')
    BY <1>2, Numbers DEF NetOK, Ack
  <1> QED BY <1>1, <1>3, <1>4, <1>5, <1>6 DEF StoreInv, Received

\* An ERROR answer says nothing about chunks.
LEMMA RefuseInv == ASSUME StoreInv, Refuse PROVE StoreInv'
  <1>1. UNCHANGED <<total, peer, block, offset, sentFinal, lastPacket, retries, result, srv>>
    BY DEF Refuse, client
  <1>2. \A m \in net' : m \in net \/ NetOK(m, offset, peer, srv)
    BY DEF Refuse, Received, NetOK, ErrorTo
  <1>3. retries' \in 0..MaxRetries /\ result' \in Outcomes
    BY <1>1 DEF StoreInv, TypeOK
  <1> QED BY <1>1, <1>2, <1>3, OnlyNetwork

\* A session that appends a chunk.
Appended(s, chunk, blk) == [open |-> TRUE, got |-> Append(s.got, chunk), blk |-> blk]

\* A session writes the chunk that follows what it has; no number wraps on the way.
LEMMA WritesNext ==
    ASSUME StoreInv, NEW m \in net, m.op = "DATA", m.dst \in Tids, m.block = WrappingNext(srv[m.dst].blk)
    PROVE  /\ m.dst = peer /\ m.chunk = srv[m.dst].blk + 1 /\ m.block = m.chunk
           /\ m.chunk <= offset /\ m.chunk \in 1..MaxBlock
  <1>1. NetOK(m, offset, peer, srv)
    BY DEF StoreInv
  <1> QED BY <1>1, Numbers DEF NetOK, WrappingNext

LEMMA WriteInv == ASSUME StoreInv, Write PROVE StoreInv'
  <1> PICK m \in net :
        /\ m.op = "DATA" /\ m.dst \in Tids
        /\ LET s == srv[m.dst]
           IN  \/ /\ m.block = WrappingNext(s.blk)
                  /\ srv' = [srv EXCEPT ![m.dst] = Appended(s, m.chunk, m.block)]
                  /\ net' = Received(net, m) \cup {Ack(m.dst, Client, m.block)}
               \/ /\ m.block = s.blk
                  /\ net' = Received(net, m) \cup {Ack(m.dst, Client, m.block)}
                  /\ UNCHANGED srv
               \/ /\ m.block \notin {s.blk, WrappingNext(s.blk)}
                  /\ net' = Received(net, m)
                  /\ UNCHANGED srv
    BY DEF Write, Appended
  <1> DEFINE d == m.dst
             s == srv[d]
             new == Appended(s, m.chunk, m.block)
  <1>1. UNCHANGED <<total, peer, block, offset, sentFinal, lastPacket, retries, result>> /\ d \in Tids
        /\ retries \in 0..MaxRetries /\ result \in Outcomes
    BY DEF Write, client, StoreInv, TypeOK
  <1>2. ASSUME m.block = WrappingNext(s.blk), srv' = [srv EXCEPT ![d] = new],
               net' = Received(net, m) \cup {Ack(d, Client, m.block)}
        PROVE  StoreInv'
    <2>1. /\ d = peer /\ m.chunk = s.blk + 1 /\ m.block = m.chunk /\ m.chunk <= offset /\ m.chunk \in 1..MaxBlock
      BY <1>2, WritesNext
    <2>2. s.got \in Seq(Nat) /\ s.blk \in Nat /\ Len(s.got) = s.blk
      BY Numbers DEF StoreInv, SessionOK
    <2>3. /\ new.got \in Seq(Nat) /\ new.blk = m.chunk /\ Len(new.got) = new.blk
          /\ new \in [open : BOOLEAN, got : Seq(Nat), blk : 0..MaxBlock]
      BY <2>1, <2>2 DEF Appended
    <2> HIDE DEF new
    <2>4. \A u \in Tids : srv'[u] = IF u = d THEN new ELSE srv[u]
      BY <1>2 DEF StoreInv, TypeOK
    <2>5. TypeOK'
      BY <1>1, <1>2, <2>3 DEF StoreInv, TypeOK
    <2>6. \A u \in Tids : SessionOK(u, srv'[u], offset, peer)
      BY <2>1, <2>3, <2>4 DEF StoreInv, SessionOK
    <2>7. \A x : NetOK(x, offset, peer, srv) => NetOK(x, offset, peer, srv')
      <3> SUFFICES ASSUME NEW x, NetOK(x, offset, peer, srv) PROVE NetOK(x, offset, peer, srv')
        OBVIOUS
      <3>1. offset \in Nat /\ offset <= offset
        BY Numbers
      <3>2. \A u \in Tids : srv[u].blk \in Nat /\ srv'[u].blk \in Nat /\ srv[u].blk <= srv'[u].blk
        BY <2>1, <2>2, <2>3, <2>4, Numbers
      <3> QED BY ONLY <3>1, <3>2, NetOK(x, offset, peer, srv), Advancing
    <2>8. NetOK(Ack(d, Client, m.block), offset, peer, srv')
      BY <2>1, <2>3, <2>4 DEF NetOK, Ack
    <2> QED BY <1>1, <1>2, <2>5, <2>6, <2>7, <2>8 DEF StoreInv, Received
  <1>3. ASSUME m.block = s.blk, UNCHANGED srv, net' = Received(net, m) \cup {Ack(d, Client, m.block)}
        PROVE  StoreInv'
    <2>1. NetOK(Ack(d, Client, m.block), offset, peer, srv)
      BY <1>3, Numbers DEF NetOK, Ack
    <2> QED BY <1>1, <1>3, <2>1, OnlyNetwork DEF Received
  <1>4. ASSUME UNCHANGED srv, net' = Received(net, m) PROVE StoreInv'
    BY <1>1, <1>4, OnlyNetwork DEF Received
  <1> QED BY <1>2, <1>3, <1>4

\* Every step keeps the invariant.
LEMMA NextInv == StoreInv /\ [Next]_vars => StoreInv'
  <1> SUFFICES ASSUME StoreInv, [Next]_vars PROVE StoreInv'
    OBVIOUS
  <1>0. retries \in 0..MaxRetries /\ result \in Outcomes
    BY DEF StoreInv, TypeOK
  <1>1. CASE Receive
    BY <1>1, ReceiveInv
  <1>2. CASE Timeout
    BY <1>2, TimeoutInv
  <1>3. CASE IoError
    BY <1>0, <1>3, OnlyNetwork DEF IoError, Outcomes
  <1>4. CASE OpenSession
    BY <1>4, OpenSessionInv
  <1>5. CASE Refuse
    BY <1>5, RefuseInv
  <1>6. CASE Write
    BY <1>6, WriteInv
  <1>7. CASE Lose
    BY <1>0, <1>7, OnlyNetwork DEF Lose, client
  <1>8. CASE Finished \/ UNCHANGED vars
    BY <1>0, <1>8, OnlyNetwork DEF Finished, vars
  <1> QED BY <1>1, <1>2, <1>3, <1>4, <1>5, <1>6, <1>7, <1>8 DEF Next

\* The inductive invariant of store: chunks go to the latched session only, under their
\* own numbers, and no session has more of them than were sent.
THEOREM StoreInvariance == Spec => []StoreInv
  BY InitInv, NextInv, PTL DEF Spec
\* tftp::store keeps its retry count within MAX_RETRIES and its block numbers within
\* u16.
THEOREM StoreTypeCorrect == Spec => []TypeOK
  <1>1. StoreInv => TypeOK
    BY DEF StoreInv
  <1> QED BY <1>1, StoreInvariance, PTL

\* What the latched session wrote, as FileTransfer sees it.
Written == IF peer = NoPeer THEN <<>> ELSE srv[peer].got

\* Every step of store is a step of FileTransfer or leaves it alone.
LEMMA StoreStep == StoreInv /\ [Next]_vars => [Transfer!Step]_(Transfer!vars)
  <1> SUFFICES ASSUME StoreInv, [Next]_vars PROVE [Transfer!Step]_(Transfer!vars)
    OBVIOUS
  <1>1. ASSUME UNCHANGED <<total, peer, srv>>, result' = result \/ (result = "running" /\ result' # "ok")
        PROVE  [Transfer!Step]_(Transfer!vars)
    BY <1>1 DEF Transfer!Step, Transfer!End, Transfer!vars
  <1>2. ASSUME NEW m \in net, result = "running", Advance(m), UNCHANGED <<total, srv>>
        PROVE  Transfer!Step
    <2>1. /\ FromPeer(peer, m.src) /\ Acknowledges(m) /\ peer' = m.src
          /\ m.src \in Tids /\ srv[m.src].blk = offset /\ Len(srv[m.src].got) = offset
      BY <1>2, AcknowledgedIsWritten DEF Advance
    <2>2. m.src # NoPeer /\ srv[m.src].got \in Seq(Nat)
      BY <2>1, Numbers, PeerAssumption
    <2>3. Written' = Written
      <3>1. CASE peer = m.src
        BY <1>2, <2>1, <3>1 DEF Written
      <3>2. CASE peer = NoPeer
        <4>1. srv[m.src].got = <<>>
          BY <2>1, <2>2, <3>2 DEF StoreInv
        <4> QED BY <1>2, <2>1, <2>2, <3>2, <4>1 DEF Written
      <3> QED BY <2>1, <3>1, <3>2 DEF FromPeer
    <2>4. result' \in {"ok", "wrapped", "running"} /\ (result' = "ok" => sentFinal)
      BY <1>2 DEF Advance
    <2>5. result' = "ok" => Len(Written') = total
      BY <1>2, <2>1, <2>2, <2>4 DEF Written, StoreInv
    <2> QED BY <1>2, <2>3, <2>4, <2>5 DEF Transfer!Step, Transfer!End, Written
  <1>3. ASSUME NEW m \in net, m.op = "DATA", m.dst \in Tids, m.block = WrappingNext(srv[m.dst].blk),
               srv' = [srv EXCEPT ![m.dst] = Appended(srv[m.dst], m.chunk, m.block)],
               UNCHANGED <<total, peer, result>>
        PROVE  Transfer!Step
    <2>1. m.dst = peer /\ m.chunk = srv[m.dst].blk + 1 /\ m.chunk <= offset
      BY <1>3, WritesNext
    <2>2. srv[peer].got \in Seq(Nat) /\ Len(srv[peer].got) = srv[peer].blk /\ peer # NoPeer
      BY <1>3, <2>1, Numbers, PeerAssumption DEF StoreInv, SessionOK
    <2>3. Written' = Append(Written, Len(Written) + 1) /\ Len(Written) < total
      <3>1. srv'[peer].got = Append(srv[peer].got, m.chunk)
        BY <1>3, <2>1 DEF StoreInv, TypeOK, Appended
      <3> QED BY <1>3, <2>1, <2>2, <3>1, Numbers DEF Written
    <2> QED BY <1>3, <2>3 DEF Transfer!Step, Transfer!Receive, Written
  <1>4. CASE Receive
    <2> PICK m \in net : Ignore(m) \/ Advance(m) \/ Abort(m)
      BY <1>4 DEF Receive
    <2>1. result = "running" /\ UNCHANGED <<total, srv>>
      BY <1>4 DEF Receive
    <2>2. CASE Ignore(m) \/ Abort(m)
      BY <1>1, <2>1, <2>2 DEF Ignore, Abort, client
    <2>3. CASE Advance(m)
      BY <1>2, <2>1, <2>3
    <2> QED BY <2>2, <2>3
  <1>5. CASE Write
    <2>1. UNCHANGED <<total, peer, result>>
      BY <1>5 DEF Write, client
    <2>2. \/ UNCHANGED srv
          \/ \E m \in net : /\ m.op = "DATA" /\ m.dst \in Tids /\ m.block = WrappingNext(srv[m.dst].blk)
                            /\ srv' = [srv EXCEPT ![m.dst] = Appended(srv[m.dst], m.chunk, m.block)]
      BY <1>5 DEF Write, Appended
    <2> QED BY <1>1, <1>3, <2>1, <2>2
  <1>6. CASE OpenSession
    <2>1. UNCHANGED <<total, peer, result>> /\ \E t \in Tids : srv' = [srv EXCEPT ![t].open = TRUE]
      BY <1>6 DEF OpenSession, client
    <2>2. peer = NoPeer \/ (peer \in Tids /\ srv'[peer].got = srv[peer].got)
      BY <2>1 DEF StoreInv, TypeOK
    <2> QED BY <2>1, <2>2 DEF Transfer!vars
  <1>7. CASE Timeout
    BY <1>1, <1>7 DEF Timeout
  <1>8. CASE IoError
    BY <1>1, <1>8 DEF IoError
  <1>9. CASE Refuse \/ Lose \/ Finished \/ UNCHANGED vars
    BY <1>1, <1>9 DEF Refuse, Lose, Finished, client, vars
  <1> QED BY <1>4, <1>5, <1>6, <1>7, <1>8, <1>9 DEF Next

\* tftp::store implements FileTransfer: what the latched session wrote is a prefix of
\* the upload in every state, and Ok means that it wrote all of it, for every upload,
\* block-number width, retry budget and set of sessions, on any network.
THEOREM StoreImplementsTransfer == Spec => StoresFile
  <1>1. Init => Transfer!Init
    BY TftpAssumption DEF Init, Transfer!Init
  <1> QED BY <1>1, StoreStep, StoreInvariance, PTL DEF Spec, StoresFile, Transfer!Spec
=============================================================================
