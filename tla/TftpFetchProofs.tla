--------------------------- MODULE TftpFetchProofs ---------------------------
(***************************************************************************)
(* TLAPS proof that tftp::fetch implements FileTransfer for every file,     *)
(* block-number width, retry budget and number of server sessions, over a   *)
(* network that loses, duplicates, delays and reorders, and that no session *)
(* but the latched one is fed.                                              *)
(***************************************************************************)
EXTENDS TftpFetch, TLAPS

\* How a session numbers chunk k: block 0 follows block u16::MAX.
Numbered(k) == IF k <= MaxBlock THEN k ELSE 0

\* A datagram m in flight when the client holds n chunks of a file of k and the
\* sessions are ss.  Nobody is ahead: the client acknowledges only what it has,
\* and a session sends a chunk only when it has reached it.
NetOK(m, n, ss, k) ==
    /\ m.op \in {"REQ", "DATA", "ACK", "ERROR"}
    /\ m.op = "ACK" => /\ m.src = Client /\ m.dst \in Tids /\ m.block \in 1..MaxBlock
                       /\ m.block <= n /\ ss[m.dst].pos >= 1
    /\ m.op = "DATA" /\ m.src # Stranger =>
            /\ m.src \in Tids /\ m.dst = Client
            /\ m.chunk \in 1..k /\ m.block = Numbered(m.chunk)
            /\ m.chunk <= ss[m.src].pos

\* A session s is at most one chunk further than the client.
SessionOK(s, n, k) ==
    /\ s.pos <= n + 1 /\ s.pos <= MaxBlock + 1 /\ s.pos <= k
    /\ s.blk = Numbered(s.pos)

FetchInv ==
    /\ TypeOK
    /\ Len(out) <= total
    /\ result = "running" => expected = Len(out) + 1
    /\ \A t \in Tids : SessionOK(srv[t], Len(out), total)
    /\ \A m \in net : NetOK(m, Len(out), srv, total)
    /\ NetOK(lastPacket, Len(out), srv, total)

\* An accepted datagram comes from a session.
LEMMA AcceptedFrom ==
    ASSUME TypeOK, NEW src, FromPeer(peer, src) PROVE src \in Tids
  BY DEF TypeOK, FromPeer

\* The block the client waits for carries the chunk it needs next, although
\* block numbers repeat.
LEMMA ExpectedChunk ==
    ASSUME FetchInv, result = "running", NEW m \in net, m.op = "DATA", FromPeer(peer, m.src)
    PROVE  /\ m.block = expected => m.chunk = Len(out) + 1 /\ m.chunk <= total
           /\ WrappingNext(m.block) = expected => m.block = Len(out) /\ m.block \in 1..MaxBlock
           /\ m.src \in Tids /\ srv[m.src].pos >= 1
  <1>1. m.src \in Tids /\ m.src # Stranger
    BY AcceptedFrom, TftpAssumption DEF FetchInv
  <1>2. NetOK(m, Len(out), srv, total) /\ SessionOK(srv[m.src], Len(out), total)
    BY <1>1 DEF FetchInv
  <1>3. /\ m.chunk \in Nat /\ m.chunk >= 1 /\ m.chunk <= total /\ m.chunk <= Len(out) + 1
        /\ m.block = Numbered(m.chunk) /\ Len(out) \in Nat /\ MaxBlock \in Nat
        /\ expected = Len(out) + 1 /\ expected <= MaxBlock /\ total \in Nat
        /\ srv[m.src].pos >= 1
    <2>1. srv[m.src].pos \in Nat /\ Len(out) \in Nat /\ total \in Nat
      BY <1>1, TftpAssumption DEF FetchInv, TypeOK
    <2> QED BY <1>1, <1>2, <2>1, TftpAssumption DEF NetOK, SessionOK, FetchInv, TypeOK
  <1> QED BY <1>1, <1>3 DEF Numbered, WrappingNext

\* What holds of a datagram still holds when the client and the sessions advance.
LEMMA Advancing ==
    ASSUME NEW n \in Nat, NEW n1 \in Nat, n <= n1, NEW k,
           NEW ss, NEW ss1, \A t \in Tids : ss[t].pos \in Nat /\ ss1[t].pos \in Nat,
           \A t \in Tids : ss[t].pos <= ss1[t].pos,
           k \in Nat,
           NEW m, NetOK(m, n, ss, k)
    PROVE  NetOK(m, n1, ss1, k)
  <1>1. m.op = "ACK" => /\ m.src = Client /\ m.dst \in Tids /\ m.block \in 1..MaxBlock
                        /\ m.block <= n1 /\ ss1[m.dst].pos >= 1
    BY TftpAssumption DEF NetOK
  <1>2. m.op = "DATA" /\ m.src # Stranger =>
            /\ m.src \in Tids /\ m.dst = Client
            /\ m.chunk \in 1..k /\ m.block = Numbered(m.chunk)
            /\ m.chunk <= ss1[m.src].pos
    BY DEF NetOK
  <1> QED BY <1>1, <1>2 DEF NetOK

\* What the invariant says about the numbers in it.
LEMMA Numbers ==
    ASSUME FetchInv
    PROVE  /\ Len(out) \in Nat /\ total \in Nat /\ expected \in Nat
           /\ \A t \in Tids : srv[t].pos \in Nat /\ srv[t].blk \in 0..MaxBlock
  BY TftpAssumption DEF FetchInv, TypeOK

\* The invariant holds when fetch has sent its request.
LEMMA InitInv == Init => FetchInv
  <1> SUFFICES ASSUME Init PROVE FetchInv
    OBVIOUS
  <1>1. TypeOK /\ Len(out) = 0 /\ total \in Nat \ {0}
    BY TftpAssumption DEF Init, TypeOK, Outcomes
  <1>2. \A t \in Tids : SessionOK(srv[t], Len(out), total)
    BY <1>1, TftpAssumption DEF Init, SessionOK, Numbered
  <1>3. \A m \in {Request} \cup Strays : NetOK(m, Len(out), srv, total)
    BY DEF NetOK, Request, Strays, Data, ErrorTo
  <1> QED BY <1>1, <1>2, <1>3, TftpAssumption DEF Init, FetchInv

\* The client, the sessions and the file stay: only the network may change.
LEMMA OnlyNetwork ==
    ASSUME FetchInv, UNCHANGED <<total, peer, out, expected, lastPacket, srv>>,
           retries' \in 0..MaxRetries, result' \in Outcomes, result' = "running" => result = "running",
           \A m \in net' : m \in net \/ NetOK(m, Len(out), srv, total)
    PROVE  FetchInv'
  <1>1. TypeOK'
    BY DEF FetchInv, TypeOK
  <1> QED BY <1>1 DEF FetchInv

\* Acknowledging the previous block again keeps the invariant.
LEMMA ReackInv ==
    ASSUME FetchInv, result = "running", NEW m \in net, Reack(m), UNCHANGED <<total, srv, losses>>
    PROVE  FetchInv'
  <1>1. m.op = "DATA" /\ FromPeer(peer, m.src) /\ WrappingNext(m.block) = expected
    BY DEF Reack
  <1>2. m.block = Len(out) /\ m.block \in 1..MaxBlock /\ m.src \in Tids /\ srv[m.src].pos >= 1
    BY <1>1, ExpectedChunk
  <1>3. NetOK(Ack(Client, m.src, m.block), Len(out), srv, total)
    BY <1>2, Numbers DEF NetOK, Ack
  <1>4. \A x \in net' : x \in net \/ NetOK(x, Len(out), srv, total)
    BY <1>3 DEF Reack, Received
  <1>5. UNCHANGED client /\ retries \in 0..MaxRetries /\ result \in Outcomes
    BY DEF Reack, FetchInv, TypeOK
  <1> QED BY <1>4, <1>5, OnlyNetwork DEF client

\* So does taking the expected block, whatever it then returns.
LEMMA AcceptInv ==
    ASSUME FetchInv, result = "running", NEW m \in net, Accept(m), UNCHANGED <<total, srv, losses>>
    PROVE  FetchInv'
  <1>1. m.op = "DATA" /\ FromPeer(peer, m.src) /\ m.block = expected /\ peer' = m.src
    BY DEF Accept
  <1>2. m.chunk = Len(out) + 1 /\ m.chunk <= total /\ m.src \in Tids /\ srv[m.src].pos >= 1
    BY <1>1, ExpectedChunk
  <1>3. /\ Len(out) \in Nat /\ total \in Nat /\ out \in Seq(Nat) /\ expected \in 1..MaxBlock
        /\ expected = Len(out) + 1 /\ retries \in 0..MaxRetries
    BY Numbers DEF FetchInv, TypeOK
  <1>4. CASE Len(out) * BlockSize + Size(m.chunk) > MaxTotalBytes
    <2>1. /\ result' = "toolarge" /\ net' \subseteq net
          /\ UNCHANGED <<total, srv, out, expected, lastPacket, retries>>
      BY <1>4 DEF Accept, Received
    <2>2. TypeOK'
      BY <1>1, <1>2, <2>1 DEF FetchInv, TypeOK, Outcomes
    <2> QED BY <2>1, <2>2 DEF FetchInv
  <1>5. CASE ~(Len(out) * BlockSize + Size(m.chunk) > MaxTotalBytes)
    <2>1. /\ out' = Append(out, m.chunk)
          /\ net' \subseteq net \cup {Ack(Client, m.src, m.block)}
          /\ lastPacket' \in {lastPacket, Ack(Client, m.src, m.block)}
          /\ retries' \in {retries, 0}
          /\ result' \in {"ok", "wrapped", result}
          /\ expected' \in {expected, CheckedNext(expected)}
          /\ result' = "running" => expected' = CheckedNext(expected)
          /\ expected' # NoBlock
          /\ UNCHANGED <<total, srv>>
      <3>0. expected # NoBlock
        BY <1>3, TftpAssumption DEF NoBlock
      <3>1. /\ out' = Append(out, m.chunk)
            /\ net' \subseteq net \cup {Ack(Client, m.src, m.block)}
        BY <1>5 DEF Accept, Received
      <3>2. CASE Size(m.chunk) < BlockSize
        BY <1>5, <3>0, <3>1, <3>2 DEF Accept
      <3>3. CASE ~(Size(m.chunk) < BlockSize)
        BY <1>5, <3>0, <3>1, <3>3 DEF Accept
      <3> QED BY <3>2, <3>3
    <2>2. Len(out') = Len(out) + 1 /\ out' \in Seq(Nat) /\ Len(out') <= total' /\ Len(out') <= MaxBlock
      BY <1>2, <1>3, <2>1, TftpAssumption
    <2>3. NetOK(Ack(Client, m.src, m.block), Len(out'), srv, total)
      BY <1>1, <1>2, <1>3, <2>2 DEF NetOK, Ack
    <2>4. \A x : NetOK(x, Len(out), srv, total) => NetOK(x, Len(out'), srv, total)
      <3> SUFFICES ASSUME NEW x, NetOK(x, Len(out), srv, total) PROVE NetOK(x, Len(out'), srv, total)
        OBVIOUS
      <3>1. Len(out) \in Nat /\ Len(out') \in Nat /\ Len(out) <= Len(out') /\ total \in Nat
        BY <1>3, <2>2
      <3>2. \A t \in Tids : srv[t].pos \in Nat /\ srv[t].pos <= srv[t].pos
        BY Numbers
      <3> QED BY ONLY <3>1, <3>2, NetOK(x, Len(out), srv, total), Advancing
    <2>5. (\A x \in net' : NetOK(x, Len(out'), srv', total')) /\ NetOK(lastPacket', Len(out'), srv', total')
      <3>1. (\A x \in net : NetOK(x, Len(out'), srv, total)) /\ NetOK(lastPacket, Len(out'), srv, total)
        BY <2>4 DEF FetchInv
      <3> QED BY <3>1, <2>1, <2>3
    <2>6. \A t \in Tids : SessionOK(srv'[t], Len(out'), total')
      BY <1>3, <2>1, <2>2, Numbers DEF FetchInv, SessionOK
    <2>7. expected' \in 1..MaxBlock /\ (result' = "running" => expected' = Len(out') + 1)
      BY <1>3, <2>1, <2>2, TftpAssumption DEF CheckedNext, NoBlock
    <2>8. TypeOK'
      <3>1. retries' \in 0..MaxRetries
        BY <1>3, <2>1, TftpAssumption
      <3>2. total' \in Files /\ result' \in Outcomes /\ srv' \in [Tids -> [pos : Nat, blk : 0..MaxBlock]]
        BY <2>1 DEF FetchInv, TypeOK, Outcomes
      <3> QED BY <1>1, <1>2, <2>2, <2>7, <3>1, <3>2 DEF TypeOK
    <2> QED BY <2>2, <2>5, <2>6, <2>7, <2>8 DEF FetchInv
  <1> QED BY <1>4, <1>5

\* Every turn of the receive loop keeps the invariant.
LEMMA ReceiveInv == ASSUME FetchInv, Receive PROVE FetchInv'
  <1> PICK m \in net : m.dst = Client /\ (Ignore(m) \/ Reack(m) \/ Accept(m) \/ Abort(m))
    BY DEF Receive
  <1>1. result = "running" /\ UNCHANGED <<total, srv, losses>> /\ retries \in 0..MaxRetries
        /\ result \in Outcomes
    BY DEF Receive, FetchInv, TypeOK
  <1>2. CASE Ignore(m)
    BY <1>1, <1>2, OnlyNetwork DEF Ignore, client, Received
  <1>3. CASE Reack(m)
    BY <1>1, <1>3, ReackInv
  <1>4. CASE Accept(m)
    BY <1>1, <1>4, AcceptInv
  <1>5. CASE Abort(m)
    BY <1>1, <1>5, OnlyNetwork DEF Abort, Received, Outcomes
  <1> QED BY <1>2, <1>3, <1>4, <1>5

\* A receive timeout keeps it: the packet resent was sent before.
LEMMA TimeoutInv == ASSUME FetchInv, Timeout PROVE FetchInv'
  <1>1. UNCHANGED <<total, peer, out, expected, lastPacket, srv>> /\ result = "running"
    BY DEF Timeout
  <1>2. retries' \in 0..MaxRetries /\ result' \in Outcomes
    BY TftpAssumption DEF Timeout, MayRetry, RetriesAfter, FetchInv, TypeOK, Outcomes
  <1>3. \A m \in net' : m \in net \/ NetOK(m, Len(out), srv, total)
    BY DEF Timeout, Resend, FetchInv
  <1> QED BY <1>1, <1>2, <1>3, OnlyNetwork

\* A session opened by a late request is at chunk 1, never ahead.
LEMMA OpenSessionInv == ASSUME FetchInv, OpenSession PROVE FetchInv'
  <1> PICK t \in Tids : /\ srv[t].pos = 0
                        /\ srv' = [srv EXCEPT ![t] = [pos |-> 1, blk |-> 1]]
                        /\ net' = Received(net, Request) \cup {DataOf(t, srv'[t])}
    BY DEF OpenSession
  <1>1. UNCHANGED <<total, peer, out, expected, lastPacket, retries, result>> /\ total \in Nat \ {0}
    BY TftpAssumption DEF OpenSession, client, FetchInv, TypeOK
  <1>2. TypeOK'
    BY <1>1, TftpAssumption DEF FetchInv, TypeOK
  <1>3. \A u \in Tids : srv'[u] = IF u = t THEN [pos |-> 1, blk |-> 1] ELSE srv[u]
    BY DEF FetchInv, TypeOK
  <1>4. \A u \in Tids : SessionOK(srv'[u], Len(out), total)
    BY <1>1, <1>3, Numbers, TftpAssumption DEF FetchInv, SessionOK, Numbered
  <1>5. NetOK(DataOf(t, srv'[t]), Len(out), srv', total)
    BY <1>1, <1>3, TftpAssumption DEF NetOK, DataOf, Data, Numbered
  <1>6. \A x : NetOK(x, Len(out), srv, total) => NetOK(x, Len(out), srv', total)
    <2> SUFFICES ASSUME NEW x, NetOK(x, Len(out), srv, total) PROVE NetOK(x, Len(out), srv', total)
      OBVIOUS
    <2>1. Len(out) \in Nat /\ Len(out) <= Len(out) /\ total \in Nat
      BY Numbers
    <2>2. \A u \in Tids : srv[u].pos \in Nat /\ srv'[u].pos \in Nat /\ srv[u].pos <= srv'[u].pos
      BY <1>3, Numbers
    <2> QED BY ONLY <2>1, <2>2, NetOK(x, Len(out), srv, total), Advancing
  <1> QED BY <1>1, <1>2, <1>4, <1>5, <1>6 DEF FetchInv, Received

\* An ERROR answer says nothing about chunks.
LEMMA RefuseInv == ASSUME FetchInv, Refuse PROVE FetchInv'
  <1>1. UNCHANGED <<total, peer, out, expected, lastPacket, retries, result, srv>>
    BY DEF Refuse, client
  <1>2. \A m \in net' : m \in net \/ NetOK(m, Len(out), srv, total)
    BY DEF Refuse, Received, NetOK, ErrorTo
  <1>3. retries' \in 0..MaxRetries /\ result' \in Outcomes
    BY <1>1 DEF FetchInv, TypeOK
  <1> QED BY <1>1, <1>2, <1>3, OnlyNetwork

\* A session goes on only after the client acknowledged the chunk it is at.
LEMMA AnswerInv == ASSUME FetchInv, Answer PROVE FetchInv'
  <1> PICK m \in net :
        /\ m.op = "ACK" /\ m.dst \in Tids
        /\ LET s == srv[m.dst]
               next == [pos |-> s.pos + 1, blk |-> WrappingNext(s.blk)]
           IN  \/ /\ m.block = s.blk /\ s.pos < total
                  /\ srv' = [srv EXCEPT ![m.dst] = next]
                  /\ net' = Received(net, m) \cup {DataOf(m.dst, next)}
               \/ /\ m.block # s.blk /\ WrappingNext(m.block) = s.blk
                  /\ net' = Received(net, m) \cup {DataOf(m.dst, s)}
                  /\ UNCHANGED srv
               \/ /\ m.block = s.blk => s.pos = total
                  /\ m.block # s.blk => WrappingNext(m.block) # s.blk
                  /\ net' = Received(net, m)
                  /\ UNCHANGED srv
    BY DEF Answer
  <1> DEFINE d == m.dst
             s == srv[d]
             next == [pos |-> s.pos + 1, blk |-> WrappingNext(s.blk)]
  <1>1. UNCHANGED <<total, peer, out, expected, lastPacket, retries, result>>
    BY DEF Answer, client
  <1>2. /\ NetOK(m, Len(out), srv, total) /\ SessionOK(s, Len(out), total) /\ d \in Tids
        /\ s.pos \in Nat /\ s.blk \in 0..MaxBlock /\ Len(out) \in Nat /\ total \in Nat
        /\ retries \in 0..MaxRetries /\ result \in Outcomes /\ MaxBlock \in Nat
    BY Numbers, TftpAssumption DEF FetchInv, TypeOK
  <1>3. m.block \in 1..MaxBlock /\ m.block <= Len(out) /\ s.pos >= 1
    BY <1>2 DEF NetOK
  <1>4. ASSUME m.block = s.blk, s.pos < total,
               srv' = [srv EXCEPT ![d] = next], net' = Received(net, m) \cup {DataOf(d, next)}
        PROVE  FetchInv'
    <2>1. s.pos = s.blk /\ s.pos <= MaxBlock /\ s.pos <= Len(out)
      BY <1>2, <1>3, <1>4 DEF SessionOK, Numbered
    <2>2. next.pos = s.pos + 1 /\ next.pos \in Nat /\ next.blk \in 0..MaxBlock /\ next.blk = Numbered(s.pos + 1)
      BY <1>2, <2>1 DEF WrappingNext, Numbered
    <2>3. SessionOK(next, Len(out), total)
      BY <1>2, <1>4, <2>1, <2>2 DEF SessionOK
    <2>4. next \in [pos : Nat, blk : 0..MaxBlock]
      BY <2>2
    <2> HIDE DEF next
    <2>5. TypeOK'
      BY <1>1, <1>2, <1>4, <2>4 DEF FetchInv, TypeOK
    <2>6. \A u \in Tids : srv'[u] = IF u = d THEN next ELSE srv[u]
      BY <1>4 DEF FetchInv, TypeOK
    <2>7. \A u \in Tids : SessionOK(srv'[u], Len(out), total)
      BY <2>3, <2>6 DEF FetchInv
    <2>8. NetOK(DataOf(d, next), Len(out), srv', total)
      <3>1. next.pos \in 1..total
        BY <1>2, <1>4, <2>2
      <3>2. srv'[d] = next /\ next.pos <= next.pos
        BY <1>2, <2>2, <2>6
      <3> QED BY <1>2, <2>2, <3>1, <3>2 DEF NetOK, DataOf, Data
    <2>9. \A x : NetOK(x, Len(out), srv, total) => NetOK(x, Len(out), srv', total)
      <3> SUFFICES ASSUME NEW x, NetOK(x, Len(out), srv, total) PROVE NetOK(x, Len(out), srv', total)
        OBVIOUS
      <3>1. Len(out) \in Nat /\ Len(out) <= Len(out) /\ total \in Nat
        BY Numbers
      <3>2. \A u \in Tids : srv[u].pos \in Nat /\ srv'[u].pos \in Nat /\ srv[u].pos <= srv'[u].pos
        BY <1>2, <2>2, <2>6, Numbers
      <3> QED BY ONLY <3>1, <3>2, NetOK(x, Len(out), srv, total), Advancing
    <2> QED BY <1>1, <1>4, <2>5, <2>7, <2>8, <2>9 DEF FetchInv, Received
  <1>5. ASSUME UNCHANGED srv, net' = Received(net, m) \cup {DataOf(d, s)}
        PROVE  FetchInv'
    <2>1. NetOK(DataOf(d, s), Len(out), srv, total)
      <3>1. s.pos \in 1..total /\ s.blk = Numbered(s.pos) /\ s.pos <= s.pos
        BY <1>2, <1>3 DEF SessionOK
      <3> QED BY <1>2, <3>1 DEF NetOK, DataOf, Data
    <2> QED BY <1>1, <1>2, <1>5, <2>1, OnlyNetwork DEF Received
  <1>6. ASSUME UNCHANGED srv, net' = Received(net, m) PROVE FetchInv'
    BY <1>1, <1>2, <1>6, OnlyNetwork DEF Received
  <1> QED BY <1>4, <1>5, <1>6

\* Every step keeps the invariant.
LEMMA NextInv == FetchInv /\ [Next]_vars => FetchInv'
  <1> SUFFICES ASSUME FetchInv, [Next]_vars PROVE FetchInv'
    OBVIOUS
  <1>0. retries \in 0..MaxRetries /\ result \in Outcomes
    BY DEF FetchInv, TypeOK
  <1>1. CASE Receive
    BY <1>1, ReceiveInv
  <1>2. CASE Timeout
    BY <1>2, TimeoutInv
  <1>3. CASE IoError
    BY <1>0, <1>3, OnlyNetwork DEF IoError, Outcomes
  <1>4. CASE OpenSession
    BY <1>4, OpenSessionInv
  <1>5. CASE Refuse
    BY <1>5, RefuseInv
  <1>6. CASE Answer
    BY <1>6, AnswerInv
  <1>7. CASE Lose
    BY <1>0, <1>7, OnlyNetwork DEF Lose, client
  <1>8. CASE Finished \/ UNCHANGED vars
    BY <1>0, <1>8, OnlyNetwork DEF Finished, vars
  <1> QED BY <1>1, <1>2, <1>3, <1>4, <1>5, <1>6, <1>7, <1>8 DEF Next

\* The inductive invariant of fetch: no datagram and no session is ahead of the
\* client by more than one chunk.
THEOREM FetchInvariance == Spec => []FetchInv
  BY InitInv, NextInv, PTL DEF Spec

\* tftp::fetch keeps its retry count within MAX_RETRIES and its block numbers
\* within u16.
THEOREM FetchTypeCorrect == Spec => []TypeOK
  <1>1. FetchInv => TypeOK
    BY DEF FetchInv
  <1> QED BY <1>1, FetchInvariance, PTL

\* Every step of fetch is a step of FileTransfer or leaves it alone.
LEMMA FetchStep == FetchInv /\ [Next]_vars => [Transfer!Step]_(Transfer!vars)
  <1> SUFFICES ASSUME FetchInv, [Next]_vars PROVE [Transfer!Step]_(Transfer!vars)
    OBVIOUS
  <1>1. ASSUME NEW m \in net, result = "running", Accept(m), UNCHANGED total
        PROVE  Transfer!Step
    <2>1. m.chunk = Len(out) + 1 /\ m.chunk <= total /\ Len(out) \in Nat /\ out \in Seq(Nat)
      BY <1>1, ExpectedChunk, Numbers DEF Accept, FetchInv, TypeOK
    <2>2. CASE out' = out
      <3>1. result' = "toolarge"
        BY <1>1, <2>1, <2>2 DEF Accept
      <3> QED BY <1>1, <2>2, <3>1 DEF Transfer!Step, Transfer!End
    <2>3. CASE out' = Append(out, m.chunk)
      <3>1. Transfer!Receive
        BY <2>1, <2>3, Numbers DEF Transfer!Receive
      <3>2. Len(out') = Len(out) + 1
        BY <2>1, <2>3
      <3>3. \/ result' = "ok" /\ Size(m.chunk) < BlockSize
            \/ result' \in {"running", "wrapped", "toolarge"}
        BY <1>1 DEF Accept
      <3>4. result' = "ok" => Len(out') = total
        BY <2>1, <3>2, <3>3, TftpAssumption DEF Size
      <3> QED BY <1>1, <3>1, <3>3, <3>4 DEF Transfer!Step, Transfer!End
    <2> QED BY <1>1, <2>2, <2>3 DEF Accept
  <1>2. ASSUME UNCHANGED <<total, out>>, result' = result \/ (result = "running" /\ result' # "ok")
        PROVE  [Transfer!Step]_(Transfer!vars)
    BY <1>2 DEF Transfer!Step, Transfer!End, Transfer!vars
  <1>3. CASE Receive
    <2> PICK m \in net : Ignore(m) \/ Reack(m) \/ Accept(m) \/ Abort(m)
      BY <1>3 DEF Receive
    <2>1. result = "running" /\ UNCHANGED total
      BY <1>3 DEF Receive
    <2>2. CASE Ignore(m) \/ Reack(m) \/ Abort(m)
      BY <1>2, <2>1, <2>2 DEF Ignore, Reack, Abort, client
    <2>3. CASE Accept(m)
      BY <1>1, <2>1, <2>3
    <2> QED BY <2>2, <2>3
  <1>4. CASE Timeout
    BY <1>2, <1>4 DEF Timeout
  <1>5. CASE IoError
    BY <1>2, <1>5 DEF IoError
  <1>6. CASE OpenSession \/ Refuse \/ Answer \/ Lose \/ Finished \/ UNCHANGED vars
    BY <1>2, <1>6 DEF OpenSession, Refuse, Answer, Lose, Finished, client, vars
  <1> QED BY <1>3, <1>4, <1>5, <1>6 DEF Next

\* tftp::fetch implements FileTransfer: `out` is a prefix of the file in every
\* state and Ok means the whole file, for every file, block-number width, retry
\* budget and set of sessions, on any network.
THEOREM FetchImplementsTransfer == Spec => FetchesFile
  <1>1. Init => Transfer!Init
    BY TftpAssumption DEF Init, Transfer!Init
  <1> QED BY <1>1, FetchStep, FetchInvariance, PTL DEF Spec, FetchesFile, Transfer!Spec

----------------------------------------------------------------------------
(* Only the latched session is fed.                                        *)

\* An ACK goes to the latched session; before there is one, nothing was taken and
\* nothing acknowledged.
ToPeer(m) == m.op = "ACK" => peer # NoPeer /\ m.dst = peer
FedInv ==
    /\ peer = NoPeer => Len(out) = 0
    /\ \A m \in net : ToPeer(m)
    /\ ToPeer(lastPacket)
    /\ OneSessionFed

\* The client and the sessions stay: only what is in flight may change.
LEMMA FedAlike ==
    ASSUME FedInv, UNCHANGED <<peer, out, lastPacket, srv>>, \A m \in net' : m \in net \/ ToPeer(m)
    PROVE  FedInv'
  BY DEF FedInv, ToPeer, OneSessionFed

\* Nothing is acknowledged again before a first block was taken.
LEMMA ReackFed ==
    ASSUME FetchInv, FedInv, result = "running", NEW m \in net, Reack(m), UNCHANGED srv
    PROVE  FedInv'
  <1>1. /\ m.op = "DATA" /\ FromPeer(peer, m.src) /\ WrappingNext(m.block) = expected
        /\ UNCHANGED <<peer, out, lastPacket>> /\ \A x \in net' : x \in net \/ x = Ack(Client, m.src, m.block)
    BY DEF Reack, client, Received
  <1>2. m.block = Len(out) /\ m.block \in 1..MaxBlock
    BY <1>1, ExpectedChunk
  <1>3. peer # NoPeer
    BY <1>2 DEF FedInv
  <1>4. ToPeer(Ack(Client, m.src, m.block))
    BY <1>1, <1>3 DEF ToPeer, Ack, FromPeer
  <1> QED BY <1>1, <1>4, FedAlike

\* The first block taken latches its session, and a later one comes from there.
LEMMA AcceptFed ==
    ASSUME FetchInv, FedInv, result = "running", NEW m \in net, Accept(m), UNCHANGED srv
    PROVE  FedInv'
  <1>1. m.op = "DATA" /\ FromPeer(peer, m.src) /\ peer' = m.src /\ m.src \in Tids /\ m.src # NoPeer
    <2>1. FromPeer(peer, m.src)
      BY DEF Accept
    <2> QED BY <2>1, AcceptedFrom, PeerAssumption DEF Accept, FetchInv
  <1>2. peer # NoPeer => peer' = peer
    BY <1>1 DEF FromPeer
  <1>3. /\ \A x \in net' : x \in net \/ x = Ack(Client, m.src, m.block)
        /\ lastPacket' = lastPacket \/ lastPacket' = Ack(Client, m.src, m.block)
    BY DEF Accept, Received
  <1>4. ToPeer(Ack(Client, m.src, m.block))'
    BY <1>1 DEF ToPeer, Ack
  <1>5. ASSUME NEW x, ToPeer(x) PROVE ToPeer(x)'
    BY <1>2, <1>5 DEF ToPeer
  <1>6. (\A x \in net' : (ToPeer(x))') /\ (ToPeer(lastPacket))'
    <2>1. \A x \in net : (ToPeer(x))'
      BY <1>5 DEF FedInv
    <2>2. \A x \in net' : (ToPeer(x))'
      BY <1>1, <1>3, <2>1 DEF ToPeer, Ack
    <2>3. (ToPeer(lastPacket))'
      BY <1>1, <1>2, <1>3 DEF ToPeer, Ack, FedInv
    <2> QED BY <2>2, <2>3
  <1>7. OneSessionFed'
    <2> SUFFICES ASSUME NEW t \in Tids, srv[t].pos > 1 PROVE t = peer'
      BY DEF OneSessionFed
    <2>1. t = peer /\ peer # NoPeer
      BY PeerAssumption DEF FedInv, OneSessionFed
    <2> QED BY <1>2, <2>1
  <1> QED BY <1>1, <1>6, <1>7 DEF FedInv

\* A session that was not latched gets no ACK, and stays where it is.
LEMMA AnswerFed == ASSUME FetchInv, FedInv, Answer PROVE FedInv'
  <1>1. UNCHANGED <<peer, out, lastPacket>>
    BY DEF Answer, client
  <1>2. PICK m \in net :
          /\ m.op = "ACK" /\ m.dst \in Tids
          /\ \A x \in net' : x \in net \/ x.op = "DATA"
          /\ \/ UNCHANGED srv
             \/ srv' = [srv EXCEPT ![m.dst] = [pos |-> srv[m.dst].pos + 1, blk |-> WrappingNext(srv[m.dst].blk)]]
    BY DEF Answer, Received, DataOf, Data
  <1>3. m.dst = peer
    BY <1>2 DEF FedInv, ToPeer
  <1>4. \A x \in net' : ToPeer(x)'
    BY <1>1, <1>2 DEF FedInv, ToPeer
  <1>5. ASSUME NEW t \in Tids, t # peer PROVE srv'[t] = srv[t]
    BY <1>2, <1>3, <1>5 DEF FetchInv, TypeOK
  <1>6. OneSessionFed'
    BY <1>1, <1>5 DEF FedInv, OneSessionFed
  <1> QED BY <1>1, <1>4, <1>6 DEF FedInv, ToPeer

LEMMA OpenSessionFed == ASSUME FetchInv, FedInv, OpenSession PROVE FedInv'
  <1>0. PICK t \in Tids : /\ srv[t].pos = 0
                          /\ srv' = [srv EXCEPT ![t] = [pos |-> 1, blk |-> 1]]
                          /\ net' = Received(net, Request) \cup {DataOf(t, srv'[t])}
    BY DEF OpenSession
  <1>1. \A x \in net' : x \in net \/ x.op = "DATA"
    BY <1>0 DEF Received, DataOf, Data
  <1>2. UNCHANGED <<peer, out, lastPacket>>
    BY DEF OpenSession, client
  <1>3. ASSUME NEW u \in Tids, srv'[u].pos > 1 PROVE u = peer
    <2>1. CASE u = t
      BY <1>0, <1>3, <2>1 DEF FetchInv, TypeOK
    <2>2. CASE u # t
      BY <1>0, <1>3, <2>2 DEF FetchInv, TypeOK, FedInv, OneSessionFed
    <2> QED BY <2>1, <2>2
  <1> QED BY <1>1, <1>2, <1>3 DEF FedInv, ToPeer, OneSessionFed

LEMMA NextFed == FetchInv /\ FedInv /\ [Next]_vars => FedInv'
  <1> SUFFICES ASSUME FetchInv, FedInv, [Next]_vars PROVE FedInv'
    OBVIOUS
  <1>1. CASE Receive
    <2>1. PICK m \in net : Ignore(m) \/ Reack(m) \/ Accept(m) \/ Abort(m)
      BY <1>1 DEF Receive
    <2>2. result = "running" /\ UNCHANGED srv
      BY <1>1 DEF Receive
    <2>3. CASE Ignore(m) \/ Abort(m)
      BY <2>2, <2>3, FedAlike DEF Ignore, Abort, client, Received
    <2>4. CASE Reack(m)
      BY <2>2, <2>4, ReackFed
    <2>5. CASE Accept(m)
      BY <2>2, <2>5, AcceptFed
    <2> QED BY <2>1, <2>3, <2>4, <2>5
  <1>2. CASE Timeout
    BY <1>2, FedAlike DEF Timeout, Resend, FedInv
  <1>3. CASE IoError
    BY <1>3, FedAlike DEF IoError
  <1>4. CASE OpenSession
    BY <1>4, OpenSessionFed
  <1>5. CASE Refuse
    <2>1. \A x \in net' : x \in net \/ x.op = "ERROR"
      BY <1>5 DEF Refuse, Received, ErrorTo
    <2> QED BY <1>5, <2>1, FedAlike DEF Refuse, client, ToPeer
  <1>6. CASE Answer
    BY <1>6, AnswerFed
  <1>7. CASE Lose
    BY <1>7, FedAlike DEF Lose, client
  <1>8. CASE Finished \/ UNCHANGED vars
    BY <1>8, FedAlike DEF Finished, vars
  <1> QED BY <1>1, <1>2, <1>3, <1>4, <1>5, <1>6, <1>7, <1>8 DEF Next

LEMMA InitFed == Init => FedInv
  BY DEF Init, FedInv, ToPeer, OneSessionFed, Strays, Request, Data, ErrorTo

\* The source check of tftp::fetch keeps a transfer to one session: one that a resent
\* or duplicated request opened never gets past its first block, however many there are.
THEOREM OthersNeverFed == Spec => []OneSessionFed
  <1>1. Init => FetchInv /\ FedInv
    BY InitInv, InitFed
  <1>2. (FetchInv /\ FedInv) /\ [Next]_vars => (FetchInv /\ FedInv)'
    BY NextInv, NextFed
  <1>3. FetchInv /\ FedInv => OneSessionFed
    BY DEF FedInv
  <1> QED BY <1>1, <1>2, <1>3, PTL DEF Spec
=============================================================================
