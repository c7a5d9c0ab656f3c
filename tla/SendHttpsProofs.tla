--------------------------- MODULE SendHttpsProofs ---------------------------
(***************************************************************************)
(* TLAPS proofs about version routing: for every number of threads, every   *)
(* mixture of requests and every size of the pool, a request is written     *)
(* only to peers that were verified on its own terms, a parked connection   *)
(* is one that nobody uses, and a request goes over the versions it asks    *)
(* for, in their order and no more often than the fallbacks account for.    *)
(***************************************************************************)
EXTENDS SendHttps, FiniteSetTheorems, TLAPS

Slots == {1, 2}
\* The program counters at which a call has a connection, and all of them.
Holding == {"pooledWrite", "pooledRead", "coldWrite", "coldRead", "release",
            "batchWrite", "batchRead", "batchRelease"}
Pcs == Holding \cup {"start", "h1", "h1Fresh", "h2", "h3", "dial", "batch", "batchDial", "done"}
Http == {"h1", "h2", "h3"}
CallType == [pc : Pcs, i : Slots, conn : Conns \cup {NoConn}, results : [Slots -> Http \cup {"none", "err", "noh2"}]]
ConnType == [state : {"gone", "open", "goaway", "nostreams", "closed"}, ids : Int,
             told : {"nothing", "goaway", "nostreams"}, posture : Postures,
             inbox : SUBSET Conns, outbox : SUBSET Conns]
TryType == [version : Http, posture : Postures]

CallsTyped == req \in [Calls -> Requests] /\ call \in [Calls -> CallType]
ConnsTyped == conn \in [Conns -> ConnType]
TriesTyped == tries \in [Calls -> [Slots -> Seq(TryType)]]

\* A call's connection was made on its terms; by itself, unless they are the default ones.
Terms(r) == req[r].posture
Mine ==
    \A r \in Calls : call[r].conn # NoConn =>
        /\ conn[call[r].conn].posture = Terms(r) /\ Terms(call[r].conn[1]) = Terms(r)
        /\ Terms(r) # "default" => call[r].conn[1] = r

\* What is parked was made on the default terms.
ParkedDefault ==
    pool \in Seq(Conns) /\ \A k \in DOMAIN pool :
        conn[pool[k]].posture = "default" /\ Terms(pool[k][1]) = "default"

HasConn == \A r \in Calls : call[r].pc \in Holding <=> call[r].conn # NoConn

Shared == CallsTyped /\ ConnsTyped /\ HasConn /\ Mine /\ ParkedDefault
TermsInv == Shared /\ TriesTyped /\ VerifiedAsAsked

LEMMA ConnsArePairs == \A c \in Conns : c[1] \in Calls /\ c[2] \in Slots /\ c # NoConn
  BY DEF Conns, NoConn, Slots

LEMMA TermsTyped == CallsTyped => \A r \in Calls : Terms(r) \in Postures
  BY SendHttpsAssumption DEF CallsTyped, Terms, RequestType

LEMMA GoneTyped == Gone \in ConnType /\ Gone.posture = "default"
  BY DEF Gone, ConnType, Postures

LEMMA EligibleIsDefault == \A r \in Calls : PoolEligible(req[r]) <=> Terms(r) = "default"
  BY DEF PoolEligible, Terms

LEMMA SizeIs == \A q : Size(q) \in Slots
  BY DEF Size, Slots

\* Requests that are written to a peer verified on their terms keep the history in order.
LEMMA WrittenKeeps ==
    ASSUME CallsTyped, TriesTyped, VerifiedAsAsked, UNCHANGED req,
           NEW r \in Calls, NEW version \in Http, NEW flight,
           tries' = [tries EXCEPT ![r] = [i \in {1, 2} |->
               IF i \in flight THEN Append(@[i], [version |-> version, posture |-> Terms(r)]) ELSE @[i]]]
    PROVE  TriesTyped' /\ VerifiedAsAsked'
  <1> DEFINE Try == [version |-> version, posture |-> Terms(r)]
  <1>1. Try \in TryType
    BY TermsTyped DEF TryType
  <1>2. tries' = [tries EXCEPT ![r] = [i \in Slots |->
                      IF i \in flight THEN Append(tries[r][i], Try) ELSE tries[r][i]]]
    BY DEF Slots, TriesTyped
  <1> HIDE DEF Try
  <1>3. TriesTyped'
    <2> DEFINE S == Seq(TryType)
    <2>1. \A i \in Slots : tries[r][i] \in S /\ Append(tries[r][i], Try) \in S
      BY <1>1 DEF TriesTyped
    <2> HIDE DEF S
    <2>2. [i \in Slots |-> IF i \in flight THEN Append(tries[r][i], Try) ELSE tries[r][i]] \in [Slots -> S]
      <3> SUFFICES ASSUME NEW i \in Slots
                   PROVE  (IF i \in flight THEN Append(tries[r][i], Try) ELSE tries[r][i]) \in S
        OBVIOUS
      <3> QED BY <2>1
    <2>3. tries \in [Calls -> [Slots -> S]]
      BY DEF TriesTyped, S
    <2>4. tries' \in [Calls -> [Slots -> S]]
      BY <1>2, <2>2, <2>3
    <2> QED BY <2>4 DEF TriesTyped, S
  <1>4. ASSUME NEW q \in Calls, NEW i \in Slots, NEW k \in DOMAIN tries'[q][i]
        PROVE  tries'[q][i][k].posture = Terms(q)
    <2>1. CASE tries'[q][i] = tries[q][i]
      BY <2>1, <1>4 DEF VerifiedAsAsked, Terms, Slots
    <2>2. CASE q = r /\ tries'[q][i] = Append(tries[q][i], Try)
      <3>1. tries[q][i] \in Seq(TryType)
        BY DEF TriesTyped
      <3>2. CASE k = Len(tries[q][i]) + 1
        BY <2>2, <3>1, <3>2, <1>1 DEF Try
      <3>3. CASE k \in DOMAIN tries[q][i]
        BY <2>2, <3>1, <3>3, <1>1 DEF VerifiedAsAsked, Terms, Slots
      <3> QED BY <2>2, <3>1, <3>2, <3>3, <1>1
    <2> QED BY <1>2, <2>1, <2>2 DEF TriesTyped
  <1>5. VerifiedAsAsked'
    BY <1>4 DEF VerifiedAsAsked, Terms, Slots
  <1> QED BY <1>3, <1>5

\* A call that goes elsewhere with the connection it has, none, or a parked one; it may
\* park the one it has.
Kept(r, parked) ==
    /\ parked \in Seq(Conns)
    /\ \A k \in DOMAIN parked :
          \/ \E j \in DOMAIN pool : parked[k] = pool[j]
          \/ parked[k] = call[r].conn /\ call[r].conn # NoConn /\ Terms(r) = "default"

LEMMA MovesKeep ==
    ASSUME Shared, NEW r \in Calls, UNCHANGED req, Kept(r, pool'), call' \in [Calls -> CallType],
           \A q \in Calls \ {r} : call'[q] = call[q],
           \/ call'[r].conn \in {call[r].conn, NoConn}
           \/ Terms(r) = "default" /\ \E j \in DOMAIN pool : call'[r].conn = pool[j],
           call'[r].pc \in Holding <=> call'[r].conn # NoConn,
           conn' \in [Conns -> ConnType], \A c \in Conns : conn'[c].posture = conn[c].posture
    PROVE  Shared'
  <1>1. CallsTyped' /\ ConnsTyped' /\ HasConn'
    BY DEF Shared, CallsTyped, ConnsTyped, HasConn
  <1>2. \A q \in Calls : call[q].conn \in Conns \cup {NoConn}
    BY DEF Shared, CallsTyped, CallType
  <1>3. \A j \in DOMAIN pool : pool[j] \in Conns /\ conn[pool[j]].posture = "default" /\ Terms(pool[j][1]) = "default"
    BY DEF Shared, ParkedDefault
  <1>4. ASSUME NEW q \in Calls, call'[q].conn # NoConn
        PROVE  /\ conn'[call'[q].conn].posture = Terms(q) /\ Terms(call'[q].conn[1]) = Terms(q)
               /\ Terms(q) # "default" => call'[q].conn[1] = q
    <2>1. CASE call'[q].conn = call[q].conn
      BY <1>2, <1>4, <2>1 DEF Shared, Mine
    <2>2. CASE q = r /\ Terms(r) = "default" /\ \E j \in DOMAIN pool : call'[r].conn = pool[j]
      BY <1>3, <2>2
    <2> QED BY <1>4, <2>1, <2>2
  <1>5. Mine'
    BY <1>4 DEF Mine, Terms
  <1>6. ASSUME NEW k \in DOMAIN pool'
        PROVE  conn'[pool'[k]].posture = "default" /\ Terms(pool'[k][1]) = "default"
    <2>1. CASE \E j \in DOMAIN pool : pool'[k] = pool[j]
      BY <1>3, <2>1
    <2>2. CASE pool'[k] = call[r].conn /\ call[r].conn # NoConn /\ Terms(r) = "default"
      BY <1>2, <2>2 DEF Shared, Mine
    <2> QED BY <1>6, <2>1, <2>2 DEF Kept
  <1>7. ParkedDefault'
    BY <1>6 DEF Kept, ParkedDefault, Terms
  <1> QED BY <1>1, <1>5, <1>7 DEF Shared

\* The pool as it is, without its last connection, or with one more.
LEMMA PoolKept ==
    ASSUME Shared, NEW r \in Calls
    PROVE  /\ Kept(r, pool)
           /\ pool # <<>> => /\ Kept(r, Checkout) /\ Last(pool) \in Conns
                             /\ \E j \in DOMAIN pool : Last(pool) = pool[j]
           /\ call[r].conn # NoConn /\ Terms(r) = "default" => Kept(r, Append(pool, call[r].conn))
  <1>1. pool \in Seq(Conns) /\ call[r].conn \in Conns \cup {NoConn}
    BY DEF Shared, ParkedDefault, CallsTyped, CallType
  <1>2. Kept(r, pool)
    BY <1>1 DEF Kept
  <1>3. ASSUME pool # <<>>
        PROVE  /\ Kept(r, Checkout) /\ Last(pool) \in Conns
               /\ \E j \in DOMAIN pool : Last(pool) = pool[j]
    BY <1>1, <1>3 DEF Kept, Checkout, Front, Last
  <1>4. ASSUME call[r].conn # NoConn, Terms(r) = "default"
        PROVE  Kept(r, Append(pool, call[r].conn))
    BY <1>1, <1>4 DEF Kept
  <1> QED BY <1>2, <1>3, <1>4

\* A connection that is dropped takes nothing from the others.
LEMMA DropKeeps ==
    ASSUME Shared, NEW r \in Calls, NEW c \in Conns, Drop(c), UNCHANGED req, Kept(r, pool'),
           call' \in [Calls -> CallType], \A q \in Calls \ {r} : call'[q] = call[q],
           call'[r].conn = NoConn, call'[r].pc \notin Holding,
           c = call[r].conn \/ conn[c].posture = "default"
    PROVE  Shared'
  <1>1. CallsTyped' /\ HasConn'
    BY DEF Shared, CallsTyped, HasConn
  <1>2. Gone \in ConnType /\ Gone.posture = "default"
    BY GoneTyped
  <1>3. conn' = [conn EXCEPT ![c] = Gone]
    BY DEF Drop
  <1> HIDE DEF Gone
  <1>4. ConnsTyped'
    BY <1>2, <1>3 DEF Shared, ConnsTyped
  <1>5. \A q \in Calls : call[q].conn \in Conns \cup {NoConn}
    BY DEF Shared, CallsTyped, CallType
  <1>6. ASSUME NEW q \in Calls, call'[q].conn # NoConn
        PROVE  /\ conn'[call'[q].conn].posture = Terms(q) /\ Terms(call'[q].conn[1]) = Terms(q)
               /\ Terms(q) # "default" => call'[q].conn[1] = q
    <2>1. q # r /\ call'[q] = call[q] /\ call[q].conn \in Conns
      BY <1>5, <1>6
    <2>2. CASE call[q].conn # c
      BY <1>3, <2>1, <2>2, <1>6 DEF Shared, Mine, ConnsTyped
    <2>3. CASE call[q].conn = c
      <3>1. conn[c].posture = Terms(q)
        BY <2>1, <2>3, <1>6 DEF Shared, Mine
      <3>2. Terms(q) = "default"
        <4>1. CASE c = call[r].conn
          BY <2>1, <2>3, <3>1, <4>1, ConnsArePairs DEF Shared, Mine
        <4>2. CASE conn[c].posture = "default"
          BY <3>1, <4>2
        <4> QED BY <4>1, <4>2
      <3> QED BY <1>2, <1>3, <1>6, <2>1, <2>3, <3>2 DEF Shared, Mine, ConnsTyped
    <2> QED BY <2>2, <2>3
  <1>7. Mine'
    BY <1>6 DEF Mine, Terms
  <1>8. ParkedDefault'
    <2>1. \A j \in DOMAIN pool : pool[j] \in Conns /\ conn[pool[j]].posture = "default" /\ Terms(pool[j][1]) = "default"
      BY DEF Shared, ParkedDefault
    <2>2. call[r].conn # NoConn /\ Terms(r) = "default" =>
             conn[call[r].conn].posture = "default" /\ Terms(call[r].conn[1]) = "default"
      BY DEF Shared, Mine
    <2>3. \A d \in Conns : conn[d].posture = "default" => conn'[d].posture = "default"
      BY <1>2, <1>3 DEF Shared, ConnsTyped
    <2>4. ASSUME NEW k \in DOMAIN pool'
          PROVE  conn'[pool'[k]].posture = "default" /\ Terms(pool'[k][1]) = "default"
      BY <1>5, <2>1, <2>2, <2>3 DEF Kept
    <2> QED BY <2>4 DEF Kept, ParkedDefault, Terms
  <1> QED BY <1>1, <1>4, <1>7, <1>8 DEF Shared

\* What is under way on a connection changes, and what the client knows of it.
LEMMA TrafficMoves ==
    ASSUME ConnsTyped, NEW c \in Conns, NEW new \in ConnType, new.posture = conn[c].posture,
           conn' = [conn EXCEPT ![c] = new]
    PROVE  conn' \in [Conns -> ConnType] /\ \A d \in Conns : conn'[d].posture = conn[d].posture
  BY DEF ConnsTyped

Dialled(old, ids, posture) == [old EXCEPT !.state = "open", !.ids = ids, !.posture = posture]
Wrote(old, ids, inbox) == [old EXCEPT !.ids = ids, !.inbox = inbox]
Heard(old, outbox, told) == [old EXCEPT !.outbox = outbox, !.told = told]
Moved(old, inbox, outbox) == [old EXCEPT !.inbox = inbox, !.outbox = outbox]
Limited(old, state, inbox) == [old EXCEPT !.state = state, !.inbox = inbox]

LEMMA DialledTyped ==
    ASSUME NEW old \in ConnType, NEW ids \in Int, NEW posture \in Postures
    PROVE  Dialled(old, ids, posture) \in ConnType /\ Dialled(old, ids, posture).posture = posture
  BY DEF Dialled, ConnType

LEMMA WroteTyped ==
    ASSUME NEW old \in ConnType, NEW ids \in Int, NEW inbox \in SUBSET Conns
    PROVE  Wrote(old, ids, inbox) \in ConnType /\ Wrote(old, ids, inbox).posture = old.posture
  BY DEF Wrote, ConnType

LEMMA HeardTyped ==
    ASSUME NEW old \in ConnType, NEW outbox \in SUBSET Conns, NEW told \in {"nothing", "goaway", "nostreams"}
    PROVE  Heard(old, outbox, told) \in ConnType /\ Heard(old, outbox, told).posture = old.posture
  BY DEF Heard, ConnType

LEMMA MovedTyped ==
    ASSUME NEW old \in ConnType, NEW inbox \in SUBSET Conns, NEW outbox \in SUBSET Conns
    PROVE  Moved(old, inbox, outbox) \in ConnType /\ Moved(old, inbox, outbox).posture = old.posture
  BY DEF Moved, ConnType

LEMMA LimitedTyped ==
    ASSUME NEW old \in ConnType, NEW state \in {"goaway", "nostreams", "closed"}, NEW inbox \in SUBSET Conns
    PROVE  Limited(old, state, inbox) \in ConnType /\ Limited(old, state, inbox).posture = old.posture
  BY DEF Limited, ConnType

\* A call goes to another place, or has the result of one of its requests.
LEMMA GotoMoves ==
    ASSUME CallsTyped, NEW r \in Calls, NEW p \in Pcs, Goto(r, p)
    PROVE  /\ call' \in [Calls -> CallType] /\ \A q \in Calls \ {r} : call'[q] = call[q]
           /\ call'[r].pc = p /\ call'[r].conn = call[r].conn
  BY DEF CallsTyped, CallType, Goto

Put(r, p, c) == call' = [call EXCEPT ![r].pc = p, ![r].conn = c]

LEMMA PutMoves ==
    ASSUME CallsTyped, NEW r \in Calls, NEW p \in Pcs, NEW c \in Conns \cup {NoConn}, Put(r, p, c)
    PROVE  /\ call' \in [Calls -> CallType] /\ \A q \in Calls \ {r} : call'[q] = call[q]
           /\ call'[r].pc = p /\ call'[r].conn = c
  <1> DEFINE d == [call[r] EXCEPT !.pc = p, !.conn = c]
  <1>1. call' = [call EXCEPT ![r] = d]
    BY DEF CallsTyped, Put
  <1>2. call[r] \in CallType
    BY DEF CallsTyped
  <1>3. d \in CallType /\ d.pc = p /\ d.conn = c
    BY <1>2 DEF CallType
  <1> HIDE DEF d
  <1> QED BY <1>1, <1>3 DEF CallsTyped

LEMMA AnswerMoves ==
    ASSUME CallsTyped, NEW r \in Calls, NEW x \in Http \cup {"err", "noh2"}, Answer(r, x)
    PROVE  /\ call' \in [Calls -> CallType] /\ \A q \in Calls \ {r} : call'[q] = call[q]
           /\ call'[r].pc \in {"h2", "done"} /\ call'[r].conn = NoConn
  <1> DEFINE c == call[r]
  <1> DEFINE n == IF c.i < Size(req[r]) THEN c.i + 1 ELSE c.i
  <1> DEFINE p == IF c.i < Size(req[r]) THEN "h2" ELSE "done"
  <1> DEFINE d == [c EXCEPT !.results[c.i] = x, !.i = n, !.pc = p, !.conn = NoConn]
  <1>1. call' = [call EXCEPT ![r] = d]
    BY DEF Answer, CallsTyped
  <1>2. c \in CallType
    BY DEF CallsTyped
  <1>3. n \in Slots
    BY <1>2, SizeIs DEF CallType, Slots
  <1>4. p \in {"h2", "done"} /\ {"h2", "done"} \subseteq Pcs
    BY DEF Pcs
  <1>5. [c.results EXCEPT ![c.i] = x] \in [Slots -> Http \cup {"none", "err", "noh2"}]
    BY <1>2 DEF CallType
  <1> HIDE DEF c, n, p
  <1>6. d \in CallType /\ d.pc = p /\ d.conn = NoConn
    BY <1>2, <1>3, <1>4, <1>5 DEF CallType
  <1> HIDE DEF d
  <1> QED BY <1>1, <1>4, <1>6 DEF CallsTyped

\* A history that nobody writes to.
LEMMA TriesStay ==
    ASSUME TriesTyped, VerifiedAsAsked, UNCHANGED <<req, tries>>
    PROVE  TriesTyped' /\ VerifiedAsAsked'
  BY DEF TriesTyped, VerifiedAsAsked

LEMMA InitTerms == Init => TermsInv
  <1> SUFFICES ASSUME Init PROVE TermsInv
    OBVIOUS
  <1>1. CallsTyped
    <2>1. <<"none", "none">> \in [Slots -> Http \cup {"none", "err", "noh2"}]
      BY DEF Slots
    <2>2. "start" \in Pcs /\ 1 \in Slots
      BY DEF Pcs, Slots
    <2> QED BY <2>1, <2>2 DEF Init, CallsTyped, CallType
  <1>2. ConnsTyped
    BY GoneTyped DEF Init, ConnsTyped
  <1>3. TriesTyped
    <2>1. <<<<>>, <<>>>> \in [Slots -> Seq(TryType)]
      <3> DEFINE e == <<>>
      <3> DEFINE S == Seq(TryType)
      <3>1. e \in S
        OBVIOUS
      <3> HIDE DEF e, S
      <3>2. <<e, e>> \in [Slots -> S]
        BY <3>1 DEF Slots
      <3> QED BY <3>2 DEF e, S
    <2> QED BY <2>1 DEF Init, TriesTyped
  <1>4. HasConn /\ Mine
    BY DEF Init, HasConn, Mine, Holding
  <1>5. ParkedDefault
    BY DEF Init, ParkedDefault
  <1>6. VerifiedAsAsked
    BY DEF Init, VerifiedAsAsked
  <1> QED BY <1>1, <1>2, <1>3, <1>4, <1>5, <1>6 DEF TermsInv, Shared

LEMMA StartKeeps == ASSUME TermsInv, NEW r \in Calls, Start(r) PROVE TermsInv'
  <1>0. call[r].conn = NoConn
    BY DEF TermsInv, Shared, HasConn, Start, At, Holding
  <1>1. PICK p \in Pcs \ Holding : Goto(r, p)
    BY DEF Start, Pcs, Holding
  <1>2. Shared'
    BY <1>1, <1>0, GotoMoves, MovesKeep, PoolKept DEF Start, TermsInv, Shared, ConnsTyped
  <1> QED BY <1>2, TriesStay DEF Start, TermsInv

LEMMA Http3Keeps == ASSUME TermsInv, NEW r \in Calls, Http3(r) PROVE TermsInv'
  <1>0. call[r].conn = NoConn
    BY DEF TermsInv, Shared, HasConn, Http3, At, Holding
  <1>1. \/ \E p \in Pcs \ Holding : Goto(r, p)
        \/ \E x \in Http \cup {"err", "noh2"} : Answer(r, x)
    BY DEF Http3, Pcs, Holding, Http
  <1>2. Shared'
    <2>1. CASE \E p \in Pcs \ Holding : Goto(r, p)
      BY <2>1, <1>0, GotoMoves, MovesKeep, PoolKept DEF Http3, TermsInv, Shared, ConnsTyped
    <2>2. CASE \E x \in Http \cup {"err", "noh2"} : Answer(r, x)
      BY <2>2, AnswerMoves, MovesKeep, PoolKept DEF Http3, TermsInv, Shared, ConnsTyped, Holding
    <2> QED BY <1>1, <2>1, <2>2
  <1>3. TriesTyped' /\ VerifiedAsAsked'
    <2>1. CASE UNCHANGED tries
      BY <2>1, TriesStay DEF Http3, TermsInv
    <2>2. CASE Written(r, "h3", Terms(r))
      BY <2>2, WrittenKeeps DEF Http3, Written, TermsInv, Shared, Http
    <2> QED BY <2>1, <2>2 DEF Http3, Terms
  <1> QED BY <1>2, <1>3 DEF TermsInv

\* A request that goes over HTTP/1.1 takes a parked connection only on the default terms.
LEMMA Http1Keeps == ASSUME TermsInv, NEW r \in Calls, Http1(r) PROVE TermsInv'
  <1>0. call[r].conn = NoConn
    BY DEF TermsInv, Shared, HasConn, Http1, At, Holding
  <1>1. \/ \E p \in Pcs \ Holding : Goto(r, p)
        \/ \E x \in Http \cup {"err", "noh2"} : Answer(r, x)
    BY DEF Http1, Pcs, Holding, Http
  <1>2. Shared'
    <2>1. CASE \E p \in Pcs \ Holding : Goto(r, p)
      BY <2>1, <1>0, GotoMoves, MovesKeep, PoolKept DEF Http1, TermsInv, Shared, ConnsTyped
    <2>2. CASE \E x \in Http \cup {"err", "noh2"} : Answer(r, x)
      BY <2>2, AnswerMoves, MovesKeep, PoolKept DEF Http1, TermsInv, Shared, ConnsTyped, Holding
    <2> QED BY <1>1, <2>1, <2>2
  <1>3. TriesTyped' /\ VerifiedAsAsked'
    <2>1. CASE UNCHANGED tries
      BY <2>1, TriesStay DEF Http1, TermsInv
    <2>2. CASE Written(r, "h1", Terms(r))
      BY <2>2, WrittenKeeps DEF Http1, Written, TermsInv, Shared, Http
    <2> QED BY <2>1, <2>2, EligibleIsDefault DEF Http1, Terms
  <1> QED BY <1>2, <1>3 DEF TermsInv

\* A parked connection is taken on the default terms only.
LEMMA TakeKeeps == ASSUME TermsInv, NEW r \in Calls, TakePooled(r) PROVE TermsInv'
  <1>1. TriesTyped' /\ VerifiedAsAsked'
    BY TriesStay DEF TakePooled, TermsInv
  <1>2. Shared'
    <2>0. call[r].conn = NoConn
      BY DEF TermsInv, Shared, HasConn, TakePooled, At, Holding
    <2>1. CASE ~PoolEligible(req[r]) \/ pool = <<>>
      <3>1. PICK p \in Pcs \ Holding : Goto(r, p)
        BY <2>1 DEF TakePooled, Pcs, Holding
      <3>2. UNCHANGED <<req, pool, conn>>
        BY <2>1 DEF TakePooled
      <3> QED BY <2>0, <3>1, <3>2, GotoMoves, MovesKeep, PoolKept DEF TermsInv, Shared, ConnsTyped
    <2>2. CASE ~(~PoolEligible(req[r]) \/ pool = <<>>) /\ IsUsable(Last(pool))
      <3>1. PICK p \in Holding : Put(r, p, Last(pool))
        BY <2>2 DEF TakePooled, Holding, Put
      <3>2. UNCHANGED <<req, conn>> /\ pool' = Checkout
        BY <2>2 DEF TakePooled
      <3>3. Kept(r, pool') /\ Last(pool) \in Conns /\ \E j \in DOMAIN pool : Last(pool) = pool[j]
        BY <2>2, <3>2, PoolKept DEF TermsInv
      <3>4. /\ call' \in [Calls -> CallType] /\ \A q \in Calls \ {r} : call'[q] = call[q]
            /\ call'[r].conn = Last(pool) /\ call'[r].pc = p
        <4>1. p \in Pcs
          BY DEF Pcs
        <4> QED BY <3>1, <3>3, <4>1, PutMoves DEF TermsInv, Shared
      <3> QED BY <2>2, <3>1, <3>2, <3>3, <3>4, EligibleIsDefault, MovesKeep, ConnsArePairs DEF TermsInv, Shared, ConnsTyped
    <2>3. CASE ~(~PoolEligible(req[r]) \/ pool = <<>>) /\ ~IsUsable(Last(pool))
      <3>1. PICK p \in Pcs \ Holding : Goto(r, p)
        BY <2>3 DEF TakePooled, Pcs, Holding
      <3>2. UNCHANGED req /\ pool' = Checkout /\ Drop(Last(pool))
        BY <2>3 DEF TakePooled
      <3>3. Kept(r, pool') /\ Last(pool) \in Conns /\ conn[Last(pool)].posture = "default"
        BY <2>3, <3>2, PoolKept DEF TermsInv, Shared, ParkedDefault
      <3> QED BY <2>0, <3>1, <3>2, <3>3, GotoMoves, DropKeeps DEF TermsInv, Shared
    <2> QED BY <2>1, <2>2, <2>3
  <1> QED BY <1>1, <1>2 DEF TermsInv

\* A fresh connection is made on the terms of the call that dials it: whoever still
\* holds one of the same place has these terms, too.
LEMMA DialKeeps == ASSUME TermsInv, NEW r \in Calls, Dial(r) PROVE TermsInv'
  <1>1. TriesTyped' /\ VerifiedAsAsked'
    BY TriesStay DEF Dial, TermsInv
  <1>0. call[r].conn = NoConn
    BY DEF TermsInv, Shared, HasConn, Dial, At, Holding
  <1> DEFINE c == <<r, call[r].i>>
  <1> DEFINE new == [Gone EXCEPT !.state = "open", !.ids = StreamIds, !.posture = req[r].posture]
  <1>2. c \in Conns /\ c[1] = r /\ c # NoConn
    BY DEF Conns, NoConn, TermsInv, Shared, CallsTyped, CallType, Slots
  <1>3. CASE /\ conn' = [conn EXCEPT ![c] = new]
             /\ call' = [call EXCEPT ![r].pc = IF At(r, {"dial"}) THEN "coldWrite" ELSE "batchWrite", ![r].conn = c]
    <2>1. new \in ConnType /\ new.posture = Terms(r)
      <3>1. req[r].posture \in Postures
        BY TermsTyped DEF TermsInv, Shared, Terms
      <3>2. StreamIds \in Int
        BY SendHttpsAssumption
      <3>3. new = Dialled(Gone, StreamIds, req[r].posture)
        BY DEF Dialled
      <3> HIDE DEF new, Gone
      <3> QED BY <3>1, <3>2, <3>3, GoneTyped, DialledTyped DEF Terms
    <2>2. UNCHANGED <<req, pool>>
      BY DEF Dial
    <2> HIDE DEF new, c
    <2>3. PICK p \in Holding : Put(r, p, c)
      BY <1>3 DEF Holding, Put
    <2>4. /\ call' \in [Calls -> CallType] /\ \A q \in Calls \ {r} : call'[q] = call[q]
          /\ call'[r].conn = c /\ call'[r].pc = p
      <3>1. p \in Pcs
        BY DEF Pcs
      <3>2. c \in Conns \cup {NoConn} /\ CallsTyped
        BY <1>2 DEF TermsInv, Shared
      <3> QED BY <2>3, <3>1, <3>2, PutMoves
    <2>5. CallsTyped' /\ ConnsTyped' /\ HasConn'
      BY <1>2, <1>3, <2>1, <2>2, <2>4 DEF TermsInv, Shared, CallsTyped, ConnsTyped, HasConn
    <2>6. conn'[c].posture = Terms(r) /\ \A d \in Conns \ {c} : conn'[d] = conn[d]
      BY <1>2, <1>3, <2>1 DEF TermsInv, Shared, ConnsTyped
    <2>7. ASSUME NEW q \in Calls, call'[q].conn # NoConn
          PROVE  /\ conn'[call'[q].conn].posture = Terms(q) /\ Terms(call'[q].conn[1]) = Terms(q)
                 /\ Terms(q) # "default" => call'[q].conn[1] = q
      <3>1. CASE q = r
        BY <1>2, <2>4, <2>6, <3>1
      <3>2. CASE q # r
        <4>1. /\ call'[q].conn = call[q].conn /\ call[q].conn \in Conns
              /\ conn[call[q].conn].posture = Terms(q) /\ Terms(call[q].conn[1]) = Terms(q)
              /\ Terms(q) # "default" => call[q].conn[1] = q
          BY <2>4, <2>7, <3>2 DEF TermsInv, Shared, Mine, CallsTyped, CallType
        <4>2. conn'[call[q].conn].posture = Terms(q)
          BY <1>2, <2>6, <4>1
        <4> QED BY <4>1, <4>2
      <3> QED BY <3>1, <3>2
    <2>8. Mine'
      BY <2>2, <2>7 DEF Mine, Terms
    <2>9. ParkedDefault'
      <3>1. ASSUME NEW k \in DOMAIN pool
            PROVE  conn'[pool[k]].posture = "default" /\ Terms(pool[k][1]) = "default"
        <4>1. pool[k] \in Conns /\ conn[pool[k]].posture = "default" /\ Terms(pool[k][1]) = "default"
          BY DEF TermsInv, Shared, ParkedDefault
        <4> QED BY <1>2, <2>6, <4>1
      <3> QED BY <2>2, <3>1 DEF TermsInv, Shared, ParkedDefault, Terms
    <2> QED BY <1>1, <2>5, <2>8, <2>9 DEF Shared, TermsInv
  <1>4. CASE \/ \E p \in Pcs \ Holding : Goto(r, p) /\ UNCHANGED conn
             \/ \E x \in Http \cup {"err", "noh2"} : Answer(r, x) /\ UNCHANGED conn
    <2>1. UNCHANGED <<req, pool, conn>>
      BY <1>4 DEF Dial
    <2>2. Shared'
      <3>1. CASE \E p \in Pcs \ Holding : Goto(r, p)
        BY <2>1, <3>1, <1>0, GotoMoves, MovesKeep, PoolKept DEF TermsInv, Shared, ConnsTyped
      <3>2. CASE \E x \in Http \cup {"err", "noh2"} : Answer(r, x)
        BY <2>1, <3>2, AnswerMoves, MovesKeep, PoolKept DEF TermsInv, Shared, ConnsTyped, Holding
      <3> QED BY <1>4, <3>1, <3>2
    <2> QED BY <1>1, <2>2 DEF TermsInv
  <1>5. \/ /\ conn' = [conn EXCEPT ![c] = new]
           /\ call' = [call EXCEPT ![r].pc = IF At(r, {"dial"}) THEN "coldWrite" ELSE "batchWrite", ![r].conn = c]
        \/ \E p \in Pcs \ Holding : Goto(r, p) /\ UNCHANGED conn
        \/ \E x \in Http \cup {"err", "noh2"} : Answer(r, x) /\ UNCHANGED conn
    BY DEF Dial, Pcs, Holding, NotNegotiated
  <1> QED BY <1>3, <1>4, <1>5

\* The exchange of a single request fails: its connection goes.
LEMMA FailKeeps ==
    ASSUME Shared, NEW r \in Calls, call[r].pc \in Holding, FailSingle(r), UNCHANGED <<req, pool>>
    PROVE  Shared'
  <1> DEFINE c == call[r].conn
  <1>1. c \in Conns /\ Kept(r, pool') /\ Drop(c)
    BY PoolKept DEF Shared, HasConn, CallsTyped, CallType, FailSingle
  <1>2. /\ call' \in [Calls -> CallType] /\ \A q \in Calls \ {r} : call'[q] = call[q]
        /\ call'[r].conn = NoConn /\ call'[r].pc \notin Holding
    <2>1. CASE Put(r, "dial", NoConn)
      <3>1. "dial" \in Pcs \ Holding
        BY DEF Pcs, Holding
      <3> QED BY <2>1, <3>1, PutMoves DEF Shared
    <2>2. CASE Answer(r, "err")
      BY <2>2, AnswerMoves DEF Shared, Holding
    <2> QED BY <2>1, <2>2 DEF FailSingle, Put
  <1> HIDE DEF c
  <1> QED BY <1>1, <1>2, DropKeeps DEF c

\* A request is written on the terms of the connection, which are those of the call.
LEMMA WriteRequestKeeps == ASSUME TermsInv, NEW r \in Calls, WriteRequest(r) PROVE TermsInv'
  <1> DEFINE c == call[r].conn
  <1>1. call[r].pc \in Holding /\ c # NoConn /\ c \in Conns
    BY DEF TermsInv, Shared, HasConn, CallsTyped, CallType, WriteRequest, At, Holding
  <1>2. CASE OpensStream(c)
    <2>1. UNCHANGED <<req, pool>> /\ Written(r, "h2", conn[c].posture)
      BY <1>2 DEF WriteRequest
    <2>2. conn[c].posture = Terms(r)
      BY <1>1 DEF TermsInv, Shared, Mine
    <2>3. TriesTyped' /\ VerifiedAsAsked'
      BY <2>1, <2>2, WrittenKeeps DEF Written, TermsInv, Shared, Http
    <2>4. PICK p \in Holding : Goto(r, p)
      BY <1>2 DEF WriteRequest, Holding
    <2>5. /\ call' \in [Calls -> CallType] /\ \A q \in Calls \ {r} : call'[q] = call[q]
          /\ call'[r].conn = c /\ call'[r].pc = p
      <3>1. p \in Pcs
        BY DEF Pcs
      <3> QED BY <2>4, <3>1, GotoMoves DEF TermsInv, Shared
    <2>6. conn' \in [Conns -> ConnType] /\ \A d \in Conns : conn'[d].posture = conn[d].posture
      <3> DEFINE box == IF conn[c].state = "open" THEN conn[c].inbox \cup {<<r, call[r].i>>} ELSE conn[c].inbox
      <3>1. conn[c] \in ConnType
        BY <1>1 DEF TermsInv, Shared, ConnsTyped
      <3>2. <<r, call[r].i>> \in Conns
        BY DEF TermsInv, Shared, CallsTyped, CallType, Conns, Slots
      <3>3. box \in SUBSET Conns
        BY <3>1, <3>2 DEF ConnType
      <3> DEFINE ids == conn[c].ids - 1
      <3> DEFINE new == Wrote(conn[c], ids, box)
      <3>4. conn' = [conn EXCEPT ![c] = new]
        BY <1>1, <1>2 DEF WriteRequest, Wrote, TermsInv, Shared, ConnsTyped
      <3>5. ids \in Int
        BY <3>1 DEF ConnType
      <3> HIDE DEF box, ids
      <3>6. new \in ConnType /\ new.posture = conn[c].posture
        BY <3>1, <3>3, <3>5, WroteTyped
      <3> HIDE DEF new, c
      <3> QED BY <1>1, <3>4, <3>6, TrafficMoves DEF TermsInv, Shared
    <2>7. Shared'
      BY <1>1, <2>1, <2>5, <2>6, MovesKeep, PoolKept DEF TermsInv
    <2> QED BY <2>3, <2>7 DEF TermsInv
  <1>3. CASE ~OpensStream(c)
    <2>1. FailSingle(r) /\ UNCHANGED <<req, tries, pool>>
      BY <1>3 DEF WriteRequest
    <2> QED BY <1>1, <2>1, FailKeeps, TriesStay DEF TermsInv
  <1> QED BY <1>2, <1>3

LEMMA ReadFailsKeeps == ASSUME TermsInv, NEW r \in Calls, ReadFails(r) PROVE TermsInv'
  <1>1. call[r].pc \in Holding
    BY DEF ReadFails, At, Holding
  <1> QED BY <1>1, FailKeeps, TriesStay DEF ReadFails, TermsInv

LEMMA ToldTyped ==
    ASSUME ConnsTyped, NEW c \in Conns PROVE Told(c) \subseteq {"nothing", "goaway", "nostreams"}
  BY DEF ConnsTyped, ConnType, Told

LEMMA ReadResponseKeeps == ASSUME TermsInv, NEW r \in Calls, ReadResponse(r) PROVE TermsInv'
  <1> DEFINE c == call[r].conn
  <1>1. call[r].pc \in Holding /\ c # NoConn /\ c \in Conns
    BY DEF TermsInv, Shared, HasConn, CallsTyped, CallType, ReadResponse, At, Holding
  <1>2. UNCHANGED <<req, tries, pool>>
    BY DEF ReadResponse
  <1>3. /\ call' \in [Calls -> CallType] /\ \A q \in Calls \ {r} : call'[q] = call[q]
        /\ call'[r].conn = c /\ call'[r].pc \in Holding
    <2>1. call[r] \in CallType /\ call[r].i \in Slots /\ "release" \in Pcs \cap Holding /\ "h2" \in Http
      BY DEF TermsInv, Shared, CallsTyped, CallType, Pcs, Holding, Http
    <2>2. [call[r].results EXCEPT ![call[r].i] = "h2"] \in [Slots -> Http \cup {"none", "err", "noh2"}]
      BY <2>1 DEF CallType
    <2> DEFINE results == [call[r].results EXCEPT ![call[r].i] = "h2"]
    <2> DEFINE d == [call[r] EXCEPT !.pc = "release", !.results = results]
    <2>3. call' = [call EXCEPT ![r] = d]
      <3>1. call' = [call EXCEPT ![r].pc = "release", ![r].results[call[r].i] = "h2"]
        BY DEF ReadResponse
      <3> QED BY <3>1, <2>1 DEF TermsInv, Shared, CallsTyped, CallType
    <2> HIDE DEF results
    <2>4. d \in CallType /\ d.conn = c /\ d.pc \in Holding
      BY <2>1, <2>2 DEF CallType, results
    <2> HIDE DEF d
    <2> QED BY <2>3, <2>4 DEF TermsInv, Shared, CallsTyped
  <1>4. conn' \in [Conns -> ConnType] /\ \A d \in Conns : conn'[d].posture = conn[d].posture
    <2>1. PICK told \in Told(c) : conn' = [conn EXCEPT ![c].outbox = @ \ {<<r, call[r].i>>}, ![c].told = told]
      BY DEF ReadResponse
    <2>2. told \in {"nothing", "goaway", "nostreams"}
      BY <1>1, ToldTyped DEF TermsInv, Shared
    <2> DEFINE box == conn[c].outbox \ {<<r, call[r].i>>}
    <2> DEFINE new == Heard(conn[c], box, told)
    <2>3. conn' = [conn EXCEPT ![c] = new]
      BY <1>1, <2>1 DEF TermsInv, Shared, ConnsTyped, Heard
    <2>4. conn[c] \in ConnType
      BY <1>1 DEF TermsInv, Shared, ConnsTyped
    <2>5. box \in SUBSET Conns
      BY <2>4 DEF ConnType
    <2> HIDE DEF box
    <2>6. new \in ConnType /\ new.posture = conn[c].posture
      BY <2>2, <2>4, <2>5, HeardTyped
    <2> HIDE DEF new, c
    <2> QED BY <1>1, <2>3, <2>6, TrafficMoves DEF TermsInv, Shared
  <1> HIDE DEF c
  <1>5. Shared'
    BY <1>1, <1>2, <1>3, <1>4, MovesKeep, PoolKept DEF TermsInv, c
  <1> QED BY <1>2, <1>5, TriesStay DEF TermsInv

\* Only a connection of the default terms is parked.
LEMMA ReleaseKeeps == ASSUME TermsInv, NEW r \in Calls, Release(r) PROVE TermsInv'
  <1> DEFINE c == call[r].conn
  <1>1. c # NoConn /\ c \in Conns
    BY DEF TermsInv, Shared, HasConn, CallsTyped, CallType, Release, At, Holding
  <1>2. UNCHANGED <<req, tries>>
    BY DEF Release
  <1>3. /\ call' \in [Calls -> CallType] /\ \A q \in Calls \ {r} : call'[q] = call[q]
        /\ call'[r].conn = NoConn /\ call'[r].pc \notin Holding
    <2>1. CASE Put(r, "done", NoConn)
      <3>1. "done" \in Pcs \ Holding
        BY DEF Pcs, Holding
      <3> QED BY <2>1, <3>1, PutMoves DEF TermsInv, Shared
    <2>2. CASE Answer(r, "h2")
      BY <2>2, AnswerMoves DEF TermsInv, Shared, Http, Holding
    <2> QED BY <2>1, <2>2 DEF Release, Put
  <1>4. \/ PoolEligible(req[r]) /\ pool' = Append(pool, c) /\ UNCHANGED conn
        \/ Drop(c) /\ UNCHANGED pool
    BY DEF Release, Park
  <1>5. Shared'
    <2>1. CASE PoolEligible(req[r]) /\ pool' = Append(pool, c) /\ UNCHANGED conn
      <3>1. Kept(r, pool')
        BY <1>1, <2>1, EligibleIsDefault, PoolKept DEF TermsInv
      <3> QED BY <1>2, <1>3, <2>1, <3>1, MovesKeep DEF TermsInv, Shared, ConnsTyped
    <2>2. CASE Drop(c) /\ UNCHANGED pool
      BY <1>1, <1>2, <1>3, <2>2, DropKeeps, PoolKept DEF TermsInv
    <2> QED BY <1>4, <2>1, <2>2
  <1> QED BY <1>2, <1>5, TriesStay DEF TermsInv

\* A call that has new results, at the same place or the next.
ResultType == Http \cup {"none", "err", "noh2"}
Results(r, p, results) == call' = [call EXCEPT ![r].pc = p, ![r].results = results]

LEMMA ResultsMove ==
    ASSUME CallsTyped, NEW r \in Calls, NEW p \in Pcs, NEW results \in [Slots -> ResultType], Results(r, p, results)
    PROVE  /\ call' \in [Calls -> CallType] /\ \A q \in Calls \ {r} : call'[q] = call[q]
           /\ call'[r].pc = p /\ call'[r].conn = call[r].conn
  <1> DEFINE d == [call[r] EXCEPT !.pc = p, !.results = results]
  <1>1. call' = [call EXCEPT ![r] = d]
    BY DEF CallsTyped, Results
  <1>2. call[r] \in CallType
    BY DEF CallsTyped
  <1>3. d \in CallType /\ d.pc = p /\ d.conn = call[r].conn
    BY <1>2 DEF CallType, ResultType
  <1> HIDE DEF d
  <1> QED BY <1>1, <1>3 DEF CallsTyped

\* All requests of a batch are written to the connection of the batch.
LEMMA WriteBatchKeeps == ASSUME TermsInv, NEW r \in Calls, WriteBatch(r) PROVE TermsInv'
  <1> DEFINE c == call[r].conn
  <1> DEFINE opened == {i \in {1, 2} : conn[c].told = "nothing" /\ i <= conn[c].ids}
  <1>1. c # NoConn /\ c \in Conns /\ conn[c] \in ConnType
    BY DEF TermsInv, Shared, HasConn, CallsTyped, ConnsTyped, CallType, WriteBatch, At, Holding
  <1>2. UNCHANGED <<req, pool>>
    BY DEF WriteBatch
  <1>3. conn[c].posture = Terms(r)
    BY <1>1 DEF TermsInv, Shared, Mine
  <1>4. TriesTyped' /\ VerifiedAsAsked'
    <2>1. tries' = [tries EXCEPT ![r] = [i \in {1, 2} |->
              IF i \in opened THEN Append(@[i], [version |-> "h2", posture |-> Terms(r)]) ELSE @[i]]]
      BY <1>3 DEF WriteBatch
    <2> HIDE DEF opened
    <2> QED BY <1>2, <2>1, WrittenKeeps DEF TermsInv, Shared, Http
  <1>5. /\ call' \in [Calls -> CallType] /\ \A q \in Calls \ {r} : call'[q] = call[q]
        /\ call'[r].conn = c /\ call'[r].pc \in Holding
    <2> DEFINE results == [i \in {1, 2} |-> IF i \in opened THEN "none" ELSE "err"]
    <2>1. Results(r, "batchRead", results)
      BY DEF WriteBatch, Results
    <2>2. "batchRead" \in Pcs /\ "batchRead" \in Holding
      BY DEF Pcs, Holding
    <2> HIDE DEF opened
    <2>3. results \in [Slots -> ResultType]
      BY DEF Slots, ResultType
    <2> HIDE DEF results
    <2> QED BY <2>1, <2>2, <2>3, ResultsMove DEF TermsInv, Shared
  <1>6. conn' \in [Conns -> ConnType] /\ \A d \in Conns : conn'[d].posture = conn[d].posture
    <2> DEFINE box == IF conn[c].state = "open" THEN conn[c].inbox \cup {<<r, i>> : i \in opened} ELSE conn[c].inbox
    <2> DEFINE ids == conn[c].ids - Cardinality(opened)
    <2> DEFINE new == Wrote(conn[c], ids, box)
    <2>1. conn' = [conn EXCEPT ![c] = new]
      <3> DEFINE written == {<<r, i>> : i \in opened}
      <3> DEFINE n == Cardinality(opened)
      <3>1. conn' = [conn EXCEPT ![c].ids = @ - n,
                                 ![c].inbox = IF conn[c].state = "open" THEN @ \cup written ELSE @]
        BY DEF WriteBatch
      <3>2. new = Wrote(conn[c], conn[c].ids - n,
                        IF conn[c].state = "open" THEN conn[c].inbox \cup written ELSE conn[c].inbox)
        OBVIOUS
      <3> HIDE DEF written, n, new, c
      <3> QED BY <1>1, <3>1, <3>2 DEF Wrote, TermsInv, Shared, ConnsTyped, ConnType
    <2>2. {<<r, i>> : i \in opened} \in SUBSET Conns
      BY DEF Conns
    <2>3. Cardinality(opened) \in Nat
      <3>1. IsFiniteSet({1, 2})
        <4>1. IsFiniteSet({1})
          BY FS_Singleton
        <4>2. IsFiniteSet({1} \cup {2})
          BY <4>1, FS_AddElement
        <4>3. {1, 2} = {1} \cup {2}
          OBVIOUS
        <4> QED BY <4>2, <4>3
      <3>2. opened \subseteq {1, 2}
        OBVIOUS
      <3> HIDE DEF opened
      <3> QED BY <3>1, <3>2, FS_Subset, FS_CardinalityType
    <2> HIDE DEF opened
    <2>4. box \in SUBSET Conns /\ ids \in Int
      BY <1>1, <2>2, <2>3 DEF ConnType
    <2> HIDE DEF box, ids
    <2>5. new \in ConnType /\ new.posture = conn[c].posture
      BY <1>1, <2>4, WroteTyped
    <2> HIDE DEF new, c
    <2> QED BY <1>1, <2>1, <2>5, TrafficMoves DEF TermsInv, Shared
  <1> HIDE DEF c
  <1>7. Shared'
    BY <1>1, <1>2, <1>5, <1>6, MovesKeep, PoolKept DEF TermsInv, c
  <1> QED BY <1>4, <1>7 DEF TermsInv

LEMMA ReadBatchKeeps == ASSUME TermsInv, NEW r \in Calls, ReadBatch(r) PROVE TermsInv'
  <1> DEFINE c == call[r].conn
  <1>1. /\ call[r].pc \in Holding /\ call[r].pc \in Pcs /\ c # NoConn /\ c \in Conns
        /\ conn[c] \in ConnType /\ call[r].results \in [Slots -> ResultType] /\ call[r].pc = "batchRead"
    BY DEF TermsInv, Shared, HasConn, CallsTyped, ConnsTyped, CallType, ReadBatch, At, Holding, ResultType
  <1>2. UNCHANGED <<req, tries, pool>>
    BY DEF ReadBatch
  <1>3. CASE Goto(r, "batchRelease") /\ UNCHANGED conn
    <2>1. "batchRelease" \in Pcs /\ "batchRelease" \in Holding
      BY DEF Pcs, Holding
    <2>2. Shared'
      BY <1>1, <1>2, <1>3, <2>1, GotoMoves, MovesKeep, PoolKept DEF TermsInv, Shared, ConnsTyped
    <2> QED BY <1>2, <2>2, TriesStay DEF TermsInv
  <1>4. CASE BatchResponse(r)
    <2>0. PICK i \in Pending(r) : \E told \in Told(c) :
                /\ <<r, i>> \in conn[c].outbox
                /\ conn' = [conn EXCEPT ![c].outbox = @ \ {<<r, i>>}, ![c].told = told]
                /\ call' = [call EXCEPT ![r].results[i] = "h2"]
      BY <1>4 DEF BatchResponse
    <2>1. PICK told \in Told(c) :
                /\ conn' = [conn EXCEPT ![c].outbox = @ \ {<<r, i>>}, ![c].told = told]
                /\ call' = [call EXCEPT ![r].results[i] = "h2"]
      BY <2>0
    <2> DEFINE results == [call[r].results EXCEPT ![i] = "h2"]
    <2>2. i \in Slots /\ results \in [Slots -> ResultType]
      BY <1>1 DEF ResultType, Http, Pending, Slots
    <2>3. Results(r, call[r].pc, results)
      BY <1>1, <2>1 DEF Results, TermsInv, Shared, CallsTyped, CallType
    <2> DEFINE box == conn[c].outbox \ {<<r, i>>}
    <2> DEFINE new == Heard(conn[c], box, told)
    <2>4. conn' = [conn EXCEPT ![c] = new]
      BY <1>1, <2>1 DEF TermsInv, Shared, ConnsTyped, Heard
    <2>5. box \in SUBSET Conns /\ told \in {"nothing", "goaway", "nostreams"}
      BY <1>1, ToldTyped DEF ConnType, TermsInv, Shared
    <2> HIDE DEF box, results
    <2>6. new \in ConnType /\ new.posture = conn[c].posture
      BY <1>1, <2>5, HeardTyped
    <2> HIDE DEF new, c
    <2>7. conn' \in [Conns -> ConnType] /\ \A d \in Conns : conn'[d].posture = conn[d].posture
      BY <1>1, <2>4, <2>6, TrafficMoves DEF TermsInv, Shared
    <2>8. /\ call' \in [Calls -> CallType] /\ \A q \in Calls \ {r} : call'[q] = call[q]
          /\ call'[r].conn = c /\ call'[r].pc \in Holding
      BY <1>1, <2>2, <2>3, ResultsMove DEF TermsInv, Shared, c
    <2>9. Shared'
      BY <1>1, <1>2, <2>7, <2>8, MovesKeep, PoolKept DEF TermsInv, c
    <2> QED BY <1>2, <2>9, TriesStay DEF TermsInv
  <1>5. CASE BatchError(r)
    <2>1. PICK failed :
                /\ conn' = [conn EXCEPT ![c].inbox = @ \ {<<r, i>> : i \in failed},
                                        ![c].outbox = @ \ {<<r, i>> : i \in failed}]
                /\ call' = [call EXCEPT ![r].results = [i \in {1, 2} |-> IF i \in failed THEN "err" ELSE @[i]]]
      BY <1>5 DEF BatchError
    <2> DEFINE results == [i \in {1, 2} |-> IF i \in failed THEN "err" ELSE call[r].results[i]]
    <2>2. results \in [Slots -> ResultType]
      BY <1>1 DEF ResultType, Slots
    <2>3. Results(r, call[r].pc, results)
      BY <1>1, <2>1 DEF Results, TermsInv, Shared, CallsTyped, CallType
    <2> DEFINE lost == {<<r, i>> : i \in failed}
    <2> DEFINE inbox == conn[c].inbox \ lost
    <2> DEFINE outbox == conn[c].outbox \ lost
    <2> DEFINE new == Moved(conn[c], inbox, outbox)
    <2>4. conn' = [conn EXCEPT ![c].inbox = @ \ lost, ![c].outbox = @ \ lost]
      BY <2>1
    <2> HIDE DEF lost
    <2>5. conn' = [conn EXCEPT ![c] = new]
      BY <1>1, <2>4 DEF TermsInv, Shared, ConnsTyped, ConnType, Moved
    <2>6. inbox \in SUBSET Conns /\ outbox \in SUBSET Conns
      BY <1>1 DEF ConnType
    <2> HIDE DEF inbox, outbox, results
    <2>7. new \in ConnType /\ new.posture = conn[c].posture
      BY <1>1, <2>6, MovedTyped
    <2> HIDE DEF new, c
    <2>8. conn' \in [Conns -> ConnType] /\ \A d \in Conns : conn'[d].posture = conn[d].posture
      BY <1>1, <2>5, <2>7, TrafficMoves DEF TermsInv, Shared
    <2>9. /\ call' \in [Calls -> CallType] /\ \A q \in Calls \ {r} : call'[q] = call[q]
          /\ call'[r].conn = c /\ call'[r].pc \in Holding
      BY <1>1, <2>2, <2>3, ResultsMove DEF TermsInv, Shared, c
    <2>10. Shared'
      BY <1>1, <1>2, <2>8, <2>9, MovesKeep, PoolKept DEF TermsInv, c
    <2> QED BY <1>2, <2>10, TriesStay DEF TermsInv
  <1> QED BY <1>3, <1>4, <1>5 DEF ReadBatch

\* What a server does changes nothing of whom the client took it for.
LEMMA ServersKeep ==
    ASSUME TermsInv, NEW c \in Conns, NEW new \in ConnType, new.posture = conn[c].posture,
           conn' = [conn EXCEPT ![c] = new], UNCHANGED <<req, call, tries, pool>>
    PROVE  TermsInv'
  <1>1. conn' \in [Conns -> ConnType] /\ \A d \in Conns : conn'[d].posture = conn[d].posture
    BY TrafficMoves DEF TermsInv, Shared
  <1>2. CallsTyped' /\ ConnsTyped' /\ HasConn' /\ TriesTyped' /\ VerifiedAsAsked'
    BY <1>1 DEF TermsInv, Shared, CallsTyped, ConnsTyped, HasConn, TriesTyped, VerifiedAsAsked
  <1>3. Mine'
    <2>1. \A r \in Calls : call[r].conn \in Conns \cup {NoConn}
      BY DEF TermsInv, Shared, CallsTyped, CallType
    <2> QED BY <1>1, <2>1 DEF TermsInv, Shared, Mine, Terms
  <1>4. ParkedDefault'
    <2>1. \A k \in DOMAIN pool : pool[k] \in Conns
      BY DEF TermsInv, Shared, ParkedDefault
    <2> QED BY <1>1, <2>1 DEF TermsInv, Shared, ParkedDefault, Terms
  <1> QED BY <1>2, <1>3, <1>4 DEF TermsInv, Shared

LEMMA HandleKeeps == ASSUME TermsInv, NEW c \in Conns, Handle(c) PROVE TermsInv'
  <1>1. conn[c] \in ConnType
    BY DEF TermsInv, Shared, ConnsTyped
  <1>2. PICK x \in conn[c].inbox : conn' = [conn EXCEPT ![c].inbox = @ \ {x}, ![c].outbox = @ \cup {x}]
    BY DEF Handle
  <1> DEFINE inbox == conn[c].inbox \ {x}
  <1> DEFINE outbox == conn[c].outbox \cup {x}
  <1> DEFINE new == Moved(conn[c], inbox, outbox)
  <1>3. conn' = [conn EXCEPT ![c] = new]
    BY <1>1, <1>2 DEF TermsInv, Shared, ConnsTyped, ConnType, Moved
  <1>4. inbox \in SUBSET Conns /\ outbox \in SUBSET Conns
    BY <1>1, <1>2 DEF ConnType
  <1> HIDE DEF inbox, outbox
  <1>5. new \in ConnType /\ new.posture = conn[c].posture
    BY <1>1, <1>4, MovedTyped
  <1> HIDE DEF new
  <1> QED BY <1>3, <1>5, ServersKeep DEF Handle

LEMMA LimitKeeps == ASSUME TermsInv, NEW c \in Conns, Limit(c) PROVE TermsInv'
  <1>1. conn[c] \in ConnType
    BY DEF TermsInv, Shared, ConnsTyped
  <1>2. PICK s \in {"goaway", "nostreams", "closed"} :
            conn' = [conn EXCEPT ![c].state = s, ![c].inbox = IF s = "nostreams" THEN @ ELSE {}]
    BY DEF Limit
  <1> DEFINE inbox == IF s = "nostreams" THEN conn[c].inbox ELSE {}
  <1> DEFINE new == Limited(conn[c], s, inbox)
  <1>3. conn' = [conn EXCEPT ![c] = new]
    BY <1>1, <1>2 DEF TermsInv, Shared, ConnsTyped, ConnType, Limited
  <1>4. inbox \in SUBSET Conns
    BY <1>1 DEF ConnType
  <1> HIDE DEF inbox
  <1>5. new \in ConnType /\ new.posture = conn[c].posture
    BY <1>1, <1>4, LimitedTyped
  <1> HIDE DEF new
  <1> QED BY <1>3, <1>5, ServersKeep DEF Limit

LEMMA StepKeepsTerms == TermsInv /\ [Next]_vars => TermsInv'
  <1> SUFFICES ASSUME TermsInv, [Next]_vars PROVE TermsInv'
    OBVIOUS
  <1>1. ASSUME NEW r \in Calls, Step(r) PROVE TermsInv'
    BY <1>1, StartKeeps, Http3Keeps, TakeKeeps, DialKeeps, WriteRequestKeeps, ReadResponseKeeps,
       ReadFailsKeeps, ReleaseKeeps, WriteBatchKeeps, ReadBatchKeeps, Http1Keeps DEF Step
  <1>2. ASSUME NEW c \in Conns, Handle(c) \/ Limit(c) PROVE TermsInv'
    BY <1>2, HandleKeeps, LimitKeeps
  <1>3. CASE UNCHANGED vars
    BY <1>3 DEF vars, TermsInv, Shared, CallsTyped, ConnsTyped, HasConn, Mine, ParkedDefault, Terms,
                TriesTyped, VerifiedAsAsked
  <1> QED BY <1>1, <1>2, <1>3 DEF Next, Finished

\* A request is only ever written to a peer whose certificate was verified the way the
\* request asks for (pool_eligible in send and send_multiplexed): with -k or --cacert a
\* connection is dialled, and is never shared.
THEOREM TermsRespected == Spec => []VerifiedAsAsked
  <1>1. TermsInv => VerifiedAsAsked
    BY DEF TermsInv
  <1> QED BY InitTerms, StepKeepsTerms, <1>1, PTL DEF Spec

----------------------------------------------------------------------------
(* The pool shares a connection only when nobody uses it.                   *)

\* The program counters at which a call has not dialled for its current request.
Before == {"start", "h3", "h2", "batch", "dial", "batchDial", "pooledWrite", "pooledRead"}
Undialled(r, j) == j > call[r].i \/ (j = call[r].i /\ call[r].pc \in Before)

\* The requests of a call that are under way on its connection.
Outstanding(r) ==
    IF call[r].pc \in {"pooledRead", "coldRead"} THEN {<<r, call[r].i>>}
    ELSE IF call[r].pc = "batchRead" THEN {<<r, i>> : i \in Pending(r)} ELSE {}
Carries(c, xs) == conn[c].inbox \cup conn[c].outbox \subseteq xs /\ conn[c].inbox \cap conn[c].outbox = {}

\* A connection that a call holds is its own.
Owned ==
    \A r \in Calls : call[r].conn # NoConn =>
        /\ Carries(call[r].conn, Outstanding(r))
        /\ \A q \in Calls : call[q].conn = call[r].conn => q = r
        /\ \A k \in DOMAIN pool : pool[k] # call[r].conn

\* A parked one is quiet, usable, and parked once.
Quiet ==
    \A k \in DOMAIN pool :
        /\ Carries(pool[k], {}) /\ IsUsable(pool[k])
        /\ \A j \in DOMAIN pool : pool[j] = pool[k] => j = k

\* The place of a connection that will be dialled is free.
Free ==
    \A r \in Calls : \A j \in Slots : Undialled(r, j) =>
        /\ \A q \in Calls : call[q].conn # <<r, j>>
        /\ \A k \in DOMAIN pool : pool[k] # <<r, j>>

PoolInv == TermsInv /\ Owned /\ Quiet /\ Free

LEMMA Types ==
    ASSUME PoolInv
    PROVE  /\ call \in [Calls -> CallType] /\ conn \in [Conns -> ConnType] /\ pool \in Seq(Conns)
           /\ \A q \in Calls : call[q].conn \in Conns \cup {NoConn} /\ call[q].i \in Slots
           /\ \A k \in DOMAIN pool : pool[k] \in Conns /\ pool[k] # NoConn
           /\ \A q \in Calls : call[q].pc \in Holding <=> call[q].conn # NoConn
  <1>1. call \in [Calls -> CallType] /\ conn \in [Conns -> ConnType] /\ pool \in Seq(Conns)
    BY DEF PoolInv, TermsInv, Shared, CallsTyped, ConnsTyped, ParkedDefault
  <1>2. \A q \in Calls : call[q].conn \in Conns \cup {NoConn} /\ call[q].i \in Slots
    BY <1>1 DEF CallType
  <1>3. \A k \in DOMAIN pool : pool[k] \in Conns /\ pool[k] # NoConn
    BY <1>1, ConnsArePairs
  <1>4. \A q \in Calls : call[q].pc \in Holding <=> call[q].conn # NoConn
    BY DEF PoolInv, TermsInv, Shared, HasConn
  <1> QED BY <1>1, <1>2, <1>3, <1>4

LEMMA OthersSame ==
    ASSUME NEW q, call'[q] = call[q]
    PROVE  Outstanding(q)' = Outstanding(q) /\ \A j : Undialled(q, j)' <=> Undialled(q, j)
  BY DEF Outstanding, Pending, Undialled

\* What a call does with its own connection, or without one, is nobody else's business.
LEMMA ActsAlone ==
    ASSUME PoolInv, NEW r \in Calls, UNCHANGED pool, \A q \in Calls \ {r} : call'[q] = call[q],
           call'[r].conn \in {call[r].conn, NoConn},
           \A c \in Conns : c # call[r].conn => conn'[c] = conn[c],
           call'[r].conn # NoConn => Carries(call[r].conn, Outstanding(r))',
           \A j \in Slots : Undialled(r, j)' => Undialled(r, j)
    PROVE  Owned' /\ Quiet' /\ Free'
  <1>1. \A q \in Calls : call[q].conn \in Conns \cup {NoConn}
    BY Types
  <1>2. \A k \in DOMAIN pool : pool[k] \in Conns /\ pool[k] # NoConn /\ pool[k] # call[r].conn
    BY Types DEF PoolInv, Owned
  <1>3. Owned'
    <2>1. ASSUME NEW s \in Calls, call'[s].conn # NoConn
          PROVE  /\ Carries(call[s].conn, Outstanding(s))'
                 /\ \A q \in Calls : call'[q].conn = call'[s].conn => q = s
                 /\ \A k \in DOMAIN pool : pool[k] # call'[s].conn
      <3>1. CASE s = r
        <4>1. call'[s].conn = call[s].conn /\ call[s].conn # NoConn
          BY <2>1, <3>1
        <4>2. Carries(call[s].conn, Outstanding(s))'
          BY <2>1, <3>1
        <4>3. \A q \in Calls : call'[q].conn = call'[s].conn => q = s
          BY <3>1, <4>1 DEF PoolInv, Owned
        <4> QED BY <1>2, <3>1, <4>1, <4>2, <4>3
      <3>2. CASE s # r
        <4>1. call'[s] = call[s] /\ call[s].conn # NoConn /\ call[s].conn \in Conns
          BY <1>1, <2>1, <3>2
        <4>2. call[s].conn # call[r].conn
          BY <3>2, <4>1 DEF PoolInv, Owned
        <4>3. Outstanding(s)' = Outstanding(s) /\ conn'[call[s].conn] = conn[call[s].conn]
          BY <4>1, <4>2, OthersSame
        <4>4. Carries(call[s].conn, Outstanding(s))
          BY <4>1 DEF PoolInv, Owned
        <4>5. Carries(call[s].conn, Outstanding(s))'
          BY <4>1, <4>3, <4>4 DEF Carries
        <4>6. \A q \in Calls : call'[q].conn = call'[s].conn => q = s
          BY <4>1, <4>2 DEF PoolInv, Owned
        <4> QED BY <4>1, <4>5, <4>6 DEF PoolInv, Owned
      <3> QED BY <3>1, <3>2
    <2> QED BY <2>1 DEF Owned
  <1>4. Quiet'
    <2>1. \A k \in DOMAIN pool : conn'[pool[k]] = conn[pool[k]]
      BY <1>2
    <2> QED BY <2>1 DEF PoolInv, Quiet, Carries, IsUsable
  <1>5. Free'
    <2>1. ASSUME NEW s \in Calls, NEW j \in Slots, Undialled(s, j)'
          PROVE  Undialled(s, j)
      <3>1. CASE s = r
        BY <2>1, <3>1
      <3>2. CASE s # r
        BY <2>1, <3>2, OthersSame
      <3> QED BY <3>1, <3>2
    <2>2. ASSUME NEW s \in Calls, NEW j \in Slots, Undialled(s, j)', NEW q \in Calls
          PROVE  call'[q].conn # <<s, j>>
      <3>1. call[q].conn # <<s, j>> /\ <<s, j>> # NoConn
        BY <2>1, <2>2 DEF PoolInv, Free, NoConn
      <3> QED BY <3>1
    <2> QED BY <2>1, <2>2 DEF PoolInv, Free
  <1> QED BY <1>3, <1>4, <1>5

\* The place in a batch only ever goes forward, and a call dials once for each.
LEMMA GotoShrinks ==
    ASSUME PoolInv, NEW r \in Calls, NEW p \in Pcs, Goto(r, p), p \in Before => call[r].pc \in Before
    PROVE  \A j \in Slots : Undialled(r, j)' => Undialled(r, j)
  <1>1. call'[r].i = call[r].i /\ call'[r].pc = p
    BY Types DEF Goto, CallType
  <1> QED BY <1>1 DEF Undialled

LEMMA PutShrinks ==
    ASSUME PoolInv, NEW r \in Calls, NEW p \in Pcs, NEW c \in Conns \cup {NoConn}, Put(r, p, c),
           p \in Before => call[r].pc \in Before
    PROVE  call'[r].i = call[r].i /\ \A j \in Slots : Undialled(r, j)' => Undialled(r, j)
  <1>1. call'[r].i = call[r].i /\ call'[r].pc = p
    BY Types DEF Put, CallType
  <1> QED BY <1>1 DEF Undialled

LEMMA AnswerShrinks ==
    ASSUME PoolInv, NEW r \in Calls, NEW x, Answer(r, x)
    PROVE  \A j \in Slots : Undialled(r, j)' => Undialled(r, j)
  <1> DEFINE i == call[r].i
  <1>1. call \in [Calls -> CallType] /\ i \in Slots
    BY Types
  <1>2. \/ i < Size(req[r]) /\ call'[r].i = i + 1
        \/ call'[r].i = i /\ call'[r].pc = "done"
    <2>1. CASE i < Size(req[r])
      BY <1>1, <2>1 DEF Answer, CallType
    <2>2. CASE ~(i < Size(req[r]))
      BY <1>1, <2>2 DEF Answer, CallType
    <2> QED BY <2>1, <2>2
  <1>3. ASSUME NEW j \in Slots, Undialled(r, j)' PROVE Undialled(r, j)
    BY <1>1, <1>2, <1>3 DEF Undialled, Before, Slots
  <1> QED BY <1>3

\* A call without a connection goes elsewhere, or has a result.
LEMMA Wanders ==
    ASSUME PoolInv, NEW r \in Calls, call[r].conn = NoConn, UNCHANGED <<pool, conn>>,
           \/ \E p \in Pcs \ Holding : Goto(r, p) /\ (p \in Before => call[r].pc \in Before)
           \/ \E x \in Http \cup {"err", "noh2"} : Answer(r, x)
    PROVE  Owned' /\ Quiet' /\ Free'
  <1>1. \A q \in Calls \ {r} : call'[q] = call[q]
    BY GotoMoves, AnswerMoves DEF PoolInv, TermsInv, Shared
  <1>2. call'[r].conn = NoConn
    BY GotoMoves, AnswerMoves DEF PoolInv, TermsInv, Shared
  <1>3. \A j \in Slots : Undialled(r, j)' => Undialled(r, j)
    BY GotoShrinks, AnswerShrinks
  <1> QED BY <1>1, <1>2, <1>3, ActsAlone

\* The last connection of the pool, and the others.
LEMMA Popped ==
    ASSUME PoolInv, pool # <<>>
    PROVE  /\ Last(pool) \in Conns /\ Carries(Last(pool), {}) /\ IsUsable(Last(pool))
           /\ \E n \in DOMAIN pool : Last(pool) = pool[n]
           /\ \A q \in Calls : call[q].conn # Last(pool)
           /\ \A k \in DOMAIN Checkout : k \in DOMAIN pool /\ Checkout[k] = pool[k] /\ Checkout[k] # Last(pool)
  <1>1. pool \in Seq(Conns) /\ Len(pool) \in DOMAIN pool /\ Last(pool) = pool[Len(pool)]
    BY Types DEF Last
  <1>2. Last(pool) \in Conns /\ Carries(Last(pool), {}) /\ IsUsable(Last(pool)) /\ Last(pool) # NoConn
    BY <1>1, Types DEF PoolInv, Quiet
  <1>3. \A q \in Calls : call[q].conn # Last(pool)
    BY <1>1, <1>2 DEF PoolInv, Owned
  <1>4. ASSUME NEW k \in DOMAIN Checkout
        PROVE  k \in DOMAIN pool /\ Checkout[k] = pool[k] /\ Checkout[k] # Last(pool)
    <2>1. k \in DOMAIN pool /\ Checkout[k] = pool[k] /\ k # Len(pool)
      BY <1>1, <1>4 DEF Checkout, Front
    <2> QED BY <1>1, <2>1 DEF PoolInv, Quiet
  <1> QED BY <1>1, <1>2, <1>3, <1>4

LEMMA StartPool == ASSUME PoolInv, NEW r \in Calls, Start(r) PROVE Owned' /\ Quiet' /\ Free'
  <1>1. call[r].conn = NoConn /\ call[r].pc \in Before /\ UNCHANGED <<pool, conn>>
    BY Types DEF Start, At, Holding, Before
  <1>2. PICK p \in Pcs \ Holding : Goto(r, p)
    BY DEF Start, Pcs, Holding
  <1> QED BY <1>1, <1>2, Wanders

LEMMA Http3Pool == ASSUME PoolInv, NEW r \in Calls, Http3(r) PROVE Owned' /\ Quiet' /\ Free'
  <1>1. call[r].conn = NoConn /\ call[r].pc \in Before /\ UNCHANGED <<pool, conn>>
    BY Types DEF Http3, At, Holding, Before
  <1>2. \/ \E p \in Pcs \ Holding : Goto(r, p)
        \/ \E x \in Http \cup {"err", "noh2"} : Answer(r, x)
    BY DEF Http3, Pcs, Holding, Http
  <1> QED BY <1>1, <1>2, Wanders

LEMMA Http1Pool == ASSUME PoolInv, NEW r \in Calls, Http1(r) PROVE Owned' /\ Quiet' /\ Free'
  <1>1. call[r].conn = NoConn /\ UNCHANGED <<pool, conn>>
    BY Types DEF Http1, At, Holding
  <1>2. \/ Goto(r, "h1Fresh")
        \/ \E x \in Http \cup {"err", "noh2"} : Answer(r, x)
    BY DEF Http1, Http
  <1>3. "h1Fresh" \in Pcs \ Holding /\ "h1Fresh" \notin Before
    BY DEF Pcs, Holding, Before
  <1> QED BY <1>1, <1>2, <1>3, Wanders

\* A parked connection is taken out of the pool by the call that uses it.
LEMMA TakePool == ASSUME PoolInv, NEW r \in Calls, TakePooled(r) PROVE Owned' /\ Quiet' /\ Free'
  <1>1. call[r].conn = NoConn /\ call[r].pc \in Before
    BY Types DEF TakePooled, At, Holding, Before
  <1>2. CASE ~PoolEligible(req[r]) \/ pool = <<>>
    <2>1. PICK p \in Pcs \ Holding : Goto(r, p)
      BY <1>2 DEF TakePooled, Pcs, Holding
    <2>2. UNCHANGED <<pool, conn>>
      BY <1>2 DEF TakePooled
    <2> QED BY <1>1, <2>1, <2>2, Wanders
  <1>3. CASE ~(~PoolEligible(req[r]) \/ pool = <<>>)
    <2> DEFINE c == Last(pool)
    <2>1. /\ c \in Conns /\ Carries(c, {}) /\ IsUsable(c) /\ c # NoConn
          /\ \E n \in DOMAIN pool : c = pool[n]
          /\ \A q \in Calls : call[q].conn # c
          /\ \A k \in DOMAIN Checkout : k \in DOMAIN pool /\ Checkout[k] = pool[k] /\ Checkout[k] # c
      BY <1>3, Popped, ConnsArePairs
    <2> HIDE DEF c
    <2>2. UNCHANGED conn /\ pool' = Checkout /\ \E p \in {"pooledWrite", "batchWrite"} : Put(r, p, c)
      BY <1>3, <2>1 DEF TakePooled, Put, c
    <2>3. PICK p \in {"pooledWrite", "batchWrite"} : Put(r, p, c)
      BY <2>2
    <2>4. p \in Pcs /\ CallsTyped /\ c \in Conns \cup {NoConn}
      BY <2>1 DEF Pcs, Holding, PoolInv, TermsInv, Shared
    <2>5. /\ \A q \in Calls \ {r} : call'[q] = call[q]
          /\ call'[r].conn = c /\ call'[r].pc = p
      BY <2>3, <2>4, PutMoves
    <2>6. \A j \in Slots : Undialled(r, j)' => Undialled(r, j)
      BY <1>1, <2>3, <2>4, PutShrinks
    <2>7. Owned'
      <3>1. ASSUME NEW s \in Calls, call'[s].conn # NoConn
            PROVE  /\ Carries(call[s].conn, Outstanding(s))'
                   /\ \A q \in Calls : call'[q].conn = call'[s].conn => q = s
                   /\ \A k \in DOMAIN pool' : pool'[k] # call'[s].conn
        <4>1. CASE s = r
          <5>1. Outstanding(s)' = {}
            BY <2>5, <4>1 DEF Outstanding
          <5>2. Carries(call[s].conn, Outstanding(s))'
            <6>1. call'[s].conn = c
              BY <2>5, <4>1
            <6>2. conn'[c].inbox = {} /\ conn'[c].outbox = {}
              BY <2>1, <2>2 DEF Carries
            <6> QED BY <5>1, <6>1, <6>2 DEF Carries
          <5>3. \A q \in Calls : call'[q].conn = c => q = s
            BY <2>1, <2>5, <4>1
          <5> QED BY <2>1, <2>2, <2>5, <4>1, <5>2, <5>3
        <4>2. CASE s # r
          <5>1. call'[s] = call[s] /\ Outstanding(s)' = Outstanding(s)
            BY <2>5, <4>2, OthersSame
          <5>2. Carries(call[s].conn, Outstanding(s))'
            <6>1. Carries(call[s].conn, Outstanding(s))
              BY <3>1, <5>1 DEF PoolInv, Owned
            <6> QED BY <2>2, <5>1, <6>1 DEF Carries
          <5> QED BY <2>1, <2>2, <2>5, <3>1, <5>1, <5>2 DEF PoolInv, Owned
        <4> QED BY <4>1, <4>2
      <3> QED BY <3>1 DEF Owned, Carries
    <2>8. Quiet'
      BY <2>1, <2>2 DEF PoolInv, Quiet, Carries, IsUsable
    <2>9. Free'
      <3>1. ASSUME NEW s \in Calls, NEW j \in Slots, Undialled(s, j)' PROVE Undialled(s, j)
        <4>1. CASE s = r
          BY <2>6, <3>1, <4>1
        <4>2. CASE s # r
          BY <2>5, <3>1, <4>2, OthersSame
        <4> QED BY <4>1, <4>2
      <3>2. ASSUME NEW s \in Calls, NEW j \in Slots, Undialled(s, j)'
            PROVE  /\ \A q \in Calls : call'[q].conn # <<s, j>>
                   /\ \A k \in DOMAIN pool' : pool'[k] # <<s, j>>
        <4>1. (\A q \in Calls : call[q].conn # <<s, j>>) /\ (\A k \in DOMAIN pool : pool[k] # <<s, j>>)
          BY <3>1, <3>2 DEF PoolInv, Free
        <4> QED BY <2>1, <2>2, <2>5, <4>1
      <3> QED BY <3>2 DEF Free
    <2> QED BY <2>7, <2>8, <2>9
  <1> QED BY <1>2, <1>3

\* A call dials where nobody is.
LEMMA DialPool == ASSUME PoolInv, NEW r \in Calls, Dial(r) PROVE Owned' /\ Quiet' /\ Free'
  <1> DEFINE i == call[r].i
  <1> DEFINE c == <<r, i>>
  <1>1. call[r].conn = NoConn /\ call[r].pc \in {"dial", "batchDial"} /\ UNCHANGED pool /\ i \in Slots
    BY Types DEF Dial, At, Holding
  <1>2. c \in Conns /\ c # NoConn /\ Undialled(r, i)
    BY <1>1 DEF Conns, NoConn, Slots, Undialled, Before
  <1>3. (\A q \in Calls : call[q].conn # c) /\ (\A k \in DOMAIN pool : pool[k] # c)
    BY <1>1, <1>2 DEF PoolInv, Free
  <1> DEFINE new == [Gone EXCEPT !.state = "open", !.ids = StreamIds, !.posture = req[r].posture]
  <1>4. CASE /\ conn' = [conn EXCEPT ![c] = new]
             /\ call' = [call EXCEPT ![r].pc = IF At(r, {"dial"}) THEN "coldWrite" ELSE "batchWrite", ![r].conn = c]
    <2>1. new.inbox = {} /\ new.outbox = {}
      BY DEF Gone
    <2> HIDE DEF new
    <2>2. PICK p \in {"coldWrite", "batchWrite"} : Put(r, p, c)
      BY <1>4 DEF Put
    <2>3. p \in Pcs /\ p \notin Before /\ CallsTyped /\ c \in Conns \cup {NoConn}
      BY <1>2 DEF Pcs, Holding, Before, PoolInv, TermsInv, Shared
    <2> HIDE DEF c
    <2>4. /\ \A q \in Calls \ {r} : call'[q] = call[q]
          /\ call'[r].conn = c /\ call'[r].pc = p /\ call'[r].i = i
      BY <2>2, <2>3, PutMoves, PutShrinks
    <2> HIDE DEF i
    <2>5. conn'[c].inbox = {} /\ conn'[c].outbox = {} /\ \A d \in Conns : d # c => conn'[d] = conn[d]
      BY <1>2, <1>4, <2>1, Types
    <2>6. Owned'
      <3>1. ASSUME NEW s \in Calls, call'[s].conn # NoConn
            PROVE  /\ Carries(call[s].conn, Outstanding(s))'
                   /\ \A q \in Calls : call'[q].conn = call'[s].conn => q = s
                   /\ \A k \in DOMAIN pool' : pool'[k] # call'[s].conn
        <4>1. CASE s = r
          <5>1. Outstanding(s)' = {} /\ call'[s].conn = c
            BY <2>4, <4>1 DEF Outstanding
          <5>2. Carries(call[s].conn, Outstanding(s))'
            BY <2>5, <5>1 DEF Carries
          <5>3. \A q \in Calls : call'[q].conn = c => q = s
            BY <1>3, <2>4, <4>1
          <5> QED BY <1>1, <1>3, <5>1, <5>2, <5>3
        <4>2. CASE s # r
          <5>1. call'[s] = call[s] /\ Outstanding(s)' = Outstanding(s) /\ call[s].conn \in Conns
            BY <2>4, <3>1, <4>2, OthersSame, Types
          <5>2. Carries(call[s].conn, Outstanding(s))'
            <6>1. Carries(call[s].conn, Outstanding(s)) /\ call[s].conn # c
              BY <1>3, <3>1, <5>1 DEF PoolInv, Owned
            <6>2. conn'[call[s].conn] = conn[call[s].conn]
              BY <2>5, <5>1, <6>1
            <6> QED BY <5>1, <6>1, <6>2 DEF Carries
          <5> QED BY <1>1, <1>3, <2>4, <3>1, <5>1, <5>2 DEF PoolInv, Owned
        <4> QED BY <4>1, <4>2
      <3> QED BY <3>1 DEF Owned, Carries
    <2>7. Quiet'
      <3>1. \A k \in DOMAIN pool : conn'[pool[k]] = conn[pool[k]]
        BY <1>3, <2>5, Types
      <3> QED BY <1>1, <3>1 DEF PoolInv, Quiet, Carries, IsUsable
    <2>8. Free'
      <3>1. ASSUME NEW s \in Calls, NEW j \in Slots, Undialled(s, j)'
            PROVE  Undialled(s, j) /\ c # <<s, j>>
        <4>1. CASE s = r
          <5>1. j > i
            BY <2>3, <2>4, <3>1, <4>1 DEF Undialled
          <5> QED BY <1>1, <4>1, <5>1 DEF Undialled, c, i, Slots
        <4>2. CASE s # r
          BY <2>4, <3>1, <4>2, OthersSame DEF c
        <4> QED BY <4>1, <4>2
      <3>2. ASSUME NEW s \in Calls, NEW j \in Slots, Undialled(s, j)'
            PROVE  /\ \A q \in Calls : call'[q].conn # <<s, j>>
                   /\ \A k \in DOMAIN pool' : pool'[k] # <<s, j>>
        <4>1. (\A q \in Calls : call[q].conn # <<s, j>>) /\ (\A k \in DOMAIN pool : pool[k] # <<s, j>>) /\ c # <<s, j>>
          BY <3>1, <3>2 DEF PoolInv, Free
        <4> QED BY <1>1, <2>4, <4>1
      <3> QED BY <3>2 DEF Free
    <2> QED BY <2>6, <2>7, <2>8
  <1>5. CASE UNCHANGED conn /\ (Goto(r, "h2") \/ Goto(r, "h1") \/ \E x \in Http \cup {"err", "noh2"} : Answer(r, x))
    <2>1. {"h1", "h2"} \subseteq Pcs \ Holding /\ call[r].pc \in Before
      BY <1>1 DEF Pcs, Holding, Before
    <2> QED BY <1>1, <1>5, <2>1, Wanders
  <1>6. \/ /\ conn' = [conn EXCEPT ![c] = new]
           /\ call' = [call EXCEPT ![r].pc = IF At(r, {"dial"}) THEN "coldWrite" ELSE "batchWrite", ![r].conn = c]
        \/ UNCHANGED conn /\ (Goto(r, "h2") \/ Goto(r, "h1") \/ \E x \in Http \cup {"err", "noh2"} : Answer(r, x))
    BY DEF Dial, NotNegotiated
  <1> QED BY <1>4, <1>5, <1>6

\* A call that drops its connection leaves the others alone.
LEMMA DropsAlone ==
    ASSUME PoolInv, NEW r \in Calls, call[r].conn # NoConn, Drop(call[r].conn), UNCHANGED pool,
           \A q \in Calls \ {r} : call'[q] = call[q], call'[r].conn = NoConn,
           \A j \in Slots : Undialled(r, j)' => Undialled(r, j)
    PROVE  Owned' /\ Quiet' /\ Free'
  <1>1. \A c \in Conns : c # call[r].conn => conn'[c] = conn[c]
    BY Types DEF Drop
  <1> QED BY <1>1, ActsAlone

LEMMA FailPool ==
    ASSUME PoolInv, NEW r \in Calls, call[r].pc \in Holding, FailSingle(r), UNCHANGED pool
    PROVE  Owned' /\ Quiet' /\ Free'
  <1>1. call[r].conn # NoConn /\ Drop(call[r].conn) /\ CallsTyped
    BY Types DEF FailSingle, PoolInv, TermsInv, Shared
  <1>2. CASE Put(r, "dial", NoConn) /\ AfterFailure(r) = "dial"
    <2>1. call[r].pc \in Before /\ "dial" \in Pcs /\ NoConn \in Conns \cup {NoConn}
      BY <1>2 DEF AfterFailure, At, Before, Pcs
    <2>2. (\A q \in Calls \ {r} : call'[q] = call[q]) /\ call'[r].conn = NoConn
      BY <1>1, <1>2, <2>1, PutMoves
    <2>3. \A j \in Slots : Undialled(r, j)' => Undialled(r, j)
      BY <1>2, <2>1, PutShrinks
    <2> QED BY <1>1, <2>2, <2>3, DropsAlone
  <1>3. CASE Answer(r, "err")
    <2>1. (\A q \in Calls \ {r} : call'[q] = call[q]) /\ call'[r].conn = NoConn
      BY <1>1, <1>3, AnswerMoves
    <2> QED BY <1>1, <1>3, <2>1, AnswerShrinks, DropsAlone
  <1> QED BY <1>2, <1>3 DEF FailSingle, Put

\* Only the connection c of call r changes, to a record that carries what is outstanding
\* after the step.
LEMMA Exchanges ==
    ASSUME PoolInv, NEW r \in Calls, NEW c \in Conns, c = call[r].conn, NEW new, conn' = [conn EXCEPT ![c] = new],
           UNCHANGED pool, \A q \in Calls \ {r} : call'[q] = call[q], call'[r].conn = c,
           new.inbox \cup new.outbox \subseteq Outstanding(r)', new.inbox \cap new.outbox = {},
           \A j \in Slots : Undialled(r, j)' => Undialled(r, j)
    PROVE  Owned' /\ Quiet' /\ Free'
  <1>1. conn'[c] = new /\ \A d \in Conns : d # call[r].conn => conn'[d] = conn[d]
    BY Types
  <1>2. Carries(call[r].conn, Outstanding(r))'
    BY <1>1 DEF Carries
  <1> QED BY <1>1, <1>2, ActsAlone

LEMMA Holds ==
    ASSUME PoolInv, NEW r \in Calls, call[r].pc \in Holding
    PROVE  /\ call[r].conn \in Conns /\ call[r].conn # NoConn /\ Carries(call[r].conn, Outstanding(r))
           /\ conn[call[r].conn] \in ConnType
  BY Types DEF PoolInv, Owned

LEMMA WriteRequestPool ==
    ASSUME PoolInv, NEW r \in Calls, WriteRequest(r) PROVE Owned' /\ Quiet' /\ Free'
  <1> DEFINE c == call[r].conn
  <1>1. call[r].pc \in {"pooledWrite", "coldWrite"} /\ UNCHANGED pool /\ call[r].pc \in Holding
    BY DEF WriteRequest, At, Holding
  <1>2. c \in Conns /\ conn[c] \in ConnType /\ Carries(c, {})
    BY <1>1, Holds DEF Outstanding
  <1>3. CASE OpensStream(c)
    <2> DEFINE x == <<r, call[r].i>>
    <2> DEFINE new == [conn[c] EXCEPT !.ids = @ - 1, !.inbox = IF conn[c].state = "open" THEN @ \cup {x} ELSE @]
    <2>1. conn' = [conn EXCEPT ![c] = new]
      BY <1>2, <1>3, Types DEF WriteRequest
    <2>2. new.inbox \cup new.outbox \subseteq {x} /\ new.inbox \cap new.outbox = {}
      BY <1>2 DEF Carries, ConnType
    <2>3. PICK p \in {"pooledRead", "coldRead"} : Goto(r, p) /\ (p = "pooledRead" <=> call[r].pc = "pooledWrite")
      BY <1>1, <1>3 DEF WriteRequest, At
    <2>4. p \in Pcs /\ CallsTyped /\ (p \in Before => call[r].pc \in Before)
      BY <1>1, <2>3 DEF Pcs, Holding, Before, PoolInv, TermsInv, Shared
    <2>5. /\ \A q \in Calls \ {r} : call'[q] = call[q]
          /\ call'[r].conn = c /\ call'[r].pc = p
      BY <2>3, <2>4, GotoMoves
    <2>6. call'[r].i = call[r].i
      BY <2>3, Types DEF Goto, CallType
    <2>7. Outstanding(r)' = {x}
      BY <2>5, <2>6 DEF Outstanding
    <2>8. \A j \in Slots : Undialled(r, j)' => Undialled(r, j)
      BY <2>3, <2>4, GotoShrinks
    <2> HIDE DEF new, x
    <2> QED BY <1>1, <1>2, <2>1, <2>2, <2>5, <2>7, <2>8, Exchanges
  <1>4. CASE ~OpensStream(c)
    BY <1>1, <1>4, FailPool DEF WriteRequest
  <1> QED BY <1>3, <1>4

LEMMA ReadFailsPool ==
    ASSUME PoolInv, NEW r \in Calls, ReadFails(r) PROVE Owned' /\ Quiet' /\ Free'
  <1>1. call[r].pc \in Holding
    BY DEF ReadFails, At, Holding
  <1> QED BY <1>1, FailPool DEF ReadFails

LEMMA ReadResponsePool ==
    ASSUME PoolInv, NEW r \in Calls, ReadResponse(r) PROVE Owned' /\ Quiet' /\ Free'
  <1> DEFINE c == call[r].conn
  <1> DEFINE x == <<r, call[r].i>>
  <1>1. call[r].pc \in {"pooledRead", "coldRead"} /\ call[r].pc \in Holding /\ UNCHANGED pool
    BY DEF ReadResponse, At, Holding
  <1>2. c \in Conns /\ conn[c] \in ConnType /\ Carries(c, {x}) /\ x \in conn[c].outbox
    BY <1>1, Holds DEF Outstanding, ReadResponse
  <1>3. PICK told \in Told(c) : conn' = [conn EXCEPT ![c].outbox = @ \ {x}, ![c].told = told]
    BY DEF ReadResponse
  <1> DEFINE new == [conn[c] EXCEPT !.outbox = @ \ {x}, !.told = told]
  <1>4. conn' = [conn EXCEPT ![c] = new]
    BY <1>2, <1>3, Types
  <1>5. new.inbox = {} /\ new.outbox = {}
    BY <1>2 DEF Carries, ConnType
  <1>6. /\ \A q \in Calls \ {r} : call'[q] = call[q]
        /\ call'[r].conn = c /\ call'[r].pc = "release" /\ call'[r].i = call[r].i
    <2>1. call' = [call EXCEPT ![r].pc = "release", ![r].results[call[r].i] = "h2"]
      BY DEF ReadResponse
    <2>2. call \in [Calls -> CallType]
      BY Types
    <2> QED BY <2>1, <2>2 DEF CallType
  <1>7. Outstanding(r)' = {}
    BY <1>6 DEF Outstanding
  <1>8. \A j \in Slots : Undialled(r, j)' => Undialled(r, j)
    BY <1>6 DEF Undialled, Before
  <1> HIDE DEF new, x
  <1> QED BY <1>1, <1>2, <1>4, <1>5, <1>6, <1>7, <1>8, Exchanges

\* A connection is parked when its call is done with it, if it is usable then.
LEMMA ReleasePool == ASSUME PoolInv, NEW r \in Calls, Release(r) PROVE Owned' /\ Quiet' /\ Free'
  <1> DEFINE c == call[r].conn
  <1>1. call[r].pc \in {"release", "batchRelease"} /\ call[r].pc \in Holding /\ CallsTyped
    BY DEF Release, At, Holding, PoolInv, TermsInv, Shared
  <1>2. c \in Conns /\ c # NoConn /\ Carries(c, {})
    BY <1>1, Holds DEF Outstanding
  <1>3. /\ \A q \in Calls \ {r} : call'[q] = call[q]
        /\ call'[r].conn = NoConn /\ \A j \in Slots : Undialled(r, j)' => Undialled(r, j)
    <2>1. CASE Put(r, "done", NoConn)
      <3>1. "done" \in Pcs /\ "done" \notin Before /\ NoConn \in Conns \cup {NoConn}
        BY DEF Pcs, Before
      <3> QED BY <1>1, <2>1, <3>1, PutMoves, PutShrinks
    <2>2. CASE Answer(r, "h2")
      <3>1. "h2" \in Http \cup {"err", "noh2"}
        BY DEF Http
      <3> QED BY <1>1, <2>2, <3>1, AnswerMoves, AnswerShrinks
    <2> QED BY <2>1, <2>2 DEF Release, Put
  <1>4. CASE Drop(c) /\ UNCHANGED pool
    BY <1>2, <1>3, <1>4, DropsAlone
  <1>5. CASE IsUsable(c) /\ pool' = Append(pool, c) /\ UNCHANGED conn
    <2>1. /\ \A q \in Calls : call[q].conn = c => q = r
          /\ \A k \in DOMAIN pool : pool[k] # c
      BY <1>2 DEF PoolInv, Owned
    <2> HIDE DEF c
    <2>2. \A k \in DOMAIN pool' : IF k \in DOMAIN pool THEN pool'[k] = pool[k] ELSE k = Len(pool) + 1 /\ pool'[k] = c
      BY <1>5, Types
    <2>3. Owned'
      <3>1. ASSUME NEW s \in Calls, call'[s].conn # NoConn
            PROVE  /\ Carries(call[s].conn, Outstanding(s))'
                   /\ \A q \in Calls : call'[q].conn = call'[s].conn => q = s
                   /\ \A k \in DOMAIN pool' : pool'[k] # call'[s].conn
        <4>1. s # r /\ call'[s] = call[s] /\ Outstanding(s)' = Outstanding(s) /\ call[s].conn # c
          BY <1>3, <2>1, <3>1, OthersSame
        <4>2. Carries(call[s].conn, Outstanding(s)) /\ \A k \in DOMAIN pool : pool[k] # call[s].conn
          BY <3>1, <4>1 DEF PoolInv, Owned
        <4>3. Carries(call[s].conn, Outstanding(s))'
          BY <1>5, <4>1, <4>2 DEF Carries
        <4>4. \A q \in Calls : call'[q].conn = call'[s].conn => q = s
          BY <1>3, <3>1, <4>1 DEF PoolInv, Owned
        <4> QED BY <2>2, <4>1, <4>2, <4>3, <4>4
      <3> QED BY <3>1 DEF Owned, Carries
    <2>4. Quiet'
      <3>1. ASSUME NEW k \in DOMAIN pool'
            PROVE  Carries(pool'[k], {}) /\ IsUsable(pool'[k])
        BY <1>2, <1>5, <2>2, <3>1 DEF PoolInv, Quiet, c
      <3>2. \A k, j \in DOMAIN pool' : pool'[j] = pool'[k] => j = k
        BY <2>1, <2>2 DEF PoolInv, Quiet
      <3> QED BY <1>5, <3>1, <3>2 DEF Quiet, Carries, IsUsable
    <2>5. Free'
      <3>1. ASSUME NEW s \in Calls, NEW j \in Slots, Undialled(s, j)' PROVE Undialled(s, j)
        <4>1. CASE s = r
          BY <1>3, <3>1, <4>1
        <4>2. CASE s # r
          BY <1>3, <3>1, <4>2, OthersSame
        <4> QED BY <4>1, <4>2
      <3>2. ASSUME NEW s \in Calls, NEW j \in Slots, Undialled(s, j)'
            PROVE  /\ \A q \in Calls : call'[q].conn # <<s, j>>
                   /\ \A k \in DOMAIN pool' : pool'[k] # <<s, j>>
        <4>1. (\A q \in Calls : call[q].conn # <<s, j>>) /\ (\A k \in DOMAIN pool : pool[k] # <<s, j>>)
          BY <3>1, <3>2 DEF PoolInv, Free
        <4>2. c # <<s, j>> /\ NoConn # <<s, j>>
          BY <4>1 DEF c, NoConn
        <4> QED BY <1>3, <2>2, <4>1, <4>2
      <3> QED BY <3>2 DEF Free
    <2> QED BY <2>3, <2>4, <2>5
  <1> QED BY <1>4, <1>5 DEF Release, Park

LEMMA ResultsShrink ==
    ASSUME PoolInv, NEW r \in Calls, NEW p \in Pcs \ Before, NEW results, Results(r, p, results)
    PROVE  /\ call'[r].i = call[r].i /\ call'[r].results = results
           /\ \A j \in Slots : Undialled(r, j)' => Undialled(r, j)
  <1>1. call'[r].i = call[r].i /\ call'[r].pc = p /\ call'[r].results = results
    BY Types DEF Results, CallType
  <1> QED BY <1>1 DEF Undialled

LEMMA WriteBatchPool ==
    ASSUME PoolInv, NEW r \in Calls, WriteBatch(r) PROVE Owned' /\ Quiet' /\ Free'
  <1> DEFINE c == call[r].conn
  <1> DEFINE opened == {i \in {1, 2} : conn[c].told = "nothing" /\ i <= conn[c].ids}
  <1> DEFINE results == [i \in {1, 2} |-> IF i \in opened THEN "none" ELSE "err"]
  <1> DEFINE xs == {<<r, i>> : i \in opened}
  <1> DEFINE n == Cardinality(opened)
  <1>1. call[r].pc = "batchWrite" /\ call[r].pc \in Holding /\ UNCHANGED pool /\ CallsTyped
    BY DEF WriteBatch, At, Holding, PoolInv, TermsInv, Shared
  <1>2. c \in Conns /\ conn[c] \in ConnType /\ Carries(c, {})
    BY <1>1, Holds DEF Outstanding
  <1>3. Results(r, "batchRead", results)
    BY DEF WriteBatch, Results
  <1>4. conn' = [conn EXCEPT ![c].ids = @ - n, ![c].inbox = IF conn[c].state = "open" THEN @ \cup xs ELSE @]
    BY DEF WriteBatch
  <1>5. opened \subseteq {1, 2}
    OBVIOUS
  <1> HIDE DEF opened, n
  <1>6. results \in [Slots -> ResultType]
    BY DEF Slots, ResultType
  <1>7. "batchRead" \in Pcs \ Before
    BY DEF Pcs, Holding, Before
  <1>8. {i \in {1, 2} : results[i] = "none"} = opened
    BY <1>5
  <1> HIDE DEF results
  <1>9. /\ \A q \in Calls \ {r} : call'[q] = call[q]
        /\ call'[r].conn = c /\ call'[r].pc = "batchRead" /\ call'[r].results = results
        /\ \A j \in Slots : Undialled(r, j)' => Undialled(r, j)
    BY <1>1, <1>3, <1>6, <1>7, ResultsMove, ResultsShrink
  <1>10. Outstanding(r)' = xs
    BY <1>8, <1>9 DEF Outstanding, Pending
  <1> HIDE DEF xs
  <1> DEFINE new == [conn[c] EXCEPT !.ids = @ - n, !.inbox = IF conn[c].state = "open" THEN @ \cup xs ELSE @]
  <1>11. conn' = [conn EXCEPT ![c] = new]
    BY <1>2, <1>4, Types
  <1>12. new.inbox \cup new.outbox \subseteq xs /\ new.inbox \cap new.outbox = {}
    BY <1>2 DEF Carries, ConnType
  <1> HIDE DEF new
  <1> QED BY <1>1, <1>2, <1>9, <1>10, <1>11, <1>12, Exchanges

LEMMA ReadBatchPool ==
    ASSUME PoolInv, NEW r \in Calls, ReadBatch(r) PROVE Owned' /\ Quiet' /\ Free'
  <1> DEFINE c == call[r].conn
  <1> DEFINE xs == {<<r, i>> : i \in Pending(r)}
  <1>1. /\ call[r].pc = "batchRead" /\ call[r].pc \in Holding /\ call[r].pc \in Pcs \ Before /\ UNCHANGED pool
        /\ CallsTyped
    BY DEF ReadBatch, At, Holding, Before, Pcs, PoolInv, TermsInv, Shared
  <1>2. /\ c \in Conns /\ conn[c] \in ConnType /\ Carries(c, xs) /\ c # NoConn
        /\ call[r].results \in [Slots -> ResultType]
    BY <1>1, Holds DEF Outstanding, CallsTyped, CallType, ResultType
  <1>3. CASE Pending(r) = {} /\ Goto(r, "batchRelease") /\ UNCHANGED conn
    <2>1. "batchRelease" \in Pcs /\ "batchRelease" \notin Before
      BY DEF Pcs, Holding, Before
    <2>2. /\ \A q \in Calls \ {r} : call'[q] = call[q]
          /\ call'[r].conn = c /\ call'[r].pc = "batchRelease"
      BY <1>1, <1>3, <2>1, GotoMoves
    <2>3. \A j \in Slots : Undialled(r, j)' => Undialled(r, j)
      BY <1>3, <2>1, GotoShrinks
    <2>4. Outstanding(r)' = {} /\ conn[c].inbox \cup conn[c].outbox \subseteq {}
      BY <1>2, <1>3, <2>2 DEF Outstanding, Carries
    <2>5. conn' = [conn EXCEPT ![c] = conn[c]] /\ conn[c].inbox \cap conn[c].outbox = {}
      BY <1>2, <1>3, Types DEF Carries
    <2> QED BY <1>1, <1>2, <2>2, <2>3, <2>4, <2>5, Exchanges
  <1>4. CASE BatchResponse(r)
    <2>1. PICK i \in Pending(r) : \E told \in Told(c) :
            /\ conn' = [conn EXCEPT ![c].outbox = @ \ {<<r, i>>}, ![c].told = told]
            /\ call' = [call EXCEPT ![r].results[i] = "h2"]
            /\ <<r, i>> \in conn[c].outbox
      BY <1>4 DEF BatchResponse
    <2>2. PICK told \in Told(c) :
            /\ conn' = [conn EXCEPT ![c].outbox = @ \ {<<r, i>>}, ![c].told = told]
            /\ call' = [call EXCEPT ![r].results[i] = "h2"]
            /\ <<r, i>> \in conn[c].outbox
      BY <2>1
    <2> DEFINE results == [call[r].results EXCEPT ![i] = "h2"]
    <2>3. i \in Slots /\ results \in [Slots -> ResultType]
      BY <1>2 DEF ResultType, Http, Pending, Slots
    <2>4. Results(r, call[r].pc, results)
      BY <1>1, <2>2 DEF Results, CallsTyped, CallType
    <2>5. {j \in {1, 2} : results[j] = "none"} = Pending(r) \ {i}
      BY <1>2, <2>3 DEF Pending, Slots
    <2> HIDE DEF results
    <2>6. /\ \A q \in Calls \ {r} : call'[q] = call[q]
          /\ call'[r].conn = c /\ call'[r].pc = "batchRead" /\ call'[r].results = results
          /\ \A j \in Slots : Undialled(r, j)' => Undialled(r, j)
      BY <1>1, <2>3, <2>4, ResultsMove, ResultsShrink
    <2>7. Outstanding(r)' = {<<r, j>> : j \in Pending(r) \ {i}}
      BY <2>5, <2>6 DEF Outstanding, Pending
    <2> DEFINE new == [conn[c] EXCEPT !.outbox = @ \ {<<r, i>>}, !.told = told]
    <2>8. conn' = [conn EXCEPT ![c] = new]
      BY <1>2, <2>2, Types
    <2>9. new.inbox \cup new.outbox \subseteq {<<r, j>> : j \in Pending(r) \ {i}} /\ new.inbox \cap new.outbox = {}
      <3>1. new.inbox = conn[c].inbox /\ new.outbox = conn[c].outbox \ {<<r, i>>} /\ <<r, i>> \notin conn[c].inbox
        BY <1>2, <2>2 DEF Carries, ConnType
      <3> HIDE DEF new
      <3> QED BY <1>2, <3>1 DEF Carries
    <2> HIDE DEF new
    <2> QED BY <1>1, <1>2, <2>6, <2>7, <2>8, <2>9, Exchanges
  <1>5. CASE BatchError(r)
    <2>1. PICK failed \in SUBSET Pending(r) :
            /\ conn' = [conn EXCEPT ![c].inbox = @ \ {<<r, i>> : i \in failed},
                                    ![c].outbox = @ \ {<<r, i>> : i \in failed}]
            /\ call' = [call EXCEPT ![r].results = [i \in {1, 2} |-> IF i \in failed THEN "err" ELSE @[i]]]
      BY <1>5 DEF BatchError
    <2> DEFINE results == [i \in {1, 2} |-> IF i \in failed THEN "err" ELSE call[r].results[i]]
    <2> DEFINE lost == {<<r, i>> : i \in failed}
    <2>2. results \in [Slots -> ResultType]
      BY <1>2 DEF ResultType, Slots
    <2>3. Results(r, call[r].pc, results)
      BY <1>1, <2>1 DEF Results, CallsTyped, CallType
    <2>4. {j \in {1, 2} : results[j] = "none"} = Pending(r) \ failed
      BY DEF Pending
    <2> HIDE DEF results
    <2>5. /\ \A q \in Calls \ {r} : call'[q] = call[q]
          /\ call'[r].conn = c /\ call'[r].pc = "batchRead" /\ call'[r].results = results
          /\ \A j \in Slots : Undialled(r, j)' => Undialled(r, j)
      BY <1>1, <2>2, <2>3, ResultsMove, ResultsShrink
    <2>6. Outstanding(r)' = {<<r, j>> : j \in Pending(r) \ failed}
      BY <2>4, <2>5 DEF Outstanding, Pending
    <2>7. {<<r, j>> : j \in Pending(r) \ failed} = xs \ lost
      OBVIOUS
    <2>8. conn' = [conn EXCEPT ![c].inbox = @ \ lost, ![c].outbox = @ \ lost]
      BY <2>1
    <2> HIDE DEF lost, xs
    <2> DEFINE new == [conn[c] EXCEPT !.inbox = @ \ lost, !.outbox = @ \ lost]
    <2>9. conn' = [conn EXCEPT ![c] = new]
      BY <1>2, <2>8, Types
    <2>10. new.inbox \cup new.outbox \subseteq xs \ lost /\ new.inbox \cap new.outbox = {}
      BY <1>2 DEF Carries, ConnType
    <2> HIDE DEF new
    <2> QED BY <1>1, <1>2, <2>5, <2>6, <2>7, <2>9, <2>10, Exchanges
  <1> QED BY <1>3, <1>4, <1>5 DEF ReadBatch

\* A server only moves what is under way, or loses it.
LEMMA ServersAlone ==
    ASSUME PoolInv, NEW c \in Conns, NEW new, conn' = [conn EXCEPT ![c] = new], UNCHANGED <<call, pool>>,
           new.inbox \cup new.outbox \subseteq conn[c].inbox \cup conn[c].outbox,
           conn[c].inbox \cap conn[c].outbox = {} => new.inbox \cap new.outbox = {},
           new.told = conn[c].told, new.ids = conn[c].ids
    PROVE  Owned' /\ Quiet' /\ Free'
  <1>1. \A d \in Conns : conn'[d] = IF d = c THEN new ELSE conn[d]
    BY Types
  <1>2. \A d \in Conns : IsUsable(d)' <=> IsUsable(d)
    BY <1>1 DEF IsUsable
  <1>3. ASSUME NEW d \in Conns, NEW xs, Carries(d, xs)
        PROVE  conn'[d].inbox \cup conn'[d].outbox \subseteq xs /\ conn'[d].inbox \cap conn'[d].outbox = {}
    <2>1. CASE d = c
      BY <1>1, <1>3, <2>1 DEF Carries
    <2>2. CASE d # c
      BY <1>1, <1>3, <2>2 DEF Carries
    <2> QED BY <2>1, <2>2
  <1>4. Owned'
    <2>1. ASSUME NEW s \in Calls, call[s].conn # NoConn PROVE Carries(call[s].conn, Outstanding(s))'
      <3>1. call[s].conn \in Conns /\ Carries(call[s].conn, Outstanding(s)) /\ Outstanding(s)' = Outstanding(s)
        BY <2>1, Types DEF PoolInv, Owned, Outstanding, Pending
      <3> QED BY <1>3, <3>1 DEF Carries
    <2> QED BY <2>1 DEF PoolInv, Owned
  <1>5. Quiet'
    <2>1. ASSUME NEW k \in DOMAIN pool PROVE Carries(pool[k], {})' /\ IsUsable(pool[k])'
      <3>1. pool[k] \in Conns /\ Carries(pool[k], {}) /\ IsUsable(pool[k])
        BY Types DEF PoolInv, Quiet
      <3>2. Carries(pool[k], {})'
        BY <1>3, <3>1 DEF Carries
      <3>3. IsUsable(pool[k])'
        BY <1>1, <3>1 DEF IsUsable
      <3> QED BY <3>2, <3>3
    <2> QED BY <2>1 DEF PoolInv, Quiet
  <1>6. Free'
    BY DEF PoolInv, Free, Undialled
  <1> QED BY <1>4, <1>5, <1>6

LEMMA HandlePool == ASSUME PoolInv, NEW c \in Conns, Handle(c) PROVE Owned' /\ Quiet' /\ Free'
  <1>1. conn[c] \in ConnType
    BY Types
  <1>2. PICK x \in conn[c].inbox : conn' = [conn EXCEPT ![c].inbox = @ \ {x}, ![c].outbox = @ \cup {x}]
    BY DEF Handle
  <1> DEFINE new == [conn[c] EXCEPT !.inbox = @ \ {x}, !.outbox = @ \cup {x}]
  <1>3. conn' = [conn EXCEPT ![c] = new]
    BY <1>2, Types
  <1>4. /\ new.inbox = conn[c].inbox \ {x} /\ new.outbox = conn[c].outbox \cup {x}
        /\ new.told = conn[c].told /\ new.ids = conn[c].ids
    BY <1>1 DEF ConnType
  <1> HIDE DEF new
  <1>5. new.inbox \cup new.outbox \subseteq conn[c].inbox \cup conn[c].outbox
    BY <1>4
  <1>6. conn[c].inbox \cap conn[c].outbox = {} => new.inbox \cap new.outbox = {}
    BY <1>4
  <1>7. UNCHANGED <<call, pool>>
    BY DEF Handle
  <1> QED BY <1>3, <1>4, <1>5, <1>6, <1>7, ServersAlone

LEMMA LimitPool == ASSUME PoolInv, NEW c \in Conns, Limit(c) PROVE Owned' /\ Quiet' /\ Free'
  <1>1. conn[c] \in ConnType
    BY Types
  <1>2. PICK s : conn' = [conn EXCEPT ![c].state = s, ![c].inbox = IF s = "nostreams" THEN @ ELSE {}]
    BY DEF Limit
  <1> DEFINE new == [conn[c] EXCEPT !.state = s, !.inbox = IF s = "nostreams" THEN @ ELSE {}]
  <1>3. conn' = [conn EXCEPT ![c] = new]
    BY <1>2, Types
  <1>4. /\ new.inbox \subseteq conn[c].inbox /\ new.outbox = conn[c].outbox
        /\ new.told = conn[c].told /\ new.ids = conn[c].ids
    BY <1>1 DEF ConnType
  <1> HIDE DEF new
  <1> QED BY <1>3, <1>4, ServersAlone DEF Limit

LEMMA InitPool == Init => PoolInv
  <1> SUFFICES ASSUME Init PROVE PoolInv
    OBVIOUS
  <1>1. pool = <<>> /\ \A r \in Calls : call[r].conn = NoConn
    BY DEF Init
  <1>2. DOMAIN pool = {}
    BY <1>1
  <1>3. \A r \in Calls : \A j \in Slots : <<r, j>> # NoConn
    BY DEF NoConn
  <1>4. Owned
    BY <1>1 DEF Owned
  <1>5. Quiet
    BY <1>2 DEF Quiet
  <1>6. Free
    BY <1>1, <1>2, <1>3 DEF Free
  <1> QED BY <1>4, <1>5, <1>6, InitTerms DEF PoolInv

LEMMA StepKeepsPool == PoolInv /\ [Next]_vars => PoolInv'
  <1> SUFFICES ASSUME PoolInv, [Next]_vars PROVE PoolInv'
    OBVIOUS
  <1>1. TermsInv'
    BY StepKeepsTerms DEF PoolInv
  <1>2. ASSUME NEW r \in Calls, Step(r) PROVE Owned' /\ Quiet' /\ Free'
    BY <1>2, StartPool, Http3Pool, TakePool, DialPool, WriteRequestPool, ReadResponsePool,
       ReadFailsPool, ReleasePool, WriteBatchPool, ReadBatchPool, Http1Pool DEF Step
  <1>3. ASSUME NEW c \in Conns, Handle(c) \/ Limit(c) PROVE Owned' /\ Quiet' /\ Free'
    BY <1>3, HandlePool, LimitPool
  <1>4. ASSUME UNCHANGED vars PROVE Owned' /\ Quiet' /\ Free'
    <2>1. Owned'
      BY <1>4 DEF vars, PoolInv, Owned, Outstanding, Pending, Carries
    <2>2. Quiet'
      BY <1>4 DEF vars, PoolInv, Quiet, Carries, IsUsable
    <2>3. Free'
      BY <1>4 DEF vars, PoolInv, Free, Undialled
    <2> QED BY <2>1, <2>2, <2>3
  <1> QED BY <1>1, <1>2, <1>3, <1>4 DEF Next, Finished, PoolInv

\* PoolInner::checkout and release never share a connection between two calls, nor park one
\* that is in use, that answers may still come on, or that is known to be unusable.
THEOREM PoolSafe == Spec => []ParkedIdle
  <1>1. PoolInv => ParkedIdle
    <2> SUFFICES ASSUME PoolInv, NEW k \in DOMAIN pool
                 PROVE  /\ \A r \in Calls : call[r].conn # pool[k]
                        /\ \A j \in DOMAIN pool : pool[j] = pool[k] => j = k
                        /\ conn[pool[k]].inbox = {} /\ conn[pool[k]].outbox = {} /\ IsUsable(pool[k])
      BY DEF ParkedIdle
    <2>1. \A r \in Calls : call[r].conn # pool[k]
      BY Types DEF PoolInv, Owned
    <2> QED BY <2>1 DEF PoolInv, Quiet, Carries
  <1> QED BY InitPool, StepKeepsPool, <1>1, PTL DEF Spec

----------------------------------------------------------------------------
(* A request is written over the versions it asks for, in order.            *)

\* The places at which request call[r].i is under way, or is about to be.
Current == Pcs \ {"batchRead", "batchRelease", "done"}
BatchPcs == {"batch", "batchDial", "batchWrite", "batchRead", "batchRelease"}
Http2Pcs == BatchPcs \cup {"h2", "dial", "pooledWrite", "pooledRead", "coldWrite", "coldRead", "release"}

\* A request that was written over HTTP/3 a times, then over HTTP/2 b times, then
\* over HTTP/1.1 c times.
Shaped(t, a, b, c) ==
    /\ DOMAIN t = 1 .. (a + b + c)
    /\ \A k \in DOMAIN t : t[k].version = IF k <= a THEN "h3" ELSE IF k <= a + b THEN "h2" ELSE "h1"
Fits(q, a, b, c) ==
    /\ a <= 1 /\ b <= 2 /\ c <= 2 /\ b + c <= 3
    /\ a > 0 => "h3" \in Allowed(q)
    /\ b > 0 => "h2" \in Allowed(q)
    /\ c > 0 => "h1" \in Allowed(q)
\* Its result is that of the last of them.
Resulted(x, a, b, c) ==
    /\ x = "h3" => a > 0 /\ b = 0 /\ c = 0
    /\ x = "h2" => b > 0 /\ c = 0
    /\ x = "h1" => c > 0
\* How often it may have been written at a place.
Stage(pc, a, b, c) ==
    /\ pc \in {"start", "h3"} => a = 0
    /\ pc \in {"start", "h3", "h2", "batch", "batchDial", "batchWrite", "pooledWrite"} => b = 0
    /\ pc \in {"dial", "coldWrite", "pooledRead", "h1", "h1Fresh"} => b <= 1
    /\ pc \in {"pooledRead", "coldRead", "release"} => b > 0
    /\ pc # "h1Fresh" => c = 0
    /\ c <= 1

\* Request j of a call k that is asked for q and has written it as t says.
Tried(q, k, t, j, a, b, c) ==
    /\ Shaped(t, a, b, c) /\ Fits(q, a, b, c) /\ Resulted(k.results[j], a, b, c)
    /\ k.pc \in Current /\ j > k.i => a + b + c = 0 /\ k.results[j] = "none"
    /\ k.pc \in Current /\ j = k.i => Stage(k.pc, a, b, c) /\ (k.pc # "release" => k.results[j] = "none")
    /\ k.pc = "batchRead" /\ k.results[j] = "none" => b > 0 /\ c = 0
Placed(q, k) ==
    /\ k.i <= Size(q) /\ (k.pc = "start" => k.i = 1)
    /\ k.pc \in BatchPcs => q.kind = "batch" /\ k.i = 1
    /\ k.pc = "h3" => "h3" \in Allowed(q)
    /\ k.pc \in Http2Pcs => "h2" \in Allowed(q)
    /\ k.pc \in {"h1", "h1Fresh"} => "h1" \in Allowed(q)
Routed(q, k, ts) ==
    Placed(q, k) /\ \A j \in 1 .. Size(q) : \E a, b, c \in Nat : Tried(q, k, ts[j], j, a, b, c)

RouteInv == \A r \in Calls : Routed(req[r], call[r], tries[r])

\* What the preferences allow, and where the fallbacks lead.
LEMMA Preferences ==
    ASSUME NEW q \in RequestType
    PROVE  /\ q.kind = "batch" => Allowed(q) = {"h2"} /\ Size(q) = 2
           /\ q.kind # "batch" => Size(q) = 1
           /\ "h3" \in Allowed(q) /\ AfterHttp3(q) = "h2" => "h2" \in Allowed(q)
           /\ NotNegotiated(q) = "h1" => "h1" \in Allowed(q)
           /\ q.kind # "batch" => \/ q.pref \in {"Http3", "Http3Only"} /\ "h3" \in Allowed(q)
                                  \/ q.pref = "Http11Only" /\ "h1" \in Allowed(q)
                                  \/ q.pref \in {"Auto", "Http2Only"} /\ "h2" \in Allowed(q)
  <1>1. CASE q.kind = "batch"
    BY <1>1 DEF Allowed, Size, NotNegotiated
  <1>2. CASE q.kind # "batch"
    <2>1. q.kind = "single" /\ q.pref \in Prefs
      BY <1>2 DEF RequestType
    <2> QED BY <1>2, <2>1 DEF Allowed, Size, NotNegotiated, AfterHttp3, Prefs
  <1> QED BY <1>1, <1>2

\* One more try.
LEMMA TriedAgain ==
    ASSUME NEW t \in Seq(TryType), NEW x \in TryType, NEW a \in Nat, NEW b \in Nat, NEW c \in Nat, Shaped(t, a, b, c)
    PROVE  /\ x.version = "h3" /\ b = 0 /\ c = 0 => Shaped(Append(t, x), a + 1, b, c)
           /\ x.version = "h2" /\ c = 0 => Shaped(Append(t, x), a, b + 1, c)
           /\ x.version = "h1" => Shaped(Append(t, x), a, b, c + 1)
  <1> DEFINE n == a + b + c
             u == Append(t, x)
  <1>1. Len(t) = n /\ DOMAIN t = 1 .. n
    BY DEF Shaped
  <1>2. DOMAIN u = 1 .. (n + 1) /\ u[n + 1] = x /\ \A k \in 1 .. n : u[k] = t[k]
    BY <1>1
  <1> HIDE DEF u
  <1>3. \A k \in 1 .. n : t[k].version = IF k <= a THEN "h3" ELSE IF k <= a + b THEN "h2" ELSE "h1"
    BY <1>1 DEF Shaped
  <1>4. \A k \in 1 .. (n + 1) : k \in 1 .. n \/ k = n + 1
    OBVIOUS
  <1>5. ASSUME x.version = "h3" /\ b = 0 /\ c = 0 PROVE Shaped(u, a + 1, b, c)
    BY <1>2, <1>3, <1>4, <1>5 DEF Shaped
  <1>6. ASSUME x.version = "h2" /\ c = 0 PROVE Shaped(u, a, b + 1, c)
    BY <1>2, <1>3, <1>4, <1>6 DEF Shaped
  <1>7. ASSUME x.version = "h1" PROVE Shaped(u, a, b, c + 1)
    BY <1>2, <1>3, <1>4, <1>7 DEF Shaped
  <1> QED BY <1>5, <1>6, <1>7 DEF u

\* What a request was written over, and what was not written to.
LEMMA WrittenTo ==
    ASSUME TriesTyped, NEW r \in Calls, NEW version \in Http, NEW posture \in Postures, Written(r, version, posture)
    PROVE  /\ \A q \in Calls : q # r => tries'[q] = tries[q]
           /\ \A j \in Slots : IF j \in Flight(r)
                               THEN \E x \in TryType : x.version = version /\ tries'[r][j] = Append(tries[r][j], x)
                               ELSE tries'[r][j] = tries[r][j]
  <1> DEFINE x == [version |-> version, posture |-> posture]
             ts == [i \in {1, 2} |-> IF i \in Flight(r) THEN Append(tries[r][i], x) ELSE tries[r][i]]
  <1>1. x \in TryType /\ x.version = version
    BY DEF TryType
  <1>2. tries' = [tries EXCEPT ![r] = ts]
    BY DEF Written, TriesTyped
  <1> HIDE DEF x
  <1>3. \A j \in Slots : ts[j] = IF j \in Flight(r) THEN Append(tries[r][j], x) ELSE tries[r][j]
    BY DEF Slots
  <1> HIDE DEF ts
  <1>4. tries'[r] = ts /\ \A q \in Calls : q # r => tries'[q] = tries[q]
    BY <1>2 DEF TriesTyped
  <1> QED BY <1>1, <1>3, <1>4

\* A call that goes elsewhere with its results as they are.
Going(r, p) ==
    /\ call'[r].pc = p /\ call'[r].i = call[r].i /\ call'[r].results = call[r].results
    /\ \A q \in Calls : q # r => call'[q] = call[q]

LEMMA GotoGoes == ASSUME CallsTyped, NEW r \in Calls, NEW p, Goto(r, p) PROVE Going(r, p)
  BY DEF CallsTyped, CallType, Goto, Going

LEMMA PutGoes == ASSUME CallsTyped, NEW r \in Calls, NEW p, NEW c, Put(r, p, c) PROVE Going(r, p)
  <1> DEFINE d == [call[r] EXCEPT !.pc = p, !.conn = c]
  <1>1. call' = [call EXCEPT ![r] = d]
    BY DEF CallsTyped, Put
  <1>2. d.pc = p /\ d.i = call[r].i /\ d.results = call[r].results
    BY DEF CallsTyped, CallType
  <1> HIDE DEF d
  <1> QED BY <1>1, <1>2 DEF CallsTyped, Going

\* A call that has the result x of its request, and goes on with the next or returns.
LEMMA AnswerGoes ==
    ASSUME CallsTyped, NEW r \in Calls, NEW x, Answer(r, x)
    PROVE  /\ \A q \in Calls : q # r => call'[q] = call[q]
           /\ call'[r].results = [call[r].results EXCEPT ![call[r].i] = x]
           /\ IF call[r].i < Size(req[r]) THEN call'[r].i = call[r].i + 1 /\ call'[r].pc = "h2"
              ELSE call'[r].i = call[r].i /\ call'[r].pc = "done"
  <1> DEFINE k == call[r]
             n == IF k.i < Size(req[r]) THEN k.i + 1 ELSE k.i
             p == IF k.i < Size(req[r]) THEN "h2" ELSE "done"
             s == [k.results EXCEPT ![k.i] = x]
             d == [k EXCEPT !.results = s, !.i = n, !.pc = p, !.conn = NoConn]
  <1>1. k \in CallType
    BY DEF CallsTyped
  <1>2. call' = [call EXCEPT ![r] = d]
    BY DEF Answer, CallsTyped, CallType
  <1> HIDE DEF k, n, p, s
  <1>3. d.results = s /\ d.i = n /\ d.pc = p
    BY <1>1 DEF CallType
  <1> HIDE DEF d
  <1>4. call'[r] = d /\ \A q \in Calls : q # r => call'[q] = call[q]
    BY <1>2 DEF CallsTyped
  <1> QED BY <1>3, <1>4 DEF k, n, p, s

\* The request of a call that is at p now.
UnderWay(r, a, b, c) ==
    /\ Shaped(tries'[r][call[r].i], a, b, c) /\ Fits(req[r], a, b, c)
    /\ \A j \in Slots : j # call[r].i => tries'[r][j] = tries[r][j]

LEMMA GoesRouted ==
    ASSUME CallsTyped, NEW r \in Calls, Routed(req[r], call[r], tries[r]), req' = req, call[r].pc \in Current \ {"release"},
           NEW p \in Current \ {"start", "h3"}, Going(r, p),
           NEW a \in Nat, NEW b \in Nat, NEW c \in Nat, UnderWay(r, a, b, c), Stage(p, a, b, c),
           p \in BatchPcs => call[r].pc \in BatchPcs,
           p \in Http2Pcs => "h2" \in Allowed(req[r]),
           p \in {"h1", "h1Fresh"} => "h1" \in Allowed(req[r])
    PROVE  Routed(req'[r], call'[r], tries'[r])
  <1> DEFINE q == req[r]
             k == call[r]
             m == call'[r]
  <1>1. m.pc = p /\ m.i = k.i /\ m.results = k.results /\ k.i \in Slots /\ Size(q) \in Slots
    BY SizeIs DEF Going, CallsTyped, CallType
  <1>2. Placed(q, m)
    BY <1>1 DEF Routed, Placed
  <1>3. ASSUME NEW j \in 1 .. Size(q) PROVE \E a1, b1, c1 \in Nat : Tried(q, m, tries'[r][j], j, a1, b1, c1)
    <2>1. PICK a0 \in Nat, b0 \in Nat, c0 \in Nat : Tried(q, k, tries[r][j], j, a0, b0, c0)
      BY DEF Routed
    <2>2. j \in Slots
      BY <1>1 DEF Slots
    <2>3. CASE j = k.i
      <3>1. k.results[j] = "none"
        BY <2>1, <2>3 DEF Tried
      <3>2. Tried(q, m, tries'[r][j], j, a, b, c)
        BY <1>1, <2>3, <3>1 DEF Tried, UnderWay, Resulted, Current, Slots
      <3> QED BY <3>2
    <2>4. CASE j # k.i
      <3>1. Tried(q, m, tries'[r][j], j, a0, b0, c0)
        BY <1>1, <2>1, <2>2, <2>4 DEF Tried, UnderWay, Current
      <3> QED BY <3>1
    <2> QED BY <2>3, <2>4
  <1> QED BY <1>2, <1>3 DEF Routed

LEMMA AnswerRouted ==
    ASSUME CallsTyped, NEW r \in Calls, Routed(req[r], call[r], tries[r]), req' = req, req[r] \in RequestType,
           call[r].pc \in Current, NEW x \in Http \cup {"err", "noh2"}, Answer(r, x),
           NEW a \in Nat, NEW b \in Nat, NEW c \in Nat, UnderWay(r, a, b, c), Resulted(x, a, b, c)
    PROVE  Routed(req'[r], call'[r], tries'[r])
  <1> DEFINE q == req[r]
             k == call[r]
             m == call'[r]
  <1>1. /\ m.results = [k.results EXCEPT ![k.i] = x] /\ k.i \in Slots /\ Size(q) \in Slots
        /\ IF k.i < Size(q) THEN m.i = k.i + 1 /\ m.pc = "h2" ELSE m.i = k.i /\ m.pc = "done"
        /\ k.results \in [Slots -> Http \cup {"none", "err", "noh2"}]
    BY SizeIs, AnswerGoes DEF CallsTyped, CallType
  <1>2. Placed(q, m)
    <2>1. CASE k.i < Size(q)
      <3>1. Size(q) = 2 /\ "h2" \in Allowed(q) /\ m.i <= Size(q) /\ m.pc = "h2"
        BY <1>1, <2>1, Preferences DEF Slots
      <3> QED BY <3>1 DEF Placed, BatchPcs
    <2>2. CASE ~(k.i < Size(q))
      <3>1. m.pc = "done" /\ m.i = k.i /\ k.i <= Size(q)
        BY <1>1, <2>2 DEF Routed, Placed
      <3> QED BY <3>1 DEF Placed, BatchPcs, Http2Pcs
    <2> QED BY <2>1, <2>2
  <1>3. ASSUME NEW j \in 1 .. Size(q) PROVE \E a1, b1, c1 \in Nat : Tried(q, m, tries'[r][j], j, a1, b1, c1)
    <2>1. PICK a0 \in Nat, b0 \in Nat, c0 \in Nat : Tried(q, k, tries[r][j], j, a0, b0, c0)
      BY DEF Routed
    <2>2. j \in Slots
      BY <1>1 DEF Slots
    <2>3. m.pc = "h2" \/ m.pc = "done"
      BY <1>1
    <2>4. CASE j = k.i
      <3>1. m.results[j] = x /\ ~(m.pc \in Current /\ j >= m.i)
        BY <1>1, <2>2, <2>4 DEF Current, Slots
      <3>2. Tried(q, m, tries'[r][j], j, a, b, c)
        BY <2>3, <2>4, <3>1, <1>1 DEF Tried, UnderWay, Slots
      <3> QED BY <3>2
    <2>5. CASE j # k.i
      <3>1. m.results[j] = k.results[j] /\ tries'[r][j] = tries[r][j]
        BY <1>1, <2>2, <2>5 DEF UnderWay
      <3>2. ASSUME m.pc \in Current, j >= m.i
            PROVE  a0 + b0 + c0 = 0 /\ k.results[j] = "none"
        BY <1>1, <2>1, <2>2, <2>5, <3>2 DEF Tried, Current, Slots
      <3>3. a0 + b0 + c0 = 0 => Stage("h2", a0, b0, c0)
        BY DEF Stage
      <3>4. Tried(q, m, tries'[r][j], j, a0, b0, c0)
        <4>1. Shaped(tries'[r][j], a0, b0, c0) /\ Fits(q, a0, b0, c0) /\ Resulted(m.results[j], a0, b0, c0)
          BY <2>1, <3>1 DEF Tried
        <4>2. m.i \in Nat /\ j \in Nat /\ m.pc # "batchRead"
          BY <1>1, <2>2, <2>3 DEF Slots
        <4>3. ASSUME m.pc \in Current, j >= m.i
              PROVE  a0 + b0 + c0 = 0 /\ m.results[j] = "none" /\ Stage(m.pc, a0, b0, c0)
          BY <2>3, <3>1, <3>2, <3>3, <4>3 DEF Current
        <4> HIDE DEF q, k, m
        <4> QED BY <4>1, <4>2, <4>3 DEF Tried
      <3> QED BY <3>4
    <2> QED BY <2>4, <2>5
  <1> QED BY <1>2, <1>3 DEF Routed

\* Where the request of a call stands.
LEMMA Standing ==
    ASSUME CallsTyped, NEW r \in Calls, Routed(req[r], call[r], tries[r]), call[r].pc \in Current
    PROVE  /\ call[r].i \in 1 .. Size(req[r]) /\ call[r].i \in Slots /\ req[r] \in RequestType
           /\ \E a, b, c \in Nat :
                /\ Shaped(tries[r][call[r].i], a, b, c) /\ Fits(req[r], a, b, c) /\ Stage(call[r].pc, a, b, c)
  <1>1. call[r].i \in Slots /\ Size(req[r]) \in Slots /\ req[r] \in RequestType /\ call[r].i <= Size(req[r])
    BY SizeIs, SendHttpsAssumption DEF CallsTyped, CallType, Routed, Placed
  <1>2. call[r].i \in 1 .. Size(req[r])
    BY <1>1 DEF Slots
  <1>3. PICK a \in Nat, b \in Nat, c \in Nat : Tried(req[r], call[r], tries[r][call[r].i], call[r].i, a, b, c)
    BY <1>2 DEF Routed
  <1> QED BY <1>1, <1>2, <1>3 DEF Tried

LEMMA WrittenUnderWay ==
    ASSUME TriesTyped, NEW r \in Calls, call[r].i \in Slots, call[r].pc \notin {"batchWrite", "batchRead"},
           NEW version \in Http, NEW posture \in Postures, Written(r, version, posture),
           NEW a \in Nat, NEW b \in Nat, NEW c \in Nat, Shaped(tries[r][call[r].i], a, b, c)
    PROVE  /\ \A q \in Calls : q # r => tries'[q] = tries[q]
           /\ version = "h3" /\ b = 0 /\ c = 0 /\ Fits(req[r], a + 1, b, c) => UnderWay(r, a + 1, b, c)
           /\ version = "h2" /\ c = 0 /\ Fits(req[r], a, b + 1, c) => UnderWay(r, a, b + 1, c)
           /\ version = "h1" /\ Fits(req[r], a, b, c + 1) => UnderWay(r, a, b, c + 1)
  <1>1. Flight(r) = {call[r].i}
    BY DEF Flight, At
  <1>2. /\ \A q \in Calls : q # r => tries'[q] = tries[q]
        /\ \A j \in Slots : j # call[r].i => tries'[r][j] = tries[r][j]
        /\ \E x \in TryType : x.version = version /\ tries'[r][call[r].i] = Append(tries[r][call[r].i], x)
    BY <1>1, WrittenTo
  <1>3. tries[r][call[r].i] \in Seq(TryType)
    BY DEF TriesTyped
  <1> QED BY <1>2, <1>3, TriedAgain DEF UnderWay

\* One turn of call r, as far as the others go.
Alone(r) == \A q \in Calls : q # r => call'[q] = call[q] /\ tries'[q] = tries[q]
RoutedOn(r) == Routed(req'[r], call'[r], tries'[r]) /\ Alone(r)

LEMMA StartRouted ==
    ASSUME TermsInv, NEW r \in Calls, Routed(req[r], call[r], tries[r]), Start(r)
    PROVE  RoutedOn(r)
  <1>1. CallsTyped /\ call[r].pc = "start" /\ "start" \in Current /\ req' = req /\ tries' = tries
    BY DEF TermsInv, Shared, Start, At, Current, Pcs
  <1>2. PICK a \in Nat, b \in Nat, c \in Nat :
          Shaped(tries[r][call[r].i], a, b, c) /\ Fits(req[r], a, b, c) /\ Stage("start", a, b, c)
    BY <1>1, Standing
  <1>3. a = 0 /\ b = 0 /\ c = 0
    BY <1>2 DEF Stage
  <1>4. /\ req[r] \in RequestType /\ Placed(req[r], call[r])
        /\ \A j \in 1 .. Size(req[r]) : \E x, y, z \in Nat : Tried(req[r], call[r], tries[r][j], j, x, y, z)
    BY <1>1, Standing DEF Routed
  <1>5. PICK p : Goto(r, p) /\ p = IF req[r].kind = "batch"
                                   THEN IF req[r].sameOrigin /\ PoolEligible(req[r]) THEN "batch" ELSE "h2"
                                   ELSE CASE req[r].pref \in {"Http3", "Http3Only"} -> "h3"
                                          [] req[r].pref = "Http11Only" -> "h1"
                                          [] OTHER -> "h2"
    BY DEF Start
  <1>6. /\ p \in {"batch", "h1", "h2", "h3"}
        /\ p = "batch" => req[r].kind = "batch"
        /\ p = "h3" => "h3" \in Allowed(req[r])
        /\ p \in {"batch", "h2"} => "h2" \in Allowed(req[r])
        /\ p = "h1" => "h1" \in Allowed(req[r])
    BY <1>4, <1>5, Preferences
  <1>7. Going(r, p)
    BY <1>1, <1>5, GotoGoes
  <1>8. Placed(req[r], call'[r])
    BY <1>1, <1>4, <1>6, <1>7 DEF Going, Placed, BatchPcs, Http2Pcs
  <1>9. ASSUME NEW j \in 1 .. Size(req[r])
        PROVE  \E x, y, z \in Nat : Tried(req[r], call'[r], tries[r][j], j, x, y, z)
    <2>1. PICK x \in Nat, y \in Nat, z \in Nat : Tried(req[r], call[r], tries[r][j], j, x, y, z)
      BY <1>4
    <2>2. x + y + z = 0 => Stage(p, x, y, z)
      BY <1>6 DEF Stage
    <2>3. j = call[r].i => x + y + z = 0
      BY <1>1, <2>1 DEF Tried, Stage
    <2>4. Tried(req[r], call'[r], tries[r][j], j, x, y, z)
      BY <1>1, <1>6, <1>7, <2>1, <2>2, <2>3 DEF Tried, Going
    <2> QED BY <2>4
  <1>10. Alone(r)
    BY <1>1, <1>7 DEF Going, Alone
  <1> QED BY <1>1, <1>8, <1>9, <1>10 DEF Routed, RoutedOn

LEMMA Http3Routed ==
    ASSUME TermsInv, NEW r \in Calls, Routed(req[r], call[r], tries[r]), Http3(r)
    PROVE  RoutedOn(r)
  <1>1. /\ CallsTyped /\ TriesTyped /\ call[r].pc = "h3" /\ "h3" \in Current \ {"release"} /\ req' = req
        /\ req[r].posture \in Postures
    BY TermsTyped DEF TermsInv, Shared, Http3, At, Current, Pcs, Terms
  <1>2. PICK a \in Nat, b \in Nat, c \in Nat :
          Shaped(tries[r][call[r].i], a, b, c) /\ Fits(req[r], a, b, c) /\ Stage("h3", a, b, c)
    BY <1>1, Standing
  <1>3. a = 0 /\ b = 0 /\ c = 0
    BY <1>2 DEF Stage
  <1>4. req[r] \in RequestType /\ call[r].i \in Slots /\ "h3" \in Allowed(req[r])
    BY <1>1, Standing DEF Routed, Placed
  <1>5. ASSUME NEW n \in {0, 1}, UnderWay(r, n, 0, 0), NEW x \in {"h3", "err"}, Answer(r, x), x = "h3" => n = 1,
               \A q \in Calls : q # r => tries'[q] = tries[q]
        PROVE  RoutedOn(r)
    <2>1. Resulted(x, n, 0, 0) /\ x \in Http \cup {"err", "noh2"} /\ n \in Nat
      BY <1>5 DEF Resulted, Http
    <2>2. Routed(req'[r], call'[r], tries'[r])
      BY <1>1, <1>4, <1>5, <2>1, AnswerRouted
    <2> QED BY <1>1, <1>5, <2>2, AnswerGoes DEF RoutedOn, Alone
  <1>6. ASSUME NEW n \in {0, 1}, UnderWay(r, n, 0, 0), Goto(r, "h2"), AfterHttp3(req[r]) = "h2",
               \A q \in Calls : q # r => tries'[q] = tries[q]
        PROVE  RoutedOn(r)
    <2>1. Stage("h2", n, 0, 0) /\ "h2" \in Current \ {"start", "h3"} /\ n \in Nat
      BY <1>6 DEF Stage, Current, Pcs
    <2>2. "h2" \in Allowed(req[r])
      BY <1>4, <1>6, Preferences
    <2>3. Going(r, "h2")
      BY <1>1, <1>6, GotoGoes
    <2>4. Routed(req'[r], call'[r], tries'[r])
      BY <1>1, <1>6, <2>1, <2>2, <2>3, GoesRouted DEF BatchPcs
    <2> QED BY <1>6, <2>3, <2>4 DEF RoutedOn, Alone, Going
  <1>7. CASE Written(r, "h3", req[r].posture)
    <2>1. Fits(req[r], a + 1, b, c)
      BY <1>2, <1>3, <1>4 DEF Fits
    <2>2. UnderWay(r, 1, 0, 0) /\ \A q \in Calls : q # r => tries'[q] = tries[q]
      <3>1. "h3" \in Http /\ call[r].pc \notin {"batchWrite", "batchRead"}
        BY <1>1 DEF Http
      <3>2. UnderWay(r, a + 1, b, c) /\ \A q \in Calls : q # r => tries'[q] = tries[q]
        BY <1>1, <1>2, <1>3, <1>4, <1>7, <2>1, <3>1, WrittenUnderWay
      <3> QED BY <1>3, <3>2
    <2>3. CASE \E x \in {"h3", "err"} : Answer(r, x)
      BY <1>5, <2>2, <2>3
    <2>4. CASE AfterHttp3(req[r]) = "h2" /\ Goto(r, "h2")
      BY <1>6, <2>2, <2>4
    <2>5. \/ \E x \in {"h3", "err"} : Answer(r, x)
          \/ AfterHttp3(req[r]) = "h2" /\ Goto(r, "h2")
      BY DEF Http3
    <2> QED BY <2>3, <2>4, <2>5
  <1>8. CASE tries' = tries
    <2>1. UnderWay(r, 0, 0, 0) /\ \A q \in Calls : q # r => tries'[q] = tries[q]
      BY <1>2, <1>3, <1>8 DEF UnderWay
    <2>2. CASE AfterHttp3(req[r]) = "h2" /\ Goto(r, "h2")
      BY <1>6, <2>1, <2>2
    <2>3. CASE Answer(r, "err")
      BY <1>5, <2>1, <2>3
    <2>4. \/ Written(r, "h3", req[r].posture)
          \/ AfterHttp3(req[r]) = "h2" /\ Goto(r, "h2")
          \/ Answer(r, "err")
      BY DEF Http3
    <2> QED BY <1>7, <2>2, <2>3, <2>4
  <1> QED BY <1>7, <1>8 DEF Http3

\* A call that goes on, or has no answer, without having written anything.
LEMMA GoesOn ==
    ASSUME TermsInv, NEW r \in Calls, Routed(req[r], call[r], tries[r]), req' = req, tries' = tries,
           call[r].pc \in Current \ {"release"}, NEW p \in Current \ {"start", "h3"}, Going(r, p),
           \A a, b, c \in Nat : Stage(call[r].pc, a, b, c) => Stage(p, a, b, c),
           p \in BatchPcs => call[r].pc \in BatchPcs,
           p \in Http2Pcs => call[r].pc \in Http2Pcs,
           p \in {"h1", "h1Fresh"} => "h1" \in Allowed(req[r])
    PROVE  RoutedOn(r)
  <1>1. CallsTyped
    BY DEF TermsInv, Shared
  <1>2. PICK a \in Nat, b \in Nat, c \in Nat :
          Shaped(tries[r][call[r].i], a, b, c) /\ Fits(req[r], a, b, c) /\ Stage(call[r].pc, a, b, c)
    BY <1>1, Standing
  <1>3. UnderWay(r, a, b, c) /\ Stage(p, a, b, c)
    BY <1>2 DEF UnderWay
  <1>4. p \in Http2Pcs => "h2" \in Allowed(req[r])
    BY DEF Routed, Placed
  <1>5. Routed(req'[r], call'[r], tries'[r])
    BY <1>1, <1>3, <1>4, GoesRouted
  <1> QED BY <1>5 DEF RoutedOn, Alone, Going

LEMMA FailsOn ==
    ASSUME TermsInv, NEW r \in Calls, Routed(req[r], call[r], tries[r]), req' = req, tries' = tries,
           call[r].pc \in Current, NEW x \in {"err", "noh2"}, Answer(r, x)
    PROVE  RoutedOn(r)
  <1>1. CallsTyped
    BY DEF TermsInv, Shared
  <1>2. req[r] \in RequestType /\ \E a, b, c \in Nat : Shaped(tries[r][call[r].i], a, b, c) /\ Fits(req[r], a, b, c)
    BY <1>1, Standing
  <1>3. PICK a \in Nat, b \in Nat, c \in Nat : Shaped(tries[r][call[r].i], a, b, c) /\ Fits(req[r], a, b, c)
    BY <1>2
  <1>4. UnderWay(r, a, b, c) /\ Resulted(x, a, b, c)
    BY <1>3 DEF UnderWay, Resulted
  <1>5. Routed(req'[r], call'[r], tries'[r])
    BY <1>1, <1>2, <1>4, AnswerRouted
  <1> QED BY <1>1, <1>5, AnswerGoes DEF RoutedOn, Alone

LEMMA TakeRouted ==
    ASSUME TermsInv, NEW r \in Calls, Routed(req[r], call[r], tries[r]), TakePooled(r)
    PROVE  RoutedOn(r)
  <1>1. CallsTyped /\ call[r].pc \in {"h2", "batch"} /\ req' = req /\ tries' = tries
    BY DEF TermsInv, Shared, TakePooled, At
  <1>2. PICK p \in {"dial", "batchDial", "pooledWrite", "batchWrite"} :
          /\ Goto(r, p) \/ \E c : Put(r, p, c)
          /\ p \in {"dial", "pooledWrite"} <=> call[r].pc = "h2"
    BY <1>1 DEF TakePooled, At, Put
  <1>3. Going(r, p)
    BY <1>1, <1>2, GotoGoes, PutGoes
  <1>4. \A a, b, c \in Nat : Stage(call[r].pc, a, b, c) => Stage(p, a, b, c)
    BY <1>1, <1>2 DEF Stage
  <1>5. /\ call[r].pc \in Current \ {"release"} /\ p \in Current \ {"start", "h3"}
        /\ (p \in BatchPcs => call[r].pc \in BatchPcs) /\ call[r].pc \in Http2Pcs /\ p \notin {"h1", "h1Fresh"}
    BY <1>1, <1>2 DEF Current, Pcs, Holding, BatchPcs, Http2Pcs
  <1> QED BY <1>1, <1>3, <1>4, <1>5, GoesOn

LEMMA DialRouted ==
    ASSUME TermsInv, NEW r \in Calls, Routed(req[r], call[r], tries[r]), Dial(r)
    PROVE  RoutedOn(r)
  <1>1. CallsTyped /\ call[r].pc \in {"dial", "batchDial"} /\ req' = req /\ tries' = tries
    BY DEF TermsInv, Shared, Dial, At
  <1>2. req[r] \in RequestType /\ call[r].pc \in Current \ {"release"} /\ call[r].pc \in Http2Pcs
    BY <1>1, Standing DEF Current, Pcs, Holding, Http2Pcs, BatchPcs
  <1>3. ASSUME NEW p \in {"coldWrite", "batchWrite", "h2", "h1"}, Going(r, p),
               call[r].pc = "dial" => p \in {"coldWrite", "h1"}, call[r].pc = "batchDial" => p \in {"batchWrite", "h2"},
               p = "h1" => NotNegotiated(req[r]) = "h1"
        PROVE  RoutedOn(r)
    <2>1. \A a, b, c \in Nat : Stage(call[r].pc, a, b, c) => Stage(p, a, b, c)
      BY <1>1, <1>3 DEF Stage
    <2>2. /\ p \in Current \ {"start", "h3"} /\ (p \in BatchPcs => call[r].pc \in BatchPcs)
          /\ p \in {"h1", "h1Fresh"} => "h1" \in Allowed(req[r])
      BY <1>1, <1>2, <1>3, Preferences DEF Current, Pcs, Holding, BatchPcs
    <2> QED BY <1>1, <1>2, <1>3, <2>1, <2>2, GoesOn
  <1>4. CASE \E x \in {"err", "noh2"} : Answer(r, x)
    BY <1>1, <1>2, <1>4, FailsOn
  <1>5. CASE call' = [call EXCEPT ![r].pc = IF At(r, {"dial"}) THEN "coldWrite" ELSE "batchWrite",
                                  ![r].conn = <<r, call[r].i>>]
    <2>1. PICK p \in {"coldWrite", "batchWrite"} : Put(r, p, <<r, call[r].i>>) /\ (p = "coldWrite" <=> call[r].pc = "dial")
      BY <1>5 DEF Put, At
    <2> QED BY <1>1, <1>3, <2>1, PutGoes
  <1>6. CASE call[r].pc = "batchDial" /\ Goto(r, "h2")
    BY <1>1, <1>3, <1>6, GotoGoes
  <1>7. CASE call[r].pc = "dial" /\ NotNegotiated(req[r]) = "h1" /\ Goto(r, "h1")
    BY <1>1, <1>3, <1>7, GotoGoes
  <1>8. NotNegotiated(req[r]) \in {"h1", "noh2"}
    BY DEF NotNegotiated
  <1> QED BY <1>1, <1>4, <1>5, <1>6, <1>7, <1>8 DEF Dial, At

\* What a failed exchange leads to.
LEMMA FailRouted ==
    ASSUME TermsInv, NEW r \in Calls, Routed(req[r], call[r], tries[r]), req' = req, tries' = tries, FailSingle(r),
           call[r].pc \in {"pooledWrite", "pooledRead", "coldWrite", "coldRead"}
    PROVE  RoutedOn(r)
  <1>1. CallsTyped /\ call[r].pc \in Current \ {"release"} /\ call[r].pc \in Http2Pcs /\ call[r].pc \notin BatchPcs
    BY DEF TermsInv, Shared, Current, Pcs, Holding, Http2Pcs, BatchPcs
  <1>2. CASE Answer(r, "err")
    BY <1>1, <1>2, FailsOn
  <1>3. CASE call[r].pc \in {"pooledWrite", "pooledRead"} /\ Put(r, "dial", NoConn)
    <2>1. \A a, b, c \in Nat : Stage(call[r].pc, a, b, c) => Stage("dial", a, b, c)
      BY <1>3 DEF Stage
    <2>2. "dial" \in Current \ {"start", "h3"} /\ "dial" \notin BatchPcs
      BY DEF Current, Pcs, BatchPcs
    <2>3. Going(r, "dial")
      BY <1>1, <1>3, PutGoes
    <2> QED BY <1>1, <2>1, <2>2, <2>3, GoesOn
  <1> QED BY <1>2, <1>3 DEF FailSingle, AfterFailure, At, Put

LEMMA ReadFailsRouted ==
    ASSUME TermsInv, NEW r \in Calls, Routed(req[r], call[r], tries[r]), ReadFails(r)
    PROVE  RoutedOn(r)
  BY FailRouted DEF ReadFails, At

LEMMA WriteRequestRouted ==
    ASSUME TermsInv, NEW r \in Calls, Routed(req[r], call[r], tries[r]), WriteRequest(r)
    PROVE  RoutedOn(r)
  <1>1. /\ CallsTyped /\ TriesTyped /\ call[r].pc \in {"pooledWrite", "coldWrite"} /\ req' = req
        /\ call[r].pc \in Current \ {"release"} /\ call[r].pc \in Http2Pcs
    BY DEF TermsInv, Shared, WriteRequest, At, Current, Pcs, Holding, Http2Pcs, BatchPcs
  <1>2. CASE FailSingle(r) /\ tries' = tries
    BY <1>1, <1>2, FailRouted
  <1>3. ASSUME NEW p \in {"pooledRead", "coldRead"}, p = "pooledRead" <=> call[r].pc = "pooledWrite",
               Goto(r, p), Written(r, "h2", conn[call[r].conn].posture)
        PROVE  RoutedOn(r)
    <2>1. PICK a \in Nat, b \in Nat, c \in Nat :
            Shaped(tries[r][call[r].i], a, b, c) /\ Fits(req[r], a, b, c) /\ Stage(call[r].pc, a, b, c)
      BY <1>1, Standing
    <2>2. "h2" \in Allowed(req[r]) /\ call[r].i \in Slots
      BY <1>1, Standing DEF Routed, Placed
    <2>3. conn[call[r].conn].posture \in Postures /\ "h2" \in Http
      <3>1. call[r].conn # NoConn /\ call[r].conn \in Conns \cup {NoConn}
        BY <1>1 DEF TermsInv, Shared, HasConn, CallsTyped, CallType, Holding
      <3>2. conn[call[r].conn] \in ConnType
        BY <3>1 DEF TermsInv, Shared, ConnsTyped
      <3> QED BY <3>2 DEF ConnType, Http
    <2>4. c = 0 /\ b <= 1 /\ Fits(req[r], a, b + 1, c) /\ Stage(p, a, b + 1, c)
      BY <1>1, <1>3, <2>1, <2>2 DEF Fits, Stage
    <2>5. UnderWay(r, a, b + 1, c) /\ \A q \in Calls : q # r => tries'[q] = tries[q]
      BY <1>1, <1>3, <2>1, <2>2, <2>3, <2>4, WrittenUnderWay
    <2>6. Going(r, p)
      BY <1>1, <1>3, GotoGoes
    <2>7. p \in Current \ {"start", "h3"} /\ p \notin BatchPcs /\ p \notin {"h1", "h1Fresh"}
      BY DEF Current, Pcs, Holding, BatchPcs
    <2>8. Routed(req'[r], call'[r], tries'[r])
      BY <1>1, <2>2, <2>4, <2>5, <2>6, <2>7, GoesRouted
    <2> QED BY <2>5, <2>6, <2>8 DEF RoutedOn, Alone, Going
  <1> QED BY <1>1, <1>2, <1>3 DEF WriteRequest, At

\* A call that has new results, and wrote nothing.
LEMMA ResultsGo ==
    ASSUME CallsTyped, NEW r \in Calls, NEW p, NEW results, Results(r, p, results)
    PROVE  /\ call'[r].pc = p /\ call'[r].i = call[r].i /\ call'[r].results = results
           /\ \A q \in Calls : q # r => call'[q] = call[q]
  <1> DEFINE d == [call[r] EXCEPT !.pc = p, !.results = results]
  <1>1. call' = [call EXCEPT ![r] = d]
    BY DEF CallsTyped, Results
  <1>2. d.pc = p /\ d.i = call[r].i /\ d.results = results
    BY DEF CallsTyped, CallType
  <1> HIDE DEF d
  <1> QED BY <1>1, <1>2 DEF CallsTyped

LEMMA ReadResponseRouted ==
    ASSUME TermsInv, NEW r \in Calls, Routed(req[r], call[r], tries[r]), ReadResponse(r)
    PROVE  RoutedOn(r)
  <1> DEFINE q == req[r]
             k == call[r]
             m == call'[r]
             results == [call[r].results EXCEPT ![call[r].i] = "h2"]
  <1>1. /\ CallsTyped /\ k.pc \in {"pooledRead", "coldRead"} /\ req' = req /\ tries' = tries
        /\ k.pc \in Current /\ k.pc \in Http2Pcs /\ k.pc # "release"
    BY DEF TermsInv, Shared, ReadResponse, At, Current, Pcs, Holding, Http2Pcs
  <1>2. Results(r, "release", results)
    BY <1>1 DEF ReadResponse, Results, CallsTyped, CallType
  <1>3. k.i \in Slots /\ Size(q) \in Slots /\ DOMAIN k.results = Slots
    BY <1>1, SizeIs DEF CallsTyped, CallType
  <1>4. m.pc = "release" /\ m.i = k.i /\ m.results = results /\ \A s \in Calls : s # r => call'[s] = call[s]
    BY <1>1, <1>2, ResultsGo
  <1>5. Placed(q, m)
    BY <1>1, <1>4 DEF Routed, Placed, BatchPcs
  <1>6. ASSUME NEW j \in 1 .. Size(q) PROVE \E a, b, c \in Nat : Tried(q, m, tries[r][j], j, a, b, c)
    <2>1. PICK a \in Nat, b \in Nat, c \in Nat : Tried(q, k, tries[r][j], j, a, b, c)
      BY DEF Routed
    <2>2. j \in Slots
      BY <1>3 DEF Slots
    <2>3. CASE j = k.i
      <3>1. Stage(k.pc, a, b, c)
        BY <1>1, <2>1, <2>3 DEF Tried
      <3>2. b > 0 /\ c = 0
        BY <1>1, <3>1 DEF Stage
      <3>3. Resulted("h2", a, b, c) /\ Stage("release", a, b, c) /\ m.results[j] = "h2"
        BY <1>3, <1>4, <2>3, <3>2 DEF Resulted, Stage
      <3>4. Shaped(tries[r][j], a, b, c) /\ Fits(q, a, b, c)
        BY <2>1 DEF Tried
      <3> QED BY <1>3, <1>4, <2>3, <3>3, <3>4 DEF Tried, Slots
    <2>4. CASE j # k.i
      <3>1. m.results[j] = k.results[j]
        BY <1>3, <1>4, <2>2, <2>4
      <3> QED BY <1>1, <1>4, <2>1, <2>4, <3>1 DEF Tried
    <2> QED BY <2>3, <2>4
  <1> QED BY <1>1, <1>4, <1>5, <1>6 DEF RoutedOn, Routed, Alone

LEMMA ReleaseRouted ==
    ASSUME TermsInv, NEW r \in Calls, Routed(req[r], call[r], tries[r]), Release(r)
    PROVE  RoutedOn(r)
  <1>1. CallsTyped /\ call[r].pc \in {"release", "batchRelease"} /\ req' = req /\ tries' = tries
    BY DEF TermsInv, Shared, Release, At
  <1>2. CASE call[r].pc = "release" /\ Answer(r, "h2")
    <2>1. call[r].pc \in Current
      BY <1>2 DEF Current, Pcs, Holding
    <2>2. PICK a \in Nat, b \in Nat, c \in Nat :
            Shaped(tries[r][call[r].i], a, b, c) /\ Fits(req[r], a, b, c) /\ Stage(call[r].pc, a, b, c)
      BY <1>1, <2>1, Standing
    <2>3. UnderWay(r, a, b, c) /\ Resulted("h2", a, b, c)
      BY <1>1, <1>2, <2>2 DEF UnderWay, Resulted, Stage
    <2>4. req[r] \in RequestType /\ "h2" \in Http \cup {"err", "noh2"}
      BY <1>1, <2>1, Standing DEF Http
    <2>5. Routed(req'[r], call'[r], tries'[r])
      BY <1>1, <1>2, <2>1, <2>3, <2>4, AnswerRouted
    <2> QED BY <1>1, <1>2, <2>5, AnswerGoes DEF RoutedOn, Alone
  <1>3. CASE call[r].pc = "batchRelease" /\ Put(r, "done", NoConn)
    <2>1. Going(r, "done")
      BY <1>1, <1>3, PutGoes
    <2>2. "done" \notin Current \cup {"batchRead"} /\ "done" \notin Http2Pcs \cup BatchPcs
      BY DEF Current, Http2Pcs, BatchPcs
    <2>3. Placed(req[r], call'[r])
      BY <2>1, <2>2 DEF Routed, Placed, Going
    <2>4. ASSUME NEW j \in 1 .. Size(req[r])
          PROVE  \E a, b, c \in Nat : Tried(req[r], call'[r], tries[r][j], j, a, b, c)
      <3>1. PICK a \in Nat, b \in Nat, c \in Nat : Tried(req[r], call[r], tries[r][j], j, a, b, c)
        BY DEF Routed
      <3>2. Tried(req[r], call'[r], tries[r][j], j, a, b, c)
        BY <2>1, <2>2, <3>1 DEF Tried, Going
      <3> QED BY <3>2
    <2> QED BY <1>1, <2>1, <2>3, <2>4 DEF RoutedOn, Routed, Alone, Going
  <1> QED BY <1>1, <1>2, <1>3 DEF Release, At, Put

\* A batch is written at once, each request for the first time.
LEMMA WriteBatchRouted ==
    ASSUME TermsInv, NEW r \in Calls, Routed(req[r], call[r], tries[r]), WriteBatch(r)
    PROVE  RoutedOn(r)
  <1> DEFINE q == req[r]
             k == call[r]
             m == call'[r]
             d == call[r].conn
             opened == {i \in {1, 2} : conn[d].told = "nothing" /\ i <= conn[d].ids}
             results == [i \in {1, 2} |-> IF i \in opened THEN "none" ELSE "err"]
             x == [version |-> "h2", posture |-> conn[d].posture]
             ts == [i \in {1, 2} |-> IF i \in opened THEN Append(tries[r][i], x) ELSE tries[r][i]]
  <1>1. CallsTyped /\ TriesTyped /\ k.pc = "batchWrite" /\ req' = req /\ k.pc \in Current /\ k.pc \in BatchPcs
    BY DEF TermsInv, Shared, WriteBatch, At, Current, Pcs, Holding, BatchPcs
  <1>2. q \in RequestType /\ q.kind = "batch" /\ k.i = 1 /\ "h2" \in Allowed(q)
    BY <1>1, Standing DEF Routed, Placed, Http2Pcs
  <1>3. Allowed(q) = {"h2"} /\ Size(q) = 2
    BY <1>2, Preferences
  <1>4. x \in TryType /\ x.version = "h2"
    <2>1. d # NoConn /\ d \in Conns
      BY <1>1 DEF TermsInv, Shared, HasConn, CallsTyped, CallType, Holding
    <2>2. conn[d].posture \in Postures
      BY <2>1 DEF TermsInv, Shared, ConnsTyped, ConnType
    <2> QED BY <2>2 DEF TryType, Http
  <1>5. Results(r, "batchRead", results) /\ tries' = [tries EXCEPT ![r] = ts]
    BY DEF WriteBatch, Results, TriesTyped, TermsInv
  <1> HIDE DEF opened, x
  <1>6. m.pc = "batchRead" /\ m.i = k.i /\ m.results = results /\ \A s \in Calls : s # r => call'[s] = call[s]
    BY <1>1, <1>5, ResultsGo
  <1>7. \A j \in {1, 2} : /\ m.results[j] = IF j \in opened THEN "none" ELSE "err"
                          /\ ts[j] = IF j \in opened THEN Append(tries[r][j], x) ELSE tries[r][j]
    BY <1>6
  <1> HIDE DEF ts, results
  <1>8. tries'[r] = ts /\ \A s \in Calls : s # r => tries'[s] = tries[s]
    BY <1>1, <1>5 DEF TriesTyped
  <1>9. Placed(q, m)
    BY <1>2, <1>3, <1>6 DEF Placed
  <1>10. ASSUME NEW j \in 1 .. Size(q) PROVE \E a, b, c \in Nat : Tried(q, m, ts[j], j, a, b, c)
    <2>1. PICK a \in Nat, b \in Nat, c \in Nat : Tried(q, k, tries[r][j], j, a, b, c)
      BY DEF Routed
    <2>2. j \in {1, 2}
      BY <1>3
    <2>3. a = 0 /\ b = 0 /\ c = 0
      <3>1. a = 0 /\ c = 0
        BY <1>3, <2>1 DEF Tried, Fits
      <3>2. CASE j = k.i
        BY <1>1, <2>1, <3>1, <3>2 DEF Tried, Stage
      <3>3. CASE j > k.i
        BY <1>1, <2>1, <3>1, <3>3 DEF Tried
      <3> QED BY <1>2, <2>2, <3>1, <3>2, <3>3
    <2>4. Shaped(tries[r][j], 0, 0, 0) /\ tries[r][j] \in Seq(TryType)
      BY <1>1, <2>1, <2>2, <2>3 DEF Tried, TriesTyped, Slots
    <2>5. "batchRead" \notin Current
      BY DEF Current
    <2>6. CASE j \in opened
      <3>1. Shaped(ts[j], 0, 0 + 1, 0)
        BY <1>4, <1>7, <2>2, <2>4, <2>6, TriedAgain
      <3>2. Fits(q, 0, 1, 0) /\ Resulted("none", 0, 1, 0)
        BY <1>2 DEF Fits, Resulted
      <3>3. Tried(q, m, ts[j], j, 0, 1, 0)
        BY <1>6, <1>7, <2>2, <2>5, <2>6, <3>1, <3>2 DEF Tried
      <3> QED BY <3>3
    <2>7. CASE j \notin opened
      <3>1. Fits(q, 0, 0, 0) /\ Resulted("err", 0, 0, 0)
        BY DEF Fits, Resulted
      <3>2. Tried(q, m, ts[j], j, 0, 0, 0)
        BY <1>6, <1>7, <2>2, <2>4, <2>5, <2>7, <3>1 DEF Tried
      <3> QED BY <3>2
    <2> QED BY <2>6, <2>7
  <1> QED BY <1>1, <1>6, <1>8, <1>9, <1>10 DEF RoutedOn, Routed, Alone

LEMMA ReadBatchRouted ==
    ASSUME TermsInv, NEW r \in Calls, Routed(req[r], call[r], tries[r]), ReadBatch(r)
    PROVE  RoutedOn(r)
  <1> DEFINE q == req[r]
             k == call[r]
             m == call'[r]
  <1>1. /\ CallsTyped /\ k.pc = "batchRead" /\ req' = req /\ tries' = tries /\ k.pc \in BatchPcs
        /\ k.results \in [Slots -> Http \cup {"none", "err", "noh2"}] /\ Size(q) \in Slots
    BY SizeIs DEF TermsInv, Shared, ReadBatch, At, BatchPcs, CallsTyped, CallType
  <1>2. "batchRead" \notin Current /\ "batchRelease" \notin Current
    BY DEF Current
  <1>3. ASSUME NEW p \in {"batchRead", "batchRelease"}, m.pc = p, m.i = k.i, \A s \in Calls : s # r => call'[s] = call[s],
               \A j \in Slots : \/ m.results[j] = k.results[j] \/ m.results[j] = "err"
                                \/ k.results[j] = "none" /\ m.results[j] = "h2"
        PROVE  RoutedOn(r)
    <2>1. Placed(q, m)
      BY <1>1, <1>3 DEF Routed, Placed, BatchPcs, Http2Pcs
    <2>2. ASSUME NEW j \in 1 .. Size(q) PROVE \E a, b, c \in Nat : Tried(q, m, tries[r][j], j, a, b, c)
      <3>1. PICK a \in Nat, b \in Nat, c \in Nat : Tried(q, k, tries[r][j], j, a, b, c)
        BY DEF Routed
      <3>2. j \in Slots
        BY <1>1 DEF Slots
      <3>3. CASE m.results[j] = k.results[j]
        BY <1>1, <1>2, <1>3, <3>1, <3>3 DEF Tried
      <3>4. CASE m.results[j] = "err"
        BY <1>1, <1>2, <1>3, <3>1, <3>4 DEF Tried, Resulted
      <3>5. CASE k.results[j] = "none" /\ m.results[j] = "h2"
        BY <1>1, <1>2, <1>3, <3>1, <3>5 DEF Tried, Resulted
      <3> QED BY <1>3, <3>2, <3>3, <3>4, <3>5
    <2> QED BY <1>1, <1>3, <2>1, <2>2 DEF RoutedOn, Routed, Alone
  <1>4. CASE Goto(r, "batchRelease")
    <2>1. Going(r, "batchRelease")
      BY <1>1, <1>4, GotoGoes
    <2> QED BY <1>3, <2>1 DEF Going
  <1>5. CASE BatchResponse(r)
    <2>1. PICK i \in Pending(r) : call' = [call EXCEPT ![r].results[i] = "h2"]
      BY <1>5 DEF BatchResponse
    <2> DEFINE results == [k.results EXCEPT ![i] = "h2"]
    <2>2. Results(r, "batchRead", results)
      BY <1>1, <2>1 DEF Results, CallsTyped, CallType
    <2>3. i \in Slots /\ k.results[i] = "none"
      BY DEF Pending, Slots
    <2>4. ASSUME NEW j \in Slots PROVE results[j] = k.results[j] \/ (k.results[j] = "none" /\ results[j] = "h2")
      <3>1. CASE j = i
        BY <1>1, <2>3, <3>1
      <3>2. CASE j # i
        BY <1>1, <2>3, <3>2
      <3> QED BY <3>1, <3>2
    <2> HIDE DEF results
    <2>5. /\ m.pc = "batchRead" /\ m.i = k.i /\ m.results = results /\ \A s \in Calls : s # r => call'[s] = call[s]
      BY <1>1, <2>2, ResultsGo
    <2> QED BY <1>3, <2>4, <2>5
  <1>6. CASE BatchError(r)
    <2>1. PICK failed : call' = [call EXCEPT ![r].results = [i \in {1, 2} |-> IF i \in failed THEN "err" ELSE @[i]]]
      BY <1>6 DEF BatchError
    <2> DEFINE results == [i \in {1, 2} |-> IF i \in failed THEN "err" ELSE k.results[i]]
    <2>2. Results(r, "batchRead", results)
      BY <1>1, <2>1 DEF Results, CallsTyped, CallType
    <2>3. \A j \in Slots : results[j] = k.results[j] \/ results[j] = "err"
      BY DEF Slots
    <2> HIDE DEF results
    <2>4. /\ m.pc = "batchRead" /\ m.i = k.i /\ m.results = results /\ \A s \in Calls : s # r => call'[s] = call[s]
      BY <1>1, <2>2, ResultsGo
    <2> QED BY <1>3, <2>3, <2>4
  <1> QED BY <1>4, <1>5, <1>6 DEF ReadBatch

LEMMA Http1Routed ==
    ASSUME TermsInv, NEW r \in Calls, Routed(req[r], call[r], tries[r]), Http1(r)
    PROVE  RoutedOn(r)
  <1>1. /\ CallsTyped /\ TriesTyped /\ call[r].pc \in {"h1", "h1Fresh"} /\ req' = req /\ req[r].posture \in Postures
        /\ call[r].pc \in Current \ {"release"} /\ call[r].pc \notin BatchPcs
    BY TermsTyped DEF TermsInv, Shared, Http1, At, Current, Pcs, Holding, BatchPcs, Terms
  <1>2. /\ "h1Fresh" \in Current \ {"start", "h3"} /\ "h1Fresh" \notin Http2Pcs \cup BatchPcs
        /\ "h1" \in Http /\ "h1" \in Http \cup {"err", "noh2"} /\ "err" \in Http \cup {"err", "noh2"}
        /\ "default" \in Postures
    BY DEF Current, Pcs, Http2Pcs, BatchPcs, Http, Postures
  <1>3. PICK a \in Nat, b \in Nat, c \in Nat :
          Shaped(tries[r][call[r].i], a, b, c) /\ Fits(req[r], a, b, c) /\ Stage(call[r].pc, a, b, c)
    BY <1>1, Standing
  <1>4. "h1" \in Allowed(req[r]) /\ call[r].i \in Slots /\ req[r] \in RequestType
    BY <1>1, Standing DEF Routed, Placed
  <1>5. b <= 1 /\ c <= 1 /\ (call[r].pc = "h1" => c = 0) /\ Fits(req[r], a, b, c + 1)
    BY <1>1, <1>3, <1>4 DEF Stage, Fits
  <1>6. ASSUME NEW posture \in Postures, Written(r, "h1", posture)
        PROVE  UnderWay(r, a, b, c + 1) /\ \A q \in Calls : q # r => tries'[q] = tries[q]
    BY <1>1, <1>2, <1>3, <1>4, <1>5, <1>6, WrittenUnderWay
  <1>7. CASE tries' = tries /\ call[r].pc = "h1" /\ Goto(r, "h1Fresh")
    <2>1. Going(r, "h1Fresh") /\ \A x, y, z \in Nat : Stage(call[r].pc, x, y, z) => Stage("h1Fresh", x, y, z)
      BY <1>1, <1>7, GotoGoes DEF Stage
    <2> QED BY <1>1, <1>2, <1>4, <1>7, <2>1, GoesOn
  <1>8. CASE Written(r, "h1", "default") /\ call[r].pc = "h1" /\ Goto(r, "h1Fresh")
    <2>1. Going(r, "h1Fresh") /\ Stage("h1Fresh", a, b, c + 1)
      BY <1>1, <1>5, <1>8, GotoGoes DEF Stage
    <2>2. UnderWay(r, a, b, c + 1) /\ \A q \in Calls : q # r => tries'[q] = tries[q]
      BY <1>2, <1>6, <1>8
    <2>3. Routed(req'[r], call'[r], tries'[r])
      BY <1>1, <1>2, <1>4, <2>1, <2>2, GoesRouted
    <2> QED BY <2>1, <2>2, <2>3 DEF RoutedOn, Alone, Going
  <1>9. ASSUME NEW posture \in Postures, Written(r, "h1", posture), NEW x \in {"h1", "err"}, Answer(r, x)
        PROVE  RoutedOn(r)
    <2>1. UnderWay(r, a, b, c + 1) /\ Resulted(x, a, b, c + 1) /\ \A q \in Calls : q # r => tries'[q] = tries[q]
      BY <1>6, <1>9 DEF Resulted
    <2>2. Routed(req'[r], call'[r], tries'[r])
      BY <1>1, <1>2, <1>4, <1>9, <2>1, AnswerRouted
    <2> QED BY <1>1, <1>9, <2>1, <2>2, AnswerGoes DEF RoutedOn, Alone
  <1>10. CASE tries' = tries /\ Answer(r, "err")
    BY <1>1, <1>10, FailsOn
  <1> QED BY <1>1, <1>2, <1>7, <1>8, <1>9, <1>10 DEF Http1, At

LEMMA StepRouted ==
    ASSUME TermsInv, NEW r \in Calls, Routed(req[r], call[r], tries[r]), Step(r)
    PROVE  req' = req /\ RoutedOn(r)
  <1>1. req' = req
    BY DEF Step, Start, Http3, TakePooled, Dial, WriteRequest, ReadResponse, ReadFails, Release, WriteBatch, ReadBatch, Http1
  <1>2. RoutedOn(r)
    BY StartRouted, Http3Routed, TakeRouted, DialRouted, WriteRequestRouted, ReadResponseRouted, ReadFailsRouted,
       ReleaseRouted, WriteBatchRouted, ReadBatchRouted, Http1Routed DEF Step
  <1> QED BY <1>1, <1>2

LEMMA StepKeepsRoute == TermsInv /\ RouteInv /\ [Next]_vars => RouteInv'
  <1> SUFFICES ASSUME TermsInv, RouteInv, [Next]_vars PROVE RouteInv'
    OBVIOUS
  <1>1. CASE req' = req /\ call' = call /\ tries' = tries
    BY <1>1 DEF RouteInv
  <1>2. ASSUME NEW r \in Calls, Step(r) PROVE RouteInv'
    <2>1. req' = req /\ RoutedOn(r)
      BY <1>2, StepRouted DEF RouteInv
    <2>2. ASSUME NEW q \in Calls PROVE Routed(req'[q], call'[q], tries'[q])
      BY <2>1 DEF RoutedOn, Alone, RouteInv
    <2> QED BY <2>2 DEF RouteInv
  <1>3. ASSUME NEW c \in Conns, Handle(c) \/ Limit(c) PROVE RouteInv'
    BY <1>1, <1>3 DEF Handle, Limit
  <1> QED BY <1>1, <1>2, <1>3 DEF Next, Finished, vars

LEMMA InitRoute == Init => RouteInv
  <1> SUFFICES ASSUME Init, NEW r \in Calls PROVE Routed(req[r], call[r], tries[r])
    BY DEF RouteInv
  <1>1. /\ call[r].pc = "start" /\ call[r].i = 1 /\ call[r].results = <<"none", "none">> /\ tries[r] = <<<<>>, <<>>>>
        /\ Size(req[r]) \in Slots
    BY SizeIs DEF Init
  <1>2. Placed(req[r], call[r])
    BY <1>1 DEF Placed, BatchPcs, Http2Pcs, Slots
  <1>3. ASSUME NEW j \in 1 .. Size(req[r]) PROVE \E a, b, c \in Nat : Tried(req[r], call[r], tries[r][j], j, a, b, c)
    <2>1. j \in {1, 2}
      BY <1>1 DEF Slots
    <2>2. tries[r][j] = <<>> /\ call[r].results[j] = "none"
      BY <1>1, <2>1
    <2>3. Shaped(<<>>, 0, 0, 0) /\ Fits(req[r], 0, 0, 0) /\ Resulted("none", 0, 0, 0) /\ Stage("start", 0, 0, 0)
      BY DEF Shaped, Fits, Resulted, Stage
    <2>4. Tried(req[r], call[r], tries[r][j], j, 0, 0, 0)
      BY <1>1, <2>1, <2>2, <2>3 DEF Tried
    <2> QED BY <2>4
  <1> QED BY <1>2, <1>3 DEF Routed

\* What the shape of a history says about its versions: where each of them is, and how
\* often.
LEMMA ShapedCounts ==
    ASSUME NEW t \in Seq(TryType), NEW a \in Nat, NEW b \in Nat, NEW c \in Nat, Shaped(t, a, b, c)
    PROVE  /\ Cardinality({k \in DOMAIN t : t[k].version = "h3"}) = a
           /\ Cardinality({k \in DOMAIN t : t[k].version = "h2"}) = b
           /\ Cardinality({k \in DOMAIN t : t[k].version = "h1"}) = c
  <1>1. {k \in DOMAIN t : t[k].version = "h3"} = 1 .. a
    BY DEF Shaped
  <1>2. {k \in DOMAIN t : t[k].version = "h2"} = (a + 1) .. (a + b)
    BY DEF Shaped
  <1>3. {k \in DOMAIN t : t[k].version = "h1"} = (a + b + 1) .. (a + b + c)
    BY DEF Shaped
  <1>4. \A l, n \in Nat : Cardinality((l + 1) .. (l + n)) = n
    <2> SUFFICES ASSUME NEW l \in Nat, NEW n \in Nat PROVE Cardinality((l + 1) .. (l + n)) = n
      OBVIOUS
    <2>1. l + 1 \in Int /\ l + n \in Int
      OBVIOUS
    <2>2. Cardinality((l + 1) .. (l + n)) = IF l + 1 > l + n THEN 0 ELSE (l + n) - (l + 1) + 1
      BY <2>1, FS_Interval
    <2> QED BY <2>2
  <1>5. Cardinality(1 .. a) = a
    <2>1. 1 .. a = (0 + 1) .. (0 + a)
      OBVIOUS
    <2> QED BY <2>1, <1>4
  <1>6. Cardinality((a + b + 1) .. (a + b + c)) = c
    <2>1. a + b \in Nat
      OBVIOUS
    <2> QED BY <2>1, <1>4
  <1> QED BY <1>1, <1>2, <1>3, <1>4, <1>5, <1>6

LEMMA RouteIsPreferred == TermsInv /\ RouteInv => SentAsPreferred
  <1> SUFFICES ASSUME TermsInv, RouteInv, NEW r \in Calls, NEW i \in 1 .. Size(req[r])
               PROVE  /\ \A k \in DOMAIN Versions(r, i) : Versions(r, i)[k] \in Allowed(req[r])
                      /\ \A k \in 2 .. Len(Versions(r, i)) : Rank(Versions(r, i)[k - 1]) <= Rank(Versions(r, i)[k])
                      /\ Count(r, i, "h3") <= 1 /\ Count(r, i, "h2") <= 2 /\ Count(r, i, "h1") <= 2
                      /\ Count(r, i, "h2") + Count(r, i, "h1") <= 3
                      /\ call[r].results[i] \in {"h1", "h2", "h3"} =>
                            Versions(r, i) # <<>> /\ Last(Versions(r, i)) = call[r].results[i]
    BY DEF SentAsPreferred
  <1>1. PICK a \in Nat, b \in Nat, c \in Nat : Tried(req[r], call[r], tries[r][i], i, a, b, c)
    BY DEF RouteInv, Routed
  <1> DEFINE t == tries[r][i]
             v == Versions(r, i)
             n == a + b + c
  <1>2. Shaped(t, a, b, c) /\ Fits(req[r], a, b, c) /\ Resulted(call[r].results[i], a, b, c)
    BY <1>1 DEF Tried
  <1>3. t \in Seq(TryType)
    <2>1. i \in Slots
      BY SizeIs DEF Slots
    <2> QED BY <2>1 DEF TermsInv, TriesTyped
  <1>4. /\ DOMAIN v = 1 .. n
        /\ \A k \in 1 .. n : v[k] = IF k <= a THEN "h3" ELSE IF k <= a + b THEN "h2" ELSE "h1"
    BY <1>2 DEF Shaped, Versions
  <1>5. v \in Seq(Http) /\ Len(v) = n
    <2>1. v = [k \in 1 .. n |-> t[k].version]
      BY <1>2 DEF Shaped, Versions
    <2>2. \A k \in 1 .. n : t[k].version \in Http
      BY <1>4, <2>1 DEF Http
    <2> HIDE DEF t, v
    <2> QED BY <2>1, <2>2
  <1> HIDE DEF v, t
  <1>6. ASSUME NEW k \in DOMAIN v PROVE v[k] \in Allowed(req[r])
    BY <1>2, <1>4, <1>6 DEF Fits
  <1>7. ASSUME NEW k \in 2 .. Len(v) PROVE Rank(v[k - 1]) <= Rank(v[k])
    <2>1. Rank("h3") = 1 /\ Rank("h2") = 2 /\ Rank("h1") = 3
      BY DEF Rank
    <2>2. k \in 1 .. n /\ k - 1 \in 1 .. n /\ k - 1 <= k
      BY <1>5
    <2>3. /\ v[k] = IF k <= a THEN "h3" ELSE IF k <= a + b THEN "h2" ELSE "h1"
          /\ v[k - 1] = IF k - 1 <= a THEN "h3" ELSE IF k - 1 <= a + b THEN "h2" ELSE "h1"
      BY <1>4, <2>2
    <2>4. CASE k <= a
      BY <2>1, <2>2, <2>3, <2>4
    <2>5. CASE k > a /\ k <= a + b
      BY <2>1, <2>2, <2>3, <2>5
    <2>6. CASE k > a + b
      BY <2>1, <2>2, <2>3, <2>6
    <2> QED BY <2>2, <2>4, <2>5, <2>6
  <1>8. Count(r, i, "h3") = a /\ Count(r, i, "h2") = b /\ Count(r, i, "h1") = c
    BY <1>2, <1>3, ShapedCounts DEF Count, t
  <1>9. ASSUME call[r].results[i] \in {"h1", "h2", "h3"} PROVE v # <<>> /\ Last(v) = call[r].results[i]
    <2>1. n > 0 /\ v[n] = call[r].results[i]
      BY <1>2, <1>4, <1>9 DEF Resulted
    <2> QED BY <1>5, <2>1 DEF Last
  <1> QED BY <1>2, <1>6, <1>7, <1>8, <1>9 DEF Fits, v

\* Every request is written over the versions that its call asks for and no others, the
\* newest first, at most three times over TCP and once over QUIC, and never again once
\* it was answered: send_https with its fallbacks, http2::send with its one retry after
\* a pooled connection, and send_multiplexed, whatever the other calls do with the pool.
THEOREM SentInOrder == Spec => []SentAsPreferred
  <1>1. Init => TermsInv /\ RouteInv
    BY InitTerms, InitRoute
  <1>2. (TermsInv /\ RouteInv) /\ [Next]_vars => (TermsInv /\ RouteInv)'
    BY StepKeepsTerms, StepKeepsRoute
  <1>3. TermsInv /\ RouteInv => SentAsPreferred
    BY RouteIsPreferred
  <1> QED BY <1>1, <1>2, <1>3, PTL DEF Spec
==============================================================================
