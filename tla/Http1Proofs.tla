---------------------------- MODULE Http1Proofs ----------------------------
(***************************************************************************)
(* TLAPS proofs about the HTTP/1.1 pools: for every number of threads,      *)
(* every mixture of requests, all caps and whatever the servers send, a     *)
(* request travels over a connection that was made as it asks for; and, as  *)
(* long as no connection that may be shared carries an interim response, a  *)
(* call reads the answer to its own request and a parked connection is      *)
(* quiet.  The pools keep to their caps.                                    *)
(***************************************************************************)
EXTENDS Http1, FiniteSetTheorems, SequenceTheorems, TLAPS

CallType == [pc : Holding \cup {"new", "dial", "ok", "err"}, conn : Calls \cup {None}, pooled : BOOLEAN]
LinkType == [state : {"open", "closed"}, key : Keys, direct : BOOLEAN, verify : BOOLEAN, caBundle : BOOLEAN,
             inbox : Seq(Calls), serving : {None} \cup [of : Calls, head : ResponseType],
             trailer : Calls \cup {None}]

Busy(r) == call[r].pc \in Holding
\* The call may still dial: its own connection does not exist yet.
Undialled(r) == call[r].pc \in {"new", "dial"} \/ call[r].pooled

Typed ==
    /\ req \in [Calls -> Requests] /\ call \in [Calls -> CallType]
    /\ conn \in [Calls -> LinkType \cup {Gone}] /\ pool \in [Keys -> Seq(Calls)]

\* Connection c was made as request q, or as the requests that share key k, ask for.
Fits(c, q) ==
    /\ conn[c] \in LinkType
    /\ conn[c].key = PoolKeyFor(q) /\ conn[c].direct = q.direct
    /\ q.scheme = "https" => conn[c].verify = q.verify /\ conn[c].caBundle = q.caBundle
FitsKey(c, k) ==
    /\ conn[c] \in LinkType
    /\ conn[c].key = k /\ conn[c].direct = TRUE
    /\ k[1] = "https" => conn[c].verify = TRUE /\ conn[c].caBundle = FALSE

\* A call's connection fits and is its own.
Held ==
    \A r \in Calls : Busy(r) =>
        /\ call[r].conn \in Calls /\ Fits(call[r].conn, req[r])
        /\ \A q \in Calls : Busy(q) /\ call[q].conn = call[r].conn => q = r

\* A parked one fits its key, is nobody's and parked once.
Idle ==
    \A k \in Keys : \A i \in DOMAIN pool[k] :
        /\ FitsKey(pool[k][i], k)
        /\ \A q \in Calls : Busy(q) => call[q].conn # pool[k][i]
        /\ \A l \in Keys : \A j \in DOMAIN pool[l] : pool[l][j] = pool[k][i] => l = k /\ j = i

\* The place of a connection that may be dialled is free.
Free ==
    \A r \in Calls : Undialled(r) =>
        /\ \A q \in Calls : Busy(q) => call[q].conn # r
        /\ \A k \in Keys : \A i \in DOMAIN pool[k] : pool[k][i] # r

CarriedInv == Typed /\ Held /\ Idle /\ Free

\* Connection c is still there, and made as it was.
Same(c) ==
    /\ conn'[c] \in LinkType
    /\ conn'[c].key = conn[c].key /\ conn'[c].direct = conn[c].direct
    /\ conn'[c].verify = conn[c].verify /\ conn'[c].caBundle = conn[c].caBundle

LEMMA GoneIsNoLink == Gone \notin LinkType /\ Gone.state = "gone"
  BY DEF Gone, LinkType

LEMMA RequestsTyped == Typed => \A r \in Calls : req[r] \in RequestType /\ PoolKeyFor(req[r]) \in Keys
  BY Http1Assumption DEF Typed, RequestType, PoolKeyFor, Keys

\* What is shared fits all who may share it, and the other way round.
LEMMA SharersAgree ==
    ASSUME NEW q \in RequestType, MayPool(q), NEW c
    PROVE  FitsKey(c, PoolKeyFor(q)) <=> Fits(c, q)
  <1>1. q.direct = TRUE /\ PoolKeyFor(q)[1] = q.scheme
    BY DEF MayPool, PoolKeyFor, RequestType
  <1>2. q.scheme = "https" => q.verify = TRUE /\ q.caBundle = FALSE
    BY DEF MayPool, TlsPoolEligible, RequestType
  <1> QED BY <1>1, <1>2 DEF Fits, FitsKey

\* A connection that stays fits as before.
LEMMA SameFits ==
    ASSUME NEW c, Same(c), UNCHANGED req
    PROVE  /\ \A r : Fits(c, req[r]) => Fits(c, req[r])'
           /\ \A k : FitsKey(c, k) => FitsKey(c, k)'
  BY DEF Same, Fits, FitsKey

LEMMA UntouchedSame == ASSUME NEW c, conn'[c] = conn[c], conn[c] \in LinkType PROVE Same(c)
  BY DEF Same

\* A call only moves on: it keeps its connection, or leaves it to its fate.
LEMMA MovesOn ==
    ASSUME CarriedInv, NEW r \in Calls, UNCHANGED <<req, pool>>,
           NEW p \in Holding \cup {"dial", "ok", "err"}, call' = [call EXCEPT ![r].pc = p],
           conn' \in [Calls -> LinkType \cup {Gone}],
           \A c \in Calls : ~Busy(r) \/ c # call[r].conn => conn'[c] = conn[c],
           p \in Holding => Busy(r) /\ Same(call[r].conn),
           p = "dial" => Undialled(r)
    PROVE  CarriedInv'
  <1>1. call'[r].pc = p /\ call'[r].conn = call[r].conn /\ call'[r].pooled = call[r].pooled
        /\ \A q \in Calls : q # r => call'[q] = call[q]
    BY DEF CarriedInv, Typed, CallType
  <1>2. \A q \in Calls : Busy(q)' => Busy(q) /\ call'[q].conn = call[q].conn
    BY <1>1 DEF Busy
  <1>3. \A q \in Calls : Undialled(q)' => Undialled(q)
    BY <1>1 DEF Undialled, Holding
  <1>4. Typed'
    <2>1. call' \in [Calls -> CallType]
      BY DEF CarriedInv, Typed, CallType
    <2> QED BY <2>1 DEF CarriedInv, Typed
  <1>5. Held'
    <2>1. ASSUME NEW q \in Calls, Busy(q)' PROVE Same(call[q].conn)
      <3>1. CASE q = r
        BY <1>1, <2>1, <3>1 DEF Busy
      <3>2. CASE q # r
        <4>1. Busy(q) /\ call[q].conn \in Calls /\ conn[call[q].conn] \in LinkType
          BY <1>2, <2>1 DEF CarriedInv, Held, Fits
        <4>2. ~Busy(r) \/ call[q].conn # call[r].conn
          BY <3>2, <4>1 DEF CarriedInv, Held
        <4> QED BY <4>1, <4>2, UntouchedSame
      <3> QED BY <3>1, <3>2
    <2>2. ASSUME NEW q \in Calls, Busy(q)'
          PROVE  call'[q].conn \in Calls /\ Fits(call[q].conn, req[q])'
      <3>1. call[q].conn \in Calls /\ Fits(call[q].conn, req[q]) /\ call'[q].conn = call[q].conn
        BY <1>2, <2>2 DEF CarriedInv, Held
      <3> DEFINE c == call[q].conn
      <3>2. Same(c)
        BY <2>1, <2>2
      <3>3. conn'[c] \in LinkType /\ conn'[c].key = PoolKeyFor(req[q]) /\ conn'[c].direct = req[q].direct
            /\ (req[q].scheme = "https" => conn'[c].verify = req[q].verify /\ conn'[c].caBundle = req[q].caBundle)
        BY <3>1, <3>2 DEF Fits, Same
      <3> QED BY <3>1, <3>3 DEF Fits, PoolKeyFor
    <2>3. ASSUME NEW q \in Calls, Busy(q)', NEW s \in Calls, Busy(s)', call'[s].conn = call'[q].conn
          PROVE  s = q
      BY <1>2, <2>3 DEF CarriedInv, Held
    <2> QED BY <2>2, <2>3 DEF Held
  <1>6. Idle'
    <2>1. ASSUME NEW k \in Keys, NEW i \in DOMAIN pool[k] PROVE FitsKey(pool[k][i], k)'
      <3>1. pool[k][i] \in Calls /\ FitsKey(pool[k][i], k) /\ (Busy(r) => pool[k][i] # call[r].conn)
        BY DEF CarriedInv, Typed, Idle
      <3>2. conn'[pool[k][i]] = conn[pool[k][i]]
        BY <3>1
      <3> QED BY <3>1, <3>2 DEF FitsKey
    <2> QED BY <1>2, <2>1 DEF CarriedInv, Idle
  <1>7. Free'
    BY <1>2, <1>3 DEF CarriedInv, Free
  <1> QED BY <1>4, <1>5, <1>6, <1>7 DEF CarriedInv

\* A server leaves every connection there as it was made.
LEMMA ServersAlone ==
    ASSUME CarriedInv, NEW c \in Calls, conn[c] \in LinkType, NEW new \in LinkType,
           conn' = [conn EXCEPT ![c] = new], UNCHANGED <<req, call, pool>>,
           new.key = conn[c].key, new.direct = conn[c].direct,
           new.verify = conn[c].verify, new.caBundle = conn[c].caBundle
    PROVE  CarriedInv'
  <1>1. \A d \in Calls : conn[d] \in LinkType => Same(d)
    BY DEF CarriedInv, Typed, Same
  <1>2. Typed'
    BY DEF CarriedInv, Typed
  <1>3. Held'
    <2>1. ASSUME NEW q \in Calls, Busy(q) PROVE Fits(call[q].conn, req[q])'
      <3>1. call[q].conn \in Calls /\ Fits(call[q].conn, req[q]) /\ Same(call[q].conn)
        BY <1>1, <2>1 DEF CarriedInv, Held, Fits
      <3> QED BY <3>1, SameFits DEF Fits
    <2> QED BY <2>1 DEF CarriedInv, Held, Busy
  <1>4. Idle'
    <2>1. ASSUME NEW k \in Keys, NEW i \in DOMAIN pool[k] PROVE FitsKey(pool[k][i], k)'
      <3>1. pool[k][i] \in Calls /\ FitsKey(pool[k][i], k)
        BY DEF CarriedInv, Typed, Idle
      <3>2. Same(pool[k][i])
        BY <1>1, <3>1 DEF FitsKey
      <3> QED BY <3>1, <3>2, SameFits DEF FitsKey
    <2> QED BY <2>1 DEF CarriedInv, Idle, Busy
  <1>5. Free'
    BY DEF CarriedInv, Free, Busy, Undialled
  <1> QED BY <1>2, <1>3, <1>4, <1>5 DEF CarriedInv

LEMMA HeldLinked ==
    ASSUME CarriedInv, NEW r \in Calls, Busy(r)
    PROVE  call[r].conn \in Calls /\ conn[call[r].conn] \in LinkType /\ Fits(call[r].conn, req[r])
  BY DEF CarriedInv, Held, Fits

LEMMA DropTyped ==
    ASSUME Typed, NEW c, Drop(c)
    PROVE  conn' \in [Calls -> LinkType \cup {Gone}] /\ \A d \in Calls : d # c => conn'[d] = conn[d]
  BY DEF Typed, Drop

LEMMA StaleCarried ==
    ASSUME CarriedInv, NEW r \in Calls, Busy(r), Stale(r), UNCHANGED <<req, pool>> PROVE CarriedInv'
  <1>1. AfterStale(r) \in {"dial", "err"} /\ (AfterStale(r) = "dial" => Undialled(r))
    BY DEF AfterStale, Undialled
  <1>2. conn' \in [Calls -> LinkType \cup {Gone}] /\ \A c \in Calls : c # call[r].conn => conn'[c] = conn[c]
    BY DropTyped DEF Stale, CarriedInv
  <1>3. call' = [call EXCEPT ![r].pc = AfterStale(r)]
    BY DEF Stale, Goto
  <1>4. PICK p \in {"dial", "err"} : p = AfterStale(r)
    BY <1>1
  <1>5. p \notin Holding
    BY DEF Holding
  <1> QED BY <1>1, <1>2, <1>3, <1>4, <1>5, MovesOn

LEMMA HardCarried ==
    ASSUME CarriedInv, NEW r \in Calls, Busy(r), Hard(r), UNCHANGED <<req, pool>> PROVE CarriedInv'
  <1>1. conn' \in [Calls -> LinkType \cup {Gone}] /\ \A c \in Calls : c # call[r].conn => conn'[c] = conn[c]
    BY DropTyped DEF Hard, CarriedInv
  <1>2. PICK p \in {"err"} : p \notin Holding /\ p # "dial" /\ call' = [call EXCEPT ![r].pc = p]
    BY DEF Holding, Hard, Goto
  <1> QED BY <1>1, <1>2, MovesOn

\* The connection is as it was.
LEMMA StaysCarried ==
    ASSUME CarriedInv, NEW r \in Calls, Busy(r), UNCHANGED <<req, pool, conn>>,
           NEW p \in Holding, Goto(r, p)
    PROVE  CarriedInv'
  <1>1. Same(call[r].conn)
    BY HeldLinked, UntouchedSame
  <1>2. p # "dial" /\ call' = [call EXCEPT ![r].pc = p]
    BY DEF Goto, Holding
  <1>3. conn' \in [Calls -> LinkType \cup {Gone}] /\ \A c \in Calls : conn'[c] = conn[c]
    BY DEF CarriedInv, Typed
  <1>4. PICK n \in Holding \cup {"dial", "ok", "err"} : n = p
    OBVIOUS
  <1> QED BY <1>1, <1>2, <1>3, <1>4, MovesOn

LEMMA StartCarried == ASSUME CarriedInv, NEW r \in Calls, Start(r) PROVE CarriedInv'
  <1> DEFINE key == PoolKeyFor(req[r])
             c == Last(pool[key])
  <1>1. call[r].pc = "new" /\ key \in Keys /\ req[r] \in RequestType
    BY RequestsTyped DEF Start, At, CarriedInv
  <1>2. CASE ~(MayPool(req[r]) /\ pool[key] # <<>>)
    <2>1. UNCHANGED <<req, pool, conn>> /\ call' = [call EXCEPT ![r].pc = "dial"]
      BY <1>2 DEF Start, Goto
    <2>2. Undialled(r) /\ "dial" \notin Holding /\ conn' \in [Calls -> LinkType \cup {Gone}]
      BY <1>1, <2>1 DEF Undialled, Holding, CarriedInv, Typed
    <2> QED BY <2>1, <2>2, MovesOn
  <1>3. CASE MayPool(req[r]) /\ pool[key] # <<>>
    <2>1. /\ call' = [call EXCEPT ![r] = [pc |-> "write", conn |-> c, pooled |-> TRUE]]
          /\ pool' = [pool EXCEPT ![key] = Front(@)] /\ UNCHANGED <<req, conn>>
      BY <1>3 DEF Start, Checkout
    <2>2. pool[key] \in Seq(Calls) /\ Len(pool[key]) \in DOMAIN pool[key] /\ c = pool[key][Len(pool[key])]
      BY <1>1, <1>3 DEF CarriedInv, Typed, Last
    <2>3. /\ Front(pool[key]) \in Seq(Calls)
          /\ \A i \in DOMAIN Front(pool[key]) : /\ i \in DOMAIN pool[key] /\ i # Len(pool[key])
                                                /\ Front(pool[key])[i] = pool[key][i]
      BY <2>2 DEF Front
    <2> HIDE DEF c, key
    <2>4. /\ c \in Calls /\ FitsKey(c, key)
          /\ \A q \in Calls : Busy(q) => call[q].conn # c
          /\ \A l \in Keys : \A j \in DOMAIN pool[l] : pool[l][j] = c => l = key /\ j = Len(pool[key])
      BY <1>1, <2>2 DEF CarriedInv, Idle
    <2>5. Fits(c, req[r])
      BY <1>1, <1>3, <2>4, SharersAgree DEF key
    <2>6. \A q \in Calls : Undialled(q) => q # c
      BY <1>1, <2>2 DEF CarriedInv, Free
    <2>7. \A k \in Keys : \A i \in DOMAIN pool'[k] : /\ i \in DOMAIN pool[k] /\ pool'[k][i] = pool[k][i]
                                                     /\ pool'[k][i] # c
      <3>1. \A k \in Keys : k # key => pool'[k] = pool[k]
        BY <2>1 DEF CarriedInv, Typed
      <3>2. pool'[key] = Front(pool[key])
        BY <1>1, <2>1 DEF CarriedInv, Typed
      <3>3. \A k \in Keys : \A i \in DOMAIN pool'[k] : i \in DOMAIN pool[k] /\ pool'[k][i] = pool[k][i]
        BY <2>3, <3>1, <3>2
      <3> QED BY <2>3, <2>4, <3>1, <3>2, <3>3
    <2>8. /\ \A q \in Calls : q # r => call'[q] = call[q]
          /\ call'[r].conn = c /\ call'[r].pc = "write" /\ call'[r].pooled = TRUE
      BY <2>1 DEF CarriedInv, Typed
    <2>9. Typed'
      <3>1. call' \in [Calls -> CallType]
        BY <2>1, <2>4 DEF CarriedInv, Typed, CallType, Holding
      <3>2. pool' \in [Keys -> Seq(Calls)]
        BY <2>1, <2>3 DEF CarriedInv, Typed
      <3> QED BY <2>1, <3>1, <3>2 DEF CarriedInv, Typed
    <2>10. \A q \in Calls : Busy(q)' => (q = r /\ call'[q].conn = c) \/ (q # r /\ Busy(q) /\ call'[q].conn = call[q].conn)
      BY <2>8 DEF Busy
    <2>11. Held'
      <3>1. ASSUME NEW q \in Calls, Busy(q)' PROVE call'[q].conn \in Calls /\ Fits(call'[q].conn, req[q])
        BY <2>4, <2>5, <2>10, <3>1 DEF CarriedInv, Held
      <3>2. ASSUME NEW q \in Calls, Busy(q)', NEW s \in Calls, Busy(s)', call'[s].conn = call'[q].conn PROVE s = q
        BY <2>4, <2>10, <3>2 DEF CarriedInv, Held
      <3> QED BY <2>1, <3>1, <3>2 DEF Held, Fits, PoolKeyFor
    <2>12. Idle'
      <3>1. ASSUME NEW k \in Keys, NEW i \in DOMAIN pool'[k], NEW q \in Calls, Busy(q)' PROVE call'[q].conn # pool'[k][i]
        BY <2>7, <2>10, <3>1 DEF CarriedInv, Idle
      <3>2. ASSUME NEW k \in Keys, NEW i \in DOMAIN pool'[k],
                   NEW l \in Keys, NEW j \in DOMAIN pool'[l], pool'[l][j] = pool'[k][i] PROVE l = k /\ j = i
        BY <2>7, <3>2 DEF CarriedInv, Idle
      <3>3. ASSUME NEW k \in Keys, NEW i \in DOMAIN pool'[k] PROVE FitsKey(pool[k][i], k)'
        <4>1. FitsKey(pool'[k][i], k)
          BY <2>7, <3>3 DEF CarriedInv, Idle
        <4> QED BY <2>1, <4>1 DEF FitsKey
      <3> QED BY <3>1, <3>2, <3>3 DEF Idle
    <2>13. Free'
      <3>1. \A q \in Calls : Undialled(q)' => Undialled(q)
        BY <1>1, <2>8 DEF Undialled
      <3> QED BY <2>6, <2>7, <2>10, <3>1 DEF CarriedInv, Free
    <2> QED BY <2>9, <2>11, <2>12, <2>13 DEF CarriedInv
  <1> QED BY <1>2, <1>3

LEMMA DialCarried == ASSUME CarriedInv, NEW r \in Calls, Dial(r) PROVE CarriedInv'
  <1> DEFINE new == [state |-> "open", key |-> PoolKeyFor(req[r]), direct |-> req[r].direct,
                     verify |-> req[r].verify, caBundle |-> req[r].caBundle, inbox |-> <<>>, serving |-> None,
                     trailer |-> None]
  <1>1. call[r].pc = "dial" /\ UNCHANGED <<req, pool>> /\ Undialled(r) /\ ~Busy(r)
    BY DEF Dial, At, Undialled, Busy, Holding
  <1>2. CASE Goto(r, "err") /\ UNCHANGED conn
    <2>1. PICK p \in {"err"} : p \notin Holding /\ p # "dial" /\ call' = [call EXCEPT ![r].pc = p]
      BY <1>2 DEF Goto, Holding
    <2>2. conn' \in [Calls -> LinkType \cup {Gone}] /\ \A c \in Calls : conn'[c] = conn[c]
      BY <1>2 DEF CarriedInv, Typed
    <2> QED BY <1>1, <2>1, <2>2, MovesOn
  <1>3. CASE conn' = [conn EXCEPT ![r] = new] /\ call' = [call EXCEPT ![r] = [pc |-> "write", conn |-> r, pooled |-> FALSE]]
    <2>1. new \in LinkType
      BY RequestsTyped DEF CarriedInv, LinkType, RequestType
    <2>2. new.key = PoolKeyFor(req[r]) /\ new.direct = req[r].direct /\ new.verify = req[r].verify
          /\ new.caBundle = req[r].caBundle
      OBVIOUS
    <2> HIDE DEF new
    <2>3. conn'[r] = new /\ \A c \in Calls : c # r => conn'[c] = conn[c]
      BY <1>3 DEF CarriedInv, Typed
    <2>4. /\ \A q \in Calls : q # r => call'[q] = call[q]
          /\ call'[r].conn = r /\ call'[r].pc = "write" /\ call'[r].pooled = FALSE
      BY <1>3 DEF CarriedInv, Typed
    <2>5. /\ \A q \in Calls : Busy(q)' => (q = r /\ call'[q].conn = r) \/ (q # r /\ Busy(q) /\ call'[q].conn = call[q].conn)
          /\ \A q \in Calls : Undialled(q)' => q # r /\ Undialled(q)
      BY <2>4 DEF Busy, Undialled
    <2>6. /\ \A q \in Calls : Busy(q) => call[q].conn # r
          /\ \A k \in Keys : \A i \in DOMAIN pool[k] : pool[k][i] # r
      BY <1>1 DEF CarriedInv, Free
    <2>7. Typed'
      <3>1. call' \in [Calls -> CallType]
        BY <1>3 DEF CarriedInv, Typed, CallType, Holding
      <3>2. conn' \in [Calls -> LinkType \cup {Gone}]
        BY <1>3, <2>1 DEF CarriedInv, Typed
      <3> QED BY <1>1, <3>1, <3>2 DEF CarriedInv, Typed
    <2>8. Held'
      <3>1. ASSUME NEW q \in Calls, Busy(q)' PROVE call'[q].conn \in Calls /\ Fits(call[q].conn, req[q])'
        <4>1. CASE q = r
          BY <1>1, <2>1, <2>2, <2>3, <2>4, <4>1 DEF Fits, PoolKeyFor
        <4>2. CASE q # r
          <5>1. call'[q].conn = call[q].conn /\ call[q].conn \in Calls /\ call[q].conn # r /\ Fits(call[q].conn, req[q])
            BY <2>5, <2>6, <3>1, <4>2 DEF CarriedInv, Held
          <5>2. conn'[call'[q].conn] = conn[call[q].conn]
            BY <2>3, <5>1
          <5> QED BY <1>1, <5>1, <5>2 DEF Fits, PoolKeyFor
        <4> QED BY <4>1, <4>2
      <3>2. ASSUME NEW q \in Calls, Busy(q)', NEW s \in Calls, Busy(s)', call'[s].conn = call'[q].conn PROVE s = q
        BY <2>5, <2>6, <3>2 DEF CarriedInv, Held
      <3> QED BY <3>1, <3>2 DEF Held
    <2>9. Idle'
      <3>1. ASSUME NEW k \in Keys, NEW i \in DOMAIN pool[k] PROVE FitsKey(pool[k][i], k)'
        <4>1. pool[k][i] \in Calls /\ FitsKey(pool[k][i], k)
          BY DEF CarriedInv, Typed, Idle
        <4>2. conn'[pool'[k][i]] = conn[pool[k][i]]
          BY <1>1, <2>3, <2>6, <4>1
        <4> QED BY <1>1, <4>1, <4>2 DEF FitsKey
      <3>2. ASSUME NEW k \in Keys, NEW i \in DOMAIN pool[k], NEW q \in Calls, Busy(q)' PROVE call'[q].conn # pool[k][i]
        BY <2>5, <2>6, <3>2 DEF CarriedInv, Idle
      <3> QED BY <1>1, <3>1, <3>2 DEF CarriedInv, Idle
    <2>10. Free'
      <3>1. ASSUME NEW q \in Calls, Undialled(q)', NEW s \in Calls, Busy(s)' PROVE call'[s].conn # q
        BY <2>5, <3>1 DEF CarriedInv, Free
      <3> QED BY <1>1, <2>5, <3>1 DEF CarriedInv, Free
    <2> QED BY <2>7, <2>8, <2>9, <2>10 DEF CarriedInv
  <1> QED BY <1>2, <1>3 DEF Dial

LEMMA WriteCarried == ASSUME CarriedInv, NEW r \in Calls, WriteRequest(r) PROVE CarriedInv'
  <1> DEFINE c == call[r].conn
  <1>1. Busy(r) /\ UNCHANGED <<req, pool>>
    BY DEF WriteRequest, At, Busy, Holding
  <1>2. CASE Hard(r)
    BY <1>1, <1>2, HardCarried
  <1>3. CASE Stale(r)
    BY <1>1, <1>3, StaleCarried
  <1>4. CASE Goto(r, "head") /\ conn' = IF conn[c].state = "open" THEN [conn EXCEPT ![c].inbox = Append(@, r)] ELSE conn
    <2>1. c \in Calls /\ conn[c] \in LinkType
      BY <1>1, HeldLinked
    <2>2. Same(c) /\ conn' \in [Calls -> LinkType \cup {Gone}] /\ \A d \in Calls : d # c => conn'[d] = conn[d]
      <3>1. CASE conn' = conn
        BY <2>1, <3>1, UntouchedSame DEF CarriedInv, Typed
      <3>2. CASE conn' = [conn EXCEPT ![c].inbox = Append(@, r)]
        <4> DEFINE new == [conn[c] EXCEPT !.inbox = Append(@, r)]
        <4>1. new \in LinkType /\ new.key = conn[c].key /\ new.direct = conn[c].direct
              /\ new.verify = conn[c].verify /\ new.caBundle = conn[c].caBundle
          <5>1. Append(conn[c].inbox, r) \in Seq(Calls)
            BY <2>1 DEF LinkType
          <5>2. PICK s \in Seq(Calls) : s = Append(conn[c].inbox, r)
            BY <5>1
          <5> QED BY <2>1, <5>2 DEF LinkType
        <4>2. conn' = [conn EXCEPT ![c] = new]
          BY <2>1, <3>2 DEF CarriedInv, Typed
        <4> HIDE DEF new, c
        <4> QED BY <2>1, <4>1, <4>2 DEF CarriedInv, Typed, Same
      <3> QED BY <1>4, <3>1, <3>2
    <2>3. PICK p \in {"head"} : p \in Holding /\ p # "dial" /\ call' = [call EXCEPT ![r].pc = p]
      BY <1>4 DEF Goto, Holding
    <2> QED BY <1>1, <2>2, <2>3, MovesOn
  <1> QED BY <1>2, <1>3, <1>4 DEF WriteRequest

LEMMA ReadHeadCarried == ASSUME CarriedInv, NEW r \in Calls, ReadHead(r) PROVE CarriedInv'
  <1>1. Busy(r) /\ UNCHANGED <<req, pool>>
    BY DEF ReadHead, At, Busy, Holding
  <1>2. CASE Hard(r)
    BY <1>1, <1>2, HardCarried
  <1>3. CASE ~Hard(r)
    <2>1. PICK p \in {"release", "body"} : Goto(r, p) /\ UNCHANGED conn
      BY <1>3 DEF ReadHead
    <2> QED BY <1>1, <2>1, StaysCarried DEF Holding
  <1> QED BY <1>2, <1>3

LEMMA ReadBodyCarried == ASSUME CarriedInv, NEW r \in Calls, ReadBody(r) \/ TrailersCut(r) PROVE CarriedInv'
  <1>1. Busy(r) /\ UNCHANGED <<req, pool>>
    BY DEF ReadBody, TrailersCut, At, Busy, Holding
  <1>2. CASE Hard(r)
    BY <1>1, <1>2, HardCarried
  <1>3. CASE ~Hard(r)
    <2>1. PICK p \in {"release"} : Goto(r, p) /\ UNCHANGED conn
      BY <1>3 DEF ReadBody, TrailersCut
    <2> QED BY <1>1, <2>1, StaysCarried DEF Holding
  <1> QED BY <1>2, <1>3

\* What a connection has of trailers is no term it was made on.
LEMMA TrailerSame ==
    ASSUME Typed, NEW c \in Calls, conn[c] \in LinkType, NEW x \in Calls \cup {None},
           conn' = [conn EXCEPT ![c].trailer = x]
    PROVE  /\ conn'[c] = [conn[c] EXCEPT !.trailer = x] /\ Same(c)
           /\ conn' \in [Calls -> LinkType \cup {Gone}] /\ \A d \in Calls : d # c => conn'[d] = conn[d]
           /\ conn'[c].inbox = conn[c].inbox /\ conn'[c].serving = conn[c].serving
           /\ conn'[c].state = conn[c].state /\ conn'[c].trailer = x
  <1> DEFINE new == [conn[c] EXCEPT !.trailer = x]
  <1>1. new \in LinkType /\ new.key = conn[c].key /\ new.direct = conn[c].direct
        /\ new.verify = conn[c].verify /\ new.caBundle = conn[c].caBundle
    BY DEF LinkType
  <1>2. new.inbox = conn[c].inbox /\ new.serving = conn[c].serving /\ new.state = conn[c].state /\ new.trailer = x
    BY DEF LinkType
  <1>3. conn' = [conn EXCEPT ![c] = new]
    BY DEF Typed
  <1>4. conn'[c] = new
    BY <1>3 DEF Typed
  <1> QED BY <1>1, <1>2, <1>3, <1>4 DEF Typed, Same

LEMMA TrailerCarried == ASSUME CarriedInv, NEW r \in Calls, ReadTrailer(r) \/ ReadToEnd(r) PROVE CarriedInv'
  <1>1. Busy(r) /\ UNCHANGED <<req, pool>>
    BY DEF ReadTrailer, ReadToEnd, At, Busy, Holding
  <1>2. CASE Hard(r)
    BY <1>1, <1>2, HardCarried
  <1>3. CASE ~Hard(r)
    <2>1. PICK p \in {"release", "trailers"} : Goto(r, p) /\ conn' = [conn EXCEPT ![call[r].conn].trailer = None]
      BY <1>3 DEF ReadTrailer, ReadToEnd
    <2>2. call[r].conn \in Calls /\ conn[call[r].conn] \in LinkType
      BY <1>1, HeldLinked
    <2>3. Same(call[r].conn) /\ conn' \in [Calls -> LinkType \cup {Gone}]
          /\ \A d \in Calls : d # call[r].conn => conn'[d] = conn[d]
      BY <2>1, <2>2, TrailerSame DEF CarriedInv
    <2>4. p \in Holding /\ p # "dial" /\ call' = [call EXCEPT ![r].pc = p]
      BY <2>1 DEF Goto, Holding
    <2> QED BY <1>1, <2>3, <2>4, MovesOn
  <1> QED BY <1>2, <1>3

LEMMA EndsCarried == ASSUME CarriedInv, NEW r \in Calls, PeerGone(r) \/ ReadTimeout(r) PROVE CarriedInv'
  <1>1. Busy(r) /\ UNCHANGED <<req, pool>>
    BY DEF PeerGone, ReadTimeout, At, Busy, Holding
  <1> QED BY <1>1, HardCarried, StaleCarried DEF PeerGone, ReadTimeout

LEMMA FinalizeCarried == ASSUME CarriedInv, NEW r \in Calls, Finalize(r) PROVE CarriedInv'
  <1> DEFINE key == PoolKeyFor(req[r])
             c == call[r].conn
  <1>1. Busy(r) /\ UNCHANGED req /\ call' = [call EXCEPT ![r].pc = "ok"] /\ key \in Keys /\ req[r] \in RequestType
    BY RequestsTyped DEF Finalize, At, Busy, Holding, Goto, CarriedInv
  <1>2. CASE Drop(c) /\ UNCHANGED pool
    <2>1. conn' \in [Calls -> LinkType \cup {Gone}] /\ \A d \in Calls : d # c => conn'[d] = conn[d]
      BY <1>2, DropTyped DEF CarriedInv
    <2>2. PICK p \in {"ok"} : p \notin Holding /\ p # "dial" /\ call' = [call EXCEPT ![r].pc = p]
      BY <1>1 DEF Holding
    <2> QED BY <1>1, <1>2, <2>1, <2>2, MovesOn
  <1>3. CASE MayPool(req[r]) /\ pool' = [pool EXCEPT ![key] = Append(@, c)] /\ UNCHANGED conn
    <2>1. c \in Calls /\ Fits(c, req[r])
      BY <1>1, HeldLinked
    <2>2. FitsKey(c, key)
      BY <1>1, <1>3, <2>1, SharersAgree
    <2> HIDE DEF key
    <2>3. /\ \A q \in Calls : q # r => call'[q] = call[q]
          /\ call'[r].conn = c /\ call'[r].pc = "ok" /\ call'[r].pooled = call[r].pooled
      BY <1>1 DEF CarriedInv, Typed, CallType
    <2>4. /\ \A q \in Calls : Busy(q)' => q # r /\ Busy(q) /\ call'[q].conn = call[q].conn /\ call'[q].conn # c
          /\ \A q \in Calls : Undialled(q)' => Undialled(q) /\ q # c
      <3>1. \A q \in Calls : Busy(q)' => q # r /\ Busy(q) /\ call'[q].conn = call[q].conn
        BY <2>3 DEF Busy, Holding
      <3>2. \A q \in Calls : Undialled(q)' => Undialled(q)
        BY <2>3 DEF Undialled
      <3>3. \A q \in Calls : Busy(q) /\ q # r => call[q].conn # c
        BY <1>1 DEF CarriedInv, Held
      <3>4. \A q \in Calls : Undialled(q) => q # c
        BY <1>1 DEF CarriedInv, Free
      <3> QED BY <3>1, <3>2, <3>3, <3>4
    <2>5. pool[key] \in Seq(Calls) /\ pool'[key] = Append(pool[key], c) /\ \A k \in Keys : k # key => pool'[k] = pool[k]
      BY <1>1, <1>3 DEF CarriedInv, Typed
    <2>6. \A k \in Keys : \A i \in DOMAIN pool[k] : pool[k][i] # c
      BY <1>1 DEF CarriedInv, Idle
    <2>7. ASSUME NEW k \in Keys, NEW i \in DOMAIN pool'[k]
          PROVE  \/ i \in DOMAIN pool[k] /\ pool'[k][i] = pool[k][i] /\ pool'[k][i] # c
                 \/ k = key /\ i = Len(pool[key]) + 1 /\ pool'[k][i] = c
      <3>1. CASE k = key
        BY <2>5, <2>6, <2>7, <3>1
      <3>2. CASE k # key
        BY <2>5, <2>6, <2>7, <3>2
      <3> QED BY <3>1, <3>2
    <2> HIDE DEF c
    <2>8. Typed'
      <3>1. call' \in [Calls -> CallType]
        BY <1>1 DEF CarriedInv, Typed, CallType
      <3>2. pool' \in [Keys -> Seq(Calls)]
        <4>1. Append(pool[key], c) \in Seq(Calls)
          BY <2>1, <2>5
        <4> QED BY <1>3, <4>1 DEF CarriedInv, Typed
      <3> QED BY <1>1, <1>3, <3>1, <3>2 DEF CarriedInv, Typed
    <2>9. Held'
      <3>1. ASSUME NEW q \in Calls, Busy(q)' PROVE call'[q].conn \in Calls /\ Fits(call[q].conn, req[q])'
        <4>1. call[q].conn \in Calls /\ Fits(call[q].conn, req[q]) /\ call'[q].conn = call[q].conn
          BY <2>4, <3>1 DEF CarriedInv, Held
        <4> QED BY <1>1, <1>3, <4>1 DEF Fits, PoolKeyFor
      <3>2. ASSUME NEW q \in Calls, Busy(q)', NEW s \in Calls, Busy(s)', call'[s].conn = call'[q].conn PROVE s = q
        BY <2>4, <3>2 DEF CarriedInv, Held
      <3> QED BY <3>1, <3>2 DEF Held
    <2>10. Idle'
      <3>1. ASSUME NEW k \in Keys, NEW i \in DOMAIN pool'[k], NEW q \in Calls, Busy(q)' PROVE call'[q].conn # pool'[k][i]
        BY <2>4, <2>7, <3>1 DEF CarriedInv, Idle
      <3>2. ASSUME NEW k \in Keys, NEW i \in DOMAIN pool'[k],
                   NEW l \in Keys, NEW j \in DOMAIN pool'[l], pool'[l][j] = pool'[k][i] PROVE l = k /\ j = i
        <4>1. CASE pool'[k][i] = c
          BY <2>6, <2>7, <3>2, <4>1
        <4>2. CASE pool'[k][i] # c
          BY <2>7, <3>2, <4>2 DEF CarriedInv, Idle
        <4> QED BY <4>1, <4>2
      <3>3. ASSUME NEW k \in Keys, NEW i \in DOMAIN pool'[k] PROVE FitsKey(pool[k][i], k)'
        <4>1. FitsKey(pool'[k][i], k)
          BY <2>2, <2>7, <3>3 DEF CarriedInv, Idle
        <4> QED BY <1>3, <4>1 DEF FitsKey
      <3> QED BY <3>1, <3>2, <3>3 DEF Idle
    <2>11. Free'
      BY <2>4, <2>7 DEF CarriedInv, Free
    <2> QED BY <2>8, <2>9, <2>10, <2>11 DEF CarriedInv
  <1> QED BY <1>2, <1>3 DEF Finalize

LEMMA OpenIsLink == ASSUME Typed, NEW c \in Calls, conn[c].state = "open" PROVE conn[c] \in LinkType
  BY GoneIsNoLink DEF Typed

LEMMA ClosedLike ==
    ASSUME NEW c, conn[c] \in LinkType
    PROVE  /\ Closed(c) \in LinkType /\ Closed(c).key = conn[c].key /\ Closed(c).direct = conn[c].direct
           /\ Closed(c).verify = conn[c].verify /\ Closed(c).caBundle = conn[c].caBundle
  <1>1. <<>> \in Seq(Calls) /\ None \in {None} \cup [of : Calls, head : ResponseType]
    OBVIOUS
  <1> DEFINE inboxes == Seq(Calls)
             servings == {None} \cup [of : Calls, head : ResponseType]
  <1>2. LinkType = [state : {"open", "closed"}, key : Keys, direct : BOOLEAN, verify : BOOLEAN,
                    caBundle : BOOLEAN, inbox : inboxes, serving : servings, trailer : Calls \cup {None}]
    BY DEF LinkType
  <1> HIDE DEF inboxes, servings
  <1>3. <<>> \in inboxes /\ None \in servings
    BY <1>1 DEF inboxes, servings
  <1>4. Closed(c) \in LinkType
    BY <1>2, <1>3 DEF Closed
  <1>5. Closed(c).key = conn[c].key /\ Closed(c).direct = conn[c].direct
    BY <1>2 DEF Closed
  <1>6. Closed(c).verify = conn[c].verify /\ Closed(c).caBundle = conn[c].caBundle
    BY <1>2 DEF Closed
  <1> QED BY <1>4, <1>5, <1>6

LEMMA SendHeadCarried == ASSUME CarriedInv, NEW c \in Calls, SendHead(c) PROVE CarriedInv'
  <1>1. conn[c] \in LinkType /\ conn[c].inbox # <<>> /\ UNCHANGED <<req, call, pool>>
    BY OpenIsLink DEF SendHead, CarriedInv
  <1>2. Head(conn[c].inbox) \in Calls /\ Tail(conn[c].inbox) \in Seq(Calls)
    BY <1>1 DEF LinkType
  <1>3. PICK p \in Responses :
            LET r == Head(conn[c].inbox)
                hasBody == req[r].method # "HEAD" /\ p.status = "final"
            IN  conn' = [conn EXCEPT ![c] =
                   IF hasBody THEN [conn[c] EXCEPT !.serving = [of |-> r, head |-> p], !.inbox = Tail(@)]
                   ELSE IF Closing(req[r].method, p) THEN Closed(c)
                   ELSE [conn[c] EXCEPT !.inbox = Tail(@)]]
    BY DEF SendHead
  <1>4. p \in ResponseType
    BY Http1Assumption
  <1>5. ASSUME NEW new \in LinkType, conn' = [conn EXCEPT ![c] = new], new.key = conn[c].key,
               new.direct = conn[c].direct, new.verify = conn[c].verify, new.caBundle = conn[c].caBundle
        PROVE  CarriedInv'
    BY <1>1, <1>5, ServersAlone
  <1>6. CASE conn' = [conn EXCEPT ![c] = Closed(c)]
    BY <1>1, <1>5, <1>6, ClosedLike
  <1>7. CASE conn' = [conn EXCEPT ![c] = [conn[c] EXCEPT !.inbox = Tail(@)]]
    <2> DEFINE new == [conn[c] EXCEPT !.inbox = Tail(@)]
    <2>1. new \in LinkType /\ new.key = conn[c].key /\ new.direct = conn[c].direct
          /\ new.verify = conn[c].verify /\ new.caBundle = conn[c].caBundle
      BY <1>1, <1>2 DEF LinkType
    <2>2. conn' = [conn EXCEPT ![c] = new]
      BY <1>7 DEF CarriedInv, Typed
    <2> HIDE DEF new
    <2> QED BY <1>5, <2>1, <2>2
  <1>8. CASE conn' = [conn EXCEPT ![c] = [conn[c] EXCEPT !.serving = [of |-> Head(conn[c].inbox), head |-> p], !.inbox = Tail(@)]]
    <2> DEFINE serving == [of |-> Head(conn[c].inbox), head |-> p]
               new == [conn[c] EXCEPT !.serving = serving, !.inbox = Tail(@)]
    <2>1. serving \in [of : Calls, head : ResponseType]
      BY <1>2, <1>4
    <2> HIDE DEF serving
    <2>2. new \in LinkType /\ new.key = conn[c].key /\ new.direct = conn[c].direct
          /\ new.verify = conn[c].verify /\ new.caBundle = conn[c].caBundle
      BY <1>1, <1>2, <2>1 DEF LinkType
    <2>3. conn' = [conn EXCEPT ![c] = new]
      BY <1>8 DEF CarriedInv, Typed, serving
    <2> HIDE DEF new
    <2> QED BY <1>5, <2>2, <2>3
  <1> QED BY <1>3, <1>6, <1>7, <1>8

LEMMA SendBodyCarried == ASSUME CarriedInv, NEW c \in Calls, SendBody(c) PROVE CarriedInv'
  <1>1. conn[c] \in LinkType /\ UNCHANGED <<req, call, pool>>
    BY OpenIsLink DEF SendBody, CarriedInv
  <1>2. CASE conn' = [conn EXCEPT ![c] = Closed(c)]
    BY <1>1, <1>2, ClosedLike, ServersAlone
  <1>3. CASE conn' = [conn EXCEPT ![c] = [conn[c] EXCEPT !.serving = None]]
    <2> DEFINE new == [conn[c] EXCEPT !.serving = None]
    <2>1. new \in LinkType /\ new.key = conn[c].key /\ new.direct = conn[c].direct
          /\ new.verify = conn[c].verify /\ new.caBundle = conn[c].caBundle
      BY <1>1 DEF LinkType
    <2>2. conn' = [conn EXCEPT ![c] = new]
      BY <1>3 DEF CarriedInv, Typed
    <2> HIDE DEF new
    <2> QED BY <1>1, <2>1, <2>2, ServersAlone
  <1> QED BY <1>2, <1>3 DEF SendBody

LEMMA SendTrailerCarried == ASSUME CarriedInv, NEW c \in Calls, SendTrailer(c) PROVE CarriedInv'
  <1>1. conn[c] \in LinkType /\ conn[c].serving # None /\ UNCHANGED <<req, call, pool>>
    BY OpenIsLink DEF SendTrailer, CarriedInv
  <1>2. PICK x \in Calls : conn' = [conn EXCEPT ![c].trailer = x]
    BY <1>1 DEF SendTrailer, LinkType
  <1> DEFINE new == [conn[c] EXCEPT !.trailer = x]
  <1>3. conn'[c] = new /\ Same(c) /\ conn' = [conn EXCEPT ![c] = new]
    BY <1>1, <1>2, TrailerSame DEF CarriedInv, Typed
  <1> HIDE DEF new
  <1> QED BY <1>1, <1>3, ServersAlone DEF Same

LEMMA CloseCarried == ASSUME CarriedInv, NEW c \in Calls, Close(c) PROVE CarriedInv'
  <1>1. conn[c] \in LinkType /\ UNCHANGED <<req, call, pool>> /\ conn' = [conn EXCEPT ![c] = Closed(c)]
    BY OpenIsLink DEF Close, CarriedInv
  <1> QED BY <1>1, ClosedLike, ServersAlone

LEMMA NothingMoves == ASSUME CarriedInv, UNCHANGED <<req, call, pool, conn>> PROVE CarriedInv'
  <1>1. Typed'
    BY DEF CarriedInv, Typed
  <1>2. Held'
    BY DEF CarriedInv, Held, Busy, Fits, PoolKeyFor
  <1>3. Idle'
    BY DEF CarriedInv, Idle, Busy, FitsKey
  <1>4. Free'
    BY DEF CarriedInv, Free, Busy, Undialled
  <1> QED BY <1>1, <1>2, <1>3, <1>4 DEF CarriedInv

LEMMA InitCarried == Init => CarriedInv
  <1> SUFFICES ASSUME Init PROVE CarriedInv
    OBVIOUS
  <1>1. Typed
    BY DEF Init, Typed, CallType
  <1>2. (\A r \in Calls : ~Busy(r)) /\ \A k \in Keys : DOMAIN pool[k] = {}
    BY DEF Init, Busy, Holding
  <1> QED BY <1>1, <1>2 DEF CarriedInv, Held, Idle, Free

LEMMA StepKeepsCarried == CarriedInv /\ [Next]_vars => CarriedInv'
  <1> SUFFICES ASSUME CarriedInv, [Next]_vars PROVE CarriedInv'
    OBVIOUS
  <1>1. ASSUME NEW r \in Calls, Step(r) PROVE CarriedInv'
    BY <1>1, StartCarried, DialCarried, WriteCarried, ReadHeadCarried, ReadBodyCarried, TrailerCarried,
       EndsCarried, FinalizeCarried DEF Step
  <1>2. ASSUME NEW c \in Calls, SendHead(c) \/ SendTrailer(c) \/ SendBody(c) \/ SendInterim(c) \/ Close(c)
        PROVE  CarriedInv'
    BY <1>2, SendHeadCarried, SendTrailerCarried, SendBodyCarried, CloseCarried, NothingMoves DEF SendInterim
  <1>3. CASE UNCHANGED vars
    BY <1>3, NothingMoves DEF vars
  <1> QED BY <1>1, <1>2, <1>3 DEF Next, Finished

\* Pool::checkout and tls_pool_eligible: a request is only written to, and only read from, a
\* connection to its authority, through a proxy or not, with the TLS checks it asks for.
THEOREM CarriedSafe == Spec => []CarriedAsAsked
  <1>1. CarriedInv => CarriedAsAsked
    <2> SUFFICES ASSUME CarriedInv, NEW r \in Calls, At(r, Holding)
                 PROVE  LET c == conn[call[r].conn]
                        IN  /\ c.key = PoolKeyFor(req[r])
                            /\ c.direct = req[r].direct
                            /\ req[r].scheme = "https" => c.verify = req[r].verify /\ c.caBundle = req[r].caBundle
      BY DEF CarriedAsAsked
    <2>1. Busy(r)
      BY DEF At, Busy, Holding
    <2> QED BY <2>1, HeldLinked DEF Fits
  <1> QED BY InitCarried, StepKeepsCarried, <1>1, PTL DEF Spec

----------------------------------------------------------------------------
(* Whose answer a call reads.  A server that answers a request with a 1xx     *)
(* response and the final one may not do so on a connection that is shared:   *)
(* the client takes the 1xx response for the answer (and this is where it     *)
(* goes wrong, see the run http1_interim).                                   *)

\* Nothing was asked for on connection c that was not answered, nothing answered that was not read.
Quiet(c) == wire[c] = <<>> /\ conn[c].inbox = <<>> /\ conn[c].serving = None /\ conn[c].trailer = None

MsgType == [of : Calls, head : ResponseType \cup {None}]
TrafficTyped ==
    /\ wire \in [Calls -> Seq(MsgType)]
    /\ resp \in [Calls -> [of : Calls \cup {None}, head : ResponseType \cup {None}, body : Calls \cup {None}]]

\* A server that closed has nothing to do.
ClosedIdle ==
    \A c \in Calls : conn[c] \in LinkType /\ conn[c].state = "closed" =>
        conn[c].inbox = <<>> /\ conn[c].serving = None

HasBody(r, p) == ~NoBodyAllowed(req[r].method, p)

\* What a call has read is its own answer.
Answered(r) ==
    /\ call[r].pc \in {"body", "trailers", "release", "ok"} => resp[r].of = r
    /\ call[r].pc \in {"body", "trailers"} => HasBody(r, resp[r].head)
    /\ call[r].pc = "trailers" => resp[r].body = r
    /\ call[r].pc \in {"release", "ok"} => resp[r].body = r \/ ~HasBody(r, resp[r].head) \/ resp[r].head.framing = "none"

\* What is under way on its connection belongs to it.
OwnTraffic(r, c) ==
    /\ \A i \in DOMAIN wire[c] : wire[c][i].of = r
    /\ \A i \in DOMAIN conn[c].inbox : conn[c].inbox[i] = r
    /\ conn[c].serving # None => conn[c].serving.of = r
    /\ conn[c].trailer # None => conn[c].trailer = r

\* How far the answer to a call that may park its connection has come.
HeadStage(r, c) ==
    /\ conn[c].trailer = None
    /\ \/ wire[c] = <<>> /\ conn[c].serving = None /\ conn[c].inbox \in {<<>>, <<r>>}
       \/ /\ conn[c].inbox = <<>>
          /\ \E p \in ResponseType :
               \/ wire[c] = <<[of |-> r, head |-> p]>> /\ (conn[c].serving = None \/ HasBody(r, p))
               \/ wire[c] = <<[of |-> r, head |-> p], [of |-> r, head |-> None]>> /\ conn[c].serving = None /\ HasBody(r, p)
BodyStage(r, c) ==
    /\ conn[c].inbox = <<>>
    /\ wire[c] = <<>> \/ (wire[c] = <<[of |-> r, head |-> None]>> /\ conn[c].serving = None)

Exchange(r) ==
    /\ Answered(r)
    /\ Busy(r) => OwnTraffic(r, call[r].conn)
    /\ call[r].pc = "write" => Quiet(call[r].conn)
    /\ MayPool(req[r]) => /\ call[r].pc = "head" => HeadStage(r, call[r].conn)
                          /\ call[r].pc \in {"body", "trailers"} => BodyStage(r, call[r].conn)
                          /\ call[r].pc = "release" => Quiet(call[r].conn)

ExchangeInv ==
    /\ TrafficTyped /\ ClosedIdle
    /\ \A r \in Calls : Exchange(r)
    /\ \A k \in Keys : \A i \in DOMAIN pool[k] : Quiet(pool[k][i])

\* The exchange of a call that does nothing, on a connection where nothing happens.
LEMMA ExchangeSame ==
    ASSUME NEW q, Exchange(q), req' = req, call'[q] = call[q], resp'[q] = resp[q],
           Busy(q) => conn'[call[q].conn] = conn[call[q].conn] /\ wire'[call[q].conn] = wire[call[q].conn]
    PROVE  Exchange(q)'
  <1>1. Answered(q)'
    BY DEF Exchange, Answered, HasBody
  <1>2. CASE ~Busy(q)
    <2>1. ~Busy(q)' /\ call'[q].pc \notin Holding
      BY <1>2 DEF Busy
    <2> QED BY <1>1, <2>1 DEF Exchange, Holding
  <1>3. CASE Busy(q)
    <2>1. conn'[call[q].conn] = conn[call[q].conn] /\ wire'[call[q].conn] = wire[call[q].conn]
      BY <1>3
    <2>2. OwnTraffic(q, call[q].conn)'
      BY <1>3, <2>1 DEF Exchange, OwnTraffic
    <2>3. Quiet(call[q].conn)' <=> Quiet(call[q].conn)
      BY <2>1 DEF Quiet
    <2>4. HeadStage(q, call[q].conn)' <=> HeadStage(q, call[q].conn)
      BY <2>1 DEF HeadStage, HasBody
    <2>5. BodyStage(q, call[q].conn)' <=> BodyStage(q, call[q].conn)
      BY <2>1 DEF BodyStage
    <2> QED BY <1>1, <2>2, <2>3, <2>4, <2>5 DEF Exchange
  <1> QED BY <1>2, <1>3

LEMMA Linked ==
    ASSUME CarriedInv
    PROVE  /\ \A q \in Calls : Busy(q) => call[q].conn \in Calls /\ conn[call[q].conn] \in LinkType
           /\ \A k \in Keys : \A i \in DOMAIN pool[k] : pool[k][i] \in Calls /\ conn[pool[k][i]] \in LinkType
  <1>1. ASSUME NEW k \in Keys, NEW i \in DOMAIN pool[k] PROVE pool[k][i] \in Calls /\ conn[pool[k][i]] \in LinkType
    <2>1. pool[k] \in Seq(Calls)
      BY DEF CarriedInv, Typed
    <2>2. pool[k][i] \in Calls
      BY <2>1
    <2> QED BY <2>2 DEF CarriedInv, Idle, FitsKey
  <1> QED BY <1>1, HeldLinked

\* One call acts, on a connection that no other call and no pool has.
LEMMA OneActs ==
    ASSUME CarriedInv, ExchangeInv, NEW r \in Calls, NEW c \in Calls, req' = req,
           \A q \in Calls : q # r => call'[q] = call[q] /\ resp'[q] = resp[q] /\ (Busy(q) => call[q].conn # c),
           \A d \in Calls : d # c => conn'[d] = conn[d] /\ wire'[d] = wire[d],
           TrafficTyped', Exchange(r)',
           conn'[c] \in LinkType /\ conn'[c].state = "closed" => conn'[c].inbox = <<>> /\ conn'[c].serving = None,
           \A k \in Keys : \A i \in DOMAIN pool'[k] :
                \/ pool'[k][i] = c /\ Quiet(c)'
                \/ pool'[k][i] # c /\ \E j \in DOMAIN pool[k] : pool[k][j] = pool'[k][i]
    PROVE  ExchangeInv'
  <1>1. ClosedIdle'
    BY DEF ExchangeInv, ClosedIdle
  <1>2. ASSUME NEW q \in Calls PROVE Exchange(q)'
    <2>1. CASE q # r
      <3>1. Busy(q) => conn'[call[q].conn] = conn[call[q].conn] /\ wire'[call[q].conn] = wire[call[q].conn]
        BY <2>1, Linked
      <3> QED BY <2>1, <3>1, ExchangeSame DEF ExchangeInv
    <2> QED BY <2>1
  <1>3. ASSUME NEW k \in Keys, NEW i \in DOMAIN pool'[k] PROVE Quiet(pool[k][i])'
    <2>1. CASE pool'[k][i] = c /\ Quiet(c)'
      BY <2>1 DEF Quiet
    <2>2. ASSUME pool'[k][i] # c, NEW j \in DOMAIN pool[k], pool[k][j] = pool'[k][i] PROVE Quiet(pool[k][i])'
      <3>1. Quiet(pool[k][j]) /\ pool[k][j] \in Calls
        BY Linked DEF ExchangeInv
      <3> QED BY <2>2, <3>1 DEF Quiet
    <2> QED BY <1>3, <2>1, <2>2
  <1> QED BY <1>1, <1>2, <1>3 DEF ExchangeInv

\* Something happens on a connection that some call has.
LEMMA ServerActs ==
    ASSUME CarriedInv, ExchangeInv, NEW c \in Calls, UNCHANGED <<req, call, resp, pool>>,
           \A d \in Calls : d # c => conn'[d] = conn[d] /\ wire'[d] = wire[d],
           TrafficTyped',
           conn'[c] \in LinkType /\ conn'[c].state = "closed" => conn'[c].inbox = <<>> /\ conn'[c].serving = None,
           \A r \in Calls : Busy(r) /\ call[r].conn = c => Exchange(r)',
           Quiet(c) => Quiet(c)'
    PROVE  ExchangeInv'
  <1>1. ClosedIdle'
    BY DEF ExchangeInv, ClosedIdle
  <1>2. ASSUME NEW q \in Calls PROVE Exchange(q)'
    <2>1. CASE ~(Busy(q) /\ call[q].conn = c)
      <3>1. Busy(q) => conn'[call[q].conn] = conn[call[q].conn] /\ wire'[call[q].conn] = wire[call[q].conn]
        BY <2>1, Linked
      <3> QED BY <3>1, ExchangeSame DEF ExchangeInv
    <2> QED BY <2>1
  <1>3. ASSUME NEW k \in Keys, NEW i \in DOMAIN pool[k] PROVE Quiet(pool[k][i])'
    <2>1. Quiet(pool[k][i]) /\ pool[k][i] \in Calls
      BY Linked DEF ExchangeInv
    <2>2. CASE pool[k][i] = c
      BY <2>1, <2>2 DEF Quiet
    <2>3. CASE pool[k][i] # c
      BY <2>1, <2>3 DEF Quiet
    <2> QED BY <2>2, <2>3
  <1> QED BY <1>1, <1>2, <1>3 DEF ExchangeInv

\* Reading never makes traffic that is not the call's own.
LEMMA TypedWire ==
    ASSUME TrafficTyped, NEW c \in Calls, NEW s \in Seq(MsgType), NEW r \in Calls,
           NEW p \in [of : Calls \cup {None}, head : ResponseType \cup {None}, body : Calls \cup {None}],
           wire' \in {wire, [wire EXCEPT ![c] = s]}, resp' \in {resp, [resp EXCEPT ![r] = p]}
    PROVE  TrafficTyped'
  <1> DEFINE W == Seq(MsgType)
             P == [of : Calls \cup {None}, head : ResponseType \cup {None}, body : Calls \cup {None}]
  <1>1. wire \in [Calls -> W] /\ resp \in [Calls -> P] /\ s \in W /\ p \in P
    BY DEF TrafficTyped
  <1> HIDE DEF W, P
  <1>2. wire' \in [Calls -> W] /\ resp' \in [Calls -> P]
    BY <1>1
  <1> QED BY <1>2 DEF TrafficTyped, W, P

\* A call moves on by itself.
LEMMA PausesExchange ==
    ASSUME CarriedInv, ExchangeInv, NEW r \in Calls, UNCHANGED <<req, pool, conn, wire, resp>>,
           \A q \in Calls : q # r => call'[q] = call[q], call'[r].pc \in {"dial", "err"}
    PROVE  ExchangeInv'
  <1>1. Exchange(r)'
    BY DEF Exchange, Answered, Busy, Holding
  <1>2. \A q \in Calls : q # r => Exchange(q)'
    BY ExchangeSame DEF ExchangeInv
  <1>3. TrafficTyped' /\ ClosedIdle'
    BY DEF ExchangeInv, TrafficTyped, ClosedIdle
  <1>4. \A k \in Keys : \A i \in DOMAIN pool[k] : Quiet(pool[k][i])'
    BY DEF ExchangeInv, Quiet
  <1> QED BY <1>1, <1>2, <1>3, <1>4 DEF ExchangeInv

LEMMA StartExchange == ASSUME CarriedInv, ExchangeInv, NEW r \in Calls, Start(r) PROVE ExchangeInv'
  <1> DEFINE key == PoolKeyFor(req[r])
  <1>1. call[r].pc = "new" /\ key \in Keys /\ UNCHANGED <<req, resp, conn, wire>> /\ ~Busy(r)
    BY RequestsTyped DEF Start, At, CarriedInv, Busy, Holding
  <1>2. TrafficTyped'
    BY <1>1 DEF ExchangeInv, TrafficTyped
  <1>3. \A q \in Calls : q # r => call'[q] = call[q]
    BY DEF Start, Goto, CarriedInv, Typed
  <1>4. CASE ~(MayPool(req[r]) /\ pool[key] # <<>>)
    <2>1. UNCHANGED pool /\ call' = [call EXCEPT ![r].pc = "dial"]
      BY <1>4 DEF Start, Goto
    <2>2. call'[r].pc = "dial"
      BY <2>1 DEF CarriedInv, Typed, CallType
    <2> QED BY <1>1, <1>3, <2>1, <2>2, PausesExchange
  <1>5. CASE MayPool(req[r]) /\ pool[key] # <<>>
    <2>1. /\ call' = [call EXCEPT ![r] = [pc |-> "write", conn |-> Last(pool[key]), pooled |-> TRUE]]
          /\ pool' = [pool EXCEPT ![key] = Front(@)]
      BY <1>5 DEF Start, Checkout
    <2>2. /\ pool[key] \in Seq(Calls) /\ Len(pool[key]) \in DOMAIN pool[key]
          /\ Last(pool[key]) = pool[key][Len(pool[key])] /\ Last(pool[key]) \in Calls
      BY <1>1, <1>5 DEF CarriedInv, Typed, Last
    <2>3. \A i \in DOMAIN Front(pool[key]) : /\ i \in DOMAIN pool[key] /\ i # Len(pool[key])
                                              /\ Front(pool[key])[i] = pool[key][i]
      BY <2>2 DEF Front
    <2>4. PICK c \in Calls : c = Last(pool[key])
      BY <2>2
    <2> HIDE DEF key
    <2>5. Quiet(c) /\ (\A q \in Calls : Busy(q) => call[q].conn # c)
          /\ \A l \in Keys : \A j \in DOMAIN pool[l] : pool[l][j] = c => l = key /\ j = Len(pool[key])
      BY <1>1, <2>2, <2>4 DEF CarriedInv, Idle, ExchangeInv
    <2>6. call'[r].pc = "write" /\ call'[r].conn = c
      BY <2>1, <2>4 DEF CarriedInv, Typed
    <2>7. Quiet(c)'
      BY <1>1, <2>5 DEF Quiet
    <2>8. OwnTraffic(r, c)'
      BY <1>1, <2>5 DEF Quiet, OwnTraffic
    <2>9. Exchange(r)'
      BY <2>6, <2>7, <2>8 DEF Exchange, Answered
    <2>10. ASSUME NEW k \in Keys, NEW i \in DOMAIN pool'[k]
          PROVE  pool'[k][i] # c /\ \E j \in DOMAIN pool[k] : pool[k][j] = pool'[k][i]
      <3>1. k # key => pool'[k] = pool[k]
        BY <2>1 DEF CarriedInv, Typed
      <3>2. pool'[key] = Front(pool[key])
        BY <1>1, <2>1 DEF CarriedInv, Typed
      <3>3. i \in DOMAIN pool[k] /\ pool'[k][i] = pool[k][i] /\ (k = key => i # Len(pool[key]))
        BY <2>3, <2>10, <3>1, <3>2
      <3> QED BY <2>5, <3>3
    <2>11. conn'[c].state = "closed" => conn'[c].inbox = <<>> /\ conn'[c].serving = None
      BY <1>1, <2>5 DEF Quiet
    <2> QED BY <1>1, <1>2, <1>3, <2>5, <2>9, <2>10, <2>11, OneActs
  <1> QED BY <1>4, <1>5

LEMMA DialExchange == ASSUME CarriedInv, ExchangeInv, NEW r \in Calls, Dial(r) PROVE ExchangeInv'
  <1>1. call[r].pc = "dial" /\ UNCHANGED <<req, pool, resp>> /\ Undialled(r)
    BY DEF Dial, At, Undialled
  <1>2. CASE Goto(r, "err") /\ UNCHANGED <<conn, wire>>
    BY <1>1, <1>2, PausesExchange DEF Goto, CarriedInv, Typed, CallType
  <1>3. ASSUME NEW new, new.inbox = <<>>, new.serving = None, new.trailer = None, conn' = [conn EXCEPT ![r] = new],
               wire' = [wire EXCEPT ![r] = <<>>],
               call' = [call EXCEPT ![r] = [pc |-> "write", conn |-> r, pooled |-> FALSE]]
        PROVE  ExchangeInv'
    <2>1. /\ conn'[r] = new /\ wire'[r] = <<>> /\ call'[r].pc = "write" /\ call'[r].conn = r
          /\ \A d \in Calls : d # r => conn'[d] = conn[d] /\ wire'[d] = wire[d] /\ call'[d] = call[d]
      BY <1>3 DEF CarriedInv, Typed, ExchangeInv, TrafficTyped
    <2>2. /\ \A q \in Calls : Busy(q) => call[q].conn # r
          /\ \A k \in Keys : \A i \in DOMAIN pool[k] : pool[k][i] # r
      BY <1>1 DEF CarriedInv, Free
    <2>3. Quiet(r)' /\ OwnTraffic(r, r)'
      BY <1>3, <2>1 DEF Quiet, OwnTraffic
    <2>4. Exchange(r)'
      BY <2>1, <2>3 DEF Exchange, Answered
    <2>5. TrafficTyped'
      <3>1. <<>> \in Seq(MsgType)
        OBVIOUS
      <3> QED BY <1>1, <1>3, <3>1 DEF ExchangeInv, TrafficTyped
    <2>6. \A k \in Keys : \A i \in DOMAIN pool'[k] :
             \/ pool'[k][i] = r /\ Quiet(r)'
             \/ pool'[k][i] # r /\ \E j \in DOMAIN pool[k] : pool[k][j] = pool'[k][i]
      BY <1>1, <2>2
    <2>7. \A q \in Calls : q # r => call'[q] = call[q] /\ resp'[q] = resp[q] /\ (Busy(q) => call[q].conn # r)
      BY <1>1, <2>1, <2>2
    <2>8. conn'[r].inbox = <<>> /\ conn'[r].serving = None /\ req' = req
      BY <1>1, <1>3, <2>1
    <2>9. \A d \in Calls : d # r => conn'[d] = conn[d] /\ wire'[d] = wire[d]
      BY <2>1
    <2>10. conn'[r] \in LinkType /\ conn'[r].state = "closed" => conn'[r].inbox = <<>> /\ conn'[r].serving = None
      BY <2>8
    <2> QED BY <2>4, <2>5, <2>6, <2>7, <2>8, <2>9, <2>10, OneActs
  <1>4. CASE /\ conn' = [conn EXCEPT ![r] =
                    [state |-> "open", key |-> PoolKeyFor(req[r]), direct |-> req[r].direct,
                     verify |-> req[r].verify, caBundle |-> req[r].caBundle, inbox |-> <<>>, serving |-> None,
                     trailer |-> None]]
             /\ wire' = [wire EXCEPT ![r] = <<>>]
             /\ call' = [call EXCEPT ![r] = [pc |-> "write", conn |-> r, pooled |-> FALSE]]
    BY <1>3, <1>4
  <1> QED BY <1>2, <1>4 DEF Dial

\* A busy call's connection is its own.
LEMMA OwnConnection ==
    ASSUME CarriedInv, NEW r \in Calls, Busy(r)
    PROVE  \E c \in Calls :
              /\ call[r].conn = c /\ conn[c] \in LinkType
              /\ \A q \in Calls : q # r /\ Busy(q) => call[q].conn # c
              /\ \A k \in Keys : \A i \in DOMAIN pool[k] : pool[k][i] # c
  <1>1. call[r].conn \in Calls /\ conn[call[r].conn] \in LinkType
    BY HeldLinked
  <1>2. \A q \in Calls : q # r /\ Busy(q) => call[q].conn # call[r].conn
    BY DEF CarriedInv, Held
  <1>3. \A k \in Keys : \A i \in DOMAIN pool[k] : pool[k][i] # call[r].conn
    BY DEF CarriedInv, Idle
  <1> QED BY <1>1, <1>2, <1>3

\* A call reads on, or writes, on its own connection.
LEMMA TalksExchange ==
    ASSUME CarriedInv, ExchangeInv, NEW r \in Calls, Busy(r), NEW c \in Calls, call[r].conn = c,
           UNCHANGED <<req, pool>>,
           \A q \in Calls : q # r => call'[q] = call[q] /\ resp'[q] = resp[q],
           \A d \in Calls : d # c => conn'[d] = conn[d] /\ wire'[d] = wire[d],
           conn'[c] \in LinkType /\ conn'[c].state = "closed" => conn'[c].inbox = <<>> /\ conn'[c].serving = None,
           TrafficTyped', Exchange(r)'
    PROVE  ExchangeInv'
  <1>1. /\ \A q \in Calls : q # r /\ Busy(q) => call[q].conn # c
        /\ \A k \in Keys : \A i \in DOMAIN pool[k] : pool[k][i] # c
    BY OwnConnection
  <1> QED BY <1>1, OneActs

LEMMA EmptyTyped ==
    /\ <<>> \in Seq(MsgType)
    /\ EmptyResponse \in [of : Calls \cup {None}, head : ResponseType \cup {None}, body : Calls \cup {None}]
  BY DEF EmptyResponse

LEMMA DropsExchange ==
    ASSUME CarriedInv, ExchangeInv, NEW r \in Calls, Busy(r), Drop(call[r].conn), UNCHANGED <<req, pool>>,
           NEW p \in {"dial", "err"}, call' = [call EXCEPT ![r].pc = p],
           resp' \in {resp, [resp EXCEPT ![r] = EmptyResponse]}
    PROVE  ExchangeInv'
  <1>1. PICK c \in Calls : call[r].conn = c
    BY OwnConnection
  <1>2. /\ conn'[c] = Gone
        /\ \A d \in Calls : d # c => conn'[d] = conn[d] /\ wire'[d] = wire[d]
    BY <1>1 DEF Drop, CarriedInv, Typed, ExchangeInv, TrafficTyped
  <1>3. call'[r].pc = p /\ \A q \in Calls : q # r => call'[q] = call[q] /\ resp'[q] = resp[q]
    BY DEF CarriedInv, Typed, CallType, ExchangeInv, TrafficTyped
  <1>4. wire' \in {wire, [wire EXCEPT ![c] = <<>>]}
    BY <1>1 DEF Drop
  <1>5. TrafficTyped'
    BY <1>4, EmptyTyped, TypedWire DEF ExchangeInv
  <1>6. Exchange(r)'
    BY <1>3 DEF Exchange, Answered, Busy, Holding
  <1> QED BY <1>1, <1>2, <1>3, <1>5, <1>6, GoneIsNoLink, TalksExchange

LEMMA StaleExchange ==
    ASSUME CarriedInv, ExchangeInv, NEW r \in Calls, Busy(r), Stale(r) \/ Hard(r), UNCHANGED <<req, pool>>
    PROVE  ExchangeInv'
  <1>1. PICK p \in {"dial", "err"} : call' = [call EXCEPT ![r].pc = p]
    BY DEF Stale, Hard, Goto, AfterStale
  <1> QED BY <1>1, DropsExchange DEF Stale, Hard

LEMMA WriteExchange == ASSUME CarriedInv, ExchangeInv, NEW r \in Calls, WriteRequest(r) PROVE ExchangeInv'
  <1>1. call[r].pc = "write" /\ Busy(r) /\ UNCHANGED <<req, pool>>
    BY DEF WriteRequest, At, Busy, Holding
  <1>2. PICK c \in Calls : call[r].conn = c /\ conn[c] \in LinkType
    BY <1>1, OwnConnection
  <1>3. CASE Stale(r) \/ Hard(r)
    BY <1>1, <1>3, StaleExchange
  <1>4. CASE /\ Goto(r, "head") /\ UNCHANGED <<wire, resp>>
             /\ conn' = IF conn[c].state = "open" THEN [conn EXCEPT ![c].inbox = Append(@, r)] ELSE conn
    <2>1. Quiet(c)
      BY <1>1, <1>2 DEF ExchangeInv, Exchange
    <2>2. /\ conn'[c].inbox \in {<<>>, <<r>>} /\ conn'[c].serving = None /\ conn'[c].trailer = None
          /\ conn'[c].state = conn[c].state /\ (conn[c].state = "closed" => conn'[c].inbox = <<>>)
          /\ \A d \in Calls : d # c => conn'[d] = conn[d]
      <3>1. CASE conn' = conn
        BY <2>1, <3>1 DEF Quiet
      <3>2. CASE conn[c].state = "open" /\ conn' = [conn EXCEPT ![c].inbox = Append(@, r)]
        <4>1. Append(conn[c].inbox, r) = <<r>>
          BY <2>1 DEF Quiet
        <4>2. conn'[c] = [conn[c] EXCEPT !.inbox = <<r>>] /\ \A d \in Calls : d # c => conn'[d] = conn[d]
          BY <3>2, <4>1 DEF CarriedInv, Typed
        <4>3. conn'[c].inbox = <<r>> /\ conn'[c].serving = conn[c].serving
              /\ conn'[c].state = conn[c].state /\ conn'[c].trailer = conn[c].trailer
          BY <1>2, <4>2 DEF LinkType
        <4> QED BY <2>1, <3>2, <4>2, <4>3 DEF Quiet
      <3> QED BY <1>4, <3>1, <3>2
    <2>3. call'[r].pc = "head" /\ call'[r].conn = c /\ \A q \in Calls : q # r => call'[q] = call[q]
      BY <1>2, <1>4 DEF Goto, CarriedInv, Typed, CallType
    <2>4. wire'[c] = <<>>
      BY <1>4, <2>1 DEF Quiet
    <2>5. HeadStage(r, c)'
      BY <2>2, <2>4 DEF HeadStage
    <2>6. OwnTraffic(r, c)'
      BY <2>2, <2>4 DEF OwnTraffic
    <2>7. Exchange(r)'
      BY <2>3, <2>5, <2>6 DEF Exchange, Answered
    <2>8. TrafficTyped'
      BY <1>4 DEF ExchangeInv, TrafficTyped
    <2> QED BY <1>1, <1>2, <1>4, <2>2, <2>3, <2>7, <2>8, TalksExchange
  <1> QED BY <1>1, <1>2, <1>3, <1>4 DEF WriteRequest

LEMMA HeadTailOne == \A m : Head(<<m>>) = m /\ Tail(<<m>>) = <<>> /\ <<m>> # <<>>
  OBVIOUS

LEMMA HeadTailTwo == \A m, n : Head(<<m, n>>) = m /\ Tail(<<m, n>>) = <<n>> /\ <<m, n>> # <<>>
  OBVIOUS

\* Taking the first message off the wire.
LEMMA TailOwn ==
    ASSUME NEW s \in Seq(MsgType), s # <<>>, NEW r, \A i \in DOMAIN s : s[i].of = r
    PROVE  /\ Head(s) \in MsgType /\ Head(s).of = r /\ Tail(s) \in Seq(MsgType)
           /\ \A i \in DOMAIN Tail(s) : Tail(s)[i].of = r
  <1>1. Head(s) = s[1] /\ 1 \in DOMAIN s
    OBVIOUS
  <1>2. \A i \in DOMAIN Tail(s) : i + 1 \in DOMAIN s /\ Tail(s)[i] = s[i + 1]
    OBVIOUS
  <1>3. Tail(s) \in Seq(MsgType) /\ s[1] \in MsgType
    OBVIOUS
  <1> QED BY <1>1, <1>2, <1>3

LEMMA ReadHeadExchange == ASSUME CarriedInv, ExchangeInv, NEW r \in Calls, ReadHead(r) PROVE ExchangeInv'
  <1>1. call[r].pc = "head" /\ Busy(r) /\ UNCHANGED <<req, pool>>
    BY DEF ReadHead, At, Busy, Holding
  <1>2. PICK c \in Calls : call[r].conn = c /\ conn[c] \in LinkType
    BY <1>1, OwnConnection
  <1>3. CASE Hard(r)
    BY <1>1, <1>3, StaleExchange
  <1>4. CASE ~Hard(r)
    <2>1. PICK m \in {Head(wire[c])} :
            /\ m.head # None
            /\ resp' = [resp EXCEPT ![r] = [of |-> m.of, head |-> m.head, body |-> None]]
            /\ wire' = [wire EXCEPT ![c] = Tail(@)]
            /\ Goto(r, IF NoBodyAllowed(req[r].method, m.head) THEN "release" ELSE "body")
            /\ UNCHANGED conn
      BY <1>2, <1>4 DEF ReadHead
    <2>2. wire[c] # <<>> /\ wire[c] \in Seq(MsgType) /\ wire \in [Calls -> Seq(MsgType)]
      BY <1>2 DEF ReadHead, ExchangeInv, TrafficTyped
    <2>3. Exchange(r) /\ OwnTraffic(r, c)
      BY <1>1, <1>2 DEF ExchangeInv, Exchange
    <2>4. m \in MsgType /\ m.of = r /\ Tail(wire[c]) \in Seq(MsgType)
          /\ \A i \in DOMAIN Tail(wire[c]) : Tail(wire[c])[i].of = r
      BY <2>1, <2>2, <2>3, TailOwn DEF OwnTraffic
    <2>5. m.head \in ResponseType
      BY <2>1, <2>4 DEF MsgType
    <2>6. /\ call'[r].pc = (IF HasBody(r, m.head) THEN "body" ELSE "release") /\ call'[r].conn = c
          /\ \A q \in Calls : q # r => call'[q] = call[q] /\ resp'[q] = resp[q]
          /\ resp'[r] = [of |-> r, head |-> m.head, body |-> None]
      BY <1>2, <2>1, <2>4 DEF Goto, CarriedInv, Typed, CallType, HasBody, ExchangeInv, TrafficTyped
    <2>7. wire'[c] = Tail(wire[c]) /\ \A d \in Calls : d # c => wire'[d] = wire[d]
      BY <2>1, <2>2
    <2>8. OwnTraffic(r, c)'
      BY <2>1, <2>3, <2>4, <2>7 DEF OwnTraffic
    <2>9. Answered(r)'
      BY <1>1, <2>6 DEF Answered, HasBody
    <2>10. ASSUME MayPool(req[r]), HasBody(r, m.head) PROVE BodyStage(r, c)'
      <3>1. HeadStage(r, c)
        BY <1>1, <1>2, <2>3, <2>10 DEF Exchange
      <3>2. PICK p \in ResponseType : /\ conn[c].inbox = <<>> /\ conn[c].trailer = None
              /\ \/ wire[c] = <<[of |-> r, head |-> p]>>
                 \/ wire[c] = <<[of |-> r, head |-> p], [of |-> r, head |-> None]>> /\ conn[c].serving = None
        BY <2>2, <3>1 DEF HeadStage
      <3>3. CASE wire[c] = <<[of |-> r, head |-> p]>>
        <4>1. wire'[c] = <<>>
          BY <2>7, <3>3, HeadTailOne
        <4> QED BY <2>1, <3>2, <4>1 DEF BodyStage
      <3>4. CASE wire[c] = <<[of |-> r, head |-> p], [of |-> r, head |-> None]>> /\ conn[c].serving = None
        <4>1. wire'[c] = <<[of |-> r, head |-> None]>>
          BY <2>7, <3>4, HeadTailTwo
        <4> QED BY <2>1, <3>2, <3>4, <4>1 DEF BodyStage
      <3> QED BY <3>2, <3>3, <3>4
    <2>11. ASSUME MayPool(req[r]), ~HasBody(r, m.head) PROVE Quiet(c)'
      <3>1. HeadStage(r, c)
        BY <1>1, <1>2, <2>3, <2>11 DEF Exchange
      <3>2. PICK p \in ResponseType : /\ conn[c].inbox = <<>> /\ conn[c].trailer = None
              /\ \/ wire[c] = <<[of |-> r, head |-> p]>> /\ (conn[c].serving = None \/ HasBody(r, p))
                 \/ /\ wire[c] = <<[of |-> r, head |-> p], [of |-> r, head |-> None]>>
                    /\ conn[c].serving = None /\ HasBody(r, p)
        BY <2>2, <3>1 DEF HeadStage
      <3>3. m.head = p
        BY <2>1, <3>2, HeadTailOne, HeadTailTwo
      <3> QED BY <2>1, <2>7, <2>11, <3>2, <3>3, HeadTailOne DEF Quiet
    <2>12. Exchange(r)'
      BY <1>1, <2>6, <2>8, <2>9, <2>10, <2>11 DEF Exchange, MayPool
    <2>13. TrafficTyped'
      <3>1. [of |-> r, head |-> m.head, body |-> None] \in [of : Calls \cup {None}, head : ResponseType \cup {None}, body : Calls \cup {None}]
        BY <2>5
      <3> QED BY <2>1, <2>2, <2>4, <3>1, TypedWire DEF ExchangeInv
    <2>14. conn'[c].state = "closed" => conn'[c].inbox = <<>> /\ conn'[c].serving = None
      BY <1>2, <2>1 DEF ExchangeInv, ClosedIdle
    <2> QED BY <1>1, <1>2, <2>1, <2>6, <2>7, <2>12, <2>13, <2>14, TalksExchange
  <1> QED BY <1>3, <1>4

LEMMA ReadBodyExchange == ASSUME CarriedInv, ExchangeInv, NEW r \in Calls, ReadBody(r) PROVE ExchangeInv'
  <1>1. call[r].pc \in {"body", "trailers"} /\ Busy(r) /\ UNCHANGED <<req, pool>>
    BY DEF ReadBody, At, Busy, Holding
  <1>2. PICK c \in Calls : call[r].conn = c /\ conn[c] \in LinkType
    BY <1>1, OwnConnection
  <1>3. CASE Hard(r)
    BY <1>1, <1>3, StaleExchange
  <1>4. CASE ~Hard(r)
    <2>1. /\ resp' = [resp EXCEPT ![r].body = Head(wire[c]).of] /\ wire' = [wire EXCEPT ![c] = Tail(@)]
          /\ Goto(r, "release") /\ UNCHANGED conn
      BY <1>2, <1>4 DEF ReadBody
    <2>2. /\ wire[c] # <<>> /\ wire[c] \in Seq(MsgType) /\ wire \in [Calls -> Seq(MsgType)]
          /\ conn[c].trailer = None
      BY <1>2 DEF ReadBody, ExchangeInv, TrafficTyped
    <2>3. Exchange(r) /\ OwnTraffic(r, c)
      BY <1>1, <1>2 DEF ExchangeInv, Exchange
    <2>4. Head(wire[c]).of = r /\ Tail(wire[c]) \in Seq(MsgType)
          /\ \A i \in DOMAIN Tail(wire[c]) : Tail(wire[c])[i].of = r
      BY <2>2, <2>3, TailOwn DEF OwnTraffic
    <2>5. /\ call'[r].pc = "release" /\ call'[r].conn = c
          /\ \A q \in Calls : q # r => call'[q] = call[q] /\ resp'[q] = resp[q]
      BY <1>2, <2>1 DEF Goto, CarriedInv, Typed, CallType, ExchangeInv, TrafficTyped
    <2>6. resp'[r].of = resp[r].of /\ resp'[r].head = resp[r].head /\ resp'[r].body = r
          /\ resp' = [resp EXCEPT ![r] = [of |-> resp[r].of, head |-> resp[r].head, body |-> r]]
      <3>1. resp \in [Calls -> [of : Calls \cup {None}, head : ResponseType \cup {None}, body : Calls \cup {None}]]
        BY DEF ExchangeInv, TrafficTyped
      <3>2. [resp[r] EXCEPT !.body = r] = [of |-> resp[r].of, head |-> resp[r].head, body |-> r]
        BY <3>1
      <3>3. resp' = [resp EXCEPT ![r] = [resp[r] EXCEPT !.body = r]]
        BY <2>1, <2>4, <3>1
      <3> QED BY <3>1, <3>2, <3>3
    <2>7. wire'[c] = Tail(wire[c]) /\ \A d \in Calls : d # c => wire'[d] = wire[d]
      BY <2>1, <2>2
    <2>8. OwnTraffic(r, c)'
      BY <2>1, <2>3, <2>4, <2>7 DEF OwnTraffic
    <2>9. Answered(r)'
      BY <1>1, <2>3, <2>5, <2>6 DEF Exchange, Answered
    <2>10. ASSUME MayPool(req[r]) PROVE Quiet(c)'
      <3>1. BodyStage(r, c)
        BY <1>1, <1>2, <2>3, <2>10 DEF Exchange
      <3>2. wire'[c] = <<>>
        BY <2>2, <2>7, <3>1, HeadTailOne DEF BodyStage
      <3> QED BY <2>1, <2>2, <3>1, <3>2 DEF Quiet, BodyStage
    <2>11. Exchange(r)'
      BY <1>1, <2>5, <2>8, <2>9, <2>10 DEF Exchange, MayPool
    <2>12. TrafficTyped'
      <3>1. [of |-> resp[r].of, head |-> resp[r].head, body |-> r]
              \in [of : Calls \cup {None}, head : ResponseType \cup {None}, body : Calls \cup {None}]
        BY DEF ExchangeInv, TrafficTyped
      <3>2. PICK p \in [of : Calls \cup {None}, head : ResponseType \cup {None}, body : Calls \cup {None}] :
                  resp' = [resp EXCEPT ![r] = p]
        BY <2>6, <3>1
      <3>3. wire' = [wire EXCEPT ![c] = Tail(wire[c])] /\ TrafficTyped
        BY <2>1 DEF ExchangeInv
      <3> QED BY <2>4, <3>2, <3>3, TypedWire
    <2>13. conn'[c].state = "closed" => conn'[c].inbox = <<>> /\ conn'[c].serving = None
      BY <1>2, <2>1 DEF ExchangeInv, ClosedIdle
    <2> QED BY <1>1, <1>2, <2>1, <2>5, <2>7, <2>11, <2>12, <2>13, TalksExchange
  <1> QED BY <1>3, <1>4

LEMMA ReadToEndExchange == ASSUME CarriedInv, ExchangeInv, NEW r \in Calls, ReadToEnd(r) PROVE ExchangeInv'
  <1>1. call[r].pc = "body" /\ Busy(r) /\ UNCHANGED <<req, pool>>
    BY DEF ReadToEnd, At, Busy, Holding
  <1>2. PICK c \in Calls : call[r].conn = c /\ conn[c] \in LinkType
    BY <1>1, OwnConnection
  <1>3. CASE Hard(r)
    BY <1>1, <1>3, StaleExchange
  <1>4. CASE ~Hard(r)
    <2>1. wire' = [wire EXCEPT ![c] = <<>>] /\ Goto(r, "release") /\ UNCHANGED resp
          /\ conn' = [conn EXCEPT ![c].trailer = None]
      BY <1>2, <1>4 DEF ReadToEnd
    <2>0. /\ conn'[c].inbox = conn[c].inbox /\ conn'[c].serving = conn[c].serving
          /\ conn'[c].trailer = None /\ \A d \in Calls : d # c => conn'[d] = conn[d]
      BY <1>2, <2>1, TrailerSame DEF CarriedInv
    <2>2. conn'[c].inbox = <<>> /\ conn'[c].serving = None /\ resp[r].head.framing = "none"
      BY <1>2, <2>0 DEF ReadToEnd, CloseDelimited, ExchangeInv, ClosedIdle
    <2>3. /\ call'[r].pc = "release" /\ call'[r].conn = c
          /\ \A q \in Calls : q # r => call'[q] = call[q]
          /\ wire'[c] = <<>> /\ \A d \in Calls : d # c => wire'[d] = wire[d]
      BY <1>2, <2>1 DEF Goto, CarriedInv, Typed, CallType, ExchangeInv, TrafficTyped
    <2>4. Quiet(c)' /\ OwnTraffic(r, c)'
      BY <2>0, <2>2, <2>3 DEF Quiet, OwnTraffic
    <2>5. Answered(r)'
      BY <1>1, <2>1, <2>2, <2>3 DEF ExchangeInv, Exchange, Answered
    <2>6. Exchange(r)'
      BY <1>1, <2>3, <2>4, <2>5 DEF Exchange, MayPool
    <2>7. TrafficTyped'
      BY <2>1, EmptyTyped DEF ExchangeInv, TrafficTyped
    <2> QED BY <1>1, <1>2, <2>0, <2>1, <2>2, <2>3, <2>6, <2>7, TalksExchange
  <1> QED BY <1>3, <1>4

LEMMA ReadTrailerExchange == ASSUME CarriedInv, ExchangeInv, NEW r \in Calls, ReadTrailer(r) PROVE ExchangeInv'
  <1>1. call[r].pc \in {"body", "trailers"} /\ Busy(r) /\ UNCHANGED <<req, pool>>
    BY DEF ReadTrailer, At, Busy, Holding
  <1>2. PICK c \in Calls : call[r].conn = c /\ conn[c] \in LinkType
    BY <1>1, OwnConnection
  <1>3. CASE Hard(r)
    BY <1>1, <1>3, StaleExchange
  <1>4. CASE ~Hard(r)
    <2>1. /\ resp' = [resp EXCEPT ![r].body = conn[c].trailer] /\ conn' = [conn EXCEPT ![c].trailer = None]
          /\ Goto(r, "trailers") /\ UNCHANGED wire /\ conn[c].trailer # None
      BY <1>2, <1>4 DEF ReadTrailer
    <2>2. Exchange(r) /\ OwnTraffic(r, c) /\ conn[c].trailer = r
      BY <1>1, <1>2, <2>1 DEF ExchangeInv, Exchange, OwnTraffic
    <2>3. /\ conn'[c].inbox = conn[c].inbox /\ conn'[c].serving = conn[c].serving
          /\ conn'[c].state = conn[c].state /\ conn'[c].trailer = None
          /\ \A d \in Calls : d # c => conn'[d] = conn[d]
      BY <1>2, <2>1, TrailerSame DEF CarriedInv
    <2>4. resp[r] \in [of : Calls \cup {None}, head : ResponseType \cup {None}, body : Calls \cup {None}]
          /\ resp \in [Calls -> [of : Calls \cup {None}, head : ResponseType \cup {None}, body : Calls \cup {None}]]
      BY DEF ExchangeInv, TrafficTyped
    <2>5. /\ call'[r].pc = "trailers" /\ call'[r].conn = c
          /\ \A q \in Calls : q # r => call'[q] = call[q] /\ resp'[q] = resp[q]
          /\ resp'[r].of = resp[r].of /\ resp'[r].head = resp[r].head /\ resp'[r].body = r
      BY <1>2, <2>1, <2>2, <2>4 DEF Goto, CarriedInv, Typed, CallType
    <2>6. OwnTraffic(r, c)'
      BY <2>1, <2>2, <2>3 DEF OwnTraffic
    <2>7. Answered(r)'
      BY <1>1, <2>2, <2>5 DEF Exchange, Answered, HasBody
    <2>8. MayPool(req[r]) => BodyStage(r, c)'
      BY <1>1, <1>2, <2>1, <2>2, <2>3 DEF Exchange, BodyStage
    <2>9. Exchange(r)'
      BY <1>1, <2>5, <2>6, <2>7, <2>8 DEF Exchange, MayPool
    <2>10. TrafficTyped'
      <3>1. resp' \in [Calls -> [of : Calls \cup {None}, head : ResponseType \cup {None}, body : Calls \cup {None}]]
        BY <2>1, <2>2, <2>4
      <3> QED BY <2>1, <3>1 DEF ExchangeInv, TrafficTyped
    <2>11. conn'[c].state = "closed" => conn'[c].inbox = <<>> /\ conn'[c].serving = None
      BY <1>2, <2>3 DEF ExchangeInv, ClosedIdle
    <2> QED BY <1>1, <1>2, <2>1, <2>3, <2>5, <2>9, <2>10, <2>11, TalksExchange
  <1> QED BY <1>3, <1>4

LEMMA TrailersCutExchange == ASSUME CarriedInv, ExchangeInv, NEW r \in Calls, TrailersCut(r) PROVE ExchangeInv'
  <1>1. call[r].pc = "trailers" /\ Busy(r) /\ UNCHANGED <<req, resp, pool, conn, wire>>
    BY DEF TrailersCut, At, Busy, Holding
  <1>2. PICK c \in Calls : call[r].conn = c /\ conn[c] \in LinkType
    BY <1>1, OwnConnection
  <1>3. Exchange(r) /\ OwnTraffic(r, c)
    BY <1>1, <1>2 DEF ExchangeInv, Exchange
  <1>4. conn[c].inbox = <<>> /\ conn[c].serving = None /\ Quiet(c)
    BY <1>2 DEF TrailersCut, ExchangeInv, ClosedIdle, Quiet
  <1>5. call'[r].pc = "release" /\ call'[r].conn = c /\ \A q \in Calls : q # r => call'[q] = call[q]
    BY <1>2 DEF TrailersCut, Goto, CarriedInv, Typed, CallType
  <1>6. Quiet(c)' /\ OwnTraffic(r, c)'
    BY <1>1, <1>3, <1>4 DEF Quiet, OwnTraffic
  <1>7. Answered(r)'
    BY <1>1, <1>3, <1>5 DEF Exchange, Answered
  <1>8. Exchange(r)'
    BY <1>1, <1>5, <1>6, <1>7 DEF Exchange, MayPool
  <1>9. TrafficTyped'
    BY <1>1 DEF ExchangeInv, TrafficTyped
  <1> QED BY <1>1, <1>2, <1>4, <1>5, <1>8, <1>9, TalksExchange

LEMMA EndsExchange ==
    ASSUME CarriedInv, ExchangeInv, NEW r \in Calls, PeerGone(r) \/ ReadTimeout(r) PROVE ExchangeInv'
  <1>1. Busy(r) /\ UNCHANGED <<req, pool>> /\ (Stale(r) \/ Hard(r))
    BY DEF PeerGone, ReadTimeout, At, Busy, Holding
  <1> QED BY <1>1, StaleExchange

LEMMA FinalizeExchange == ASSUME CarriedInv, ExchangeInv, NEW r \in Calls, Finalize(r) PROVE ExchangeInv'
  <1> DEFINE key == PoolKeyFor(req[r])
  <1>1. call[r].pc = "release" /\ Busy(r) /\ UNCHANGED <<req, resp>> /\ key \in Keys
    BY RequestsTyped DEF Finalize, At, Busy, Holding, CarriedInv
  <1>2. PICK c \in Calls : /\ call[r].conn = c /\ conn[c] \in LinkType
                           /\ \A q \in Calls : q # r /\ Busy(q) => call[q].conn # c
                           /\ \A k \in Keys : \A i \in DOMAIN pool[k] : pool[k][i] # c
    BY <1>1, OwnConnection
  <1>3. call'[r].pc = "ok" /\ \A q \in Calls : q # r => call'[q] = call[q]
    BY DEF Finalize, Goto, CarriedInv, Typed, CallType
  <1>4. Exchange(r)'
    BY <1>1, <1>3 DEF ExchangeInv, Exchange, Answered, HasBody, Busy, Holding
  <1>5. CASE Drop(c) /\ UNCHANGED pool
    <2>1. /\ conn'[c] = Gone
          /\ \A d \in Calls : d # c => conn'[d] = conn[d] /\ wire'[d] = wire[d]
      BY <1>5 DEF Drop, CarriedInv, Typed, ExchangeInv, TrafficTyped
    <2>2. TrafficTyped'
      BY <1>1, <1>5, EmptyTyped DEF Drop, ExchangeInv, TrafficTyped
    <2> QED BY <1>1, <1>2, <1>3, <1>4, <1>5, <2>1, <2>2, GoneIsNoLink, TalksExchange
  <1>6. CASE MayPool(req[r]) /\ pool' = [pool EXCEPT ![key] = Append(@, c)] /\ UNCHANGED <<conn, wire>>
    <2>1. Quiet(c)
      BY <1>1, <1>2, <1>6 DEF ExchangeInv, Exchange
    <2> HIDE DEF key
    <2>2. pool[key] \in Seq(Calls) /\ pool'[key] = Append(pool[key], c) /\ \A k \in Keys : k # key => pool'[k] = pool[k]
      BY <1>1, <1>6 DEF CarriedInv, Typed
    <2>3. Quiet(c)'
      BY <1>6, <2>1 DEF Quiet
    <2>4. ASSUME NEW k \in Keys, NEW i \in DOMAIN pool'[k]
          PROVE  \/ pool'[k][i] = c /\ Quiet(c)'
                 \/ pool'[k][i] # c /\ \E j \in DOMAIN pool[k] : pool[k][j] = pool'[k][i]
      <3>1. CASE k = key
        <4>1. i = Len(pool[key]) + 1 => pool'[k][i] = c
          BY <2>2, <3>1
        <4>2. i # Len(pool[key]) + 1 => i \in DOMAIN pool[k] /\ pool'[k][i] = pool[k][i]
          BY <2>2, <2>4, <3>1
        <4> QED BY <1>2, <2>3, <4>1, <4>2
      <3>2. CASE k # key
        BY <1>2, <2>2, <2>4, <3>2
      <3> QED BY <3>1, <3>2
    <2>5. TrafficTyped'
      BY <1>1, <1>6 DEF ExchangeInv, TrafficTyped
    <2>6. conn'[c].state = "closed" => conn'[c].inbox = <<>> /\ conn'[c].serving = None
      BY <1>2, <1>6 DEF ExchangeInv, ClosedIdle
    <2>7. \A q \in Calls : q # r => call'[q] = call[q] /\ resp'[q] = resp[q] /\ (Busy(q) => call[q].conn # c)
      BY <1>1, <1>2, <1>3
    <2>8. \A d \in Calls : d # c => conn'[d] = conn[d] /\ wire'[d] = wire[d]
      BY <1>6
    <2>9. conn'[c] \in LinkType /\ conn'[c].state = "closed" => conn'[c].inbox = <<>> /\ conn'[c].serving = None
      BY <2>6
    <2>10. req' = req
      BY <1>1
    <2> QED BY <1>4, <2>4, <2>5, <2>7, <2>8, <2>9, <2>10, OneActs
  <1> QED BY <1>2, <1>5, <1>6 DEF Finalize

\* The servers answer with 1xx responses only on connections that are not shared.
InterimUnshared == \A q \in Interim : ~MayPool(q)

\* What the server is about to answer belongs to the call that has the connection.
LEMMA OwnRequest ==
    ASSUME CarriedInv, ExchangeInv, NEW r \in Calls, Busy(r), NEW c \in Calls, call[r].conn = c,
           conn[c] \in LinkType
    PROVE  /\ Exchange(r) /\ OwnTraffic(r, c)
           /\ conn[c].inbox # <<>> => Head(conn[c].inbox) = r
           /\ \A i \in DOMAIN Tail(conn[c].inbox) : conn[c].inbox # <<>> => Tail(conn[c].inbox)[i] = r
  <1>1. Exchange(r) /\ OwnTraffic(r, c)
    BY DEF ExchangeInv, Exchange
  <1>2. conn[c].inbox \in Seq(Calls)
    BY DEF LinkType
  <1>3. ASSUME conn[c].inbox # <<>>, NEW i \in DOMAIN Tail(conn[c].inbox) PROVE Tail(conn[c].inbox)[i] = r
    <2>1. i + 1 \in DOMAIN conn[c].inbox /\ Tail(conn[c].inbox)[i] = conn[c].inbox[i + 1]
      BY <1>2, <1>3
    <2> QED BY <1>1, <2>1 DEF OwnTraffic
  <1>4. conn[c].inbox # <<>> => 1 \in DOMAIN conn[c].inbox /\ Head(conn[c].inbox) = conn[c].inbox[1]
    BY <1>2
  <1> QED BY <1>1, <1>3, <1>4 DEF OwnTraffic

LEMMA AppendOne == \A m : Append(<<>>, m) = <<m>>
  OBVIOUS

LEMMA AppendTwo == ASSUME NEW S, NEW m \in S, NEW n \in S PROVE Append(<<n>>, m) = <<n, m>>
  <1>1. Append(<<n>>, m) \in Seq(S) /\ <<n, m>> \in Seq(S)
    OBVIOUS
  <1>2. Len(Append(<<n>>, m)) = 2 /\ Len(<<n, m>>) = 2
    OBVIOUS
  <1>3. Append(<<n>>, m)[1] = n /\ Append(<<n>>, m)[2] = m
    OBVIOUS
  <1>4. \A i \in 1..2 : Append(<<n>>, m)[i] = <<n, m>>[i]
    BY <1>3
  <1> QED BY <1>1, <1>2, <1>4, SeqEqual

LEMMA AppendOwn ==
    ASSUME NEW s \in Seq(MsgType), NEW m \in MsgType
    PROVE  /\ Append(s, m) \in Seq(MsgType)
           /\ s = <<>> => Append(s, m) = <<m>>
           /\ \A r : m.of = r /\ (\A i \in DOMAIN s : s[i].of = r) => \A i \in DOMAIN Append(s, m) : Append(s, m)[i].of = r
           /\ \A n : s = <<n>> => Append(s, m) = <<n, m>>
  <1>1. ASSUME NEW r, m.of = r, \A i \in DOMAIN s : s[i].of = r, NEW i \in DOMAIN Append(s, m)
        PROVE  Append(s, m)[i].of = r
    <2>1. CASE i = Len(s) + 1
      BY <1>1, <2>1
    <2>2. CASE i # Len(s) + 1
      <3>1. i \in DOMAIN s /\ Append(s, m)[i] = s[i]
        BY <2>2
      <3> QED BY <1>1, <3>1
    <2> QED BY <2>1, <2>2
  <1>2. Append(s, m) \in Seq(MsgType)
    OBVIOUS
  <1>3. s = <<>> => Append(s, m) = <<m>>
    BY AppendOne
  <1>4. ASSUME NEW n, s = <<n>> PROVE Append(s, m) = <<n, m>>
    <2>1. n \in MsgType
      BY <1>4
    <2> QED BY <1>4, <2>1, AppendTwo
  <1> QED BY <1>1, <1>2, <1>3, <1>4

\* What the server sends is of the calls.
LEMMA SendsTyped ==
    ASSUME TrafficTyped, NEW c \in Calls, NEW m \in MsgType, UNCHANGED resp,
           wire' = [wire EXCEPT ![c] = Append(wire[c], m)]
    PROVE  TrafficTyped' /\ wire'[c] = Append(wire[c], m) /\ \A d \in Calls : d # c => wire'[d] = wire[d]
  <1>1. wire[c] \in Seq(MsgType) /\ Append(wire[c], m) \in Seq(MsgType)
    BY AppendOwn DEF TrafficTyped
  <1>2. PICK p \in [of : Calls \cup {None}, head : ResponseType \cup {None}, body : Calls \cup {None}] :
              p = EmptyResponse
    BY EmptyTyped
  <1>3. TrafficTyped'
    BY <1>1, <1>2, TypedWire
  <1>4. wire'[c] = Append(wire[c], m) /\ \A d \in Calls : d # c => wire'[d] = wire[d]
    BY DEF TrafficTyped
  <1> QED BY <1>3, <1>4

LEMMA SendHeadExchange == ASSUME CarriedInv, ExchangeInv, NEW c \in Calls, SendHead(c) PROVE ExchangeInv'
  <1> DEFINE h == Head(conn[c].inbox)
  <1>1. /\ conn[c] \in LinkType /\ conn[c].inbox # <<>> /\ conn[c].serving = None
        /\ UNCHANGED <<req, call, resp, pool>>
    BY OpenIsLink DEF SendHead, CarriedInv
  <1>2. h \in Calls /\ conn[c].inbox \in Seq(Calls)
    BY <1>1 DEF LinkType
  <1>3. PICK p \in Responses :
          /\ wire' = [wire EXCEPT ![c] = Append(@, [of |-> h, head |-> p])]
          /\ conn' = [conn EXCEPT ![c] =
                 IF HasBody(h, p) THEN [conn[c] EXCEPT !.serving = [of |-> h, head |-> p], !.inbox = Tail(@)]
                 ELSE IF Closing(req[h].method, p) THEN Closed(c)
                 ELSE [conn[c] EXCEPT !.inbox = Tail(@)]]
    BY DEF SendHead, HasBody, NoBodyAllowed
  <1>4. p \in ResponseType
    BY Http1Assumption
  <1>5. PICK m \in MsgType : m = [of |-> h, head |-> p]
    BY <1>2, <1>4 DEF MsgType
  <1>6. wire' = [wire EXCEPT ![c] = Append(wire[c], m)] /\ TrafficTyped /\ wire[c] \in Seq(MsgType)
    BY <1>3, <1>5 DEF ExchangeInv, TrafficTyped
  <1>7. TrafficTyped' /\ wire'[c] = Append(wire[c], m) /\ \A d \in Calls : d # c => wire'[d] = wire[d]
    BY <1>1, <1>6, SendsTyped
  <1>8. /\ conn'[c].inbox = <<>> \/ conn'[c].inbox = Tail(conn[c].inbox)
        /\ conn'[c].serving = None \/ (HasBody(h, p) /\ conn'[c].serving = [of |-> h, head |-> p])
        /\ conn'[c].state = "closed" => conn'[c].inbox = <<>> /\ conn'[c].serving = None
        /\ conn'[c].trailer = conn[c].trailer
        /\ \A d \in Calls : d # c => conn'[d] = conn[d]
    <2>1. /\ conn'[c] = IF HasBody(h, p) THEN [conn[c] EXCEPT !.serving = [of |-> h, head |-> p], !.inbox = Tail(@)]
                        ELSE IF Closing(req[h].method, p) THEN Closed(c)
                        ELSE [conn[c] EXCEPT !.inbox = Tail(@)]
          /\ \A d \in Calls : d # c => conn'[d] = conn[d]
      BY <1>3 DEF CarriedInv, Typed
    <2>2. conn[c].state = "open"
      BY DEF SendHead
    <2>3. CASE HasBody(h, p)
      <3>1. conn'[c] = [conn[c] EXCEPT !.serving = [of |-> h, head |-> p], !.inbox = Tail(@)]
        BY <2>1, <2>3
      <3> HIDE DEF h
      <3>2. /\ conn'[c].inbox = Tail(conn[c].inbox) /\ conn'[c].serving = [of |-> h, head |-> p]
            /\ conn'[c].state = conn[c].state /\ conn'[c].trailer = conn[c].trailer
        BY <1>1, <3>1 DEF LinkType
      <3> QED BY <2>1, <2>2, <2>3, <3>2
    <2>4. CASE ~HasBody(h, p) /\ Closing(req[h].method, p)
      BY <1>1, <2>1, <2>4 DEF Closed, LinkType
    <2>5. CASE ~HasBody(h, p) /\ ~Closing(req[h].method, p)
      BY <1>1, <2>1, <2>2, <2>5 DEF LinkType
    <2> QED BY <2>3, <2>4, <2>5
  <1>9. ASSUME NEW r \in Calls, Busy(r), call[r].conn = c PROVE Exchange(r)'
    <2>1. /\ Exchange(r) /\ OwnTraffic(r, c) /\ h = r
          /\ \A i \in DOMAIN Tail(conn[c].inbox) : Tail(conn[c].inbox)[i] = r
      BY <1>1, <1>9, OwnRequest
    <2>2. OwnTraffic(r, c)'
      <3>1. \A i \in DOMAIN wire'[c] : wire'[c][i].of = r
        BY <1>5, <1>6, <1>7, <2>1, AppendOwn DEF OwnTraffic
      <3>2. \A i \in DOMAIN conn'[c].inbox : conn'[c].inbox[i] = r
        <4>1. CASE conn'[c].inbox = <<>>
          BY <4>1
        <4>2. CASE conn'[c].inbox = Tail(conn[c].inbox)
          BY <2>1, <4>2
        <4> QED BY <1>8, <4>1, <4>2
      <3>3. conn'[c].serving # None => conn'[c].serving.of = r
        BY <1>8, <2>1
      <3> QED BY <1>8, <2>1, <3>1, <3>2, <3>3 DEF OwnTraffic
    <2>3. Answered(r)'
      BY <1>1, <2>1 DEF Exchange, Answered, HasBody
    <2>4. ASSUME MayPool(req[r]), call[r].pc = "head" PROVE HeadStage(r, c)'
      <3>1. HeadStage(r, c)
        BY <1>9, <2>1, <2>4 DEF Exchange
      <3>2. wire[c] = <<>> /\ conn[c].inbox = <<r>> /\ conn[c].trailer = None
        BY <1>1, <3>1 DEF HeadStage
      <3>3. wire'[c] = <<[of |-> r, head |-> p]>> /\ conn'[c].inbox = <<>>
        <4>1. wire'[c] = <<m>>
          BY <1>6, <1>7, <3>2, AppendOwn
        <4>2. Tail(conn[c].inbox) = <<>>
          BY <3>2, HeadTailOne
        <4> QED BY <1>5, <1>8, <2>1, <4>1, <4>2
      <3>4. conn'[c].serving = None \/ HasBody(r, p)'
        BY <1>1, <1>8, <2>1 DEF HasBody
      <3> QED BY <1>4, <1>8, <3>2, <3>3, <3>4 DEF HeadStage
    <2>5. call[r].pc # "write" /\ (MayPool(req[r]) => call[r].pc \notin {"body", "trailers", "release"})
      BY <1>1, <1>9, <2>1 DEF Exchange, Quiet, BodyStage
    <2> QED BY <1>1, <1>9, <2>2, <2>3, <2>4, <2>5 DEF Exchange, MayPool
  <1>10. ~Quiet(c)
    BY <1>1 DEF Quiet
  <1> HIDE DEF h
  <1>11. \A d \in Calls : d # c => conn'[d] = conn[d] /\ wire'[d] = wire[d]
    BY <1>7, <1>8
  <1>12. conn'[c] \in LinkType /\ conn'[c].state = "closed" => conn'[c].inbox = <<>> /\ conn'[c].serving = None
    BY <1>8
  <1> QED BY <1>1, <1>7, <1>9, <1>10, <1>11, <1>12, ServerActs

LEMMA SendBodyExchange == ASSUME CarriedInv, ExchangeInv, NEW c \in Calls, SendBody(c) PROVE ExchangeInv'
  <1>1. conn[c] \in LinkType /\ conn[c].serving # None /\ UNCHANGED <<req, call, resp, pool>>
    BY OpenIsLink DEF SendBody, CarriedInv
  <1>2. PICK s \in [of : Calls, head : ResponseType] : s = conn[c].serving
    BY <1>1 DEF LinkType
  <1>3. PICK m \in MsgType : m = [of |-> s.of, head |-> None]
    BY <1>2 DEF MsgType
  <1>4. wire' = [wire EXCEPT ![c] = Append(wire[c], m)] /\ TrafficTyped /\ wire[c] \in Seq(MsgType)
    BY <1>2, <1>3 DEF SendBody, ExchangeInv, TrafficTyped
  <1>5. TrafficTyped' /\ wire'[c] = Append(wire[c], m) /\ \A d \in Calls : d # c => wire'[d] = wire[d]
    BY <1>1, <1>4, SendsTyped
  <1>6. /\ conn'[c].inbox = <<>> \/ conn'[c].inbox = conn[c].inbox
        /\ conn'[c].serving = None
        /\ conn'[c].state = "closed" => conn'[c].inbox = <<>>
        /\ conn'[c].trailer = conn[c].trailer
        /\ \A d \in Calls : d # c => conn'[d] = conn[d]
    <2>1. /\ conn'[c] = Closed(c) \/ conn'[c] = [conn[c] EXCEPT !.serving = None]
          /\ \A d \in Calls : d # c => conn'[d] = conn[d]
      BY DEF SendBody, CarriedInv, Typed
    <2>2. conn[c].state = "open"
      BY DEF SendBody
    <2>3. CASE conn'[c] = Closed(c)
      BY <1>1, <2>1, <2>3 DEF Closed, LinkType
    <2>4. CASE conn'[c] = [conn[c] EXCEPT !.serving = None]
      BY <1>1, <2>1, <2>2, <2>4 DEF LinkType
    <2> QED BY <2>1, <2>3, <2>4
  <1>7. ASSUME NEW r \in Calls, Busy(r), call[r].conn = c PROVE Exchange(r)'
    <2>1. Exchange(r) /\ OwnTraffic(r, c) /\ s.of = r
      BY <1>1, <1>2, <1>7, OwnRequest DEF OwnTraffic
    <2>2. OwnTraffic(r, c)'
      <3>1. \A i \in DOMAIN wire'[c] : wire'[c][i].of = r
        BY <1>3, <1>4, <1>5, <2>1, AppendOwn DEF OwnTraffic
      <3> QED BY <1>6, <2>1, <3>1 DEF OwnTraffic
    <2>3. Answered(r)'
      BY <1>1, <2>1 DEF Exchange, Answered, HasBody
    <2>4. ASSUME MayPool(req[r]), call[r].pc = "head" PROVE HeadStage(r, c)'
      <3>1. HeadStage(r, c)
        BY <1>7, <2>1, <2>4 DEF Exchange
      <3>2. PICK p \in ResponseType : /\ wire[c] = <<[of |-> r, head |-> p]>> /\ HasBody(r, p)
                                       /\ conn[c].inbox = <<>> /\ conn[c].trailer = None
        BY <1>1, <3>1 DEF HeadStage
      <3>3. wire'[c] = <<[of |-> r, head |-> p], [of |-> r, head |-> None]>>
        BY <1>3, <1>4, <1>5, <2>1, <3>2, AppendOwn
      <3>4. HasBody(r, p)'
        BY <1>1, <3>2 DEF HasBody
      <3> QED BY <1>6, <3>2, <3>3, <3>4 DEF HeadStage
    <2>5. ASSUME MayPool(req[r]), call[r].pc \in {"body", "trailers"} PROVE BodyStage(r, c)'
      <3>1. wire[c] = <<>> /\ conn[c].inbox = <<>>
        BY <1>1, <1>7, <2>1, <2>5 DEF Exchange, BodyStage
      <3>2. wire'[c] = <<[of |-> r, head |-> None]>>
        BY <1>3, <1>4, <1>5, <2>1, <3>1, AppendOwn
      <3> QED BY <1>6, <3>1, <3>2 DEF BodyStage
    <2>6. call[r].pc # "write" /\ (MayPool(req[r]) => call[r].pc # "release")
      BY <1>1, <1>7, <2>1 DEF Exchange, Quiet
    <2> QED BY <1>1, <1>7, <2>2, <2>3, <2>4, <2>5, <2>6 DEF Exchange, MayPool
  <1>8. ~Quiet(c)
    BY <1>1 DEF Quiet
  <1>9. \A d \in Calls : d # c => conn'[d] = conn[d] /\ wire'[d] = wire[d]
    BY <1>5, <1>6
  <1>10. conn'[c] \in LinkType /\ conn'[c].state = "closed" => conn'[c].inbox = <<>> /\ conn'[c].serving = None
    BY <1>6
  <1> QED BY <1>1, <1>5, <1>7, <1>8, <1>9, <1>10, ServerActs

LEMMA SendTrailerExchange == ASSUME CarriedInv, ExchangeInv, NEW c \in Calls, SendTrailer(c) PROVE ExchangeInv'
  <1>1. /\ conn[c] \in LinkType /\ conn[c].serving # None /\ wire[c] = <<>>
        /\ UNCHANGED <<req, call, resp, pool, wire>>
    BY OpenIsLink DEF SendTrailer, CarriedInv
  <1>2. PICK x \in Calls : x = conn[c].serving.of
    BY <1>1 DEF LinkType
  <1>3. conn' = [conn EXCEPT ![c].trailer = x]
    BY <1>2 DEF SendTrailer
  <1>4. /\ conn'[c].inbox = conn[c].inbox /\ conn'[c].serving = conn[c].serving
        /\ conn'[c].state = conn[c].state /\ conn'[c].trailer = x
        /\ \A d \in Calls : d # c => conn'[d] = conn[d]
    BY <1>1, <1>3, TrailerSame DEF CarriedInv
  <1>5. TrafficTyped'
    BY <1>1 DEF ExchangeInv, TrafficTyped
  <1>6. ASSUME NEW r \in Calls, Busy(r), call[r].conn = c PROVE Exchange(r)'
    <2>1. Exchange(r) /\ OwnTraffic(r, c)
      BY <1>1, <1>6, OwnRequest
    <2>2. OwnTraffic(r, c)'
      BY <1>1, <1>2, <1>4, <2>1 DEF OwnTraffic
    <2>3. Answered(r)'
      BY <1>1, <2>1 DEF Exchange, Answered, HasBody
    <2>4. BodyStage(r, c) => BodyStage(r, c)'
      BY <1>1, <1>4 DEF BodyStage
    <2>5. call[r].pc # "write" /\ (MayPool(req[r]) => call[r].pc \notin {"head", "release"})
      BY <1>1, <1>6, <2>1, HeadTailOne, HeadTailTwo DEF Exchange, Quiet, HeadStage
    <2> QED BY <1>1, <1>6, <2>1, <2>2, <2>3, <2>4, <2>5 DEF Exchange, MayPool
  <1>7. ~Quiet(c)
    BY <1>1 DEF Quiet
  <1>8. \A d \in Calls : d # c => conn'[d] = conn[d] /\ wire'[d] = wire[d]
    BY <1>1, <1>4
  <1>9. conn'[c] \in LinkType /\ conn'[c].state = "closed" => conn'[c].inbox = <<>> /\ conn'[c].serving = None
    BY <1>1, <1>4 DEF ExchangeInv, ClosedIdle
  <1> QED BY <1>1, <1>5, <1>6, <1>7, <1>8, <1>9, ServerActs

LEMMA SendInterimExchange ==
    ASSUME InterimUnshared, CarriedInv, ExchangeInv, NEW c \in Calls, SendInterim(c) PROVE ExchangeInv'
  <1> DEFINE h == Head(conn[c].inbox)
  <1>1. /\ conn[c] \in LinkType /\ conn[c].inbox # <<>> /\ wire[c] = <<>> /\ ~MayPool(req[h])
        /\ UNCHANGED <<req, call, resp, pool, conn>>
    BY OpenIsLink DEF SendInterim, CarriedInv, InterimUnshared
  <1>2. h \in Calls
    BY <1>1 DEF LinkType
  <1>3. PICK m \in MsgType :
          /\ m = [of |-> h, head |-> [status |-> "1xx", framing |-> "none", version |-> "1.1",
                                      connection |-> "", encoded |-> FALSE, fault |-> "no"]]
    <2>1. [status |-> "1xx", framing |-> "none", version |-> "1.1",
           connection |-> "", encoded |-> FALSE, fault |-> "no"] \in ResponseType
      BY DEF ResponseType
    <2> QED BY <1>2, <2>1 DEF MsgType
  <1>4. /\ wire' = [wire EXCEPT ![c] = Append(wire[c], m)] /\ TrafficTyped /\ wire[c] \in Seq(MsgType)
        /\ Append(wire[c], m) = <<m>>
    <2>1. wire[c] \in Seq(MsgType) /\ TrafficTyped
      BY DEF ExchangeInv, TrafficTyped
    <2>2. Append(wire[c], m) = <<m>>
      BY <1>1, <2>1, AppendOwn
    <2>3. wire' = [wire EXCEPT ![c] = <<m>>]
      BY <1>3 DEF SendInterim
    <2> QED BY <2>1, <2>2, <2>3
  <1>5. TrafficTyped' /\ wire'[c] = <<m>> /\ \A d \in Calls : d # c => wire'[d] = wire[d]
    BY <1>1, <1>4, SendsTyped
  <1>6. ASSUME NEW r \in Calls, Busy(r), call[r].conn = c PROVE Exchange(r)'
    <2>1. Exchange(r) /\ OwnTraffic(r, c) /\ h = r
      BY <1>1, <1>6, OwnRequest
    <2>2. OwnTraffic(r, c)'
      <3>1. \A i \in DOMAIN wire'[c] : wire'[c][i].of = r
        <4>1. m.of = r
          BY <1>3, <2>1
        <4>2. \A i \in DOMAIN <<m>> : <<m>>[i] = m
          OBVIOUS
        <4> QED BY <1>5, <4>1, <4>2
      <3> QED BY <1>1, <2>1, <3>1 DEF OwnTraffic
    <2>3. Answered(r)'
      BY <1>1, <2>1 DEF Exchange, Answered, HasBody
    <2>4. call[r].pc # "write" /\ ~MayPool(req'[r])
      BY <1>1, <1>6, <2>1 DEF Exchange, Quiet
    <2> QED BY <1>1, <1>6, <2>2, <2>3, <2>4 DEF Exchange, MayPool
  <1>7. ~Quiet(c)
    BY <1>1 DEF Quiet
  <1> HIDE DEF h
  <1>8. \A d \in Calls : d # c => conn'[d] = conn[d] /\ wire'[d] = wire[d]
    BY <1>1, <1>5
  <1>9. conn'[c] \in LinkType /\ conn'[c].state = "closed" => conn'[c].inbox = <<>> /\ conn'[c].serving = None
    BY <1>1 DEF ExchangeInv, ClosedIdle
  <1> QED BY <1>1, <1>5, <1>6, <1>7, <1>8, <1>9, ServerActs

LEMMA CloseExchange == ASSUME CarriedInv, ExchangeInv, NEW c \in Calls, Close(c) PROVE ExchangeInv'
  <1>1. conn[c] \in LinkType /\ UNCHANGED <<req, call, resp, pool, wire>>
    BY OpenIsLink DEF Close, CarriedInv
  <1>2. conn'[c] = Closed(c) /\ \A d \in Calls : d # c => conn'[d] = conn[d]
    BY DEF Close, CarriedInv, Typed
  <1>3. conn'[c].inbox = <<>> /\ conn'[c].serving = None /\ conn'[c].trailer = conn[c].trailer
    BY <1>1, <1>2 DEF Closed, LinkType
  <1>4. TrafficTyped'
    BY <1>1 DEF ExchangeInv, TrafficTyped
  <1>5. ASSUME NEW r \in Calls, Busy(r), call[r].conn = c PROVE Exchange(r)'
    <2>1. Exchange(r) /\ OwnTraffic(r, c)
      BY <1>1, <1>5, OwnRequest
    <2>2. OwnTraffic(r, c)'
      BY <1>1, <1>3, <2>1 DEF OwnTraffic
    <2>3. Answered(r)'
      BY <1>1, <2>1 DEF Exchange, Answered, HasBody
    <2>4. Quiet(c) => Quiet(c)'
      BY <1>1, <1>3 DEF Quiet
    <2>5. BodyStage(r, c) => BodyStage(r, c)'
      BY <1>1, <1>3 DEF BodyStage
    <2>6. HeadStage(r, c) => HeadStage(r, c)'
      BY <1>1, <1>3 DEF HeadStage, HasBody
    <2> QED BY <1>1, <1>5, <2>1, <2>2, <2>3, <2>4, <2>5, <2>6 DEF Exchange, MayPool
  <1>6. Quiet(c) => Quiet(c)'
    BY <1>1, <1>3 DEF Quiet
  <1>7. \A d \in Calls : d # c => conn'[d] = conn[d] /\ wire'[d] = wire[d]
    BY <1>1, <1>2
  <1>8. conn'[c] \in LinkType /\ conn'[c].state = "closed" => conn'[c].inbox = <<>> /\ conn'[c].serving = None
    BY <1>3
  <1> QED BY <1>1, <1>4, <1>5, <1>6, <1>7, <1>8, ServerActs

LEMMA InitExchange == Init => ExchangeInv
  <1> SUFFICES ASSUME Init PROVE ExchangeInv
    OBVIOUS
  <1>1. TrafficTyped
    BY EmptyTyped DEF Init, TrafficTyped
  <1>2. ClosedIdle
    BY GoneIsNoLink DEF Init, ClosedIdle
  <1>3. \A r \in Calls : Exchange(r)
    BY DEF Init, Exchange, Answered, Busy, Holding
  <1>4. \A k \in Keys : DOMAIN pool[k] = {}
    BY DEF Init
  <1> QED BY <1>1, <1>2, <1>3, <1>4 DEF ExchangeInv

LEMMA StepKeepsExchange ==
    InterimUnshared => (CarriedInv /\ ExchangeInv /\ [Next]_vars => ExchangeInv')
  <1> SUFFICES ASSUME InterimUnshared, CarriedInv, ExchangeInv, [Next]_vars PROVE ExchangeInv'
    OBVIOUS
  <1>1. ASSUME NEW r \in Calls, Step(r) PROVE ExchangeInv'
    BY <1>1, StartExchange, DialExchange, WriteExchange, ReadHeadExchange, ReadBodyExchange,
       ReadTrailerExchange, TrailersCutExchange, ReadToEndExchange, EndsExchange, FinalizeExchange DEF Step
  <1>2. ASSUME NEW c \in Calls, SendHead(c) \/ SendTrailer(c) \/ SendBody(c) \/ SendInterim(c) \/ Close(c)
        PROVE  ExchangeInv'
    BY <1>2, SendHeadExchange, SendTrailerExchange, SendBodyExchange, SendInterimExchange, CloseExchange
  <1>3. CASE UNCHANGED vars
    <2>1. UNCHANGED <<req, call, resp, pool, conn, wire>>
      BY <1>3 DEF vars
    <2>2. TrafficTyped' /\ ClosedIdle'
      BY <2>1 DEF ExchangeInv, TrafficTyped, ClosedIdle
    <2>3. \A q \in Calls : Exchange(q)'
      BY <2>1, ExchangeSame DEF ExchangeInv
    <2>4. \A k \in Keys : \A i \in DOMAIN pool'[k] : Quiet(pool[k][i])'
      BY <2>1 DEF ExchangeInv, Quiet
    <2> QED BY <2>2, <2>3, <2>4 DEF ExchangeInv
  <1> QED BY <1>1, <1>2, <1>3 DEF Next, Finished

LEMMA ExchangeAlways == ASSUME InterimUnshared PROVE Spec => [](CarriedInv /\ ExchangeInv)
  <1>1. CarriedInv /\ ExchangeInv /\ [Next]_vars => (CarriedInv /\ ExchangeInv)'
    BY StepKeepsCarried, StepKeepsExchange
  <1> QED BY InitCarried, InitExchange, <1>1, PTL DEF Spec

\* read_response and the pools: where no connection is shared by requests that are answered with
\* 1xx responses, a call that returns Ok read the answer to its own request, with its own body,
\* whatever the servers send, whichever connections were parked and taken out meanwhile.
THEOREM AnswersSafe == ASSUME InterimUnshared PROVE Spec => []AnswersOwnRequest
  <1>1. ExchangeInv => AnswersOwnRequest
    BY DEF ExchangeInv, Exchange, Answered, AnswersOwnRequest, At, HasBody
  <1> QED BY ExchangeAlways, <1>1, PTL

\* finalize_plain, finalize_tls and Pool::checkout: under the same condition a parked connection
\* is no call's, is parked once, and nothing is left on it of the exchange it was used for.
THEOREM ParkedSafe == ASSUME InterimUnshared PROVE Spec => []ParkedQuiet
  <1>1. CarriedInv /\ ExchangeInv => ParkedQuiet
    <2> SUFFICES ASSUME CarriedInv, ExchangeInv, NEW k \in Keys, NEW i \in DOMAIN pool[k]
                 PROVE  /\ Holders(pool[k][i]) = {}
                        /\ Cardinality({j \in DOMAIN pool[k] : pool[k][j] = pool[k][i]}) = 1
                        /\ Quiet(pool[k][i])
      BY DEF ParkedQuiet, Quiet
    <2>1. Holders(pool[k][i]) = {}
      BY DEF Holders, At, CarriedInv, Idle, Busy, Holding
    <2>2. {j \in DOMAIN pool[k] : pool[k][j] = pool[k][i]} = {i}
      BY DEF CarriedInv, Idle
    <2>3. Cardinality({i}) = 1
      BY FS_Singleton
    <2> QED BY <2>1, <2>2, <2>3 DEF ExchangeInv
  <1> QED BY ExchangeAlways, <1>1, PTL

----------------------------------------------------------------------------
(* The caps of the pool.                                                   *)

CapsInv ==
    /\ pool \in [Keys -> Seq(Calls)] /\ req \in [Calls -> RequestType]
    /\ \A s \in Schemes : IsFiniteSet(Places(s))
    /\ PoolWithinCaps

\* A place is an index into the list of a key.
LEMMA PairIn == ASSUME NEW h, NEW D, NEW x \in {h} \X D PROVE \E i \in D : x = <<h, i>>
  OBVIOUS

\* What is taken out makes room.
LEMMA TakingShrinks ==
    ASSUME CapsInv, UNCHANGED req, NEW k \in Keys, pool[k] # <<>>, pool' = [pool EXCEPT ![k] = Front(@)]
    PROVE  CapsInv'
  <1>1. pool[k] \in Seq(Calls)
    BY DEF CapsInv
  <1>2. Front(pool[k]) \in Seq(Calls) /\ Len(Front(pool[k])) <= Len(pool[k]) /\ DOMAIN Front(pool[k]) \subseteq DOMAIN pool[k]
    BY <1>1 DEF Front
  <1>3. pool' \in [Keys -> Seq(Calls)] /\ \A l \in Keys : pool'[l] = IF l = k THEN Front(pool[k]) ELSE pool[l]
    BY <1>2 DEF CapsInv
  <1>4. ASSUME NEW s \in Schemes PROVE IsFiniteSet(Places(s)') /\ Parked(s)' <= GlobalCap
    <2>1. \A h \in Hosts : DOMAIN pool'[<<s, h>>] \subseteq DOMAIN pool[<<s, h>>]
      BY <1>2, <1>3 DEF Keys
    <2>2. Places(s)' \subseteq Places(s)
      <3> SUFFICES ASSUME NEW x \in Places(s)' PROVE x \in Places(s)
        OBVIOUS
      <3>1. PICK h \in Hosts : x \in {h} \X DOMAIN pool'[<<s, h>>]
        BY DEF Places
      <3>2. x \in {h} \X DOMAIN pool[<<s, h>>]
        BY <2>1, <3>1
      <3> QED BY <3>2 DEF Places
    <2>3. IsFiniteSet(Places(s)) /\ Cardinality(Places(s)) <= GlobalCap
      BY DEF CapsInv, PoolWithinCaps, Parked
    <2>4. IsFiniteSet(Places(s)') /\ Cardinality(Places(s)') <= Cardinality(Places(s))
      BY <2>2, <2>3, FS_Subset
    <2>5. Cardinality(Places(s)) \in Nat /\ Cardinality(Places(s)') \in Nat
      BY <2>3, <2>4, FS_CardinalityType
    <2> QED BY <2>3, <2>4, <2>5, Http1Assumption DEF Parked
  <1>5. ASSUME NEW l \in Keys PROVE Len(pool'[l]) <= PerKeyCap
    <2>1. Len(pool[l]) <= PerKeyCap /\ Len(pool[l]) \in Nat /\ Len(pool'[l]) \in Nat /\ Len(pool'[l]) <= Len(pool[l])
      BY <1>1, <1>2, <1>3 DEF CapsInv, PoolWithinCaps
    <2> QED BY <2>1, Http1Assumption
  <1> QED BY <1>3, <1>4, <1>5 DEF CapsInv, PoolWithinCaps

\* What is parked had room, in the list of its key and in the pool of its scheme.
LEMMA ParkingFits ==
    ASSUME CapsInv, UNCHANGED req, NEW k \in Keys, NEW c \in Calls, HasRoom(k), pool' = [pool EXCEPT ![k] = Append(@, c)]
    PROVE  CapsInv'
  <1> DEFINE n == Len(pool[k]) + 1
  <1>1. pool[k] \in Seq(Calls) /\ Len(pool[k]) \in Nat /\ DOMAIN pool[k] = 1 .. Len(pool[k])
    BY DEF CapsInv
  <1>2. Append(pool[k], c) \in Seq(Calls) /\ Len(Append(pool[k], c)) = n /\ DOMAIN Append(pool[k], c) = DOMAIN pool[k] \cup {n}
    BY <1>1
  <1> HIDE DEF n
  <1>3. pool' \in [Keys -> Seq(Calls)] /\ \A l \in Keys : pool'[l] = IF l = k THEN Append(pool[k], c) ELSE pool[l]
    BY <1>2 DEF CapsInv
  <1>4. ASSUME NEW s \in Schemes PROVE IsFiniteSet(Places(s)') /\ Parked(s)' <= GlobalCap
    <2>1. IsFiniteSet(Places(s)) /\ Cardinality(Places(s)) \in Nat /\ Cardinality(Places(s)) <= GlobalCap
      BY FS_CardinalityType DEF CapsInv, PoolWithinCaps, Parked
    <2>2. CASE s = k[1]
      <3>1. \A h \in Hosts : DOMAIN pool'[<<s, h>>] \subseteq DOMAIN pool[<<s, h>>] \cup {n}
                             /\ (h # k[2] => DOMAIN pool'[<<s, h>>] = DOMAIN pool[<<s, h>>])
        <4>1. k = <<s, k[2]>> /\ \A h \in Hosts : <<s, h>> \in Keys /\ (h # k[2] => <<s, h>> # k)
          BY <2>2 DEF Keys
        <4> QED BY <1>2, <1>3, <4>1
      <3> DEFINE more == Places(s) \cup {<<k[2], n>>}
      <3>2. Places(s)' \subseteq more
        <4> SUFFICES ASSUME NEW x \in Places(s)' PROVE x \in more
          OBVIOUS
        <4>1. PICK h \in Hosts : x \in {h} \X DOMAIN pool'[<<s, h>>]
          BY DEF Places
        <4>2. PICK i \in DOMAIN pool'[<<s, h>>] : x = <<h, i>>
          BY <4>1, PairIn
        <4>3. CASE i \in DOMAIN pool[<<s, h>>]
          BY <4>2, <4>3 DEF Places
        <4>4. CASE h = k[2] /\ i = n
          BY <4>2, <4>4
        <4> QED BY <3>1, <4>3, <4>4
      <3>3. IsFiniteSet(more) /\ Cardinality(more) <= Cardinality(Places(s)) + 1 /\ Cardinality(more) \in Nat
        <4>1. IsFiniteSet(more) /\ (Cardinality(more) = Cardinality(Places(s)) \/ Cardinality(more) = Cardinality(Places(s)) + 1)
          BY <2>1, FS_AddElement
        <4> HIDE DEF more
        <4> QED BY <2>1, <4>1
      <3> HIDE DEF more
      <3>4. IsFiniteSet(Places(s)') /\ Cardinality(Places(s)') <= Cardinality(more) /\ Cardinality(Places(s)') \in Nat
        <4>1. IsFiniteSet(Places(s)') /\ Cardinality(Places(s)') <= Cardinality(more)
          BY <3>2, <3>3, FS_Subset
        <4> QED BY <4>1, FS_CardinalityType
      <3>5. Cardinality(Places(s)) < GlobalCap
        BY <2>2 DEF HasRoom, Parked
      <3> QED BY <2>1, <3>3, <3>4, <3>5, Http1Assumption DEF Parked
    <2>3. CASE s # k[1]
      <3>1. \A h \in Hosts : pool'[<<s, h>>] = pool[<<s, h>>]
        BY <1>3, <2>3 DEF Keys
      <3>2. Places(s)' = Places(s)
        BY <3>1 DEF Places
      <3> QED BY <2>1, <3>2 DEF Parked
    <2> QED BY <2>2, <2>3
  <1>5. ASSUME NEW l \in Keys PROVE Len(pool'[l]) <= PerKeyCap
    <2>1. Len(pool[l]) <= PerKeyCap /\ Len(pool[k]) < PerKeyCap
      BY DEF CapsInv, PoolWithinCaps, HasRoom
    <2> QED BY <1>1, <1>2, <1>3, <2>1, Http1Assumption DEF n
  <1> QED BY <1>3, <1>4, <1>5 DEF CapsInv, PoolWithinCaps

LEMMA UntouchedCaps == ASSUME CapsInv, UNCHANGED <<req, pool>> PROVE CapsInv'
  BY DEF CapsInv, PoolWithinCaps, Places, Parked

LEMMA InitCaps == Init => CapsInv
  <1> SUFFICES ASSUME Init PROVE CapsInv
    OBVIOUS
  <1>1. pool \in [Keys -> Seq(Calls)] /\ req \in [Calls -> RequestType] /\ \A k \in Keys : pool[k] = <<>>
    BY Http1Assumption DEF Init
  <1>2. ASSUME NEW s \in Schemes PROVE Places(s) = {}
    <2>1. \A h \in Hosts : DOMAIN pool[<<s, h>>] = {}
      BY <1>1 DEF Keys
    <2> QED BY <2>1 DEF Places
  <1>3. \A s \in Schemes : IsFiniteSet(Places(s)) /\ Parked(s) <= GlobalCap
    BY <1>2, FS_EmptySet, Http1Assumption DEF Parked
  <1> QED BY <1>1, <1>3, Http1Assumption DEF CapsInv, PoolWithinCaps

LEMMA StepKeepsCaps == CarriedInv /\ CapsInv /\ [Next]_vars => CapsInv'
  <1> SUFFICES ASSUME CarriedInv, CapsInv, [Next]_vars PROVE CapsInv'
    OBVIOUS
  <1>1. ASSUME NEW r \in Calls, Start(r) PROVE CapsInv'
    <2>1. PoolKeyFor(req[r]) \in Keys
      BY RequestsTyped DEF CarriedInv
    <2>2. CASE UNCHANGED <<req, pool>>
      BY <2>2, UntouchedCaps
    <2>3. CASE /\ pool[PoolKeyFor(req[r])] # <<>> /\ UNCHANGED req
               /\ pool' = [pool EXCEPT ![PoolKeyFor(req[r])] = Front(@)]
      BY <2>1, <2>3, TakingShrinks
    <2> QED BY <1>1, <2>2, <2>3 DEF Start, Checkout
  <1>2. ASSUME NEW r \in Calls, Finalize(r) PROVE CapsInv'
    <2>1. PoolKeyFor(req[r]) \in Keys
      BY RequestsTyped DEF CarriedInv
    <2>2. call[r].conn \in Calls
      <3>1. Busy(r)
        BY <1>2 DEF Finalize, At, Busy, Holding
      <3> QED BY <3>1, HeldLinked
    <2>3. CASE UNCHANGED <<req, pool>>
      BY <2>3, UntouchedCaps
    <2>4. CASE /\ HasRoom(PoolKeyFor(req[r])) /\ UNCHANGED req
               /\ pool' = [pool EXCEPT ![PoolKeyFor(req[r])] = Append(@, call[r].conn)]
      BY <2>1, <2>2, <2>4, ParkingFits
    <2> QED BY <1>2, <2>3, <2>4 DEF Finalize
  <1>3. ASSUME NEW r \in Calls, Step(r), ~Start(r), ~Finalize(r) PROVE CapsInv'
    BY <1>3, UntouchedCaps
    DEF Step, Dial, WriteRequest, ReadHead, ReadBody, ReadTrailer, TrailersCut, ReadToEnd, PeerGone, ReadTimeout
  <1>4. ASSUME NEW c \in Calls, SendHead(c) \/ SendTrailer(c) \/ SendBody(c) \/ SendInterim(c) \/ Close(c)
        PROVE  CapsInv'
    BY <1>4, UntouchedCaps DEF SendHead, SendTrailer, SendBody, SendInterim, Close
  <1>5. CASE UNCHANGED vars
    BY <1>5, UntouchedCaps DEF vars
  <1> QED BY <1>1, <1>2, <1>3, <1>4, <1>5 DEF Next, Finished

\* Pool::release tests both caps before it adds: however many threads return connections,
\* no list is longer than POOL_PER_KEY_CAP and no pool has more than POOL_GLOBAL_CAP.
THEOREM CapsHonoured == Spec => []PoolWithinCaps
  <1>1. Init => CarriedInv /\ CapsInv
    BY InitCarried, InitCaps
  <1>2. (CarriedInv /\ CapsInv) /\ [Next]_vars => (CarriedInv /\ CapsInv)'
    BY StepKeepsCarried, StepKeepsCaps
  <1>3. CarriedInv /\ CapsInv => PoolWithinCaps
    BY DEF CapsInv
  <1> QED BY <1>1, <1>2, <1>3, PTL DEF Spec
=============================================================================
