------------------------- MODULE HeaderCodingProofs -------------------------
(***************************************************************************)
(* TLAPS proofs about the two header codings, for every static table and    *)
(* set of fields.  HPACK decodes every header list as it was encoded,       *)
(* blocks of any length, all sizes of the dynamic table, and wherever       *)
(* SETTINGS and blocks cross.  An HTTP/3 exchange decodes every field       *)
(* section as it was meant, returns a response only whole, and is refused   *)
(* only for a section that has overtaken its inserts, however the streams   *)
(* are cut into datagrams.  What the recursive functions of the two modules *)
(* compute is proved by least counterexample.                              *)
(***************************************************************************)
EXTENDS HeaderCoding, SequenceTheorems, WellFoundedInduction, TLAPS

-----------------------------------------------------------------------------
(* Least and greatest numbers.                                             *)

\* A set of numbers that is not empty has a least one.
LEMMA Least == ASSUME NEW S, S \subseteq Nat, S # {} PROVE \E x \in S : \A y \in S : x <= y
  <1>1. PICK x \in S : \A y \in S : <<y, x>> \notin OpToRel(<, Nat)
    BY NatLessThanWellFounded, WFMin, Zenon
  <1>2. \A y \in S : ~(y < x)
    BY <1>1 DEF OpToRel
  <1> QED BY <1>2

\* A bounded one has a greatest one, which is the Max.
LEMMA Greatest ==
    ASSUME NEW N \in Nat, NEW S, S \subseteq 0 .. N, S # {}
    PROVE  Max(S) \in S /\ \A y \in S : Max(S) >= y
  <1> DEFINE T == {N - x : x \in S}
  <1>a. T \subseteq Nat
    <2> SUFFICES ASSUME NEW x \in S PROVE N - x \in Nat
      OBVIOUS
    <2> QED BY x \in 0 .. N
  <1>b. T # {}
    OBVIOUS
  <1>1. T \subseteq Nat /\ T # {}
    BY <1>a, <1>b
  <1>2. PICK z \in T : \A y \in T : z <= y
    BY <1>1, Least
  <1>3. PICK x \in S : z = N - x
    BY <1>2
  <1>4. \A y \in S : x >= y
    <2> SUFFICES ASSUME NEW y \in S PROVE x >= y
      OBVIOUS
    <2>1. N - x <= N - y
      BY <1>2, <1>3
    <2> QED BY <2>1
  <1> QED BY <1>4 DEF Max

\* What holds of 0 and passes from a number to the next holds up to N.
LEMMA UpTo ==
    ASSUME NEW N \in Nat, NEW S, 0 \in S, \A i \in 0 .. N - 1 : i \in S => i + 1 \in S
    PROVE  \A i \in 0 .. N : i \in S
  <1> SUFFICES ASSUME NEW j \in 0 .. N, j \notin S PROVE FALSE
    OBVIOUS
  <1> DEFINE T == {i \in 0 .. N : i \notin S}
  <1>1. T \subseteq Nat /\ T # {}
    OBVIOUS
  <1>2. PICK k \in T : \A y \in T : k <= y
    BY <1>1, Least
  <1>3. k - 1 \in 0 .. N - 1 /\ k - 1 \notin T
    BY <1>2
  <1>4. k - 1 \in S /\ k = (k - 1) + 1
    BY <1>3
  <1> QED BY <1>2, <1>3, <1>4

-----------------------------------------------------------------------------
(* The recursive functions of Hpack exist: a run of some length can be      *)
(* extended by a step.                                                     *)

\* The tables of an encoder before and after every field of a block.
LEMMA TablesRun ==
    ASSUME NEW e, NEW fields, Len(fields) \in Nat
    PROVE  /\ Tables(e, fields)[0] = e.table
           /\ \A i \in 1 .. Len(fields) :
                Tables(e, fields)[i] = Encoded(Tables(e, fields)[i - 1], e.max, fields[i])
  <1> DEFINE N == Len(fields)
             Run(m) == \E t : t = [i \in 0 .. m |-> IF i = 0 THEN e.table ELSE Encoded(t[i - 1], e.max, fields[i])]
             S == {m \in 0 .. N : Run(m)}
  <1>1. Run(0)
    <2> DEFINE u == [i \in 0 .. 0 |-> e.table]
    <2>1. u = [i \in 0 .. 0 |-> IF i = 0 THEN e.table ELSE Encoded(u[i - 1], e.max, fields[i])]
      OBVIOUS
    <2> QED BY <2>1
  <1>2. ASSUME NEW m \in 0 .. N - 1, Run(m) PROVE Run(m + 1)
    <2>1. PICK t : t = [i \in 0 .. m |-> IF i = 0 THEN e.table ELSE Encoded(t[i - 1], e.max, fields[i])]
      BY <1>2
    <2> DEFINE u == [i \in 0 .. m + 1 |-> IF i <= m THEN t[i] ELSE Encoded(t[m], e.max, fields[m + 1])]
               v == [i \in 0 .. m + 1 |-> IF i = 0 THEN e.table ELSE Encoded(u[i - 1], e.max, fields[i])]
    <2>2. ASSUME NEW i \in 0 .. m + 1 PROVE u[i] = v[i]
      <3>1. CASE i = 0
        BY <2>1, <3>1
      <3>2. CASE i # 0 /\ i <= m
        <4>1. u[i] = t[i] /\ u[i - 1] = t[i - 1] /\ i \in 0 .. m
          BY <3>2
        <4>2. t[i] = Encoded(t[i - 1], e.max, fields[i])
          BY <2>1, <4>1, <3>2
        <4> QED BY <4>1, <4>2, <3>2
      <3>3. CASE i = m + 1
        <4>1. u[i] = Encoded(t[m], e.max, fields[m + 1]) /\ u[i - 1] = t[m] /\ i # 0
          BY <3>3
        <4> QED BY <4>1, <3>3
      <3> QED BY <3>1, <3>2, <3>3
    <2>3. u = v
      BY <2>2
    <2> HIDE DEF u
    <2> QED BY <2>3
  <1> HIDE DEF Run
  <1>3. 0 \in S /\ \A m \in 0 .. N - 1 : m \in S => m + 1 \in S
    BY <1>1, <1>2
  <1> HIDE DEF S
  <1>4. \A m \in 0 .. N : m \in S
    BY <1>3, UpTo
  <1>5. Run(N)
    BY <1>4 DEF S
  <1> DEFINE t == Tables(e, fields)
  <1>6. t = [i \in 0 .. N |-> IF i = 0 THEN e.table ELSE Encoded(t[i - 1], e.max, fields[i])]
    BY <1>5 DEF Run, Tables
  <1> HIDE DEF t
  <1>7. t[0] = e.table /\ \A i \in 1 .. N : t[i] = Encoded(t[i - 1], e.max, fields[i])
    BY <1>6
  <1> QED BY <1>7 DEF t

\* A decoder before and after every representation of a block.
LEMMA DecodingRun ==
    ASSUME NEW d, NEW reps, Len(reps) \in Nat
    PROVE  /\ Decoding(d, reps)[0] = [dec |-> d, out |-> <<>>, ok |-> TRUE]
           /\ \A i \in 1 .. Len(reps) : Decoding(d, reps)[i] = DecodeRep(Decoding(d, reps)[i - 1], reps[i])
  <1> DEFINE N == Len(reps)
             s0 == [dec |-> d, out |-> <<>>, ok |-> TRUE]
             Run(m) == \E t : t = [i \in 0 .. m |-> IF i = 0 THEN s0 ELSE DecodeRep(t[i - 1], reps[i])]
             S == {m \in 0 .. N : Run(m)}
  <1>1. Run(0)
    <2> DEFINE u == [i \in 0 .. 0 |-> s0]
    <2>1. u = [i \in 0 .. 0 |-> IF i = 0 THEN s0 ELSE DecodeRep(u[i - 1], reps[i])]
      OBVIOUS
    <2> QED BY <2>1
  <1>2. ASSUME NEW m \in 0 .. N - 1, Run(m) PROVE Run(m + 1)
    <2> HIDE DEF s0
    <2>1. PICK t : t = [i \in 0 .. m |-> IF i = 0 THEN s0 ELSE DecodeRep(t[i - 1], reps[i])]
      BY <1>2
    <2> DEFINE u == [i \in 0 .. m + 1 |-> IF i <= m THEN t[i] ELSE DecodeRep(t[m], reps[m + 1])]
               v == [i \in 0 .. m + 1 |-> IF i = 0 THEN s0 ELSE DecodeRep(u[i - 1], reps[i])]
    <2>2. ASSUME NEW i \in 0 .. m + 1 PROVE u[i] = v[i]
      <3>1. CASE i = 0
        BY <2>1, <3>1
      <3>2. CASE i # 0 /\ i <= m
        <4>1. u[i] = t[i] /\ u[i - 1] = t[i - 1] /\ i \in 0 .. m
          BY <3>2
        <4>2. t[i] = DecodeRep(t[i - 1], reps[i])
          BY <2>1, <4>1, <3>2
        <4> QED BY <4>1, <4>2, <3>2
      <3>3. CASE i = m + 1
        <4>1. u[i] = DecodeRep(t[m], reps[m + 1]) /\ u[i - 1] = t[m] /\ i # 0
          BY <3>3
        <4> QED BY <4>1, <3>3
      <3> QED BY <3>1, <3>2, <3>3
    <2>3. u = v
      BY <2>2
    <2> HIDE DEF u
    <2> QED BY <2>3
  <1> HIDE DEF Run
  <1>3. 0 \in S /\ \A m \in 0 .. N - 1 : m \in S => m + 1 \in S
    BY <1>1, <1>2
  <1> HIDE DEF S
  <1>4. \A m \in 0 .. N : m \in S
    BY <1>3, UpTo
  <1>5. Run(N)
    BY <1>4 DEF S
  <1> DEFINE s == Decoding(d, reps)
  <1>6. s = [i \in 0 .. N |-> IF i = 0 THEN s0 ELSE DecodeRep(s[i - 1], reps[i])]
    BY <1>5 DEF Run, Decoding
  <1> HIDE DEF s, s0
  <1>7. s[0] = s0 /\ \A i \in 1 .. N : s[i] = DecodeRep(s[i - 1], reps[i])
    BY <1>6
  <1> QED BY <1>7 DEF s, s0

-----------------------------------------------------------------------------
(* Tables.                                                                 *)

\* Every entry of table s is at the same place of table t, which may have more.
Prefix(s, t) ==
    /\ s \in Seq(Fields) /\ t \in Seq(Fields)
    /\ Len(s) <= Len(t) /\ \A i \in 1 .. Len(s) : s[i] = t[i]

Fitting(table, cap, incoming, n) == n = 0 \/ SizeOf(SubSeq(table, 1, n)) + incoming <= cap

\* What eviction leaves is the longest prefix that fits.
LEMMA EvictLeaves ==
    ASSUME NEW table \in Seq(Fields), NEW cap, NEW incoming
    PROVE  \E n \in 0 .. Len(table) :
            /\ EvictToFit(table, cap, incoming) = SubSeq(table, 1, n)
            /\ Fitting(table, cap, incoming, n)
            /\ \A m \in 0 .. Len(table) : Fitting(table, cap, incoming, m) => m <= n
  <1> DEFINE S == {n \in 0 .. Len(table) : Fitting(table, cap, incoming, n)}
  <1>1. S \subseteq 0 .. Len(table) /\ 0 \in S /\ Len(table) \in Nat
    BY DEF Fitting
  <1>2. Max(S) \in S /\ \A y \in S : Max(S) >= y
    BY <1>1, Greatest
  <1>3. EvictToFit(table, cap, incoming) = SubSeq(table, 1, Max(S))
    BY DEF EvictToFit, Fitting
  <1>4. Max(S) \in 0 .. Len(table) /\ Fitting(table, cap, incoming, Max(S))
    BY <1>2
  <1>5. \A m \in 0 .. Len(table) : Fitting(table, cap, incoming, m) => m <= Max(S)
    BY <1>2
  <1> HIDE DEF S
  <1> QED BY <1>3, <1>4, <1>5

LEMMA PrefixCut ==
    ASSUME NEW s, NEW t, Prefix(s, t), NEW n \in 0 .. Len(s), NEW m \in 0 .. Len(t), n <= m
    PROVE  Prefix(SubSeq(s, 1, n), SubSeq(t, 1, m))
  BY DEF Prefix

\* Eviction keeps a prefix a prefix.
LEMMA EvictPrefix ==
    ASSUME NEW s, NEW t, Prefix(s, t), NEW cap, NEW incoming
    PROVE  /\ Prefix(EvictToFit(s, cap, incoming), EvictToFit(t, cap, incoming))
           /\ Prefix(EvictToFit(s, cap, incoming), t)
  <1>1. s \in Seq(Fields) /\ t \in Seq(Fields) /\ Len(s) <= Len(t) /\ Len(s) \in Nat /\ Len(t) \in Nat
    BY DEF Prefix
  <1>2. PICK n \in 0 .. Len(s) : EvictToFit(s, cap, incoming) = SubSeq(s, 1, n) /\ Fitting(s, cap, incoming, n)
    BY <1>1, EvictLeaves
  <1>3. PICK m \in 0 .. Len(t) :
          /\ EvictToFit(t, cap, incoming) = SubSeq(t, 1, m)
          /\ \A k \in 0 .. Len(t) : Fitting(t, cap, incoming, k) => k <= m
    BY <1>1, EvictLeaves
  <1>4. SubSeq(s, 1, n) = SubSeq(t, 1, n)
    BY <1>1 DEF Prefix
  <1>a. Fitting(t, cap, incoming, n)
    BY <1>2, <1>4, Zenon DEF Fitting
  <1>b. n \in 0 .. Len(t) /\ Len(t) \in 0 .. Len(t) /\ n <= Len(t)
    BY <1>1
  <1>5. Fitting(t, cap, incoming, n) /\ n \in 0 .. Len(t)
    BY <1>a, <1>b
  <1>6. n <= m
    BY <1>3, <1>5
  <1>7. Prefix(SubSeq(s, 1, n), SubSeq(t, 1, m))
    BY <1>6, PrefixCut
  <1>8. t = SubSeq(t, 1, Len(t))
    BY <1>1
  <1>9. Prefix(SubSeq(s, 1, n), t)
    BY <1>b, <1>8, PrefixCut
  <1> QED BY <1>2, <1>3, <1>7, <1>9

\* What fits altogether is kept of a longer table too, and what eviction leaves fits.
LEMMA EvictKeeps ==
    ASSUME NEW s, NEW t, Prefix(s, t), NEW cap, NEW incoming, Fitting(s, cap, incoming, Len(s))
    PROVE  Prefix(s, EvictToFit(t, cap, incoming))
  <1>1. s \in Seq(Fields) /\ t \in Seq(Fields) /\ Len(s) <= Len(t) /\ Len(s) \in Nat /\ Len(t) \in Nat
    BY DEF Prefix
  <1>2. PICK n \in 0 .. Len(s) :
          /\ EvictToFit(s, cap, incoming) = SubSeq(s, 1, n)
          /\ \A k \in 0 .. Len(s) : Fitting(s, cap, incoming, k) => k <= n
    BY <1>1, EvictLeaves
  <1>3. n = Len(s)
    BY <1>1, <1>2
  <1>4. EvictToFit(s, cap, incoming) = s
    BY <1>1, <1>2, <1>3
  <1> QED BY <1>4, EvictPrefix

LEMMA EvictFits ==
    ASSUME NEW t \in Seq(Fields), NEW cap, NEW incoming
    PROVE  LET u == EvictToFit(t, cap, incoming) IN Fitting(u, cap, incoming, Len(u))
  <1>1. PICK n \in 0 .. Len(t) : EvictToFit(t, cap, incoming) = SubSeq(t, 1, n) /\ Fitting(t, cap, incoming, n)
    BY EvictLeaves
  <1>2. Len(SubSeq(t, 1, n)) = n /\ SubSeq(SubSeq(t, 1, n), 1, n) = SubSeq(t, 1, n)
    OBVIOUS
  <1> QED BY <1>1, <1>2, Zenon DEF Fitting

\* So does an insertion at both.
LEMMA InsertPrefix ==
    ASSUME NEW s, NEW t, Prefix(s, t), NEW cap, NEW f \in Fields
    PROVE  Prefix(Insert(s, cap, f), Insert(t, cap, f))
  <1>1. CASE f.size > cap
    BY <1>1 DEF Insert, Prefix
  <1>2. CASE ~(f.size > cap)
    <2> DEFINE u == EvictToFit(s, cap, f.size)
               v == EvictToFit(t, cap, f.size)
    <2>1. Prefix(u, v)
      BY EvictPrefix
    <2>2. Insert(s, cap, f) = <<f>> \o u /\ Insert(t, cap, f) = <<f>> \o v
      BY <1>2 DEF Insert
    <2> HIDE DEF u, v
    <2>3. Prefix(<<f>> \o u, <<f>> \o v)
      BY <2>1 DEF Prefix
    <2> QED BY <2>2, <2>3
  <1> QED BY <1>1, <1>2

\* An index that the shorter table knows leads the longer one to the same field.
LEMMA SameField ==
    ASSUME NEW s, NEW t, Prefix(s, t)
    PROVE  /\ Len(Combined(s)) \in Nat /\ Len(Combined(s)) <= Len(Combined(t))
           /\ \A i \in 1 .. Len(Combined(s)) : /\ Combined(s)[i] \in Fields
                                              /\ Combined(t)[i] = Combined(s)[i]
                                              /\ i \in 1 .. Len(Combined(t))
  <1>1. Static \in Seq(Fields) /\ s \in Seq(Fields) /\ t \in Seq(Fields)
    BY HpackAssumption DEF Prefix
  <1>2. Len(Combined(s)) = Len(Static) + Len(s) /\ Len(Combined(t)) = Len(Static) + Len(t)
    BY <1>1 DEF Combined
  <1>3. Len(Static) \in Nat /\ Len(s) \in Nat /\ Len(t) \in Nat /\ Len(s) <= Len(t)
    BY <1>1 DEF Prefix
  <1>4. ASSUME NEW i \in 1 .. Len(Combined(s))
        PROVE  Combined(s)[i] \in Fields /\ Combined(t)[i] = Combined(s)[i]
    <2>1. CASE i <= Len(Static)
      BY <1>1, <1>2, <1>3, <2>1 DEF Combined
    <2>2. CASE i > Len(Static)
      <3>1. i - Len(Static) \in 1 .. Len(s) /\ i - Len(Static) \in 1 .. Len(t)
        BY <1>2, <1>3, <2>2
      <3>2. s[i - Len(Static)] = t[i - Len(Static)] /\ s[i - Len(Static)] \in Fields
        BY <1>1, <3>1 DEF Prefix
      <3>3. Combined(s)[i] = s[i - Len(Static)] /\ Combined(t)[i] = t[i - Len(Static)]
        BY <1>1, <1>2, <1>3, <2>2, <3>1 DEF Combined
      <3> QED BY <3>2, <3>3
    <2> QED BY <1>3, <2>1, <2>2
  <1> QED BY <1>2, <1>3, <1>4

\* The index of a field is that of an entry equal to it, or 0.
LEMMA FullIndexFound ==
    ASSUME NEW t \in Seq(Fields), NEW f \in Fields, FullIndex(t, f) # 0
    PROVE  FullIndex(t, f) \in 1 .. Len(Combined(t)) /\ Combined(t)[FullIndex(t, f)] = f
  <1> DEFINE c == Combined(t)
             S == {i \in 1 .. Len(c) : c[i].name = f.name /\ c[i].value = f.value}
  <1>1. c \in Seq(Fields)
    BY HpackAssumption DEF Combined
  <1>2. FullIndex(t, f) = IF S # {} THEN Min(S) ELSE 0
    BY DEF FullIndex, SelectInSeq
  <1>3. S # {} /\ S \subseteq Nat
    BY <1>2
  <1>4. PICK x \in S : \A y \in S : x <= y
    BY <1>3, Least
  <1>5. Min(S) \in S
    BY <1>4 DEF Min
  <1>6. c[Min(S)] \in Fields
    BY <1>1, <1>5
  <1> QED BY <1>2, <1>3, <1>5, <1>6, HpackAssumption

LEMMA NameIndexFound ==
    ASSUME NEW t \in Seq(Fields), NEW f \in Fields
    PROVE  /\ NameIndex(t, f) \in 0 .. Len(Combined(t))
           /\ NameIndex(t, f) # 0 => Combined(t)[NameIndex(t, f)].name = f.name
  <1> DEFINE c == Combined(t)
             S == {i \in 1 .. Len(c) : c[i].name = f.name}
  <1>1. c \in Seq(Fields) /\ Len(c) \in Nat
    BY HpackAssumption DEF Combined
  <1>2. NameIndex(t, f) = IF S # {} THEN Min(S) ELSE 0
    BY DEF NameIndex, SelectInSeq
  <1>3. CASE S = {}
    BY <1>1, <1>2, <1>3
  <1>4. CASE S # {}
    <2>a. S \subseteq Nat
      OBVIOUS
    <2>1. PICK x \in S : \A y \in S : x <= y
      BY <1>4, <2>a, Least
    <2>2. Min(S) \in S
      BY <2>1 DEF Min
    <2> QED BY <1>1, <1>2, <1>4, <2>2
  <1> QED BY <1>3, <1>4

-----------------------------------------------------------------------------
(* HPACK: one block.                                                       *)

EncoderType == [table : Seq(Fields), max : Nat, pending : {NoSignal} \cup {<<n>> : n \in Nat}]
DecoderType == [table : Seq(Fields), cap : Nat, limit : Nat, strict : BOOLEAN]
RepType ==
    [kind : {"resize"}, size : Nat] \cup [kind : {"indexed"}, index : Nat]
    \cup [kind : {"insert", "plain"}, index : Nat, field : Fields]

\* Decoder d can take what encoder e sends next.  Its table may have more: of two sizes
\* that the encoder's table had in between only the last is signalled.
Follows(d, e) ==
    /\ d \in DecoderType /\ e \in EncoderType
    /\ Prefix(e.table, d.table)
    /\ e.max <= d.limit
    /\ e.pending = NoSignal => d.cap = e.max
    /\ e.pending # NoSignal => e.pending = <<e.max>> /\ Fitting(e.table, e.max, 0, Len(e.table))

\* Within a block: s has decoded to `out`, and has what an encoder with this table has.
InTune(s, table, max, limit, out) ==
    /\ s \in [dec : DecoderType, out : Seq(Fields), ok : BOOLEAN]
    /\ s.ok /\ s.out = out
    /\ Prefix(table, s.dec.table) /\ s.dec.cap = max /\ s.dec.limit = limit

\* Representation r stands for field f at an encoder with table t.
StandsFor(r, t, f) ==
    \/ /\ r.kind = "indexed"
       /\ r.index \in 1 .. Len(Combined(t)) /\ Combined(t)[r.index] = f
    \/ /\ r.kind \in {"insert", "plain"}
       /\ r.field = f /\ r.index \in 0 .. Len(Combined(t))
       /\ r.index # 0 => Combined(t)[r.index].name = f.name

\* The table of an encoder that has sent r.
Sent(r, t, max, f) == IF r.kind = "insert" THEN Insert(t, max, f) ELSE t

LEMMA RepresentedStands ==
    ASSUME NEW t \in Seq(Fields), NEW f \in Fields, NEW max
    PROVE  /\ Represented(t, f) \in RepType /\ StandsFor(Represented(t, f), t, f)
           /\ Encoded(t, max, f) = Sent(Represented(t, f), t, max, f)
  <1>0. Len(Combined(t)) \in Nat
    BY HpackAssumption DEF Combined
  <1>1. CASE FullIndex(t, f) # 0
    <2>1. Represented(t, f) = [kind |-> "indexed", index |-> FullIndex(t, f)] /\ Encoded(t, max, f) = t
      BY <1>1 DEF Represented, Encoded
    <2>2. FullIndex(t, f) \in 1 .. Len(Combined(t)) /\ Combined(t)[FullIndex(t, f)] = f
      BY <1>1, FullIndexFound
    <2> QED BY <1>0, <2>1, <2>2 DEF RepType, StandsFor, Sent
  <1>2. CASE FullIndex(t, f) = 0
    <2>1. /\ Represented(t, f) = [kind |-> "insert", index |-> NameIndex(t, f), field |-> f]
          /\ Encoded(t, max, f) = Insert(t, max, f)
      BY <1>2 DEF Represented, Encoded
    <2>2. /\ NameIndex(t, f) \in 0 .. Len(Combined(t))
          /\ NameIndex(t, f) # 0 => Combined(t)[NameIndex(t, f)].name = f.name
      BY NameIndexFound
    <2> QED BY <1>0, <2>1, <2>2 DEF RepType, StandsFor, Sent
  <1> QED BY <1>1, <1>2

\* A representation is decoded to the field that it stands for, and both ends stay in tune.
LEMMA RepTaken ==
    ASSUME NEW s, NEW t, NEW max, NEW limit, NEW out \in Seq(Fields), InTune(s, t, max, limit, out),
           NEW f \in Fields, NEW r \in RepType, StandsFor(r, t, f)
    PROVE  InTune(DecodeRep(s, r), Sent(r, t, max, f), max, limit, Append(out, f))
  <1> DEFINE d == s.dec
  <1>1. d \in DecoderType /\ s.ok = TRUE /\ Prefix(t, d.table) /\ d.cap = max /\ d.limit = limit
    BY DEF InTune
  <1>2. d.table \in Seq(Fields) /\ t \in Seq(Fields)
    BY <1>1 DEF Prefix
  <1>3. s = [dec |-> d, out |-> out, ok |-> TRUE]
    BY <1>1 DEF InTune
  <1> HIDE DEF d
  <1>4. CASE r.kind = "indexed"
    <2>1. r.index \in 1 .. Len(Combined(t)) /\ Combined(t)[r.index] = f
      BY <1>4 DEF StandsFor
    <2>2. Valid(d.table, r.index) /\ Lookup(d.table, r.index) = f
      BY <1>1, <2>1, SameField DEF Valid, Lookup
    <2>3. DecodeRep(s, r) = [s EXCEPT !.out = Append(@, f)]
      BY <1>3, <1>4, <2>2 DEF DecodeRep
    <2>4. Sent(r, t, max, f) = t
      BY <1>4 DEF Sent
    <2>5. DecodeRep(s, r) = [dec |-> d, out |-> Append(out, f), ok |-> TRUE]
      BY <1>3, <2>3
    <2>6. Append(out, f) \in Seq(Fields)
      OBVIOUS
    <2> QED BY <1>1, <2>4, <2>5, <2>6 DEF InTune
  <1>5. CASE r.kind \in {"insert", "plain"}
    <2>1. r.field = f /\ r.index \in 0 .. Len(Combined(t)) /\ (r.index # 0 => Combined(t)[r.index].name = f.name)
      BY <1>5 DEF StandsFor
    <2>2. r.index # 0 => r.index \in 1 .. Len(Combined(t))
      BY <1>1, <2>1, SameField
    <2>3. r.index # 0 => Valid(d.table, r.index) /\ Lookup(d.table, r.index).name = f.name
      BY <1>1, <2>1, <2>2, SameField DEF Valid, Lookup
    <2>4. [r.field EXCEPT !.name = IF r.index = 0 THEN r.field.name ELSE Lookup(d.table, r.index).name] = f
      <3>1. f = [name |-> f.name, value |-> f.value, size |-> f.size]
        BY HpackAssumption
      <3>2. [f EXCEPT !.name = f.name] = f
        BY <3>1
      <3> QED BY <2>1, <2>3, <3>2
    <2>5. DecodeRep(s, r) = [s EXCEPT !.out = Append(@, f),
                                      !.dec.table = IF r.kind = "insert" THEN Insert(@, d.cap, f) ELSE @]
      BY <1>3, <1>5, <2>3, <2>4 DEF DecodeRep
    <2> DEFINE u == IF r.kind = "insert" THEN Insert(d.table, max, f) ELSE d.table
    <2>6. Prefix(Sent(r, t, max, f), u)
      BY <1>1, InsertPrefix DEF Sent
    <2>7. u \in Seq(Fields)
      BY <2>6 DEF Prefix
    <2> DEFINE v == [d EXCEPT !.table = u]
    <2>8. DecodeRep(s, r) = [dec |-> v, out |-> Append(out, f), ok |-> TRUE]
      <3>1. DecodeRep(s, r) = [s EXCEPT !.out = Append(@, f), !.dec.table = u]
        BY <1>1, <1>3, <2>5
      <3> HIDE DEF u
      <3> QED BY <1>3, <3>1
    <2>9. Append(out, f) \in Seq(Fields)
      OBVIOUS
    <2>10. v \in DecoderType /\ v.table = u /\ v.cap = max /\ v.limit = limit
      <3> HIDE DEF u
      <3> QED BY <1>1, <2>7 DEF DecoderType
    <2> HIDE DEF u, v
    <2> QED BY <2>6, <2>8, <2>9, <2>10 DEF InTune
  <1> QED BY <1>4, <1>5 DEF StandsFor

\* A size update is taken, and the decoder is in tune with the encoder that sends it.
LEMMA SignalTaken ==
    ASSUME NEW d, NEW e, Follows(d, e), NEW reps \in Seq(RepType), Len(reps) >= Len(e.pending),
           \A i \in DOMAIN e.pending : reps[i] = Signal(e)[i]
    PROVE  InTune(Decoding(d, reps)[Len(e.pending)], e.table, e.max, d.limit, <<>>)
  <1> DEFINE s0 == [dec |-> d, out |-> <<>>, ok |-> TRUE]
  <1>0. Len(reps) \in Nat
    OBVIOUS
  <1>1. Decoding(d, reps)[0] = s0
    BY <1>0, DecodingRun
  <1>2. d \in DecoderType /\ e \in EncoderType /\ Prefix(e.table, d.table) /\ e.max <= d.limit
    BY DEF Follows
  <1>3. CASE e.pending = NoSignal
    <2>1. Len(e.pending) = 0 /\ d.cap = e.max
      BY <1>3 DEF Follows, NoSignal
    <2>2. s0 \in [dec : DecoderType, out : Seq(Fields), ok : BOOLEAN]
      <3>1. <<>> \in Seq(Fields)
        OBVIOUS
      <3> QED BY <1>2, <3>1
    <2>3. s0.dec = d /\ s0.ok = TRUE /\ s0.out = <<>>
      OBVIOUS
    <2>4. Decoding(d, reps)[Len(e.pending)] = s0
      BY <1>1, <2>1
    <2> HIDE DEF s0
    <2> QED BY <1>2, <2>1, <2>2, <2>3, <2>4, Zenon DEF InTune
  <1>4. CASE e.pending # NoSignal
    <2>1. e.pending = <<e.max>> /\ Len(e.pending) = 1 /\ DOMAIN e.pending = {1} /\ e.pending[1] = e.max
      <3>1. e.pending = <<e.max>>
        BY <1>4 DEF Follows
      <3> QED BY <3>1
    <2>2. reps[1] = [kind |-> "resize", size |-> e.max]
      BY <2>1 DEF Signal
    <2>3. Decoding(d, reps)[1] = DecodeRep(s0, reps[1])
      <3>1. Len(reps) \in Nat /\ 1 \in 0 .. Len(reps)
        BY <2>1
      <3> QED BY <1>1, <3>1, DecodingRun
    <2>4. e.max \in Nat /\ d.limit \in Nat
      BY <1>2 DEF EncoderType, DecoderType
    <2> DEFINE u == EvictToFit(d.table, e.max, 0)
    <2>5. Resized(d, e.max) = [d EXCEPT !.cap = e.max, !.table = u]
      BY <1>2 DEF Resized
    <2>6. DecodeRep(s0, reps[1]) = [s0 EXCEPT !.dec = Resized(d, e.max)]
      BY <1>2, <2>2, <2>4 DEF DecodeRep
    <2>7. Prefix(e.table, u)
      BY <1>2, <1>4, EvictKeeps DEF Follows
    <2> DEFINE v == [d EXCEPT !.cap = e.max, !.table = u]
    <2>8. u \in Seq(Fields)
      BY <2>7 DEF Prefix
    <2> HIDE DEF u
    <2>9. v \in DecoderType /\ v.table = u /\ v.cap = e.max /\ v.limit = d.limit
      BY <1>2, <2>4, <2>8 DEF DecoderType
    <2>10. Decoding(d, reps)[1] = [dec |-> v, out |-> <<>>, ok |-> TRUE]
      BY <2>3, <2>5, <2>6
    <2> HIDE DEF v
    <2>11. <<>> \in Seq(Fields)
      OBVIOUS
    <2> DEFINE s1 == [dec |-> v, out |-> <<>>, ok |-> TRUE]
    <2>12. s1 \in [dec : DecoderType, out : Seq(Fields), ok : BOOLEAN]
      BY <2>9, <2>11
    <2>13. s1.dec = v /\ s1.ok = TRUE /\ s1.out = <<>>
      OBVIOUS
    <2>14. Decoding(d, reps)[Len(e.pending)] = s1
      BY <2>1, <2>10
    <2> HIDE DEF s1
    <2> QED BY <2>7, <2>9, <2>12, <2>13, <2>14, Zenon DEF InTune
  <1> QED BY <1>3, <1>4

\* Every table of a run of the encoder is one.
LEMMA TablesType ==
    ASSUME NEW e \in EncoderType, NEW fields \in Seq(Fields)
    PROVE  \A i \in 0 .. Len(fields) : Tables(e, fields)[i] \in Seq(Fields)
  <1> DEFINE t == Tables(e, fields)
             S == {i \in 0 .. Len(fields) : t[i] \in Seq(Fields)}
  <1>1. Len(fields) \in Nat /\ e.table \in Seq(Fields)
    BY DEF EncoderType
  <1>2. t[0] = e.table /\ \A i \in 1 .. Len(fields) : t[i] = Encoded(t[i - 1], e.max, fields[i])
    BY <1>1, TablesRun
  <1> HIDE DEF t
  <1>3. 0 \in S
    BY <1>1, <1>2
  <1>4. ASSUME NEW i \in 0 .. Len(fields) - 1, i \in S PROVE i + 1 \in S
    <2>1. i + 1 \in 1 .. Len(fields) /\ t[i] \in Seq(Fields) /\ fields[i + 1] \in Fields
      BY <1>1, <1>4
    <2>2. t[i + 1] = Encoded(t[i], e.max, fields[i + 1])
      BY <1>2, <2>1
    <2>3. Prefix(t[i], t[i])
      BY <2>1 DEF Prefix
    <2>4. Prefix(Insert(t[i], e.max, fields[i + 1]), Insert(t[i], e.max, fields[i + 1]))
      BY <2>1, <2>3, InsertPrefix
    <2> QED BY <2>1, <2>2, <2>4 DEF Encoded, Prefix
  <1> HIDE DEF S
  <1>5. \A i \in 0 .. Len(fields) : i \in S
    BY <1>1, <1>3, <1>4, UpTo
  <1> QED BY <1>5 DEF S, t

\* What a block is made of: the signal, then one representation per field.
LEMMA BlockMade ==
    ASSUME NEW e \in EncoderType, NEW fields \in Seq(Fields)
    PROVE  LET reps == EncodeBlock(e, fields).out IN
           /\ reps \in Seq(RepType) /\ Len(e.pending) \in Nat /\ Len(reps) = Len(e.pending) + Len(fields)
           /\ \A i \in DOMAIN e.pending : reps[i] = Signal(e)[i]
           /\ \A i \in 1 .. Len(fields) :
                reps[Len(e.pending) + i] = Represented(Tables(e, fields)[i - 1], fields[i])
  <1> DEFINE t == Tables(e, fields)
             rest == [i \in DOMAIN fields |-> Represented(t[i - 1], fields[i])]
  <1>1. Signal(e) \in Seq(RepType) /\ Len(Signal(e)) = Len(e.pending) /\ Len(e.pending) \in Nat
    <2>1. CASE e.pending = <<>>
      <3>1. Signal(e) = <<>>
        BY <2>1 DEF Signal
      <3> QED BY <2>1, <3>1
    <2>2. CASE e.pending # <<>>
      <3>1. PICK n \in Nat : e.pending = <<n>>
        BY <2>2 DEF EncoderType, NoSignal
      <3>2. Signal(e) = <<[kind |-> "resize", size |-> n]>>
        BY <3>1 DEF Signal
      <3>3. [kind |-> "resize", size |-> n] \in RepType
        BY DEF RepType
      <3> QED BY <3>1, <3>2, <3>3
    <2> QED BY <2>1, <2>2
  <1>2. DOMAIN e.pending = 1 .. Len(e.pending)
    BY DEF EncoderType, NoSignal
  <1>3. rest \in Seq(RepType) /\ Len(rest) = Len(fields)
    <2>1. \A i \in 1 .. Len(fields) : t[i - 1] \in Seq(Fields) /\ fields[i] \in Fields
      BY TablesType
    <2>2. \A i \in 1 .. Len(fields) : Represented(t[i - 1], fields[i]) \in RepType
      BY <2>1, RepresentedStands
    <2> HIDE DEF t
    <2> QED BY <2>2
  <1>4. EncodeBlock(e, fields).out = Signal(e) \o rest
    BY DEF EncodeBlock
  <1>5. \A i \in 1 .. Len(fields) : rest[i] = Represented(t[i - 1], fields[i])
    OBVIOUS
  <1> DEFINE g == Signal(e)
             reps == g \o rest
  <1> HIDE DEF rest, g
  <1>6. /\ reps \in Seq(RepType) /\ Len(reps) = Len(g) + Len(rest)
        /\ \A i \in 1 .. Len(g) : reps[i] = g[i]
        /\ \A i \in 1 .. Len(rest) : reps[Len(g) + i] = rest[i]
    BY <1>1, <1>3 DEF g
  <1>7. EncodeBlock(e, fields).out = reps
    BY <1>4 DEF g
  <1> HIDE DEF reps
  <1> QED BY <1>1, <1>2, <1>3, <1>5, <1>6, <1>7 DEF t, g

\* d decodes a block to these fields and then follows e.
ReadsAs(d, reps, fields, e) ==
    LET s == DecodeBlock(d, reps)
    IN  s.ok = TRUE /\ s.out = fields /\ s.dec.limit = d.limit /\ Follows(s.dec, e)

\* A decoder that follows an encoder decodes its next block to the fields of it, and
\* follows the encoder as it is then.
LEMMA BlockTaken ==
    ASSUME NEW d, NEW e, Follows(d, e), NEW fields \in Seq(Fields)
    PROVE  ReadsAs(d, EncodeBlock(e, fields).out, fields, EncodeBlock(e, fields).enc)
  <1> DEFINE N == Len(fields)
             p == Len(e.pending)
             t == Tables(e, fields)
             b == EncodeBlock(e, fields)
             run == Decoding(d, b.out)
             K(i) == InTune(run[p + i], t[i], e.max, d.limit, SubSeq(fields, 1, i))
             S == {i \in 0 .. N : K(i)}
  <1>1. e \in EncoderType /\ N \in Nat
    BY DEF Follows
  <1>2. /\ b.out \in Seq(RepType) /\ p \in Nat /\ Len(b.out) = p + N
        /\ \A i \in DOMAIN e.pending : b.out[i] = Signal(e)[i]
        /\ \A i \in 1 .. N : b.out[p + i] = Represented(t[i - 1], fields[i])
    BY <1>1, BlockMade
  <1>3. t[0] = e.table /\ \A i \in 1 .. N : t[i] = Encoded(t[i - 1], e.max, fields[i])
    BY <1>1, TablesRun
  <1>4. \A i \in 0 .. N : t[i] \in Seq(Fields)
    BY <1>1, TablesType
  <1>5. \A i \in 1 .. p + N : run[i] = DecodeRep(run[i - 1], b.out[i])
    <2>1. Len(b.out) \in Nat
      BY <1>1, <1>2
    <2> DEFINE reps == b.out
    <2>a. Len(reps) \in Nat
      BY <2>1
    <2> HIDE DEF reps
    <2>2. \A i \in 1 .. Len(reps) : Decoding(d, reps)[i] = DecodeRep(Decoding(d, reps)[i - 1], reps[i])
      BY <2>a, DecodingRun
    <2> HIDE DEF b, N, p
    <2> QED BY <1>2, <2>2 DEF reps
  <1>6. b.enc = [e EXCEPT !.table = t[N], !.pending = NoSignal]
    BY DEF EncodeBlock
  <1>7. DecodeBlock(d, b.out) = run[p + N]
    BY <1>2 DEF DecodeBlock
  <1>8. InTune(run[p], e.table, e.max, d.limit, <<>>)
    BY <1>1, <1>2, SignalTaken
  <1> HIDE DEF t, b, run, N, p
  <1>9. K(0)
    <2>1. SubSeq(fields, 1, 0) = <<>> /\ p + 0 = p
      BY <1>2
    <2> QED BY <1>3, <1>8, <2>1
  <1>10. ASSUME NEW i \in 0 .. N - 1, K(i) PROVE K(i + 1)
    <2>1. i + 1 \in 1 .. N /\ (i + 1) - 1 = i /\ i \in 0 .. N
      BY <1>1
    <2>2. t[i] \in Seq(Fields) /\ fields[i + 1] \in Fields /\ SubSeq(fields, 1, i) \in Seq(Fields)
      BY <1>1, <1>4, <2>1 DEF N
    <2> DEFINE r == Represented(t[i], fields[i + 1])
    <2>3. r \in RepType /\ StandsFor(r, t[i], fields[i + 1])
          /\ Encoded(t[i], e.max, fields[i + 1]) = Sent(r, t[i], e.max, fields[i + 1])
      BY <2>2, RepresentedStands
    <2>4. t[i + 1] = Sent(r, t[i], e.max, fields[i + 1])
      BY <1>3, <2>1, <2>3
    <2>5. b.out[p + (i + 1)] = r
      BY <1>2, <2>1
    <2>6. run[p + (i + 1)] = DecodeRep(run[p + i], r)
      <3>1. p + (i + 1) \in 1 .. p + N /\ (p + (i + 1)) - 1 = p + i
        BY <1>1, <1>2, <2>1
      <3> QED BY <1>5, <2>5, <3>1
    <2>7. SubSeq(fields, 1, i + 1) = Append(SubSeq(fields, 1, i), fields[i + 1])
      BY <1>1, <2>1 DEF N
    <2> HIDE DEF r
    <2>8. InTune(DecodeRep(run[p + i], r), Sent(r, t[i], e.max, fields[i + 1]), e.max, d.limit,
                 Append(SubSeq(fields, 1, i), fields[i + 1]))
      BY <1>10, <2>2, <2>3, RepTaken
    <2> QED BY <2>4, <2>6, <2>7, <2>8
  <1> HIDE DEF K
  <1>11. 0 \in S /\ \A i \in 0 .. N - 1 : i \in S => i + 1 \in S
    BY <1>1, <1>9, <1>10
  <1> HIDE DEF S
  <1>12. N \in S
    <2>1. \A i \in 0 .. N : i \in S
      BY <1>1, <1>11, UpTo
    <2> QED BY <1>1, <2>1
  <1>13. InTune(run[p + N], t[N], e.max, d.limit, fields)
    <2>1. SubSeq(fields, 1, N) = fields
      BY DEF N
    <2>2. K(N)
      BY <1>12 DEF S
    <2> QED BY <2>1, <2>2 DEF K
  <1> DEFINE s == run[p + N]
  <1>14. /\ s.dec \in DecoderType /\ s.ok = TRUE /\ s.out = fields
         /\ Prefix(t[N], s.dec.table) /\ s.dec.cap = e.max /\ s.dec.limit = d.limit
    BY <1>13 DEF InTune
  <1>15. /\ b.enc \in EncoderType /\ b.enc.table = t[N] /\ b.enc.max = e.max
         /\ b.enc.pending = NoSignal
    <2>1. t[N] \in Seq(Fields)
      BY <1>1, <1>4
    <2> QED BY <1>1, <1>6, <2>1 DEF EncoderType
  <1> HIDE DEF s
  <1>16. Follows(s.dec, b.enc)
    BY <1>14, <1>15 DEF Follows
  <1>17. ReadsAs(d, b.out, fields, b.enc)
    BY <1>7, <1>14, <1>16 DEF s, ReadsAs
  <1> QED BY <1>17 DEF b

\* The same of a block of one field, which the peer codes as it likes.
LEMMA ResponseTaken ==
    ASSUME NEW d, NEW e, Follows(d, e), NEW f \in Fields, NEW r \in RepType, StandsFor(r, e.table, f)
    PROVE  /\ Append(Signal(e), r) \in Seq(RepType)
           /\ ReadsAs(d, Append(Signal(e), r), <<f>>,
                      [e EXCEPT !.table = Sent(r, @, e.max, f), !.pending = NoSignal])
  <1> DEFINE p == Len(e.pending)
             g == Signal(e)
             reps == Append(g, r)
             run == Decoding(d, reps)
             t == Sent(r, e.table, e.max, f)
             s == run[p + 1]
             e2 == [e EXCEPT !.table = t, !.pending = NoSignal]
  <1>1. e \in EncoderType
    BY DEF Follows
  <1>2. /\ g \in Seq(RepType) /\ Len(g) = p /\ p \in Nat
        /\ DOMAIN e.pending = 1 .. p
    <2>1. CASE e.pending = <<>>
      <3>1. g = <<>>
        BY <2>1 DEF Signal
      <3> QED BY <2>1, <3>1
    <2>2. CASE e.pending # <<>>
      <3>1. PICK n \in Nat : e.pending = <<n>>
        BY <1>1, <2>2 DEF EncoderType, NoSignal
      <3>2. g = <<[kind |-> "resize", size |-> n]>>
        BY <3>1 DEF Signal
      <3>3. [kind |-> "resize", size |-> n] \in RepType
        BY DEF RepType
      <3> HIDE DEF g
      <3> QED BY <3>1, <3>2, <3>3
    <2> QED BY <2>1, <2>2
  <1> HIDE DEF g
  <1>3. reps \in Seq(RepType) /\ Len(reps) = p + 1 /\ reps[p + 1] = r /\ \A i \in 1 .. p : reps[i] = g[i]
    BY <1>2
  <1> HIDE DEF reps
  <1>4. Len(reps) \in Nat
    BY <1>3
  <1>5. InTune(run[p], e.table, e.max, d.limit, <<>>)
    <2>1. reps \in Seq(RepType) /\ Len(reps) >= Len(e.pending)
      BY <1>2, <1>3
    <2>2. \A i \in DOMAIN e.pending : reps[i] = Signal(e)[i]
      BY <1>2, <1>3 DEF g
    <2> HIDE DEF p
    <2>3. InTune(Decoding(d, reps)[Len(e.pending)], e.table, e.max, d.limit, <<>>)
      BY <2>1, <2>2, SignalTaken
    <2> QED BY <2>3 DEF p
  <1>6. run[p + 1] = DecodeRep(run[p], r)
    <2>1. p + 1 \in 1 .. Len(reps) /\ (p + 1) - 1 = p
      BY <1>2, <1>3
    <2>2. run[p + 1] = DecodeRep(run[(p + 1) - 1], reps[p + 1])
      BY <1>4, <2>1, DecodingRun
    <2> QED BY <1>3, <2>1, <2>2
  <1> HIDE DEF run, p
  <1>7. InTune(s, t, e.max, d.limit, <<f>>)
    <2>1. <<>> \in Seq(Fields)
      OBVIOUS
    <2>2. InTune(DecodeRep(run[p], r), t, e.max, d.limit, Append(<<>>, f))
      BY <1>5, <2>1, RepTaken
    <2>3. Append(<<>>, f) = <<f>>
      OBVIOUS
    <2> QED BY <1>6, <2>2, <2>3
  <1> HIDE DEF t
  <1>8. /\ s.dec \in DecoderType /\ s.ok = TRUE /\ s.out = <<f>>
        /\ Prefix(t, s.dec.table) /\ s.dec.cap = e.max /\ s.dec.limit = d.limit
    BY <1>7 DEF InTune
  <1>9. e2 \in EncoderType /\ e2.table = t /\ e2.max = e.max /\ e2.pending = NoSignal
    BY <1>1, <1>8 DEF EncoderType, Prefix
  <1>10. DecodeBlock(d, reps) = s
    BY <1>3 DEF DecodeBlock, run
  <1>11. e2 = [e EXCEPT !.table = Sent(r, @, e.max, f), !.pending = NoSignal]
    BY DEF t
  <1> HIDE DEF s, e2
  <1>12. Follows(s.dec, e2)
    BY <1>8, <1>9 DEF Follows
  <1>13. ReadsAs(d, reps, <<f>>, e2)
    BY <1>8, <1>10, <1>12 DEF ReadsAs
  <1> QED BY <1>3, <1>11, <1>13 DEF reps, g

-----------------------------------------------------------------------------
(* HPACK: the connection.                                                  *)

WireType == [kind : {"ack"}, size : Nat] \cup [kind : {"block"}, reps : Seq(RepType), fields : Seq(Fields)]

\* What message m makes of decoder d: a block has to be decoded as it was meant.
Taken(d, m, d2) ==
    \/ m.kind = "ack" /\ d2 = [d EXCEPT !.limit = m.size]
    \/ /\ m.kind = "block"
       /\ LET s == DecodeBlock(d, m.reps) IN s.ok = TRUE /\ s.out = m.fields /\ s.dec = d2

\* The decoders that d will have been when it has taken what is on the wire.
Course(h, d, w) ==
    /\ h \in [0 .. Len(w) -> DecoderType] /\ h[0] = d
    /\ \A i \in 1 .. Len(w) : Taken(h[i - 1], w[i], h[i])

\* Everything on the wire will be decoded as it was meant, and then the decoder follows
\* the encoder.  The client's decoder keeps its limit.
InStep(d, w, e, fixed) ==
    \E h : Course(h, d, w) /\ Follows(h[Len(w)], e) /\ (fixed => h[Len(w)].limit = DynTableCap)

HpackInv ==
    /\ settings \in Seq(Nat) /\ wire \in Seq(WireType)
    /\ side \in {"request", "response"} /\ (side = "response" => settings = <<>>)
    /\ InStep(dec, wire, enc, side = "response")
    /\ same = TRUE

\* A message that the decoder will take is sent.
LEMMA Grown ==
    ASSUME NEW h, NEW d, NEW w \in Seq(WireType), Course(h, d, w), NEW m \in WireType,
           NEW d2 \in DecoderType, Taken(h[Len(w)], m, d2)
    PROVE  \E g : Course(g, d, Append(w, m)) /\ g[Len(Append(w, m))] = d2
  <1> DEFINE n == Len(w)
             g == [i \in 0 .. n + 1 |-> IF i <= n THEN h[i] ELSE d2]
             x == Append(w, m)
  <1>1. n \in Nat /\ Len(x) = n + 1 /\ x[n + 1] = m /\ \A i \in 1 .. n : x[i] = w[i]
    OBVIOUS
  <1>2. h \in [0 .. n -> DecoderType] /\ h[0] = d /\ \A i \in 1 .. n : Taken(h[i - 1], w[i], h[i])
    BY DEF Course
  <1> HIDE DEF x, n
  <1>3. g \in [0 .. n + 1 -> DecoderType] /\ g[0] = d /\ g[n + 1] = d2 /\ \A i \in 0 .. n : g[i] = h[i]
    BY <1>1, <1>2
  <1> HIDE DEF g
  <1>4. ASSUME NEW i \in 1 .. n + 1 PROVE Taken(g[i - 1], x[i], g[i])
    <2>1. CASE i = n + 1
      <3>1. g[i - 1] = h[n] /\ x[i] = m /\ g[i] = d2
        BY <1>1, <1>3, <2>1
      <3> QED BY <3>1 DEF n
    <2>2. CASE i # n + 1
      <3>1. i \in 1 .. n /\ i - 1 \in 0 .. n /\ i \in 0 .. n
        BY <1>1, <2>2
      <3> QED BY <1>1, <1>2, <1>3, <3>1
    <2> QED BY <2>1, <2>2
  <1>5. Course(g, d, x)
    BY <1>1, <1>3, <1>4 DEF Course
  <1> QED BY <1>1, <1>3, <1>5 DEF x

\* The next message is taken.
LEMMA Shrunk ==
    ASSUME NEW h, NEW d, NEW w \in Seq(WireType), w # <<>>, Course(h, d, w)
    PROVE  /\ Taken(d, Head(w), h[1]) /\ Head(w) \in WireType
           /\ \E g : Course(g, h[1], Tail(w)) /\ g[Len(Tail(w))] = h[Len(w)]
  <1> DEFINE n == Len(w)
             g == [i \in 0 .. n - 1 |-> h[i + 1]]
             x == Tail(w)
  <1>1. n \in Nat \ {0} /\ Len(x) = n - 1 /\ w[1] = Head(w) /\ Head(w) \in WireType /\ \A i \in 1 .. n - 1 : x[i] = w[i + 1]
    OBVIOUS
  <1>2. h \in [0 .. n -> DecoderType] /\ h[0] = d /\ \A i \in 1 .. n : Taken(h[i - 1], w[i], h[i])
    BY DEF Course
  <1> HIDE DEF x, n
  <1>3. /\ g \in [0 .. n - 1 -> DecoderType] /\ g[0] = h[1] /\ g[n - 1] = h[n]
        /\ \A i \in 0 .. n - 1 : g[i] = h[i + 1]
    BY <1>1, <1>2
  <1> HIDE DEF g
  <1>4. ASSUME NEW i \in 1 .. n - 1 PROVE Taken(g[i - 1], x[i], g[i])
    <2>1. i + 1 \in 1 .. n /\ i - 1 \in 0 .. n - 1 /\ i \in 0 .. n - 1 /\ (i + 1) - 1 = i /\ (i - 1) + 1 = i
      BY <1>1
    <2>2. Taken(h[(i + 1) - 1], w[i + 1], h[i + 1])
      BY <1>2, <2>1
    <2> QED BY <1>1, <1>3, <2>1, <2>2
  <1>5. Course(g, h[1], x)
    BY <1>1, <1>3, <1>4 DEF Course
  <1>6. Taken(d, Head(w), h[1])
    <2>1. 1 \in 1 .. n /\ 1 - 1 = 0
      BY <1>1
    <2> QED BY <1>1, <1>2, <2>1
  <1> QED BY <1>1, <1>3, <1>5, <1>6 DEF x, n

\* So far every decoder and encoder in step is one.
LEMMA StepTypes ==
    ASSUME NEW d, NEW w \in Seq(WireType), NEW e, NEW b \in BOOLEAN, InStep(d, w, e, b)
    PROVE  d \in DecoderType /\ e \in EncoderType
  <1>1. PICK h : Course(h, d, w) /\ Follows(h[Len(w)], e)
    BY DEF InStep
  <1>2. 0 \in 0 .. Len(w) /\ h \in [0 .. Len(w) -> DecoderType] /\ h[0] = d
    BY <1>1 DEF Course
  <1> QED BY <1>1, <1>2 DEF Follows

LEMMA HpackInit == Init => HpackInv
  <1> SUFFICES ASSUME Init PROVE HpackInv
    OBVIOUS
  <1> DEFINE h == [i \in 0 .. 0 |-> dec]
  <1>1. DynTableCap \in Nat /\ <<>> \in Seq(Fields) /\ side \in {"request", "response"}
    BY HpackAssumption DEF Init
  <1>2. dec \in DecoderType /\ enc \in EncoderType
    BY <1>1 DEF Init, DecoderType, EncoderType
  <1>3. Follows(dec, enc)
    <2>1. Prefix(enc.table, dec.table) /\ enc.max = dec.limit /\ dec.cap = enc.max /\ enc.pending = NoSignal
      BY <1>1 DEF Init, Prefix
    <2>2. enc.max <= dec.limit
      BY <1>1, <2>1 DEF Init
    <2> QED BY <1>2, <2>1, <2>2 DEF Follows
  <1>4. Course(h, dec, wire) /\ h[Len(wire)] = dec
    BY <1>2 DEF Course, Init
  <1>5. dec.limit = DynTableCap
    BY DEF Init
  <1> HIDE DEF h
  <1>6. InStep(dec, wire, enc, side = "response")
    BY <1>3, <1>4, <1>5 DEF InStep
  <1>7. settings \in Seq(Nat) /\ wire \in Seq(WireType) /\ settings = <<>> /\ same = TRUE
    BY DEF Init
  <1> QED BY <1>1, <1>6, <1>7 DEF HpackInv

\* Something is sent that the last of the decoders takes.
LEMMA SentInv ==
    ASSUME HpackInv, UNCHANGED <<side, dec, same>>, NEW m \in WireType, wire' = Append(wire, m),
           settings' \in Seq(Nat), side = "response" => settings' = <<>>,
           \A d : Follows(d, enc) /\ (side = "response" => d.limit = DynTableCap)
                  => \E d2 : /\ Taken(d, m, d2) /\ Follows(d2, enc')
                             /\ side = "response" => d2.limit = DynTableCap
    PROVE  HpackInv'
  <1>1. PICK h : /\ Course(h, dec, wire) /\ Follows(h[Len(wire)], enc)
                 /\ side = "response" => h[Len(wire)].limit = DynTableCap
    BY DEF HpackInv, InStep
  <1>2. PICK d2 : /\ Taken(h[Len(wire)], m, d2) /\ Follows(d2, enc')
                  /\ side = "response" => d2.limit = DynTableCap
    BY <1>1
  <1>3. d2 \in DecoderType /\ wire \in Seq(WireType)
    BY <1>2 DEF Follows, HpackInv
  <1>4. PICK g : Course(g, dec, wire') /\ g[Len(wire')] = d2
    BY <1>1, <1>2, <1>3, Grown
  <1>5. InStep(dec, wire', enc', side = "response")
    BY <1>2, <1>4 DEF InStep
  <1>6. wire' \in Seq(WireType)
    BY <1>3
  <1> QED BY <1>5, <1>6 DEF HpackInv

LEMMA SendRequestInv == ASSUME HpackInv, SendRequest PROVE HpackInv'
  <1>1. PICK fields \in Blocks :
          /\ enc' = EncodeBlock(enc, fields).enc
          /\ wire' = Append(wire, [kind |-> "block", reps |-> EncodeBlock(enc, fields).out, fields |-> fields])
    BY DEF SendRequest
  <1>2. fields \in Seq(Fields)
    BY <1>1 DEF Blocks
  <1> DEFINE m == [kind |-> "block", reps |-> EncodeBlock(enc, fields).out, fields |-> fields]
  <1>3. UNCHANGED <<side, dec, settings, same>> /\ side = "request"
    BY DEF SendRequest
  <1>4. enc \in EncoderType
    BY StepTypes DEF HpackInv
  <1>5. m \in WireType
    BY <1>2, <1>4, BlockMade DEF WireType
  <1>6. ASSUME NEW d, Follows(d, enc) PROVE \E d2 : Taken(d, m, d2) /\ Follows(d2, enc')
    <2> DEFINE s == DecodeBlock(d, EncodeBlock(enc, fields).out)
    <2>0. ReadsAs(d, EncodeBlock(enc, fields).out, fields, EncodeBlock(enc, fields).enc)
      BY <1>2, <1>6, BlockTaken
    <2>1. s.ok = TRUE /\ s.out = fields /\ Follows(s.dec, EncodeBlock(enc, fields).enc)
      BY <2>0 DEF ReadsAs
    <2>2. m.kind = "block" /\ m.fields = fields /\ DecodeBlock(d, m.reps) = s
      OBVIOUS
    <2> HIDE DEF s, m
    <2>3. Taken(d, m, s.dec) /\ Follows(s.dec, enc')
      BY <1>1, <2>1, <2>2 DEF Taken
    <2> QED BY <2>3
  <1>7. settings' \in Seq(Nat)
    BY <1>3 DEF HpackInv
  <1> HIDE DEF m
  <1>8. wire' = Append(wire, m)
    BY <1>1 DEF m
  <1> QED BY <1>3, <1>5, <1>6, <1>7, <1>8, SentInv

LEMMA ReadSettingsInv == ASSUME HpackInv, ReadSettings PROVE HpackInv'
  <1> DEFINE n == Head(settings)
             m == [kind |-> "ack", size |-> n]
  <1>1. settings \in Seq(Nat) /\ settings # <<>> /\ side # "response"
    BY DEF ReadSettings, HpackInv
  <1>2. n \in Nat /\ settings' \in Seq(Nat)
    BY <1>1 DEF ReadSettings
  <1>3. UNCHANGED <<side, dec, same>> /\ wire' = Append(wire, m)
    BY DEF ReadSettings
  <1>4. m \in WireType
    BY <1>2 DEF WireType
  <1>5. enc \in EncoderType
    BY StepTypes DEF HpackInv
  <1>6. enc' = IF n = enc.max THEN enc
               ELSE [table |-> EvictToFit(enc.table, n, 0), max |-> n, pending |-> <<n>>]
    BY DEF ReadSettings
  <1> HIDE DEF n
  <1>7. ASSUME NEW d, Follows(d, enc) PROVE \E d2 : Taken(d, m, d2) /\ Follows(d2, enc')
    <2> DEFINE d2 == [d EXCEPT !.limit = n]
    <2>1. d \in DecoderType /\ Prefix(enc.table, d.table)
      BY <1>7 DEF Follows
    <2>2. d2 \in DecoderType /\ d2.table = d.table /\ d2.cap = d.cap /\ d2.limit = n
      BY <1>2, <2>1 DEF DecoderType
    <2>3. Taken(d, m, d2)
      BY DEF Taken
    <2> HIDE DEF d2
    <2>4. Follows(d2, enc')
      <3>1. CASE n = enc.max
        <4>1. n <= n
          BY <1>2
        <4> QED BY <1>6, <1>7, <2>1, <2>2, <3>1, <4>1 DEF Follows
      <3>2. CASE n # enc.max
        <4> DEFINE u == EvictToFit(enc.table, n, 0)
        <4>1. enc.table \in Seq(Fields)
          BY <2>1 DEF Prefix
        <4>2. Prefix(u, d2.table) /\ Fitting(u, n, 0, Len(u))
          BY <2>1, <2>2, <4>1, EvictPrefix, EvictFits
        <4>3. u \in Seq(Fields)
          BY <4>2 DEF Prefix
        <4> HIDE DEF u
        <4>4. enc' = [table |-> u, max |-> n, pending |-> <<n>>]
          BY <1>6, <3>2 DEF u
        <4>5. enc' \in EncoderType
          BY <1>2, <4>3, <4>4 DEF EncoderType
        <4>6. n <= n /\ <<n>> # <<>>
          BY <1>2
        <4>7. enc'.table = u /\ enc'.max = n /\ enc'.pending = <<n>>
          BY <4>4
        <4> QED BY <2>2, <4>2, <4>5, <4>6, <4>7 DEF Follows, NoSignal
      <3> QED BY <3>1, <3>2
    <2> QED BY <2>3, <2>4
  <1> HIDE DEF m
  <1> QED BY <1>1, <1>2, <1>3, <1>4, <1>7, SentInv

LEMMA SendResponseInv == ASSUME HpackInv, SendResponse PROVE HpackInv'
  <1>1. PICK f \in Fields, i \in 0 .. Len(Combined(enc.table)), k \in {"indexed", "insert", "plain"} :
          /\ i = 0 => k # "indexed"
          /\ i # 0 => Combined(enc.table)[i].name = f.name
          /\ k = "indexed" => Combined(enc.table)[i] = f
          /\ wire' = Append(wire, [kind |-> "block", fields |-> <<f>>,
                  reps |-> Append(Signal(enc), IF k = "indexed" THEN [kind |-> k, index |-> i]
                                               ELSE [kind |-> k, index |-> i, field |-> f])])
          /\ enc' = [enc EXCEPT !.pending = NoSignal,
                                !.table = IF k = "insert" THEN Insert(@, enc.max, f) ELSE @]
    BY DEF SendResponse
  <1> DEFINE r == IF k = "indexed" THEN [kind |-> k, index |-> i] ELSE [kind |-> k, index |-> i, field |-> f]
             m == [kind |-> "block", fields |-> <<f>>, reps |-> Append(Signal(enc), r)]
  <1>2. UNCHANGED <<side, dec, settings, same>> /\ side = "response" /\ settings = <<>>
    BY DEF SendResponse, HpackInv
  <1>3. enc \in EncoderType
    BY StepTypes DEF HpackInv
  <1>4. Len(Combined(enc.table)) \in Nat
    BY <1>3, HpackAssumption DEF Combined, EncoderType
  <1>5. r \in RepType /\ StandsFor(r, enc.table, f) /\ r.kind = k
    <2>1. CASE k = "indexed"
      BY <1>1, <1>4, <2>1 DEF RepType, StandsFor
    <2>2. CASE k # "indexed"
      BY <1>1, <1>4, <2>2 DEF RepType, StandsFor
    <2> QED BY <2>1, <2>2
  <1>6. wire' = Append(wire, m)
    BY <1>1
  <1>7. enc' = [enc EXCEPT !.table = Sent(r, @, enc.max, f), !.pending = NoSignal]
    BY <1>1, <1>3, <1>5 DEF Sent, EncoderType
  <1> HIDE DEF r
  <1>8. PICK d0 : Follows(d0, enc)
    BY DEF HpackInv, InStep
  <1>9. m \in WireType
    <2>1. Append(Signal(enc), r) \in Seq(RepType)
      BY <1>5, <1>8, ResponseTaken
    <2>2. <<f>> \in Seq(Fields)
      OBVIOUS
    <2> QED BY <2>1, <2>2 DEF WireType
  <1>10. ASSUME NEW d, Follows(d, enc), d.limit = DynTableCap
         PROVE  \E d2 : Taken(d, m, d2) /\ Follows(d2, enc') /\ d2.limit = DynTableCap
    <2> DEFINE s == DecodeBlock(d, Append(Signal(enc), r))
    <2>0. ReadsAs(d, Append(Signal(enc), r), <<f>>, enc')
      BY <1>5, <1>7, <1>10, ResponseTaken
    <2>1. s.ok = TRUE /\ s.out = <<f>> /\ s.dec.limit = DynTableCap /\ Follows(s.dec, enc')
      BY <1>10, <2>0 DEF ReadsAs
    <2>2. m.kind = "block" /\ m.fields = <<f>> /\ DecodeBlock(d, m.reps) = s
      OBVIOUS
    <2> HIDE DEF s, m
    <2>3. Taken(d, m, s.dec) /\ Follows(s.dec, enc')
      BY <1>7, <2>1, <2>2 DEF Taken
    <2> QED BY <2>1, <2>3
  <1> HIDE DEF m
  <1>11. settings' \in Seq(Nat) /\ settings' = <<>>
    BY <1>2
  <1> QED BY <1>2, <1>6, <1>9, <1>10, <1>11, SentInv

LEMMA ResizeInv == ASSUME HpackInv, Resize PROVE HpackInv'
  <1>1. PICK n \in {m \in TableSizes : m <= DynTableCap} :
          enc' = [table |-> EvictToFit(enc.table, n, 0), max |-> n, pending |-> <<n>>]
    BY DEF Resize
  <1>2. UNCHANGED <<side, dec, settings, wire, same>> /\ side = "response"
    BY DEF Resize
  <1>3. n \in Nat /\ n <= DynTableCap /\ DynTableCap \in Nat
    BY HpackAssumption
  <1>4. PICK h : Course(h, dec, wire) /\ Follows(h[Len(wire)], enc) /\ h[Len(wire)].limit = DynTableCap
    BY <1>2 DEF HpackInv, InStep
  <1> DEFINE u == EvictToFit(enc.table, n, 0)
             d == h[Len(wire)]
  <1>5. d \in DecoderType /\ Prefix(enc.table, d.table) /\ enc.table \in Seq(Fields)
    BY <1>4 DEF Follows, Prefix
  <1>6. Prefix(u, d.table) /\ Fitting(u, n, 0, Len(u))
    BY <1>5, EvictPrefix, EvictFits
  <1> HIDE DEF u, d
  <1>7. u \in Seq(Fields) /\ <<n>> # <<>>
    BY <1>6 DEF Prefix
  <1>8. enc'.table = u /\ enc'.max = n /\ enc'.pending = <<n>> /\ enc' \in EncoderType
    BY <1>1, <1>3, <1>7 DEF u, EncoderType
  <1>9. Follows(d, enc')
    BY <1>3, <1>4, <1>5, <1>6, <1>7, <1>8 DEF Follows, NoSignal, d
  <1>10. InStep(dec, wire, enc', TRUE)
    BY <1>4, <1>9 DEF InStep, d
  <1> QED BY <1>2, <1>10 DEF HpackInv

\* What was sent is read.
LEMMA ReadInv ==
    ASSUME HpackInv, UNCHANGED <<side, enc, settings>>, wire # <<>>, wire' = Tail(wire),
           \A d : Taken(dec, Head(wire), d) => dec' = d /\ same' = TRUE
    PROVE  HpackInv'
  <1>1. PICK h : /\ Course(h, dec, wire) /\ Follows(h[Len(wire)], enc)
                 /\ side = "response" => h[Len(wire)].limit = DynTableCap
    BY DEF HpackInv, InStep
  <1>2. wire \in Seq(WireType)
    BY DEF HpackInv
  <1>3. Taken(dec, Head(wire), h[1])
    BY <1>1, <1>2, Shrunk
  <1>4. dec' = h[1] /\ same' = TRUE
    BY <1>3
  <1>5. PICK g : Course(g, h[1], Tail(wire)) /\ g[Len(Tail(wire))] = h[Len(wire)]
    BY <1>1, <1>2, Shrunk
  <1>6. InStep(dec', wire', enc, side = "response")
    BY <1>1, <1>4, <1>5 DEF InStep
  <1>7. wire' \in Seq(WireType)
    BY <1>2
  <1> QED BY <1>4, <1>6, <1>7 DEF HpackInv

LEMMA ReadBlockInv == ASSUME HpackInv, ReadBlock PROVE HpackInv'
  <1>1. UNCHANGED <<side, enc, settings>> /\ wire # <<>> /\ wire' = Tail(wire) /\ Head(wire).kind = "block"
    BY DEF ReadBlock
  <1>2. ASSUME NEW d, Taken(dec, Head(wire), d) PROVE dec' = d /\ same' = TRUE
    <2> DEFINE s == DecodeBlock(dec, Head(wire).reps)
    <2>1. s.ok = TRUE /\ s.out = Head(wire).fields /\ s.dec = d
      BY <1>1, <1>2 DEF Taken
    <2>2. dec' = s.dec /\ same' = (same /\ s.ok /\ s.out = Head(wire).fields)
      BY DEF ReadBlock
    <2> HIDE DEF s
    <2> QED BY <2>1, <2>2 DEF HpackInv
  <1> QED BY <1>1, <1>2, ReadInv

LEMMA ReadAckInv == ASSUME HpackInv, ReadAck PROVE HpackInv'
  <1>1. UNCHANGED <<side, enc, settings, same>> /\ wire # <<>> /\ wire' = Tail(wire) /\ Head(wire).kind = "ack"
    BY DEF ReadAck
  <1>2. dec' = [dec EXCEPT !.limit = Head(wire).size]
    BY DEF ReadAck
  <1>3. ASSUME NEW d, Taken(dec, Head(wire), d) PROVE dec' = d /\ same' = TRUE
    BY <1>1, <1>2, <1>3 DEF Taken, HpackInv
  <1> QED BY <1>1, <1>3, ReadInv

LEMMA SendSettingsInv == ASSUME HpackInv, SendSettings PROVE HpackInv'
  <1>1. PICK n \in TableSizes : settings' = Append(settings, n)
    BY DEF SendSettings
  <1>2. n \in Nat
    BY HpackAssumption
  <1>3. UNCHANGED <<side, enc, dec, wire, same>> /\ side = "request"
    BY DEF SendSettings
  <1>4. settings' \in Seq(Nat)
    BY <1>1, <1>2 DEF HpackInv
  <1> QED BY <1>3, <1>4 DEF HpackInv

\* Every step of HPACK keeps the invariant.
LEMMA HpackNext == HpackInv /\ [Next]_vars => HpackInv'
  <1> SUFFICES ASSUME HpackInv, [Next]_vars PROVE HpackInv'
    OBVIOUS
  <1>1. CASE SendRequest
    BY <1>1, SendRequestInv
  <1>2. CASE ReadSettings
    BY <1>2, ReadSettingsInv
  <1>3. CASE ReadBlock
    BY <1>3, ReadBlockInv
  <1>4. CASE SendSettings
    BY <1>4, SendSettingsInv
  <1>5. CASE ReadAck
    BY <1>5, ReadAckInv
  <1>6. CASE SendResponse
    BY <1>6, SendResponseInv
  <1>7. CASE Resize
    BY <1>7, ResizeInv
  <1>8. CASE UNCHANGED vars
    BY <1>8 DEF HpackInv, vars
  <1> QED BY <1>1, <1>2, <1>3, <1>4, <1>5, <1>6, <1>7, <1>8 DEF Next

\* A field list is decoded as it was encoded, whichever fields, static table, table
\* sizes and lengths of blocks there are, and wherever SETTINGS and blocks cross
\* (Encoder::encode_header, set_peer_max_table_size, Decoder::decode_block).
THEOREM HeadersKept == SpecCoding => []HeadersAsSent
  <1>1. InitCoding => HpackInv
    BY HpackInit DEF InitCoding
  <1>2. HpackInv /\ [NextCoding]_<<vars, h3vars, protocol>> => HpackInv'
    <2> SUFFICES ASSUME HpackInv, [NextCoding]_<<vars, h3vars, protocol>> PROVE HpackInv'
      OBVIOUS
    <2>1. [Next]_vars
      BY DEF NextCoding
    <2> QED BY <2>1, HpackNext
  <1>3. HpackInv => HeadersAsSent
    BY DEF HpackInv, HeadersAsSent
  <1> QED BY <1>1, <1>2, <1>3, PTL DEF SpecCoding

-----------------------------------------------------------------------------
(* The recursive functions of Http3 exist.                                 *)

\* The sizes of the first entries, of the first two, ..., of all.
LEMMA SizeRun ==
    ASSUME NEW es, Len(es) \in Nat
    PROVE  \E t : /\ t[0] = 0 /\ TableSize(es) = t[Len(es)]
                  /\ \A i \in 1 .. Len(es) : t[i] = t[i - 1] + es[i].size
  <1> DEFINE N == Len(es)
             Run(m) == \E t : t = [i \in 0 .. m |-> IF i = 0 THEN 0 ELSE t[i - 1] + es[i].size]
             S == {m \in 0 .. N : Run(m)}
  <1>1. Run(0)
    <2> DEFINE u == [i \in 0 .. 0 |-> 0]
    <2>1. u = [i \in 0 .. 0 |-> IF i = 0 THEN 0 ELSE u[i - 1] + es[i].size]
      OBVIOUS
    <2> QED BY <2>1
  <1>2. ASSUME NEW m \in 0 .. N - 1, Run(m) PROVE Run(m + 1)
    <2>1. PICK t : t = [i \in 0 .. m |-> IF i = 0 THEN 0 ELSE t[i - 1] + es[i].size]
      BY <1>2
    <2> DEFINE u == [i \in 0 .. m + 1 |-> IF i <= m THEN t[i] ELSE t[m] + es[m + 1].size]
               v == [i \in 0 .. m + 1 |-> IF i = 0 THEN 0 ELSE u[i - 1] + es[i].size]
    <2>2. ASSUME NEW i \in 0 .. m + 1 PROVE u[i] = v[i]
      <3>1. CASE i = 0
        BY <2>1, <3>1
      <3>2. CASE i # 0 /\ i <= m
        <4>1. u[i] = t[i] /\ u[i - 1] = t[i - 1] /\ i \in 0 .. m
          BY <3>2
        <4>2. t[i] = t[i - 1] + es[i].size
          BY <2>1, <4>1, <3>2
        <4> QED BY <4>1, <4>2, <3>2
      <3>3. CASE i = m + 1
        <4>1. u[i] = t[m] + es[m + 1].size /\ u[i - 1] = t[m] /\ i # 0
          BY <3>3
        <4> QED BY <4>1, <3>3
      <3> QED BY <3>1, <3>2, <3>3
    <2>3. u = v
      BY <2>2
    <2> HIDE DEF u
    <2> QED BY <2>3
  <1> HIDE DEF Run
  <1>3. 0 \in S /\ \A m \in 0 .. N - 1 : m \in S => m + 1 \in S
    BY <1>1, <1>2
  <1> HIDE DEF S
  <1>4. \A m \in 0 .. N : m \in S
    BY <1>3, UpTo
  <1>5. Run(N)
    BY <1>4 DEF S
  <1> DEFINE t == CHOOSE size : size = [n \in 0 .. Len(es) |-> IF n = 0 THEN 0 ELSE size[n - 1] + es[n].size]
  <1>6. t = [i \in 0 .. N |-> IF i = 0 THEN 0 ELSE t[i - 1] + es[i].size]
    BY <1>5 DEF Run
  <1>7. TableSize(es) = t[N]
    BY DEF TableSize
  <1> HIDE DEF t
  <1>8. t[0] = 0 /\ \A i \in 1 .. N : t[i] = t[i - 1] + es[i].size
    BY <1>6
  <1> QED BY <1>7, <1>8

\* What the field lines of a section have been decoded to, before and after every one.
LinesCourse(o, t, base, ls) ==
    /\ o[0] = {<<>>} /\ Lines(t, base, ls) = o[Len(ls)]
    /\ \A i \in 1 .. Len(ls) : o[i] = Joined(o[i - 1], Line(t, base, ls[i]))

LEMMA LinesRun ==
    ASSUME NEW t, NEW base, NEW ls, Len(ls) \in Nat
    PROVE  \E o : LinesCourse(o, t, base, ls)
  <1> DEFINE N == Len(ls)
             Run(m) == \E o : o = [i \in 0 .. m |->
                            IF i = 0 THEN {<<>>}
                            ELSE Joined(o[i - 1], Line(t, base, ls[i]))]
             S == {m \in 0 .. N : Run(m)}
  <1>1. Run(0)
    <2> DEFINE u == [i \in 0 .. 0 |-> {<<>>}]
    <2>1. u = [i \in 0 .. 0 |-> IF i = 0 THEN {<<>>}
                                ELSE Joined(u[i - 1], Line(t, base, ls[i]))]
      OBVIOUS
    <2> QED BY <2>1
  <1>2. ASSUME NEW m \in 0 .. N - 1, Run(m) PROVE Run(m + 1)
    <2>1. PICK o : o = [i \in 0 .. m |-> IF i = 0 THEN {<<>>}
                            ELSE Joined(o[i - 1], Line(t, base, ls[i]))]
      BY <1>2
    <2> DEFINE u == [i \in 0 .. m + 1 |->
                        IF i <= m THEN o[i] ELSE Joined(o[m], Line(t, base, ls[m + 1]))]
               v == [i \in 0 .. m + 1 |-> IF i = 0 THEN {<<>>}
                        ELSE Joined(u[i - 1], Line(t, base, ls[i]))]
    <2>2. ASSUME NEW i \in 0 .. m + 1 PROVE u[i] = v[i]
      <3>1. CASE i = 0
        BY <2>1, <3>1
      <3>2. CASE i # 0 /\ i <= m
        <4>1. u[i] = o[i] /\ u[i - 1] = o[i - 1] /\ i \in 0 .. m
          BY <3>2
        <4>2. o[i] = Joined(o[i - 1], Line(t, base, ls[i]))
          BY <2>1, <4>1, <3>2
        <4> QED BY <4>1, <4>2, <3>2
      <3>3. CASE i = m + 1
        <4>1. u[i] = Joined(o[m], Line(t, base, ls[m + 1])) /\ u[i - 1] = o[m] /\ i # 0
          BY <3>3
        <4> QED BY <4>1, <3>3
      <3> QED BY <3>1, <3>2, <3>3
    <2>3. u = v
      BY <2>2
    <2> HIDE DEF u
    <2> QED BY <2>3
  <1> HIDE DEF Run
  <1>3. 0 \in S /\ \A m \in 0 .. N - 1 : m \in S => m + 1 \in S
    BY <1>1, <1>2
  <1> HIDE DEF S
  <1>4. \A m \in 0 .. N : m \in S
    BY <1>3, UpTo
  <1>5. Run(N)
    BY <1>4 DEF S
  <1> DEFINE o == CHOOSE outs : outs = [i \in 0 .. Len(ls) |-> IF i = 0 THEN {<<>>}
                            ELSE Joined(outs[i - 1], Line(t, base, ls[i]))]
  <1>6. o = [i \in 0 .. N |-> IF i = 0 THEN {<<>>}
                            ELSE Joined(o[i - 1], Line(t, base, ls[i]))]
    BY <1>5 DEF Run
  <1>7. Lines(t, base, ls) = o[N]
    BY DEF Lines
  <1> HIDE DEF o
  <1>8. o[0] = {<<>>} /\ \A i \in 1 .. N : o[i] = Joined(o[i - 1], Line(t, base, ls[i]))
    <2>1. \A i \in 0 .. N : o[i] = IF i = 0 THEN {<<>>} ELSE Joined(o[i - 1], Line(t, base, ls[i]))
      BY <1>6, Zenon
    <2>2. 0 \in 0 .. N /\ \A i \in 1 .. N : i \in 0 .. N /\ i # 0
      OBVIOUS
    <2> QED BY <2>1, <2>2, Zenon
  <1>9. LinesCourse(o, t, base, ls)
    BY <1>7, <1>8, Zenon DEF LinesCourse
  <1> QED BY <1>9

\* read_response before and after every frame of its buffer.
LEMMA ConsumingRun ==
    ASSUME NEW s, NEW frames, Len(frames) \in Nat
    PROVE  /\ Consuming(s, frames)[0] = s
           /\ \A i \in 1 .. Len(frames) :
                Consuming(s, frames)[i] = ConsumeFrame(Consuming(s, frames)[i - 1], frames[i])
  <1> DEFINE N == Len(frames)
             Run(m) == \E t : t = [i \in 0 .. m |-> IF i = 0 THEN s ELSE ConsumeFrame(t[i - 1], frames[i])]
             S == {m \in 0 .. N : Run(m)}
  <1>1. Run(0)
    <2> DEFINE u == [i \in 0 .. 0 |-> s]
    <2>1. u = [i \in 0 .. 0 |-> IF i = 0 THEN s ELSE ConsumeFrame(u[i - 1], frames[i])]
      OBVIOUS
    <2> QED BY <2>1
  <1>2. ASSUME NEW m \in 0 .. N - 1, Run(m) PROVE Run(m + 1)
    <2>1. PICK t : t = [i \in 0 .. m |-> IF i = 0 THEN s ELSE ConsumeFrame(t[i - 1], frames[i])]
      BY <1>2
    <2> DEFINE u == [i \in 0 .. m + 1 |-> IF i <= m THEN t[i] ELSE ConsumeFrame(t[m], frames[m + 1])]
               v == [i \in 0 .. m + 1 |-> IF i = 0 THEN s ELSE ConsumeFrame(u[i - 1], frames[i])]
    <2>2. ASSUME NEW i \in 0 .. m + 1 PROVE u[i] = v[i]
      <3>1. CASE i = 0
        BY <2>1, <3>1
      <3>2. CASE i # 0 /\ i <= m
        <4>1. u[i] = t[i] /\ u[i - 1] = t[i - 1] /\ i \in 0 .. m
          BY <3>2
        <4>2. t[i] = ConsumeFrame(t[i - 1], frames[i])
          BY <2>1, <4>1, <3>2
        <4> QED BY <4>1, <4>2, <3>2
      <3>3. CASE i = m + 1
        <4>1. u[i] = ConsumeFrame(t[m], frames[m + 1]) /\ u[i - 1] = t[m] /\ i # 0
          BY <3>3
        <4> QED BY <4>1, <3>3
      <3> QED BY <3>1, <3>2, <3>3
    <2>3. u = v
      BY <2>2
    <2> HIDE DEF u
    <2> QED BY <2>3
  <1> HIDE DEF Run
  <1>3. 0 \in S /\ \A m \in 0 .. N - 1 : m \in S => m + 1 \in S
    BY <1>1, <1>2
  <1> HIDE DEF S
  <1>4. \A m \in 0 .. N : m \in S
    BY <1>3, UpTo
  <1>5. Run(N)
    BY <1>4 DEF S
  <1> DEFINE t == Consuming(s, frames)
  <1>6. t = [i \in 0 .. N |-> IF i = 0 THEN s ELSE ConsumeFrame(t[i - 1], frames[i])]
    BY <1>5 DEF Run, Consuming
  <1> HIDE DEF t
  <1>7. t[0] = s /\ \A i \in 1 .. N : t[i] = ConsumeFrame(t[i - 1], frames[i])
    BY <1>6
  <1> QED BY <1>7 DEF t

-----------------------------------------------------------------------------
(* The dynamic tables of QPACK.                                            *)

\* An entry: a field, or a value under the name of another one.
Entries3 == [name : {f.name : f \in Fields3}, value : {f.value : f \in Fields3}, size : {n \in Nat : n >= Overhead}]

Tables3 == [entries : Seq(Entries3), cap : Nat, inserted : Nat, dropped : Nat]

TableOK(t) ==
    /\ t \in Tables3
    /\ t.inserted = t.dropped + Len(t.entries)
    /\ t.cap <= MaxCapacity /\ TableSize(t.entries) <= t.cap

\* u is t after some instructions: what u has dropped aside, the entries of t are in u.
Grows(t, u) ==
    /\ t.dropped <= u.dropped /\ t.inserted <= u.inserted
    /\ \A abs \in u.dropped .. t.inserted - 1 : Entry(t, abs) = Entry(u, abs)

LEMMA FieldsAreEntries ==
    /\ \A f \in Fields3 : f \in Entries3
    /\ \A f \in Entries3, g \in Fields3 : Named(f, g) \in Entries3 /\ Named(f, g).size = g.size
  <1>1. ASSUME NEW f \in Fields3 PROVE f \in Entries3
    <2>1. f = [name |-> f.name, value |-> f.value, size |-> f.size] /\ f.size \in Nat /\ f.size >= Overhead
      BY Http3Assumption
    <2> QED BY <2>1 DEF Entries3
  <1>2. ASSUME NEW f \in Entries3, NEW g \in Fields3 PROVE Named(f, g) \in Entries3 /\ Named(f, g).size = g.size
    <2>1. g \in Entries3
      BY <1>1
    <2> QED BY <2>1 DEF Named, Entries3
  <1> QED BY <1>1, <1>2

\* The size of a table: at least Overhead for each entry, and one more for one more.
LEMMA SizeOfTable ==
    ASSUME NEW es \in Seq(Entries3)
    PROVE  TableSize(es) \in Nat /\ TableSize(es) >= Len(es) * Overhead
  <1>1. PICK t : /\ t[0] = 0 /\ TableSize(es) = t[Len(es)]
                 /\ \A i \in 1 .. Len(es) : t[i] = t[i - 1] + es[i].size
    BY SizeRun
  <1> DEFINE S == {i \in 0 .. Len(es) : t[i] \in Nat /\ t[i] >= i * Overhead}
  <1>o. Overhead \in Nat
    BY Http3Assumption
  <1>2. 0 \in S
    BY <1>1, <1>o
  <1>3. ASSUME NEW i \in 0 .. Len(es) - 1, i \in S PROVE i + 1 \in S
    <2>1. t[i + 1] = t[i] + es[i + 1].size
      BY <1>1
    <2>e. es[i + 1] \in Entries3
      OBVIOUS
    <2>2. es[i + 1].size \in Nat /\ es[i + 1].size >= Overhead
      BY <2>e DEF Entries3
    <2>3. t[i] \in Nat /\ t[i] >= i * Overhead
      BY <1>3
    <2>4. (i + 1) * Overhead = i * Overhead + Overhead /\ i * Overhead \in Nat
      BY <1>o
    <2>5. t[i + 1] \in Nat /\ t[i + 1] >= (i + 1) * Overhead
      BY <2>1, <2>2, <2>3, <2>4, <1>o
    <2> QED BY <2>5
  <1>4. \A i \in 0 .. Len(es) : i \in S
    <2> HIDE DEF S
    <2> QED BY <1>2, <1>3, UpTo
  <1> QED BY <1>1, <1>4

LEMMA SizeEmpty == TableSize(<<>>) = 0
  BY SizeRun

LEMMA SizeAppend ==
    ASSUME NEW es \in Seq(Entries3), NEW f \in Entries3
    PROVE  TableSize(Append(es, f)) = TableSize(es) + f.size
  <1> DEFINE fs == Append(es, f)
  <1>0. fs \in Seq(Entries3) /\ Len(fs) = Len(es) + 1 /\ Len(es) \in Nat
    OBVIOUS
  <1>1. PICK t : /\ t[0] = 0 /\ TableSize(es) = t[Len(es)]
                 /\ \A i \in 1 .. Len(es) : t[i] = t[i - 1] + es[i].size
    BY SizeRun
  <1>9. Len(fs) \in Nat
    BY <1>0
  <1> HIDE DEF fs
  <1>2. PICK u : /\ u[0] = 0 /\ TableSize(fs) = u[Len(fs)]
                 /\ \A i \in 1 .. Len(fs) : u[i] = u[i - 1] + fs[i].size
    BY <1>9, SizeRun
  <1> DEFINE S == {i \in 0 .. Len(es) : u[i] = t[i]}
  <1>3. 0 \in S
    BY <1>1, <1>2
  <1>4. ASSUME NEW i \in 0 .. Len(es) - 1, i \in S PROVE i + 1 \in S
    <2>1. t[i + 1] = t[i] + es[i + 1].size
      BY <1>1
    <2>2. u[i + 1] = u[i] + fs[i + 1].size
      BY <1>0, <1>2
    <2>3. fs[i + 1] = es[i + 1] /\ u[i] = t[i]
      BY <1>4 DEF fs
    <2> QED BY <2>1, <2>2, <2>3
  <1>5. \A i \in 0 .. Len(es) : i \in S
    <2> HIDE DEF S
    <2> QED BY <1>3, <1>4, UpTo
  <1>6. u[Len(es) + 1] = u[Len(es)] + fs[Len(es) + 1].size
    BY <1>0, <1>2
  <1>7. fs[Len(es) + 1] = f /\ u[Len(es)] = t[Len(es)]
    BY <1>5 DEF fs
  <1> QED BY <1>0, <1>1, <1>2, <1>6, <1>7 DEF fs

\* So a table has at most MaxEntries.
LEMMA FewEntries == ASSUME NEW t, TableOK(t) PROVE Len(t.entries) <= MaxEntries /\ MaxEntries \in Nat
  <1> DEFINE n == Len(t.entries)
             q == MaxCapacity \div Overhead
  <1>1. Overhead \in Nat /\ Overhead > 0 /\ MaxCapacity \in Nat /\ n \in Nat
    BY Http3Assumption DEF TableOK, Tables3
  <1>2. n * Overhead <= MaxCapacity
    <2>1. TableSize(t.entries) \in Nat /\ TableSize(t.entries) >= n * Overhead
      BY SizeOfTable DEF TableOK, Tables3
    <2>2. t.cap \in Nat /\ t.cap <= MaxCapacity /\ TableSize(t.entries) <= t.cap /\ n * Overhead \in Int
      BY <1>1 DEF TableOK, Tables3
    <2> HIDE DEF n
    <2> QED BY <2>1, <2>2, <1>1
  <1> HIDE DEF n
  <1>3. q \in Nat /\ q * Overhead <= MaxCapacity /\ MaxCapacity < (q + 1) * Overhead
    BY <1>1
  <1> HIDE DEF q
  <1>4. n <= q
    <2> SUFFICES ASSUME n >= q + 1 PROVE FALSE
      BY <1>1, <1>3
    <2>1. n * Overhead >= (q + 1) * Overhead
      BY <1>1, <1>3
    <2> QED BY <1>1, <1>2, <1>3, <2>1
  <1> QED BY <1>3, <1>4 DEF n, q, MaxEntries

\* Nothing has been dropped that is still counted, and the rest is there.
LEMMA EntryFound ==
    ASSUME NEW t, TableOK(t), NEW abs \in t.dropped .. t.inserted - 1
    PROVE  Live(t, abs) /\ Entry(t, abs) \in Entries3 /\ Absolute(t, abs) = {Entry(t, abs)}
  BY DEF TableOK, Tables3, Live, Entry, Absolute

LEMMA GrowsOn ==
    ASSUME NEW t, NEW u, NEW v, TableOK(t), TableOK(u), TableOK(v), Grows(t, u), Grows(u, v)
    PROVE  Grows(t, v)
  <1>1. /\ t.dropped \in Nat /\ t.inserted \in Nat /\ u.dropped \in Nat /\ u.inserted \in Nat
        /\ v.dropped \in Nat /\ v.inserted \in Nat
    BY DEF TableOK, Tables3
  <1> QED BY <1>1 DEF Grows

\* What eviction leaves.
LEMMA Evicted ==
    ASSUME NEW t, TableOK(t), NEW cap \in Nat, NEW incoming \in Nat, cap <= MaxCapacity
    PROVE  LET e == Evict(t, cap, incoming)
           IN  /\ e \in Tables3 /\ e.cap = cap /\ e.inserted = t.inserted
               /\ e.inserted = e.dropped + Len(e.entries)
               /\ TableSize(e.entries) \in Nat
               /\ TableSize(e.entries) = 0 \/ TableSize(e.entries) + incoming <= cap
               /\ Grows(t, e)
  <1> DEFINE es == t.entries
             Enough(k) == k = Len(es) \/ TableSize(SubSeq(es, k + 1, Len(es))) + incoming <= cap
             S == {k \in 0 .. Len(es) : Enough(k)}
             n == Min(S)
             e == Evict(t, cap, incoming)
             left == SubSeq(es, n + 1, Len(es))
  <1>1. t \in Tables3 /\ es \in Seq(Entries3) /\ Len(es) \in Nat /\ t.inserted = t.dropped + Len(es)
        /\ t.dropped \in Nat /\ t.inserted \in Nat
    BY DEF TableOK, Tables3
  <1>2. S \subseteq Nat /\ Len(es) \in S
    BY <1>1
  <1>3. PICK x \in S : \A y \in S : x <= y
    BY <1>2, Least
  <1>4. n \in S
    BY <1>3 DEF Min
  <1>5. n \in 0 .. Len(es) /\ Enough(n)
    BY <1>4
  <1>6. e = [t EXCEPT !.entries = SubSeq(@, n + 1, Len(@)), !.dropped = @ + n, !.cap = cap]
    BY DEF Evict
  <1> HIDE DEF n, S, e, es
  <1>7. e = [t EXCEPT !.entries = left, !.dropped = t.dropped + n, !.cap = cap]
    BY <1>6 DEF es
  <1>8. left \in Seq(Entries3) /\ Len(left) = Len(es) - n
        /\ \A i \in 1 .. Len(left) : left[i] = es[i + n]
    BY <1>1, <1>5
  <1>9. TableSize(left) \in Nat /\ (TableSize(left) = 0 \/ TableSize(left) + incoming <= cap)
    <2>1. TableSize(left) \in Nat
      BY <1>8, SizeOfTable
    <2>2. CASE n = Len(es)
      <3> HIDE DEF left
      <3>1. left = <<>>
        BY <1>8, <2>2, <1>1, EmptySeq
      <3> QED BY <3>1, <2>1, SizeEmpty
    <2>3. CASE n # Len(es)
      BY <1>5, <2>1, <2>3
    <2> QED BY <2>2, <2>3
  <1> HIDE DEF left, Enough
  <1>10. /\ e.entries = left /\ e.dropped = t.dropped + n /\ e.cap = cap /\ e.inserted = t.inserted
         /\ e \in Tables3
    <2>1. t.dropped + n \in Nat
      BY <1>1, <1>5
    <2> QED BY <1>7, <1>8, <1>1, <2>1 DEF Tables3
  <1>11. e.inserted = e.dropped + Len(e.entries)
    BY <1>10, <1>8, <1>1, <1>5
  <1>12. Grows(t, e)
    <2>1. ASSUME NEW abs \in e.dropped .. t.inserted - 1 PROVE Entry(t, abs) = Entry(e, abs)
      <3>0. /\ e.dropped = t.dropped + n /\ abs \in Int /\ abs >= e.dropped /\ abs <= t.inserted - 1
            /\ Len(left) = Len(es) - n /\ t.inserted = t.dropped + Len(es)
            /\ t.dropped \in Nat /\ Len(es) \in Nat /\ n \in Nat /\ e.dropped \in Nat
        BY <1>10, <1>8, <1>1, <1>5
      <3>1. abs - e.dropped + 1 \in 1 .. Len(left) /\ (abs - e.dropped + 1) + n = abs - t.dropped + 1
        <4>1. abs \in Int
          BY <3>0
        <4>2. t.dropped \in Nat /\ n \in Nat /\ e.dropped \in Nat /\ Len(es) \in Nat
          BY <3>0
        <4>3. e.dropped = t.dropped + n
          BY <3>0
        <4>4. Len(left) = Len(es) - n
          BY <3>0
        <4>5. abs >= e.dropped /\ abs <= t.inserted - 1
          BY <3>0
        <4>6. t.inserted = t.dropped + Len(es)
          BY <3>0
        <4>7. abs - e.dropped + 1 \in Int
          BY <4>1, <4>2
        <4>8. abs - e.dropped + 1 >= 1
          BY <4>1, <4>2, <4>5
        <4>9. abs - e.dropped + 1 <= Len(left)
          BY <4>1, <4>2, <4>5, <4>6, <4>3, <4>4
        <4>10. (abs - e.dropped + 1) + n = abs - t.dropped + 1
          BY <4>1, <4>2, <4>3
        <4> QED BY <4>7, <4>8, <4>9, <4>10, <4>2, <4>4
      <3>2. Entry(e, abs) = left[abs - e.dropped + 1] /\ Entry(t, abs) = es[abs - t.dropped + 1]
        BY <1>10 DEF Entry, es
      <3> QED BY <3>1, <3>2, <1>8
    <2> QED BY <2>1, <1>10, <1>1, <1>5 DEF Grows
  <1> QED BY <1>9, <1>10, <1>11, <1>12 DEF e

\* One insertion more.
LEMMA Inserted ==
    ASSUME NEW t, TableOK(t), NEW f \in Entries3, NEW u \in InsertEntry(t, f)
    PROVE  InsertEntry(t, f) = {u} /\ TableOK(u) /\ Grows(t, u) /\ u.inserted = t.inserted + 1
  <1> DEFINE e == Evict(t, t.cap, f.size)
             v == [e EXCEPT !.entries = Append(@, f), !.inserted = @ + 1]
  <1>1. t.cap \in Nat /\ f.size \in Nat /\ t.cap <= MaxCapacity /\ t.inserted \in Nat /\ t.dropped \in Nat
    BY DEF TableOK, Tables3, Entries3
  <1>2. ~(f.size > t.cap) /\ InsertEntry(t, f) = {v}
    BY DEF InsertEntry
  <1>3. u = v
    BY <1>2
  <1>4. /\ e \in Tables3 /\ e.cap = t.cap /\ e.inserted = t.inserted
        /\ e.inserted = e.dropped + Len(e.entries)
        /\ TableSize(e.entries) \in Nat
        /\ TableSize(e.entries) = 0 \/ TableSize(e.entries) + f.size <= t.cap
        /\ Grows(t, e)
    BY <1>1, Evicted
  <1> HIDE DEF e
  <1>5. e.entries \in Seq(Entries3) /\ e.cap \in Nat /\ e.inserted \in Nat /\ e.dropped \in Nat
    BY <1>4 DEF Tables3
  <1>a. Append(e.entries, f) \in Seq(Entries3) /\ e.inserted + 1 \in Nat
    BY <1>5
  <1>b. u = [e EXCEPT !.entries = Append(e.entries, f), !.inserted = e.inserted + 1]
    BY <1>3
  <1>6. /\ u.entries = Append(e.entries, f) /\ u.inserted = e.inserted + 1 /\ u.dropped = e.dropped
        /\ u.cap = e.cap /\ u \in Tables3
    BY <1>a, <1>b, <1>4 DEF Tables3
  <1>7. Len(u.entries) = Len(e.entries) + 1 /\ Len(e.entries) \in Nat
        /\ \A i \in 1 .. Len(e.entries) : u.entries[i] = e.entries[i]
    BY <1>5, <1>6
  <1>8. TableSize(u.entries) = TableSize(e.entries) + f.size
    BY <1>5, <1>6, SizeAppend
  <1>9. TableOK(u)
    BY <1>1, <1>2, <1>4, <1>5, <1>6, <1>7, <1>8 DEF TableOK
  <1>10. Grows(t, u)
    <2>1. ASSUME NEW abs \in u.dropped .. t.inserted - 1 PROVE Entry(t, abs) = Entry(u, abs)
      <3>1. Entry(t, abs) = Entry(e, abs)
        BY <1>4, <1>6 DEF Grows
      <3>2. abs - e.dropped + 1 \in 1 .. Len(e.entries)
        BY <1>1, <1>4, <1>5, <1>6, <1>7
      <3>3. Entry(e, abs) = Entry(u, abs)
        BY <3>2, <1>6, <1>7 DEF Entry
      <3> QED BY <3>1, <3>3
    <2>2. t.dropped <= u.dropped /\ t.inserted <= u.inserted
      BY <1>1, <1>4, <1>5, <1>6 DEF Grows
    <2> QED BY <2>1, <2>2 DEF Grows
  <1> QED BY <1>2, <1>3, <1>4, <1>6, <1>9, <1>10

\* An instruction of the encoder stream.
InstructionType ==
    [kind : {"capacity"}, cap : Nat] \cup [kind : {"literal"}, field : Fields3]
    \cup [kind : {"static"}, index : DOMAIN Static3, field : Fields3]
    \cup [kind : {"named"}, index : Nat, field : Fields3]
    \cup [kind : {"duplicate"}, index : Nat]

\* It has one outcome at most, and that table has what the old one had.
LEMMA Applied ==
    ASSUME NEW t, TableOK(t), NEW i \in InstructionType, NEW u \in Apply(t, i)
    PROVE  /\ Apply(t, i) = {u} /\ TableOK(u) /\ Grows(t, u)
           /\ u.inserted = IF i.kind = "capacity" THEN t.inserted ELSE t.inserted + 1
  <1> DEFINE Good(v) == TableOK(v) /\ Grows(t, v) /\ v.inserted = t.inserted + 1
  <1>0. /\ t.inserted \in Nat /\ t.dropped \in Nat
        /\ i.kind \in {"capacity", "literal", "static", "named", "duplicate"}
    BY DEF TableOK, Tables3, InstructionType
  <1>1. CASE i.kind = "capacity"
    <2>1. Apply(t, i) = SetCapacity(t, i.cap)
      BY <1>1 DEF Apply
    <2>2. i.cap \in Nat
      BY <1>1 DEF InstructionType
    <2>3. i.cap <= MaxCapacity /\ SetCapacity(t, i.cap) = {Evict(t, i.cap, 0)}
      BY <2>1, <2>2, Http3Assumption DEF SetCapacity
    <2>4. u = Evict(t, i.cap, 0)
      BY <2>1, <2>3
    <2>5. /\ u \in Tables3 /\ u.cap = i.cap /\ u.inserted = t.inserted
          /\ u.inserted = u.dropped + Len(u.entries)
          /\ TableSize(u.entries) \in Nat
          /\ TableSize(u.entries) = 0 \/ TableSize(u.entries) + 0 <= i.cap
          /\ Grows(t, u)
      BY <2>2, <2>3, <2>4, Evicted
    <2>6. TableOK(u)
      BY <2>2, <2>3, <2>5 DEF TableOK
    <2> QED BY <1>1, <2>1, <2>3, <2>4, <2>5, <2>6
  <1>2. CASE i.kind = "literal"
    <2>1. Apply(t, i) = InsertEntry(t, i.field) /\ i.field \in Fields3
      BY <1>2 DEF Apply, InstructionType
    <2> QED BY <1>2, <2>1, Inserted, FieldsAreEntries
  <1>3. CASE i.kind = "static"
    <2>1. Apply(t, i) = InsertEntry(t, Named(Static3[i.index], i.field))
      BY <1>3 DEF Apply
    <2>2. i.field \in Fields3 /\ Static3[i.index] \in Fields3
      BY <1>3, Http3Assumption DEF InstructionType
    <2>3. Named(Static3[i.index], i.field) \in Entries3
      BY <2>2, FieldsAreEntries
    <2> QED BY <1>3, <2>1, <2>3, Inserted
  <1>b. ASSUME i.index \in Nat
        PROVE  Back(t, t.inserted, i.index) = {} \/ \E e \in Entries3 : Back(t, t.inserted, i.index) = {e}
    <2> DEFINE abs == t.inserted - 1 - i.index
    <2>1. CASE ~(t.inserted < i.index + 1) /\ Live(t, abs)
      <3>1. abs \in t.dropped .. t.inserted - 1
        BY <1>0, <1>b, <2>1 DEF Live
      <3>2. Absolute(t, abs) = {Entry(t, abs)} /\ Entry(t, abs) \in Entries3
        BY <3>1, EntryFound
      <3> QED BY <2>1, <3>2 DEF Back
    <2> QED BY <2>1 DEF Back, Absolute
  <1>4. CASE i.kind = "named"
    <2>1. Apply(t, i) = UNION {InsertEntry(t, Named(f, i.field)) : f \in Back(t, t.inserted, i.index)}
      BY <1>4 DEF Apply
    <2>2. i.field \in Fields3 /\ i.index \in Nat
      BY <1>4 DEF InstructionType
    <2>3. PICK e \in Entries3 : Back(t, t.inserted, i.index) = {e}
      BY <1>b, <2>1, <2>2
    <2>4. Apply(t, i) = InsertEntry(t, Named(e, i.field))
      BY <2>1, <2>3
    <2>5. Named(e, i.field) \in Entries3
      BY <2>2, FieldsAreEntries
    <2> QED BY <1>4, <2>4, <2>5, Inserted
  <1>5. CASE i.kind = "duplicate"
    <2>1. Apply(t, i) = UNION {InsertEntry(t, f) : f \in Back(t, t.inserted, i.index)}
      BY <1>5 DEF Apply
    <2>2. i.index \in Nat
      BY <1>5 DEF InstructionType
    <2>3. PICK e \in Entries3 : Back(t, t.inserted, i.index) = {e}
      BY <1>b, <2>1, <2>2
    <2>4. Apply(t, i) = InsertEntry(t, e)
      BY <2>1, <2>3
    <2> QED BY <1>5, <2>4, Inserted
  <1> QED BY <1>0, <1>1, <1>2, <1>3, <1>4, <1>5

-----------------------------------------------------------------------------
(* Field sections of QPACK.                                                *)

\* The count is told apart from all others that the table could stand at.
LEMMA Unwrapped ==
    ASSUME NEW full \in Nat, full > 0, NEW most \in Nat, NEW need \in Nat, need > 0,
           most < need + full, need <= most
    PROVE  LET ric == (most \div full) * full + ((need % full) + 1) - 1
           IN  ric = need \/ (ric = need + full /\ ric > most)
  <1> DEFINE q == most \div full
             a == most % full
             p == need \div full
             b == need % full
  <1>1. /\ q \in Nat /\ a \in Nat /\ a < full /\ most = q * full + a
        /\ p \in Nat /\ b \in Nat /\ b < full /\ need = p * full + b
    <2>1. q \in Nat /\ a \in Nat /\ a < full /\ p \in Nat /\ b \in Nat /\ b < full
      OBVIOUS
    <2>2. most = full * q + a /\ need = full * p + b
      OBVIOUS
    <2> QED BY <2>1, <2>2
  <1> HIDE DEF q, a, p, b
  <1>2. p <= q
    <2> SUFFICES ASSUME p >= q + 1 PROVE FALSE
      BY <1>1
    <2>1. p * full >= (q + 1) * full
      BY <1>1
    <2>2. (q + 1) * full = q * full + full /\ q * full \in Nat /\ p * full \in Nat
      BY <1>1
    <2> QED BY <1>1, <2>1, <2>2
  <1>3. q <= p + 1
    <2> SUFFICES ASSUME q >= p + 2 PROVE FALSE
      BY <1>1
    <2>1. q * full >= (p + 2) * full
      BY <1>1
    <2>2. (p + 2) * full = p * full + full + full /\ q * full \in Nat /\ p * full \in Nat
      BY <1>1
    <2> QED BY <1>1, <2>1, <2>2
  <1>4. CASE q = p
    <2>1. q * full \in Nat /\ q * full = p * full
      BY <1>1, <1>4
    <2>2. q * full + (b + 1) - 1 = need
      BY <1>1, <2>1
    <2> QED BY <2>2 DEF q, b
  <1>5. CASE q = p + 1
    <2>1. q * full = p * full + full /\ p * full \in Nat
      BY <1>1, <1>5
    <2>2. q * full + (b + 1) - 1 = need + full
      BY <1>1, <2>1
    <2> QED BY <2>2 DEF q, b
  <1> QED BY <1>1, <1>2, <1>3, <1>4, <1>5

LEMMA CountRead ==
    ASSUME NEW inserted \in Nat, NEW need \in Nat, MaxEntries \in Nat, MaxEntries > 0, need > 0,
           inserted < need + MaxEntries, need <= inserted + MaxEntries
    PROVE  RequiredInsertCount((need % (2 * MaxEntries)) + 1, inserted) = {need}
  <1> DEFINE full == 2 * MaxEntries
             most == inserted + MaxEntries
             encoded == (need % full) + 1
             ric == (most \div full) * full + encoded - 1
  <1>1. full \in Nat /\ full > 0 /\ most \in Nat /\ most < need + full /\ need <= most
    OBVIOUS
  <1>2. encoded \in Nat /\ encoded # 0 /\ encoded <= full
    BY <1>1
  <1>3. ric = need \/ (ric = need + full /\ ric > most)
    <2> HIDE DEF full, most
    <2> QED BY <1>1, Unwrapped
  <1>4. RequiredInsertCount(encoded, inserted) =
            IF ric > most /\ ric <= full THEN {} ELSE {IF ric > most THEN ric - full ELSE ric} \ {0}
    <2>1. ~(encoded > full) /\ encoded # 0
      BY <1>2, <1>1
    <2>2. RequiredInsertCount(encoded, inserted) =
            IF encoded = 0 THEN {0}
            ELSE IF encoded > full \/ (ric > most /\ ric <= full) THEN {}
            ELSE {IF ric > most THEN ric - full ELSE ric} \ {0}
      BY Zenon DEF RequiredInsertCount
    <2> HIDE DEF ric, encoded, full, most
    <2> QED BY <2>1, <2>2, Zenon
  <1> HIDE DEF ric, full, most
  <1>5. CASE ric = need
    <2>1. ~(ric > most)
      BY <1>1, <1>5
    <2> QED BY <1>4, <1>5, <2>1 DEF full
  <1>6. CASE ric = need + full /\ ric > most
    <2>1. ~(ric <= full) /\ ric - full = need
      BY <1>1, <1>6
    <2> QED BY <1>4, <1>6, <2>1 DEF full
  <1> QED BY <1>3, <1>5, <1>6

\* If every field line stands for one field, the section stands for these fields.
Stands(t, base, ls, x) == Len(ls) = Len(x) /\ \A i \in 1 .. Len(x) : Line(t, base, ls[i]) = {x[i]}

LEMMA LinesRead ==
    ASSUME NEW t, NEW base, NEW E, NEW x \in Seq(E), NEW ls, Stands(t, base, ls, x)
    PROVE  Lines(t, base, ls) = {x}
  <1>0. Len(ls) = Len(x) /\ Len(ls) \in Nat /\ Len(x) \in Nat
    BY DEF Stands
  <1>1. PICK o : LinesCourse(o, t, base, ls)
    BY <1>0, LinesRun
  <1> DEFINE S == {i \in 0 .. Len(x) : o[i] = {SubSeq(x, 1, i)}}
  <1>2. 0 \in S
    <2>1. SubSeq(x, 1, 0) = <<>>
      OBVIOUS
    <2>2. 0 \in 0 .. Len(x)
      BY <1>0
    <2> QED BY <1>1, <2>1, <2>2, Zenon DEF LinesCourse
  <1>3. ASSUME NEW i \in 0 .. Len(x) - 1, i \in S PROVE i + 1 \in S
    <2>1. o[i + 1] = Joined(o[(i + 1) - 1], Line(t, base, ls[i + 1]))
      BY <1>0, <1>1, i + 1 \in 1 .. Len(ls) DEF LinesCourse
    <2>a. (i + 1) - 1 = i /\ i + 1 \in 1 .. Len(x)
      BY <1>0
    <2>b. o[i] = {SubSeq(x, 1, i)}
      BY <1>3, Zenon
    <2>2. (i + 1) - 1 = i /\ o[i] = {SubSeq(x, 1, i)} /\ Line(t, base, ls[i + 1]) = {x[i + 1]}
      BY <2>a, <2>b, Zenon DEF Stands
    <2>3. o[i + 1] = Joined({SubSeq(x, 1, i)}, {x[i + 1]})
      BY <2>1, <2>2
    <2>4. Append(SubSeq(x, 1, i), x[i + 1]) = SubSeq(x, 1, i + 1)
      OBVIOUS
    <2>5. Joined({SubSeq(x, 1, i)}, {x[i + 1]}) = {Append(SubSeq(x, 1, i), x[i + 1])}
      <3> DEFINE a == SubSeq(x, 1, i)
                 b == x[i + 1]
      <3> HIDE DEF a, b
      <3>1. {a} \X {b} = {<<a, b>>}
        BY SMT
      <3>2. {Append(y[1], y[2]) : y \in {<<a, b>>}} = {Append(a, b)}
        BY SMT
      <3>3. Joined({a}, {b}) = {Append(a, b)}
        BY <3>1, <3>2 DEF Joined
      <3> QED BY <3>3 DEF a, b
    <2>6. o[i + 1] = {SubSeq(x, 1, i + 1)}
      BY <2>3, <2>4, <2>5
    <2> QED BY <2>6
  <1>4. \A i \in 0 .. Len(x) : i \in S
    <2> HIDE DEF S
    <2> QED BY <1>2, <1>3, UpTo
  <1>5. o[Len(x)] = {SubSeq(x, 1, Len(x))} /\ SubSeq(x, 1, Len(x)) = x
    BY <1>0, <1>4
  <1> QED BY <1>0, <1>1, <1>5, Zenon DEF LinesCourse

\* A field line of the request's encoder stands for its field.
LEMMA FieldEncoded ==
    ASSUME NEW t, NEW base, NEW f \in Fields3
    PROVE  Line(t, base, EncodeField(f)) = {f}
  <1> DEFINE A == {i \in 1 .. Len(Static3) : Static3[i].name = f.name /\ Static3[i].value = f.value}
             B == {i \in 1 .. Len(Static3) : Static3[i].name = f.name}
             full == SelectInSeq(Static3, LAMBDA g : g.name = f.name /\ g.value = f.value)
             name == SelectInSeq(Static3, LAMBDA g : g.name = f.name)
  <1>1. full = (IF A # {} THEN Min(A) ELSE 0) /\ name = IF B # {} THEN Min(B) ELSE 0
    BY DEF SelectInSeq
  <1>2. EncodeField(f) = IF full # 0 THEN [kind |-> "static", index |-> full]
                         ELSE IF name # 0 THEN [kind |-> "static name", index |-> name, field |-> f]
                         ELSE [kind |-> "literal", field |-> f]
    BY DEF EncodeField
  <1> HIDE DEF full, name
  <1>3. CASE full # 0
    <2>1. A # {} /\ A \subseteq Nat
      BY <1>1, <1>3
    <2>2. PICK x \in A : \A y \in A : x <= y
      BY <2>1, Least
    <2>3. full \in A
      BY <1>1, <2>1, <2>2 DEF Min
    <2>4. Static3[full] \in Fields3 /\ Static3[full].name = f.name /\ Static3[full].value = f.value
      BY <2>3, Http3Assumption
    <2>5. Static3[full] = f
      BY <2>4, Http3Assumption
    <2> QED BY <1>2, <1>3, <2>5 DEF Line
  <1>4. CASE full = 0 /\ name # 0
    <2>1. B # {} /\ B \subseteq Nat
      BY <1>1, <1>4
    <2>2. PICK x \in B : \A y \in B : x <= y
      BY <2>1, Least
    <2>3. name \in B
      BY <1>1, <2>1, <2>2 DEF Min
    <2>4. Static3[name].name = f.name
      BY <2>3
    <2>5. f = [name |-> f.name, value |-> f.value, size |-> f.size]
      BY Http3Assumption
    <2>6. Named(Static3[name], f) = f
      BY <2>4, <2>5 DEF Named
    <2>7. EncodeField(f) = [kind |-> "static name", index |-> name, field |-> f]
      BY <1>2, <1>4
    <2>8. Line(t, base, EncodeField(f)) = {Named(Static3[name], f)}
      <3> DEFINE l == EncodeField(f)
      <3>1. l.kind = "static name" /\ l.index = name /\ l.field = f
        <4>1. l = [kind |-> "static name", index |-> name, field |-> f]
          BY <2>7
        <4> HIDE DEF l
        <4> QED BY <4>1
      <3> HIDE DEF l
      <3>2. Line(t, base, l) = {Named(Static3[l.index], l.field)}
        BY <3>1 DEF Line
      <3> QED BY <3>1, <3>2 DEF l
    <2> QED BY <2>6, <2>8
  <1>5. CASE full = 0 /\ name = 0
    BY <1>2, <1>5 DEF Line
  <1> QED BY <1>3, <1>4, <1>5

\* So a section of its lines is read as it was written, by any table.
LEMMA StaticRead ==
    ASSUME NEW t, t.inserted \in Nat, NEW x \in Seq(Fields3), NEW ls, Len(ls) = Len(x),
           \A i \in 1 .. Len(x) : ls[i] = EncodeField(x[i])
    PROVE  DecodeSection(t, [ric |-> 0, sign |-> FALSE, delta |-> 0, lines |-> ls]) = {x}
  <1> DEFINE section == [ric |-> 0, sign |-> FALSE, delta |-> 0, lines |-> ls]
  <1>1. RequiredInsertCount(0, t.inserted) = {0}
    BY DEF RequiredInsertCount
  <1>2. Base(section, 0) = {0}
    BY DEF Base
  <1>3. ASSUME NEW i \in 1 .. Len(x) PROVE Line(t, 0, ls[i]) = {x[i]}
    BY FieldEncoded
  <1>a. \A i \in 1 .. Len(x) : Line(t, 0, ls[i]) = {x[i]}
    BY <1>3
  <1>4. Lines(t, 0, ls) = {x}
    <2>1. Stands(t, 0, ls, x)
      BY <1>a DEF Stands
    <2> QED BY <2>1, LinesRead
  <1>5. {r \in RequiredInsertCount(section.ric, t.inserted) : r <= t.inserted} = {0}
    BY <1>1
  <1>6. UNION {Base(section, ric) : ric \in {0}} = {0}
    BY <1>2
  <1>7. DecodeSection(t, section) = UNION {Lines(t, base, section.lines) : base \in {0}}
    BY <1>5, <1>6, Zenon DEF DecodeSection
  <1> QED BY <1>4, <1>7

\* A section that refers to the entry of an insert, counted from some Base.
Referring(need, base) ==
    [ric |-> (need % (2 * MaxEntries)) + 1, sign |-> base < need,
     delta |-> IF base < need THEN need - base - 1 ELSE base - need,
     lines |-> <<IF need - 1 < base THEN [kind |-> "dynamic", index |-> base - 1 - (need - 1)]
                 ELSE [kind |-> "postbase", index |-> (need - 1) - base]>>]

LEMMA DynamicRead ==
    ASSUME NEW t, TableOK(t), NEW need \in Nat, need > 0, NEW base \in Nat,
           t.inserted < need + MaxEntries, need <= t.inserted + MaxEntries, MaxEntries > 0, t.dropped < need
    PROVE  DecodeSection(t, Referring(need, base)) =
                IF need <= t.inserted THEN {<<Entry(t, need - 1)>>} ELSE {}
  <1> DEFINE section == Referring(need, base)
             line == section.lines[1]
  <1>0. MaxEntries \in Nat /\ t.inserted \in Nat /\ t.dropped \in Nat
    BY FewEntries DEF TableOK, Tables3
  <1>1. RequiredInsertCount(section.ric, t.inserted) = {need}
    BY <1>0, CountRead DEF Referring
  <1>2. CASE ~(need <= t.inserted)
    <2>1. {r \in RequiredInsertCount(section.ric, t.inserted) : r <= t.inserted} = {}
      BY <1>1, <1>2
    <2>2. DecodeSection(t, section) = UNION {Lines(t, b, section.lines) : b \in {}}
      <3>1. UNION {Base(section, ric) : ric \in {}} = {}
        OBVIOUS
      <3> QED BY <2>1, <3>1, Zenon DEF DecodeSection
    <2> QED BY <1>2, <2>2
  <1>3. CASE need <= t.inserted
    <2>1. {r \in RequiredInsertCount(section.ric, t.inserted) : r <= t.inserted} = {need}
      BY <1>1, <1>3
    <2>2. Base(section, need) = {base}
      <3>1. CASE base < need
        <4>1. section.sign /\ section.delta = need - base - 1
          BY <3>1 DEF Referring
        <4>2. ~(need < section.delta + 1) /\ need - section.delta - 1 = base
          BY <4>1, <3>1
        <4> QED BY <4>1, <4>2 DEF Base
      <3>2. CASE ~(base < need)
        <4>1. ~section.sign /\ section.delta = base - need
          BY <3>2 DEF Referring
        <4>2. need + section.delta = base
          BY <4>1, <3>2
        <4> QED BY <4>1, <4>2 DEF Base
      <3> QED BY <3>1, <3>2
    <2>3. DecodeSection(t, section) = Lines(t, base, section.lines)
      <3>1. UNION {Base(section, ric) : ric \in {need}} = {base}
        BY <2>2
      <3>2. DecodeSection(t, section) = UNION {Lines(t, b, section.lines) : b \in {base}}
        BY <2>1, <3>1, Zenon DEF DecodeSection
      <3> QED BY <3>2
    <2>4. Absolute(t, need - 1) = {Entry(t, need - 1)} /\ Entry(t, need - 1) \in Entries3
      BY <1>0, <1>3, EntryFound
    <2>5. Line(t, base, line) = {Entry(t, need - 1)}
      <3>1. CASE need - 1 < base
        <4>1. line = [kind |-> "dynamic", index |-> base - 1 - (need - 1)]
          BY <3>1 DEF Referring
        <4>2. Line(t, base, line) = Back(t, base, base - 1 - (need - 1))
          BY <4>1 DEF Line
        <4>3. ~(base < (base - 1 - (need - 1)) + 1) /\ base - 1 - (base - 1 - (need - 1)) = need - 1
          BY <3>1
        <4> QED BY <2>4, <4>2, <4>3 DEF Back
      <3>2. CASE ~(need - 1 < base)
        <4>1. line = [kind |-> "postbase", index |-> (need - 1) - base]
          BY <3>2 DEF Referring
        <4>2. Line(t, base, line) = Absolute(t, base + ((need - 1) - base))
          BY <4>1 DEF Line
        <4>3. base + ((need - 1) - base) = need - 1
          OBVIOUS
        <4> QED BY <2>4, <4>2, <4>3
      <3> QED BY <3>1, <3>2
    <2>6. Len(section.lines) = 1
      BY DEF Referring
    <2>7. Lines(t, base, section.lines) = {<<Entry(t, need - 1)>>}
      <3> DEFINE x == <<Entry(t, need - 1)>>
      <3>1. x \in Seq(Entries3) /\ Len(x) = 1 /\ x[1] = Entry(t, need - 1)
        BY <2>4
      <3>2. \A i \in 1 .. 1 : Line(t, base, section.lines[i]) = {x[i]}
        BY <2>5, <3>1
      <3> HIDE DEF x, section
      <3>3. Lines(t, base, section.lines) = {x}
        <4>1. Stands(t, base, section.lines, x)
          BY <2>6, <3>1, <3>2 DEF Stands
        <4> QED BY <3>1, <4>1, LinesRead
      <3> QED BY <3>3 DEF x, section
    <2> QED BY <1>3, <2>3, <2>7
  <1> QED BY <1>2, <1>3

-----------------------------------------------------------------------------
(* What is on its way over the two streams.                                *)

\* The tables between `first` and `last`, one instruction after the other.
Leads(c, ins, first, last) ==
    /\ c[0] = first /\ c[Len(ins)] = last
    /\ \A i \in 0 .. Len(ins) : TableOK(c[i])
    /\ \A i \in 1 .. Len(ins) : Apply(c[i - 1], ins[i]) = {c[i]}
    /\ \A i, j \in 0 .. Len(ins) : i <= j => Grows(c[i], c[j])

LEMMA LeadsOn ==
    ASSUME NEW c, NEW ins \in Seq(InstructionType), NEW first, NEW last, Leads(c, ins, first, last),
           NEW i \in InstructionType, NEW u \in Apply(last, i)
    PROVE  /\ \E d : Leads(d, Append(ins, i), first, u)
           /\ TableOK(u) /\ Grows(last, u)
           /\ u.inserted = IF i.kind = "capacity" THEN last.inserted ELSE last.inserted + 1
  <1> DEFINE n == Len(ins)
             more == Append(ins, i)
             d == [k \in 0 .. n + 1 |-> IF k = n + 1 THEN u ELSE c[k]]
  <1>1. /\ n \in Nat /\ Len(more) = n + 1 /\ more[n + 1] = i
        /\ \A k \in 1 .. n : more[k] = ins[k]
    OBVIOUS
  <1>2. TableOK(last) /\ last = c[n]
    BY <1>1 DEF Leads
  <1>3. /\ Apply(last, i) = {u} /\ TableOK(u) /\ Grows(last, u)
        /\ u.inserted = IF i.kind = "capacity" THEN last.inserted ELSE last.inserted + 1
    BY <1>2, Applied
  <1>4. /\ d[n + 1] = u /\ \A k \in 0 .. n : d[k] = c[k]
    BY <1>1
  <1> HIDE DEF n, more, d
  <1>5. d[0] = first /\ d[Len(more)] = u
    BY <1>1, <1>4 DEF Leads
  <1>6. \A k \in 0 .. Len(more) : TableOK(d[k])
    <2> SUFFICES ASSUME NEW k \in 0 .. Len(more) PROVE TableOK(d[k])
      OBVIOUS
    <2>1. CASE k = n + 1
      BY <1>3, <1>4, <2>1
    <2>2. CASE k # n + 1
      <3>1. k \in 0 .. n
        BY <1>1, <2>2
      <3> QED BY <1>4, <3>1 DEF Leads, n
    <2> QED BY <2>1, <2>2
  <1>7. ASSUME NEW k \in 1 .. Len(more) PROVE Apply(d[k - 1], more[k]) = {d[k]}
    <2>1. CASE k = n + 1
      BY <1>1, <1>2, <1>3, <1>4, <2>1
    <2>2. CASE k # n + 1
      <3>1. k \in 1 .. n /\ k \in 0 .. n /\ k - 1 \in 0 .. n
        BY <1>1, <2>2
      <3>2. Apply(c[k - 1], ins[k]) = {c[k]}
        BY <3>1 DEF Leads, n
      <3> QED BY <1>1, <1>4, <3>1, <3>2
    <2> QED BY <2>1, <2>2
  <1>8. ASSUME NEW k \in 0 .. Len(more), NEW j \in 0 .. Len(more), k <= j PROVE Grows(d[k], d[j])
    <2>1. CASE j # n + 1
      <3>1. k \in 0 .. n /\ j \in 0 .. n
        BY <1>1, <1>8, <2>1
      <3>2. Grows(c[k], c[j])
        BY <1>8, <3>1 DEF Leads, n
      <3> QED BY <1>4, <3>1, <3>2
    <2>2. CASE j = n + 1 /\ k # n + 1
      <3>1. k \in 0 .. n /\ n \in 0 .. n /\ k <= n
        BY <1>1, <2>2
      <3>2. Grows(c[k], last) /\ TableOK(c[k])
        BY <1>2, <3>1 DEF Leads, n
      <3>3. Grows(c[k], u)
        BY <1>2, <1>3, <3>2, GrowsOn
      <3> QED BY <1>4, <2>2, <3>1, <3>3
    <2>3. CASE j = n + 1 /\ k = n + 1
      <3>1. Grows(u, u)
        <4>1. u.dropped \in Nat /\ u.inserted \in Nat
          BY <1>3 DEF TableOK, Tables3
        <4> QED BY <4>1 DEF Grows
      <3> QED BY <1>4, <2>3, <3>1
    <2> QED BY <2>1, <2>2, <2>3
  <1>9. Leads(d, more, first, u)
    BY <1>5, <1>6, <1>7, <1>8 DEF Leads
  <1> QED BY <1>3, <1>9 DEF more

\* The first k of them are applied.
LEMMA LeadsOff ==
    ASSUME NEW c, NEW ins \in Seq(InstructionType), NEW first, NEW last, Leads(c, ins, first, last),
           NEW k \in 0 .. Len(ins)
    PROVE  \E d : Leads(d, SubSeq(ins, k + 1, Len(ins)), c[k], last)
  <1> DEFINE n == Len(ins)
             rest == SubSeq(ins, k + 1, n)
             d == [i \in 0 .. n - k |-> c[i + k]]
  <1>1. /\ n \in Nat /\ k \in Nat /\ k <= n /\ Len(rest) = n - k
        /\ \A i \in 1 .. n - k : rest[i] = ins[i + k]
    OBVIOUS
  <1>2. \A i \in 0 .. n - k : d[i] = c[i + k]
    OBVIOUS
  <1> HIDE DEF rest, d
  <1>3. d[0] = c[k] /\ d[Len(rest)] = last
    <2>1. 0 + k = k /\ (n - k) + k = n /\ 0 \in 0 .. n - k /\ n - k \in 0 .. n - k
      BY <1>1
    <2>2. d[0] = c[0 + k] /\ d[n - k] = c[(n - k) + k]
      BY <1>2, <2>1
    <2> QED BY <1>1, <2>1, <2>2 DEF Leads
  <1>4. ASSUME NEW i \in 0 .. Len(rest) PROVE TableOK(d[i])
    <2>1. i \in 0 .. n - k /\ i + k \in 0 .. n
      BY <1>1
    <2> QED BY <1>2, <2>1 DEF Leads
  <1>5. ASSUME NEW i \in 1 .. Len(rest) PROVE Apply(d[i - 1], rest[i]) = {d[i]}
    <2>1. i \in 1 .. n - k /\ i \in 0 .. n - k /\ i - 1 \in 0 .. n - k /\ i + k \in 1 .. n /\ (i - 1) + k = (i + k) - 1
      BY <1>1
    <2>2. Apply(c[(i + k) - 1], ins[i + k]) = {c[i + k]}
      BY <2>1 DEF Leads
    <2>3. d[i - 1] = c[(i - 1) + k] /\ d[i] = c[i + k] /\ rest[i] = ins[i + k]
      BY <1>1, <1>2, <2>1
    <2> QED BY <2>1, <2>2, <2>3
  <1>6. ASSUME NEW i \in 0 .. Len(rest), NEW j \in 0 .. Len(rest), i <= j PROVE Grows(d[i], d[j])
    <2>1. /\ i \in 0 .. n - k /\ j \in 0 .. n - k /\ i + k \in 0 .. n /\ j + k \in 0 .. n /\ i + k <= j + k
      BY <1>1, <1>6
    <2>2. Grows(c[i + k], c[j + k])
      BY <2>1 DEF Leads
    <2> QED BY <1>2, <2>1, <2>2
  <1>7. Leads(d, rest, c[k], last)
    BY <1>3, <1>4, <1>5, <1>6 DEF Leads
  <1> QED BY <1>7 DEF rest

\* What has arrived gives one table.
LEMMA AllApplied ==
    ASSUME NEW c, NEW first, NEW last, NEW a \in Seq(InstructionType), NEW b \in Seq(InstructionType),
           Leads(c, a \o b, first, last)
    PROVE  ApplyAll(first, a) = {c[Len(a)]}
  <1> DEFINE n == Len(a)
             w == [i \in 0 .. n |-> {c[i]}]
             F(ts) == [i \in 0 .. n |-> IF i = 0 THEN {first} ELSE UNION {Apply(u, a[i]) : u \in ts[i - 1]}]
  <1>1. /\ n \in Nat /\ Len(a \o b) \in Nat /\ n <= Len(a \o b)
        /\ \A i \in 1 .. n : (a \o b)[i] = a[i] /\ i \in 1 .. Len(a \o b)
    OBVIOUS
  <1>2. c[0] = first /\ \A i \in 1 .. n : Apply(c[i - 1], a[i]) = {c[i]}
    BY <1>1 DEF Leads
  <1>3. w = F(w)
    <2>1. ASSUME NEW i \in 0 .. n PROVE w[i] = F(w)[i]
      <3>1. CASE i = 0
        BY <1>2, <3>1
      <3>2. CASE i # 0
        <4>1. i - 1 \in 0 .. n /\ i \in 1 .. n
          BY <1>1, <3>2
        <4>2. w[i - 1] = {c[i - 1]} /\ w[i] = {c[i]}
          BY <4>1
        <4>3. UNION {Apply(u, a[i]) : u \in {c[i - 1]}} = Apply(c[i - 1], a[i])
          OBVIOUS
        <4>4. F(w)[i] = UNION {Apply(u, a[i]) : u \in w[i - 1]}
          BY <3>2
        <4> QED BY <1>2, <4>1, <4>2, <4>3, <4>4
      <3> QED BY <3>1, <3>2
    <2> QED BY <2>1
  <1> DEFINE t == CHOOSE ts : ts = [i \in 0 .. Len(a) |-> IF i = 0 THEN {first} ELSE UNION {Apply(u, a[i]) : u \in ts[i - 1]}]
  <1>4. t = F(t)
    BY <1>3, Zenon
  <1>5. ApplyAll(first, a) = t[n]
    BY DEF ApplyAll
  <1> HIDE DEF t
  <1> DEFINE S == {i \in 0 .. n : t[i] = {c[i]}}
  <1>6. 0 \in S
    BY <1>1, <1>2, <1>4
  <1>7. ASSUME NEW i \in 0 .. n - 1, i \in S PROVE i + 1 \in S
    <2>1. i + 1 \in 0 .. n /\ i + 1 \in 1 .. n /\ i + 1 # 0 /\ (i + 1) - 1 = i
      BY <1>1
    <2>2. t[i + 1] = UNION {Apply(u, a[i + 1]) : u \in t[(i + 1) - 1]}
      BY <1>4, <2>1
    <2>3. t[i] = {c[i]}
      BY <1>7
    <2>4. t[i + 1] = Apply(c[i], a[i + 1])
      BY <2>1, <2>2, <2>3
    <2>5. Apply(c[i], a[i + 1]) = {c[i + 1]}
      BY <1>2, <2>1
    <2> QED BY <2>1, <2>4, <2>5
  <1>8. \A i \in 0 .. n : i \in S
    <2> HIDE DEF S
    <2> QED BY <1>1, <1>6, <1>7, UpTo
  <1>9. n \in 0 .. n
    BY <1>1
  <1> QED BY <1>5, <1>8, <1>9

\* The frames of the request stream, towards the client.
StaticFrames ==
    {[kind |-> "headers",
      section |-> [ric |-> 0, sign |-> FALSE, delta |-> 0, lines |-> <<EncodeField(f)>>],
      fields |-> <<f>>, need |-> 0] : f \in Fields3}
DynamicFrames ==
    {[kind |-> "headers", section |-> Referring(need, base), fields |-> <<e>>, need |-> need] :
        need \in Nat \ {0}, base \in Nat, e \in Entries3}
Frames3 == [kind : {"data", "grease", "stub", "fin"}] \cup StaticFrames \cup DynamicFrames

\* What a reader has counted: the header of the response, DATA frames, sections to acknowledge.
Tallies == [headers : Seq(Entries3), body : Nat, acks : Nat]

Counted(k, x) ==
    IF x.kind = "headers"
    THEN [headers |-> IF k.headers = Nothing THEN x.fields ELSE k.headers, body |-> k.body,
          acks |-> IF x.need = 0 THEN k.acks ELSE k.acks + 1]
    ELSE IF x.kind = "data" THEN [k EXCEPT !.body = @ + 1] ELSE k

\* A section, read at k, refers to an entry that the server s keeps for it.
Refers(x, k, s) ==
    x.kind = "headers" /\ x.need # 0 =>
        /\ s.table.dropped < x.need /\ x.need <= s.table.inserted
        /\ x.fields = <<Entry(s.table, x.need - 1)>>
        /\ k.acks < Len(s.unacked) /\ s.unacked[k.acks + 1] = [refs |-> {x.need - 1}, need |-> x.need]

Tallied(c, frames, first, last, s) ==
    /\ c[0] = first /\ c[Len(frames)] = last
    /\ \A i \in 0 .. Len(frames) : c[i] \in Tallies /\ c[i].acks <= last.acks
    /\ \A i \in 1 .. Len(frames) : c[i] = Counted(c[i - 1], frames[i]) /\ Refers(frames[i], c[i - 1], s)

LEMMA FrameCases ==
    ASSUME NEW x \in Frames3
    PROVE  /\ x.kind \in {"data", "grease", "stub", "fin", "headers"}
           /\ x.kind # "headers" => x = [kind |-> x.kind]
           /\ x.kind = "headers" => x.need \in Nat /\ x.fields \in Seq(Entries3) /\ x.fields # Nothing
           /\ x.kind = "headers" /\ x.need = 0 =>
                \E f \in Fields3 :
                    x = [kind |-> "headers",
                         section |-> [ric |-> 0, sign |-> FALSE, delta |-> 0, lines |-> <<EncodeField(f)>>],
                         fields |-> <<f>>, need |-> 0]
           /\ x.kind = "headers" /\ x.need # 0 =>
                \E base \in Nat, e \in Entries3 :
                    x = [kind |-> "headers", section |-> Referring(x.need, base), fields |-> <<e>>, need |-> x.need]
  <1>1. CASE x \in [kind : {"data", "grease", "stub", "fin"}]
    BY <1>1
  <1>2. CASE x \in StaticFrames
    <2>1. PICK f \in Fields3 :
            x = [kind |-> "headers",
                 section |-> [ric |-> 0, sign |-> FALSE, delta |-> 0, lines |-> <<EncodeField(f)>>],
                 fields |-> <<f>>, need |-> 0]
      BY <1>2 DEF StaticFrames
    <2>2. x.kind = "headers" /\ x.need = 0 /\ x.fields = <<f>>
      BY <2>1
    <2>3. f \in Entries3
      BY FieldsAreEntries
    <2>4. <<f>> \in Seq(Entries3) /\ <<f>> # Nothing
      BY <2>3 DEF Nothing
    <2> QED BY <2>1, <2>2, <2>4
  <1>3. CASE x \in DynamicFrames
    <2>1. PICK need \in Nat \ {0}, base \in Nat, e \in Entries3 :
            x = [kind |-> "headers", section |-> Referring(need, base), fields |-> <<e>>, need |-> need]
      BY <1>3 DEF DynamicFrames
    <2>2. x.kind = "headers" /\ x.need = need /\ x.fields = <<e>> /\ need # 0 /\ need \in Nat
      BY <2>1
    <2>4. <<e>> \in Seq(Entries3) /\ <<e>> # Nothing
      BY DEF Nothing
    <2> QED BY <2>1, <2>2, <2>4
  <1> QED BY <1>1, <1>2, <1>3 DEF Frames3

LEMMA CountedType ==
    ASSUME NEW k \in Tallies, NEW x \in Frames3
    PROVE  Counted(k, x) \in Tallies /\ Counted(k, x).acks \in {k.acks, k.acks + 1}
  <1>1. /\ x.kind = "headers" => x.need \in Nat /\ x.fields \in Seq(Entries3)
        /\ k.headers \in Seq(Entries3) /\ k.body \in Nat /\ k.acks \in Nat
    BY FrameCases DEF Tallies
  <1>2. CASE x.kind = "headers"
    <2> DEFINE h == IF k.headers = Nothing THEN x.fields ELSE k.headers
               a == IF x.need = 0 THEN k.acks ELSE k.acks + 1
    <2>1. h \in Seq(Entries3) /\ a \in Nat /\ a \in {k.acks, k.acks + 1}
      BY <1>1, <1>2
    <2>2. Counted(k, x) = [headers |-> h, body |-> k.body, acks |-> a]
      BY <1>2 DEF Counted
    <2> HIDE DEF h, a
    <2> QED BY <1>1, <2>1, <2>2 DEF Tallies
  <1>3. CASE x.kind # "headers"
    BY <1>1, <1>3 DEF Counted, Tallies
  <1> QED BY <1>2, <1>3

\* One frame more; the server may have changed with it.
LEMMA TalliedOn ==
    ASSUME NEW c, NEW frames \in Seq(Frames3), NEW first, NEW last, NEW s, Tallied(c, frames, first, last, s),
           NEW x \in Frames3, NEW s2, Refers(x, last, s2),
           \A i \in 1 .. Len(frames) : Refers(frames[i], c[i - 1], s2)
    PROVE  \E d : Tallied(d, Append(frames, x), first, Counted(last, x), s2)
  <1> DEFINE n == Len(frames)
             more == Append(frames, x)
             new == Counted(last, x)
             d == [k \in 0 .. n + 1 |-> IF k = n + 1 THEN new ELSE c[k]]
  <1>1. /\ n \in Nat /\ Len(more) = n + 1 /\ more[n + 1] = x
        /\ \A k \in 1 .. n : more[k] = frames[k]
    OBVIOUS
  <1>2. last \in Tallies /\ last = c[n] /\ n \in 0 .. n
    BY <1>1 DEF Tallied
  <1>3. new \in Tallies /\ last.acks <= new.acks /\ last.acks \in Nat /\ new.acks \in Nat
    <2>1. new \in Tallies /\ new.acks \in {last.acks, last.acks + 1}
      BY <1>2, CountedType
    <2>2. last.acks \in Nat /\ new.acks \in Nat
      BY <1>2, <2>1 DEF Tallies
    <2> QED BY <2>1, <2>2
  <1>4. /\ d[n + 1] = new /\ \A k \in 0 .. n : d[k] = c[k]
    BY <1>1
  <1> HIDE DEF n, more, d, new
  <1>5. d[0] = first /\ d[Len(more)] = new
    BY <1>1, <1>4 DEF Tallied
  <1>6. ASSUME NEW k \in 0 .. Len(more) PROVE d[k] \in Tallies /\ d[k].acks <= new.acks
    <2>1. CASE k = n + 1
      BY <1>3, <1>4, <2>1
    <2>2. CASE k # n + 1
      <3>1. k \in 0 .. n
        BY <1>1, <2>2
      <3>2. c[k] \in Tallies /\ c[k].acks <= last.acks
        BY <3>1 DEF Tallied, n
      <3>3. c[k].acks \in Nat
        BY <3>2 DEF Tallies
      <3> QED BY <1>3, <1>4, <3>1, <3>2, <3>3
    <2> QED BY <2>1, <2>2
  <1>7. ASSUME NEW k \in 1 .. Len(more)
        PROVE  d[k] = Counted(d[k - 1], more[k]) /\ Refers(more[k], d[k - 1], s2)
    <2>1. CASE k = n + 1
      <3>1. k - 1 = n
        BY <1>1, <2>1
      <3>2. d[k - 1] = last /\ d[k] = new /\ more[k] = x
        BY <1>1, <1>2, <1>4, <2>1, <3>1
      <3> QED BY <3>2 DEF new
    <2>2. CASE k # n + 1
      <3>1. k \in 1 .. n /\ k \in 0 .. n /\ k - 1 \in 0 .. n
        BY <1>1, <2>2
      <3>2. c[k] = Counted(c[k - 1], frames[k]) /\ Refers(frames[k], c[k - 1], s2)
        BY <3>1 DEF Tallied, n
      <3> QED BY <1>1, <1>4, <3>1, <3>2
    <2> QED BY <2>1, <2>2
  <1>8. Tallied(d, more, first, new, s2)
    BY <1>5, <1>6, <1>7 DEF Tallied
  <1> QED BY <1>8 DEF more, new

\* The first k frames are read.
LEMMA TalliedOff ==
    ASSUME NEW c, NEW frames \in Seq(Frames3), NEW first, NEW last, NEW s, Tallied(c, frames, first, last, s),
           NEW k \in 0 .. Len(frames)
    PROVE  \E d : Tallied(d, SubSeq(frames, k + 1, Len(frames)), c[k], last, s)
  <1> DEFINE n == Len(frames)
             rest == SubSeq(frames, k + 1, n)
             d == [i \in 0 .. n - k |-> c[i + k]]
  <1>1. /\ n \in Nat /\ k \in Nat /\ k <= n /\ Len(rest) = n - k
        /\ \A i \in 1 .. n - k : rest[i] = frames[i + k]
    OBVIOUS
  <1>2. \A i \in 0 .. n - k : d[i] = c[i + k]
    OBVIOUS
  <1> HIDE DEF rest, d
  <1>3. d[0] = c[k] /\ d[Len(rest)] = last
    <2>1. 0 + k = k /\ (n - k) + k = n /\ 0 \in 0 .. n - k /\ n - k \in 0 .. n - k
      BY <1>1
    <2>2. d[0] = c[0 + k] /\ d[n - k] = c[(n - k) + k]
      BY <1>2, <2>1
    <2> QED BY <1>1, <2>1, <2>2 DEF Tallied
  <1>4. ASSUME NEW i \in 0 .. Len(rest) PROVE d[i] \in Tallies /\ d[i].acks <= last.acks
    <2>1. i \in 0 .. n - k /\ i + k \in 0 .. n
      BY <1>1
    <2> QED BY <1>2, <2>1 DEF Tallied
  <1>5. ASSUME NEW i \in 1 .. Len(rest)
        PROVE  d[i] = Counted(d[i - 1], rest[i]) /\ Refers(rest[i], d[i - 1], s)
    <2>1. i \in 1 .. n - k /\ i \in 0 .. n - k /\ i - 1 \in 0 .. n - k /\ i + k \in 1 .. n /\ (i - 1) + k = (i + k) - 1
      BY <1>1
    <2>2. c[i + k] = Counted(c[(i + k) - 1], frames[i + k]) /\ Refers(frames[i + k], c[(i + k) - 1], s)
      BY <2>1 DEF Tallied
    <2>3. d[i - 1] = c[(i - 1) + k] /\ d[i] = c[i + k] /\ rest[i] = frames[i + k]
      BY <1>1, <1>2, <2>1
    <2> QED BY <2>1, <2>2, <2>3
  <1>7. Tallied(d, rest, c[k], last, s)
    BY <1>3, <1>4, <1>5 DEF Tallied
  <1> QED BY <1>7 DEF rest

\* The server has read an acknowledgement.
Less(k) == [k EXCEPT !.acks = @ - 1]

References == [refs : SUBSET Nat, need : Nat]

LEMMA TalliedAck ==
    ASSUME NEW c, NEW frames \in Seq(Frames3), NEW first, NEW last, NEW s, Tallied(c, frames, first, last, s),
           first.acks > 0, s.unacked \in Seq(References), last.acks = Len(s.unacked),
           NEW s2, s2.table = s.table, s2.unacked = Tail(s.unacked)
    PROVE  \E d : Tallied(d, frames, Less(first), Less(last), s2)
  <1> DEFINE n == Len(frames)
             d == [i \in 0 .. n |-> Less(c[i])]
             S == {i \in 0 .. n : c[i].acks > 0}
  <1>1. n \in Nat /\ 0 \in 0 .. n /\ n \in 0 .. n /\ \A i \in 0 .. n : c[i] \in Tallies
    BY DEF Tallied
  <1>2. 0 \in S
    BY <1>1 DEF Tallied
  <1>3. ASSUME NEW i \in 0 .. n - 1, i \in S PROVE i + 1 \in S
    <2>1. i + 1 \in 1 .. n /\ i \in 0 .. n /\ i + 1 \in 0 .. n /\ (i + 1) - 1 = i
      BY <1>1
    <2>2. c[i + 1] = Counted(c[i], frames[i + 1]) /\ frames[i + 1] \in Frames3
      BY <2>1 DEF Tallied
    <2>3. c[i + 1].acks \in {c[i].acks, c[i].acks + 1} /\ c[i].acks \in Nat
      BY <1>1, <2>1, <2>2, CountedType DEF Tallies
    <2>4. c[i].acks > 0
      BY <1>3
    <2> QED BY <2>1, <2>3, <2>4
  <1>4. \A i \in 0 .. n : i \in S
    <2> HIDE DEF S
    <2> QED BY <1>1, <1>2, <1>3, UpTo
  <1>5. ASSUME NEW i \in 0 .. n
        PROVE  /\ d[i] = Less(c[i]) /\ d[i] \in Tallies /\ d[i].acks = c[i].acks - 1
               /\ d[i].headers = c[i].headers /\ d[i].body = c[i].body /\ c[i].acks \in Nat /\ c[i].acks > 0
    <2>1. c[i] \in Tallies /\ c[i].acks \in Nat /\ c[i].acks > 0
      BY <1>1, <1>4 DEF Tallies
    <2> QED BY <2>1 DEF Less, Tallies
  <1>6. last = c[n] /\ last \in Tallies /\ last.acks \in Nat /\ last.acks > 0 /\ first = c[0]
    BY <1>1, <1>5 DEF Tallied
  <1>7. Less(last).acks = last.acks - 1
    BY <1>6 DEF Less, Tallies
  <1> HIDE DEF d, S, n
  <1>8. d[0] = Less(first) /\ d[n] = Less(last)
    BY <1>1, <1>5, <1>6
  <1>9. ASSUME NEW i \in 0 .. n PROVE d[i] \in Tallies /\ d[i].acks <= Less(last).acks
    <2>1. c[i].acks <= last.acks
      BY DEF Tallied, n
    <2> QED BY <1>5, <1>6, <1>7, <2>1
  <1>10. ASSUME NEW i \in 1 .. n
         PROVE  d[i] = Counted(d[i - 1], frames[i]) /\ Refers(frames[i], d[i - 1], s2)
    <2> DEFINE k == c[i - 1]
               x == frames[i]
    <2>1. i - 1 \in 0 .. n /\ i \in 0 .. n
      BY <1>1
    <2>2. c[i] = Counted(k, x) /\ Refers(x, k, s)
      BY DEF Tallied, n
    <2>3. k \in Tallies /\ k.acks \in Nat /\ k.acks > 0 /\ d[i - 1] = Less(k) /\ d[i] = Less(c[i]) /\ x \in Frames3
      BY <1>1, <1>5, <2>1 DEF n
    <2>4. Less(k) = [headers |-> k.headers, body |-> k.body, acks |-> k.acks - 1]
      BY <2>3 DEF Less, Tallies
    <2> HIDE DEF k, x
    <2>5. d[i] = Counted(d[i - 1], x)
      <3>1. k = [headers |-> k.headers, body |-> k.body, acks |-> k.acks]
        BY <2>3 DEF Tallies
      <3>2. CASE x.kind = "headers"
        <4> DEFINE h == IF k.headers = Nothing THEN x.fields ELSE k.headers
                   a == IF x.need = 0 THEN k.acks ELSE k.acks + 1
                   b == IF x.need = 0 THEN k.acks - 1 ELSE (k.acks - 1) + 1
        <4>1. Counted(k, x) = [headers |-> h, body |-> k.body, acks |-> a]
          BY <3>2 DEF Counted
        <4>2. Counted(Less(k), x) = [headers |-> h, body |-> k.body, acks |-> b]
          BY <2>4, <3>2 DEF Counted
        <4>3. b = a - 1
          BY <2>3
        <4> HIDE DEF h, a, b
        <4>4. Less([headers |-> h, body |-> k.body, acks |-> a]) = [headers |-> h, body |-> k.body, acks |-> a - 1]
          BY DEF Less
        <4> QED BY <2>2, <2>3, <4>1, <4>2, <4>3, <4>4
      <3>3. CASE x.kind # "headers" /\ x.kind = "data"
        <4>1. Counted(k, x) = [headers |-> k.headers, body |-> k.body + 1, acks |-> k.acks]
          BY <3>1, <3>3 DEF Counted
        <4>2. Counted(Less(k), x) = [headers |-> k.headers, body |-> k.body + 1, acks |-> k.acks - 1]
          BY <2>4, <3>3 DEF Counted
        <4>3. Less([headers |-> k.headers, body |-> k.body + 1, acks |-> k.acks])
                = [headers |-> k.headers, body |-> k.body + 1, acks |-> k.acks - 1]
          BY DEF Less
        <4> QED BY <2>2, <2>3, <4>1, <4>2, <4>3
      <3>4. CASE x.kind # "headers" /\ x.kind # "data"
        BY <2>2, <2>3, <3>4 DEF Counted
      <3> QED BY <3>2, <3>3, <3>4
    <2>6. Refers(x, d[i - 1], s2)
      <3> SUFFICES ASSUME x.kind = "headers", x.need # 0
                   PROVE  /\ s2.table.dropped < x.need /\ x.need <= s2.table.inserted
                          /\ x.fields = <<Entry(s2.table, x.need - 1)>>
                          /\ d[i - 1].acks < Len(s2.unacked)
                          /\ s2.unacked[d[i - 1].acks + 1] = [refs |-> {x.need - 1}, need |-> x.need]
        BY Zenon DEF Refers
      <3>1. /\ s.table.dropped < x.need /\ x.need <= s.table.inserted
            /\ x.fields = <<Entry(s.table, x.need - 1)>>
            /\ k.acks < Len(s.unacked) /\ s.unacked[k.acks + 1] = [refs |-> {x.need - 1}, need |-> x.need]
        BY <2>2, Zenon DEF Refers
      <3>2. d[i - 1].acks = k.acks - 1
        BY <2>3, <2>4
      <3>3. Len(s2.unacked) = Len(s.unacked) - 1 /\ Len(s.unacked) \in Nat
            /\ \A j \in 1 .. Len(s.unacked) - 1 : s2.unacked[j] = s.unacked[j + 1]
        <4>1. s.unacked # <<>>
          BY <2>3, <3>1
        <4> QED BY <4>1
      <3>4. k.acks \in 1 .. Len(s.unacked) - 1 /\ (k.acks - 1) + 1 = k.acks
        BY <2>3, <3>1, <3>3
      <3>5. s2.unacked[k.acks] = s.unacked[k.acks + 1]
        BY <3>3, <3>4
      <3>6. d[i - 1].acks < Len(s2.unacked)
        BY <2>3, <3>1, <3>2, <3>3
      <3>7. d[i - 1].acks + 1 = k.acks
        BY <3>2, <3>4
      <3> QED BY <3>1, <3>5, <3>6, <3>7
    <2> QED BY <2>5, <2>6 DEF x
  <1>11. Tallied(d, frames, Less(first), Less(last), s2)
    BY <1>8, <1>9, <1>10 DEF Tallied, n
  <1> QED BY <1>11

\* How the response ends: with a FIN, after an incomplete frame if it is cut short.
Shaped(frames, phase) ==
    /\ \A i \in 1 .. Len(frames) :
        /\ frames[i].kind = "fin" => phase \in {"ended", "truncated"} /\ i = Len(frames)
        /\ frames[i].kind = "stub" => phase = "truncated" /\ i = Len(frames) - 1
    /\ phase \in {"ended", "truncated"} => Len(frames) > 0 /\ frames[Len(frames)].kind = "fin"
    /\ phase = "truncated" => Len(frames) > 1 /\ frames[Len(frames) - 1].kind = "stub"

LEMMA ShapedOff ==
    ASSUME NEW frames \in Seq(Frames3), NEW phase, Shaped(frames, phase), NEW k \in 0 .. Len(frames),
           \A i \in 1 .. k : frames[i].kind \notin {"stub", "fin"}
    PROVE  Shaped(SubSeq(frames, k + 1, Len(frames)), phase)
  <1> DEFINE n == Len(frames)
             rest == SubSeq(frames, k + 1, n)
  <1>1. /\ n \in Nat /\ k \in Nat /\ k <= n /\ Len(rest) = n - k
        /\ \A i \in 1 .. n - k : rest[i] = frames[i + k] /\ i + k \in 1 .. n
    OBVIOUS
  <1> HIDE DEF rest
  <1>2. ASSUME NEW i \in 1 .. Len(rest)
        PROVE  /\ rest[i].kind = "fin" => phase \in {"ended", "truncated"} /\ i = Len(rest)
               /\ rest[i].kind = "stub" => phase = "truncated" /\ i = Len(rest) - 1
    <2>1. rest[i] = frames[i + k] /\ i + k \in 1 .. n
      BY <1>1
    <2>2. /\ frames[i + k].kind = "fin" => phase \in {"ended", "truncated"} /\ i + k = n
          /\ frames[i + k].kind = "stub" => phase = "truncated" /\ i + k = n - 1
      BY <2>1 DEF Shaped
    <2> QED BY <1>1, <2>1, <2>2
  <1>3. ASSUME phase \in {"ended", "truncated"} PROVE Len(rest) > 0 /\ rest[Len(rest)].kind = "fin"
    <2>1. n > 0 /\ frames[n].kind = "fin"
      BY <1>3 DEF Shaped
    <2>2. ~(n \in 1 .. k)
      BY <2>1
    <2>3. Len(rest) \in 1 .. n - k /\ Len(rest) + k = n
      BY <1>1, <2>1, <2>2
    <2>4. rest[Len(rest)] = frames[Len(rest) + k] /\ Len(rest) > 0
      BY <1>1, <2>3
    <2> QED BY <2>1, <2>3, <2>4
  <1>4. ASSUME phase = "truncated" PROVE Len(rest) > 1 /\ rest[Len(rest) - 1].kind = "stub"
    <2>1. n > 1 /\ frames[n - 1].kind = "stub"
      BY <1>4 DEF Shaped
    <2>2. ~(n - 1 \in 1 .. k)
      BY <2>1
    <2>3. Len(rest) - 1 \in 1 .. n - k /\ (Len(rest) - 1) + k = n - 1
      BY <1>1, <2>1, <2>2
    <2>4. rest[Len(rest) - 1] = frames[(Len(rest) - 1) + k] /\ Len(rest) > 1
      BY <1>1, <2>3
    <2> QED BY <2>1, <2>3, <2>4
  <1>5. Shaped(rest, phase)
    BY <1>2, <1>3, <1>4 DEF Shaped
  <1> QED BY <1>5 DEF rest

-----------------------------------------------------------------------------
(* The inductive invariant of the exchange.                                *)

ClientType3 == [pc : {"start", "connected", "read", "pump", "done"}, result : {"none", "ok", "error", "refused"},
                table : Tables3, headers : Seq(Entries3), body : Nat]
UniType3 == [wire : Seq(InstructionType), here : Seq(InstructionType), cut : BOOLEAN]
BidiType3 == [wire : Seq(Frames3), here : Seq(Frames3)]
ServerType3 == [table : Tables3, known : Nat, unacked : Seq(References),
                phase : {"waiting", "asked", "body", "trailed", "ended", "truncated"},
                headers : Seq(Entries3), body : Nat]

Typed3 ==
    /\ client \in ClientType3 /\ uni \in UniType3 /\ bidi \in BidiType3 /\ srv \in ServerType3 /\ acks \in Nat
    /\ uni.cut => SplitInts

Phased ==
    /\ client.pc \in {"start", "connected"} => srv.phase = "waiting"
    /\ srv.headers = Nothing <=> srv.phase \in {"waiting", "asked"}
    /\ Shaped(bidi.here \o bidi.wire, srv.phase)

\* What the server takes to be received has been received, and what it has dropped was.
KnownReceived ==
    /\ srv.table.inserted <= Len(Inserts)
    /\ srv.table.dropped <= srv.known /\ srv.known <= client.table.inserted
    /\ \A a \in 1 .. acks : srv.unacked[a].need <= client.table.inserted

ClientTally == [headers |-> client.headers, body |-> client.body, acks |-> acks]
ServerTally == [headers |-> srv.headers, body |-> srv.body, acks |-> Len(srv.unacked)]

TablesMeet == \E c : Leads(c, uni.here \o uni.wire, client.table, srv.table)
TalliesMeet == \E c : Tallied(c, bidi.here \o bidi.wire, ClientTally, ServerTally, srv)

UnderWay == client.result = "none" /\ Typed3 /\ Phased /\ KnownReceived /\ TablesMeet /\ TalliesMeet

\* Once the client is done nothing happens any more.
H3Inv ==
    /\ agree = TRUE
    /\ ResponseWhole /\ (SplitInts \/ RefusedOnlyOvertaken)
    /\ client.pc # "done" => UnderWay

LEMMA H3Init == Init3 => H3Inv
  <1> SUFFICES ASSUME Init3 PROVE H3Inv
    OBVIOUS
  <1>1. /\ client = [pc |-> "start", result |-> "none", table |-> NoTable, headers |-> Nothing, body |-> 0]
        /\ uni = [wire |-> <<>>, here |-> <<>>, cut |-> FALSE]
        /\ bidi = [wire |-> <<>>, here |-> <<>>]
        /\ acks = 0 /\ closed = FALSE /\ agree = TRUE
        /\ srv = [table |-> NoTable, known |-> 0, unacked |-> <<>>, phase |-> "waiting",
                  headers |-> Nothing, body |-> 0]
    BY DEF Init3
  <1>2. NoTable \in Tables3 /\ TableOK(NoTable) /\ NoTable.inserted = 0 /\ NoTable.dropped = 0
    <2>1. <<>> \in Seq(Entries3) /\ Len(<<>>) = 0
      OBVIOUS
    <2>2. TableSize(<<>>) = 0 /\ MaxCapacity \in Nat
      BY SizeEmpty, Http3Assumption
    <2> QED BY <2>1, <2>2 DEF NoTable, Tables3, TableOK
  <1>3. Typed3
    BY <1>1, <1>2 DEF Typed3, ClientType3, UniType3, BidiType3, ServerType3, Nothing
  <1>4. /\ bidi.here \o bidi.wire = <<>> /\ uni.here \o uni.wire = <<>>
        /\ Len(<<>>) = 0
    BY <1>1
  <1>5. Phased
    <2>1. Shaped(<<>>, "waiting")
      BY <1>4 DEF Shaped
    <2> QED BY <1>1, <1>4, <2>1 DEF Phased
  <1>6. KnownReceived
    <2>1. Len(Inserts) \in Nat
      BY Http3Assumption
    <2> QED BY <1>1, <1>2, <2>1 DEF KnownReceived
  <1>7. TablesMeet
    <2> DEFINE c == [i \in 0 .. 0 |-> NoTable]
    <2>1. Grows(NoTable, NoTable)
      BY <1>2 DEF Grows
    <2>2. Leads(c, <<>>, NoTable, NoTable)
      BY <1>2, <1>4, <2>1 DEF Leads
    <2> HIDE DEF c
    <2>3. client.table = NoTable /\ srv.table = NoTable
      BY <1>1
    <2>4. \E d : Leads(d, <<>>, NoTable, NoTable)
      BY <2>2
    <2> QED BY <1>4, <2>3, <2>4 DEF TablesMeet
  <1>8. TalliesMeet
    <2> DEFINE k == [headers |-> Nothing, body |-> 0, acks |-> 0]
               c == [i \in 0 .. 0 |-> k]
    <2>1. k \in Tallies /\ k.acks <= k.acks
      BY DEF Tallies, Nothing
    <2>2. ClientTally = k /\ ServerTally = k
      BY <1>1 DEF ClientTally, ServerTally
    <2> HIDE DEF k
    <2>3. Tallied(c, <<>>, k, k, srv)
      BY <1>4, <2>1 DEF Tallied
    <2> HIDE DEF c
    <2>4. \E d : Tallied(d, <<>>, k, k, srv)
      BY <2>3
    <2> QED BY <1>4, <2>2, <2>4 DEF TalliesMeet
  <1>9. ResponseWhole /\ RefusedOnlyOvertaken /\ client.result = "none"
    BY <1>1 DEF ResponseWhole, RefusedOnlyOvertaken
  <1> QED BY <1>1, <1>3, <1>5, <1>6, <1>7, <1>8, <1>9 DEF H3Inv, UnderWay

\* A step that neither returns a response nor refuses one has only to keep what is under way.
LEMMA H3Kept ==
    ASSUME agree' = TRUE, client'.result \in {"none", "error"}, client'.pc # "done" => UnderWay'
    PROVE  H3Inv'
  BY DEF H3Inv, ResponseWhole, RefusedOnlyOvertaken

\* Giving up.
LEMMA GivesUp ==
    ASSUME UnderWay, agree = TRUE, agree' = agree, client' = Done("error")
    PROVE  H3Inv'
  <1>1. client'.pc = "done" /\ client'.result = "error"
    BY DEF Done, UnderWay, Typed3, ClientType3
  <1> QED BY <1>1, H3Kept

\* Nothing is read or written: the streams may move from the wire to the buffers.
LEMMA Moved ==
    ASSUME UnderWay,
           NEW p \in {"start", "connected", "read", "pump"}, client' = [client EXCEPT !.pc = p],
           uni' \in UniType3, uni'.here \o uni'.wire = uni.here \o uni.wire, uni'.cut => SplitInts,
           bidi' \in BidiType3, bidi'.here \o bidi'.wire = bidi.here \o bidi.wire,
           NEW q \in {"waiting", "asked", srv.phase}, srv' = [srv EXCEPT !.phase = q],
           q = "waiting" \/ p \notin {"start", "connected"},
           q = srv.phase \/ srv.phase = "waiting", acks' = acks
    PROVE  UnderWay'
  <1>1. Typed3 /\ Phased /\ KnownReceived /\ TablesMeet /\ TalliesMeet /\ client.result = "none"
    BY DEF UnderWay
  <1>2. /\ client' \in ClientType3 /\ client'.table = client.table /\ client'.headers = client.headers
        /\ client'.body = client.body /\ client'.pc = p /\ client'.result = "none"
    BY <1>1 DEF Typed3, ClientType3
  <1>3. srv.phase \in {"waiting", "asked", "body", "trailed", "ended", "truncated"}
    BY <1>1 DEF Typed3, ServerType3
  <1>4. /\ srv' \in ServerType3 /\ srv'.table = srv.table /\ srv'.known = srv.known /\ srv'.unacked = srv.unacked
        /\ srv'.headers = srv.headers /\ srv'.body = srv.body /\ srv'.phase = q
    BY <1>1, <1>3 DEF Typed3, ServerType3
  <1>5. Typed3'
    BY <1>1, <1>2, <1>4 DEF Typed3
  <1>6. Phased'
    <2>1. Shaped(bidi.here \o bidi.wire, q)
      BY <1>1, <1>3 DEF Phased, Shaped
    <2>2. srv'.headers = Nothing <=> q \in {"waiting", "asked"}
      BY <1>1, <1>3, <1>4 DEF Phased
    <2>3. client'.pc \in {"start", "connected"} => srv'.phase = "waiting"
      BY <1>2, <1>4
    <2>4. Shaped(bidi'.here \o bidi'.wire, srv'.phase)
      BY <1>4, <2>1
    <2> QED BY <1>4, <2>2, <2>3, <2>4 DEF Phased
  <1>7. KnownReceived'
    BY <1>1, <1>2, <1>4 DEF KnownReceived
  <1>8. TablesMeet'
    BY <1>1, <1>2, <1>4 DEF TablesMeet
  <1>9. TalliesMeet'
    <2>1. PICK c : Tallied(c, bidi.here \o bidi.wire, ClientTally, ServerTally, srv)
      BY <1>1 DEF TalliesMeet
    <2>2. \A x, k : Refers(x, k, srv) => Refers(x, k, srv')
      BY <1>4 DEF Refers
    <2>3. Tallied(c, bidi.here \o bidi.wire, ClientTally, ServerTally, srv')
      BY <2>1, <2>2 DEF Tallied
    <2>4. ClientTally' = ClientTally /\ ServerTally' = ServerTally
      BY <1>2, <1>4 DEF ClientTally, ServerTally
    <2>5. Tallied(c, bidi'.here \o bidi'.wire, ClientTally', ServerTally', srv')
      BY <2>3, <2>4
    <2> QED BY <2>5 DEF TalliesMeet
  <1> QED BY <1>2, <1>5, <1>6, <1>7, <1>8, <1>9 DEF UnderWay

LEMMA ConnectInv == ASSUME H3Inv, Connect PROVE H3Inv'
  <1>1. UnderWay /\ agree = TRUE /\ agree' = agree
    BY DEF Connect, H3Inv
  <1>2. /\ client' = [client EXCEPT !.pc = "connected"] /\ UNCHANGED <<uni, bidi, acks, srv>>
        /\ srv.phase = "waiting"
    BY <1>1 DEF Connect, UnderWay, Phased
  <1>3. srv' = [srv EXCEPT !.phase = "waiting"] /\ uni' \in UniType3 /\ bidi' \in BidiType3 /\ (uni'.cut => SplitInts)
    BY <1>1, <1>2 DEF UnderWay, Typed3, ServerType3
  <1>4. UnderWay'
    BY <1>1, <1>2, <1>3, Moved
  <1>5. client'.result = "none"
    BY <1>4 DEF UnderWay
  <1> QED BY <1>1, <1>4, <1>5, H3Kept

LEMMA WriteRequestInv == ASSUME H3Inv, WriteRequest PROVE H3Inv'
  <1>1. UnderWay /\ agree = TRUE
    BY DEF WriteRequest, H3Inv
  <1>2. /\ client' = [client EXCEPT !.pc = "read"] /\ srv' = [srv EXCEPT !.phase = "asked"]
        /\ UNCHANGED <<uni, bidi, acks>> /\ srv.phase = "waiting"
    BY <1>1 DEF WriteRequest, UnderWay, Phased
  <1>3. uni' \in UniType3 /\ bidi' \in BidiType3 /\ (uni'.cut => SplitInts)
    BY <1>1, <1>2 DEF UnderWay, Typed3
  <1>4. UnderWay'
    BY <1>1, <1>2, <1>3, Moved
  <1>5. client'.result = "none"
    BY <1>4 DEF UnderWay
  <1>6. agree' = TRUE
    <2>1. PICK fields \in Fields3 \X Fields3 :
            agree' = (agree /\ DecodeSection(NoTable, EncodeSection(fields)) = {fields})
      BY DEF WriteRequest
    <2> DEFINE ls == [i \in DOMAIN fields |-> EncodeField(fields[i])]
    <2>a. PICK f \in Fields3, g \in Fields3 : fields = <<f, g>>
      OBVIOUS
    <2>2. fields \in Seq(Fields3) /\ Len(fields) = 2 /\ DOMAIN fields = 1 .. 2
      BY <2>a
    <2>3. Len(ls) = 2 /\ \A i \in 1 .. 2 : ls[i] = EncodeField(fields[i])
      <3>1. ls = [i \in 1 .. 2 |-> EncodeField(fields[i])]
        BY <2>2
      <3> HIDE DEF ls
      <3> QED BY <3>1
    <2>4. EncodeSection(fields) = [ric |-> 0, sign |-> FALSE, delta |-> 0, lines |-> ls]
      BY DEF EncodeSection
    <2> HIDE DEF ls
    <2>5. NoTable.inserted \in Nat
      BY DEF NoTable
    <2>6. DecodeSection(NoTable, EncodeSection(fields)) = {fields}
      BY <2>2, <2>3, <2>4, <2>5, StaticRead
    <2> QED BY <1>1, <2>1, <2>6
  <1> QED BY <1>4, <1>5, <1>6, H3Kept

\* What a datagram brings of a stream is appended to what is here.
Brought(s, t, k) == s \o SubSeq(t, 1, k)
Awaited(t, k) == SubSeq(t, k + 1, Len(t))
Stream(s, t) == s \o t

LEMMA Rejoined ==
    \A E : \A s, t \in Seq(E) : \A k \in 0 .. Len(t) :
        /\ Awaited(t, k) \in Seq(E) /\ Brought(s, t, k) \in Seq(E)
        /\ Stream(Brought(s, t, k), Awaited(t, k)) = Stream(s, t)
  <1> SUFFICES ASSUME NEW E, NEW s \in Seq(E), NEW t \in Seq(E), NEW k \in 0 .. Len(t)
      PROVE  /\ Awaited(t, k) \in Seq(E) /\ Brought(s, t, k) \in Seq(E)
             /\ Stream(Brought(s, t, k), Awaited(t, k)) = Stream(s, t)
    BY Zenon
  <1> DEFINE a == SubSeq(t, 1, k)
             b == SubSeq(t, k + 1, Len(t))
  <1>1. a \in Seq(E) /\ b \in Seq(E)
    OBVIOUS
  <1>2. a \o b = t
    <2>1. 1 \in 1 .. Len(t) + 1 /\ k \in 1 - 1 .. Len(t) /\ Len(t) \in k .. Len(t)
      OBVIOUS
    <2>2. a \o b = SubSeq(t, 1, Len(t))
      BY <2>1, ConcatAdjacentSubSeq
    <2> QED BY <2>2, SubSeqFull
  <1>0. Brought(s, t, k) = s \o a /\ Awaited(t, k) = b
    BY DEF Brought, Awaited
  <1> HIDE DEF a, b
  <1>3. (s \o a) \o b = s \o (a \o b) /\ s \o a \in Seq(E)
    BY <1>1, ConcatAssociative
  <1> QED BY <1>0, <1>1, <1>2, <1>3 DEF Stream

LEMMA PumpInv == ASSUME H3Inv, Pump PROVE H3Inv'
  <1>1. UnderWay /\ agree = TRUE /\ agree' = agree
    BY DEF Pump, H3Inv
  <1>2. /\ client' = [client EXCEPT !.pc = "read"] /\ UNCHANGED <<acks, srv>> /\ client.pc = "pump"
    BY DEF Pump
  <1>3. PICK u \in 0 .. Len(uni.wire), b \in 0 .. Len(bidi.wire), cut \in {FALSE, SplitInts} :
          /\ uni' = [wire |-> SubSeq(uni.wire, u + 1, Len(uni.wire)),
                     here |-> uni.here \o SubSeq(uni.wire, 1, u), cut |-> cut]
          /\ bidi' = [wire |-> SubSeq(bidi.wire, b + 1, Len(bidi.wire)),
                      here |-> bidi.here \o SubSeq(bidi.wire, 1, b)]
    BY DEF Pump
  <1>4. /\ uni.wire \in Seq(InstructionType) /\ uni.here \in Seq(InstructionType)
        /\ bidi.wire \in Seq(Frames3) /\ bidi.here \in Seq(Frames3) /\ SplitInts \in BOOLEAN
    BY <1>1, Http3Assumption DEF UnderWay, Typed3, UniType3, BidiType3
  <1>a. /\ uni'.here = Brought(uni.here, uni.wire, u) /\ uni'.wire = Awaited(uni.wire, u) /\ uni'.cut = cut
        /\ bidi'.here = Brought(bidi.here, bidi.wire, b) /\ bidi'.wire = Awaited(bidi.wire, b)
        /\ uni' = [wire |-> Awaited(uni.wire, u), here |-> Brought(uni.here, uni.wire, u), cut |-> cut]
        /\ bidi' = [wire |-> Awaited(bidi.wire, b), here |-> Brought(bidi.here, bidi.wire, b)]
    BY <1>3 DEF Brought, Awaited
  <1>b. /\ uni'.here \in Seq(InstructionType) /\ uni'.wire \in Seq(InstructionType)
        /\ Stream(uni'.here, uni'.wire) = Stream(uni.here, uni.wire)
    <2>1. /\ Awaited(uni.wire, u) \in Seq(InstructionType) /\ Brought(uni.here, uni.wire, u) \in Seq(InstructionType)
          /\ Stream(Brought(uni.here, uni.wire, u), Awaited(uni.wire, u)) = Stream(uni.here, uni.wire)
      BY <1>4, Rejoined, Zenon
    <2> QED BY <1>a, <2>1
  <1>c. /\ bidi'.here \in Seq(Frames3) /\ bidi'.wire \in Seq(Frames3)
        /\ Stream(bidi'.here, bidi'.wire) = Stream(bidi.here, bidi.wire)
    BY <1>a, <1>4, Rejoined
  <1>5. /\ uni' \in UniType3 /\ bidi' \in BidiType3 /\ (uni'.cut => SplitInts)
    <2>2. cut \in BOOLEAN
      BY <1>4
    <2>3. uni' \in UniType3
      BY <1>a, <1>b, <2>2 DEF UniType3
    <2>4. bidi' \in BidiType3
      BY <1>a, <1>c DEF BidiType3
    <2> QED BY <1>a, <2>3, <2>4
  <1>6. uni'.here \o uni'.wire = uni.here \o uni.wire /\ bidi'.here \o bidi'.wire = bidi.here \o bidi.wire
    BY <1>b, <1>c DEF Stream
  <1>7. srv' = [srv EXCEPT !.phase = srv.phase]
    BY <1>1, <1>2 DEF UnderWay, Typed3, ServerType3
  <1>8. UnderWay'
    BY <1>1, <1>2, <1>5, <1>6, <1>7, Moved
  <1>9. client'.result = "none"
    BY <1>8 DEF UnderWay
  <1> QED BY <1>1, <1>8, <1>9, H3Kept

LEMMA PumpClosedInv == ASSUME H3Inv, PumpClosed PROVE H3Inv'
  <1>1. UnderWay /\ agree = TRUE /\ agree' = agree
    BY DEF PumpClosed, H3Inv
  <1>2. /\ client' = [client EXCEPT !.pc = "read"] /\ UNCHANGED <<uni, bidi, acks, srv>>
    BY DEF PumpClosed
  <1>3. /\ srv' = [srv EXCEPT !.phase = srv.phase] /\ uni' \in UniType3 /\ bidi' \in BidiType3
        /\ (uni'.cut => SplitInts)
    BY <1>1, <1>2 DEF UnderWay, Typed3, ServerType3
  <1>4. UnderWay'
    BY <1>1, <1>2, <1>3, Moved
  <1>5. client'.result = "none"
    BY <1>4 DEF UnderWay
  <1> QED BY <1>1, <1>4, <1>5, H3Kept

-----------------------------------------------------------------------------
(* What the server does.                                                   *)

LEMMA JoinAppend ==
    \A E : \A s, t \in Seq(E) : \A x \in E :
        Append(t, x) \in Seq(E) /\ Stream(s, t) \in Seq(E) /\ Stream(s, Append(t, x)) = Append(Stream(s, t), x)
  <1> SUFFICES ASSUME NEW E, NEW s \in Seq(E), NEW t \in Seq(E), NEW x \in E
      PROVE  Append(t, x) \in Seq(E) /\ Stream(s, t) \in Seq(E)
             /\ Stream(s, Append(t, x)) = Append(Stream(s, t), x)
    BY Zenon
  <1> QED BY DEF Stream

\* An instruction: no entry goes that a section under way refers to, or whose insert may
\* not have been received.
LEMMA InstructInv == ASSUME H3Inv, Instruct PROVE H3Inv'
  <1>1. UnderWay /\ agree = TRUE /\ agree' = agree /\ UNCHANGED <<client, bidi, acks>>
    BY DEF Instruct, Answering, H3Inv
  <1>2. Typed3 /\ Phased /\ KnownReceived /\ TablesMeet /\ TalliesMeet /\ client.result = "none"
    BY <1>1 DEF UnderWay
  <1>a. PICK i \in Instructions : \E t \in Apply(srv.table, i) :
          /\ MayEvict(t) /\ srv' = [srv EXCEPT !.table = t] /\ uni' = [uni EXCEPT !.wire = Append(@, i)]
    BY DEF Instruct
  <1>3. PICK t \in Apply(srv.table, i) :
          /\ MayEvict(t) /\ srv' = [srv EXCEPT !.table = t] /\ uni' = [uni EXCEPT !.wire = Append(@, i)]
    BY <1>a
  <1> DEFINE ins == Stream(uni.here, uni.wire)
  <1>4. /\ uni.wire \in Seq(InstructionType) /\ uni.here \in Seq(InstructionType) /\ ins \in Seq(InstructionType)
        /\ srv.table \in Tables3 /\ srv.table.inserted \in Nat /\ srv.table.dropped \in Nat /\ srv.known \in Nat
        /\ client.table.inserted \in Nat
    <2>1. uni.wire \in Seq(InstructionType) /\ uni.here \in Seq(InstructionType)
      BY <1>2 DEF Typed3, UniType3
    <2>2. ins \in Seq(InstructionType)
      BY <2>1 DEF Stream
    <2> QED BY <1>2, <2>1, <2>2 DEF Typed3, ServerType3, ClientType3, Tables3
  <1>5. i \in InstructionType /\ (i.kind # "capacity" => srv.table.inserted # Len(Inserts))
    <2> DEFINE f == Inserts[srv.table.inserted + 1]
               live == 0 .. Len(srv.table.entries) - 1
    <2>1. MaxCapacity \in Nat /\ MaxCapacity \div 2 \in Nat /\ Inserts \in Seq(Fields3) /\ Len(Inserts) \in Nat
      BY Http3Assumption
    <2>2. CASE i \in [kind : {"capacity"}, cap : {MaxCapacity, MaxCapacity \div 2}]
      <3>1. i \in [kind : {"capacity"}, cap : Nat]
        BY <2>1, <2>2
      <3> QED BY <3>1 DEF InstructionType
    <2>3. CASE /\ srv.table.inserted # Len(Inserts)
               /\ i \in [kind : {"literal"}, field : {f}]
                        \cup [kind : {"static"}, index : DOMAIN Static3, field : {f}]
                        \cup [kind : {"named"}, index : live, field : {f}]
                        \cup [kind : {"duplicate"}, index : live \ {0}]
      <3>1. f \in Fields3
        <4>1. srv.table.inserted + 1 \in 1 .. Len(Inserts)
          BY <1>2, <1>4, <2>1, <2>3 DEF KnownReceived
        <4> QED BY <2>1, <4>1
      <3>2. live \subseteq Nat
        OBVIOUS
      <3> HIDE DEF f, live
      <3>3. i \in [kind : {"literal"}, field : Fields3]
                  \cup [kind : {"static"}, index : DOMAIN Static3, field : Fields3]
                  \cup [kind : {"named"}, index : Nat, field : Fields3]
                  \cup [kind : {"duplicate"}, index : Nat]
        BY <2>3, <3>1, <3>2
      <3> QED BY <2>3, <3>3 DEF InstructionType
    <2> QED BY <1>3, <2>2, <2>3 DEF Instructions
  <1>6. PICK c : Leads(c, ins, client.table, srv.table)
    BY <1>2 DEF TablesMeet, Stream
  <1> HIDE DEF ins
  <1>7. /\ \E d : Leads(d, Append(ins, i), client.table, t)
        /\ TableOK(t) /\ Grows(srv.table, t)
        /\ t.inserted = IF i.kind = "capacity" THEN srv.table.inserted ELSE srv.table.inserted + 1
    BY <1>3, <1>4, <1>5, <1>6, LeadsOn
  <1>t. t \in Tables3 /\ t.inserted \in Nat /\ t.dropped \in Nat
        /\ srv.table.dropped <= t.dropped /\ srv.table.inserted <= t.inserted
    BY <1>7 DEF TableOK, Tables3, Grows
  <1>8. /\ uni' \in UniType3 /\ uni'.cut = uni.cut /\ uni'.here \o uni'.wire = Append(ins, i)
    <2>1. /\ uni'.here = uni.here /\ uni'.wire = Append(uni.wire, i) /\ uni'.cut = uni.cut
      BY <1>2, <1>3 DEF Typed3, UniType3
    <2>2. Append(uni.wire, i) \in Seq(InstructionType) /\ Stream(uni.here, Append(uni.wire, i)) = Append(ins, i)
      BY <1>4, <1>5, JoinAppend DEF ins
    <2>4. uni'.here \o uni'.wire = Stream(uni.here, Append(uni.wire, i))
      BY <2>1 DEF Stream
    <2>3. uni' \in UniType3
      BY <1>2, <1>3, <2>2 DEF Typed3, UniType3
    <2> QED BY <2>1, <2>2, <2>3, <2>4
  <1>9. /\ srv' \in ServerType3 /\ srv'.table = t /\ srv'.known = srv.known /\ srv'.unacked = srv.unacked
        /\ srv'.headers = srv.headers /\ srv'.body = srv.body /\ srv'.phase = srv.phase
    BY <1>2, <1>3, <1>t DEF Typed3, ServerType3
  <1>10. Typed3'
    BY <1>1, <1>2, <1>8, <1>9 DEF Typed3
  <1>11. Phased'
    BY <1>1, <1>2, <1>9 DEF Phased
  <1>12. KnownReceived'
    <2>1. t.inserted <= Len(Inserts)
      <3>1. Len(Inserts) \in Nat
        BY Http3Assumption
      <3> QED BY <1>2, <1>4, <1>5, <1>7, <3>1 DEF KnownReceived
    <2>2. t.dropped <= srv.known
      <3> SUFFICES ASSUME t.dropped > srv.known PROVE FALSE
        BY <1>4, <1>t
      <3>1. t.dropped - 1 \in srv.table.dropped .. t.dropped - 1
        BY <1>2, <1>4, <1>t DEF KnownReceived
      <3>2. t.dropped - 1 < srv.known
        BY <1>3, <3>1 DEF MayEvict
      <3> QED BY <1>4, <1>t, <3>2
    <2> QED BY <1>1, <1>2, <1>9, <2>1, <2>2 DEF KnownReceived
  <1>13. TablesMeet'
    BY <1>1, <1>7, <1>8, <1>9 DEF TablesMeet
  <1>14. TalliesMeet'
    <2> DEFINE frames == bidi.here \o bidi.wire
    <2>1. PICK d : Tallied(d, frames, ClientTally, ServerTally, srv)
      BY <1>2 DEF TalliesMeet
    <2>2. ASSUME NEW j \in 1 .. Len(frames) PROVE Refers(frames[j], d[j - 1], srv')
      <3> DEFINE x == frames[j]
                 k == d[j - 1]
      <3>1. Refers(x, k, srv) /\ k \in Tallies
        <4>1. frames \in Seq(Frames3)
          BY <1>2 DEF Typed3, BidiType3
        <4> HIDE DEF frames
        <4>2. j - 1 \in 0 .. Len(frames)
          BY <4>1
        <4> QED BY <2>1, <4>2 DEF Tallied
      <3>2. x \in Frames3
        <4>1. frames \in Seq(Frames3)
          BY <1>2 DEF Typed3, BidiType3
        <4> HIDE DEF frames
        <4> QED BY <4>1
      <3> HIDE DEF x, k
      <3> SUFFICES ASSUME x.kind = "headers", x.need # 0
                   PROVE  /\ t.dropped < x.need /\ x.need <= t.inserted
                          /\ x.fields = <<Entry(t, x.need - 1)>>
                          /\ k.acks < Len(srv.unacked)
                          /\ srv.unacked[k.acks + 1] = [refs |-> {x.need - 1}, need |-> x.need]
        BY <1>9, Zenon DEF Refers, x, k
      <3>3. /\ srv.table.dropped < x.need /\ x.need <= srv.table.inserted
            /\ x.fields = <<Entry(srv.table, x.need - 1)>>
            /\ k.acks < Len(srv.unacked) /\ srv.unacked[k.acks + 1] = [refs |-> {x.need - 1}, need |-> x.need]
        BY <3>1, Zenon DEF Refers
      <3>4. x.need \in Nat /\ k.acks \in Nat
        BY <3>1, <3>2, FrameCases DEF Tallies
      <3>5. k.acks + 1 \in DOMAIN srv.unacked
        BY <1>2, <3>3, <3>4 DEF Typed3, ServerType3
      <3>6. x.need - 1 \notin srv.table.dropped .. t.dropped - 1
        <4>1. x.need - 1 \in srv.unacked[k.acks + 1].refs
          BY <3>3
        <4> QED BY <1>3, <3>5, <4>1 DEF MayEvict
      <3>7. t.dropped < x.need
        BY <1>4, <1>t, <3>3, <3>4, <3>6
      <3>8. x.need <= t.inserted
        BY <1>4, <1>t, <3>3, <3>4
      <3>9. Entry(srv.table, x.need - 1) = Entry(t, x.need - 1)
        <4>a. x.need \in Nat /\ t.dropped \in Nat /\ srv.table.inserted \in Nat
              /\ t.dropped < x.need /\ x.need <= srv.table.inserted
          BY <1>4, <1>t, <3>3, <3>4, <3>7
        <4>1. x.need - 1 \in t.dropped .. srv.table.inserted - 1
          BY <4>a
        <4> QED BY <1>7, <4>1 DEF Grows
      <3> QED BY <3>3, <3>7, <3>8, <3>9
    <2>3. ServerTally' = ServerTally /\ ClientTally' = ClientTally
      BY <1>1, <1>9 DEF ServerTally, ClientTally
    <2>4. Tallied(d, frames, ClientTally, ServerTally, srv')
      BY <2>1, <2>2 DEF Tallied
    <2>5. Tallied(d, bidi'.here \o bidi'.wire, ClientTally', ServerTally', srv')
      BY <1>1, <2>3, <2>4
    <2> QED BY <2>5 DEF TalliesMeet
  <1>15. UnderWay'
    BY <1>1, <1>2, <1>10, <1>11, <1>12, <1>13, <1>14 DEF UnderWay
  <1> QED BY <1>1, <1>2, <1>15, H3Kept

\* Frames are added behind the others; the server keeps what it kept.
LEMMA TalliedSent ==
    ASSUME NEW c, NEW frames \in Seq(Frames3), NEW first, NEW last, NEW s, Tallied(c, frames, first, last, s),
           NEW x \in Frames3, NEW s2, s2.table = s.table, Len(s.unacked) \in Nat, Len(s2.unacked) \in Nat,
           Len(s.unacked) <= Len(s2.unacked), \A i \in 1 .. Len(s.unacked) : s2.unacked[i] = s.unacked[i],
           Refers(x, last, s2)
    PROVE  \E d : Tallied(d, Append(frames, x), first, Counted(last, x), s2)
  <1>1. ASSUME NEW i \in 1 .. Len(frames) PROVE Refers(frames[i], c[i - 1], s2)
    <2> DEFINE y == frames[i]
               k == c[i - 1]
    <2>1. i - 1 \in 0 .. Len(frames)
      OBVIOUS
    <2>2. Refers(y, k, s) /\ k \in Tallies
      BY <2>1 DEF Tallied
    <2>3. k.acks \in Nat
      BY <2>2 DEF Tallies
    <2> HIDE DEF y, k
    <2> SUFFICES ASSUME y.kind = "headers", y.need # 0
                 PROVE  /\ s2.table.dropped < y.need /\ y.need <= s2.table.inserted
                        /\ y.fields = <<Entry(s2.table, y.need - 1)>>
                        /\ k.acks < Len(s2.unacked)
                        /\ s2.unacked[k.acks + 1] = [refs |-> {y.need - 1}, need |-> y.need]
      BY Zenon DEF Refers, y, k
    <2>4. /\ s.table.dropped < y.need /\ y.need <= s.table.inserted
          /\ y.fields = <<Entry(s.table, y.need - 1)>>
          /\ k.acks < Len(s.unacked) /\ s.unacked[k.acks + 1] = [refs |-> {y.need - 1}, need |-> y.need]
      BY <2>2, Zenon DEF Refers
    <2>5. k.acks + 1 \in 1 .. Len(s.unacked) /\ k.acks < Len(s2.unacked)
      BY <2>3, <2>4
    <2> QED BY <2>4, <2>5
  <1> QED BY <1>1, TalliedOn

LEMMA ServerSent ==
    ASSUME UnderWay, UNCHANGED <<client, uni, acks>>, srv.phase # "waiting",
           bidi' \in BidiType3, srv' \in ServerType3, srv'.table = srv.table, srv'.known = srv.known,
           \A i \in 1 .. Len(srv.unacked) : srv'.unacked[i] = srv.unacked[i],
           srv'.headers = Nothing <=> srv'.phase \in {"waiting", "asked"},
           Shaped(bidi'.here \o bidi'.wire, srv'.phase),
           NEW d, Tallied(d, bidi'.here \o bidi'.wire, ClientTally, ServerTally', srv')
    PROVE  UnderWay'
  <1>1. Typed3 /\ Phased /\ KnownReceived /\ TablesMeet /\ TalliesMeet /\ client.result = "none"
    BY DEF UnderWay
  <1>2. Typed3'
    BY <1>1 DEF Typed3
  <1>3. Phased'
    BY <1>1 DEF Phased
  <1>4. KnownReceived'
    <2>1. acks <= Len(srv.unacked) /\ acks \in Nat /\ Len(srv.unacked) \in Nat
      <3> DEFINE frames == bidi.here \o bidi.wire
      <3>1. PICK c : Tallied(c, frames, ClientTally, ServerTally, srv)
        BY <1>1 DEF TalliesMeet
      <3>2. frames \in Seq(Frames3)
        BY <1>1 DEF Typed3, BidiType3
      <3> HIDE DEF frames
      <3>3. 0 \in 0 .. Len(frames)
        BY <3>2
      <3>4. c[0] = ClientTally /\ c[0].acks <= ServerTally.acks
        BY <3>1, <3>3 DEF Tallied
      <3> QED BY <1>1, <3>4 DEF ClientTally, ServerTally, Typed3, ServerType3
    <2>2. \A a \in 1 .. acks : a \in 1 .. Len(srv.unacked)
      BY <2>1
    <2> QED BY <1>1, <2>2 DEF KnownReceived
  <1>5. TablesMeet'
    BY <1>1 DEF TablesMeet
  <1>6. TalliesMeet'
    <2>1. ClientTally' = ClientTally
      BY DEF ClientTally
    <2>2. Tallied(d, bidi'.here \o bidi'.wire, ClientTally', ServerTally', srv')
      BY <2>1
    <2> QED BY <2>2 DEF TalliesMeet
  <1> QED BY <1>1, <1>2, <1>3, <1>4, <1>5, <1>6 DEF UnderWay

LEMMA ShapedOn ==
    ASSUME NEW frames \in Seq(Frames3), NEW phase, Shaped(frames, phase), phase \notin {"ended", "truncated"},
           NEW x \in Frames3
    PROVE  /\ x.kind \notin {"stub", "fin"} =>
                \A p : p \notin {"ended", "truncated"} => Shaped(Append(frames, x), p)
           /\ x.kind = "fin" => Shaped(Append(frames, x), "ended")
           /\ x.kind = "stub" => \A y \in Frames3 : y.kind = "fin" => Shaped(Append(Append(frames, x), y), "truncated")
  <1> DEFINE n == Len(frames)
             more == Append(frames, x)
  <1>1. /\ n \in Nat /\ Len(more) = n + 1 /\ more[n + 1] = x /\ more \in Seq(Frames3)
        /\ \A k \in 1 .. n : more[k] = frames[k]
    OBVIOUS
  <1>2. \A k \in 1 .. n : frames[k].kind \notin {"stub", "fin"}
    BY DEF Shaped
  <1> HIDE DEF n, more
  <1>3. \A k \in 1 .. n + 1 : k \in 1 .. n \/ k = n + 1
    BY <1>1
  <1>4. \A k \in 1 .. n : more[k].kind \notin {"stub", "fin"}
    BY <1>1, <1>2
  <1>5. ASSUME x.kind \notin {"stub", "fin"}, NEW p, p \notin {"ended", "truncated"} PROVE Shaped(more, p)
    <2>1. \A k \in 1 .. n + 1 : more[k].kind \notin {"stub", "fin"}
      BY <1>1, <1>3, <1>4, <1>5
    <2> QED BY <1>1, <1>5, <2>1 DEF Shaped
  <1>6. ASSUME x.kind = "fin" PROVE Shaped(more, "ended")
    BY <1>1, <1>3, <1>4, <1>6 DEF Shaped
  <1>7. ASSUME x.kind = "stub", NEW y \in Frames3, y.kind = "fin" PROVE Shaped(Append(more, y), "truncated")
    <2> DEFINE all == Append(more, y)
    <2>1. /\ Len(all) = n + 2 /\ all[n + 2] = y /\ all[n + 1] = x
          /\ \A k \in 1 .. n : all[k] = more[k]
      BY <1>1
    <2>2. \A k \in 1 .. n + 2 : k \in 1 .. n \/ k = n + 1 \/ k = n + 2
      BY <1>1
    <2> HIDE DEF all
    <2>3. \A k \in 1 .. n : all[k].kind \notin {"stub", "fin"}
      BY <1>4, <2>1
    <2>4. \A k \in 1 .. Len(all) :
            /\ all[k].kind = "fin" => k = Len(all)
            /\ all[k].kind = "stub" => k = Len(all) - 1
      <3> SUFFICES ASSUME NEW k \in 1 .. n + 2
                   PROVE  (all[k].kind = "fin" => k = n + 2) /\ (all[k].kind = "stub" => k = n + 1)
        BY <1>1, <2>1
      <3> QED BY <1>1, <1>7, <2>1, <2>2, <2>3
    <2> QED BY <1>1, <1>7, <2>1, <2>4 DEF Shaped, all
  <1> QED BY <1>5, <1>6, <1>7 DEF more

\* What a server's section is.
LEMMA SectionCases ==
    ASSUME TableOK(srv.table), NEW x \in Section
    PROVE  LET f == [kind |-> "headers", section |-> x.section, fields |-> x.fields, need |-> x.need]
           IN  /\ f \in Frames3 /\ x.need \in Nat /\ x.fields \in Seq(Entries3) /\ x.fields # Nothing
               /\ x.need # 0 => /\ x.refs = {x.need - 1}
                                /\ srv.table.dropped < x.need /\ x.need <= srv.table.inserted
                                /\ x.fields = <<Entry(srv.table, x.need - 1)>>
  <1> DEFINE f == [kind |-> "headers", section |-> x.section, fields |-> x.fields, need |-> x.need]
  <1>1. ASSUME NEW g \in {Head(Static3), Head(Inserts)},
               x = [section |-> [ric |-> 0, sign |-> FALSE, delta |-> 0, lines |-> <<EncodeField(g)>>],
                    fields |-> <<g>>, refs |-> {}, need |-> 0]
        PROVE  /\ f \in Frames3 /\ x.need \in Nat /\ x.fields \in Seq(Entries3) /\ x.fields # Nothing
               /\ x.need = 0
    <2>1. g \in Fields3
      BY Http3Assumption
    <2>2. x.section = [ric |-> 0, sign |-> FALSE, delta |-> 0, lines |-> <<EncodeField(g)>>]
          /\ x.fields = <<g>> /\ x.need = 0
      BY <1>1
    <2>3. f = [kind |-> "headers",
               section |-> [ric |-> 0, sign |-> FALSE, delta |-> 0, lines |-> <<EncodeField(g)>>],
               fields |-> <<g>>, need |-> 0]
      BY <2>2
    <2>4. f \in StaticFrames
      BY <2>1, <2>3 DEF StaticFrames
    <2>5. g \in Entries3
      BY <2>1, FieldsAreEntries
    <2>6. <<g>> \in Seq(Entries3) /\ <<g>> # Nothing
      BY <2>5 DEF Nothing
    <2> QED BY <2>2, <2>4, <2>6 DEF Frames3
  <1>2. ASSUME NEW abs \in srv.table.dropped .. srv.table.inserted - 1, NEW base \in 0 .. srv.table.inserted,
               x = LET need == abs + 1
                       line == IF abs < base THEN [kind |-> "dynamic", index |-> base - 1 - abs]
                               ELSE [kind |-> "postbase", index |-> abs - base]
                   IN  [section |-> [ric |-> (need % (2 * MaxEntries)) + 1,
                                     sign |-> base < need,
                                     delta |-> IF base < need THEN need - base - 1 ELSE base - need,
                                     lines |-> <<line>>],
                        fields |-> <<Entry(srv.table, abs)>>, refs |-> {abs}, need |-> need]
        PROVE  /\ f \in Frames3 /\ x.need \in Nat /\ x.fields \in Seq(Entries3) /\ x.fields # Nothing
               /\ x.refs = {x.need - 1}
               /\ srv.table.dropped < x.need /\ x.need <= srv.table.inserted
               /\ x.fields = <<Entry(srv.table, x.need - 1)>>
    <2> DEFINE need == abs + 1
               e == Entry(srv.table, abs)
    <2>0. srv.table.dropped \in Nat /\ srv.table.inserted \in Nat
      BY DEF TableOK, Tables3
    <2>1. /\ need \in Nat \ {0} /\ base \in Nat /\ need - 1 = abs
          /\ srv.table.dropped < need /\ need <= srv.table.inserted
      BY <2>0
    <2>2. e \in Entries3
      BY EntryFound
    <2>3. /\ x.refs = {abs} /\ x.need = need /\ x.fields = <<e>>
          /\ x.section = [ric |-> (need % (2 * MaxEntries)) + 1, sign |-> base < need,
                          delta |-> IF base < need THEN need - base - 1 ELSE base - need,
                          lines |-> <<IF abs < base THEN [kind |-> "dynamic", index |-> base - 1 - abs]
                                      ELSE [kind |-> "postbase", index |-> abs - base]>>]
      BY <1>2
    <2> HIDE DEF need, e
    <2>4. x.section = Referring(need, base)
      BY <2>1, <2>3 DEF Referring
    <2>5. f = [kind |-> "headers", section |-> Referring(need, base), fields |-> <<e>>, need |-> need]
      BY <2>3, <2>4
    <2>6. f \in DynamicFrames
      BY <2>1, <2>2, <2>5 DEF DynamicFrames
    <2>7. <<e>> \in Seq(Entries3) /\ <<e>> # Nothing
      BY <2>2 DEF Nothing
    <2> QED BY <2>1, <2>3, <2>6, <2>7 DEF Frames3, e
  <1>3. \/ \E g \in {Head(Static3), Head(Inserts)} :
            x = [section |-> [ric |-> 0, sign |-> FALSE, delta |-> 0, lines |-> <<EncodeField(g)>>],
                 fields |-> <<g>>, refs |-> {}, need |-> 0]
        \/ \E abs \in srv.table.dropped .. srv.table.inserted - 1, base \in 0 .. srv.table.inserted :
            x = LET need == abs + 1
                    line == IF abs < base THEN [kind |-> "dynamic", index |-> base - 1 - abs]
                            ELSE [kind |-> "postbase", index |-> abs - base]
                IN  [section |-> [ric |-> (need % (2 * MaxEntries)) + 1,
                                  sign |-> base < need,
                                  delta |-> IF base < need THEN need - base - 1 ELSE base - need,
                                  lines |-> <<line>>],
                     fields |-> <<Entry(srv.table, abs)>>, refs |-> {abs}, need |-> need]
    BY SMT DEF Section
  <1> HIDE DEF f
  <1>4. CASE \E g \in {Head(Static3), Head(Inserts)} :
                x = [section |-> [ric |-> 0, sign |-> FALSE, delta |-> 0, lines |-> <<EncodeField(g)>>],
                     fields |-> <<g>>, refs |-> {}, need |-> 0]
    BY <1>1, <1>4, Zenon DEF f
  <1>5. CASE \E abs \in srv.table.dropped .. srv.table.inserted - 1, base \in 0 .. srv.table.inserted :
            x = LET need == abs + 1
                    line == IF abs < base THEN [kind |-> "dynamic", index |-> base - 1 - abs]
                            ELSE [kind |-> "postbase", index |-> abs - base]
                IN  [section |-> [ric |-> (need % (2 * MaxEntries)) + 1,
                                  sign |-> base < need,
                                  delta |-> IF base < need THEN need - base - 1 ELSE base - need,
                                  lines |-> <<line>>],
                     fields |-> <<Entry(srv.table, abs)>>, refs |-> {abs}, need |-> need]
    BY <1>2, <1>5, Zenon DEF f
  <1> QED BY <1>3, <1>4, <1>5

LEMMA SendSectionInv == ASSUME H3Inv, SendSection PROVE H3Inv'
  <1>1. UnderWay /\ agree = TRUE /\ agree' = agree /\ UNCHANGED <<client, uni, acks>>
        /\ srv.phase \in {"asked", "body"}
    BY DEF SendSection, Answering, H3Inv
  <1>2. Typed3 /\ Phased /\ KnownReceived /\ TablesMeet /\ TalliesMeet /\ client.result = "none"
    BY <1>1 DEF UnderWay
  <1>3. PICK x \in Section :
          /\ bidi' = [bidi EXCEPT !.wire = Append(@, [kind |-> "headers", section |-> x.section,
                                                      fields |-> x.fields, need |-> x.need])]
          /\ srv' = [srv EXCEPT !.unacked = IF x.need = 0 THEN @ ELSE Append(@, [refs |-> x.refs, need |-> x.need]),
                                !.headers = IF srv.phase = "asked" THEN x.fields ELSE @,
                                !.phase = IF srv.phase = "asked" THEN "body" ELSE "trailed"]
    BY DEF SendSection
  <1> DEFINE f == [kind |-> "headers", section |-> x.section, fields |-> x.fields, need |-> x.need]
             frames == Stream(bidi.here, bidi.wire)
             u == IF x.need = 0 THEN srv.unacked ELSE Append(srv.unacked, [refs |-> x.refs, need |-> x.need])
             h == IF srv.phase = "asked" THEN x.fields ELSE srv.headers
             p == IF srv.phase = "asked" THEN "body" ELSE "trailed"
  <1>t. TableOK(srv.table)
    <2> DEFINE ins == uni.here \o uni.wire
    <2>1. PICK c : Leads(c, ins, client.table, srv.table)
      BY <1>2 DEF TablesMeet
    <2>2. ins \in Seq(InstructionType)
      BY <1>2 DEF Typed3, UniType3
    <2> HIDE DEF ins
    <2>3. Len(ins) \in 0 .. Len(ins)
      BY <2>2
    <2> QED BY <2>1, <2>3 DEF Leads
  <1>4. /\ f \in Frames3 /\ x.need \in Nat /\ x.fields \in Seq(Entries3) /\ x.fields # Nothing
        /\ x.need # 0 => /\ x.refs = {x.need - 1}
                         /\ srv.table.dropped < x.need /\ x.need <= srv.table.inserted
                         /\ x.fields = <<Entry(srv.table, x.need - 1)>>
    BY <1>t, SectionCases
  <1>f. f.kind = "headers" /\ f.fields = x.fields /\ f.need = x.need
    OBVIOUS
  <1> HIDE DEF f
  <1>5. bidi' = [bidi EXCEPT !.wire = Append(bidi.wire, f)] /\ srv' = [srv EXCEPT !.unacked = u, !.headers = h, !.phase = p]
    BY <1>3 DEF f
  <1>6. /\ srv.unacked \in Seq(References) /\ srv.headers \in Seq(Entries3) /\ srv.body \in Nat
        /\ bidi.wire \in Seq(Frames3) /\ bidi.here \in Seq(Frames3)
    BY <1>2 DEF Typed3, ServerType3, BidiType3
  <1>7. /\ u \in Seq(References) /\ Len(srv.unacked) \in Nat /\ Len(u) \in Nat /\ Len(srv.unacked) <= Len(u)
        /\ \A i \in 1 .. Len(srv.unacked) : u[i] = srv.unacked[i]
        /\ Len(u) = IF x.need = 0 THEN Len(srv.unacked) ELSE Len(srv.unacked) + 1
        /\ x.need # 0 => u[Len(srv.unacked) + 1] = [refs |-> {x.need - 1}, need |-> x.need]
    <2>1. CASE x.need = 0
      BY <1>6, <2>1
    <2>2. CASE x.need # 0
      <3>1. x.refs \in SUBSET Nat /\ x.refs = {x.need - 1}
        BY <1>4, <2>2
      <3>2. [refs |-> x.refs, need |-> x.need] \in References
        BY <1>4, <3>1 DEF References
      <3> QED BY <1>6, <2>2, <3>1, <3>2
    <2> QED BY <2>1, <2>2
  <1>8. h \in Seq(Entries3) /\ p \in {"body", "trailed"}
    BY <1>4, <1>6
  <1> HIDE DEF u, h, p
  <1>9. /\ srv' \in ServerType3 /\ srv'.table = srv.table /\ srv'.known = srv.known /\ srv'.unacked = u
        /\ srv'.headers = h /\ srv'.body = srv.body /\ srv'.phase = p
    BY <1>2, <1>5, <1>7, <1>8 DEF Typed3, ServerType3
  <1>10. /\ bidi' \in BidiType3 /\ bidi'.here = bidi.here /\ bidi'.wire = Append(bidi.wire, f)
    <2>1. Append(bidi.wire, f) \in Seq(Frames3)
      BY <1>4, <1>6
    <2> QED BY <1>2, <1>5, <2>1 DEF Typed3, BidiType3
  <1>11. frames \in Seq(Frames3) /\ bidi'.here \o bidi'.wire = Append(frames, f)
    <2>1. frames \in Seq(Frames3) /\ Stream(bidi.here, Append(bidi.wire, f)) = Append(frames, f)
      BY <1>4, <1>6, JoinAppend
    <2> QED BY <1>10, <2>1 DEF Stream
  <1>12. PICK c : Tallied(c, frames, ClientTally, ServerTally, srv)
    BY <1>2 DEF TalliesMeet, Stream
  <1>13. Shaped(frames, srv.phase)
    BY <1>2 DEF Phased, Stream
  <1> HIDE DEF frames
  <1>14. ServerTally' = Counted(ServerTally, f)
    <2>1. h = IF srv.headers = Nothing THEN x.fields ELSE srv.headers
      BY <1>1, <1>2 DEF Phased, h
    <2>2. ServerTally' = [headers |-> h, body |-> srv.body, acks |-> Len(u)]
      BY <1>9 DEF ServerTally
    <2>3. Counted(ServerTally, f) = [headers |-> IF srv.headers = Nothing THEN x.fields ELSE srv.headers,
                                     body |-> srv.body, acks |-> IF x.need = 0 THEN Len(srv.unacked) ELSE Len(srv.unacked) + 1]
      BY <1>f DEF Counted, ServerTally
    <2> QED BY <1>7, <2>1, <2>2, <2>3
  <1>15. Refers(f, ServerTally, srv')
    <2> SUFFICES ASSUME x.need # 0
                 PROVE  /\ srv'.table.dropped < x.need /\ x.need <= srv'.table.inserted
                        /\ x.fields = <<Entry(srv'.table, x.need - 1)>>
                        /\ ServerTally.acks < Len(srv'.unacked)
                        /\ srv'.unacked[ServerTally.acks + 1] = [refs |-> {x.need - 1}, need |-> x.need]
      BY <1>f, Zenon DEF Refers
    <2>1. ServerTally.acks = Len(srv.unacked)
      BY DEF ServerTally
    <2>2. Len(srv.unacked) < Len(u)
      BY <1>7
    <2> QED BY <1>4, <1>7, <1>9, <2>1, <2>2
  <1>16. PICK d : Tallied(d, Append(frames, f), ClientTally, Counted(ServerTally, f), srv')
    <2>1. /\ srv'.table = srv.table /\ Len(srv.unacked) \in Nat /\ Len(srv'.unacked) \in Nat
          /\ Len(srv.unacked) <= Len(srv'.unacked)
          /\ \A i \in 1 .. Len(srv.unacked) : srv'.unacked[i] = srv.unacked[i]
      BY <1>7, <1>9
    <2> QED BY <1>4, <1>11, <1>12, <1>15, <2>1, TalliedSent
  <1>17. Tallied(d, bidi'.here \o bidi'.wire, ClientTally, ServerTally', srv')
    BY <1>11, <1>14, <1>16
  <1>18. Shaped(bidi'.here \o bidi'.wire, srv'.phase)
    <2>1. p \notin {"ended", "truncated"} /\ srv.phase \notin {"ended", "truncated"} /\ f.kind \notin {"stub", "fin"}
      BY <1>1, <1>8, <1>f
    <2>2. Shaped(Append(frames, f), p)
      BY <1>4, <1>11, <1>13, <2>1, ShapedOn
    <2> QED BY <1>9, <1>11, <2>2
  <1>19. srv'.headers = Nothing <=> srv'.phase \in {"waiting", "asked"}
    <2>1. h # Nothing
      BY <1>1, <1>2, <1>4 DEF Phased, h
    <2> QED BY <1>8, <1>9, <2>1
  <1>20. UnderWay'
    <2>1. \A i \in 1 .. Len(srv.unacked) : srv'.unacked[i] = srv.unacked[i]
      BY <1>7, <1>9
    <2>2. srv.phase # "waiting"
      BY <1>1
    <2> QED BY <1>1, <1>9, <1>10, <1>17, <1>18, <1>19, <2>1, <2>2, ServerSent
  <1> QED BY <1>1, <1>2, <1>20, H3Kept

LEMMA SendDataInv == ASSUME H3Inv, SendData PROVE H3Inv'
  <1>1. UnderWay /\ agree = TRUE /\ agree' = agree /\ UNCHANGED <<client, uni, acks>> /\ srv.phase = "body"
    BY DEF SendData, H3Inv
  <1>2. Typed3 /\ Phased /\ KnownReceived /\ TablesMeet /\ TalliesMeet /\ client.result = "none"
    BY <1>1 DEF UnderWay
  <1>3. PICK k \in {"data", "grease"} :
          /\ bidi' = [bidi EXCEPT !.wire = Append(@, [kind |-> k])]
          /\ srv' = [srv EXCEPT !.body = IF k = "data" THEN @ + 1 ELSE @]
    BY DEF SendData
  <1> DEFINE f == [kind |-> k]
             frames == Stream(bidi.here, bidi.wire)
             b == IF k = "data" THEN srv.body + 1 ELSE srv.body
  <1>4. f \in Frames3 /\ f.kind = k
    BY DEF Frames3
  <1>6. /\ srv.unacked \in Seq(References) /\ srv.headers \in Seq(Entries3) /\ srv.body \in Nat
        /\ bidi.wire \in Seq(Frames3) /\ bidi.here \in Seq(Frames3) /\ b \in Nat
    BY <1>2 DEF Typed3, ServerType3, BidiType3
  <1> HIDE DEF f
  <1>5. bidi' = [bidi EXCEPT !.wire = Append(bidi.wire, f)] /\ srv' = [srv EXCEPT !.body = b]
    BY <1>3 DEF f
  <1> HIDE DEF b
  <1>9. /\ srv' \in ServerType3 /\ srv'.table = srv.table /\ srv'.known = srv.known /\ srv'.unacked = srv.unacked
        /\ srv'.headers = srv.headers /\ srv'.body = b /\ srv'.phase = srv.phase
    BY <1>2, <1>5, <1>6 DEF Typed3, ServerType3
  <1>10. /\ bidi' \in BidiType3 /\ bidi'.here = bidi.here /\ bidi'.wire = Append(bidi.wire, f)
    <2>1. Append(bidi.wire, f) \in Seq(Frames3)
      BY <1>4, <1>6
    <2> QED BY <1>2, <1>5, <2>1 DEF Typed3, BidiType3
  <1>11. frames \in Seq(Frames3) /\ bidi'.here \o bidi'.wire = Append(frames, f)
    <2>1. frames \in Seq(Frames3) /\ Stream(bidi.here, Append(bidi.wire, f)) = Append(frames, f)
      BY <1>4, <1>6, JoinAppend
    <2> QED BY <1>10, <2>1 DEF Stream
  <1>12. PICK c : Tallied(c, frames, ClientTally, ServerTally, srv)
    BY <1>2 DEF TalliesMeet, Stream
  <1>13. Shaped(frames, srv.phase)
    BY <1>2 DEF Phased, Stream
  <1> HIDE DEF frames
  <1>14. ServerTally' = Counted(ServerTally, f)
    <2>1. ServerTally' = [headers |-> srv.headers, body |-> b, acks |-> Len(srv.unacked)]
      BY <1>9 DEF ServerTally
    <2> QED BY <1>4, <2>1 DEF Counted, ServerTally, b
  <1>15. Refers(f, ServerTally, srv')
    BY <1>4 DEF Refers
  <1>16. PICK d : Tallied(d, Append(frames, f), ClientTally, Counted(ServerTally, f), srv')
    <2>1. /\ srv'.table = srv.table /\ Len(srv.unacked) \in Nat /\ Len(srv'.unacked) \in Nat
          /\ Len(srv.unacked) <= Len(srv'.unacked)
          /\ \A i \in 1 .. Len(srv.unacked) : srv'.unacked[i] = srv.unacked[i]
      BY <1>6, <1>9
    <2> QED BY <1>4, <1>11, <1>12, <1>15, <2>1, TalliedSent
  <1>17. Tallied(d, bidi'.here \o bidi'.wire, ClientTally, ServerTally', srv')
    BY <1>11, <1>14, <1>16
  <1>18. Shaped(bidi'.here \o bidi'.wire, srv'.phase)
    <2>1. srv.phase \notin {"ended", "truncated"} /\ f.kind \notin {"stub", "fin"}
      BY <1>1, <1>4
    <2>2. Shaped(Append(frames, f), srv.phase)
      BY <1>4, <1>11, <1>13, <2>1, ShapedOn
    <2> QED BY <1>9, <1>11, <2>2
  <1>19. srv'.headers = Nothing <=> srv'.phase \in {"waiting", "asked"}
    BY <1>2, <1>9 DEF Phased
  <1>20. UnderWay'
    <2>1. \A i \in 1 .. Len(srv.unacked) : srv'.unacked[i] = srv.unacked[i]
      BY <1>9
    <2>2. srv.phase # "waiting"
      BY <1>1
    <2> QED BY <1>1, <1>9, <1>10, <1>17, <1>18, <1>19, <2>1, <2>2, ServerSent
  <1> QED BY <1>1, <1>2, <1>20, H3Kept

Ended(t, x, y) == t \o x \o <<y>>

LEMMA Behind ==
    \A E : \A t \in Seq(E), x, y \in E :
        Ended(t, <<>>, y) = Append(t, y) /\ Ended(t, <<x>>, y) = Append(Append(t, x), y)
  <1> SUFFICES ASSUME NEW E, NEW t \in Seq(E), NEW x \in E, NEW y \in E
      PROVE  Ended(t, <<>>, y) = Append(t, y) /\ Ended(t, <<x>>, y) = Append(Append(t, x), y)
    BY Zenon
  <1>1. t \o <<>> = t /\ t \o <<y>> = Append(t, y)
    OBVIOUS
  <1>2. t \o <<x>> = Append(t, x)
    OBVIOUS
  <1> DEFINE u == Append(t, x)
  <1>3. u \in Seq(E)
    OBVIOUS
  <1> HIDE DEF u
  <1>4. u \o <<y>> = Append(u, y)
    BY <1>3
  <1> QED BY <1>1, <1>2, <1>4 DEF u, Ended

\* The end of the response, whole or not.
LEMMA FinishInv == ASSUME H3Inv, Finish PROVE H3Inv'
  <1>1. UnderWay /\ agree = TRUE /\ agree' = agree /\ UNCHANGED <<client, uni, acks>> /\ srv.phase \in {"body", "trailed"}
    BY DEF Finish, H3Inv
  <1>2. Typed3 /\ Phased /\ KnownReceived /\ TablesMeet /\ TalliesMeet /\ client.result = "none"
    BY <1>1 DEF UnderWay
  <1> DEFINE stub == [kind |-> "stub"]
             fin == [kind |-> "fin"]
             frames == Stream(bidi.here, bidi.wire)
  <1>3. PICK whole \in BOOLEAN :
          /\ bidi' = [bidi EXCEPT !.wire = @ \o (IF whole THEN <<>> ELSE <<stub>>) \o <<fin>>]
          /\ srv' = [srv EXCEPT !.phase = IF whole THEN "ended" ELSE "truncated"]
    BY DEF Finish
  <1>4. stub \in Frames3 /\ fin \in Frames3 /\ stub.kind = "stub" /\ fin.kind = "fin"
    BY DEF Frames3
  <1> HIDE DEF stub, fin
  <1>6. /\ srv.unacked \in Seq(References) /\ srv.headers \in Seq(Entries3) /\ srv.body \in Nat
        /\ bidi.wire \in Seq(Frames3) /\ bidi.here \in Seq(Frames3)
    BY <1>2 DEF Typed3, ServerType3, BidiType3
  <1> DEFINE w == IF whole THEN Append(bidi.wire, fin) ELSE Append(Append(bidi.wire, stub), fin)
             all == IF whole THEN Append(frames, fin) ELSE Append(Append(frames, stub), fin)
             p == IF whole THEN "ended" ELSE "truncated"
  <1>5. bidi' = [bidi EXCEPT !.wire = w] /\ w \in Seq(Frames3)
    <2> DEFINE v == Ended(bidi.wire, IF whole THEN <<>> ELSE <<stub>>, fin)
    <2>1. v = w
      <3>1. /\ Ended(bidi.wire, <<>>, fin) = Append(bidi.wire, fin)
            /\ Ended(bidi.wire, <<stub>>, fin) = Append(Append(bidi.wire, stub), fin)
        BY <1>4, <1>6, Behind
      <3> QED BY <3>1
    <2>2. bidi' = [bidi EXCEPT !.wire = v]
      BY <1>3 DEF Ended
    <2>3. w \in Seq(Frames3)
      BY <1>4, <1>6
    <2> HIDE DEF v, w
    <2> QED BY <2>1, <2>2, <2>3
  <1>9. /\ srv' \in ServerType3 /\ srv'.table = srv.table /\ srv'.known = srv.known /\ srv'.unacked = srv.unacked
        /\ srv'.headers = srv.headers /\ srv'.body = srv.body /\ srv'.phase = p
    BY <1>2, <1>3 DEF Typed3, ServerType3
  <1>a. p \in {"ended", "truncated"} /\ (whole <=> p = "ended")
    OBVIOUS
  <1>11. /\ frames \in Seq(Frames3) /\ Append(frames, stub) \in Seq(Frames3)
         /\ Stream(bidi.here, w) = all
    <2>1. frames \in Seq(Frames3) /\ Stream(bidi.here, Append(bidi.wire, fin)) = Append(frames, fin)
          /\ Stream(bidi.here, Append(bidi.wire, stub)) = Append(frames, stub) /\ Append(bidi.wire, stub) \in Seq(Frames3)
      BY <1>4, <1>6, JoinAppend
    <2> DEFINE q == Append(bidi.wire, stub)
               q2 == Append(frames, stub)
    <2>2. q \in Seq(Frames3) /\ q2 \in Seq(Frames3) /\ Stream(bidi.here, q) = q2
      BY <1>4, <2>1
    <2> HIDE DEF q, q2
    <2>3. Stream(bidi.here, Append(q, fin)) = Append(q2, fin)
      BY <1>4, <1>6, <2>2, JoinAppend
    <2> QED BY <2>1, <2>2, <2>3 DEF q, q2
  <1>12. PICK c : Tallied(c, frames, ClientTally, ServerTally, srv)
    BY <1>2 DEF TalliesMeet, Stream
  <1>13. Shaped(frames, srv.phase) /\ srv.phase \notin {"ended", "truncated"}
    BY <1>1, <1>2 DEF Phased, Stream
  <1>14. ServerTally' = ServerTally /\ Counted(ServerTally, fin) = ServerTally /\ Counted(ServerTally, stub) = ServerTally
    BY <1>4, <1>9 DEF ServerTally, Counted
  <1>15. \A k : Refers(fin, k, srv') /\ Refers(stub, k, srv')
    BY <1>4 DEF Refers
  <1>u. /\ srv'.table = srv.table /\ Len(srv.unacked) \in Nat /\ Len(srv'.unacked) \in Nat
        /\ Len(srv.unacked) <= Len(srv'.unacked)
        /\ \A i \in 1 .. Len(srv.unacked) : srv'.unacked[i] = srv.unacked[i]
    BY <1>6, <1>9
  <1> HIDE DEF frames
  <1>16. \E d : Tallied(d, all, ClientTally, ServerTally', srv')
    <2>1. CASE whole
      <3>1. \E d : Tallied(d, Append(frames, fin), ClientTally, Counted(ServerTally, fin), srv')
        BY <1>4, <1>11, <1>12, <1>15, <1>u, TalliedSent
      <3> QED BY <1>14, <2>1, <3>1
    <2>2. CASE ~whole
      <3>1. PICK d : Tallied(d, Append(frames, stub), ClientTally, Counted(ServerTally, stub), srv')
        BY <1>4, <1>11, <1>12, <1>15, <1>u, TalliedSent
      <3>2. Tallied(d, Append(frames, stub), ClientTally, ServerTally, srv')
        BY <1>14, <3>1
      <3>3. /\ srv'.table = srv'.table /\ Len(srv'.unacked) \in Nat
            /\ Len(srv'.unacked) <= Len(srv'.unacked)
            /\ \A i \in 1 .. Len(srv'.unacked) : srv'.unacked[i] = srv'.unacked[i]
        BY <1>u
      <3>4. Refers(fin, ServerTally, srv')
        BY <1>15
      <3> HIDE DEF w, all, p
      <3>5. \E g : Tallied(g, Append(Append(frames, stub), fin), ClientTally, Counted(ServerTally, fin), srv')
        BY <1>4, <1>11, <3>2, <3>3, <3>4, TalliedSent
      <3> QED BY <1>14, <2>2, <3>5 DEF all
    <2> QED BY <2>1, <2>2
  <1>17. Shaped(all, p)
    <2>1. CASE whole
      <3>1. Shaped(Append(frames, fin), "ended")
        BY <1>4, <1>11, <1>13, ShapedOn
      <3> QED BY <2>1, <3>1
    <2>2. CASE ~whole
      <3>1. Shaped(Append(Append(frames, stub), fin), "truncated")
        BY <1>4, <1>11, <1>13, ShapedOn
      <3> QED BY <2>2, <3>1
    <2> QED BY <2>1, <2>2
  <1> HIDE DEF w, all, p
  <1>10. /\ bidi' \in BidiType3 /\ bidi'.here = bidi.here /\ bidi'.wire = w
    BY <1>2, <1>5 DEF Typed3, BidiType3
  <1>b. bidi'.here \o bidi'.wire = all
    BY <1>10, <1>11 DEF Stream
  <1>18. PICK d : Tallied(d, bidi'.here \o bidi'.wire, ClientTally, ServerTally', srv')
    BY <1>16, <1>b
  <1>19. Shaped(bidi'.here \o bidi'.wire, srv'.phase)
    BY <1>9, <1>17, <1>b
  <1>20. srv'.headers = Nothing <=> srv'.phase \in {"waiting", "asked"}
    BY <1>1, <1>2, <1>9, <1>a DEF Phased
  <1>21. UnderWay'
    <2>2. srv.phase # "waiting"
      BY <1>1
    <2> QED BY <1>1, <1>9, <1>10, <1>18, <1>19, <1>20, <1>u, <2>2, ServerSent
  <1> QED BY <1>1, <1>2, <1>21, H3Kept

\* An acknowledgement is read: what it is about has been read by the client.
LEMMA ReadSectionAckInv == ASSUME H3Inv, ReadSectionAck PROVE H3Inv'
  <1>1. UnderWay /\ agree = TRUE /\ agree' = agree /\ UNCHANGED <<client, uni, bidi>> /\ acks > 0 /\ acks' = acks - 1
    BY DEF ReadSectionAck, H3Inv
  <1>2. Typed3 /\ Phased /\ KnownReceived /\ TablesMeet /\ TalliesMeet /\ client.result = "none"
    BY <1>1 DEF UnderWay
  <1> DEFINE rest == Tail(srv.unacked)
             k == IF Head(srv.unacked).need > srv.known THEN Head(srv.unacked).need ELSE srv.known
             frames == bidi.here \o bidi.wire
  <1>3. srv' = [srv EXCEPT !.unacked = rest, !.known = k]
    BY DEF ReadSectionAck
  <1>4. frames \in Seq(Frames3) /\ srv.unacked \in Seq(References) /\ acks \in Nat
        /\ srv.known \in Nat /\ client.table.inserted \in Nat
    BY <1>2 DEF Typed3, BidiType3, ServerType3, ClientType3, Tables3
  <1>5. PICK c : Tallied(c, frames, ClientTally, ServerTally, srv)
    BY <1>2 DEF TalliesMeet
  <1> HIDE DEF frames
  <1>6. acks <= Len(srv.unacked) /\ Len(srv.unacked) \in Nat
    <2>1. 0 \in 0 .. Len(frames)
      BY <1>4
    <2>2. c[0] = ClientTally /\ c[0].acks <= ServerTally.acks
      BY <1>5, <2>1 DEF Tallied
    <2> QED BY <1>4, <2>2 DEF ClientTally, ServerTally
  <1>7. /\ srv.unacked # <<>> /\ rest \in Seq(References) /\ Head(srv.unacked) = srv.unacked[1]
        /\ Len(rest) = Len(srv.unacked) - 1
        /\ \A a \in 1 .. Len(rest) : rest[a] = srv.unacked[a + 1]
    BY <1>1, <1>4, <1>6
  <1>8. /\ srv.unacked[1].need \in Nat /\ srv.unacked[1].need <= client.table.inserted
        /\ k \in Nat /\ srv.known <= k /\ k <= client.table.inserted
    <2>1. 1 \in 1 .. acks /\ 1 \in 1 .. Len(srv.unacked)
      BY <1>1, <1>4, <1>6
    <2>2. srv.unacked[1].need <= client.table.inserted /\ srv.known <= client.table.inserted
      BY <1>2, <2>1 DEF KnownReceived
    <2>3. srv.unacked[1].need \in Nat
      <3>1. srv.unacked[1] \in References
        BY <1>4, <2>1
      <3> QED BY <3>1 DEF References
    <2> QED BY <1>4, <1>7, <2>2, <2>3
  <1> HIDE DEF rest, k
  <1>9. /\ srv' \in ServerType3 /\ srv'.table = srv.table /\ srv'.known = k /\ srv'.unacked = rest
        /\ srv'.headers = srv.headers /\ srv'.body = srv.body /\ srv'.phase = srv.phase
    BY <1>2, <1>3, <1>7, <1>8 DEF Typed3, ServerType3
  <1>10. Typed3'
    <2>1. acks - 1 \in Nat
      BY <1>1, <1>4
    <2> QED BY <1>1, <1>2, <1>9, <2>1 DEF Typed3
  <1>11. Phased'
    BY <1>1, <1>2, <1>9 DEF Phased
  <1>12. KnownReceived'
    <2>1. srv.table.dropped \in Nat
      BY <1>2 DEF Typed3, ServerType3, Tables3
    <2>2. srv.table.dropped <= k
      BY <1>2, <1>4, <1>8, <2>1 DEF KnownReceived
    <2>3. ASSUME NEW a \in 1 .. acks - 1 PROVE rest[a].need <= client.table.inserted
      <3>1. a + 1 \in 1 .. acks /\ a \in 1 .. Len(rest)
        BY <1>4, <1>6, <1>7
      <3> QED BY <1>2, <1>7, <3>1 DEF KnownReceived
    <2> QED BY <1>1, <1>2, <1>8, <1>9, <2>2, <2>3 DEF KnownReceived
  <1>13. TablesMeet'
    BY <1>1, <1>2, <1>9 DEF TablesMeet
  <1>14. TalliesMeet'
    <2>1. ClientTally' = Less(ClientTally) /\ ServerTally' = Less(ServerTally)
      BY <1>1, <1>7, <1>9 DEF ClientTally, ServerTally, Less
    <2>2. ClientTally.acks > 0 /\ ServerTally.acks = Len(srv.unacked)
      BY <1>1 DEF ClientTally, ServerTally
    <2>3. srv'.table = srv.table /\ srv'.unacked = Tail(srv.unacked)
      BY <1>9 DEF rest
    <2>4. \E d : Tallied(d, frames, Less(ClientTally), Less(ServerTally), srv')
      BY <1>4, <1>5, <2>2, <2>3, TalliedAck
    <2> QED BY <1>1, <2>1, <2>4 DEF TalliesMeet, frames
  <1>15. UnderWay'
    BY <1>1, <1>2, <1>10, <1>11, <1>12, <1>13, <1>14 DEF UnderWay
  <1> QED BY <1>1, <1>2, <1>15, H3Kept

\* The three ways of giving up.
LEMMA GivesUpInv == ASSUME H3Inv, SendFails \/ GiveUp \/ PumpFails PROVE H3Inv'
  <1>1. client.pc # "done" /\ client' = Done("error") /\ agree' = agree
    BY DEF SendFails, GiveUp, PumpFails
  <1> QED BY <1>1, GivesUp DEF H3Inv

-----------------------------------------------------------------------------
(* A round of read_response.                                               *)

\* What is left of a stream when all that was here is read, or all but one frame.
LEMMA StreamRead ==
    \A E : \A s, t \in Seq(E) :
        /\ Stream(s, t) \in Seq(E) /\ Len(s) \in Nat
        /\ Len(Stream(s, t)) \in Nat /\ Len(s) <= Len(Stream(s, t))
        /\ \A i \in 1 .. Len(s) : Stream(s, t)[i] = s[i]
        /\ Stream(<<>>, t) = SubSeq(Stream(s, t), Len(s) + 1, Len(Stream(s, t)))
        /\ Len(s) > 0 => Stream(<<s[Len(s)]>>, t) = SubSeq(Stream(s, t), (Len(s) - 1) + 1, Len(Stream(s, t)))
  <1> SUFFICES ASSUME NEW E, NEW s \in Seq(E), NEW t \in Seq(E)
      PROVE
        /\ Stream(s, t) \in Seq(E) /\ Len(s) \in Nat
        /\ Len(Stream(s, t)) \in Nat /\ Len(s) <= Len(Stream(s, t))
        /\ \A i \in 1 .. Len(s) : Stream(s, t)[i] = s[i]
        /\ Stream(<<>>, t) = SubSeq(Stream(s, t), Len(s) + 1, Len(Stream(s, t)))
        /\ Len(s) > 0 => Stream(<<s[Len(s)]>>, t) = SubSeq(Stream(s, t), (Len(s) - 1) + 1, Len(Stream(s, t)))
    BY Zenon
  <1> DEFINE u == Stream(s, t)
             m == Len(s)
             n == Len(t)
  <1>1. /\ u \in Seq(E) /\ m \in Nat /\ n \in Nat /\ Len(u) = m + n
        /\ \A i \in 1 .. m : u[i] = s[i]
        /\ \A i \in 1 .. n : u[i + m] = t[i]
    BY DEF Stream
  <1>2. Stream(<<>>, t) = t
    BY DEF Stream
  <1> HIDE DEF u
  <1>3. t = SubSeq(u, m + 1, Len(u))
    <2> DEFINE v == SubSeq(u, m + 1, Len(u))
    <2>1. v \in Seq(E) /\ Len(v) = n /\ \A i \in 1 .. n : v[i] = u[i + m]
      BY <1>1
    <2> HIDE DEF v
    <2>2. \A i \in 1 .. n : v[i] = t[i]
      BY <1>1, <2>1
    <2>3. v = t
      BY <2>1, <2>2, SeqEqual
    <2> QED BY <2>3 DEF v
  <1>4. ASSUME m > 0 PROVE Stream(<<s[m]>>, t) = SubSeq(u, (m - 1) + 1, Len(u))
    <2> DEFINE v == SubSeq(u, (m - 1) + 1, Len(u))
               x == s[m]
               w == <<x>> \o t
    <2>1. v \in Seq(E) /\ Len(v) = n + 1 /\ \A i \in 1 .. n + 1 : v[i] = u[i + (m - 1)]
      BY <1>1, <1>4
    <2>x. x \in E
      BY <1>1, <1>4
    <2> HIDE DEF v, x
    <2>2. w \in Seq(E) /\ Len(w) = n + 1 /\ w[1] = x /\ \A i \in 2 .. n + 1 : w[i] = t[i - 1]
      BY <2>x
    <2> HIDE DEF w
    <2>3. ASSUME NEW i \in 1 .. n + 1 PROVE v[i] = w[i]
      <3>1. CASE i = 1
        <4>1. v[1] = u[1 + (m - 1)] /\ 1 + (m - 1) = m /\ m \in 1 .. m
          <5>1. 1 \in 1 .. n + 1 /\ 1 + (m - 1) = m /\ m \in 1 .. m
            BY <1>1, <1>4
          <5> QED BY <2>1, <5>1
        <4>2. u[m] = s[m]
          BY <1>1, <4>1
        <4> QED BY <2>2, <3>1, <4>1, <4>2 DEF x
      <3>2. CASE i # 1
        <4>1. i - 1 \in 1 .. n /\ (i - 1) + m = i + (m - 1) /\ i \in 2 .. n + 1
          BY <1>1, <3>2
        <4>2. u[(i - 1) + m] = t[i - 1]
          BY <1>1, <4>1
        <4> QED BY <2>1, <2>2, <4>1, <4>2
      <3> QED BY <3>1, <3>2
    <2>4. v = w
      BY <2>1, <2>2, <2>3, SeqEqual
    <2> QED BY <2>4 DEF v, w, x, Stream
  <1>5. m <= Len(u)
    BY <1>1
  <1> QED BY <1>1, <1>2, <1>3, <1>4, <1>5 DEF u

ReaderType == [table : Tables3, headers : Seq(Entries3), body : Nat, acks : Nat, agree : BOOLEAN,
               refused : BOOLEAN, stub : BOOLEAN, fin : BOOLEAN]
ReaderTally(s) == [headers |-> s.headers, body |-> s.body, acks |-> s.acks]

\* The table of the reader, compared with the one of the server: no more has been dropped
\* by the server than the reader has received.
Behindhand(t, sv) == TableOK(t) /\ TableOK(sv) /\ Grows(t, sv) /\ sv.dropped <= t.inserted

\* Every section is decoded to the fields that were meant, or refused for an insert that
\* has not arrived.
LEMMA SectionRead ==
    ASSUME NEW t, NEW s, Behindhand(t, s.table), NEW k, NEW x \in Frames3, x.kind = "headers", Refers(x, k, s)
    PROVE  /\ x.need \in Nat
           /\ x.need <= t.inserted => DecodeSection(t, x.section) = {x.fields}
           /\ ~(x.need <= t.inserted) => DecodeSection(t, x.section) = {}
           /\ x.section.ric # 0 <=> x.need # 0
  <1> DEFINE sv == s.table
  <1>1. /\ t.inserted \in Nat /\ t.dropped \in Nat /\ sv.inserted \in Nat /\ sv.dropped \in Nat
        /\ TableOK(t) /\ TableOK(sv) /\ Grows(t, sv) /\ t.dropped <= sv.dropped /\ sv.dropped <= t.inserted
    BY DEF Behindhand, TableOK, Tables3, Grows
  <1>2. x.need \in Nat
    BY FrameCases
  <1>3. CASE x.need = 0
    <2>1. PICK f \in Fields3 :
            x = [kind |-> "headers",
                 section |-> [ric |-> 0, sign |-> FALSE, delta |-> 0, lines |-> <<EncodeField(f)>>],
                 fields |-> <<f>>, need |-> 0]
      BY <1>3, FrameCases
    <2> DEFINE ls == <<EncodeField(f)>>
    <2>2. /\ x.section = [ric |-> 0, sign |-> FALSE, delta |-> 0, lines |-> ls] /\ x.fields = <<f>>
          /\ x.section.ric = 0
      BY <2>1
    <2>3. <<f>> \in Seq(Fields3) /\ Len(ls) = 1 /\ Len(<<f>>) = 1 /\ ls[1] = EncodeField(f) /\ <<f>>[1] = f
      OBVIOUS
    <2> HIDE DEF ls
    <2>4. DecodeSection(t, [ric |-> 0, sign |-> FALSE, delta |-> 0, lines |-> ls]) = {<<f>>}
      <3> DEFINE y == <<f>>
      <3>1. y \in Seq(Fields3) /\ Len(ls) = Len(y) /\ \A i \in 1 .. Len(y) : ls[i] = EncodeField(y[i])
        BY <2>3
      <3> HIDE DEF y
      <3>2. DecodeSection(t, [ric |-> 0, sign |-> FALSE, delta |-> 0, lines |-> ls]) = {y}
        BY <1>1, <3>1, StaticRead
      <3> QED BY <3>2 DEF y
    <2> DEFINE sec == [ric |-> 0, sign |-> FALSE, delta |-> 0, lines |-> ls]
    <2>5. DecodeSection(t, x.section) = {x.fields}
      <3>1. x.section = sec /\ x.fields = <<f>>
        BY <2>2
      <3>2. DecodeSection(t, sec) = {<<f>>}
        BY <2>4
      <3> HIDE DEF sec
      <3> QED BY <3>1, <3>2
    <2>6. x.section.ric = 0 /\ 0 <= t.inserted /\ x.need \in Nat /\ ~(x.need # 0)
      BY <1>1, <1>3, <2>2
    <2>7. x.need <= t.inserted
      BY <1>3, <2>6
    <2> QED BY <2>5, <2>6, <2>7, Zenon
  <1>4. CASE x.need # 0
    <2>1. PICK base \in Nat, e \in Entries3 :
            x = [kind |-> "headers", section |-> Referring(x.need, base), fields |-> <<e>>, need |-> x.need]
      BY <1>4, FrameCases
    <2>2. x.section = Referring(x.need, base)
      BY <2>1
    <2>3. /\ sv.dropped < x.need /\ x.need <= sv.inserted /\ x.fields = <<Entry(sv, x.need - 1)>>
      BY <1>4, Zenon DEF Refers
    <2>4. MaxEntries \in Nat /\ t.inserted <= t.dropped + MaxEntries /\ sv.inserted <= sv.dropped + MaxEntries
      <3>1. /\ Len(t.entries) <= MaxEntries /\ Len(sv.entries) <= MaxEntries /\ MaxEntries \in Nat
            /\ Len(t.entries) \in Nat /\ Len(sv.entries) \in Nat
            /\ t.inserted = t.dropped + Len(t.entries) /\ sv.inserted = sv.dropped + Len(sv.entries)
        BY <1>1, FewEntries DEF TableOK, Tables3
      <3> HIDE DEF sv
      <3> QED BY <1>1, <3>1
    <2> HIDE DEF sv
    <2>5. /\ x.need > 0 /\ t.inserted < x.need + MaxEntries /\ x.need <= t.inserted + MaxEntries
          /\ MaxEntries > 0 /\ t.dropped < x.need
      BY <1>1, <1>2, <2>3, <2>4
    <2>6. DecodeSection(t, Referring(x.need, base)) =
                IF x.need <= t.inserted THEN {<<Entry(t, x.need - 1)>>} ELSE {}
      BY <1>1, <1>2, <2>5, DynamicRead
    <2>7. ASSUME x.need <= t.inserted PROVE Entry(t, x.need - 1) = Entry(sv, x.need - 1)
      <3>1. x.need - 1 \in sv.dropped .. t.inserted - 1
        BY <1>1, <1>2, <2>3, <2>7
      <3> QED BY <1>1, <3>1 DEF Grows
    <2>8. Referring(x.need, base).ric # 0
      <3>1. Referring(x.need, base).ric = (x.need % (2 * MaxEntries)) + 1
        BY DEF Referring
      <3>2. 2 * MaxEntries \in Nat /\ 2 * MaxEntries > 0
        BY <2>4, <2>5
      <3>3. x.need % (2 * MaxEntries) \in Nat
        BY <1>2, <3>2
      <3> QED BY <3>1, <3>3
    <2> QED BY <1>2, <1>4, <2>2, <2>3, <2>6, <2>7, <2>8
  <1> QED BY <1>2, <1>3, <1>4

\* One frame.
LEMMA FrameRead ==
    ASSUME NEW r \in ReaderType, r.agree, ~r.refused, ~r.stub, NEW s, Behindhand(r.table, s.table),
           NEW x \in Frames3, Refers(x, ReaderTally(r), s)
    PROVE  LET q == ConsumeFrame(r, x)
           IN  /\ q \in ReaderType /\ q.agree /\ q.table = r.table /\ q.fin = r.fin
               /\ q.refused => x.kind = "headers" /\ x.need > r.table.inserted
               /\ ~q.refused /\ q.stub => x.kind = "stub" /\ ReaderTally(q) = ReaderTally(r)
               /\ ~q.refused /\ ~q.stub =>
                    /\ ReaderTally(q) = Counted(ReaderTally(r), x) /\ x.kind # "stub"
                    /\ x.kind = "headers" => x.need <= r.table.inserted
  <1> DEFINE q == ConsumeFrame(r, x)
  <1>1. x.kind \in {"data", "grease", "stub", "fin", "headers"}
    BY FrameCases
  <1>r. /\ r.table \in Tables3 /\ r.headers \in Seq(Entries3) /\ r.body \in Nat /\ r.acks \in Nat
        /\ r.agree = TRUE /\ r.refused = FALSE /\ r.stub = FALSE /\ r.table.inserted \in Nat
    BY DEF ReaderType, Tables3
  <1>2. CASE x.kind \in {"grease", "fin"}
    <2>1. q = r
      BY <1>2, <1>r DEF ConsumeFrame
    <2> QED BY <1>2, <1>r, <2>1 DEF Counted
  <1>3. CASE x.kind = "data"
    <2>1. q = [r EXCEPT !.body = r.body + 1]
      BY <1>3, <1>r DEF ConsumeFrame
    <2>2. /\ q \in ReaderType /\ q.agree /\ q.table = r.table /\ q.fin = r.fin /\ q.refused = FALSE
          /\ q.stub = FALSE /\ q.headers = r.headers /\ q.body = r.body + 1 /\ q.acks = r.acks
      BY <1>r, <2>1 DEF ReaderType
    <2> HIDE DEF q
    <2>3. ReaderTally(q) = Counted(ReaderTally(r), x)
      BY <1>3, <2>2 DEF ReaderTally, Counted
    <2> QED BY <1>3, <2>2, <2>3 DEF q
  <1>4. CASE x.kind = "stub"
    <2>1. q = [r EXCEPT !.stub = TRUE]
      BY <1>4, <1>r DEF ConsumeFrame
    <2>2. /\ q \in ReaderType /\ q.agree /\ q.table = r.table /\ q.fin = r.fin /\ q.refused = FALSE
          /\ q.stub = TRUE /\ q.headers = r.headers /\ q.body = r.body /\ q.acks = r.acks
      BY <1>r, <2>1 DEF ReaderType
    <2> HIDE DEF q
    <2>3. ReaderTally(q) = ReaderTally(r)
      BY <2>2 DEF ReaderTally
    <2> QED BY <1>4, <2>2, <2>3 DEF q
  <1>5. CASE x.kind = "headers"
    <2> DEFINE got == DecodeSection(r.table, x.section)
    <2>1. q = IF got = {} THEN [r EXCEPT !.refused = TRUE]
              ELSE [r EXCEPT !.headers = IF @ = Nothing THEN CHOOSE f \in got : TRUE ELSE @,
                             !.agree = @ /\ got = {x.fields},
                             !.acks = IF x.section.ric # 0 THEN @ + 1 ELSE @]
      BY <1>5, <1>r DEF ConsumeFrame, ConsumeSection
    <2>2. /\ x.need \in Nat /\ x.fields \in Seq(Entries3)
          /\ x.need <= r.table.inserted => got = {x.fields}
          /\ ~(x.need <= r.table.inserted) => got = {}
          /\ x.section.ric # 0 <=> x.need # 0
      BY <1>5, FrameCases, SectionRead
    <2> HIDE DEF got, q
    <2>3. CASE ~(x.need <= r.table.inserted)
      <3>1. q = [r EXCEPT !.refused = TRUE]
        BY <2>1, <2>2, <2>3
      <3>2. /\ q \in ReaderType /\ q.agree /\ q.table = r.table /\ q.fin = r.fin /\ q.refused = TRUE
        BY <1>r, <3>1 DEF ReaderType
      <3>3. x.need > r.table.inserted
        BY <1>r, <2>2, <2>3
      <3> QED BY <1>5, <3>2, <3>3 DEF q
    <2>4. CASE x.need <= r.table.inserted
      <3> DEFINE h == IF r.headers = Nothing THEN x.fields ELSE r.headers
                 a == IF x.need = 0 THEN r.acks ELSE r.acks + 1
      <3>1. got = {x.fields} /\ got # {} /\ (CHOOSE f \in got : TRUE) = x.fields
        BY <2>2, <2>4
      <3>2. q = [r EXCEPT !.headers = h, !.agree = TRUE, !.acks = a]
        BY <1>r, <2>1, <2>2, <3>1
      <3>3. h \in Seq(Entries3) /\ a \in Nat
        BY <1>r, <2>2
      <3> HIDE DEF h, a
      <3>4. /\ q \in ReaderType /\ q.agree /\ q.table = r.table /\ q.fin = r.fin /\ q.refused = FALSE
            /\ q.stub = FALSE /\ q.headers = h /\ q.body = r.body /\ q.acks = a
        BY <1>r, <3>2, <3>3 DEF ReaderType
      <3>5. ReaderTally(q) = Counted(ReaderTally(r), x)
        BY <1>5, <3>4 DEF ReaderTally, Counted, h, a
      <3> QED BY <1>5, <2>4, <3>4, <3>5 DEF q
    <2> QED BY <2>3, <2>4
  <1> QED BY <1>1, <1>2, <1>3, <1>4, <1>5

\* The first i frames are no stub, and no section among them needs more than is in the table.
Clear(frames, t, i) ==
    \A j \in 1 .. i :
        frames[j].kind # "stub" /\ (frames[j].kind = "headers" => frames[j].need <= t.inserted)

\* The reader r after the first i frames, whose tallies are c.
Reached(r, first, c, frames, i) ==
    /\ r \in ReaderType /\ r.agree /\ r.table = first.table /\ r.fin = first.fin
    /\ r.refused => \E j \in 1 .. i : frames[j].kind = "headers" /\ frames[j].need > first.table.inserted
    /\ ~r.refused /\ ~r.stub => ReaderTally(r) = c[i] /\ Clear(frames, first.table, i)
    /\ ~r.refused /\ r.stub =>
        \E j \in 1 .. i :
            frames[j].kind = "stub" /\ ReaderTally(r) = c[j - 1] /\ Clear(frames, first.table, j - 1)

LEMMA AllRead ==
    ASSUME NEW first \in ReaderType, first.agree, ~first.refused, ~first.stub,
           NEW s, Behindhand(first.table, s.table), NEW frames \in Seq(Frames3), NEW c,
           c[0] = ReaderTally(first),
           \A i \in 1 .. Len(frames) : c[i] = Counted(c[i - 1], frames[i]) /\ Refers(frames[i], c[i - 1], s)
    PROVE  Reached(Consuming(first, frames)[Len(frames)], first, c, frames, Len(frames))
  <1> DEFINE n == Len(frames)
             r == Consuming(first, frames)
             S == {i \in 0 .. n : Reached(r[i], first, c, frames, i)}
  <1>1. n \in Nat /\ r[0] = first /\ \A i \in 1 .. n : r[i] = ConsumeFrame(r[i - 1], frames[i])
    BY ConsumingRun
  <1> HIDE DEF r
  <1>2. 0 \in S
    <2>1. Clear(frames, first.table, 0)
      BY DEF Clear
    <2>2. Reached(first, first, c, frames, 0)
      BY <2>1 DEF Reached
    <2> QED BY <1>1, <2>2
  <1>3. ASSUME NEW i \in 0 .. n - 1, i \in S PROVE i + 1 \in S
    <2> DEFINE x == frames[i + 1]
               p == r[i]
               q == r[i + 1]
    <2>1. /\ i \in Nat /\ i + 1 \in 1 .. n /\ i + 1 \in 0 .. n /\ (i + 1) - 1 = i /\ i + 1 \in 1 .. i + 1
          /\ \A j \in 1 .. i : j \in 1 .. i + 1
          /\ \A j \in 1 .. i + 1 : j \in 1 .. i \/ j = i + 1
      BY <1>1
    <2>2. Reached(p, first, c, frames, i)
      BY <1>3
    <2>3. q = ConsumeFrame(p, x) /\ x \in Frames3
      BY <1>1, <2>1
    <2>4. c[i + 1] = Counted(c[i], x) /\ Refers(x, c[i], s)
      BY <2>1
    <2> HIDE DEF p, q
    <2>5. CASE p.refused \/ p.stub
      <3>1. q = p
        BY <2>3, <2>5 DEF ConsumeFrame
      <3>2. Reached(p, first, c, frames, i + 1)
        BY <2>1, <2>2, <2>5 DEF Reached
      <3> QED BY <2>1, <3>1, <3>2 DEF q
    <2>6. CASE ~p.refused /\ ~p.stub
      <3>1. /\ p \in ReaderType /\ p.agree /\ p.table = first.table /\ p.fin = first.fin
            /\ ReaderTally(p) = c[i] /\ Clear(frames, first.table, i)
        BY <2>2, <2>6 DEF Reached
      <3> DEFINE q1 == ConsumeFrame(p, x)
      <3> HIDE DEF x
      <3>2. /\ q \in ReaderType /\ q.agree /\ q.table = p.table /\ q.fin = p.fin
            /\ q.refused => x.kind = "headers" /\ x.need > p.table.inserted
            /\ ~q.refused /\ q.stub => x.kind = "stub" /\ ReaderTally(q) = ReaderTally(p)
            /\ ~q.refused /\ ~q.stub =>
                    /\ ReaderTally(q) = Counted(ReaderTally(p), x) /\ x.kind # "stub"
                    /\ x.kind = "headers" => x.need <= p.table.inserted
        <4>1. Behindhand(p.table, s.table) /\ Refers(x, ReaderTally(p), s)
          BY <2>4, <3>1
        <4> QED BY <2>3, <2>6, <3>1, <4>1, FrameRead
      <3>3. Reached(q, first, c, frames, i + 1)
        <4>1. q.refused => \E j \in 1 .. i + 1 : frames[j].kind = "headers" /\ frames[j].need > first.table.inserted
          BY <2>1, <3>1, <3>2 DEF x
        <4>2. ASSUME ~q.refused, ~q.stub PROVE ReaderTally(q) = c[i + 1] /\ Clear(frames, first.table, i + 1)
          BY <2>1, <2>4, <3>1, <3>2, <4>2 DEF Clear, x
        <4>3. ASSUME ~q.refused, q.stub
              PROVE  \E j \in 1 .. i + 1 :
                        frames[j].kind = "stub" /\ ReaderTally(q) = c[j - 1] /\ Clear(frames, first.table, j - 1)
          BY <2>1, <3>1, <3>2, <4>3 DEF x
        <4> QED BY <3>1, <3>2, <4>1, <4>2, <4>3 DEF Reached
      <3> QED BY <2>1, <3>3 DEF q
    <2> QED BY <2>5, <2>6
  <1>4. \A i \in 0 .. n : i \in S
    <2> HIDE DEF S
    <2> QED BY <1>1, <1>2, <1>3, UpTo
  <1>5. n \in S
    BY <1>1, <1>4
  <1> QED BY <1>5 DEF r

\* What the client acknowledges of clear frames has been received.
LEMMA AcksReceived ==
    ASSUME NEW frames \in Seq(Frames3), NEW c, NEW s, NEW t, t.inserted \in Nat, NEW m \in 0 .. Len(frames),
           \A i \in 0 .. Len(frames) : c[i] \in Tallies,
           \A i \in 1 .. Len(frames) : c[i] = Counted(c[i - 1], frames[i]) /\ Refers(frames[i], c[i - 1], s),
           \A a \in 1 .. c[0].acks : s.unacked[a].need <= t.inserted, Clear(frames, t, m)
    PROVE  \A a \in 1 .. c[m].acks : s.unacked[a].need <= t.inserted
  <1> DEFINE Received(i) == \A a \in 1 .. c[i].acks : s.unacked[a].need <= t.inserted
             S == {i \in 0 .. m : Received(i)}
  <1>1. m \in Nat /\ 0 \in S
    OBVIOUS
  <1>2. ASSUME NEW i \in 0 .. m - 1, i \in S PROVE i + 1 \in S
    <2> DEFINE x == frames[i + 1]
               k == c[i]
    <2>1. i + 1 \in 1 .. Len(frames) /\ (i + 1) - 1 = i /\ i + 1 \in 1 .. m /\ i + 1 \in 0 .. m /\ i \in 0 .. Len(frames)
      OBVIOUS
    <2>2. c[i + 1] = Counted(k, x) /\ Refers(x, k, s) /\ k \in Tallies /\ x \in Frames3
      BY <2>1
    <2>3. k.acks \in Nat
      BY <2>2 DEF Tallies
    <2>4. x.kind = "headers" => x.need <= t.inserted /\ x.need \in Nat
      BY <2>1, <2>2, FrameCases DEF Clear
    <2>5. Received(i)
      BY <1>2
    <2>k. \A a \in 1 .. k.acks : s.unacked[a].need <= t.inserted
      BY <2>5
    <2> HIDE DEF x, k
    <2>6. CASE x.kind = "headers" /\ x.need # 0
      <3>1. Counted(k, x).acks = k.acks + 1
        BY <2>6 DEF Counted
      <3>2. s.unacked[k.acks + 1].need = x.need
        <4>1. s.unacked[k.acks + 1] = [refs |-> {x.need - 1}, need |-> x.need]
          BY <2>2, <2>6, Zenon DEF Refers
        <4> QED BY <4>1
      <3>3. \A a \in 1 .. k.acks + 1 : a \in 1 .. k.acks \/ a = k.acks + 1
        BY <2>3
      <3>4. Received(i + 1)
        BY <2>2, <2>4, <2>6, <2>k, <3>1, <3>2, <3>3
      <3> QED BY <2>1, <3>4
    <2>7. CASE ~(x.kind = "headers" /\ x.need # 0)
      <3>1. Counted(k, x).acks = k.acks
        <4>1. k = [headers |-> k.headers, body |-> k.body, acks |-> k.acks]
          BY <2>2 DEF Tallies
        <4>2. CASE x.kind = "data"
          <5>1. Counted(k, x) = [headers |-> k.headers, body |-> k.body + 1, acks |-> k.acks]
            BY <4>1, <4>2 DEF Counted
          <5> QED BY <5>1
        <4>3. CASE x.kind # "data"
          BY <2>7, <4>3 DEF Counted
        <4> QED BY <4>2, <4>3
      <3>2. Received(i + 1)
        BY <2>2, <2>k, <3>1
      <3> QED BY <2>1, <3>2
    <2> QED BY <2>6, <2>7
  <1>3. \A i \in 0 .. m : i \in S
    <2> HIDE DEF S
    <2> QED BY <1>1, <1>2, UpTo
  <1>4. m \in S
    BY <1>1, <1>3
  <1> QED BY <1>4

\* What is left of the request stream after a round that goes on: all that is still on its
\* way, behind the frame that is not complete.
LEMMA FramesLeft ==
    ASSUME NEW here \in Seq(Frames3), NEW way \in Seq(Frames3), NEW c, NEW first, NEW last, NEW s, NEW phase,
           Tallied(c, Stream(here, way), first, last, s), Shaped(Stream(here, way), phase),
           NEW r, NEW r0, Reached(r, r0, c, here, Len(here)), ~r.refused,
           ~(Len(here) > 0 /\ here[Len(here)].kind = "fin")
    PROVE  LET left == Stream(IF r.stub THEN <<[kind |-> "stub"]>> ELSE <<>>, way)
           IN  \E m \in 0 .. Len(here) :
                    /\ ReaderTally(r) = c[m] /\ Clear(here, r0.table, m)
                    /\ \E d : Tallied(d, left, c[m], last, s)
                    /\ Shaped(left, phase)
  <1> DEFINE h == Len(here)
             frames == Stream(here, way)
             n == Len(frames)
             left == Stream(IF r.stub THEN <<[kind |-> "stub"]>> ELSE <<>>, way)
  <1>1. /\ frames \in Seq(Frames3) /\ h \in Nat /\ n \in Nat /\ h <= n
        /\ \A i \in 1 .. h : frames[i] = here[i] /\ here[i] \in Frames3
        /\ Stream(<<>>, way) = SubSeq(frames, h + 1, n)
        /\ h > 0 => Stream(<<here[h]>>, way) = SubSeq(frames, (h - 1) + 1, n)
    BY StreamRead
  <1> HIDE DEF frames, n, h
  <1>2. ASSUME NEW i \in 1 .. h PROVE here[i].kind # "fin"
    <2> SUFFICES ASSUME here[i].kind = "fin" PROVE FALSE
      OBVIOUS
    <2>1. frames[i].kind = "fin" /\ i \in 1 .. n
      BY <1>1
    <2>2. i = n
      BY <2>1 DEF Shaped, frames, n
    <2>3. i = h /\ h > 0
      BY <1>1, <2>2
    <2> QED BY <2>3 DEF h
  <1>3. CASE ~r.stub
    <2>1. left = SubSeq(frames, h + 1, n)
      BY <1>1, <1>3
    <2>2. ReaderTally(r) = c[h] /\ Clear(here, r0.table, h)
      BY <1>3 DEF Reached, h
    <2>3. h \in 0 .. n /\ h \in 0 .. h
      BY <1>1
    <2>4. \E d : Tallied(d, left, c[h], last, s)
      BY <1>1, <2>1, <2>3, TalliedOff DEF frames, n
    <2>5. \A i \in 1 .. h : frames[i].kind \notin {"stub", "fin"}
      BY <1>1, <1>2, <2>2 DEF Clear
    <2>6. Shaped(left, phase)
      BY <1>1, <2>1, <2>3, <2>5, ShapedOff DEF frames, n
    <2> QED BY <2>2, <2>3, <2>4, <2>6 DEF h
  <1>4. CASE r.stub
    <2>1. PICK j \in 1 .. h :
            here[j].kind = "stub" /\ ReaderTally(r) = c[j - 1] /\ Clear(here, r0.table, j - 1)
      BY <1>4 DEF Reached, h
    <2>2. frames[j].kind = "stub" /\ j \in 1 .. n
      BY <1>1, <2>1
    <2>3. j = n - 1 /\ phase = "truncated"
      BY <2>2 DEF Shaped, frames, n
    <2>4. n > 0 /\ frames[n].kind = "fin"
      BY <2>3 DEF Shaped, frames, n
    <2>5. h = j
      <3>1. h # n
        <4> SUFFICES ASSUME h = n PROVE FALSE
          OBVIOUS
        <4>1. h \in 1 .. h
          BY <1>1, <2>4
        <4> QED BY <1>1, <1>2, <2>4, <4>1
      <3> QED BY <1>1, <2>3, <3>1
    <2>6. here[h] = [kind |-> "stub"] /\ h > 0
      <3>1. h \in 1 .. h
        BY <1>1, <2>5
      <3>2. here[h] \in Frames3 /\ here[h].kind = "stub"
        BY <1>1, <2>1, <2>5, <3>1
      <3>3. here[h] = [kind |-> here[h].kind]
        BY <3>2, FrameCases
      <3> QED BY <3>1, <3>2, <3>3
    <2>7. left = SubSeq(frames, (h - 1) + 1, n)
      BY <1>1, <1>4, <2>6
    <2>8. h - 1 \in 0 .. n /\ h - 1 \in 0 .. h
      BY <1>1, <2>6
    <2>9. \E d : Tallied(d, left, c[h - 1], last, s)
      BY <1>1, <2>7, <2>8, TalliedOff DEF frames, n
    <2>10. \A i \in 1 .. h - 1 : frames[i].kind \notin {"stub", "fin"}
      <3>1. \A i \in 1 .. h - 1 : i \in 1 .. h
        BY <1>1
      <3> QED BY <1>1, <1>2, <2>1, <2>5, <3>1 DEF Clear
    <2>11. Shaped(left, phase)
      <3> DEFINE k == h - 1
      <3>1. /\ k \in 0 .. n /\ left = SubSeq(frames, k + 1, n)
            /\ \A i \in 1 .. k : frames[i].kind \notin {"stub", "fin"}
        BY <2>7, <2>8, <2>10
      <3>2. Shaped(frames, phase)
        BY DEF frames
      <3> HIDE DEF k, left
      <3> QED BY <1>1, <3>1, <3>2, ShapedOff DEF n
    <2> QED BY <2>1, <2>5, <2>8, <2>9, <2>11 DEF h
  <1> QED BY <1>3, <1>4

\* A response that has come to its end is the one that was sent.
LEMMA AllHere ==
    ASSUME NEW here \in Seq(Frames3), NEW way \in Seq(Frames3), NEW c, NEW first, NEW last, NEW s, NEW phase,
           Tallied(c, Stream(here, way), first, last, s), Shaped(Stream(here, way), phase),
           NEW r, NEW r0, Reached(r, r0, c, here, Len(here)), ~r.refused, ~r.stub,
           Len(here) > 0, here[Len(here)].kind = "fin"
    PROVE  ReaderTally(r) = last /\ phase = "ended"
  <1> DEFINE h == Len(here)
             frames == Stream(here, way)
             n == Len(frames)
  <1>1. /\ frames \in Seq(Frames3) /\ h \in Nat /\ n \in Nat /\ h <= n
        /\ \A i \in 1 .. h : frames[i] = here[i]
    BY StreamRead
  <1> HIDE DEF frames, n
  <1>2. ReaderTally(r) = c[h] /\ Clear(here, r0.table, h)
    BY DEF Reached
  <1> HIDE DEF h
  <1>3. frames[h].kind = "fin" /\ h \in 1 .. n
    <2>1. h > 0 /\ here[h].kind = "fin"
      BY DEF h
    <2>2. h \in 1 .. h /\ h \in 1 .. n
      BY <1>1, <2>1
    <2> QED BY <1>1, <2>1, <2>2
  <1>4. h = n /\ phase \in {"ended", "truncated"}
    BY <1>3 DEF Shaped, frames, n
  <1>5. phase # "truncated"
    <2> SUFFICES ASSUME phase = "truncated" PROVE FALSE
      OBVIOUS
    <2>1. n > 1 /\ frames[n - 1].kind = "stub"
      BY DEF Shaped, frames, n
    <2>2. n - 1 \in 1 .. h
      BY <1>1, <1>4, <2>1
    <2> QED BY <1>1, <1>2, <2>1, <2>2 DEF Clear
  <1>6. c[n] = last
    BY DEF Tallied, frames, n
  <1> QED BY <1>2, <1>4, <1>5, <1>6

LEMMA ReadRoundInv == ASSUME H3Inv, ReadRound PROVE H3Inv'
  <1> DEFINE here == bidi.here
             way == bidi.wire
             frames == Stream(here, way)
             ins == Stream(uni.here, uni.wire)
             t == CHOOSE u \in Drained : TRUE
             fin == here # <<>> /\ Last(here).kind = "fin"
             r0 == [table |-> t, headers |-> client.headers, body |-> client.body, acks |-> acks,
                    agree |-> agree, refused |-> FALSE, stub |-> FALSE, fin |-> fin]
             r == Consuming(r0, here)[Len(here)]
             out == Outcome(r)
  <1>1. UnderWay /\ agree = TRUE /\ client.pc = "read"
    BY DEF ReadRound, H3Inv
  <1>2. Typed3 /\ Phased /\ KnownReceived /\ TablesMeet /\ TalliesMeet /\ client.result = "none"
    BY <1>1 DEF UnderWay
  <1>3. UNCHANGED srv
    BY DEF ReadRound
  <1>4. IF Drained = {}
        THEN client' = Done("refused") /\ UNCHANGED <<uni, bidi, acks, agree>>
        ELSE /\ client' = [client EXCEPT !.pc = IF out = "none" THEN "pump" ELSE "done", !.result = out,
                                         !.table = t, !.headers = r.headers, !.body = r.body]
             /\ uni' = [uni EXCEPT !.here = <<>>]
             /\ bidi' = [bidi EXCEPT !.here = IF r.refused THEN @
                                              ELSE IF r.stub THEN <<[kind |-> "stub"]>> ELSE <<>>]
             /\ acks' = r.acks /\ agree' = r.agree
    BY DEF ReadRound
  <1>5. /\ uni.here \in Seq(InstructionType) /\ uni.wire \in Seq(InstructionType)
        /\ here \in Seq(Frames3) /\ way \in Seq(Frames3) /\ acks \in Nat
        /\ client.headers \in Seq(Entries3) /\ client.body \in Nat
        /\ srv.known \in Nat /\ client.table.inserted \in Nat /\ srv.table.dropped \in Nat
    BY <1>2 DEF Typed3, UniType3, BidiType3, ClientType3, ServerType3, Tables3
  <1>6. PICK e : Leads(e, ins, client.table, srv.table)
    BY <1>2 DEF TablesMeet, Stream
  <1>7. PICK c : Tallied(c, frames, ClientTally, ServerTally, srv)
    BY <1>2 DEF TalliesMeet, Stream
  <1>8. Shaped(frames, srv.phase)
    BY <1>2 DEF Phased, Stream
  <1> DEFINE k == Len(uni.here)
  <1>9. k \in 0 .. Len(ins) /\ ins \in Seq(InstructionType) /\ 0 \in 0 .. Len(ins) /\ Len(ins) \in 0 .. Len(ins) /\ 0 <= k /\ k <= Len(ins)
        /\ Stream(<<>>, uni.wire) = SubSeq(ins, k + 1, Len(ins))
    <2>1. ins \in Seq(InstructionType) /\ k \in Nat /\ Len(ins) \in Nat /\ k <= Len(ins)
          /\ Stream(<<>>, uni.wire) = SubSeq(ins, k + 1, Len(ins))
      BY <1>5, StreamRead
    <2> HIDE DEF k, ins
    <2> QED BY <2>1
  <1>10. ApplyAll(client.table, uni.here) = {e[k]}
    BY <1>5, <1>6, AllApplied DEF Stream
  <1>11. CASE Drained = {}
    <2>1. uni.cut
      <3> SUFFICES ASSUME ~uni.cut PROVE FALSE
        OBVIOUS
      <3>1. Drained = {e[k]}
        BY <1>10 DEF Drained
      <3> QED BY <1>11, <3>1
    <2>2. SplitInts
      BY <1>2, <2>1 DEF Typed3
    <2>3. client'.pc = "done" /\ client'.result = "refused" /\ agree' = TRUE
      BY <1>1, <1>2, <1>4, <1>11 DEF Done, Typed3, ClientType3
    <2> QED BY <2>2, <2>3 DEF H3Inv, ResponseWhole
  <1>12. CASE Drained # {}
    <2>1. ~uni.cut /\ t = e[k] /\ uni.cut = FALSE
      <3>1. ~uni.cut
        BY <1>12 DEF Drained
      <3>2. Drained = {e[k]}
        BY <1>10, <3>1 DEF Drained
      <3>3. uni.cut \in BOOLEAN
        BY <1>2 DEF Typed3, UniType3
      <3> QED BY <3>1, <3>2, <3>3
    <2> HIDE DEF t, fin, ins, frames, k
    <2>2. /\ TableOK(t) /\ TableOK(srv.table) /\ Grows(t, srv.table) /\ Grows(client.table, t)
      <3>1. e[0] = client.table /\ e[Len(ins)] = srv.table
        BY <1>6 DEF Leads
      <3> QED BY <1>6, <1>9, <2>1, <3>1 DEF Leads
    <2>3. t \in Tables3 /\ t.inserted \in Nat /\ client.table.inserted <= t.inserted
      BY <2>2 DEF TableOK, Tables3, Grows
    <2>4. Behindhand(t, srv.table)
      <3>1. srv.table.dropped <= t.inserted
        BY <1>2, <1>5, <2>3 DEF KnownReceived
      <3> QED BY <2>2, <3>1 DEF Behindhand
    <2>5. /\ r0 \in ReaderType /\ r0.agree = TRUE /\ r0.refused = FALSE /\ r0.stub = FALSE
          /\ r0.table = t /\ r0.fin = fin /\ ReaderTally(r0) = ClientTally
      <3>1. fin \in BOOLEAN
        BY DEF fin
      <3> QED BY <1>1, <1>5, <2>3, <3>1 DEF ReaderType, ReaderTally, ClientTally
    <2> HIDE DEF r0
    <2>6. Reached(r, r0, c, here, Len(here))
      <3>1. c[0] = ReaderTally(r0)
        BY <1>7, <2>5 DEF Tallied
      <3>2. ASSUME NEW i \in 1 .. Len(here)
            PROVE  c[i] = Counted(c[i - 1], here[i]) /\ Refers(here[i], c[i - 1], srv)
        <4>1. i \in 1 .. Len(frames) /\ frames[i] = here[i]
          <5>1. /\ Len(here) \in Nat /\ Len(frames) \in Nat /\ Len(here) <= Len(frames)
                /\ \A j \in 1 .. Len(here) : frames[j] = here[j]
            BY <1>5, StreamRead DEF frames
          <5> QED BY <5>1
        <4>2. c[i] = Counted(c[i - 1], frames[i]) /\ Refers(frames[i], c[i - 1], srv)
          BY <1>7, <4>1 DEF Tallied
        <4> QED BY <4>1, <4>2
      <3>3. Behindhand(r0.table, srv.table)
        BY <2>4, <2>5
      <3> HIDE DEF here
      <3>4. here \in Seq(Frames3)
        BY <1>5
      <3> QED BY <2>5, <3>1, <3>2, <3>3, <3>4, AllRead
    <2>7. /\ r \in ReaderType /\ r.agree = TRUE /\ r.table = t /\ r.fin = fin
          /\ r.refused \in BOOLEAN /\ r.stub \in BOOLEAN /\ r.headers \in Seq(Entries3) /\ r.body \in Nat /\ r.acks \in Nat
      <3>1. /\ r \in ReaderType /\ r.agree /\ r.table = t /\ r.fin = fin
        BY <2>5, <2>6 DEF Reached
      <3> HIDE DEF r
      <3> QED BY <3>1 DEF ReaderType
    <2>8. fin <=> Len(here) > 0 /\ here[Len(here)].kind = "fin"
      BY <1>5, EmptySeq DEF fin, Last
    <2> HIDE DEF r, here, way
    <2>9. /\ client' = [client EXCEPT !.pc = IF out = "none" THEN "pump" ELSE "done", !.result = out,
                                      !.table = t, !.headers = r.headers, !.body = r.body]
          /\ uni' = [uni EXCEPT !.here = <<>>]
          /\ bidi' = [bidi EXCEPT !.here = IF r.refused THEN here
                                           ELSE IF r.stub THEN <<[kind |-> "stub"]>> ELSE <<>>]
          /\ acks' = r.acks /\ agree' = r.agree
      BY <1>4, <1>12 DEF here
    <2>10. /\ client'.pc = (IF out = "none" THEN "pump" ELSE "done") /\ client'.result = out
           /\ client'.table = t /\ client'.headers = r.headers /\ client'.body = r.body
      BY <1>2, <2>9 DEF Typed3, ClientType3
    <2>11. agree' = TRUE
      BY <2>7, <2>9
    <2>12. CASE r.refused
      <3>1. out = "refused"
        BY <2>12 DEF Outcome
      <3>2. client'.result = "refused" /\ client'.pc = "done"
        BY <2>10, <3>1
      <3>3. \E j \in DOMAIN here : here[j].kind = "headers" /\ here[j].need > t.inserted
        <4>1. \E j \in 1 .. Len(here) : here[j].kind = "headers" /\ here[j].need > t.inserted
          BY <2>5, <2>6, <2>12 DEF Reached
        <4>2. DOMAIN here = 1 .. Len(here)
          BY <1>5
        <4> QED BY <4>1, <4>2
      <3>4. bidi'.here = here
        BY <1>2, <2>9, <2>12 DEF here, Typed3, BidiType3
      <3>5. RefusedOnlyOvertaken'
        BY <2>10, <3>3, <3>4 DEF RefusedOnlyOvertaken
      <3> QED BY <2>11, <3>2, <3>5 DEF H3Inv, ResponseWhole
    <2>13. CASE ~r.refused /\ fin /\ (r.stub \/ r.headers = Nothing)
      <3>1. out = "error"
        BY <2>7, <2>13 DEF Outcome
      <3> QED BY <2>10, <2>11, <3>1, H3Kept
    <2>14. CASE ~r.refused /\ fin /\ ~(r.stub \/ r.headers = Nothing)
      <3>1. out = "ok"
        BY <2>7, <2>14 DEF Outcome
      <3>2. ReaderTally(r) = ServerTally /\ srv.phase = "ended"
        <4>1. /\ Tallied(c, Stream(here, way), ClientTally, ServerTally, srv) /\ Shaped(Stream(here, way), srv.phase)
              /\ here \in Seq(Frames3) /\ way \in Seq(Frames3)
          BY <1>5, <1>7, <1>8 DEF frames
        <4> QED BY <2>6, <2>8, <2>14, <4>1, AllHere
      <3>3. r.headers = srv.headers /\ r.body = srv.body
        BY <3>2 DEF ReaderTally, ServerTally
      <3>4. ResponseWhole'
        BY <1>3, <2>10, <3>2, <3>3 DEF ResponseWhole
      <3>5. client'.result = "ok" /\ client'.pc = "done"
        BY <2>10, <3>1
      <3> QED BY <2>11, <3>4, <3>5 DEF H3Inv, RefusedOnlyOvertaken
    <2>15. CASE ~r.refused /\ ~fin
      <3>1. out = "none"
        BY <2>7, <2>15 DEF Outcome
      <3> DEFINE b == IF r.stub THEN <<[kind |-> "stub"]>> ELSE <<>>
                 left == Stream(b, way)
      <3>2. PICK m \in 0 .. Len(here) :
                /\ ReaderTally(r) = c[m] /\ Clear(here, r0.table, m)
                /\ \E d : Tallied(d, left, c[m], ServerTally, srv)
                /\ Shaped(left, srv.phase)
        <4>1. /\ Tallied(c, Stream(here, way), ClientTally, ServerTally, srv) /\ Shaped(Stream(here, way), srv.phase)
              /\ here \in Seq(Frames3) /\ way \in Seq(Frames3)
          BY <1>5, <1>7, <1>8 DEF frames
        <4>2. ~(Len(here) > 0 /\ here[Len(here)].kind = "fin")
          BY <2>8, <2>15
        <4> QED BY <2>6, <2>15, <4>1, <4>2, FramesLeft
      <3>3. b \in Seq(Frames3)
        <4>1. [kind |-> "stub"] \in Frames3
          BY DEF Frames3
        <4> QED BY <4>1
      <3> HIDE DEF b, left
      <3>4. /\ client' \in ClientType3 /\ client'.pc = "pump" /\ client'.result = "none"
        BY <1>2, <2>3, <2>7, <2>9, <3>1 DEF Typed3, ClientType3
      <3>5. /\ uni' \in UniType3 /\ uni'.here = <<>> /\ uni'.wire = uni.wire /\ uni'.cut = FALSE
        <4>1. <<>> \in Seq(InstructionType)
          OBVIOUS
        <4> QED BY <1>2, <2>1, <2>9, <4>1 DEF Typed3, UniType3
      <3>6. /\ bidi' \in BidiType3 /\ bidi'.here = b /\ bidi'.wire = way
        <4>1. bidi' = [bidi EXCEPT !.here = b]
          BY <2>9, <2>15 DEF b
        <4> QED BY <1>2, <3>3, <4>1 DEF way, Typed3, BidiType3
      <3>7. Typed3'
        BY <1>2, <1>3, <2>7, <2>9, <3>4, <3>5, <3>6 DEF Typed3
      <3>8. bidi'.here \o bidi'.wire = left /\ uni'.here \o uni'.wire = Stream(<<>>, uni.wire)
        BY <3>5, <3>6 DEF left, Stream
      <3>9. Phased'
        BY <1>2, <1>3, <3>2, <3>4, <3>8 DEF Phased
      <3>10. KnownReceived'
        <4>1. srv.known <= t.inserted
          BY <1>2, <1>5, <2>3 DEF KnownReceived
        <4>2. \A a \in 1 .. c[m].acks : srv.unacked[a].need <= t.inserted
          <5>1. /\ frames \in Seq(Frames3) /\ Len(here) \in Nat /\ Len(frames) \in Nat /\ Len(here) <= Len(frames)
                /\ \A j \in 1 .. Len(here) : frames[j] = here[j]
            BY <1>5, StreamRead DEF frames
          <5>2. m \in 0 .. Len(frames)
            BY <5>1
          <5>3. Clear(frames, t, m)
            BY <2>5, <3>2, <5>1 DEF Clear
          <5>4. /\ \A i \in 0 .. Len(frames) : c[i] \in Tallies
                /\ \A i \in 1 .. Len(frames) : c[i] = Counted(c[i - 1], frames[i]) /\ Refers(frames[i], c[i - 1], srv)
                /\ c[0] = ClientTally
            BY <1>7 DEF Tallied
          <5>5. \A a \in 1 .. c[0].acks : srv.unacked[a].need <= t.inserted
            <6> SUFFICES ASSUME NEW a \in 1 .. acks PROVE srv.unacked[a].need <= t.inserted
              BY <5>4 DEF ClientTally
            <6>1. a \in 1 .. Len(srv.unacked)
              <7>1. 0 \in 0 .. Len(frames)
                BY <5>1
              <7>2. c[0].acks <= ServerTally.acks
                BY <1>7, <7>1 DEF Tallied
              <7>3. Len(srv.unacked) \in Nat
                BY <1>2 DEF Typed3, ServerType3
              <7> QED BY <1>5, <5>4, <7>2, <7>3 DEF ClientTally, ServerTally
            <6>2. srv.unacked[a].need \in Nat
              <7>1. srv.unacked[a] \in References
                BY <1>2, <6>1 DEF Typed3, ServerType3
              <7> QED BY <7>1 DEF References
            <6>3. srv.unacked[a].need <= client.table.inserted
              BY <1>2 DEF KnownReceived
            <6> QED BY <1>5, <2>3, <6>2, <6>3
          <5> QED BY <2>3, <5>1, <5>2, <5>3, <5>4, <5>5, AcksReceived
        <4>3. acks' = c[m].acks
          BY <2>9, <3>2 DEF ReaderTally
        <4> QED BY <1>2, <1>3, <2>10, <4>1, <4>2, <4>3 DEF KnownReceived
      <3>11. TablesMeet'
        <4>1. \E d : Leads(d, SubSeq(ins, k + 1, Len(ins)), e[k], srv.table)
          BY <1>6, <1>9, LeadsOff
        <4> QED BY <1>3, <1>9, <2>1, <2>10, <3>8, <4>1 DEF TablesMeet
      <3>12. TalliesMeet'
        <4>1. ServerTally' = ServerTally
          BY <1>3 DEF ServerTally
        <4>2. ClientTally' = c[m]
          BY <2>9, <2>10, <3>2 DEF ClientTally, ReaderTally
        <4> QED BY <1>3, <3>2, <3>8, <4>1, <4>2 DEF TalliesMeet
      <3>13. UnderWay'
        BY <3>4, <3>7, <3>9, <3>10, <3>11, <3>12 DEF UnderWay
      <3> QED BY <2>11, <3>4, <3>13, H3Kept
    <2> QED BY <2>7, <2>12, <2>13, <2>14, <2>15
  <1> QED BY <1>11, <1>12

LEMMA H3Next == H3Inv /\ [Next3]_h3vars => H3Inv'
  <1> SUFFICES ASSUME H3Inv, [Next3]_h3vars PROVE H3Inv'
    OBVIOUS
  <1>1. CASE UNCHANGED h3vars
    BY <1>1 DEF h3vars, H3Inv, ResponseWhole, RefusedOnlyOvertaken, UnderWay, Typed3, Phased, KnownReceived,
                TablesMeet, TalliesMeet, ClientTally, ServerTally
  <1>2. CASE Connect
    BY <1>2, ConnectInv
  <1>3. CASE WriteRequest
    BY <1>3, WriteRequestInv
  <1>4. CASE SendFails \/ GiveUp \/ PumpFails
    BY <1>4, GivesUpInv
  <1>5. CASE ReadRound
    BY <1>5, ReadRoundInv
  <1>6. CASE Pump
    BY <1>6, PumpInv
  <1>7. CASE PumpClosed
    BY <1>7, PumpClosedInv
  <1>8. CASE Instruct
    BY <1>8, InstructInv
  <1>9. CASE SendSection
    BY <1>9, SendSectionInv
  <1>10. CASE SendData
    BY <1>10, SendDataInv
  <1>11. CASE Finish
    BY <1>11, FinishInv
  <1>12. CASE ReadSectionAck
    BY <1>12, ReadSectionAckInv
  <1> QED BY <1>1, <1>2, <1>3, <1>4, <1>5, <1>6, <1>7, <1>8, <1>9, <1>10, <1>11, <1>12 DEF Next3

\* The two connections of HeaderCoding are apart.
LEMMA H3Holds == SpecCoding => []H3Inv
  <1>1. InitCoding => H3Inv
    BY H3Init DEF InitCoding
  <1>2. H3Inv /\ [NextCoding]_<<vars, h3vars, protocol>> => H3Inv'
    <2> SUFFICES ASSUME H3Inv, [NextCoding]_<<vars, h3vars, protocol>> PROVE H3Inv'
      OBVIOUS
    <2>1. [Next3]_h3vars
      BY DEF NextCoding
    <2> QED BY <2>1, H3Next
  <1> QED BY <1>1, <1>2, PTL DEF SpecCoding

\* Every field section is decoded to the fields its encoder meant, or not at all, for every
\* static table, capacity and Base, and however the encoder stream and the request stream
\* are cut into datagrams (decode_field_section_with, DynamicTable).
THEOREM SectionsKept == SpecCoding => []SectionsAsSent
  <1>1. H3Inv => SectionsAsSent
    BY DEF H3Inv, SectionsAsSent
  <1> QED BY <1>1, H3Holds, PTL

\* A response that read_response returns is the one that was sent, to its end.
THEOREM ResponsesWhole == SpecCoding => []ResponseWhole
  <1>1. H3Inv => ResponseWhole
    BY DEF H3Inv
  <1> QED BY <1>1, H3Holds, PTL

\* Where no datagram ends within the integer that starts an instruction, an exchange is
\* refused only for a section that has overtaken its inserts: the encoder stream is never
\* misread, and no count or Base that the server may choose is turned away
\* (apply_encoder_instructions, decode_required_insert_count, decode_base).
THEOREM RefusalsOvertaken == ASSUME ~SplitInts PROVE SpecCoding => []RefusedOnlyOvertaken
  <1>1. H3Inv => RefusedOnlyOvertaken
    BY DEF H3Inv
  <1> QED BY <1>1, H3Holds, PTL
=============================================================================
