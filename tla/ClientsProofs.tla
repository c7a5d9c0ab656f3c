---------------------------- MODULE ClientsProofs ----------------------------
(***************************************************************************)
(* What TLAPS proves of the clients of the command protocols.              *)
(***************************************************************************)
EXTENDS Clients, SequenceTheorems, TLAPS

\* The tail of a sequence, one element of which is read.
LEMMA Reading ==
    ASSUME NEW S, NEW q \in Seq(S), q # <<>>
    PROVE  /\ Head(q) = q[1] /\ Head(q) \in S /\ Len(q) \in Nat \ {0}
           /\ Tail(q) \in Seq(S) /\ Len(Tail(q)) = Len(q) - 1
           /\ \A i \in 1 .. Len(q) - 1 : Tail(q)[i] = q[i + 1]
  OBVIOUS

\* Sequences of one and two elements, read and written.
LEMMA One ==
    ASSUME NEW x
    PROVE  /\ <<x>> # <<>> /\ Head(<<x>>) = x /\ Tail(<<x>>) = <<>> /\ Append(<<>>, x) = <<x>>
           /\ <<>> \o <<x>> = <<x>> /\ <<>> \o <<>> = <<>> /\ Len(<<x>>) = 1 /\ <<x>>[1] = x
  OBVIOUS

LEMMA OneIn == ASSUME NEW S, NEW x \in S PROVE <<x>> \in Seq(S)
  OBVIOUS

LEMMA Two ==
    ASSUME NEW x, NEW y
    PROVE  /\ <<x, y>> # <<>> /\ Head(<<x, y>>) = x /\ Tail(<<x, y>>) = <<y>>
           /\ <<>> \o <<x, y>> = <<x, y>> /\ Len(<<x, y>>) = 2
  OBVIOUS

LEMMA Empty == \A S : <<>> \in Seq(S)
  OBVIOUS

LEMMA EmptyLen == Len(<<>>) = 0
  OBVIOUS

LEMMA NoneLeft == ASSUME NEW S, NEW q \in Seq(S), Len(q) = 0 PROVE q = <<>>
  OBVIOUS

LEMMA Numbers ==
    \A m \in Nat \ {0, 1} : /\ m - 1 \in 1 .. m - 1 /\ (m - 1) + 1 = m /\ 1 \in 1 .. m - 1
                          /\ m - 1 \in Nat \ {0} /\ 1 + 1 = 2 /\ 2 \in 1 .. m
  OBVIOUS

\* What is behind a queue when something is put behind it.
LEMMA Joined ==
    ASSUME NEW S, NEW q \in Seq(S), NEW more \in Seq(S), NEW x, \A i \in 1 .. Len(more) : more[i] = x
    PROVE  /\ q \o more \in Seq(S) /\ Len(q \o more) = Len(q) + Len(more)
           /\ \A i \in 1 .. Len(q) : (q \o more)[i] = q[i]
           /\ \A i \in 1 .. Len(q \o more) : (q \o more)[i] = x \/ \E j \in 1 .. Len(q) : (q \o more)[i] = q[j]
  <1>1. /\ q \o more \in Seq(S) /\ Len(q \o more) = Len(q) + Len(more)
        /\ \A i \in 1 .. Len(q) + Len(more) : (q \o more)[i] = IF i <= Len(q) THEN q[i] ELSE more[i - Len(q)]
    BY ConcatProperties
  <1>2. Len(q) \in Nat /\ Len(more) \in Nat
    BY LenProperties
  <1>3. \A i \in 1 .. Len(q) : (q \o more)[i] = q[i]
    BY <1>1, <1>2
  <1>4. ASSUME NEW i \in 1 .. Len(q \o more), ~(i <= Len(q)) PROVE (q \o more)[i] = x
    <2>1. i - Len(q) \in 1 .. Len(more)
      BY <1>1, <1>2, <1>4
    <2> QED BY <1>1, <1>4, <2>1
  <1>5. \A i \in 1 .. Len(q \o more) : i <= Len(q) => i \in 1 .. Len(q)
    BY <1>1, <1>2
  <1> QED BY <1>1, <1>3, <1>4, <1>5

LEMMA JoinedTail ==
    ASSUME NEW S, NEW q \in Seq(S), NEW more \in Seq(S), q # <<>>
    PROVE  q \o more # <<>> /\ Head(q \o more) = Head(q) /\ Tail(q \o more) = Tail(q) \o more
  <1>1. /\ q \o more \in Seq(S) /\ Len(q \o more) = Len(q) + Len(more)
        /\ \A i \in 1 .. Len(q) + Len(more) : (q \o more)[i] = IF i <= Len(q) THEN q[i] ELSE more[i - Len(q)]
    BY ConcatProperties
  <1>2. Len(q) \in Nat \ {0} /\ Len(more) \in Nat
    BY Reading, LenProperties
  <1>3. q \o more # <<>>
    BY <1>1, <1>2, EmptyLen
  <1>4. 1 \in 1 .. Len(q) + Len(more) /\ 1 <= Len(q)
    BY <1>2
  <1>5. Head(q \o more) = Head(q)
    <2>1. (q \o more)[1] = q[1]
      BY <1>1, <1>4
    <2> QED BY <1>1, <1>3, <2>1, Reading
  <1>6. /\ Tail(q \o more) \in Seq(S) /\ Len(Tail(q \o more)) = Len(q) + Len(more) - 1
        /\ \A i \in 1 .. Len(q) + Len(more) - 1 : Tail(q \o more)[i] = (q \o more)[i + 1]
    BY <1>1, <1>3, Reading
  <1>7. /\ Tail(q) \in Seq(S) /\ Len(Tail(q)) = Len(q) - 1
        /\ \A i \in 1 .. Len(q) - 1 : Tail(q)[i] = q[i + 1]
    BY Reading
  <1> DEFINE t == Tail(q)
             j == t \o more
             n == Len(q)
             m == Len(more)
  <1>8. j \in Seq(S) /\ Len(j) = Len(t) + Len(more)
        /\ \A i \in 1 .. Len(t) + Len(more) : j[i] = IF i <= Len(t) THEN t[i] ELSE more[i - Len(t)]
    BY <1>7, ConcatProperties
  <1>9. n \in Nat \ {0} /\ m \in Nat /\ Len(t) = n - 1
    BY <1>2, <1>7
  <1>10. ASSUME NEW i \in 1 .. n + m - 1 PROVE Tail(q \o more)[i] = j[i]
    <2>1. i + 1 \in 1 .. n + m /\ i \in 1 .. (n - 1) + m /\ i \in Nat
      <3> HIDE DEF n, m
      <3> QED BY <1>9
    <2>2. CASE i <= n - 1
      <3>1. i + 1 <= n /\ i \in 1 .. n - 1
        <4> HIDE DEF n, m
        <4> QED BY <1>9, <2>1, <2>2
      <3>2. Tail(q \o more)[i] = q[i + 1]
        BY <1>1, <1>6, <2>1, <3>1
      <3>3. j[i] = t[i]
        BY <1>8, <1>9, <2>1, <2>2
      <3> QED BY <1>7, <3>1, <3>2, <3>3
    <2>3. CASE ~(i <= n - 1)
      <3>1. ~(i + 1 <= n) /\ (i + 1) - n = i - (n - 1)
        <4> HIDE DEF n, m
        <4> QED BY <1>9, <2>1, <2>3
      <3>2. Tail(q \o more)[i] = more[(i + 1) - n]
        BY <1>1, <1>6, <2>1, <3>1
      <3>3. j[i] = more[i - (n - 1)]
        BY <1>8, <1>9, <2>1, <2>3
      <3> QED BY <3>1, <3>2, <3>3
    <2> QED BY <2>2, <2>3
  <1>11. Len(j) = n + m - 1
    <2>1. Len(j) = (n - 1) + m
      BY <1>8, <1>9
    <2> HIDE DEF n, m
    <2> QED BY <1>9, <2>1
  <1>12. Tail(q \o more) = j
    BY <1>6, <1>8, <1>10, <1>11, SeqEqual
  <1> QED BY <1>3, <1>5, <1>12

\* A way from a to b along the messages of q, each of them a step <<from, message, to>>.
Course(X, Steps, q, a, b) ==
    \E c \in [0 .. Len(q) -> X] :
        /\ c[0] = a /\ c[Len(q)] = b
        /\ \A i \in 1 .. Len(q) : <<c[i - 1], q[i], c[i]>> \in Steps

LEMMA CourseEmpty == ASSUME NEW X, NEW Steps, NEW a \in X PROVE Course(X, Steps, <<>>, a, a)
  <1> DEFINE c == [i \in 0 .. 0 |-> a]
  <1>1. c \in [0 .. 0 -> X] /\ c[0] = a /\ 0 .. Len(<<>>) = 0 .. 0 /\ Len(<<>>) = 0 /\ 1 .. Len(<<>>) = {}
    OBVIOUS
  <1> HIDE DEF c
  <1> QED BY <1>1 DEF Course

LEMMA CourseNone == ASSUME NEW X, NEW Steps, NEW a, NEW b, Course(X, Steps, <<>>, a, b) PROVE a = b
  BY DEF Course

LEMMA CourseRead ==
    ASSUME NEW S, NEW q \in Seq(S), q # <<>>, NEW X, NEW Steps, NEW a, NEW b, Course(X, Steps, q, a, b)
    PROVE  \E m \in X : <<a, Head(q), m>> \in Steps /\ Course(X, Steps, Tail(q), m, b)
  <1>1. /\ Head(q) = q[1] /\ Len(q) \in Nat \ {0}
        /\ Tail(q) \in Seq(S) /\ Len(Tail(q)) = Len(q) - 1
        /\ \A i \in 1 .. Len(q) - 1 : Tail(q)[i] = q[i + 1]
    BY Reading
  <1>2. PICK c \in [0 .. Len(q) -> X] :
            /\ c[0] = a /\ c[Len(q)] = b
            /\ \A i \in 1 .. Len(q) : <<c[i - 1], q[i], c[i]>> \in Steps
    BY DEF Course
  <1> DEFINE k == Len(q)
             d == [i \in 0 .. k - 1 |-> c[i + 1]]
             t == Tail(q)
  <1>3. /\ k \in Nat \ {0} /\ 1 \in 1 .. k /\ 1 \in 0 .. k /\ 1 - 1 = 0 /\ 0 \in 0 .. k - 1 /\ k - 1 \in 0 .. k - 1
        /\ (k - 1) + 1 = k /\ 0 + 1 = 1
    BY <1>1
  <1>4. <<a, Head(q), c[1]>> \in Steps /\ c[1] \in X
    BY <1>1, <1>2, <1>3
  <1>5. \A i \in 0 .. k - 1 : i + 1 \in 0 .. k
    BY <1>3
  <1>6. d \in [0 .. k - 1 -> X] /\ d[0] = c[1] /\ d[k - 1] = b
    BY <1>2, <1>3, <1>5
  <1>7. ASSUME NEW i \in 1 .. k - 1 PROVE <<d[i - 1], t[i], d[i]>> \in Steps
    <2>1. i + 1 \in 1 .. k /\ i - 1 \in 0 .. k - 1 /\ i \in 0 .. k - 1 /\ (i + 1) - 1 = i /\ (i - 1) + 1 = i
      BY <1>3
    <2>2. d[i - 1] = c[i] /\ d[i] = c[i + 1] /\ t[i] = q[i + 1]
      BY <1>1, <2>1
    <2> QED BY <1>2, <2>1, <2>2
  <1>8. Len(t) = k - 1
    BY <1>1
  <1> HIDE DEF d, t, k
  <1>9. Course(X, Steps, t, c[1], b)
    BY <1>6, <1>7, <1>8 DEF Course
  <1> QED BY <1>4, <1>9 DEF t

LEMMA CourseSent ==
    ASSUME NEW S, NEW q \in Seq(S), NEW x \in S, NEW X, NEW Steps, NEW a, NEW b, NEW m \in X,
           Course(X, Steps, q, a, b), <<b, x, m>> \in Steps
    PROVE  Course(X, Steps, q \o <<x>>, a, m)
  <1>1. PICK c \in [0 .. Len(q) -> X] :
            /\ c[0] = a /\ c[Len(q)] = b
            /\ \A i \in 1 .. Len(q) : <<c[i - 1], q[i], c[i]>> \in Steps
    BY DEF Course
  <1>2. <<x>> \in Seq(S) /\ Len(<<x>>) = 1 /\ <<x>>[1] = x
    BY OneIn, One
  <1> DEFINE k == Len(q)
             j == q \o <<x>>
             d == [i \in 0 .. k + 1 |-> IF i <= k THEN c[i] ELSE m]
  <1>3. k \in Nat
    BY LenProperties
  <1>4. /\ Len(j) = k + 1
        /\ \A i \in 1 .. k + 1 : j[i] = IF i <= k THEN q[i] ELSE <<x>>[i - k]
    BY <1>2, ConcatProperties
  <1>5. \A i \in 0 .. k + 1 : i <= k => i \in 0 .. k
    BY <1>3
  <1>6. d \in [0 .. k + 1 -> X]
    BY <1>5
  <1>7. 0 \in 0 .. k + 1 /\ k + 1 \in 0 .. k + 1 /\ ~(k + 1 <= k) /\ 0 <= k
    BY <1>3
  <1>8. d[0] = a /\ d[k + 1] = m
    BY <1>1, <1>7
  <1>9. ASSUME NEW i \in 1 .. k + 1 PROVE <<d[i - 1], j[i], d[i]>> \in Steps
    <2>1. CASE i <= k
      <3>1. i - 1 \in 0 .. k + 1 /\ i - 1 <= k /\ i \in 0 .. k + 1 /\ i \in 1 .. k
        BY <1>3, <2>1
      <3>2. d[i - 1] = c[i - 1] /\ d[i] = c[i] /\ j[i] = q[i]
        BY <1>4, <2>1, <3>1
      <3> QED BY <1>1, <3>1, <3>2
    <2>2. CASE ~(i <= k)
      <3>1. i = k + 1 /\ i - 1 = k /\ i - k = 1 /\ k \in 0 .. k + 1 /\ k <= k
        BY <1>3, <2>2
      <3>2. d[i - 1] = c[k] /\ d[i] = m
        BY <1>8, <3>1
      <3>3. j[i] = x
        BY <1>2, <1>4, <2>2, <3>1
      <3> QED BY <1>1, <3>2, <3>3
    <2> QED BY <2>1, <2>2
  <1> HIDE DEF d, j, k
  <1>10. Course(X, Steps, j, a, m)
    BY <1>4, <1>6, <1>8, <1>9 DEF Course
  <1> QED BY <1>10 DEF j

\* Two messages sent at once; and more allowed steps.
LEMMA CourseMore ==
    ASSUME NEW q, NEW X, NEW Steps, NEW Others, Steps \subseteq Others, NEW a, NEW b, Course(X, Steps, q, a, b)
    PROVE  Course(X, Others, q, a, b)
  BY DEF Course

LEMMA CourseIdle ==
    ASSUME NEW S, NEW q \in Seq(S), NEW X, NEW Steps, NEW a \in X, \A r \in S : <<a, r, a>> \in Steps
    PROVE  Course(X, Steps, q, a, a)
  <1> DEFINE c == [i \in 0 .. Len(q) |-> a]
             k == Len(q)
  <1>1. k \in Nat /\ \A i \in 1 .. k : q[i] \in S
    BY LenProperties, ElementOfSeq
  <1>2. 0 \in 0 .. k /\ k \in 0 .. k /\ \A i \in 1 .. k : i - 1 \in 0 .. k /\ i \in 0 .. k
    BY <1>1
  <1>3. c \in [0 .. k -> X] /\ c[0] = a /\ c[k] = a
    BY <1>2
  <1>4. \A i \in 1 .. k : <<c[i - 1], q[i], c[i]>> \in Steps
    BY <1>1, <1>2
  <1> HIDE DEF c
  <1> QED BY <1>3, <1>4 DEF Course

\* The elements of a sequence are what its type is about.
LEMMA AllIn == ASSUME NEW S, NEW T, NEW q \in Seq(S), \A i \in 1 .. Len(q) : q[i] \in T PROVE q \in Seq(T)
  OBVIOUS

\* What is a beginning of a sequence, and one element longer still is.
LEMMA OneMore ==
    ASSUME NEW S, NEW got \in Seq(S), NEW all \in Seq(S), Len(got) + 1 <= Len(all),
           \A i \in 1 .. Len(got) : got[i] = all[i]
    PROVE  LET more == Append(got, all[Len(got) + 1])
           IN  /\ more \in Seq(S) /\ Len(more) = Len(got) + 1 /\ \A i \in 1 .. Len(more) : more[i] = all[i]
  <1> DEFINE k == Len(got)
             x == all[k + 1]
             more == Append(got, x)
  <1>1. k \in Nat /\ Len(all) \in Nat
    BY LenProperties
  <1>2. k + 1 \in 1 .. Len(all)
    BY <1>1
  <1>3. x \in S
    BY <1>2, ElementOfSeq
  <1>4. more \in Seq(S) /\ Len(more) = k + 1
    BY <1>3
  <1>5. \A i \in 1 .. k : more[i] = got[i]
    BY <1>3
  <1>6. more[k + 1] = x
    BY <1>3
  <1>7. \A i \in 1 .. k + 1 : i \in 1 .. k \/ i = k + 1
    BY <1>1
  <1> HIDE DEF more
  <1>8. \A i \in 1 .. Len(more) : more[i] = all[i]
    BY <1>4, <1>5, <1>6, <1>7
  <1> QED BY <1>4, <1>8 DEF more

\* An element goes from what is left to what was read.
LEMMA ReadOn ==
    ASSUME NEW S, NEW got \in Seq(S), NEW rest \in Seq(S), rest # <<>>
    PROVE  Append(got, Head(rest)) \in Seq(S) /\ Append(got, Head(rest)) \o Tail(rest) = got \o rest
  OBVIOUS

LEMMA AllRead == ASSUME NEW S, NEW got \in Seq(S) PROVE got \o <<>> = got /\ <<>> \o got = got
  OBVIOUS

\* A command on its way, alone, and of what may follow when it is served.
Asked(verb, n, commands, q) == commands = <<[verb |-> verb, arg |-> "", n |-> n]>> /\ q = <<>>

LEMMA AskedOne ==
    ASSUME NEW verb, NEW n, NEW commands, NEW q, Asked(verb, n, commands, q)
    PROVE  /\ commands # <<>> /\ Head(commands) = [verb |-> verb, arg |-> "", n |-> n]
           /\ Head(commands).verb = verb /\ Head(commands).n = n /\ Tail(commands) = <<>>
           /\ q = <<>> /\ \A x : q \o <<x>> = <<x>>
  <1> DEFINE command == [verb |-> verb, arg |-> "", n |-> n]
  <1>1. commands = <<command>> /\ q = <<>>
    BY DEF Asked
  <1>2. command.verb = verb /\ command.n = n
    OBVIOUS
  <1> HIDE DEF command
  <1>3. Head(commands) = command /\ commands # <<>> /\ Tail(commands) = <<>>
    BY <1>1, One
  <1>4. \A x : q \o <<x>> = <<x>>
    BY <1>1, One
  <1> QED BY <1>1, <1>2, <1>3, <1>4 DEF command

LEMMA AskedNext ==
    ASSUME NEW verb, NEW n, NEW commands, commands = <<>>
    PROVE  Append(commands, [verb |-> verb, arg |-> "", n |-> n]) = <<[verb |-> verb, arg |-> "", n |-> n]>>
  <1> DEFINE command == [verb |-> verb, arg |-> "", n |-> n]
  <1> HIDE DEF command
  <1>1. Append(commands, command) = <<command>>
    BY One
  <1> QED BY <1>1 DEF command

LEMMA AllThere == ASSUME NEW S, NEW q \in Seq(S) PROVE <<>> \o q = q
  OBVIOUS

LEMMA CourseJoin ==
    ASSUME NEW S, NEW q \in Seq(S), NEW more \in Seq(S), NEW X, NEW Steps, NEW a, NEW b, NEW d,
           Course(X, Steps, q, a, b), Course(X, Steps, more, b, d)
    PROVE  Course(X, Steps, q \o more, a, d)
  <1>1. PICK c \in [0 .. Len(q) -> X] :
            /\ c[0] = a /\ c[Len(q)] = b
            /\ \A i \in 1 .. Len(q) : <<c[i - 1], q[i], c[i]>> \in Steps
    BY DEF Course
  <1>2. PICK e \in [0 .. Len(more) -> X] :
            /\ e[0] = b /\ e[Len(more)] = d
            /\ \A i \in 1 .. Len(more) : <<e[i - 1], more[i], e[i]>> \in Steps
    BY DEF Course
  <1> DEFINE k == Len(q)
             m == Len(more)
             j == q \o more
             f == [i \in 0 .. k + m |-> IF i <= k THEN c[i] ELSE e[i - k]]
  <1>3. k \in Nat /\ m \in Nat
    BY LenProperties
  <1>4. /\ Len(j) = k + m
        /\ \A i \in 1 .. k + m : j[i] = IF i <= k THEN q[i] ELSE more[i - k]
    BY ConcatProperties
  <1>5. \A i \in 0 .. k + m : IF i <= k THEN i \in 0 .. k ELSE i - k \in 0 .. m
    BY <1>3
  <1>6. f \in [0 .. k + m -> X]
    BY <1>1, <1>2, <1>5
  <1>7. f[0] = a
    <2>1. 0 \in 0 .. k + m /\ 0 <= k
      BY <1>3
    <2> QED BY <1>1, <2>1
  <1>8. f[k + m] = d
    <2>1. k + m \in 0 .. k + m /\ (k + m) - k = m /\ (k + m <= k => m = 0 /\ k + m = k)
      BY <1>3
    <2>2. m = 0 => b = d
      BY <1>2
    <2> QED BY <1>1, <1>2, <2>1, <2>2
  <1>9. ASSUME NEW i \in 1 .. k + m PROVE <<f[i - 1], j[i], f[i]>> \in Steps
    <2>1. CASE i <= k
      <3>1. i - 1 \in 0 .. k + m /\ i - 1 <= k /\ i \in 0 .. k + m /\ i \in 1 .. k
        BY <1>3, <2>1
      <3>2. f[i - 1] = c[i - 1] /\ f[i] = c[i] /\ j[i] = q[i]
        BY <1>4, <2>1, <3>1
      <3> QED BY <1>1, <3>1, <3>2
    <2>2. CASE ~(i <= k)
      <3>1. /\ i - 1 \in 0 .. k + m /\ i \in 0 .. k + m /\ i - k \in 1 .. m /\ (i - k) - 1 = (i - 1) - k
            /\ (i - 1 <= k => i - 1 = k /\ (i - k) - 1 = 0)
        BY <1>3, <2>2
      <3>2. f[i] = e[i - k] /\ j[i] = more[i - k]
        BY <1>4, <2>2, <3>1
      <3>3. f[i - 1] = e[(i - k) - 1]
        <4>1. CASE i - 1 <= k
          BY <1>1, <1>2, <3>1, <4>1
        <4>2. CASE ~(i - 1 <= k)
          BY <3>1, <4>2
        <4> QED BY <4>1, <4>2
      <3> QED BY <1>2, <3>1, <3>2, <3>3
    <2> QED BY <2>1, <2>2
  <1> HIDE DEF f, j, k, m
  <1>10. Course(X, Steps, j, a, d)
    BY <1>4, <1>6, <1>7, <1>8, <1>9 DEF Course
  <1> QED BY <1>10 DEF j

LEMMA Suffix ==
    ASSUME NEW S, NEW s \in Seq(S), NEW i \in 1 .. Len(s)
    PROVE  LET t == SubSeq(s, i, Len(s))
           IN  /\ t \in Seq(S) /\ t # <<>> /\ Head(t) = s[i] /\ Tail(t) = SubSeq(s, i + 1, Len(s))
               /\ SubSeq(s, i + 1, Len(s)) \in Seq(S)
  <1> DEFINE n == Len(s)
             t == SubSeq(s, i, n)
             u == SubSeq(s, i + 1, n)
  <1>1. n \in Nat /\ i \in Nat /\ i + 1 \in Nat
    BY LenProperties
  <1>2. t \in Seq(S) /\ Len(t) = n - i + 1 /\ \A j \in 1 .. n - i + 1 : t[j] = s[i + j - 1]
    BY <1>1
  <1>3. u \in Seq(S) /\ Len(u) = n - i /\ \A j \in 1 .. n - i : u[j] = s[i + 1 + j - 1]
    BY <1>1
  <1> HIDE DEF t, u
  <1>4. n - i + 1 \in Nat \ {0} /\ 1 \in 1 .. n - i + 1 /\ i + 1 - 1 = i
    BY <1>1
  <1>5. t # <<>>
    BY <1>2, <1>4, EmptyLen
  <1>6. /\ Head(t) = t[1] /\ Tail(t) \in Seq(S) /\ Len(Tail(t)) = Len(t) - 1
        /\ \A j \in 1 .. Len(t) - 1 : Tail(t)[j] = t[j + 1]
    BY <1>2, <1>5, Reading
  <1>7. Head(t) = s[i]
    BY <1>2, <1>4, <1>6
  <1>8. Len(Tail(t)) = Len(u)
    <2>1. Len(Tail(t)) = Len(t) - 1
      BY <1>6
    <2>2. Len(t) = n - i + 1
      BY <1>2
    <2>3. Len(u) = n - i
      BY <1>3
    <2> HIDE DEF n
    <2> QED BY <1>1, <2>1, <2>2, <2>3
  <1>9. ASSUME NEW j \in 1 .. n - i PROVE Tail(t)[j] = u[j]
    <2>1. j \in 1 .. Len(t) - 1 /\ j + 1 \in 1 .. n - i + 1 /\ i + (j + 1) - 1 = i + 1 + j - 1
      BY <1>1, <1>2
    <2>2. Tail(t)[j] = t[j + 1] /\ t[j + 1] = s[i + (j + 1) - 1]
      BY <1>2, <1>6, <2>1
    <2> QED BY <1>3, <2>1, <2>2
  <1>10. Tail(t) = u
    BY <1>3, <1>6, <1>8, <1>9, SeqEqual
  <1> QED BY <1>2, <1>3, <1>5, <1>7, <1>10 DEF t, u

LEMMA Suffixes ==
    ASSUME NEW S, NEW s \in Seq(S) PROVE SubSeq(s, 1, Len(s)) = s /\ SubSeq(s, Len(s) + 1, Len(s)) = <<>>
  OBVIOUS

\* Messages that spell a sequence out, element by element: f is where its rest is left.
LEMMA CourseSpelled ==
    ASSUME NEW S, NEW s \in Seq(S), NEW T, NEW q \in Seq(T), Len(q) = Len(s), NEW X, NEW Steps, NEW f \in [Seq(S) -> X],
           \A i \in 1 .. Len(s) : \A rest \in Seq(S) :
                rest # <<>> /\ Head(rest) = s[i] => <<f[rest], q[i], f[Tail(rest)]>> \in Steps
    PROVE  Course(X, Steps, q, f[s], f[<<>>])
  <1> DEFINE k == Len(s)
             t(i) == SubSeq(s, i + 1, k)
             c == [i \in 0 .. k |-> f[t(i)]]
  <1>1. k \in Nat
    BY LenProperties
  <1>2. ASSUME NEW i \in 0 .. k PROVE t(i) \in Seq(S)
    <2>1. CASE i = k
      BY <1>1, <2>1, Suffixes
    <2>2. CASE i # k
      <3>1. i + 1 \in 1 .. k
        BY <1>1, <1>2, <2>2
      <3> QED BY <3>1, Suffix
    <2> QED BY <2>1, <2>2
  <1>3. t(0) = s /\ t(k) = <<>>
    BY <1>1, Suffixes
  <1>4. 0 \in 0 .. k /\ k \in 0 .. k
    BY <1>1
  <1>5. ASSUME NEW i \in 1 .. k PROVE t(i - 1) # <<>> /\ Head(t(i - 1)) = s[i] /\ Tail(t(i - 1)) = t(i) /\ t(i - 1) \in Seq(S)
                                      /\ i - 1 \in 0 .. k /\ i \in 0 .. k
    <2>1. (i - 1) + 1 = i /\ i - 1 \in 0 .. k /\ i \in 0 .. k
      BY <1>1
    <2> QED BY <2>1, Suffix
  <1> HIDE DEF t
  <1>6. c \in [0 .. k -> X] /\ c[0] = f[s] /\ c[k] = f[<<>>]
    BY <1>2, <1>3, <1>4
  <1>7. ASSUME NEW i \in 1 .. k PROVE <<c[i - 1], q[i], c[i]>> \in Steps
    <2>1. c[i - 1] = f[t(i - 1)] /\ c[i] = f[Tail(t(i - 1))]
      BY <1>5
    <2> QED BY <1>5, <2>1
  <1> HIDE DEF c
  <1> QED BY <1>6, <1>7 DEF Course

Undotted == {line \in Seq(Text) : line # <<>> => line[1] # "."}

\* A stuffed line is no terminator, and reads as it was.
LEMMA Stuffed ==
    ASSUME NEW line \in Seq(Text)
    PROVE  /\ P!Stuff(line) \in Seq(Text) /\ P!Stuff(line) # P!Terminator
           /\ P!UnDotStuff(P!Stuff(line)) = line
           /\ line \in Undotted => P!Stuff(line) = line
  <1>1. CASE line # <<>> /\ line[1] = "."
    <2> DEFINE s == <<".">> \o line
    <2>1. "." \in Text
      BY ClientsAssumption
    <2>2. s \in Seq(Text) /\ Len(s) = 1 + Len(line) /\ s[1] = "." /\ s # <<>> /\ Tail(s) = line
      BY <1>1, <2>1
    <2>3. Len(line) # 0 /\ Len(line) \in Nat
      BY <1>1
    <2>4. Len(s) # 1
      BY <2>2, <2>3
    <2>5. s # <<".">>
      BY <2>4
    <2>6. P!Stuff(line) = s
      BY <1>1 DEF P!Stuff
    <2> HIDE DEF s
    <2> QED BY <1>1, <2>2, <2>5, <2>6 DEF P!Terminator, P!UnDotStuff, Undotted
  <1>2. CASE ~(line # <<>> /\ line[1] = ".")
    <2>1. P!Stuff(line) = line
      BY <1>2 DEF P!Stuff
    <2>2. line # <<".">>
      BY <1>2
    <2> QED BY <1>2, <2>1, <2>2 DEF P!Terminator, P!UnDotStuff
  <1> QED BY <1>1, <1>2

-----------------------------------------------------------------------------
(* Gopher.                                                                 *)

GopherTypes ==
    /\ server \in [alive : BOOLEAN, refused : {FALSE}, wanted : Seq(Text), asked : Seq(Text) \cup {<<"nothing">>}, wrote : Nat]
    /\ local \in [path : Seq(Text), got : Nat]
    /\ toServer \in Seq([verb : {"SELECT"}, arg : Seq(Text), n : Nat])
    /\ toClient \in Seq([kind : {"block", "end"}, re : Nat])
    /\ inStep = TRUE

\* The selector that is meant is on its way, and then so many blocks of the answer.
GopherStage ==
    /\ pc = "start" => sent = 0 /\ toServer = <<>> /\ toClient = <<>> /\ local.got = 0
    /\ pc = "response" =>
        /\ sent = 1
        /\ \/ toServer = <<[verb |-> "SELECT", arg |-> server.wanted, n |-> 1]>> /\ toClient = <<>> /\ local.got = 0
           \/ /\ toServer = <<>> /\ server.asked = server.wanted
              /\ local.got <= server.wrote
              /\ Len(toClient) \in {server.wrote - local.got, server.wrote - local.got + 1}
              /\ \A i \in 1 .. Len(toClient) :
                    toClient[i] = [kind |-> IF local.got + i <= server.wrote THEN "block" ELSE "end", re |-> 1]

\* The selector is that of a user's wish.
Intended(path, wanted) == \E w \in G!Wishes : path \in G!Path(w) /\ wanted = G!Meant(w)

GopherInv ==
    /\ GopherTypes /\ GopherStage
    /\ pc \in {"start", "response", "done"} /\ (pc # "done" => result = "none")
    /\ Intended(local.path, server.wanted)
    /\ result = "ok" => toServer = <<>> /\ local.got = server.wrote /\ server.asked = server.wanted

\* selector_from_path finds the selector that is meant.
LEMMA SelectorMeant ==
    ASSUME NEW w \in G!Wishes, NEW path \in G!Path(w)
    PROVE  path \in Seq(Text) /\ G!Meant(w) \in Seq(Text) /\ G!Selector(path) = G!Meant(w)
  <1> DEFINE sel == w.selector
             words == w.words
             q == sel \o words
             marks == {i \in DOMAIN q : q[i] = "?"}
             Sel(rest) ==
                LET m == {i \in DOMAIN rest : rest[i] = "?"}
                IN  IF m = {} THEN rest ELSE [rest EXCEPT ![CHOOSE i \in m : \A j \in m : i <= j] = "TAB"]
  <1>1. /\ sel \in Seq(Text) /\ words \in Seq(Text) /\ "TAB" \in Text
        /\ (\A i \in 1 .. Len(sel) : sel[i] # "?") /\ (words # <<>> => words[1] = "?")
    BY ClientsAssumption DEF G!Wishes
  <1> HIDE DEF sel, words
  <1>2. /\ q \in Seq(Text) /\ Len(q) = Len(sel) + Len(words) /\ Len(sel) \in Nat /\ Len(words) \in Nat
        /\ DOMAIN q = 1 .. Len(q)
        /\ \A i \in 1 .. Len(q) : q[i] = IF i <= Len(sel) THEN sel[i] ELSE words[i - Len(sel)]
    <2>1. /\ q \in Seq(Text) /\ Len(q) = Len(sel) + Len(words)
          /\ \A i \in 1 .. Len(sel) + Len(words) : q[i] = IF i <= Len(sel) THEN sel[i] ELSE words[i - Len(sel)]
      BY <1>1, ConcatProperties
    <2>2. Len(sel) \in Nat /\ Len(words) \in Nat
      BY <1>1, LenProperties
    <2> HIDE DEF q
    <2>3. DOMAIN q = 1 .. Len(q)
      BY <2>1, LenProperties
    <2> QED BY <2>1, <2>2, <2>3
  <1>20. Len(q) \in Nat
    <2> HIDE DEF q
    <2> QED BY <1>2
  <1>3. Sel(q) = G!Meant(w) /\ G!Meant(w) \in Seq(Text)
    <2>1. CASE words = <<>>
      <3>1. q = sel
        BY <1>1, <2>1, ConcatEmptySeq
      <3>2. \A i \in DOMAIN sel : sel[i] # "?"
        BY <1>1, LenProperties
      <3> HIDE DEF q, sel, words
      <3>3. Sel(q) = q
        BY <3>1, <3>2
      <3> QED BY <1>1, <2>1, <3>1, <3>3 DEF G!Meant, sel, words
    <2>2. CASE words # <<>>
      <3> DEFINE k == Len(sel) + 1
                 tab == <<"TAB">>
                 front == sel \o tab
      <3>1. /\ Len(words) \in Nat \ {0} /\ Tail(words) \in Seq(Text) /\ Len(Tail(words)) = Len(words) - 1
            /\ \A i \in 1 .. Len(words) - 1 : Tail(words)[i] = words[i + 1]
        BY <1>1, <2>2, Reading
      <3>2. tab \in Seq(Text) /\ Len(tab) = 1 /\ tab[1] = "TAB"
        BY <1>1, One, OneIn
      <3> HIDE DEF tab, sel, words
      <3>3. /\ front \in Seq(Text) /\ Len(front) = k
            /\ \A i \in 1 .. k : front[i] = IF i <= Len(sel) THEN sel[i] ELSE tab[i - Len(sel)]
        BY <1>1, <3>2, ConcatProperties
      <3> HIDE DEF front
      <3>4. /\ front \o Tail(words) \in Seq(Text) /\ Len(front \o Tail(words)) = Len(q)
            /\ \A i \in 1 .. Len(q) :
                  (front \o Tail(words))[i] = IF i <= k THEN front[i] ELSE Tail(words)[i - k]
        <4>1. Len(front) + Len(Tail(words)) = Len(q)
          BY <1>2, <3>1, <3>3
        <4>2. /\ front \o Tail(words) \in Seq(Text) /\ Len(front \o Tail(words)) = Len(front) + Len(Tail(words))
              /\ \A i \in 1 .. Len(front) + Len(Tail(words)) :
                    (front \o Tail(words))[i] = IF i <= Len(front) THEN front[i] ELSE Tail(words)[i - Len(front)]
          BY <3>1, <3>3, ConcatProperties
        <4> QED BY <3>3, <4>1, <4>2
      <3> HIDE DEF q
      <3>5. k \in 1 .. Len(q) /\ q[k] = "?"
        BY <1>1, <1>2, <2>2, <3>1
      <3>6. \A i \in 1 .. Len(q) : i < k => q[i] # "?"
        BY <1>1, <1>2
      <3>7. marks # {} /\ k \in marks /\ \A j \in marks : k <= j
        BY <1>2, <3>5, <3>6
      <3>8. (CHOOSE i \in marks : \A j \in marks : i <= j) = k
        <4>1. \A i \in marks : (\A j \in marks : i <= j) => i = k
          <5>1. \A i \in marks : i \in Nat
            BY <1>2
          <5>2. k \in Nat
            BY <1>2
          <5> QED BY <3>7, <5>1, <5>2
        <4> HIDE DEF marks, k
        <4> QED BY <3>7, <4>1
      <3>9. Sel(q) = [q EXCEPT ![k] = "TAB"]
        BY <3>7, <3>8
      <3>10. /\ [q EXCEPT ![k] = "TAB"] \in Seq(Text) /\ Len([q EXCEPT ![k] = "TAB"]) = Len(q)
             /\ \A j \in 1 .. Len(q) : [q EXCEPT ![k] = "TAB"][j] = IF j = k THEN "TAB" ELSE q[j]
        BY <1>1, <1>2, <3>5, ExceptSeq
      <3>11. ASSUME NEW i \in 1 .. Len(q) PROVE [q EXCEPT ![k] = "TAB"][i] = (front \o Tail(words))[i]
        <4>1. CASE i < k
          BY <1>1, <1>2, <3>3, <3>4, <3>10, <4>1
        <4>2. CASE i = k
          BY <1>2, <3>2, <3>3, <3>4, <3>10, <4>2
        <4>3. CASE i > k
          <5>1. i - k \in 1 .. Len(words) - 1 /\ (i - k) + 1 = i - Len(sel) /\ ~(i <= Len(sel)) /\ ~(i <= k) /\ i # k
            BY <1>2, <3>1, <4>3
          <5>2. q[i] = words[i - Len(sel)]
            BY <1>2, <5>1
          <5>3. Tail(words)[i - k] = words[(i - k) + 1]
            BY <3>1, <5>1
          <5> QED BY <3>4, <3>10, <5>1, <5>2, <5>3
        <4>4. i \in Nat /\ k \in Nat
          BY <1>2
        <4> HIDE DEF k
        <4>5. i < k \/ i = k \/ i > k
          BY <4>4
        <4> QED BY <4>1, <4>2, <4>3, <4>5
      <3>12. [q EXCEPT ![k] = "TAB"] = front \o Tail(words)
        BY <3>4, <3>10, <3>11, SeqEqual
      <3>13. G!Meant(w) = front \o Tail(words)
        BY <2>2 DEF G!Meant, front, tab, sel, words
      <3> QED BY <3>4, <3>9, <3>12, <3>13
    <2> QED BY <2>1, <2>2
  <1>4. CASE path = <<"/", "7">> \o w.selector \o w.words
    <2> DEFINE head == <<"/", "7">>
               bare == Tail(path)
    <2>1. head \in Seq(Text) /\ Len(head) = 2 /\ head[1] = "/"
      BY ClientsAssumption
    <2> HIDE DEF head
    <2>2. path = head \o q
      <3>1. (head \o sel) \o words = head \o q
        BY <1>1, <2>1, ConcatAssociative
      <3> QED BY <1>4, <3>1 DEF head, sel, words
    <2> HIDE DEF q
    <2>3. /\ path \in Seq(Text) /\ Len(path) = 2 + Len(q)
          /\ \A i \in 1 .. 2 + Len(q) : path[i] = IF i <= 2 THEN head[i] ELSE q[i - 2]
      <3>1. q \in Seq(Text)
        BY <1>2
      <3>2. /\ head \o q \in Seq(Text) /\ Len(head \o q) = Len(head) + Len(q)
            /\ \A i \in 1 .. Len(head) + Len(q) : (head \o q)[i] = IF i <= Len(head) THEN head[i] ELSE q[i - Len(head)]
        BY <2>1, <3>1, ConcatProperties
      <3> QED BY <2>1, <2>2, <3>2
    <2>4. path # <<>> /\ Head(path) = "/"
      <3>1. 1 \in 1 .. 2 + Len(q) /\ 2 + Len(q) # 0
        BY <1>20
      <3>2. path[1] = "/" /\ path # <<>>
        BY <2>1, <2>3, <3>1, EmptyLen
      <3> QED BY <2>3, <3>2, Reading
    <2>5. /\ bare \in Seq(Text) /\ Len(bare) = Len(path) - 1
          /\ \A i \in 1 .. Len(path) - 1 : bare[i] = path[i + 1]
      BY <2>3, <2>4, Reading
    <2> HIDE DEF bare
    <2>6. bare # <<>>
      BY <1>20, <2>3, <2>5, EmptyLen
    <2>7. /\ Tail(bare) \in Seq(Text) /\ Len(Tail(bare)) = Len(bare) - 1
          /\ \A i \in 1 .. Len(bare) - 1 : Tail(bare)[i] = bare[i + 1]
      BY <2>5, <2>6, Reading
    <2>8. Tail(bare) = q
      <3>1. Len(Tail(bare)) = Len(q)
        BY <1>20, <2>3, <2>5, <2>7
      <3>2. ASSUME NEW i \in 1 .. Len(q) PROVE Tail(bare)[i] = q[i]
        <4>1. i \in 1 .. Len(bare) - 1 /\ i + 1 \in 1 .. Len(path) - 1
              /\ (i + 1) + 1 \in 1 .. 2 + Len(q) /\ ((i + 1) + 1) - 2 = i /\ ~((i + 1) + 1 <= 2)
          BY <1>20, <2>3, <2>5
        <4> QED BY <2>3, <2>5, <2>7, <4>1
      <3> QED BY <1>2, <2>7, <3>1, <3>2, SeqEqual
    <2>9. G!Selector(path) = Sel(q)
      <3>1. Tail(Tail(path)) = q /\ Tail(path) # <<>>
        BY <2>6, <2>8 DEF bare
      <3> DEFINE stripped == IF path # <<>> /\ Head(path) = "/" THEN Tail(path) ELSE path
                 left == IF stripped = <<>> THEN <<>> ELSE Tail(stripped)
      <3>2. G!Selector(path) = Sel(left)
        BY Zenon DEF G!Selector
      <3>3. stripped = Tail(path)
        BY <2>4
      <3>4. left = q
        BY <3>1, <3>3
      <3> HIDE DEF left, stripped
      <3> QED BY <3>2, <3>4
    <2> QED BY <1>3, <2>3, <2>9
  <1>5. CASE w.selector = <<>> /\ w.words = <<>> /\ path \in {<<>>, <<"/">>}
    <2>1. G!Meant(w) = <<>>
      BY <1>5 DEF G!Meant
    <2>2. path \in Seq(Text)
      <3>1. "/" \in Text
        BY ClientsAssumption
      <3> QED BY <1>5, <3>1, OneIn, Empty
    <2>3. Sel(<<>>) = <<>>
      <3>1. DOMAIN <<>> = {}
        OBVIOUS
      <3> QED BY <3>1
    <2>4. G!Selector(path) = Sel(<<>>)
      <3>1. CASE path = <<>>
        BY <3>1 DEF G!Selector
      <3>2. CASE path = <<"/">>
        <4>1. path # <<>> /\ Head(path) = "/" /\ Tail(path) = <<>>
          BY <3>2, One
        <4> QED BY <4>1 DEF G!Selector
      <3> QED BY <1>5, <3>1, <3>2
    <2> QED BY <1>3, <2>1, <2>2, <2>3, <2>4, Empty
  <1> QED BY <1>4, <1>5 DEF G!Path

LEMMA GopherInit == G!Init => GopherInv
  <1> SUFFICES ASSUME G!Init PROVE GopherInv
    OBVIOUS
  <1>0. PICK w \in G!Wishes : \E path \in G!Path(w) :
            /\ local = [path |-> path, got |-> 0]
            /\ server = [alive |-> TRUE, refused |-> FALSE, wanted |-> G!Meant(w), asked |-> <<"nothing">>, wrote |-> 0]
    BY DEF G!Init
  <1>1. PICK path \in G!Path(w) :
            /\ local = [path |-> path, got |-> 0]
            /\ server = [alive |-> TRUE, refused |-> FALSE, wanted |-> G!Meant(w), asked |-> <<"nothing">>, wrote |-> 0]
    BY <1>0
  <1>2. path \in Seq(Text) /\ G!Meant(w) \in Seq(Text) /\ G!Selector(path) = G!Meant(w)
    BY SelectorMeant
  <1>4. pc = "start" /\ result = "none" /\ sent = 0 /\ inStep = TRUE /\ toServer = <<>> /\ toClient = <<>>
    BY DEF G!Init
  <1> QED BY <1>1, <1>2, <1>4, Empty DEF Intended, GopherInv, GopherTypes, GopherStage

LEMMA GopherClient == GopherInv /\ G!Client => GopherInv'
  <1> SUFFICES ASSUME GopherInv, G!Client PROVE GopherInv'
    OBVIOUS
  <1> USE DEF GopherInv, GopherTypes, GopherStage
  <1>1. CASE G!Fetch
    <2> DEFINE command == [verb |-> "SELECT", arg |-> server.wanted, n |-> 1]
    <2>0. G!Selector(local.path) = server.wanted
      BY SelectorMeant DEF Intended
    <2>1. /\ local.got = 0 /\ toClient = <<>>
          /\ pc' = "response" /\ sent' = 1 /\ toServer' = <<command>> /\ result' = "none"
          /\ UNCHANGED <<local, toClient, server, inStep>>
      BY <1>1, <2>0, One DEF G!Fetch, G!Ask
    <2>2. command \in [verb : {"SELECT"}, arg : Seq(Text), n : Nat]
      OBVIOUS
    <2>3. toServer' \in Seq([verb : {"SELECT"}, arg : Seq(Text), n : Nat])
      BY <2>1, <2>2, OneIn
    <2>4. GopherTypes'
      BY <2>1, <2>3
    <2> HIDE DEF command
    <2>5. GopherStage'
      BY <2>1 DEF command
    <2> QED BY <2>1, <2>4, <2>5 DEF Intended, G!Wishes, G!Path, G!Meant
  <1>2. CASE G!Receive
    <2> DEFINE r == Head(toClient)
    <2> HIDE DEF GopherInv, GopherTypes, GopherStage
    <2>0. pc = "response" /\ toClient # <<>>
      BY <1>2 DEF G!Receive
    <2>1. /\ toClient \in Seq([kind : {"block", "end"}, re : Nat])
          /\ toServer \in Seq([verb : {"SELECT"}, arg : Seq(Text), n : Nat])
          /\ local \in [path : Seq(Text), got : Nat] /\ inStep = TRUE /\ server.wrote \in Nat
      BY DEF GopherInv, GopherTypes
    <2>2. /\ r = toClient[1] /\ Tail(toClient) \in Seq([kind : {"block", "end"}, re : Nat])
          /\ Len(toClient) \in Nat \ {0} /\ Len(Tail(toClient)) = Len(toClient) - 1
          /\ \A i \in 1 .. Len(toClient) - 1 : Tail(toClient)[i] = toClient[i + 1]
      BY <2>0, <2>1, Reading
    <2>3. /\ toServer = <<>> /\ server.asked = server.wanted /\ local.got <= server.wrote /\ sent = 1
          /\ Len(toClient) \in {server.wrote - local.got, server.wrote - local.got + 1}
          /\ \A i \in 1 .. Len(toClient) :
                toClient[i] = [kind |-> IF local.got + i <= server.wrote THEN "block" ELSE "end", re |-> 1]
      BY <2>0 DEF GopherInv, GopherStage
    <2>4. r = [kind |-> IF local.got + 1 <= server.wrote THEN "block" ELSE "end", re |-> 1]
      BY <2>2, <2>3
    <2>5. inStep' = TRUE /\ toClient' = Tail(toClient)
      <3>1. G!Take(r)
        BY <1>2 DEF G!Receive
      <3>2. inStep = TRUE /\ sent = 1 /\ r.re = 1
        BY <2>1, <2>3, <2>4
      <3> QED BY <3>1, <3>2 DEF G!Take
    <2>6. UNCHANGED <<server, toServer, sent>>
      BY <1>2 DEF G!Receive, G!Return, G!Goto
    <2>7. CASE r.kind = "end"
      <3>1. pc' = "done" /\ result' = "ok" /\ UNCHANGED local
        BY <1>2, <2>7 DEF G!Receive, G!Return
      <3>2. local.got = server.wrote
        BY <2>1, <2>3, <2>4, <2>7
      <3>3. GopherTypes'
        BY <2>2, <2>5, <2>6, <3>1 DEF GopherInv, GopherTypes
      <3> QED BY <2>3, <2>6, <3>1, <3>2, <3>3 DEF GopherInv, GopherStage, Intended, G!Wishes, G!Path, G!Meant
    <2>8. CASE r.kind # "end"
      <3>1. local' = [local EXCEPT !.got = @ + 1]
        BY <1>2, <2>8 DEF G!Receive
      <3>2. (pc' = "done" /\ result' = "error") \/ UNCHANGED <<pc, result>>
        BY <1>2, <2>8 DEF G!Receive, G!Return, G!Goto
      <3>3. local' \in [path : Seq(Text), got : Nat] /\ local'.path = local.path /\ local'.got = local.got + 1
        <4>1. local \in [path : Seq(Text), got : Nat]
          BY <2>1
        <4> QED BY <4>1, <3>1
      <3>4. local'.got <= server.wrote
        BY <2>1, <2>3, <2>4, <2>8, <3>3
      <3>5. GopherTypes'
        BY <2>2, <2>5, <2>6, <3>3 DEF GopherInv, GopherTypes
      <3>6. /\ Len(toClient') \in {server.wrote - local'.got, server.wrote - local'.got + 1}
            /\ \A i \in 1 .. Len(toClient') :
                  toClient'[i] = [kind |-> IF local'.got + i <= server.wrote THEN "block" ELSE "end", re |-> 1]
        <4> DEFINE n == local.got
                   m == server.wrote
        <4>1. n \in Nat /\ m \in Nat /\ local'.got = n + 1
          BY <2>1, <3>3
        <4> HIDE DEF n, m
        <4>2. Len(toClient') \in {m - (n + 1), m - (n + 1) + 1}
          BY <2>2, <2>3, <2>5, <4>1 DEF n, m
        <4>3. ASSUME NEW i \in 1 .. Len(toClient')
              PROVE  toClient'[i] = [kind |-> IF (n + 1) + i <= m THEN "block" ELSE "end", re |-> 1]
          <5>1. i + 1 \in 1 .. Len(toClient) /\ toClient'[i] = toClient[i + 1] /\ i \in Nat
            BY <2>2, <2>5
          <5>2. toClient[i + 1] = [kind |-> IF n + (i + 1) <= m THEN "block" ELSE "end", re |-> 1]
            BY <2>3, <5>1 DEF n, m
          <5> QED BY <4>1, <5>1, <5>2
        <4> QED BY <4>1, <4>2, <4>3 DEF m
      <3>7. GopherStage'
        BY <2>0, <2>3, <2>6, <3>2, <3>4, <3>6 DEF GopherStage
      <3> QED BY <2>0, <2>6, <3>2, <3>3, <3>5, <3>7 DEF GopherInv, Intended, G!Wishes, G!Path, G!Meant
    <2> QED BY <2>7, <2>8
  <1>3. CASE G!Broken
    BY <1>3 DEF G!Broken, G!Return
  <1>4. CASE pc = "response" /\ G!Timeout
    BY <1>4 DEF G!Timeout, G!Return
  <1> QED BY <1>1, <1>2, <1>3, <1>4 DEF G!Client

LEMMA GopherServer == GopherInv /\ G!Server => GopherInv'
  <1> SUFFICES ASSUME GopherInv, G!Server PROVE GopherInv'
    OBVIOUS
  <1> DEFINE Blocks(n, closes) == [i \in 1 .. n |-> G!Part("block")] \o (IF closes THEN <<G!Part("end")>> ELSE <<>>)
  <1>1. PICK n \in 0 .. MaxResponse + 1 : \E closes \in BOOLEAN :
            G!Answer([server EXCEPT !.asked = Head(toServer).arg, !.wrote = n], Blocks(n, closes))
    BY DEF G!Server, G!Serve
  <1>2. PICK closes \in BOOLEAN :
            G!Answer([server EXCEPT !.asked = Head(toServer).arg, !.wrote = n], Blocks(n, closes))
    BY <1>1
  <1>3. n \in Nat /\ toServer # <<>>
    BY ClientsAssumption DEF G!Server, G!Serve
  <1>4. /\ server' = [server EXCEPT !.asked = Head(toServer).arg, !.wrote = n]
        /\ toServer' = Tail(toServer) /\ toClient' = toClient \o Blocks(n, closes)
        /\ UNCHANGED <<pc, result, local, sent, inStep>>
    BY <1>2 DEF G!Answer
  <1> DEFINE Cmd == [verb : {"SELECT"}, arg : Seq(Text), n : Nat]
             Rep == [kind : {"block", "end"}, re : Nat]
             c == Head(toServer)
  <1>5. toServer \in Seq(Cmd) /\ toClient \in Seq(Rep)
    BY DEF GopherInv, GopherTypes
  <1>6. c \in Cmd /\ toServer' \in Seq(Cmd)
    BY <1>3, <1>4, <1>5, Reading
  <1>7. /\ Blocks(n, closes) \in Seq(Rep) /\ Len(Blocks(n, closes)) \in {n, n + 1}
        /\ \A i \in 1 .. Len(Blocks(n, closes)) : Blocks(n, closes)[i] = G!Part(IF i <= n THEN "block" ELSE "end")
    <2>1. \A kind \in {"block", "end"} : G!Part(kind) = [kind |-> kind, re |-> c.n] /\ G!Part(kind) \in Rep
      BY <1>6 DEF G!Part
    <2> DEFINE blocks == [i \in 1 .. n |-> G!Part("block")]
    <2>2. blocks \in Seq(Rep) /\ Len(blocks) = n /\ \A i \in 1 .. n : blocks[i] = G!Part("block")
      BY <1>3, <2>1
    <2>3. CASE closes
      <3>1. <<G!Part("end")>> \in Seq(Rep) /\ Len(<<G!Part("end")>>) = 1 /\ <<G!Part("end")>>[1] = G!Part("end")
        BY <2>1, One, OneIn
      <3>2. Blocks(n, closes) = blocks \o <<G!Part("end")>>
        BY <2>3
      <3> HIDE DEF blocks, Blocks, Rep
      <3> QED BY <1>3, <2>2, <3>1, <3>2, ConcatProperties
    <2>4. CASE ~closes
      <3>1. Blocks(n, closes) = blocks
        <4>1. Blocks(n, closes) = blocks \o <<>>
          BY <2>4
        <4> QED BY <2>2, <4>1, ConcatEmptySeq
      <3> HIDE DEF blocks, Blocks, Rep
      <3> QED BY <1>3, <2>2, <3>1
    <2> QED BY <2>3, <2>4
  <1> HIDE DEF Blocks
  <1>8. GopherTypes'
    <2>1. toClient' \in Seq(Rep)
      BY <1>4, <1>5, <1>7, ConcatProperties
    <2>2. server \in [alive : BOOLEAN, refused : {FALSE}, wanted : Seq(Text),
                      asked : Seq(Text) \cup {<<"nothing">>}, wrote : Nat]
      BY DEF GopherInv, GopherTypes
    <2>3. c.arg \in Seq(Text)
      BY <1>6
    <2>4. server' \in [alive : BOOLEAN, refused : {FALSE}, wanted : Seq(Text),
                       asked : Seq(Text) \cup {<<"nothing">>}, wrote : Nat]
      BY <1>3, <1>4, <2>2, <2>3
    <2> QED BY <1>4, <1>6, <2>1, <2>4 DEF GopherInv, GopherTypes
  <1>9. server'.wrote = n /\ server'.wanted = server.wanted /\ server'.asked = c.arg
    BY <1>4 DEF GopherInv, GopherTypes
  <1>10. GopherStage'
    <2>1. pc = "start" => FALSE
      BY <1>3 DEF GopherInv, GopherStage
    <2>2. CASE pc = "response"
      <3>1. /\ toServer = <<[verb |-> "SELECT", arg |-> server.wanted, n |-> 1]>>
            /\ toClient = <<>> /\ local.got = 0 /\ sent = 1
        BY <1>3, <2>2 DEF GopherInv, GopherStage
      <3>2. c = [verb |-> "SELECT", arg |-> server.wanted, n |-> 1] /\ toServer' = <<>>
        BY <1>4, <3>1, One
      <3>3. toClient' = Blocks(n, closes)
        BY <1>4, <1>7, <3>1, ConcatEmptySeq
      <3>4. \A i \in 1 .. Len(toClient') : toClient'[i] = [kind |-> IF 0 + i <= n THEN "block" ELSE "end", re |-> 1]
        BY <1>3, <1>7, <3>2, <3>3 DEF G!Part
      <3>5. c.arg = server.wanted
        BY <3>2
      <3> QED BY <1>3, <1>4, <1>7, <1>9, <2>2, <3>1, <3>2, <3>3, <3>4, <3>5 DEF GopherStage
    <2> QED BY <1>4, <2>1, <2>2 DEF GopherStage
  <1> QED BY <1>3, <1>4, <1>8, <1>9, <1>10 DEF GopherInv, Intended, G!Wishes, G!Path, G!Meant

LEMMA GopherFault == GopherInv /\ G!Die => GopherInv'
  BY DEF GopherInv, GopherTypes, GopherStage, G!Die, G!Crash

LEMMA GopherSafe == GopherInv => inStep /\ ~server.refused /\ G!Whole
  BY DEF GopherInv, GopherTypes, G!Whole

-----------------------------------------------------------------------------
(* POP3.                                                                   *)

Pop3Servers ==
    [alive : BOOLEAN, refused : {FALSE}, phase : {"new", "user", "in"}, payload : Seq(Seq(Text))]
Pop3Locals == [action : {"LIST", "RETR"}, got : Seq(Seq(Text))]
Pop3Commands == [verb : {"USER", "PASS", "LIST", "RETR", "QUIT"}, arg : {""}, n : Nat]

Pop3Types ==
    /\ server \in Pop3Servers /\ local \in Pop3Locals /\ sent \in Nat /\ inStep = TRUE
    /\ toServer \in Seq(Pop3Commands)
    /\ local.action = "LIST" => server.payload \in Seq(Undotted)

\* The reply to a command on its way.
Pop3Replied(ok, n, commands, q) == commands = <<>> /\ q = <<[ok |-> ok, re |-> n]>>

\* The lines on their way after the first k: the rest of the payload and the terminator.
Pop3Line(payload, i) == IF i <= Len(payload) THEN P!Stuff(payload[i]) ELSE P!Terminator
Pop3Lines(payload, k, q, n) ==
    /\ q \in Seq([line : Seq(Text), re : {n}])
    /\ Len(q) = Len(payload) + 1 - k
    /\ \A i \in 1 .. Len(q) : q[i].line = Pop3Line(payload, k + i)

Pop3Stage ==
    /\ pc \in {"greeting", "USER", "PASS", "command"} => local.got = <<>>
    /\ pc = "greeting" =>
        /\ sent = 0 /\ toServer = <<>> /\ server.phase = "new"
        /\ toClient = <<>> \/ \E ok \in BOOLEAN : toClient = <<[ok |-> ok, re |-> 0]>>
    /\ pc = "USER" =>
        \/ Asked("USER", sent, toServer, toClient) /\ server.phase = "new"
        \/ \E ok \in BOOLEAN : Pop3Replied(ok, sent, toServer, toClient) /\ (ok => server.phase = "user")
    /\ pc = "PASS" =>
        \/ Asked("PASS", sent, toServer, toClient) /\ server.phase = "user"
        \/ \E ok \in BOOLEAN : Pop3Replied(ok, sent, toServer, toClient) /\ (ok => server.phase = "in")
    /\ pc = "command" =>
        \/ Asked(local.action, sent, toServer, toClient) /\ server.phase = "in"
        \/ Pop3Replied(FALSE, sent, toServer, toClient)
        \/ /\ toServer = <<>> /\ toClient # <<>> /\ Head(toClient) = [ok |-> TRUE, re |-> sent]
           /\ Pop3Lines(server.payload, 0, Tail(toClient), sent)
    /\ pc = "body" =>
        /\ toServer = <<>> /\ Len(local.got) <= Len(server.payload)
        /\ Pop3Lines(server.payload, Len(local.got), toClient, sent)
        /\ \A i \in 1 .. Len(local.got) : local.got[i] = server.payload[i]
    /\ pc = "farewell" =>
        /\ local.got = server.payload
        /\ Asked("QUIT", sent, toServer, toClient) \/ Pop3Replied(TRUE, sent, toServer, toClient)
    /\ pc = "done" => toServer = <<>> \/ ~server.alive

Pop3Inv ==
    /\ Pop3Types /\ Pop3Stage
    /\ pc \in {"greeting", "USER", "PASS", "command", "body", "farewell", "done"}
    /\ IF pc = "done" THEN P!Whole ELSE result = "none"

LEMMA Pop3Init == P!Init => Pop3Inv
  <1> SUFFICES ASSUME P!Init PROVE Pop3Inv
    OBVIOUS
  <1>1. pc = "greeting" /\ result = "none" /\ sent = 0 /\ inStep = TRUE /\ toServer = <<>> /\ toClient = <<>>
    BY DEF P!Init
  <1>2. PICK action \in {"LIST", "RETR"} : \E payload \in IF action = "LIST" THEN Listings ELSE Messages :
            /\ local = [action |-> action, got |-> <<>>]
            /\ server = [alive |-> TRUE, refused |-> FALSE, phase |-> "new", payload |-> payload]
    BY DEF P!Init
  <1>3. PICK payload \in IF action = "LIST" THEN Listings ELSE Messages :
            /\ local = [action |-> action, got |-> <<>>]
            /\ server = [alive |-> TRUE, refused |-> FALSE, phase |-> "new", payload |-> payload]
    BY <1>2
  <1>4. payload \in Seq(Seq(Text))
    BY ClientsAssumption
  <1>5. action = "LIST" => payload \in Seq(Undotted)
    <2> SUFFICES ASSUME action = "LIST" PROVE payload \in Seq(Undotted)
      OBVIOUS
    <2>1. \A i \in 1 .. Len(payload) : payload[i] # <<>> => payload[i][1] # "."
      BY ClientsAssumption
    <2>2. \A i \in 1 .. Len(payload) : payload[i] \in Undotted
      BY <1>4, <2>1 DEF Undotted
    <2> QED BY <1>4, <2>2, AllIn
  <1>6. local \in Pop3Locals /\ local.got = <<>> /\ local.action = action
    BY <1>3, Empty DEF Pop3Locals
  <1>7. server \in Pop3Servers /\ server.phase = "new" /\ server.payload = payload
    BY <1>3, <1>4 DEF Pop3Servers
  <1>8. Pop3Types
    BY <1>1, <1>5, <1>6, <1>7, Empty DEF Pop3Types
  <1>9. Pop3Stage
    BY <1>1, <1>6, <1>7 DEF Pop3Stage
  <1> QED BY <1>1, <1>8, <1>9 DEF Pop3Inv

LEMMA Pop3Client == Pop3Inv /\ P!Client => Pop3Inv'
  <1> SUFFICES ASSUME Pop3Inv, P!Client PROVE Pop3Inv'
    OBVIOUS
  <1>1. /\ server \in Pop3Servers /\ local \in Pop3Locals /\ sent \in Nat /\ inStep = TRUE
        /\ toServer \in Seq(Pop3Commands) /\ (local.action = "LIST" => server.payload \in Seq(Undotted))
    BY DEF Pop3Inv, Pop3Types
  <1>2. Pop3Stage
    BY DEF Pop3Inv
  <1>3. ASSUME NEW outcome, P!Return(outcome), outcome = "ok" => local.got = server.payload,
               toServer = <<>> \/ ~server.alive, UNCHANGED <<server, local>>, inStep' = TRUE
        PROVE  Pop3Inv'
    <2>1. pc' = "done" /\ result' = outcome /\ UNCHANGED <<sent, toServer>>
      BY <1>3 DEF P!Return
    <2>2. Pop3Types'
      BY <1>1, <1>3, <2>1 DEF Pop3Types
    <2>3. P!Whole'
      BY <1>3, <2>1 DEF P!Whole
    <2> QED BY <1>3, <2>1, <2>2, <2>3 DEF Pop3Inv, Pop3Stage
  <1>4. ASSUME NEW verb \in {"USER", "PASS", "LIST", "RETR", "QUIT"}, NEW p, P!Ask(verb, "", p),
               toServer = <<>>, toClient' = <<>>, UNCHANGED <<server, local>>, inStep' = TRUE
        PROVE  Pop3Types' /\ pc' = p /\ result' = result /\ Asked(verb, sent', toServer', toClient')
    <2>0. sent + 1 \in Nat
      BY <1>1
    <2> DEFINE k == sent + 1
               command == [verb |-> verb, arg |-> "", n |-> k]
    <2>1. command \in Pop3Commands
      BY <2>0 DEF Pop3Commands
    <2>2. pc' = p /\ sent' = k /\ toServer' = Append(<<>>, command) /\ UNCHANGED result
      BY <1>4 DEF P!Ask
    <2> HIDE DEF k
    <2> HIDE DEF command
    <2>3. toServer' = <<command>>
      BY <2>2, One
    <2>4. toServer' \in Seq(Pop3Commands)
      BY <2>1, <2>3, OneIn
    <2>5. Pop3Types'
      BY <1>1, <1>4, <2>0, <2>2, <2>4 DEF Pop3Types, k
    <2>6. Asked(verb, sent', toServer', toClient')
      BY <1>4, <2>2, <2>3 DEF Asked, command
    <2> QED BY <2>2, <2>5, <2>6
  <1>5. CASE P!Broken
    <2>1. /\ pc # "done" /\ ~server.alive /\ P!Return(IF pc = "farewell" THEN "ok" ELSE "error")
          /\ UNCHANGED <<local, server, inStep>>
      BY <1>5 DEF P!Broken
    <2>2. pc = "farewell" => local.got = server.payload
      BY <1>2 DEF Pop3Stage
    <2> QED BY <1>1, <1>3, <2>1, <2>2
  <1>6. CASE P!Receive
    <2> DEFINE r == Head(toClient)
    <2>1. toClient # <<>> /\ pc # "done" /\ P!Take(r) /\ (P!Status(r) \/ P!Line(r)) /\ UNCHANGED server
      BY <1>6 DEF P!Receive
    <2>2. toClient' = Tail(toClient) /\ inStep' = (inStep /\ r.re = sent) /\ result = "none"
      BY <2>1 DEF P!Take, Pop3Inv
    <2> HIDE DEF r
    <2>3. ASSUME NEW ok \in BOOLEAN, toClient = <<[ok |-> ok, re |-> sent]>>
          PROVE  r.ok = ok /\ toClient' = <<>> /\ inStep' = TRUE
      <3> DEFINE x == [ok |-> ok, re |-> sent]
      <3>1. toClient = <<x>>
        BY <2>3
      <3> HIDE DEF x
      <3>2. r = x /\ toClient' = <<>>
        BY <2>2, <3>1, One DEF r
      <3>3. r.ok = ok /\ r.re = sent
        BY <3>2 DEF x
      <3> QED BY <1>1, <2>2, <3>2, <3>3
    <2>4. CASE pc = "greeting"
      <3>1. PICK ok \in BOOLEAN : toClient = <<[ok |-> ok, re |-> sent]>>
        BY <1>2, <2>1, <2>4 DEF Pop3Stage
      <3>2. r.ok = ok /\ toClient' = <<>> /\ inStep' = TRUE /\ toServer = <<>> /\ server.phase = "new" /\ local.got = <<>>
        BY <1>2, <2>3, <2>4, <3>1 DEF Pop3Stage
      <3>3. UNCHANGED local /\ (P!Ask("USER", "", "USER") \/ P!Return("error"))
        BY <2>1, <2>4 DEF P!Status, P!Line, P!Proceed
      <3>4. CASE P!Ask("USER", "", "USER")
        <4>1. Pop3Types' /\ pc' = "USER" /\ result' = result /\ Asked("USER", sent', toServer', toClient')
          BY <1>4, <2>1, <3>2, <3>3, <3>4
        <4>2. Pop3Stage'
          BY <2>1, <3>2, <3>3, <4>1 DEF Pop3Stage
        <4> QED BY <2>2, <4>1, <4>2 DEF Pop3Inv
      <3> QED BY <1>3, <2>1, <3>2, <3>3, <3>4
    <2>5. CASE pc = "USER"
      <3>1. PICK ok \in BOOLEAN : Pop3Replied(ok, sent, toServer, toClient) /\ (ok => server.phase = "user")
        BY <1>2, <2>1, <2>5 DEF Pop3Stage, Asked
      <3>2. r.ok = ok /\ toClient' = <<>> /\ inStep' = TRUE /\ toServer = <<>> /\ local.got = <<>>
        BY <1>2, <2>3, <2>5, <3>1 DEF Pop3Stage, Pop3Replied
      <3>3. UNCHANGED local /\ ((r.ok /\ P!Ask("PASS", "", "PASS")) \/ P!Return("error"))
        BY <2>1, <2>5 DEF P!Status, P!Line, P!Proceed
      <3>4. CASE r.ok /\ P!Ask("PASS", "", "PASS")
        <4>1. Pop3Types' /\ pc' = "PASS" /\ result' = result /\ Asked("PASS", sent', toServer', toClient')
          BY <1>4, <2>1, <3>2, <3>3, <3>4
        <4>2. Pop3Stage'
          BY <2>1, <3>1, <3>2, <3>3, <3>4, <4>1 DEF Pop3Stage
        <4> QED BY <2>2, <4>1, <4>2 DEF Pop3Inv
      <3> QED BY <1>3, <2>1, <3>2, <3>3, <3>4
    <2>6. CASE pc = "PASS"
      <3>1. PICK ok \in BOOLEAN : Pop3Replied(ok, sent, toServer, toClient) /\ (ok => server.phase = "in")
        BY <1>2, <2>1, <2>6 DEF Pop3Stage, Asked
      <3>2. r.ok = ok /\ toClient' = <<>> /\ inStep' = TRUE /\ toServer = <<>> /\ local.got = <<>>
        BY <1>2, <2>3, <2>6, <3>1 DEF Pop3Stage, Pop3Replied
      <3>3. UNCHANGED local /\ ((r.ok /\ P!Ask(local.action, "", "command")) \/ P!Return("error"))
        BY <2>1, <2>6 DEF P!Status, P!Line, P!Proceed
      <3>4. CASE r.ok /\ P!Ask(local.action, "", "command")
        <4>0. local.action \in {"USER", "PASS", "LIST", "RETR", "QUIT"}
          BY <1>1 DEF Pop3Locals
        <4>1. Pop3Types' /\ pc' = "command" /\ result' = result /\ Asked(local.action, sent', toServer', toClient')
          BY <1>4, <2>1, <3>2, <3>3, <3>4, <4>0
        <4>2. Pop3Stage'
          BY <2>1, <3>1, <3>2, <3>3, <3>4, <4>1 DEF Pop3Stage
        <4> QED BY <2>2, <4>1, <4>2 DEF Pop3Inv
      <3> QED BY <1>3, <2>1, <3>2, <3>3, <3>4
    <2>7. CASE pc = "command"
      <3>1. UNCHANGED local /\ ((r.ok /\ P!Goto("body")) \/ P!Return("error")) /\ (~r.ok => P!Return("error"))
        BY <2>1, <2>7 DEF P!Status, P!Line, P!Proceed
      <3>2. local.got = <<>>
        BY <1>2, <2>7 DEF Pop3Stage
      <3>3. CASE Pop3Replied(FALSE, sent, toServer, toClient)
        <4>1. r.ok = FALSE /\ toServer = <<>> /\ inStep' = TRUE
          BY <2>3, <3>3 DEF Pop3Replied
        <4> QED BY <1>3, <2>1, <3>1, <4>1
      <3>4. CASE /\ toServer = <<>> /\ toClient # <<>> /\ Head(toClient) = [ok |-> TRUE, re |-> sent]
                 /\ Pop3Lines(server.payload, 0, Tail(toClient), sent)
        <4>1. r.ok = TRUE /\ r.re = sent /\ inStep' = TRUE
          <5> DEFINE x == [ok |-> TRUE, re |-> sent]
          <5>1. r = x
            BY <3>4 DEF r
          <5>2. r.ok = TRUE /\ r.re = sent
            BY <5>1
          <5> QED BY <1>1, <2>2, <5>2
        <4>2. CASE P!Goto("body")
          <5>1. pc' = "body" /\ UNCHANGED <<sent, toServer, result>>
            BY <4>2 DEF P!Goto
          <5>2. Pop3Types'
            BY <1>1, <2>1, <3>1, <4>1, <5>1 DEF Pop3Types
          <5>3. /\ Len(local.got) = 0 /\ Len(local.got) <= Len(server.payload)
                /\ \A i \in 1 .. Len(local.got) : local.got[i] = server.payload[i]
            <6>1. Len(server.payload) \in Nat
              BY <1>1, LenProperties DEF Pop3Servers
            <6> QED BY <3>2, <6>1
          <5>4. Pop3Stage'
            BY <2>1, <2>2, <3>1, <3>4, <5>1, <5>3 DEF Pop3Stage
          <5> QED BY <2>2, <5>1, <5>2, <5>4 DEF Pop3Inv
        <4> QED BY <1>3, <2>1, <3>1, <3>4, <4>1, <4>2
      <3>5. ~Asked(local.action, sent, toServer, toClient)
        BY <2>1 DEF Asked
      <3> QED BY <1>2, <2>7, <3>3, <3>4, <3>5 DEF Pop3Stage
    <2>8. CASE pc = "body"
      <3> DEFINE payload == server.payload
                 got == local.got
                 k == Len(got)
                 n == Len(payload)
      <3>1. /\ toServer = <<>> /\ k <= n /\ Pop3Lines(payload, k, toClient, sent)
            /\ \A i \in 1 .. k : got[i] = payload[i]
        BY <1>2, <2>8 DEF Pop3Stage
      <3>2. payload \in Seq(Seq(Text)) /\ got \in Seq(Seq(Text)) /\ local.action \in {"LIST", "RETR"}
        BY <1>1 DEF Pop3Servers, Pop3Locals
      <3>3. k \in Nat /\ n \in Nat
        BY <3>2, LenProperties
      <3> DEFINE S == [line : Seq(Text), re : {sent}]
      <3>4. /\ toClient \in Seq(S) /\ Len(toClient) = n + 1 - k
            /\ \A i \in 1 .. Len(toClient) : toClient[i].line = Pop3Line(payload, k + i)
        BY <3>1 DEF Pop3Lines
      <3> DEFINE m == Len(toClient)
      <3>5. /\ r = toClient[1] /\ r \in S /\ m \in Nat \ {0}
            /\ Tail(toClient) \in Seq(S) /\ Len(Tail(toClient)) = m - 1
            /\ \A i \in 1 .. m - 1 : Tail(toClient)[i] = toClient[i + 1]
        <4> HIDE DEF S
        <4> QED BY <2>1, <3>4, Reading DEF r
      <3>6. r.re = sent /\ inStep' = TRUE
        BY <1>1, <2>2, <3>5
      <3>7. r.line = Pop3Line(payload, k + 1)
        BY <3>4, <3>5
      <3>8. P!Line(r)
        BY <2>1, <2>8 DEF P!Status
      <3> HIDE DEF payload, got, k, n, S, m
      <3>9. CASE k + 1 <= n
        <4>1. k + 1 \in 1 .. n
          BY <3>3, <3>9
        <4> DEFINE line == payload[k + 1]
        <4>2. line \in Seq(Text)
          BY <3>2, <4>1, ElementOfSeq DEF n
        <4>3. r.line = P!Stuff(line) /\ r.line # P!Terminator
          BY <3>7, <3>9, <4>2, Stuffed DEF Pop3Line, n
        <4>4. local' = [local EXCEPT !.got = Append(@, IF local.action = "RETR" THEN P!UnDotStuff(r.line) ELSE r.line)]
              /\ UNCHANGED <<pc, result, sent, toServer>>
          BY <3>8, <4>3 DEF P!Line
        <4>5. local.action = "LIST" => line \in Undotted
          <5> SUFFICES ASSUME local.action = "LIST" PROVE line \in Undotted
            OBVIOUS
          <5>1. payload \in Seq(Undotted)
            BY <1>1 DEF payload
          <5> QED BY <4>1, <5>1, ElementOfSeq DEF n
        <4>6. (IF local.action = "RETR" THEN P!UnDotStuff(r.line) ELSE r.line) = line
          BY <3>2, <4>2, <4>3, <4>5, Stuffed
        <4> HIDE DEF line
        <4> DEFINE more == Append(got, line)
        <4>7. local' = [local EXCEPT !.got = more]
          BY <4>4, <4>6 DEF got
        <4>8. more \in Seq(Seq(Text)) /\ Len(more) = k + 1 /\ \A i \in 1 .. k + 1 : more[i] = payload[i]
          BY <3>1, <3>2, <3>9, OneMore DEF k, line, n
        <4> HIDE DEF more
        <4>9. local' \in Pop3Locals /\ local'.got = more /\ local'.action = local.action
          BY <1>1, <4>7, <4>8 DEF Pop3Locals
        <4>10. Pop3Lines(payload, k + 1, Tail(toClient), sent)
          <5>1. m - 1 = n + 1 - (k + 1) /\ m = n + 1 - k
            BY <3>3, <3>4 DEF m
          <5>2. ASSUME NEW i \in 1 .. m - 1 PROVE i + 1 \in 1 .. m /\ k + (i + 1) = (k + 1) + i
            BY <3>3, <3>5
          <5>3. ASSUME NEW i \in 1 .. m - 1 PROVE Tail(toClient)[i].line = Pop3Line(payload, (k + 1) + i)
            <6>1. Tail(toClient)[i] = toClient[i + 1]
              BY <3>5
            <6>2. toClient[i + 1].line = Pop3Line(payload, k + (i + 1))
              BY <3>4, <5>2 DEF m
            <6> QED BY <5>2, <6>1, <6>2
          <5> QED BY <3>5, <5>1, <5>3 DEF Pop3Lines, S, n
        <4>11. Pop3Types'
          BY <1>1, <2>1, <3>6, <4>4, <4>9 DEF Pop3Types
        <4>12. Pop3Lines(server.payload, Len(local.got), toClient, sent)'
          BY <2>1, <2>2, <4>4, <4>8, <4>9, <4>10 DEF payload
        <4>13. Pop3Stage'
          BY <2>1, <2>8, <3>1, <3>9, <4>4, <4>8, <4>9, <4>12 DEF Pop3Stage, payload, n
        <4> QED BY <2>2, <2>8, <4>4, <4>11, <4>13 DEF Pop3Inv
      <3>10. CASE ~(k + 1 <= n)
        <4>1. k = n /\ m = 1 /\ m - 1 = 0
          BY <3>1, <3>3, <3>4, <3>10 DEF m
        <4>2. r.line = P!Terminator
          BY <3>7, <3>10 DEF Pop3Line, n
        <4>3. toClient' = <<>>
          BY <2>2, <3>5, <4>1, NoneLeft
        <4>4. UNCHANGED local /\ P!Ask("QUIT", "", "farewell")
          BY <3>8, <4>2 DEF P!Line
        <4>5. got = payload
          BY <3>1, <3>2, <4>1, SeqEqual DEF k, n
        <4>6. Pop3Types' /\ pc' = "farewell" /\ result' = result /\ Asked("QUIT", sent', toServer', toClient')
          BY <1>4, <2>1, <3>1, <3>6, <4>3, <4>4
        <4>7. Pop3Stage'
          BY <2>1, <4>4, <4>5, <4>6 DEF Pop3Stage, got, payload
        <4> QED BY <2>2, <4>6, <4>7 DEF Pop3Inv
      <3> QED BY <3>9, <3>10
    <2>9. CASE pc = "farewell"
      <3>1. Pop3Replied(TRUE, sent, toServer, toClient) /\ local.got = server.payload
        BY <1>2, <2>1, <2>9 DEF Pop3Stage, Asked
      <3>2. inStep' = TRUE /\ toServer = <<>>
        BY <2>3, <3>1 DEF Pop3Replied
      <3>3. UNCHANGED local /\ P!Return("ok")
        BY <2>1, <2>9 DEF P!Status, P!Line, P!Proceed
      <3> QED BY <1>3, <2>1, <3>1, <3>2, <3>3
    <2> QED BY <2>1, <2>4, <2>5, <2>6, <2>7, <2>8, <2>9 DEF Pop3Inv
  <1> QED BY <1>5, <1>6 DEF P!Client

\* The payload as it is sent.
LEMMA Pop3Body ==
    ASSUME NEW s \in Pop3Servers, NEW n \in Nat
    PROVE  Pop3Lines(s.payload, 0, P!TextBlock(s, n), n)
  <1> DEFINE payload == s.payload
             k == Len(payload)
             lines == [i \in DOMAIN payload |-> [line |-> P!Stuff(payload[i]), re |-> n]]
             end == [line |-> P!Terminator, re |-> n]
             S == [line : Seq(Text), re : {n}]
             all == Append(lines, end)
  <1>1. payload \in Seq(Seq(Text)) /\ k \in Nat /\ DOMAIN payload = 1 .. k
    BY LenProperties DEF Pop3Servers
  <1>2. ASSUME NEW i \in 1 .. k PROVE [line |-> P!Stuff(payload[i]), re |-> n] \in S
    <2>1. payload[i] \in Seq(Text)
      BY <1>1, <1>2, ElementOfSeq
    <2> QED BY <2>1, Stuffed
  <1>3. P!Terminator \in Seq(Text)
    <2>1. "." \in Text
      BY ClientsAssumption
    <2> QED BY <2>1 DEF P!Terminator
  <1>4. end \in S
    BY <1>3
  <1>5. lines = [i \in 1 .. k |-> [line |-> P!Stuff(payload[i]), re |-> n]]
    BY <1>1
  <1>6. \A i \in 1 .. k : lines[i] = [line |-> P!Stuff(payload[i]), re |-> n]
    BY <1>5
  <1> HIDE DEF payload, end, S
  <1>7. lines \in Seq(S) /\ Len(lines) = k
    BY <1>1, <1>2, <1>5
  <1>8. \A i \in 1 .. k : lines[i].line = P!Stuff(payload[i])
    BY <1>6
  <1>9. all \in Seq(S) /\ Len(all) = k + 1 /\ (\A i \in 1 .. k : all[i] = lines[i]) /\ all[k + 1] = end
    <2> HIDE DEF lines
    <2> QED BY <1>1, <1>4, <1>7
  <1>10. ASSUME NEW i \in 1 .. k + 1 PROVE all[i].line = Pop3Line(payload, 0 + i)
    <2>1. 0 + i = i /\ (i <= k => i \in 1 .. k) /\ (~(i <= k) => i = k + 1)
      BY <1>1
    <2>2. end.line = P!Terminator
      BY DEF end
    <2> QED BY <1>8, <1>9, <2>1, <2>2 DEF Pop3Line
  <1>11. P!TextBlock(s, n) = all
    BY DEF P!TextBlock, payload, end
  <1>12. k + 1 = k + 1 - 0
    BY <1>1
  <1> HIDE DEF all
  <1> QED BY <1>9, <1>10, <1>11, <1>12 DEF Pop3Lines, S, payload

LEMMA Pop3Server == Pop3Inv /\ P!Server => Pop3Inv'
  <1> SUFFICES ASSUME Pop3Inv, P!Server PROVE Pop3Inv'
    OBVIOUS
  <1>1. /\ server \in Pop3Servers /\ local \in Pop3Locals /\ sent \in Nat /\ inStep = TRUE
        /\ toServer \in Seq(Pop3Commands) /\ (local.action = "LIST" => server.payload \in Seq(Undotted))
    BY DEF Pop3Inv, Pop3Types
  <1>2. Pop3Stage
    BY DEF Pop3Inv
  <1>3. CASE P!Greet
    <2>1. /\ sent = 0 /\ toClient = <<>> /\ pc = "greeting" /\ UNCHANGED <<pc, result, local, sent, toServer, inStep, server>>
          /\ \E ok \in BOOLEAN : toClient' = <<>> \o <<[ok |-> ok, re |-> 0]>>
      BY <1>3 DEF P!Greet, P!Send, P!Ok, P!Err
    <2>2. PICK ok \in BOOLEAN : toClient' = <<>> \o <<[ok |-> ok, re |-> 0]>>
      BY <2>1
    <2>3. toClient' = <<[ok |-> ok, re |-> 0]>>
      <3> DEFINE x == [ok |-> ok, re |-> 0]
      <3>1. toClient' = <<>> \o <<x>>
        BY <2>2
      <3> HIDE DEF x
      <3>2. toClient' = <<x>>
        BY <3>1, One
      <3> QED BY <3>2 DEF x
    <2>4. Pop3Types'
      BY <1>1, <2>1 DEF Pop3Types
    <2>5. Pop3Stage'
      BY <1>2, <2>1, <2>3 DEF Pop3Stage
    <2> QED BY <2>1, <2>4, <2>5 DEF Pop3Inv
  <1>4. CASE P!Serve
    <2> DEFINE c == Head(toServer)
    <2>1. toServer # <<>> /\ server.alive
      BY <1>4 DEF P!Serve
    <2>2. PICK a \in P!Answers(server, c.verb, c.n) : P!Answer(a.s, a.lines)
      BY <1>4 DEF P!Serve
    <2>3. /\ server' = a.s /\ toServer' = Tail(toServer) /\ toClient' = toClient \o a.lines
          /\ UNCHANGED <<pc, result, local, sent, inStep>>
      BY <2>2 DEF P!Answer
    <2> HIDE DEF c
    <2>4. ASSUME NEW verb, Asked(verb, sent, toServer, toClient)
          PROVE  c.verb = verb /\ c.n = sent /\ toServer' = <<>> /\ toClient' = <<>> \o a.lines /\ toClient = <<>>
      <3> DEFINE command == [verb |-> verb, arg |-> "", n |-> sent]
      <3>1. toServer = <<command>> /\ toClient = <<>>
        BY <2>4 DEF Asked
      <3> HIDE DEF command
      <3>2. c = command /\ toServer' = <<>>
        BY <2>3, <3>1, One DEF c
      <3> QED BY <2>3, <3>1, <3>2 DEF command
    <2>5. ASSUME NEW ok \in BOOLEAN, a.lines = <<[ok |-> ok, re |-> c.n]>>, c.n = sent, toClient' = <<>> \o a.lines, toServer' = <<>>
          PROVE  Pop3Replied(ok, sent, toServer', toClient')
      <3> DEFINE x == [ok |-> ok, re |-> sent]
      <3>1. toClient' = <<>> \o <<x>>
        BY <2>5
      <3> HIDE DEF x
      <3>2. toClient' = <<x>>
        BY <3>1, One
      <3> QED BY <2>5, <3>2 DEF Pop3Replied, x
    <2>6. ASSUME a.s \in Pop3Servers, a.s.payload = server.payload, toServer' = <<>> PROVE Pop3Types'
      BY <1>1, <2>3, <2>6, Empty DEF Pop3Types
    <2>7. ASSUME NEW phase \in {"new", "user", "in"}
          PROVE  /\ [server EXCEPT !.phase = phase] \in Pop3Servers /\ [server EXCEPT !.phase = phase].phase = phase
                 /\ [server EXCEPT !.phase = phase].payload = server.payload
      BY <1>1 DEF Pop3Servers
    <2>8. CASE pc = "USER"
      <3>1. Asked("USER", sent, toServer, toClient) /\ server.phase = "new" /\ local.got = <<>>
        BY <1>2, <2>1, <2>8 DEF Pop3Stage, Pop3Replied
      <3>2. a = P!To([server EXCEPT !.phase = "user"], <<P!Ok(c.n)>>) \/ a = P!To(server, <<P!Err(c.n)>>)
        BY <2>2, <2>4, <3>1 DEF P!Answers
      <3> DEFINE s == [server EXCEPT !.phase = "user"]
      <3>3. s \in Pop3Servers /\ s.phase = "user" /\ s.payload = server.payload
        BY <2>7
      <3> HIDE DEF s
      <3>4. \E ok \in BOOLEAN : a.lines = <<[ok |-> ok, re |-> c.n]>> /\ IF ok THEN a.s = s ELSE a.s = server
        <4>1. CASE a = P!To(s, <<P!Ok(c.n)>>)
          <5>1. a.s = s /\ a.lines = <<[ok |-> TRUE, re |-> c.n]>>
            BY <4>1 DEF P!To, P!Ok
          <5> WITNESS TRUE \in BOOLEAN
          <5> QED BY <5>1
        <4>2. CASE a = P!To(server, <<P!Err(c.n)>>)
          <5>1. a.s = server /\ a.lines = <<[ok |-> FALSE, re |-> c.n]>>
            BY <4>2 DEF P!To, P!Err
          <5> WITNESS FALSE \in BOOLEAN
          <5> QED BY <5>1
        <4> QED BY <3>2, <4>1, <4>2 DEF s
      <3>5. PICK ok \in BOOLEAN : a.lines = <<[ok |-> ok, re |-> c.n]>> /\ IF ok THEN a.s = s ELSE a.s = server
        BY <3>4
      <3>6. Pop3Replied(ok, sent, toServer', toClient')
        BY <2>4, <2>5, <3>1, <3>5
      <3>7. Pop3Types'
        BY <1>1, <2>4, <2>6, <3>1, <3>3, <3>5
      <3>8. ok => server'.phase = "user"
        BY <2>3, <3>3, <3>5
      <3>9. Pop3Stage'
        BY <2>3, <2>8, <3>1, <3>6, <3>8 DEF Pop3Stage
      <3> QED BY <2>3, <2>8, <3>7, <3>9 DEF Pop3Inv
    <2>9. CASE pc = "PASS"
      <3>1. Asked("PASS", sent, toServer, toClient) /\ server.phase = "user" /\ local.got = <<>>
        BY <1>2, <2>1, <2>9 DEF Pop3Stage, Pop3Replied
      <3> DEFINE s == [server EXCEPT !.phase = "in"]
                 t == [server EXCEPT !.phase = "new"]
      <3>2. a = P!To(s, <<P!Ok(c.n)>>) \/ a = P!To(t, <<P!Err(c.n)>>)
        BY <2>2, <2>4, <3>1 DEF P!Answers
      <3>3. /\ s \in Pop3Servers /\ s.phase = "in" /\ s.payload = server.payload
            /\ t \in Pop3Servers /\ t.payload = server.payload
        BY <2>7
      <3> HIDE DEF s, t
      <3>4. \E ok \in BOOLEAN : a.lines = <<[ok |-> ok, re |-> c.n]>> /\ IF ok THEN a.s = s ELSE a.s = t
        <4>1. CASE a = P!To(s, <<P!Ok(c.n)>>)
          <5>1. a.s = s /\ a.lines = <<[ok |-> TRUE, re |-> c.n]>>
            BY <4>1 DEF P!To, P!Ok
          <5> WITNESS TRUE \in BOOLEAN
          <5> QED BY <5>1
        <4>2. CASE a = P!To(t, <<P!Err(c.n)>>)
          <5>1. a.s = t /\ a.lines = <<[ok |-> FALSE, re |-> c.n]>>
            BY <4>2 DEF P!To, P!Err
          <5> WITNESS FALSE \in BOOLEAN
          <5> QED BY <5>1
        <4> QED BY <3>2, <4>1, <4>2
      <3>5. PICK ok \in BOOLEAN : a.lines = <<[ok |-> ok, re |-> c.n]>> /\ IF ok THEN a.s = s ELSE a.s = t
        BY <3>4
      <3>6. Pop3Replied(ok, sent, toServer', toClient')
        BY <2>4, <2>5, <3>1, <3>5
      <3>7. Pop3Types'
        BY <2>4, <2>6, <3>1, <3>3, <3>5
      <3>8. ok => server'.phase = "in"
        BY <2>3, <3>3, <3>5
      <3>9. Pop3Stage'
        BY <2>3, <2>9, <3>1, <3>6, <3>8 DEF Pop3Stage
      <3> QED BY <2>3, <2>9, <3>7, <3>9 DEF Pop3Inv
    <2>10. CASE pc = "command"
      <3>1. Asked(local.action, sent, toServer, toClient) /\ server.phase = "in" /\ local.got = <<>>
        BY <1>2, <2>1, <2>10 DEF Pop3Stage, Pop3Replied
      <3>2. c.verb \in {"LIST", "RETR"} /\ c.n = sent /\ toServer' = <<>> /\ toClient' = <<>> \o a.lines
        BY <1>1, <2>4, <3>1 DEF Pop3Locals
      <3>3. a = P!To(server, <<P!Ok(c.n)>> \o P!TextBlock(server, c.n)) \/ a = P!To(server, <<P!Err(c.n)>>)
        BY <2>2, <3>1, <3>2 DEF P!Answers
      <3>4. a.s = server /\ server' = server
        BY <2>3, <3>3 DEF P!To
      <3>5. Pop3Types'
        BY <1>1, <2>6, <3>2, <3>4
      <3>6. CASE a = P!To(server, <<P!Err(c.n)>>)
        <4>1. a.lines = <<[ok |-> FALSE, re |-> c.n]>>
          BY <3>6 DEF P!To, P!Err
        <4>2. Pop3Replied(FALSE, sent, toServer', toClient')
          BY <2>5, <3>2, <4>1
        <4>3. Pop3Stage'
          BY <2>3, <2>10, <3>1, <4>2 DEF Pop3Stage
        <4> QED BY <2>3, <2>10, <3>5, <4>3 DEF Pop3Inv
      <3>7. CASE a = P!To(server, <<P!Ok(c.n)>> \o P!TextBlock(server, c.n))
        <4> DEFINE body == P!TextBlock(server, c.n)
                   x == [ok |-> TRUE, re |-> c.n]
                   all == <<x>> \o body
                   S == [ok : {TRUE}, re : {c.n}] \cup [line : Seq(Text), re : {c.n}]
        <4>1. Pop3Lines(server.payload, 0, body, sent)
          BY <1>1, <3>2, Pop3Body
        <4>2. a.lines = all
          BY <3>7 DEF P!To, P!Ok
        <4>3. x \in S
          OBVIOUS
        <4>4. body \in Seq([line : Seq(Text), re : {c.n}])
          BY <3>2, <4>1 DEF Pop3Lines
        <4>5. body \in Seq(S)
          BY <4>4, SeqMonotonic
        <4>6. x = [ok |-> TRUE, re |-> sent]
          BY <3>2
        <4> HIDE DEF body, x, S
        <4>7. all # <<>> /\ Head(all) = x /\ Tail(all) = <<>> \o body /\ all \in Seq(S)
          BY <4>3, <4>5, One, OneIn, JoinedTail, ConcatProperties
        <4>8. <<>> \o body = body /\ <<>> \o all = all
          BY <4>5, <4>7, AllRead
        <4> HIDE DEF all
        <4>9. toClient' = all /\ Tail(all) = body
          BY <3>2, <4>2, <4>7, <4>8
        <4>10. Pop3Stage'
          BY <2>3, <2>10, <3>1, <3>2, <3>4, <4>1, <4>6, <4>7, <4>9 DEF Pop3Stage
        <4> QED BY <2>3, <2>10, <3>5, <4>10 DEF Pop3Inv
      <3> QED BY <3>3, <3>6, <3>7
    <2>11. CASE pc = "farewell"
      <3>1. Asked("QUIT", sent, toServer, toClient) /\ local.got = server.payload
        BY <1>2, <2>1, <2>11 DEF Pop3Stage, Pop3Replied
      <3> DEFINE s == [server EXCEPT !.alive = FALSE]
      <3>2. a = P!To(s, <<P!Ok(c.n)>>)
        BY <2>2, <2>4, <3>1 DEF P!Answers
      <3>3. s \in Pop3Servers /\ s.payload = server.payload
        BY <1>1 DEF Pop3Servers
      <3> HIDE DEF s
      <3>4. a.s = s /\ a.lines = <<[ok |-> TRUE, re |-> c.n]>>
        BY <3>2 DEF P!To, P!Ok
      <3>5. Pop3Replied(TRUE, sent, toServer', toClient')
        BY <2>4, <2>5, <3>1, <3>4
      <3>6. Pop3Types'
        BY <2>4, <2>6, <3>1, <3>3, <3>4
      <3>7. Pop3Stage'
        BY <2>3, <2>11, <3>1, <3>3, <3>4, <3>5 DEF Pop3Stage
      <3> QED BY <2>3, <2>11, <3>6, <3>7 DEF Pop3Inv
    <2>12. pc \notin {"greeting", "body", "done"}
      BY <1>2, <2>1 DEF Pop3Stage
    <2> QED BY <2>8, <2>9, <2>10, <2>11, <2>12 DEF Pop3Inv
  <1> QED BY <1>3, <1>4 DEF P!Server

LEMMA Pop3Fault == Pop3Inv /\ P!Die => Pop3Inv'
  <1> SUFFICES ASSUME Pop3Inv, P!Die PROVE Pop3Inv'
    OBVIOUS
  <1>1. server' = [server EXCEPT !.alive = FALSE] /\ UNCHANGED <<pc, result, local, sent, toServer, toClient, inStep>>
    BY DEF P!Die, P!Crash
  <1>2. Pop3Types /\ Pop3Stage
    BY DEF Pop3Inv
  <1>3. /\ server' \in Pop3Servers /\ server'.phase = server.phase /\ server'.payload = server.payload /\ server'.alive = FALSE
    BY <1>1, <1>2 DEF Pop3Types, Pop3Servers
  <1>4. Pop3Types'
    BY <1>1, <1>2, <1>3 DEF Pop3Types
  <1>5. Pop3Stage'
    BY <1>1, <1>2, <1>3 DEF Pop3Stage
  <1>6. pc = "done" => P!Whole'
    BY <1>1, <1>3 DEF P!Whole, Pop3Inv
  <1> QED BY <1>1, <1>4, <1>5, <1>6 DEF Pop3Inv

LEMMA Pop3Safe == Pop3Inv => inStep /\ ~server.refused /\ P!Whole
  BY DEF Pop3Inv, Pop3Types, Pop3Servers, P!Whole

-----------------------------------------------------------------------------
(* DICT.                                                                   *)

DictLines == Seq(Seq(Text))
DictBlocks == Seq(DictLines)
DictReplies == [code : Nat, re : Nat] \cup [line : Seq(Text), re : Nat]
DictCommands == [verb : {"CLIENT", "DEFINE", "MATCH", "SHOW", "QUIT"}, arg : {""}, n : Nat]

DictServers ==
    [alive : BOOLEAN, refused : {FALSE}, greeted : BOOLEAN, payload : DictBlocks,
     left : DictBlocks, code : Nat, re : Nat]
DictLocals ==
    [verb : {"DEFINE", "MATCH", "SHOW"}, got : DictBlocks, in : BOOLEAN, outcome : {"ok", "error"}]

DictTypes ==
    /\ server \in DictServers /\ local \in DictLocals
    /\ toServer \in Seq(DictCommands)
    /\ inStep = TRUE

\* A place in the response to a query: between two blocks, in a block or at the end, with
\* the lines of the block and the blocks behind it.
DictPlaces == [at : {"code", "line", "over"}, lines : DictLines, blocks : DictBlocks]
DictPlace(at, lines, blocks) == [at |-> at, lines |-> lines, blocks |-> blocks]

\* Reply r leads from place a to place b.
DictStep(verb, a, r, b) ==
    /\ r.re = 2
    /\ \/ a.at = "code" /\ r.code = 150 /\ verb = "DEFINE" /\ b = a
       \/ /\ a.at = "code" /\ a.blocks # <<>> /\ r.code = D!Starts(verb)
          /\ b = DictPlace("line", Head(a.blocks), Tail(a.blocks))
       \/ /\ a.at = "line" /\ a.lines # <<>> /\ r.line = D!Escaped(Head(a.lines))
          /\ b = DictPlace("line", Tail(a.lines), a.blocks)
       \/ a.at = "line" /\ a.lines = <<>> /\ r.line = <<".">> /\ b = DictPlace("code", <<>>, a.blocks)
       \/ a.at = "code" /\ b.at = "over" /\ (r.code = D!Fails(verb) \/ (r.code = 250 /\ a.blocks = <<>>))
DictSteps(verb) == {s \in DictPlaces \X DictReplies \X DictPlaces : DictStep(verb, s[1], s[2], s[3])}

\* The client has what is before place a.
DictReads(payload, got, in, a) ==
    IF in
    THEN /\ a.at = "line"
         /\ \E done \in DictBlocks, last \in DictLines :
                got = Append(done, last) /\ payload = Append(done, last \o a.lines) \o a.blocks
    ELSE a.at = "code" /\ payload = got \o a.blocks

\* The replies on their way lead from what the client has to what the server has sent.
DictCourse(verb, got, in, q, s) ==
    /\ q \in Seq(DictReplies)
    /\ \E a, z \in DictPlaces :
        /\ DictReads(s.payload, got, in, a) /\ Course(DictPlaces, DictSteps(verb), q, a, z)
        /\ IF s.re = 0 THEN z.at = "over"
           ELSE z = DictPlace("code", <<>>, s.left) /\ s.re = 2 /\ s.code = D!Starts(verb)

DictIdle == server.re = 0 /\ server.left = server.payload /\ local.got = <<>> /\ local.in = FALSE
DictCode(n, commands, q) == commands = <<>> /\ \E code \in Nat : q = <<[code |-> code, re |-> n]>>

DictStage ==
    /\ pc \in {"banner", "hello"} => DictIdle
    /\ pc = "banner" =>
        /\ sent = 0 /\ toServer = <<>>
        /\ IF server.greeted THEN DictCode(0, toServer, toClient) ELSE toClient = <<>>
    /\ pc \in {"hello", "response", "farewell"} => server.greeted
    /\ pc = "hello" => sent = 1 /\ (Asked("CLIENT", 1, toServer, toClient) \/ DictCode(1, toServer, toClient))
    /\ pc = "response" =>
        /\ sent = 2
        /\ \/ Asked(local.verb, 2, toServer, toClient) /\ DictIdle
           \/ toServer = <<>> /\ DictCourse(local.verb, local.got, local.in, toClient, server)
    /\ pc = "farewell" =>
        /\ sent = 3 /\ server.re = 0 /\ (local.outcome = "ok" => local.got = server.payload)
        /\ Asked("QUIT", 3, toServer, toClient) \/ DictCode(3, toServer, toClient)

DictInv ==
    /\ DictTypes /\ DictStage
    /\ pc \in {"banner", "hello", "response", "farewell", "done"}
    /\ IF pc = "done" THEN D!Whole ELSE result = "none"

LEMMA DictInit == D!Init => DictInv
  <1> SUFFICES ASSUME D!Init PROVE DictInv
    OBVIOUS
  <1>1. pc = "banner" /\ result = "none" /\ sent = 0 /\ inStep = TRUE /\ toServer = <<>> /\ toClient = <<>>
    BY DEF D!Init
  <1>2. PICK verb \in {"DEFINE", "MATCH", "SHOW"} : \E payload \in D!Payloads(verb) :
            /\ local = [verb |-> verb, got |-> <<>>, in |-> FALSE, outcome |-> "ok"]
            /\ server = [alive |-> TRUE, refused |-> FALSE, greeted |-> FALSE, payload |-> payload,
                         left |-> payload, code |-> 0, re |-> 0]
    BY DEF D!Init
  <1>3. PICK payload \in D!Payloads(verb) :
            /\ local = [verb |-> verb, got |-> <<>>, in |-> FALSE, outcome |-> "ok"]
            /\ server = [alive |-> TRUE, refused |-> FALSE, greeted |-> FALSE, payload |-> payload,
                         left |-> payload, code |-> 0, re |-> 0]
    BY <1>2
  <1>4. payload \in DictBlocks
    <2>1. \A b \in Texts : b \in DictLines
      BY ClientsAssumption DEF DictLines
    <2>2. \A b \in Texts : <<b>> \in DictBlocks
      BY <2>1, OneIn DEF DictBlocks
    <2>3. \A blocks \in Definitions : blocks \in DictBlocks
      BY ClientsAssumption DEF DictBlocks, DictLines
    <2> QED BY <2>2, <2>3 DEF D!Payloads
  <1>5. local \in DictLocals /\ local.got = <<>> /\ local.in = FALSE
    BY <1>3, Empty DEF DictLocals, DictBlocks
  <1>6. server \in DictServers /\ server.re = 0 /\ server.left = server.payload /\ ~server.greeted
    BY <1>3, <1>4 DEF DictServers
  <1>7. DictTypes /\ DictStage
    BY <1>1, <1>5, <1>6, Empty DEF DictTypes, DictStage, DictIdle
  <1> QED BY <1>1, <1>7 DEF DictInv

LEMMA DictMove ==
    ASSUME NEW verb, NEW a, NEW r, NEW b, <<a, r, b>> \in DictSteps(verb)
    PROVE  a \in DictPlaces /\ r \in DictReplies /\ b \in DictPlaces /\ DictStep(verb, a, r, b)
  BY DEF DictSteps

LEMMA DictMoves ==
    ASSUME NEW verb, NEW a \in DictPlaces, NEW r \in DictReplies, NEW b \in DictPlaces, DictStep(verb, a, r, b)
    PROVE  <<a, r, b>> \in DictSteps(verb)
  BY DEF DictSteps

LEMMA DictPlaced ==
    ASSUME NEW at \in {"code", "line", "over"}, NEW lines \in DictLines, NEW blocks \in DictBlocks
    PROVE  /\ DictPlace(at, lines, blocks) \in DictPlaces /\ DictPlace(at, lines, blocks).at = at
           /\ DictPlace(at, lines, blocks).lines = lines /\ DictPlace(at, lines, blocks).blocks = blocks
  BY DEF DictPlace, DictPlaces

\* An escaped line does not end its block, and reads as it was.
LEMMA DictEscaped ==
    ASSUME NEW line \in Seq(Text)
    PROVE  D!Escaped(line) \in Seq(Text) /\ ~D!EndOfBlock(D!Escaped(line)) /\ D!Unescaped(D!Escaped(line)) = line
  <1>1. D!Escaped(line) = P!Stuff(line)
    BY DEF D!Escaped, P!Stuff
  <1>2. D!Unescaped(D!Escaped(line)) = P!UnDotStuff(D!Escaped(line))
    BY DEF D!Unescaped, P!UnDotStuff
  <1> QED BY <1>1, <1>2, Stuffed DEF D!EndOfBlock, P!Terminator

\* The last element of a sequence grows.
LEMMA LastGrows ==
    ASSUME NEW S, NEW done \in Seq(S), NEW last \in S, NEW more \in S
    PROVE  LET got == Append(done, last)
           IN  got[Len(got)] = last /\ [got EXCEPT ![Len(got)] = more] = Append(done, more)
  <1> DEFINE got == Append(done, last)
             new == [got EXCEPT ![Len(got)] = more]
             k == Len(done)
  <1>1. k \in Nat
    BY LenProperties
  <1>2. /\ got \in Seq(S) /\ Len(got) = k + 1 /\ got[k + 1] = last
        /\ \A i \in 1 .. k : got[i] = done[i]
    OBVIOUS
  <1>3. /\ Append(done, more) \in Seq(S) /\ Len(Append(done, more)) = k + 1 /\ Append(done, more)[k + 1] = more
        /\ \A i \in 1 .. k : Append(done, more)[i] = done[i]
    OBVIOUS
  <1> HIDE DEF got
  <1>4. new = [got EXCEPT ![k + 1] = more]
    BY <1>2
  <1>5. DOMAIN got = 1 .. k + 1 /\ got = [i \in 1 .. k + 1 |-> got[i]]
    BY <1>2
  <1>6. new = [i \in 1 .. k + 1 |-> IF i = k + 1 THEN more ELSE got[i]]
    BY <1>4, <1>5
  <1>7. \A i \in 1 .. k + 1 : i = k + 1 \/ i \in 1 .. k
    BY <1>1
  <1>8. \A i \in 1 .. k + 1 : new[i] = Append(done, more)[i]
    <2>1. \A i \in 1 .. k : new[i] = got[i]
      BY <1>1, <1>6
    <2>2. new[k + 1] = more
      BY <1>1, <1>6
    <2> HIDE DEF new
    <2> QED BY <1>2, <1>3, <1>7, <2>1, <2>2
  <1>9. new \in Seq(S) /\ Len(new) = k + 1
    <2>1. \A i \in 1 .. k + 1 : got[i] \in S
      BY <1>2, ElementOfSeq
    <2>2. \A i \in 1 .. k + 1 : (IF i = k + 1 THEN more ELSE got[i]) \in S
      BY <2>1
    <2> HIDE DEF new
    <2> QED BY <1>1, <1>6, <2>2
  <1> HIDE DEF new
  <1>10. new = Append(done, more)
    BY <1>3, <1>8, <1>9, SeqEqual
  <1> QED BY <1>2, <1>10 DEF got, new

LEMMA DictClient == DictInv /\ D!Client => DictInv'
  <1> SUFFICES ASSUME DictInv, D!Client PROVE DictInv'
    OBVIOUS
  <1>1. server \in DictServers /\ local \in DictLocals /\ toServer \in Seq(DictCommands) /\ inStep = TRUE
    BY DEF DictInv, DictTypes
  <1>2. DictStage
    BY DEF DictInv
  <1>3. ASSUME NEW outcome, D!Return(outcome), outcome = "ok" => local.got = server.payload,
               UNCHANGED <<server, local>>, inStep' = TRUE
        PROVE  DictInv'
    <2>1. pc' = "done" /\ result' = outcome /\ UNCHANGED <<sent, toServer>>
      BY <1>3 DEF D!Return
    <2>2. DictTypes'
      BY <1>1, <1>3, <2>1 DEF DictTypes
    <2>3. D!Whole'
      BY <1>3, <2>1 DEF D!Whole
    <2> QED BY <2>1, <2>2, <2>3 DEF DictInv, DictStage
  <1>4. ASSUME NEW verb \in {"CLIENT", "DEFINE", "MATCH", "SHOW", "QUIT"}, NEW p, NEW n, sent + 1 = n, n \in Nat, D!Ask(verb, "", p),
               toServer = <<>>, toClient' = <<>>, UNCHANGED server, local' \in DictLocals, inStep' = TRUE
        PROVE  DictTypes' /\ pc' = p /\ sent' = n /\ result' = result /\ Asked(verb, n, toServer', toClient')
    <2> DEFINE command == [verb |-> verb, arg |-> "", n |-> n]
    <2>1. command \in DictCommands
      BY <1>4 DEF DictCommands
    <2>2. pc' = p /\ sent' = n /\ toServer' = Append(<<>>, command) /\ UNCHANGED result
      BY <1>4 DEF D!Ask
    <2> HIDE DEF command
    <2>3. toServer' = <<command>>
      BY <2>2, One
    <2>4. toServer' \in Seq(DictCommands)
      BY <2>1, <2>3, OneIn
    <2>5. DictTypes'
      BY <1>1, <1>4, <2>4 DEF DictTypes
    <2>6. Asked(verb, n, toServer', toClient')
      BY <1>4, <2>3 DEF Asked, command
    <2> QED BY <2>2, <2>5, <2>6
  <1>5. CASE D!Breaks
    <2>1. pc # "done" /\ D!Return(IF pc = "farewell" THEN local.outcome ELSE "error") /\ UNCHANGED <<local, server, inStep>>
      BY <1>5 DEF D!Breaks
    <2>2. pc = "farewell" /\ local.outcome = "ok" => local.got = server.payload
      BY <1>2 DEF DictStage
    <2> QED BY <1>1, <1>3, <2>1, <2>2
  <1>6. CASE D!Receive
    <2> DEFINE r == Head(toClient)
    <2>1. /\ toClient # <<>> /\ pc # "done" /\ D!Take(r) /\ UNCHANGED server
          /\ \/ /\ pc = "banner" /\ UNCHANGED local
                /\ IF r.code = 220 THEN D!Ask("CLIENT", "", "hello") ELSE D!Return("error")
             \/ pc = "hello" /\ D!Ask(local.verb, "", "response") /\ UNCHANGED local
             \/ D!Status(r)
             \/ D!TextLine(r)
             \/ pc = "farewell" /\ D!Return(local.outcome) /\ UNCHANGED local
      BY <1>6 DEF D!Receive
    <2>2. toClient' = Tail(toClient) /\ inStep' = (inStep /\ r.re = sent) /\ result = "none"
      BY <2>1 DEF D!Take, DictInv
    <2>3. ASSUME NEW n, DictCode(n, toServer, toClient), sent = n
          PROVE  toServer = <<>> /\ toClient' = <<>> /\ inStep' = TRUE
      <3>1. PICK code \in Nat : toServer = <<>> /\ toClient = <<[code |-> code, re |-> n]>>
        BY <2>3 DEF DictCode
      <3> DEFINE x == [code |-> code, re |-> n]
      <3>2. toClient = <<x>> /\ x.re = n
        BY <3>1
      <3> HIDE DEF x
      <3>3. r = x /\ toClient' = <<>>
        BY <2>2, <3>2, One
      <3> QED BY <1>1, <2>2, <2>3, <3>1, <3>2, <3>3
    <2> HIDE DEF r
    <2>4. CASE pc = "banner"
      <3>1. sent = 0 /\ DictCode(0, toServer, toClient) /\ DictIdle /\ server.greeted
        BY <1>2, <2>1, <2>4 DEF DictStage
      <3>2. toServer = <<>> /\ toClient' = <<>> /\ inStep' = TRUE
        BY <2>3, <3>1
      <3>3. UNCHANGED local /\ (D!Ask("CLIENT", "", "hello") \/ D!Return("error"))
        BY <2>1, <2>4 DEF D!Status, D!TextLine
      <3>4. CASE D!Ask("CLIENT", "", "hello")
        <4>1. sent + 1 = 1 /\ 1 \in Nat
          BY <3>1
        <4>2. DictTypes' /\ pc' = "hello" /\ sent' = 1 /\ result' = result /\ Asked("CLIENT", 1, toServer', toClient')
          BY <1>1, <1>4, <2>1, <3>2, <3>3, <3>4, <4>1
        <4>3. DictStage'
          BY <2>1, <3>1, <3>3, <4>2 DEF DictStage, DictIdle
        <4> QED BY <2>2, <4>2, <4>3 DEF DictInv
      <3> QED BY <1>3, <2>1, <3>2, <3>3, <3>4
    <2>5. CASE pc = "hello"
      <3>1. sent = 1 /\ DictCode(1, toServer, toClient) /\ DictIdle /\ server.greeted
        BY <1>2, <2>1, <2>5 DEF DictStage, Asked
      <3>2. toServer = <<>> /\ toClient' = <<>> /\ inStep' = TRUE
        BY <2>3, <3>1
      <3>3. UNCHANGED local /\ D!Ask(local.verb, "", "response")
        BY <2>1, <2>5 DEF D!Status, D!TextLine
      <3>4. sent + 1 = 2 /\ 2 \in Nat
        BY <3>1
      <3>5. local.verb \in {"CLIENT", "DEFINE", "MATCH", "SHOW", "QUIT"}
        BY <1>1 DEF DictLocals
      <3>6. DictTypes' /\ pc' = "response" /\ sent' = 2 /\ result' = result /\ Asked(local.verb, 2, toServer', toClient')
        BY <1>1, <1>4, <2>1, <3>2, <3>3, <3>4, <3>5
      <3>7. DictStage'
        BY <2>1, <3>1, <3>3, <3>6 DEF DictStage, DictIdle
      <3> QED BY <2>2, <3>6, <3>7 DEF DictInv
    <2>6. CASE pc = "farewell"
      <3>1. sent = 3 /\ DictCode(3, toServer, toClient) /\ (local.outcome = "ok" => local.got = server.payload)
        BY <1>2, <2>1, <2>6 DEF DictStage, Asked
      <3>2. inStep' = TRUE
        BY <2>3, <3>1
      <3>3. UNCHANGED local /\ D!Return(local.outcome)
        BY <2>1, <2>6 DEF D!Status, D!TextLine
      <3> QED BY <1>3, <2>1, <3>1, <3>2, <3>3
    <2>7. CASE pc = "response"
      <3> DEFINE verb == local.verb
                 payload == server.payload
                 got == local.got
      <3>1. sent = 2 /\ toServer = <<>> /\ DictCourse(verb, got, local.in, toClient, server) /\ server.greeted
        BY <1>2, <2>1, <2>7 DEF DictStage, Asked
      <3>2. PICK a \in DictPlaces, z \in DictPlaces :
              /\ DictReads(payload, got, local.in, a) /\ Course(DictPlaces, DictSteps(verb), toClient, a, z)
              /\ IF server.re = 0 THEN z.at = "over"
                 ELSE z = DictPlace("code", <<>>, server.left) /\ server.re = 2 /\ server.code = D!Starts(verb)
        BY <3>1 DEF DictCourse
      <3>3. toClient \in Seq(DictReplies)
        BY <3>1 DEF DictCourse
      <3>4. PICK m \in DictPlaces : <<a, r, m>> \in DictSteps(verb) /\ Course(DictPlaces, DictSteps(verb), Tail(toClient), m, z)
        BY <2>1, <3>2, <3>3, CourseRead DEF r
      <3>5. DictStep(verb, a, r, m) /\ r.re = 2
        BY <3>4, DictMove DEF DictStep
      <3>6. inStep' = TRUE
        BY <1>1, <2>2, <3>1, <3>5
      <3>7. Tail(toClient) \in Seq(DictReplies)
        BY <2>1, <3>3, Reading
      <3>8. a.lines \in DictLines /\ a.blocks \in DictBlocks
        BY DEF DictPlaces
      <3>9. verb \in {"DEFINE", "MATCH", "SHOW"} /\ got \in DictBlocks /\ local.in \in BOOLEAN
        BY <1>1 DEF DictLocals
      <3> HIDE DEF verb, payload, got
      <3>10. D!Status(r) \/ D!TextLine(r)
        BY <2>1, <2>7
      <3>11. ASSUME local' \in DictLocals, local'.verb = verb, D!Goto(pc), DictReads(payload, local'.got, local'.in, m)
             PROVE  DictInv'
        <4>1. UNCHANGED <<pc, sent, toServer, result>>
          BY <3>11 DEF D!Goto
        <4>2. DictTypes'
          BY <1>1, <2>1, <3>6, <3>11, <4>1 DEF DictTypes
        <4>3. DictCourse(local'.verb, local'.got, local'.in, toClient', server')
          BY <2>1, <2>2, <3>2, <3>4, <3>7, <3>11 DEF DictCourse, payload
        <4>4. DictStage'
          BY <2>1, <2>7, <3>1, <4>1, <4>3 DEF DictStage
        <4> QED BY <2>2, <2>7, <4>1, <4>2, <4>4 DEF DictInv
      <3>12. CASE D!TextLine(r)
        <4>1. local.in = TRUE /\ D!Goto(pc)
          BY <3>9, <3>12 DEF D!TextLine
        <4>2. a.at = "line"
          BY <3>2, <4>1 DEF DictReads
        <4>3. PICK done \in DictBlocks, last \in DictLines :
                got = Append(done, last) /\ payload = Append(done, last \o a.lines) \o a.blocks
          BY <3>2, <4>1 DEF DictReads
        <4>4. CASE a.lines # <<>> /\ r.line = D!Escaped(Head(a.lines)) /\ m = DictPlace("line", Tail(a.lines), a.blocks)
          <5> DEFINE line == Head(a.lines)
                     longer == Append(last, line)
                     new == Append(done, longer)
          <5>1. line \in Seq(Text) /\ Tail(a.lines) \in DictLines
            BY <3>8, <4>4, Reading DEF DictLines
          <5>2. ~D!EndOfBlock(r.line) /\ D!Unescaped(r.line) = line
            BY <4>4, <5>1, DictEscaped
          <5>3. longer \in DictLines /\ longer \o Tail(a.lines) = last \o a.lines
            BY <3>8, <4>4, ReadOn DEF DictLines
          <5>4. local' = [local EXCEPT !.got[Len(local.got)] = Append(@, line)]
            BY <3>12, <5>2 DEF D!TextLine
          <5>5. local.got[Len(local.got)] = last /\ [local.got EXCEPT ![Len(local.got)] = longer] = new
            <6> HIDE DEF longer
            <6>1. got[Len(got)] = last /\ [got EXCEPT ![Len(got)] = longer] = Append(done, longer)
              BY <4>3, <5>3, LastGrows DEF DictBlocks
            <6> QED BY <6>1 DEF got
          <5> HIDE DEF line
          <5>6. local' = [local EXCEPT !.got = new]
            <6>1. local' = [local EXCEPT !.got = [local.got EXCEPT ![Len(local.got)] = Append(local.got[Len(local.got)], line)]]
              BY <5>4
            <6>2. Append(local.got[Len(local.got)], line) = longer
              BY <5>5
            <6> HIDE DEF longer
            <6> QED BY <5>5, <6>1, <6>2
          <5> HIDE DEF longer
          <5>7. new \in DictBlocks
            BY <5>3 DEF DictBlocks
          <5> HIDE DEF new
          <5>8. local' \in DictLocals /\ local'.verb = verb /\ local'.got = new /\ local'.in = TRUE
            BY <1>1, <4>1, <5>6, <5>7 DEF DictLocals, verb
          <5>9. m.at = "line" /\ m.lines = Tail(a.lines) /\ m.blocks = a.blocks
            BY <3>8, <4>4, <5>1, DictPlaced
          <5>10. payload = Append(done, longer \o m.lines) \o m.blocks
            BY <4>3, <5>3, <5>9
          <5>11. DictReads(payload, new, TRUE, m)
            BY <5>3, <5>9, <5>10 DEF DictReads, new
          <5> QED BY <3>11, <4>1, <5>8, <5>11
        <4>5. CASE a.lines = <<>> /\ r.line = <<".">> /\ m = DictPlace("code", <<>>, a.blocks)
          <5>1. D!EndOfBlock(r.line)
            BY <4>5 DEF D!EndOfBlock
          <5>2. local' = [local EXCEPT !.in = FALSE]
            BY <3>12, <5>1 DEF D!TextLine
          <5>3. local' \in DictLocals /\ local'.verb = verb /\ local'.got = got /\ local'.in = FALSE
            BY <1>1, <5>2 DEF DictLocals, verb, got
          <5>4. last \o a.lines = last
            BY <4>5, AllRead DEF DictLines
          <5>5. payload = got \o a.blocks
            BY <4>3, <5>4
          <5>6. m.at = "code" /\ m.blocks = a.blocks
            <6>1. <<>> \in DictLines /\ "code" \in {"code", "line", "over"}
              BY Empty DEF DictLines
            <6> QED BY <3>8, <4>5, <6>1, DictPlaced
          <5>7. DictReads(payload, got, FALSE, m)
            BY <5>5, <5>6 DEF DictReads
          <5> QED BY <3>11, <4>1, <5>3, <5>7
        <4> QED BY <3>5, <4>2, <4>4, <4>5 DEF DictStep
      <3>13. CASE D!Status(r)
        <4>1. local.in = FALSE
          BY <3>9, <3>13 DEF D!Status
        <4>2. a.at = "code" /\ payload = got \o a.blocks
          BY <3>2, <4>1 DEF DictReads
        <4>3. CASE r.code = 150 /\ verb = "DEFINE" /\ m = a
          <5>1. ~(r.code \in 400 .. 599) /\ ~D!OpensBlock(verb, r.code) /\ D!Passes(verb, r.code)
            <6>1. <<"DEFINE", 150>> # <<"DEFINE", 151>>
              OBVIOUS
            <6> QED BY <4>3 DEF D!OpensBlock, D!Passes
          <5>2. D!Goto(pc) /\ UNCHANGED local
            BY <3>13, <5>1 DEF D!Status, verb
          <5> QED BY <1>1, <3>2, <3>11, <4>3, <5>2 DEF verb, got
        <4>4. CASE a.blocks # <<>> /\ r.code = D!Starts(verb) /\ m = DictPlace("line", Head(a.blocks), Tail(a.blocks))
          <5> DEFINE block == Head(a.blocks)
                     new == Append(got, <<>>)
          <5>1. ~(r.code \in 400 .. 599) /\ D!OpensBlock(verb, r.code)
            BY <3>9, <4>4 DEF D!OpensBlock, D!Starts
          <5>2. D!Goto(pc) /\ local' = [local EXCEPT !.in = TRUE, !.got = new]
            BY <3>13, <5>1 DEF D!Status, verb, got
          <5>3. block \in DictLines /\ Tail(a.blocks) \in DictBlocks
            BY <3>8, <4>4, Reading DEF DictBlocks
          <5>4. <<>> \in DictLines /\ <<>> \o block = block
            BY <5>3, Empty, AllThere DEF DictLines
          <5>5. new \in DictBlocks
            BY <3>9, <5>4 DEF DictBlocks
          <5>6. Append(got, block) \o Tail(a.blocks) = got \o a.blocks
            BY <3>8, <3>9, <4>4, ReadOn DEF DictBlocks
          <5>7. m.at = "line" /\ m.lines = block /\ m.blocks = Tail(a.blocks)
            BY <4>4, <5>3, DictPlaced
          <5> HIDE DEF block
          <5>8. payload = Append(got, <<>> \o m.lines) \o m.blocks
            BY <4>2, <5>4, <5>6, <5>7
          <5>9. DictReads(payload, new, TRUE, m)
            BY <3>9, <5>4, <5>7, <5>8 DEF DictReads
          <5> HIDE DEF new
          <5>10. local' \in DictLocals /\ local'.verb = verb /\ local'.got = new /\ local'.in = TRUE
            BY <1>1, <5>2, <5>5 DEF DictLocals, verb
          <5> QED BY <3>11, <5>2, <5>9, <5>10
        <4>5. CASE m.at = "over" /\ (r.code = D!Fails(verb) \/ (r.code = 250 /\ a.blocks = <<>>))
          <5>1. Tail(toClient) = <<>>
            <6>1. ASSUME Tail(toClient) # <<>> PROVE FALSE
              <7>1. PICK x \in DictPlaces : <<m, Head(Tail(toClient)), x>> \in DictSteps(verb)
                BY <3>4, <3>7, <6>1, CourseRead
              <7> QED BY <4>5, <7>1, DictMove DEF DictStep
            <6> QED BY <6>1
          <5>2. z = m
            BY <3>4, <5>1, CourseNone
          <5>3. server.re = 0
            <6>1. "code" \in {"code", "line", "over"} /\ <<>> \in DictLines /\ server.left \in DictBlocks
              BY <1>1, Empty DEF DictLines, DictServers
            <6>2. DictPlace("code", <<>>, server.left).at = "code"
              BY <6>1, DictPlaced
            <6> QED BY <3>2, <4>5, <5>2, <6>2
          <5>4. ASSUME NEW outcome \in {"ok", "error"}, D!Finish(outcome), outcome = "ok" => got = payload
                PROVE  DictInv'
            <6>1. D!Ask("QUIT", "", "farewell") /\ local' = [local EXCEPT !.outcome = outcome]
              BY <5>4 DEF D!Finish
            <6>2. local' \in DictLocals /\ local'.got = got /\ local'.outcome = outcome
              BY <1>1, <6>1 DEF DictLocals, got
            <6>3. sent + 1 = 3 /\ 3 \in Nat
              <7>1. sent = 2
                BY <3>1
              <7> QED BY <7>1
            <6>4. DictTypes' /\ pc' = "farewell" /\ sent' = 3 /\ result' = result /\ Asked("QUIT", 3, toServer', toClient')
              BY <1>4, <2>1, <2>2, <3>1, <3>6, <5>1, <6>1, <6>2, <6>3
            <6>5. DictStage'
              BY <2>1, <3>1, <5>3, <5>4, <6>2, <6>4 DEF DictStage, payload
            <6> QED BY <2>2, <6>4, <6>5 DEF DictInv
          <5>5. CASE r.code = D!Fails(verb)
            <6>1. r.code \in 400 .. 599
              BY <5>5 DEF D!Fails
            <6>2. D!Finish("error")
              BY <3>13, <6>1 DEF D!Status
            <6> QED BY <5>4, <6>2
          <5>6. CASE r.code = 250 /\ a.blocks = <<>>
            <6>1. ~(r.code \in 400 .. 599) /\ ~D!OpensBlock(verb, r.code) /\ ~D!Passes(verb, r.code)
              BY <5>6 DEF D!OpensBlock, D!Passes
            <6>2. D!Finish("ok")
              BY <3>13, <6>1 DEF D!Status, verb
            <6>3. got = payload
              BY <3>9, <4>2, <5>6, AllRead DEF DictBlocks
            <6> QED BY <5>4, <6>2, <6>3
          <5> QED BY <4>5, <5>5, <5>6
        <4> QED BY <3>5, <4>2, <4>3, <4>4, <4>5 DEF DictStep
      <3> QED BY <3>10, <3>12, <3>13
    <2> QED BY <2>1, <2>4, <2>5, <2>6, <2>7 DEF DictInv
  <1> QED BY <1>5, <1>6 DEF D!Client

\* The replies of a text block lead from one block to the next.
LEMMA DictBlock ==
    ASSUME NEW verb \in {"DEFINE", "MATCH", "SHOW"}, NEW blocks \in DictBlocks, blocks # <<>>
    PROVE  LET block == D!Block(D!Starts(verb), Head(blocks), 2)
           IN  /\ block \in Seq(DictReplies)
               /\ Course(DictPlaces, DictSteps(verb), block, DictPlace("code", <<>>, blocks),
                         DictPlace("code", <<>>, Tail(blocks)))
  <1> DEFINE b == Head(blocks)
             k == Len(b)
             left == Tail(blocks)
             x == [code |-> D!Starts(verb), re |-> 2]
             lines == [i \in DOMAIN b |-> [line |-> D!Escaped(b[i]), re |-> 2]]
             end == [line |-> <<".">>, re |-> 2]
             Steps == DictSteps(verb)
             at == DictPlace("code", <<>>, blocks)
             in == DictPlace("line", b, left)
             out == DictPlace("line", <<>>, left)
             to == DictPlace("code", <<>>, left)
             f == [rest \in DictLines |-> DictPlace("line", rest, left)]
  <1>1. b \in DictLines /\ left \in DictBlocks
    BY Reading DEF DictBlocks
  <1>2. b \in Seq(Seq(Text)) /\ k \in Nat /\ DOMAIN b = 1 .. k
    BY <1>1, LenProperties DEF DictLines
  <1>3. <<>> \in DictLines /\ "code" \in {"code", "line", "over"} /\ "line" \in {"code", "line", "over"}
    BY Empty DEF DictLines
  <1>4. x \in DictReplies /\ x.code = D!Starts(verb) /\ x.re = 2
    BY DEF DictReplies, D!Starts
  <1>5. end \in DictReplies /\ end.line = <<".">> /\ end.re = 2
    <2>1. "." \in Text
      BY ClientsAssumption
    <2>2. <<".">> \in Seq(Text)
      BY <2>1
    <2> QED BY <2>2 DEF DictReplies
  <1>6. ASSUME NEW i \in 1 .. k
        PROVE  LET r == [line |-> D!Escaped(b[i]), re |-> 2]
               IN  r \in DictReplies /\ r.line = D!Escaped(b[i]) /\ r.re = 2 /\ b[i] \in Seq(Text)
    <2>1. b[i] \in Seq(Text)
      BY <1>2, <1>6, ElementOfSeq
    <2>2. D!Escaped(b[i]) \in Seq(Text)
      BY <2>1, DictEscaped
    <2> QED BY <2>1, <2>2 DEF DictReplies
  <1>7. /\ lines = [i \in 1 .. k |-> [line |-> D!Escaped(b[i]), re |-> 2]]
        /\ \A i \in 1 .. k : lines[i] = [line |-> D!Escaped(b[i]), re |-> 2]
    BY <1>2
  <1>8. /\ at \in DictPlaces /\ at.at = "code" /\ at.blocks = blocks
        /\ in \in DictPlaces /\ in.at = "line" /\ in.lines = b /\ in.blocks = left
        /\ out \in DictPlaces /\ out.at = "line" /\ out.lines = <<>> /\ out.blocks = left
        /\ to \in DictPlaces
    <2> HIDE DEF b, left
    <2>1. at \in DictPlaces /\ at.at = "code" /\ at.blocks = blocks
      BY <1>3, DictPlaced
    <2>2. in \in DictPlaces /\ in.at = "line" /\ in.lines = b /\ in.blocks = left
      BY <1>1, <1>3, DictPlaced
    <2>3. out \in DictPlaces /\ out.at = "line" /\ out.lines = <<>> /\ out.blocks = left
      BY <1>1, <1>3, DictPlaced
    <2>4. to \in DictPlaces
      BY <1>1, <1>3, DictPlaced
    <2> QED BY <2>1, <2>2, <2>3, <2>4
  <1>9. lines \in Seq(DictReplies) /\ Len(lines) = k
    <2>1. \A i \in 1 .. k : [line |-> D!Escaped(b[i]), re |-> 2] \in DictReplies
      BY <1>6
    <2> HIDE DEF b, k
    <2> QED BY <1>2, <1>7, <2>1
  <1>10. \A i \in 1 .. k : lines[i].line = D!Escaped(b[i]) /\ lines[i].re = 2 /\ lines[i] \in DictReplies
    BY <1>6, <1>7
  <1>11. f \in [Seq(Seq(Text)) -> DictPlaces] /\ f[b] = in /\ f[<<>>] = out
    <2>1. \A rest \in DictLines : DictPlace("line", rest, left) \in DictPlaces
      BY <1>1, <1>3, DictPlaced
    <2> HIDE DEF left
    <2> QED BY <1>1, <1>3, <2>1 DEF DictLines
  <1>12. ASSUME NEW i \in 1 .. k, NEW rest \in Seq(Seq(Text)), rest # <<>>, Head(rest) = b[i]
         PROVE  <<f[rest], lines[i], f[Tail(rest)]>> \in Steps
    <2> DEFINE u == DictPlace("line", rest, left)
               v == DictPlace("line", Tail(rest), left)
    <2>1. rest \in DictLines /\ Tail(rest) \in DictLines
      BY <1>12, Reading DEF DictLines
    <2>2. u \in DictPlaces /\ u.at = "line" /\ u.lines = rest /\ u.blocks = left /\ v \in DictPlaces
      <3> HIDE DEF left
      <3>1. u \in DictPlaces /\ u.at = "line" /\ u.lines = rest /\ u.blocks = left
        BY <1>1, <1>3, <2>1, DictPlaced
      <3>2. v \in DictPlaces
        BY <1>1, <1>3, <2>1, DictPlaced
      <3> QED BY <3>1, <3>2
    <2>3. f[rest] = u /\ f[Tail(rest)] = v
      BY <2>1
    <2>4. v = DictPlace("line", Tail(u.lines), u.blocks)
      BY <2>2
    <2>5. lines[i].line = D!Escaped(b[i]) /\ lines[i].re = 2 /\ lines[i] \in DictReplies
      BY <1>10
    <2> HIDE DEF lines, u, v, f
    <2>6. DictStep(verb, u, lines[i], v)
      BY <1>12, <2>2, <2>4, <2>5 DEF DictStep
    <2> QED BY <2>2, <2>3, <2>5, <2>6, DictMoves
  <1>13. <<at, x, in>> \in Steps
    <2>1. in = DictPlace("line", Head(at.blocks), Tail(at.blocks))
      BY <1>8
    <2> HIDE DEF at, in, x, b, left
    <2>2. DictStep(verb, at, x, in)
      BY <1>4, <1>8, <2>1 DEF DictStep
    <2> QED BY <1>4, <1>8, <2>2, DictMoves
  <1>14. <<out, end, to>> \in Steps
    <2>1. to = DictPlace("code", <<>>, out.blocks)
      BY <1>8
    <2> HIDE DEF out, end, to, left
    <2>2. DictStep(verb, out, end, to)
      BY <1>5, <1>8, <2>1 DEF DictStep
    <2> QED BY <1>5, <1>8, <2>2, DictMoves
  <1> HIDE DEF b, lines, f, at, in, out, to, x, end, left, Steps
  <1>15. Course(DictPlaces, Steps, lines, in, out)
    BY <1>2, <1>9, <1>11, <1>12, CourseSpelled
  <1>16. Course(DictPlaces, Steps, lines \o <<end>>, in, to)
    BY <1>5, <1>8, <1>9, <1>14, <1>15, CourseSent
  <1>17. Course(DictPlaces, Steps, <<x>>, at, in) /\ <<x>> \in Seq(DictReplies)
    <2>1. Course(DictPlaces, Steps, <<>>, at, at)
      BY <1>8, CourseEmpty
    <2>2. Course(DictPlaces, Steps, <<>> \o <<x>>, at, in)
      BY <1>4, <1>8, <1>13, <2>1, CourseSent, Empty
    <2> QED BY <1>4, <2>2, One, OneIn
  <1>18. lines \o <<end>> \in Seq(DictReplies) /\ Append(lines, end) = lines \o <<end>>
    BY <1>5, <1>9, OneIn, ConcatProperties, AppendIsConcat
  <1>19. Course(DictPlaces, Steps, <<x>> \o (lines \o <<end>>), at, to)
    BY <1>8, <1>16, <1>17, <1>18, CourseJoin
  <1>20. <<x>> \o (lines \o <<end>>) \in Seq(DictReplies)
    BY <1>17, <1>18, ConcatProperties
  <1>21. D!Block(D!Starts(verb), b, 2) = <<x>> \o Append(lines, end)
    BY DEF D!Block, D!Code, x, lines, end
  <1> QED BY <1>18, <1>19, <1>20, <1>21 DEF b, at, to, left, Steps

LEMMA DictServer == DictInv /\ D!Server => DictInv'
  <1> SUFFICES ASSUME DictInv, D!Server PROVE DictInv'
    OBVIOUS
  <1>1. server \in DictServers /\ local \in DictLocals /\ toServer \in Seq(DictCommands) /\ inStep = TRUE
    BY DEF DictInv, DictTypes
  <1>2. DictStage
    BY DEF DictInv
  <1>3. UNCHANGED <<pc, result, local, sent, inStep>>
    BY DEF D!Server, D!Greet, D!Serve, D!Found, D!Send, D!Answer
  <1>4. ASSUME server' \in DictServers, server'.payload = server.payload, toServer' \in Seq(DictCommands)
        PROVE  DictTypes' /\ (pc = "done" => DictInv')
    <2>1. DictTypes'
      BY <1>1, <1>3, <1>4 DEF DictTypes
    <2>2. pc = "done" => D!Whole'
      BY <1>3, <1>4 DEF DictInv, D!Whole
    <2> QED BY <1>3, <2>1, <2>2 DEF DictInv, DictStage
  <1>5. ASSUME NEW code \in Nat, NEW n, toServer' = <<>>, toClient = <<>>, toClient' = toClient \o <<D!Code(code, n)>>
        PROVE  DictCode(n, toServer', toClient')
    <2> DEFINE x == [code |-> code, re |-> n]
    <2>1. toClient' = <<>> \o <<x>>
      BY <1>5 DEF D!Code
    <2> HIDE DEF x
    <2>2. toClient' = <<x>>
      BY <2>1, One
    <2> QED BY <1>5, <2>2 DEF DictCode, x
  <1>6. CASE D!Greet
    <2>1. server.alive /\ ~server.greeted /\ server' = [server EXCEPT !.greeted = TRUE] /\ UNCHANGED toServer
      BY <1>6 DEF D!Greet, D!Send
    <2>2. PICK code \in {220, 420} : toClient' = toClient \o <<D!Code(code, 0)>>
      BY <1>6 DEF D!Greet, D!Send
    <2>3. /\ server' \in DictServers /\ server'.payload = server.payload /\ server'.left = server.left
          /\ server'.re = server.re /\ server'.greeted
      BY <1>1, <2>1 DEF DictServers
    <2>4. DictTypes' /\ (pc = "done" => DictInv')
      BY <1>1, <1>4, <2>1, <2>3
    <2>5. CASE pc = "banner"
      <3>1. sent = 0 /\ toServer = <<>> /\ toClient = <<>> /\ DictIdle
        BY <1>2, <2>1, <2>5 DEF DictStage
      <3>2. DictCode(0, toServer', toClient')
        <4>1. code \in Nat /\ toServer' = <<>>
          BY <2>1, <3>1
        <4> QED BY <1>5, <2>2, <3>1, <4>1
      <3>3. DictIdle'
        BY <1>3, <2>3, <3>1 DEF DictIdle
      <3>4. DictStage'
        BY <1>3, <2>1, <2>3, <2>5, <3>1, <3>2, <3>3 DEF DictStage
      <3> QED BY <1>3, <2>4, <2>5, <3>4 DEF DictInv
    <2>6. pc = "banner" \/ pc = "done"
      BY <1>2, <2>1 DEF DictStage, DictInv
    <2> QED BY <2>4, <2>5, <2>6
  <1>7. CASE D!Serve
    <2> DEFINE c == Head(toServer)
    <2>1. /\ server.re = 0 /\ toServer # <<>>
          /\ \/ c.verb = "CLIENT" /\ \E code \in {250, 500} : D!Answer(server, <<D!Code(code, c.n)>>)
             \/ c.verb = "QUIT" /\ D!Answer([server EXCEPT !.alive = FALSE], <<D!Code(221, c.n)>>)
             \/ /\ c.verb \notin {"CLIENT", "QUIT"}
                /\ \/ D!Answer(server, <<D!Code(D!Fails(c.verb), c.n)>>)
                   \/ D!Answer([server EXCEPT !.re = c.n, !.code = D!Starts(c.verb)],
                               IF c.verb = "DEFINE" THEN <<D!Code(150, c.n)>> ELSE <<>>)
      BY <1>7 DEF D!Serve
    <2>2. c \in DictCommands /\ Tail(toServer) \in Seq(DictCommands)
      BY <1>1, <2>1, Reading
    <2>3. c.n \in Nat /\ D!Starts(c.verb) \in Nat
      BY <2>2 DEF DictCommands, D!Starts
    <2>4. toServer' = Tail(toServer)
      BY <2>1 DEF D!Answer
    <2> HIDE DEF c
    <2> DEFINE dead == [server EXCEPT !.alive = FALSE]
               busy == [server EXCEPT !.re = c.n, !.code = D!Starts(c.verb)]
    <2>5. /\ dead \in DictServers /\ dead.payload = server.payload /\ dead.re = server.re /\ dead.greeted = server.greeted
          /\ busy \in DictServers /\ busy.payload = server.payload /\ busy.re = c.n /\ busy.code = D!Starts(c.verb)
          /\ busy.left = server.left /\ busy.greeted = server.greeted
      BY <1>1, <2>3 DEF DictServers
    <2>6. server' = server \/ server' = dead \/ server' = busy
      BY <2>1 DEF D!Answer
    <2> HIDE DEF dead, busy
    <2>7. DictTypes' /\ (pc = "done" => DictInv') /\ server'.greeted = server.greeted
      BY <1>1, <1>4, <2>2, <2>4, <2>5, <2>6
    <2>8. ASSUME NEW verb, NEW n, Asked(verb, n, toServer, toClient)
          PROVE  c.verb = verb /\ c.n = n /\ toServer' = <<>> /\ toClient = <<>>
      <3> DEFINE command == [verb |-> verb, arg |-> "", n |-> n]
      <3>1. toServer = <<command>> /\ toClient = <<>>
        BY <2>8 DEF Asked
      <3> HIDE DEF command
      <3>2. c = command /\ toServer' = <<>>
        BY <2>4, <3>1, One DEF c
      <3> QED BY <3>1, <3>2 DEF command
    <2>9. CASE pc = "hello"
      <3>1. Asked("CLIENT", 1, toServer, toClient) /\ DictIdle /\ sent = 1 /\ server.greeted
        BY <1>2, <2>1, <2>9 DEF DictStage, DictCode
      <3>2. c.verb = "CLIENT" /\ c.n = 1 /\ toServer' = <<>> /\ toClient = <<>>
        BY <2>8, <3>1
      <3>3. PICK code \in {250, 500} : D!Answer(server, <<D!Code(code, 1)>>)
        BY <2>1, <3>2
      <3>4. server' = server /\ toClient' = toClient \o <<D!Code(code, 1)>>
        BY <3>3 DEF D!Answer
      <3>5. DictCode(1, toServer', toClient')
        BY <1>5, <3>2, <3>4
      <3>6. DictStage'
        BY <1>3, <2>9, <3>1, <3>4, <3>5 DEF DictStage, DictIdle
      <3> QED BY <1>3, <2>7, <2>9, <3>6 DEF DictInv
    <2>10. CASE pc = "farewell"
      <3>1. /\ Asked("QUIT", 3, toServer, toClient) /\ sent = 3 /\ server.greeted /\ server.re = 0
            /\ (local.outcome = "ok" => local.got = server.payload)
        BY <1>2, <2>1, <2>10 DEF DictStage, DictCode
      <3>2. c.verb = "QUIT" /\ c.n = 3 /\ toServer' = <<>> /\ toClient = <<>>
        BY <2>8, <3>1
      <3>3. D!Answer(dead, <<D!Code(221, 3)>>)
        BY <2>1, <3>2 DEF dead
      <3>4. server' = dead /\ toClient' = toClient \o <<D!Code(221, 3)>>
        BY <3>3 DEF D!Answer
      <3>5. DictCode(3, toServer', toClient')
        BY <1>5, <3>2, <3>4
      <3>6. DictStage'
        BY <1>3, <2>5, <2>10, <3>1, <3>4, <3>5 DEF DictStage
      <3> QED BY <1>3, <2>7, <2>10, <3>6 DEF DictInv
    <2>11. CASE pc = "response"
      <3> DEFINE verb == local.verb
                 Steps == DictSteps(verb)
                 at == DictPlace("code", <<>>, server.payload)
                 over == DictPlace("over", <<>>, <<>>)
      <3>1. Asked(verb, 2, toServer, toClient) /\ DictIdle /\ sent = 2 /\ server.greeted
        BY <1>2, <2>1, <2>11 DEF DictStage
      <3>2. c.verb = verb /\ c.n = 2 /\ toServer' = <<>> /\ toClient = <<>>
        BY <2>8, <3>1
      <3>3. verb \in {"DEFINE", "MATCH", "SHOW"}
        BY <1>1 DEF DictLocals
      <3>4. server.re = 0 /\ server.left = server.payload /\ local.got = <<>> /\ local.in = FALSE
        BY <3>1 DEF DictIdle
      <3>5. server.payload \in DictBlocks /\ <<>> \in DictBlocks /\ <<>> \in DictLines
        BY <1>1, Empty DEF DictServers, DictBlocks, DictLines
      <3>6. /\ at \in DictPlaces /\ at.at = "code" /\ at.blocks = server.payload
            /\ over \in DictPlaces /\ over.at = "over"
        BY <3>5, DictPlaced
      <3>7. DictReads(server.payload, <<>>, FALSE, at)
        <4>1. server.payload = <<>> \o server.payload
          BY <3>5, AllThere DEF DictBlocks
        <4> QED BY <3>6, <4>1 DEF DictReads
      <3> HIDE DEF verb, Steps, at, over
      <3>8. Course(DictPlaces, Steps, <<>>, at, at) /\ <<>> \in Seq(DictReplies)
        BY <3>6, CourseEmpty, Empty
      <3>9. ASSUME NEW x \in DictReplies, NEW z \in DictPlaces, DictStep(verb, at, x, z)
            PROVE  Course(DictPlaces, Steps, <<x>>, at, z) /\ <<x>> \in Seq(DictReplies)
        <4>1. <<at, x, z>> \in Steps
          BY <3>6, <3>9, DictMoves DEF Steps
        <4>2. Course(DictPlaces, Steps, <<>> \o <<x>>, at, z)
          BY <3>8, <3>9, <4>1, CourseSent
        <4> QED BY <3>9, <4>2, One, OneIn
      <3>10. ASSUME NEW z \in DictPlaces, toClient' \in Seq(DictReplies), Course(DictPlaces, Steps, toClient', at, z),
                    server'.payload = server.payload,
                    IF server'.re = 0 THEN z.at = "over"
                    ELSE z = DictPlace("code", <<>>, server'.left) /\ server'.re = 2 /\ server'.code = D!Starts(verb)
             PROVE  DictInv'
        <4>1. DictCourse(verb, <<>>, FALSE, toClient', server')
          BY <3>6, <3>7, <3>10 DEF DictCourse, Steps
        <4>2. DictCourse(local'.verb, local'.got, local'.in, toClient', server')
          BY <1>3, <3>4, <4>1 DEF verb
        <4>3. DictStage'
          BY <1>3, <2>7, <2>11, <3>1, <3>2, <4>2 DEF DictStage
        <4> QED BY <1>3, <2>7, <2>11, <4>3 DEF DictInv
      <3>11. ASSUME NEW code \in Nat
             PROVE  D!Code(code, 2) \in DictReplies /\ D!Code(code, 2).code = code /\ D!Code(code, 2).re = 2
        BY DEF D!Code, DictReplies
      <3>12. CASE D!Answer(server, <<D!Code(D!Fails(verb), 2)>>)
        <4> DEFINE x == D!Code(D!Fails(verb), 2)
        <4>1. D!Fails(verb) \in Nat
          BY DEF D!Fails
        <4>2. x \in DictReplies /\ x.code = D!Fails(verb) /\ x.re = 2
          BY <3>11, <4>1
        <4>3. server' = server /\ toClient' = <<>> \o <<x>>
          BY <3>2, <3>12 DEF D!Answer
        <4> HIDE DEF x
        <4>4. DictStep(verb, at, x, over)
          BY <3>6, <4>2 DEF DictStep
        <4>5. toClient' = <<x>>
          BY <4>3, One
        <4>6. Course(DictPlaces, Steps, toClient', at, over) /\ toClient' \in Seq(DictReplies)
          BY <3>6, <3>9, <4>2, <4>4, <4>5
        <4> QED BY <3>4, <3>6, <3>10, <4>3, <4>6
      <3>13. CASE D!Answer(busy, IF verb = "DEFINE" THEN <<D!Code(150, 2)>> ELSE <<>>)
        <4>1. server' = busy /\ toClient' = <<>> \o (IF verb = "DEFINE" THEN <<D!Code(150, 2)>> ELSE <<>>)
          BY <3>2, <3>13 DEF D!Answer
        <4>2. server'.payload = server.payload /\ server'.re = 2 /\ server'.code = D!Starts(verb) /\ server'.left = server.payload
          BY <2>5, <3>2, <3>4, <4>1
        <4>3. Course(DictPlaces, Steps, toClient', at, at) /\ toClient' \in Seq(DictReplies)
          <5>1. CASE verb = "DEFINE"
            <6> DEFINE x == D!Code(150, 2)
            <6>1. x \in DictReplies /\ x.code = 150 /\ x.re = 2
              BY <3>11
            <6>2. toClient' = <<>> \o <<x>>
              BY <4>1, <5>1
            <6> HIDE DEF x
            <6>3. DictStep(verb, at, x, at)
              BY <3>6, <5>1, <6>1 DEF DictStep
            <6>4. toClient' = <<x>>
              BY <6>2, One
            <6> QED BY <3>6, <3>9, <6>1, <6>3, <6>4
          <5>2. CASE verb # "DEFINE"
            <6>1. toClient' = <<>>
              BY <4>1, <5>2, One
            <6> QED BY <3>8, <6>1
          <5> QED BY <5>1, <5>2
        <4>4. at = DictPlace("code", <<>>, server'.left)
          BY <4>2 DEF at
        <4> QED BY <3>6, <3>10, <4>2, <4>3, <4>4
      <3>14. D!Answer(server, <<D!Code(D!Fails(verb), 2)>>) \/ D!Answer(busy, IF verb = "DEFINE" THEN <<D!Code(150, 2)>> ELSE <<>>)
        BY <2>1, <3>2, <3>3 DEF busy
      <3> QED BY <3>12, <3>13, <3>14
    <2>12. pc \in {"hello", "response", "farewell", "done"}
      BY <1>2, <2>1 DEF DictStage, DictInv
    <2> QED BY <2>7, <2>9, <2>10, <2>11, <2>12
  <1>8. CASE D!Found
    <2>1. server.re # 0 /\ UNCHANGED toServer
      BY <1>8 DEF D!Found, D!Send
    <2>2. /\ server.left # <<>> => /\ server' = [server EXCEPT !.left = Tail(@)]
                                   /\ toClient' = toClient \o D!Block(server.code, Head(server.left), server.re)
          /\ server.left = <<>> => /\ server' = [server EXCEPT !.re = 0]
                                   /\ toClient' = toClient \o <<D!Code(250, server.re)>>
      BY <1>8 DEF D!Found, D!Send
    <2>3. server.left \in DictBlocks
      BY <1>1 DEF DictServers
    <2>4. server.left # <<>> => Tail(server.left) \in DictBlocks
      BY <2>3, Reading DEF DictBlocks
    <2>5. /\ server' \in DictServers /\ server'.payload = server.payload /\ server'.greeted = server.greeted
          /\ server'.code = server.code
          /\ server.left # <<>> => server'.left = Tail(server.left) /\ server'.re = server.re
          /\ server.left = <<>> => server'.re = 0
      <3>1. CASE server.left # <<>>
        <4>1. server' = [server EXCEPT !.left = Tail(server.left)] /\ Tail(server.left) \in DictBlocks
          BY <2>2, <2>4, <3>1
        <4> DEFINE rest == Tail(server.left)
        <4> HIDE DEF rest
        <4>2. /\ server' \in DictServers /\ server'.payload = server.payload /\ server'.greeted = server.greeted
              /\ server'.code = server.code /\ server'.left = rest /\ server'.re = server.re
          BY <1>1, <4>1 DEF DictServers, rest
        <4> QED BY <3>1, <4>2 DEF rest
      <3>2. CASE server.left = <<>>
        <4>1. server' = [server EXCEPT !.re = 0]
          BY <2>2, <3>2
        <4> QED BY <1>1, <3>2, <4>1 DEF DictServers
      <3> QED BY <3>1, <3>2
    <2>6. DictTypes' /\ (pc = "done" => DictInv')
      BY <1>1, <1>4, <2>1, <2>5
    <2>7. CASE pc = "response"
      <3> DEFINE verb == local.verb
                 Steps == DictSteps(verb)
      <3>1. toServer = <<>> /\ DictCourse(verb, local.got, local.in, toClient, server) /\ sent = 2 /\ server.greeted
        BY <1>2, <2>1, <2>7 DEF DictStage, DictIdle
      <3>2. toClient \in Seq(DictReplies)
        BY <3>1 DEF DictCourse
      <3>3. PICK a \in DictPlaces, z \in DictPlaces :
              /\ DictReads(server.payload, local.got, local.in, a) /\ Course(DictPlaces, Steps, toClient, a, z)
              /\ z = DictPlace("code", <<>>, server.left) /\ server.re = 2 /\ server.code = D!Starts(verb)
        BY <2>1, <3>1 DEF DictCourse
      <3>4. verb \in {"DEFINE", "MATCH", "SHOW"}
        BY <1>1 DEF DictLocals
      <3> HIDE DEF verb, Steps
      <3>5. ASSUME NEW y \in DictPlaces, toClient' \in Seq(DictReplies), Course(DictPlaces, Steps, toClient', a, y),
                   IF server'.re = 0 THEN y.at = "over"
                   ELSE y = DictPlace("code", <<>>, server'.left) /\ server'.re = 2 /\ server'.code = D!Starts(verb)
            PROVE  DictInv'
        <4>1. DictCourse(verb, local.got, local.in, toClient', server')
          BY <2>5, <3>3, <3>5 DEF DictCourse, Steps
        <4>2. DictCourse(local'.verb, local'.got, local'.in, toClient', server')
          BY <1>3, <4>1 DEF verb
        <4>3. DictStage'
          BY <1>3, <2>1, <2>5, <2>7, <3>1, <4>2 DEF DictStage
        <4> QED BY <1>3, <2>6, <2>7, <4>3 DEF DictInv
      <3>6. CASE server.left # <<>>
        <4> DEFINE block == D!Block(D!Starts(verb), Head(server.left), 2)
                   y == DictPlace("code", <<>>, Tail(server.left))
        <4>1. block \in Seq(DictReplies) /\ Course(DictPlaces, Steps, block, z, y)
          BY <2>3, <3>3, <3>4, <3>6, DictBlock DEF Steps
        <4>2. toClient' = toClient \o block
          BY <2>2, <3>3, <3>6
        <4>3. y \in DictPlaces
          <5>1. <<>> \in DictLines
            BY Empty DEF DictLines
          <5> QED BY <2>4, <3>6, <5>1, DictPlaced
        <4>4. y = DictPlace("code", <<>>, server'.left) /\ server'.re = 2 /\ server'.code = D!Starts(verb)
          BY <2>5, <3>3, <3>6
        <4> HIDE DEF block, y
        <4>5. Course(DictPlaces, Steps, toClient', a, y) /\ toClient' \in Seq(DictReplies)
          BY <3>2, <3>3, <4>1, <4>2, CourseJoin, ConcatProperties
        <4> QED BY <3>5, <4>3, <4>4, <4>5
      <3>7. CASE server.left = <<>>
        <4> DEFINE x == D!Code(250, 2)
                   y == DictPlace("over", <<>>, <<>>)
        <4>1. x \in DictReplies /\ x.code = 250 /\ x.re = 2
          BY DEF D!Code, DictReplies
        <4>2. <<>> \in DictLines /\ <<>> \in DictBlocks
          BY Empty DEF DictLines, DictBlocks
        <4>3. y \in DictPlaces /\ y.at = "over" /\ z.at = "code" /\ z.blocks = <<>>
          BY <2>3, <3>3, <3>7, <4>2, DictPlaced
        <4>4. toClient' = toClient \o <<x>> /\ server'.re = 0
          BY <2>2, <2>5, <3>3, <3>7
        <4> HIDE DEF x, y
        <4>5. DictStep(verb, z, x, y)
          BY <4>1, <4>3 DEF DictStep
        <4>6. <<z, x, y>> \in Steps
          BY <4>1, <4>3, <4>5, DictMoves DEF Steps
        <4>7. Course(DictPlaces, Steps, toClient', a, y)
          BY <3>2, <3>3, <4>1, <4>3, <4>4, <4>6, CourseSent
        <4>8. toClient' \in Seq(DictReplies)
          BY <3>2, <4>1, <4>4, OneIn, ConcatProperties
        <4> QED BY <3>5, <4>3, <4>4, <4>7, <4>8
      <3> QED BY <3>6, <3>7
    <2>8. pc \in {"response", "done"}
      BY <1>2, <2>1 DEF DictStage, DictIdle, DictInv
    <2> QED BY <2>6, <2>7, <2>8
  <1> QED BY <1>6, <1>7, <1>8 DEF D!Server

LEMMA DictFault == DictInv /\ D!Die => DictInv'
  <1> SUFFICES ASSUME DictInv, D!Die PROVE DictInv'
    OBVIOUS
  <1>1. server' = [server EXCEPT !.alive = FALSE] /\ UNCHANGED <<pc, result, local, sent, toServer, toClient, inStep>>
    BY DEF D!Die, D!Crash
  <1>2. DictTypes /\ DictStage
    BY DEF DictInv
  <1>3. /\ server' \in DictServers /\ server'.payload = server.payload /\ server'.left = server.left /\ server'.re = server.re
        /\ server'.code = server.code /\ server'.greeted = server.greeted
    BY <1>1, <1>2 DEF DictTypes, DictServers
  <1>4. DictTypes'
    BY <1>1, <1>2, <1>3 DEF DictTypes
  <1>5. DictCourse(local.verb, local.got, local.in, toClient, server) => DictCourse(local'.verb, local'.got, local'.in, toClient', server')
    BY <1>1, <1>3 DEF DictCourse
  <1>6. DictIdle => DictIdle'
    BY <1>1, <1>3 DEF DictIdle
  <1>7. DictStage'
    BY <1>1, <1>2, <1>3, <1>5, <1>6 DEF DictStage
  <1>8. pc = "done" => D!Whole'
    BY <1>1, <1>3 DEF D!Whole, DictInv
  <1> QED BY <1>1, <1>4, <1>7, <1>8 DEF DictInv

LEMMA DictSafe == DictInv => inStep /\ ~server.refused /\ D!Whole
  BY DEF DictInv, DictTypes, DictServers, D!Whole

-----------------------------------------------------------------------------
(* RTSP.                                                                   *)

RtspMethods == {"OPTIONS", "DESCRIBE", "SETUP", "PLAY", "TEARDOWN"}
RtspSessions == {"none", "missing", R!Session}
RtspResponses ==
    [kind : {"response"}, cseq : Nat, status : Nat, session : RtspSessions, body : RtspMethods, re : Nat]
RtspReplies == RtspResponses \cup [kind : {"media"}, re : {0}]
RtspCommands == [verb : RtspMethods, arg : RtspSessions, n : Nat]

RtspServers ==
    [alive : BOOLEAN, refused : {FALSE}, session : BOOLEAN, playing : BOOLEAN, media : Nat,
     repeated : BOOLEAN]
RtspLocals ==
    [method : RtspMethods, todo : Seq(RtspMethods), session : RtspSessions, got : RtspMethods \cup {"none"}]

RtspTypes ==
    /\ server \in RtspServers
    /\ local \in RtspLocals
    /\ toServer \in Seq(RtspCommands)
    /\ toClient \in Seq(RtspReplies)
    /\ sent \in Nat /\ inStep = TRUE

\* The requests that need the session.
RtspInSession == {"PLAY", "TEARDOWN"}

\* What is still to be asked ends in the method, and has SETUP before what needs it.
RtspTodo ==
    /\ local.todo # <<>> /\ local.todo[Len(local.todo)] = local.method
    /\ \A i \in 1 .. Len(local.todo) - 1 : local.todo[i + 1] \in RtspInSession => local.todo[i] \in {"SETUP", "PLAY"}
    /\ local.todo[1] \in RtspInSession => local.session = R!Session /\ server.session /\ pc # "start"

\* A response under the CSeq of the last request, number n, is one to it, which was for
\* `verb`, and the session that it names the server has.
RtspAnswers(r, n, verb, idle, on) ==
    r.kind = "response" =>
        /\ r.cseq = r.re /\ r.re <= n
        /\ r.re = n =>
            /\ idle /\ r.body = verb
            /\ r.body = "SETUP" /\ r.session # "missing" => r.session = R!Session /\ on

RtspStage ==
    /\ pc = "start" => sent = 0 /\ toServer = <<>> /\ toClient = <<>> /\ ~server.playing
    /\ pc = "response" =>
        /\ toServer = <<>> \/ toServer = <<[verb |-> local.todo[1], arg |-> local.session, n |-> sent]>>
        /\ \A i \in 1 .. Len(toClient) : RtspAnswers(toClient[i], sent, local.todo[1], toServer = <<>>, server.session)
    /\ pc # "done" => RtspTodo

RtspInv ==
    /\ RtspTypes /\ RtspStage
    /\ pc \in {"start", "response", "done"}
    /\ \A i \in 1 .. Len(toServer) :
            toServer[i].verb \in RtspInSession => toServer[i].arg = R!Session /\ server.session
    /\ result = "ok" => local.got = local.method
    /\ pc # "done" => result = "none"

LEMMA RtspRequests ==
    ASSUME NEW method \in RtspMethods
    PROVE  LET todo == R!Requests(method) IN
           /\ todo \in Seq(RtspMethods) /\ todo # <<>> /\ todo[Len(todo)] = method
           /\ \A i \in 1 .. Len(todo) - 1 : todo[i + 1] \in RtspInSession => todo[i] \in {"SETUP", "PLAY"}
           /\ todo[1] \notin RtspInSession
  <1>1. CASE method \in {"OPTIONS", "DESCRIBE"}
    <2>1. R!Requests(method) = <<method>>
      BY <1>1 DEF R!Requests
    <2> QED BY <1>1, <2>1, One DEF RtspInSession
  <1>2. \A x \in {"OPTIONS", "DESCRIBE", "SETUP", "PLAY", "TEARDOWN"} : x \in RtspMethods
    BY DEF RtspMethods
  <1>3. CASE method = "SETUP"
    <2> DEFINE t == <<"OPTIONS", "DESCRIBE", "SETUP">>
    <2>1. R!Requests(method) = t
      BY <1>3 DEF R!Requests
    <2>2. t \in Seq(RtspMethods) /\ Len(t) = 3 /\ t # <<>> /\ t[1] = "OPTIONS" /\ t[2] = "DESCRIBE" /\ t[3] = "SETUP"
      BY <1>2
    <2> HIDE DEF t
    <2>3. \A i \in 1 .. Len(t) - 1 : i = 1 \/ i = 2
      BY <2>2
    <2>4. \A i \in 1 .. Len(t) - 1 : t[i + 1] \in RtspInSession => t[i] \in {"SETUP", "PLAY"}
      <3> SUFFICES ASSUME NEW i \in 1 .. Len(t) - 1, t[i + 1] \in RtspInSession PROVE t[i] \in {"SETUP", "PLAY"}
        OBVIOUS
      <3>1. CASE i = 1
        BY <2>2, <3>1 DEF RtspInSession
      <3>2. CASE i # 1
        BY <2>2, <2>3, <3>2 DEF RtspInSession
      <3> QED BY <3>1, <3>2
    <2>5. t[1] \notin RtspInSession
      BY <2>2 DEF RtspInSession
    <2> QED BY <1>3, <2>1, <2>2, <2>4, <2>5
  <1>4. CASE method = "PLAY"
    <2> DEFINE t == <<"OPTIONS", "DESCRIBE", "SETUP", "PLAY">>
    <2>1. R!Requests(method) = t
      BY <1>4 DEF R!Requests
    <2>2. /\ t \in Seq(RtspMethods) /\ Len(t) = 4 /\ t # <<>>
          /\ t[1] = "OPTIONS" /\ t[2] = "DESCRIBE" /\ t[3] = "SETUP" /\ t[4] = "PLAY"
      BY <1>2
    <2> HIDE DEF t
    <2>3. \A i \in 1 .. Len(t) - 1 : i = 1 \/ i = 2 \/ i = 3
      BY <2>2
    <2>4. \A i \in 1 .. Len(t) - 1 : t[i + 1] \in RtspInSession => t[i] \in {"SETUP", "PLAY"}
      <3> SUFFICES ASSUME NEW i \in 1 .. Len(t) - 1, t[i + 1] \in RtspInSession PROVE t[i] \in {"SETUP", "PLAY"}
        OBVIOUS
      <3>1. CASE i = 1
        BY <2>2, <3>1 DEF RtspInSession
      <3>2. CASE i # 1
        BY <2>2, <2>3, <3>2 DEF RtspInSession
      <3> QED BY <3>1, <3>2
    <2>5. t[1] \notin RtspInSession
      BY <2>2 DEF RtspInSession
    <2> QED BY <1>4, <2>1, <2>2, <2>4, <2>5
  <1>5. CASE method = "TEARDOWN"
    <2> DEFINE t == <<"OPTIONS", "DESCRIBE", "SETUP", "PLAY", "TEARDOWN">>
    <2>1. R!Requests(method) = t
      BY <1>5 DEF R!Requests
    <2>2. /\ t \in Seq(RtspMethods) /\ Len(t) = 5 /\ t # <<>>
          /\ t[1] = "OPTIONS" /\ t[2] = "DESCRIBE" /\ t[3] = "SETUP" /\ t[4] = "PLAY" /\ t[5] = "TEARDOWN"
      BY <1>2
    <2> HIDE DEF t
    <2>3. \A i \in 1 .. Len(t) - 1 : i = 1 \/ i = 2 \/ i = 3 \/ i = 4
      BY <2>2
    <2>4. \A i \in 1 .. Len(t) - 1 : t[i + 1] \in RtspInSession => t[i] \in {"SETUP", "PLAY"}
      <3> SUFFICES ASSUME NEW i \in 1 .. Len(t) - 1, t[i + 1] \in RtspInSession PROVE t[i] \in {"SETUP", "PLAY"}
        OBVIOUS
      <3>1. CASE i = 1
        BY <2>2, <3>1 DEF RtspInSession
      <3>2. CASE i # 1
        BY <2>2, <2>3, <3>2 DEF RtspInSession
      <3> QED BY <3>1, <3>2
    <2>5. t[1] \notin RtspInSession
      BY <2>2 DEF RtspInSession
    <2> QED BY <1>5, <2>1, <2>2, <2>4, <2>5
  <1> QED BY <1>1, <1>3, <1>4, <1>5 DEF RtspMethods

LEMMA RtspInit == R!Init => RtspInv
  <1> SUFFICES ASSUME R!Init PROVE RtspInv
    OBVIOUS
  <1>1. PICK method \in RtspMethods :
            local = [method |-> method, todo |-> R!Requests(method), session |-> "none", got |-> "none"]
    BY DEF R!Init, RtspMethods
  <1> DEFINE todo == R!Requests(method)
  <1>2. /\ todo \in Seq(RtspMethods) /\ todo # <<>> /\ todo[Len(todo)] = method
        /\ \A i \in 1 .. Len(todo) - 1 : todo[i + 1] \in RtspInSession => todo[i] \in {"SETUP", "PLAY"}
        /\ todo[1] \notin RtspInSession
    BY RtspRequests
  <1> HIDE DEF todo
  <1>3. local = [method |-> method, todo |-> todo, session |-> "none", got |-> "none"]
    BY <1>1 DEF todo
  <1>4. /\ pc = "start" /\ result = "none" /\ sent = 0 /\ inStep = TRUE /\ toServer = <<>> /\ toClient = <<>>
        /\ server = [alive |-> TRUE, refused |-> FALSE, session |-> FALSE, playing |-> FALSE,
                     media |-> 0, repeated |-> FALSE]
    BY DEF R!Init
  <1>5. RtspTypes
    BY <1>2, <1>3, <1>4, Empty DEF RtspTypes, RtspSessions, RtspServers, RtspLocals
  <1>6. RtspStage
    BY <1>2, <1>3, <1>4 DEF RtspStage, RtspTodo
  <1> QED BY <1>4, <1>5, <1>6, EmptyLen DEF RtspInv

LEMMA RtspClient == RtspInv /\ R!Client => RtspInv'
  <1> SUFFICES ASSUME RtspInv, R!Client PROVE RtspInv'
    OBVIOUS
  <1>4. RtspTypes
    BY DEF RtspInv
  <1>5. server \in RtspServers /\ local \in RtspLocals
    BY <1>4 DEF RtspTypes
  <1>0. /\ sent \in Nat /\ inStep = TRUE
        /\ local.method \in RtspMethods /\ local.todo \in Seq(RtspMethods) /\ local.session \in RtspSessions
        /\ toServer \in Seq(RtspCommands) /\ toClient \in Seq(RtspReplies)
    BY <1>4, <1>5 DEF RtspTypes, RtspLocals
  <1>1. CASE R!Begin
    <2> DEFINE command == [verb |-> local.todo[1], arg |-> local.session, n |-> sent + 1]
    <2>1. RtspTodo /\ pc = "start" /\ sent = 0 /\ toServer = <<>> /\ toClient = <<>> /\ result = "none"
      BY <1>1 DEF RtspInv, RtspStage, R!Begin
    <2>2. local.todo[1] \in RtspMethods /\ Head(local.todo) = local.todo[1] /\ local.todo[1] \notin RtspInSession
      BY <1>0, <2>1, Reading DEF RtspTodo
    <2>3. command \in RtspCommands
      BY <1>0, <2>2 DEF RtspCommands
    <2>4. /\ pc' = "response" /\ sent' = sent + 1 /\ toServer' = <<command>> /\ result' = "none"
          /\ UNCHANGED <<local, toClient, server, inStep>>
      BY <1>1, <2>1, <2>2, One DEF R!Begin, R!Ask
    <2>5. RtspTypes'
      <3>1. toServer' \in Seq(RtspCommands)
        BY <2>3, <2>4, OneIn
      <3> HIDE DEF command
      <3> QED BY <1>0, <1>4, <2>4, <3>1 DEF RtspTypes
    <2>6. RtspTodo'
      BY <2>1, <2>2, <2>4 DEF RtspTodo
    <2>7. RtspStage'
      BY <2>1, <2>4, <2>6, EmptyLen DEF RtspStage
    <2>8. \A i \in 1 .. Len(toServer') : toServer'[i].verb \notin RtspInSession
      BY <2>2, <2>4, One
    <2> QED BY <2>4, <2>5, <2>7, <2>8 DEF RtspInv
  <1>2. CASE R!Receive
    <2> DEFINE r == Head(toClient)
               verb == Head(local.todo)
               session == IF verb = "SETUP" THEN r.session
                          ELSE IF verb = "TEARDOWN" THEN "none" ELSE local.session
    <2>1. pc = "response" /\ toClient # <<>> /\ UNCHANGED server
      BY <1>2 DEF R!Receive
    <2>2. /\ RtspTodo /\ result = "none"
          /\ toServer = <<>> \/ toServer = <<[verb |-> local.todo[1], arg |-> local.session, n |-> sent]>>
          /\ \A i \in 1 .. Len(toClient) : RtspAnswers(toClient[i], sent, local.todo[1], toServer = <<>>, server.session)
          /\ \A i \in 1 .. Len(toServer) :
                toServer[i].verb \in RtspInSession => toServer[i].arg = R!Session /\ server.session
      BY <2>1 DEF RtspInv, RtspStage
    <2>3. /\ r = toClient[1] /\ r \in RtspReplies /\ Tail(toClient) \in Seq(RtspReplies)
          /\ Len(toClient) \in Nat \ {0} /\ RtspAnswers(r, sent, local.todo[1], toServer = <<>>, server.session)
      BY <1>0, <2>1, <2>2, Reading
    <2>4. /\ verb = local.todo[1] /\ verb \in RtspMethods /\ Tail(local.todo) \in Seq(RtspMethods)
          /\ Len(local.todo) \in Nat \ {0} /\ Len(Tail(local.todo)) = Len(local.todo) - 1
          /\ \A i \in 1 .. Len(local.todo) - 1 : Tail(local.todo)[i] = local.todo[i + 1]
      BY <1>0, <2>2, Reading DEF RtspTodo
    <2>5. CASE ~R!Accepted(r) \/ session = "missing"
      <3>1. pc' = "done" /\ result' = "error" /\ toClient' = Tail(toClient) /\ UNCHANGED <<sent, toServer, local, inStep>>
        BY <1>2, <2>5 DEF R!Receive, R!Skip, R!Return
      <3>2. RtspTypes'
        BY <1>4, <2>1, <2>3, <3>1 DEF RtspTypes
      <3> QED BY <2>1, <3>1, <3>2 DEF RtspInv, RtspStage
    <2>6. CASE R!Accepted(r) /\ session # "missing"
      <3>1. /\ inStep' = (inStep /\ r.re = sent)
            /\ \E k \in 1..Len(toClient) : toClient' = SubSeq(toClient, k + 1, Len(toClient))
            /\ IF Len(local.todo) = 1 THEN R!Return("ok") ELSE R!Ask(local.todo[2], session, "response")
            /\ local' = [local EXCEPT !.todo = Tail(@), !.session = session, !.got = r.body]
        BY <1>2, <2>6 DEF R!Receive
      <3>2. /\ r.kind = "response" /\ r.cseq = sent /\ r.re = sent /\ toServer = <<>> /\ r.body = verb
            /\ r.body = "SETUP" /\ r.session # "missing" => r.session = R!Session /\ server.session
            /\ r \in RtspResponses
        BY <2>3, <2>4, <2>6 DEF RtspAnswers, R!Accepted, R!Parses, RtspReplies
      <3>3. session \in RtspSessions
        BY <1>0, <3>2 DEF RtspSessions, RtspResponses
      <3>4. /\ local' \in RtspLocals
            /\ local'.method = local.method /\ local'.todo = Tail(local.todo) /\ local'.session = session
            /\ local'.got = verb
        BY <1>5, <2>4, <3>1, <3>2, <3>3 DEF RtspLocals
      <3>5. inStep' = TRUE
        BY <1>0, <3>1, <3>2
      <3>6. PICK k \in 1..Len(toClient) : toClient' = SubSeq(toClient, k + 1, Len(toClient))
        BY <3>1
      <3>7. /\ toClient' \in Seq(RtspReplies)
            /\ \A i \in 1 .. Len(toClient') : \E j \in 1 .. Len(toClient) : toClient'[i] = toClient[j]
        <4>1. \A i \in k + 1 .. Len(toClient) : toClient[i] \in RtspReplies
          BY <1>0, <2>3
        <4>2. k + 1 \in Int /\ Len(toClient) \in Int /\ k \in Nat
          BY <2>3
        <4>3. /\ toClient' \in Seq(RtspReplies)
              /\ Len(toClient') = IF k + 1 <= Len(toClient) THEN Len(toClient) - (k + 1) + 1 ELSE 0
              /\ \A i \in 1 .. Len(toClient) - (k + 1) + 1 : toClient'[i] = toClient[(k + 1) + i - 1]
          BY <3>6, <4>1, <4>2, SubSeqProperties
        <4>4. ASSUME NEW i \in 1 .. Len(toClient') PROVE \E j \in 1 .. Len(toClient) : toClient'[i] = toClient[j]
          <5>1. i \in 1 .. Len(toClient) - (k + 1) + 1 /\ (k + 1) + i - 1 \in 1 .. Len(toClient)
            BY <2>3, <4>2, <4>3
          <5> QED BY <4>3, <5>1
        <4> QED BY <4>3, <4>4
      <3>8. CASE Len(local.todo) = 1
        <4>1. pc' = "done" /\ result' = "ok" /\ UNCHANGED <<sent, toServer>>
          BY <3>1, <3>8 DEF R!Return
        <4>2. verb = local.method
          BY <2>2, <2>4, <3>8 DEF RtspTodo
        <4>3. RtspTypes'
          BY <1>4, <2>1, <3>4, <3>5, <3>7, <4>1 DEF RtspTypes
        <4> QED BY <2>1, <2>2, <3>4, <4>1, <4>2, <4>3 DEF RtspInv, RtspStage
      <3>9. CASE Len(local.todo) # 1
        <4> DEFINE command == [verb |-> local.todo[2], arg |-> session, n |-> sent + 1]
        <4>1. pc' = "response" /\ sent' = sent + 1 /\ toServer' = <<command>> /\ result' = "none"
          BY <2>2, <3>1, <3>2, <3>9, One DEF R!Ask
        <4>2. 1 \in 1 .. Len(local.todo) - 1 /\ Len(local.todo) - 1 \in Nat \ {0} /\ (Len(local.todo) - 1) + 1 = Len(local.todo)
          <5>1. Len(local.todo) \in Nat \ {0, 1}
            BY <2>4, <3>9
          <5> QED BY <5>1, Numbers
        <4>3. Tail(local.todo) # <<>> /\ local'.todo[1] = local.todo[2] /\ local.todo[2] \in RtspMethods
          <5>1. Tail(local.todo)[1] = local.todo[2] /\ Len(Tail(local.todo)) # 0
            BY <2>4, <4>2
          <5>2. 2 \in 1 .. Len(local.todo)
            <6>1. Len(local.todo) \in Nat \ {0, 1}
              BY <2>4, <3>9
            <6> QED BY <6>1, Numbers
          <5>3. local.todo[2] \in RtspMethods
            BY <1>0, <5>2, ElementOfSeq
          <5> QED BY <3>4, <5>1, <5>3, EmptyLen
        <4>4. command \in RtspCommands
          BY <1>0, <3>3, <4>3 DEF RtspCommands
        <4>5. toServer' \in Seq(RtspCommands)
          BY <4>1, <4>4, OneIn
        <4> HIDE DEF command
        <4>6. RtspTypes'
          BY <1>0, <1>4, <2>1, <3>4, <3>5, <3>7, <4>1, <4>5 DEF RtspTypes
        <4>7. local.todo[2] \in RtspInSession => session = R!Session /\ server.session
          <5>1. local.todo[2] \in RtspInSession => local.todo[1] \in {"SETUP", "PLAY"}
            BY <2>2, <4>2 DEF RtspTodo
          <5>2. local.todo[1] = "PLAY" => local.session = R!Session /\ server.session
            BY <2>2 DEF RtspTodo, RtspInSession
          <5>3. local.todo[1] = "SETUP" => r.session = R!Session /\ server.session
            BY <2>4, <2>6, <3>2
          <5> HIDE DEF r
          <5> QED BY <2>4, <5>1, <5>2, <5>3
        <4>8. RtspTodo'
          <5> DEFINE t == local.todo
                     u == local'.todo
          <5>1. u = Tail(t) /\ Len(u) = Len(t) - 1 /\ Len(t) \in Nat \ {0, 1} /\ \A i \in 1 .. Len(t) - 1 : u[i] = t[i + 1]
            BY <2>4, <3>4, <3>9
          <5>2. t[Len(t)] = local.method /\ \A i \in 1 .. Len(t) - 1 : t[i + 1] \in RtspInSession => t[i] \in {"SETUP", "PLAY"}
            BY <2>2 DEF RtspTodo
          <5>3. u # <<>>
            BY <4>3, <5>1
          <5> HIDE DEF t, u
          <5>4. u[Len(u)] = t[Len(t)]
            <6>1. Len(t) - 1 \in 1 .. Len(t) - 1 /\ (Len(t) - 1) + 1 = Len(t)
              BY <5>1, Numbers
            <6> QED BY <5>1, <6>1
          <5>5. \A i \in 1 .. Len(u) - 1 : u[i + 1] \in RtspInSession => u[i] \in {"SETUP", "PLAY"}
            BY <5>1, <5>2
          <5> QED BY <2>1, <3>4, <4>1, <4>3, <4>7, <5>2, <5>3, <5>4, <5>5 DEF RtspTodo, t, u
        <4>9. ASSUME NEW i \in 1 .. Len(toClient'), NEW v, NEW idle, NEW on
              PROVE  RtspAnswers(toClient'[i], sent', v, idle, on)
          <5>1. PICK j \in 1 .. Len(toClient) : toClient'[i] = toClient[j]
            BY <3>7
          <5> DEFINE q == toClient[j]
          <5>2. q \in RtspReplies /\ RtspAnswers(q, sent, local.todo[1], toServer = <<>>, server.session)
            BY <1>0, <2>2
          <5> HIDE DEF q
          <5>3. q.kind = "response" => q.re \in Nat
            BY <5>2 DEF RtspReplies, RtspResponses
          <5>4. q.kind = "response" => q.cseq = q.re /\ q.re <= sent
            BY <5>2 DEF RtspAnswers
          <5>5. q.kind = "response" => q.re <= sent' /\ q.re # sent'
            BY <1>0, <4>1, <5>3, <5>4
          <5>6. RtspAnswers(q, sent', v, idle, on)
            BY <5>4, <5>5 DEF RtspAnswers
          <5> QED BY <5>1, <5>6 DEF q
        <4>10. toServer' = <<[verb |-> local'.todo[1], arg |-> local'.session, n |-> sent']>>
          BY <3>4, <4>1, <4>3 DEF command
        <4>11. RtspStage'
          BY <4>1, <4>8, <4>9, <4>10 DEF RtspStage
        <4>12. \A i \in 1 .. Len(toServer') :
                toServer'[i].verb \in RtspInSession => toServer'[i].arg = R!Session /\ server'.session
          BY <2>1, <4>1, <4>7, One DEF command
        <4> QED BY <4>1, <4>6, <4>11, <4>12 DEF RtspInv
      <3> QED BY <3>8, <3>9
    <2> QED BY <2>5, <2>6
  <1>3. CASE R!Broken \/ R!Timeout
    <2>1. pc' = "done" /\ result' \in {"error", "ok"} /\ (result' = "ok" => pc = "farewell")
          /\ UNCHANGED <<sent, toServer, local, toClient, server, inStep>>
      BY <1>3 DEF R!Broken, R!Timeout, R!Return
    <2> QED BY <2>1 DEF RtspInv, RtspTypes, RtspStage
  <1> QED BY <1>1, <1>2, <1>3 DEF R!Client

\* Response r answers command c: on says whether the server has the session then.
RtspAnswered(r, c, on) ==
    /\ r \in RtspResponses /\ r.cseq = c.n /\ r.re = c.n /\ r.body = c.verb
    /\ c.verb = "SETUP" /\ r.session # "missing" => r.session = R!Session /\ on

LEMMA RtspServe ==
    ASSUME RtspInv, toServer # <<>>, NEW a \in R!Answers(server, Head(toServer).verb, Head(toServer).arg),
           NEW s \in {a.s, [a.s EXCEPT !.repeated = TRUE]}, NEW replies \in {<<a.r>>, <<a.r, a.r>>},
           R!Answer(s, replies)
    PROVE  RtspInv'
  <1> DEFINE c == Head(toServer)
  <1>1. RtspTypes
    BY DEF RtspInv
  <1>2. /\ server \in RtspServers /\ local \in RtspLocals /\ sent \in Nat /\ inStep = TRUE
        /\ toServer \in Seq(RtspCommands) /\ toClient \in Seq(RtspReplies)
    BY <1>1 DEF RtspTypes
  <1>3. /\ c = toServer[1] /\ c \in RtspCommands /\ Tail(toServer) \in Seq(RtspCommands)
        /\ Len(toServer) \in Nat \ {0} /\ Len(Tail(toServer)) = Len(toServer) - 1
        /\ \A i \in 1 .. Len(toServer) - 1 : Tail(toServer)[i] = toServer[i + 1]
    BY <1>2, Reading
  <1>4. /\ server' = s /\ toServer' = Tail(toServer) /\ toClient' = toClient \o replies
        /\ UNCHANGED <<pc, result, local, sent, inStep>>
    BY DEF R!Answer
  <1>5. c.verb \in RtspInSession => c.arg = R!Session /\ server.session
    <2>1. 1 \in 1 .. Len(toServer)
      BY <1>3
    <2> QED BY <1>3, <2>1 DEF RtspInv
  <1>6. a.s \in RtspServers /\ (server.session => a.s.session) /\ RtspAnswered(a.r, c, a.s.session)
    <2>1. ASSUME NEW status \in Nat, NEW session \in RtspSessions, NEW on \in BOOLEAN,
                 c.verb = "SETUP" /\ session # "missing" => session = R!Session /\ on
          PROVE  RtspAnswered(R!Response(status, session), c, on)
      BY <1>3, <2>1 DEF R!Response, RtspAnswered, RtspReplies, RtspResponses, RtspCommands
    <2>2. "missing" \in RtspSessions /\ R!Session \in RtspSessions /\ R!Session # "missing" /\ server.session \in BOOLEAN
      BY <1>2 DEF RtspSessions, R!Session, RtspServers
    <2>3. CASE c.verb = "SETUP"
      <3>1. a \in {R!To([server EXCEPT !.session = TRUE], R!Response(200, R!Session)),
                   R!To(server, R!Response(200, "missing")), R!To(server, R!Response(461, "missing"))}
        BY <2>3 DEF R!Answers
      <3>2. CASE a = R!To([server EXCEPT !.session = TRUE], R!Response(200, R!Session))
        <4>1. a.s = [server EXCEPT !.session = TRUE] /\ a.r = R!Response(200, R!Session)
          BY <3>2 DEF R!To
        <4>2. a.s \in RtspServers /\ a.s.session = TRUE
          BY <1>2, <4>1 DEF RtspServers
        <4>3. RtspAnswered(R!Response(200, R!Session), c, TRUE)
          BY <2>1, <2>2
        <4> QED BY <4>1, <4>2, <4>3
      <3>3. CASE a \in {R!To(server, R!Response(200, "missing")), R!To(server, R!Response(461, "missing"))}
        <4>1. a.s = server /\ (a.r = R!Response(200, "missing") \/ a.r = R!Response(461, "missing"))
          BY <3>3 DEF R!To
        <4>2. \A status \in Nat : RtspAnswered(R!Response(status, "missing"), c, server.session)
          BY <2>1, <2>2
        <4>3. 200 \in Nat /\ 461 \in Nat
          OBVIOUS
        <4> QED BY <1>2, <4>1, <4>2, <4>3
      <3> QED BY <3>1, <3>2, <3>3
    <2>4. CASE c.verb \in RtspInSession
      <3>1. server.session /\ c.arg = R!Session /\ c.verb # "SETUP" /\ c.verb \in {"PLAY", "TEARDOWN"}
        BY <1>5, <2>4 DEF RtspInSession
      <3> DEFINE starts == c.verb = "PLAY"
      <3>2. a \in {R!To([server EXCEPT !.playing = starts], R!Response(200, R!Session)), R!To(server, R!Response(455, R!Session))}
        BY <3>1 DEF R!Answers
      <3>3. starts \in BOOLEAN
        OBVIOUS
      <3> HIDE DEF starts
      <3>4. a.s \in {server, [server EXCEPT !.playing = starts]}
            /\ (a.r = R!Response(200, R!Session) \/ a.r = R!Response(455, R!Session))
        BY <3>2 DEF R!To
      <3>5. [server EXCEPT !.playing = starts] \in RtspServers /\ [server EXCEPT !.playing = starts].session = server.session
        BY <1>2, <3>3 DEF RtspServers
      <3>6. \A status \in Nat : RtspAnswered(R!Response(status, R!Session), c, server.session)
        BY <2>1, <2>2, <3>1
      <3>7. 200 \in Nat /\ 455 \in Nat
        OBVIOUS
      <3>8. a.s \in RtspServers /\ a.s.session = server.session
        BY <1>2, <3>4, <3>5
      <3>9. RtspAnswered(a.r, c, server.session)
        BY <3>4, <3>6, <3>7
      <3> QED BY <3>8, <3>9
    <2>5. CASE c.verb \notin RtspInSession /\ c.verb # "SETUP"
      <3>1. a \in {R!To(server, R!Response(200, "missing")), R!To(server, R!Response(404, "missing"))}
        BY <2>5 DEF R!Answers, RtspInSession
      <3>2. a.s = server /\ (a.r = R!Response(200, "missing") \/ a.r = R!Response(404, "missing"))
        BY <3>1 DEF R!To
      <3>3. \A status \in Nat : RtspAnswered(R!Response(status, "missing"), c, server.session)
        BY <2>1, <2>2
      <3>4. 200 \in Nat /\ 404 \in Nat
        OBVIOUS
      <3> QED BY <1>2, <3>2, <3>3, <3>4
    <2> QED BY <2>3, <2>4, <2>5
  <1>8. server' \in RtspServers /\ server'.session = a.s.session
    BY <1>4, <1>6 DEF RtspServers
  <1>9. a.r \in RtspReplies
    BY <1>6 DEF RtspAnswered, RtspReplies
  <1>10. replies \in Seq(RtspReplies) /\ \A i \in 1 .. Len(replies) : replies[i] = a.r
    <2>1. CASE replies = <<a.r>>
      BY <1>9, <2>1, One, OneIn
    <2>2. CASE replies = <<a.r, a.r>>
      <3> DEFINE x == a.r
      <3>1. x \in RtspReplies /\ replies = <<x, x>>
        BY <1>9, <2>2
      <3> HIDE DEF x
      <3>2. replies \in Seq(RtspReplies) /\ \A i \in 1 .. Len(replies) : replies[i] = x
        BY <3>1
      <3> QED BY <3>2 DEF x
    <2> QED BY <2>1, <2>2
  <1>11. /\ toClient' \in Seq(RtspReplies)
         /\ \A i \in 1 .. Len(toClient') : toClient'[i] = a.r \/ \E j \in 1 .. Len(toClient) : toClient'[i] = toClient[j]
    <2> DEFINE x == a.r
    <2>1. \A i \in 1 .. Len(replies) : replies[i] = x
      BY <1>10
    <2> HIDE DEF x
    <2>2. /\ toClient \o replies \in Seq(RtspReplies)
          /\ \A i \in 1 .. Len(toClient \o replies) :
                (toClient \o replies)[i] = x \/ \E j \in 1 .. Len(toClient) : (toClient \o replies)[i] = toClient[j]
      BY <1>2, <1>10, <2>1, Joined
    <2> QED BY <1>4, <2>2 DEF x
  <1>12. RtspTypes'
    BY <1>2, <1>3, <1>4, <1>8, <1>11 DEF RtspTypes
  <1>13. RtspStage'
    <2>1. pc = "start" => FALSE
      BY DEF RtspInv, RtspStage
    <2>2. CASE pc = "response"
      <3>1. /\ RtspTodo /\ toServer = <<[verb |-> local.todo[1], arg |-> local.session, n |-> sent]>>
            /\ \A i \in 1 .. Len(toClient) : RtspAnswers(toClient[i], sent, local.todo[1], toServer = <<>>, server.session)
        BY <2>2 DEF RtspInv, RtspStage
      <3>2. c.verb = local.todo[1] /\ c.n = sent /\ toServer' = <<>>
        BY <1>4, <3>1, One
      <3>3. RtspTodo'
        BY <1>4, <1>6, <1>8, <2>2, <3>1 DEF RtspTodo
      <3>4. ASSUME NEW i \in 1 .. Len(toClient')
            PROVE  RtspAnswers(toClient'[i], sent, local.todo[1], TRUE, server'.session)
        <4>1. CASE toClient'[i] = a.r
          <5>1. /\ a.r.cseq = c.n /\ a.r.re = c.n /\ a.r.body = c.verb
                /\ c.verb = "SETUP" /\ a.r.session # "missing" => a.r.session = R!Session /\ server'.session
            BY <1>6, <1>8 DEF RtspAnswered
          <5> QED BY <1>2, <3>2, <4>1, <5>1 DEF RtspAnswers
        <4>2. CASE \E j \in 1 .. Len(toClient) : toClient'[i] = toClient[j]
          <5>1. PICK j \in 1 .. Len(toClient) : toClient'[i] = toClient[j]
            BY <4>2
          <5> DEFINE q == toClient[j]
          <5>2. RtspAnswers(q, sent, local.todo[1], FALSE, server.session)
            <6>1. RtspAnswers(q, sent, local.todo[1], toServer = <<>>, server.session)
              BY <3>1
            <6>2. (toServer = <<>>) = FALSE
              OBVIOUS
            <6> QED BY <6>1, <6>2
          <5> HIDE DEF q
          <5>3. RtspAnswers(q, sent, local.todo[1], TRUE, server'.session)
            BY <5>2 DEF RtspAnswers
          <5> QED BY <5>1, <5>3 DEF q
        <4> QED BY <1>11, <4>1, <4>2
      <3>5. (toServer' = <<>>) = TRUE
        BY <3>2
      <3> QED BY <1>4, <2>2, <3>2, <3>3, <3>4, <3>5 DEF RtspStage
    <2>3. CASE pc = "done"
      BY <1>4, <2>3 DEF RtspStage
    <2> QED BY <2>1, <2>2, <2>3 DEF RtspInv
  <1>14. \A i \in 1 .. Len(toServer') : toServer'[i].verb \in RtspInSession => toServer'[i].arg = R!Session /\ server'.session
    <2> SUFFICES ASSUME NEW i \in 1 .. Len(toServer'), toServer'[i].verb \in RtspInSession
                 PROVE  toServer'[i].arg = R!Session /\ server'.session
      OBVIOUS
    <2>1. i + 1 \in 1 .. Len(toServer) /\ toServer'[i] = toServer[i + 1]
      BY <1>3, <1>4
    <2>2. toServer[i + 1].arg = R!Session /\ server.session
      BY <2>1 DEF RtspInv
    <2> QED BY <1>6, <1>8, <2>1, <2>2
  <1> QED BY <1>4, <1>12, <1>13, <1>14 DEF RtspInv

\* Media, which is no response.
LEMMA RtspMedia == RtspInv /\ R!Media => RtspInv'
  <1> SUFFICES ASSUME RtspInv, R!Media PROVE RtspInv'
    OBVIOUS
  <1> DEFINE frame == [kind |-> "media", re |-> 0]
  <1>1. RtspTypes
    BY DEF RtspInv
  <1>2. /\ server \in RtspServers /\ toClient \in Seq(RtspReplies)
    BY <1>1 DEF RtspTypes
  <1>3. /\ server' = [server EXCEPT !.media = @ + 1] /\ toClient' = toClient \o <<frame>>
        /\ UNCHANGED <<pc, result, local, sent, toServer, inStep>> /\ server.playing
    BY DEF R!Media, R!Send
  <1>4. server' \in RtspServers /\ server'.session = server.session
    <2> DEFINE m == server.media + 1
    <2>1. server.media \in Nat
      BY <1>2 DEF RtspServers
    <2>2. m \in Nat /\ server' = [server EXCEPT !.media = m]
      BY <1>3, <2>1
    <2> HIDE DEF m
    <2> QED BY <1>2, <2>2 DEF RtspServers
  <1>5. frame \in RtspReplies /\ frame.kind # "response"
    BY DEF RtspReplies
  <1>6. <<frame>> \in Seq(RtspReplies) /\ \A i \in 1 .. Len(<<frame>>) : <<frame>>[i] = frame
    BY <1>5, One, OneIn
  <1> HIDE DEF frame
  <1>7. /\ toClient' \in Seq(RtspReplies)
        /\ \A i \in 1 .. Len(toClient') : toClient'[i] = frame \/ \E j \in 1 .. Len(toClient) : toClient'[i] = toClient[j]
    BY <1>2, <1>3, <1>6, Joined
  <1>8. RtspTypes'
    BY <1>1, <1>3, <1>4, <1>7 DEF RtspTypes
  <1>9. \A n, verb, idle, on : RtspAnswers(frame, n, verb, idle, on)
    BY <1>5 DEF RtspAnswers
  <1>10. pc # "start"
    BY <1>3 DEF RtspInv, RtspStage
  <1> QED BY <1>3, <1>4, <1>7, <1>8, <1>9, <1>10 DEF RtspInv, RtspStage, RtspTodo

LEMMA RtspServer == RtspInv /\ R!Server => RtspInv'
  <1> SUFFICES ASSUME RtspInv, R!Serve PROVE RtspInv'
    BY RtspMedia DEF R!Server
  <1>1. toServer # <<>> /\ server.alive
    BY DEF R!Serve
  <1>2. PICK a \in R!Answers(server, Head(toServer).verb, Head(toServer).arg) : R!Answer(a.s, <<a.r>>)
    BY DEF R!Serve
  <1> QED BY <1>1, <1>2, RtspServe

LEMMA RtspFault == RtspInv /\ (R!Repeat \/ R!Die) => RtspInv'
  <1> SUFFICES ASSUME RtspInv, R!Repeat \/ R!Die PROVE RtspInv'
    OBVIOUS
  <1>1. CASE R!Repeat
    <2>1. toServer # <<>>
      BY <1>1 DEF R!Repeat
    <2>2. PICK a \in R!Answers(server, Head(toServer).verb, Head(toServer).arg) :
            R!Answer([a.s EXCEPT !.repeated = TRUE], <<a.r, a.r>>)
      BY <1>1 DEF R!Repeat
    <2> QED BY <2>1, <2>2, RtspServe
  <1>2. CASE R!Die
    <2>1. server' = [server EXCEPT !.alive = FALSE] /\ UNCHANGED <<pc, result, local, sent, toServer, toClient, inStep>>
      BY <1>2 DEF R!Die, R!Crash
    <2>2. RtspTypes
      BY DEF RtspInv
    <2>3. server' \in RtspServers /\ server'.session = server.session /\ server'.playing = server.playing
      BY <2>1, <2>2 DEF RtspTypes, RtspServers
    <2>4. RtspTypes'
      BY <2>1, <2>2, <2>3 DEF RtspTypes
    <2> QED BY <2>1, <2>3, <2>4 DEF RtspInv, RtspStage, RtspTodo
  <1> QED BY <1>1, <1>2

LEMMA RtspSafe == RtspInv => inStep /\ ~server.refused /\ R!Whole
  BY DEF RtspInv, RtspTypes, RtspServers, R!Whole

-----------------------------------------------------------------------------
(* MQTT.                                                                   *)

MqttServers ==
    [alive : BOOLEAN, refused : {FALSE}, connected : BOOLEAN, topic : BOOLEAN, got : {"none", M!Payload},
     published : SUBSET Posts, pinged : BOOLEAN]
MqttLocals ==
    [op : {"subscribe", "publish"}, qos : {0, 1, 2}, valid : BOOLEAN, got : Posts \cup {"none"}]

\* What the client ends with, and what it may have sent: CONNECT alone if it is not connected.
MqttFarewells == [verb : {"DISCONNECT"}, arg : {""}, n : Nat] \cup [verb : {"PUBLISH"}, arg : [qos : {0, 1}], n : Nat]
MqttCommands(connected) ==
    [verb : {"CONNECT"}, arg : {""}, n : Nat]
        \cup (IF connected THEN MqttFarewells \cup [verb : {"SUBSCRIBE"}, arg : {""}, n : Nat] ELSE {})

MqttTypes ==
    /\ server \in MqttServers /\ local \in MqttLocals
    /\ toServer \in Seq(MqttCommands(server.connected))
    /\ inStep = TRUE

\* The answers to what was sent after CONNECT, and what passes between them.
MqttPings == [type : {"PINGRESP"}, re : {0}]
MqttAcks == [type : {"CONNACK"}, code : Nat, re : {1}]
MqttAnswers(published, got) ==
    MqttPings
        \cup [type : {"SUBACK"}, code : Nat, re : {2}]
        \cup [type : {"PUBLISH"}, payload : published, re : {2}]
        \cup (IF got = M!Payload THEN [type : {"PUBACK"}, id : {M!PacketId}, re : {2}] ELSE {})

MqttStage ==
    /\ pc = "start" => sent = 0 /\ toServer = <<>> /\ toClient = <<>> /\ ~server.connected /\ ~server.topic
    /\ pc = "CONNACK" =>
        /\ sent = 1 /\ ~server.topic
        /\ \/ toServer = <<[verb |-> "CONNECT", arg |-> "", n |-> 1]>> /\ toClient = <<>> /\ ~server.connected
           \/ /\ toServer = <<>> /\ toClient # <<>> /\ toClient \in Seq(MqttAcks \cup MqttPings)
              /\ Head(toClient) \in MqttAcks /\ (Head(toClient).code = 0 => server.connected)
              /\ Tail(toClient) \in Seq(MqttPings)
    /\ pc \in {"SUBACK", "message", "PUBACK"} =>
        /\ sent = 2 /\ server.connected /\ toClient \in Seq(MqttAnswers(server.published, server.got))
    /\ pc = "SUBACK" /\ toServer # <<>> =>
        /\ toServer = <<[verb |-> "SUBSCRIBE", arg |-> "", n |-> 2]>>
        /\ ~server.topic /\ toClient \in Seq(MqttPings)
    /\ pc = "message" => toServer = <<>>
    /\ pc = "PUBACK" /\ toServer # <<>> => toServer = <<[verb |-> "PUBLISH", arg |-> [qos |-> 1], n |-> 2]>>
    /\ pc = "PUBACK" => ~server.topic /\ local.op = "publish"
    /\ pc \in {"SUBACK", "message"} => local.op = "subscribe"

MqttInv ==
    /\ MqttTypes /\ MqttStage
    /\ pc \in {"start", "CONNACK", "SUBACK", "message", "PUBACK", "done"}
    /\ local.qos # 0 => local.op = "publish"
    /\ IF pc = "done" THEN result = "ok" => M!Whole /\ toServer \in Seq(MqttFarewells) ELSE result = "none"

LEMMA MqttInit == M!Init => MqttInv
  <1> SUFFICES ASSUME M!Init PROVE MqttInv
    OBVIOUS
  <1>1. /\ pc = "start" /\ result = "none" /\ sent = 0 /\ inStep = TRUE /\ toServer = <<>> /\ toClient = <<>>
        /\ server = [alive |-> TRUE, refused |-> FALSE, connected |-> FALSE, topic |-> FALSE,
                     got |-> "none", published |-> {}, pinged |-> FALSE]
    BY DEF M!Init
  <1>2. PICK op \in {"subscribe", "publish"} : \E qos \in IF op = "publish" THEN {0, 1, 2} ELSE {0} :
            \E valid \in BOOLEAN : local = [op |-> op, qos |-> qos, valid |-> valid, got |-> "none"]
    BY DEF M!Init
  <1>3. PICK qos \in IF op = "publish" THEN {0, 1, 2} ELSE {0} :
            \E valid \in BOOLEAN : local = [op |-> op, qos |-> qos, valid |-> valid, got |-> "none"]
    BY <1>2
  <1>4. PICK valid \in BOOLEAN : local = [op |-> op, qos |-> qos, valid |-> valid, got |-> "none"]
    BY <1>3
  <1>5. qos \in {0, 1, 2} /\ (qos # 0 => op = "publish")
    OBVIOUS
  <1>6. local \in MqttLocals /\ (local.qos # 0 => local.op = "publish")
    BY <1>4, <1>5 DEF MqttLocals
  <1>7. server \in MqttServers
    BY <1>1 DEF MqttServers
  <1>8. MqttTypes
    BY <1>1, <1>6, <1>7, Empty DEF MqttTypes
  <1> QED BY <1>1, <1>6, <1>8 DEF MqttInv, MqttStage

LEMMA MqttClient == MqttInv /\ M!Client => MqttInv'
  <1> SUFFICES ASSUME MqttInv, M!Client PROVE MqttInv'
    OBVIOUS
  <1>1. /\ server \in MqttServers /\ local \in MqttLocals /\ toServer \in Seq(MqttCommands(server.connected)) /\ inStep = TRUE
        /\ local.qos # 0 => local.op = "publish"
    BY DEF MqttInv, MqttTypes
  <1>2. /\ server.connected \in BOOLEAN /\ local.got \in Posts \cup {"none"} /\ local.op \in {"subscribe", "publish"}
        /\ local.qos \in {0, 1, 2}
    BY <1>1 DEF MqttServers, MqttLocals
  <1>3. MqttStage
    BY DEF MqttInv
  <1>4. ASSUME M!Return("error"), UNCHANGED <<local, server, inStep>> PROVE MqttInv'
    <2>1. pc' = "done" /\ result' = "error" /\ UNCHANGED <<sent, toServer>>
      BY <1>4 DEF M!Return
    <2>2. MqttTypes'
      BY <1>1, <1>4, <2>1 DEF MqttTypes
    <2> QED BY <1>1, <1>4, <2>1, <2>2 DEF MqttInv, MqttStage
  <1>5. CASE M!Begin
    <2> DEFINE command == [verb |-> "CONNECT", arg |-> "", n |-> 1]
    <2>1. /\ pc = "start" /\ sent = 0 /\ toServer = <<>> /\ toClient = <<>> /\ ~server.connected /\ ~server.topic
          /\ UNCHANGED <<local, toClient, server, inStep>> /\ result = "none"
      BY <1>3, <1>5 DEF M!Begin, MqttStage, MqttInv
    <2>2. CASE M!Ask("CONNECT", "", "CONNACK")
      <3>1. pc' = "CONNACK" /\ sent' = 1 /\ toServer' = <<command>> /\ result' = "none"
        <4>1. sent + 1 = 1
          BY <2>1
        <4>2. pc' = "CONNACK" /\ sent' = 1 /\ toServer' = Append(<<>>, command) /\ UNCHANGED result
          BY <2>1, <2>2, <4>1 DEF M!Ask
        <4> HIDE DEF command
        <4> QED BY <2>1, <4>2, One
      <3>2. command \in MqttCommands(server.connected)
        BY DEF MqttCommands
      <3>3. toServer' \in Seq(MqttCommands(server.connected))
        BY <3>1, <3>2, OneIn
      <3> HIDE DEF command
      <3>4. MqttTypes'
        BY <1>1, <2>1, <3>3 DEF MqttTypes
      <3>5. MqttStage'
        BY <2>1, <3>1 DEF MqttStage, command
      <3> QED BY <1>1, <2>1, <3>1, <3>4, <3>5 DEF MqttInv
    <2> QED BY <1>4, <1>5, <2>1, <2>2 DEF M!Begin
  <1> DEFINE r == Head(toClient)
             n == sent + 1
  <1>6. CASE toClient # <<>> /\ M!Connected(r) /\ UNCHANGED server
    <2>1. pc = "CONNACK" /\ M!Take(r) /\ UNCHANGED <<local, server>>
      BY <1>6 DEF M!Connected
    <2>2. /\ sent = 1 /\ ~server.topic /\ toServer = <<>> /\ toClient # <<>> /\ toClient \in Seq(MqttAcks \cup MqttPings)
          /\ r \in MqttAcks /\ (r.code = 0 => server.connected) /\ Tail(toClient) \in Seq(MqttPings) /\ result = "none"
      BY <1>3, <1>6, <2>1 DEF MqttStage, MqttInv
    <2>3. r.type = "CONNACK" /\ r.re = 1
      BY <2>2 DEF MqttAcks
    <2>4. inStep' = TRUE /\ toClient' = Tail(toClient)
      BY <1>1, <2>1, <2>2, <2>3 DEF M!Take
    <2>5. CASE r.code # 0
      BY <1>1, <1>4, <1>6, <2>1, <2>4, <2>5 DEF M!Connected
    <2>6. CASE r.code = 0
      <3>1. server.connected = TRUE
        BY <1>2, <2>2, <2>6
      <3>2. CASE local.op = "subscribe"
        <4> DEFINE command == [verb |-> "SUBSCRIBE", arg |-> "", n |-> 2]
        <4>1. pc' = "SUBACK" /\ sent' = 2 /\ toServer' = <<command>> /\ result' = "none"
          <5>1. M!Ask("SUBSCRIBE", "", "SUBACK")
            BY <1>6, <2>3, <2>6, <3>2 DEF M!Connected
          <5>2. sent + 1 = 2
            BY <2>2
          <5>3. pc' = "SUBACK" /\ sent' = 2 /\ toServer' = Append(<<>>, command) /\ UNCHANGED result
            BY <2>2, <5>1, <5>2 DEF M!Ask
          <5> HIDE DEF command
          <5> QED BY <2>2, <5>3, One
        <4>2. command \in MqttCommands(TRUE)
          BY DEF MqttCommands
        <4>3. toServer' \in Seq(MqttCommands(server.connected))
          BY <3>1, <4>1, <4>2, OneIn
        <4> HIDE DEF command
        <4>4. MqttTypes'
          BY <1>1, <2>1, <2>4, <4>3 DEF MqttTypes
        <4>5. toClient' \in Seq(MqttAnswers(server.published, server.got))
          BY <2>2, <2>4, SeqMonotonic DEF MqttAnswers
        <4>6. MqttStage'
          BY <2>1, <2>2, <2>4, <3>1, <3>2, <4>1, <4>5 DEF MqttStage, command
        <4> QED BY <1>1, <2>1, <4>1, <4>4, <4>6 DEF MqttInv
      <3>3. CASE local.op # "subscribe" /\ local.qos = 0
        <4> DEFINE post == [verb |-> "PUBLISH", arg |-> [qos |-> 0], n |-> sent + 1]
                   bye == [verb |-> "DISCONNECT", arg |-> "", n |-> sent + 2]
        <4>1. M!PublishAndBye
          BY <1>6, <2>3, <2>6, <3>3 DEF M!Connected
        <4>2. pc' = "done" /\ result' = "ok" /\ toServer' = <<post, bye>>
          BY <2>2, <4>1, Two DEF M!PublishAndBye
        <4>3. sent + 1 \in Nat /\ sent + 2 \in Nat
          BY <2>2
        <4>4. post \in MqttFarewells /\ bye \in MqttFarewells
          BY <4>3 DEF MqttFarewells
        <4> HIDE DEF post, bye
        <4>5. toServer' \in Seq(MqttFarewells)
          <5>1. <<post, bye>> \in Seq(MqttFarewells)
            BY <4>4
          <5> QED BY <4>2, <5>1
        <4>6. toServer' \in Seq(MqttCommands(server.connected))
          <5>1. MqttFarewells \subseteq MqttCommands(server.connected)
            BY <3>1 DEF MqttCommands
          <5> QED BY <4>5, <5>1, SeqMonotonic
        <4>7. MqttTypes'
          BY <1>1, <2>1, <2>4, <4>6 DEF MqttTypes
        <4>8. MqttStage'
          BY <4>2 DEF MqttStage
        <4>9. M!Whole'
          BY <2>1, <3>3 DEF M!Whole
        <4> QED BY <1>1, <2>1, <4>2, <4>5, <4>7, <4>8, <4>9 DEF MqttInv
      <3>4. CASE local.op # "subscribe" /\ local.qos # 0
        <4> DEFINE command == [verb |-> "PUBLISH", arg |-> [qos |-> 1], n |-> 2]
        <4>1. pc' = "PUBACK" /\ sent' = 2 /\ toServer' = <<command>> /\ result' = "none"
          BY <1>6, <2>2, <2>3, <2>6, <3>4, One DEF M!Connected, M!Ask
        <4>2. command \in MqttCommands(TRUE)
          BY DEF MqttCommands, MqttFarewells
        <4>3. toServer' \in Seq(MqttCommands(server.connected))
          BY <3>1, <4>1, <4>2, OneIn
        <4> HIDE DEF command
        <4>4. MqttTypes'
          BY <1>1, <2>1, <2>4, <4>3 DEF MqttTypes
        <4>5. toClient' \in Seq(MqttAnswers(server.published, server.got))
          BY <2>2, <2>4, SeqMonotonic DEF MqttAnswers
        <4>6. MqttStage'
          BY <1>1, <2>1, <2>2, <2>4, <3>1, <3>4, <4>1, <4>5 DEF MqttStage, command
        <4> QED BY <1>1, <2>1, <4>1, <4>4, <4>6 DEF MqttInv
      <3> QED BY <3>2, <3>3, <3>4
    <2> QED BY <2>5, <2>6
  <1>7. CASE toClient # <<>> /\ M!Subscribed(r) /\ UNCHANGED server
    <2>1. pc = "SUBACK" /\ UNCHANGED <<local, server>>
      BY <1>7 DEF M!Subscribed
    <2>2. /\ sent = 2 /\ server.connected /\ toClient \in Seq(MqttAnswers(server.published, server.got))
          /\ toServer # <<>> => toClient \in Seq(MqttPings)
          /\ local.op = "subscribe" /\ result = "none"
      BY <1>3, <2>1 DEF MqttStage, MqttInv
    <2>3. r \in MqttAnswers(server.published, server.got) /\ Tail(toClient) \in Seq(MqttAnswers(server.published, server.got))
          /\ (toServer # <<>> => r \in MqttPings)
      BY <1>7, <2>2, Reading
    <2>4. CASE r.type # "SUBACK" \/ r.code = 128
      BY <1>1, <1>4, <1>7, <2>1, <2>4 DEF M!Subscribed, M!Skip
    <2>5. CASE ~(r.type # "SUBACK" \/ r.code = 128)
      <3>1. M!Take(r) /\ M!Goto("message")
        BY <1>7, <2>5 DEF M!Subscribed
      <3>2. r.re = 2 /\ toServer = <<>>
        BY <2>3, <2>5 DEF MqttAnswers, MqttPings
      <3>3. inStep' = TRUE /\ toClient' = Tail(toClient) /\ pc' = "message" /\ UNCHANGED <<sent, toServer, result>>
        BY <1>1, <2>2, <3>1, <3>2 DEF M!Take, M!Goto
      <3>4. MqttTypes'
        BY <1>1, <2>1, <3>3 DEF MqttTypes
      <3>5. MqttStage'
        BY <2>1, <2>2, <2>3, <3>2, <3>3 DEF MqttStage
      <3> QED BY <1>1, <2>1, <2>2, <3>3, <3>4, <3>5 DEF MqttInv
    <2> QED BY <2>4, <2>5
  <1>8. CASE toClient # <<>> /\ M!Await(r) /\ UNCHANGED server
    <2>1. pc \in {"message", "PUBACK"}
      BY <1>8 DEF M!Await
    <2>2. /\ sent = 2 /\ server.connected /\ toClient \in Seq(MqttAnswers(server.published, server.got)) /\ result = "none"
      BY <1>3, <2>1 DEF MqttStage, MqttInv
    <2>3. r \in MqttAnswers(server.published, server.got) /\ Tail(toClient) \in Seq(MqttAnswers(server.published, server.got))
      BY <1>8, <2>2, Reading
    <2>4. CASE r.type = "PINGRESP" /\ M!Skip(r) /\ UNCHANGED <<pc, result, sent, toServer, local>>
      <3>1. toClient' = Tail(toClient) /\ UNCHANGED inStep
        BY <2>4 DEF M!Skip
      <3>2. MqttTypes'
        BY <1>1, <1>8, <2>4, <3>1 DEF MqttTypes
      <3>3. MqttStage'
        BY <1>3, <1>8, <2>1, <2>2, <2>3, <2>4, <3>1 DEF MqttStage
      <3> QED BY <1>1, <1>8, <2>1, <2>2, <2>4, <3>2, <3>3 DEF MqttInv
    <2> DEFINE bye == [verb |-> "DISCONNECT", arg |-> "", n |-> sent + 1]
    <2>5. ASSUME M!Bye("ok"), M!Take(r), r.re = 2, local' \in MqttLocals, local'.qos = local.qos, local'.op = local.op, M!Whole',
                 toServer \in Seq(MqttFarewells)
          PROVE  MqttInv'
      <3>1. pc' = "done" /\ result' = "ok" /\ toServer' = Append(toServer, bye)
        BY <2>5 DEF M!Bye
      <3>2. inStep' = TRUE /\ UNCHANGED server
        BY <1>1, <1>8, <2>2, <2>5 DEF M!Take
      <3>3. bye \in MqttFarewells
        BY <2>2 DEF MqttFarewells
      <3> HIDE DEF bye
      <3>4. toServer' \in Seq(MqttFarewells)
        BY <2>5, <3>1, <3>3
      <3>5. MqttFarewells \subseteq MqttCommands(server.connected)
        BY <2>2 DEF MqttCommands
      <3>6. toServer' \in Seq(MqttCommands(server.connected))
        BY <3>4, <3>5, SeqMonotonic
      <3>7. MqttTypes'
        BY <1>1, <2>5, <3>2, <3>6 DEF MqttTypes
      <3>8. MqttStage'
        BY <3>1 DEF MqttStage
      <3> QED BY <1>1, <2>5, <3>1, <3>4, <3>7, <3>8 DEF MqttInv
    <2>6. CASE pc = "message" /\ r.type = "PUBLISH" /\ M!Take(r) /\ M!Bye("ok") /\ local' = [local EXCEPT !.got = r.payload]
      <3>1. r.re = 2 /\ r.payload \in server.published
        BY <2>3, <2>6 DEF MqttAnswers, MqttPings
      <3>2. server.published \subseteq Posts /\ toServer = <<>> /\ local.op = "subscribe" /\ local.qos = 0
        BY <1>1, <1>3, <2>6 DEF MqttServers, MqttStage
      <3>3. local' \in MqttLocals /\ local'.qos = local.qos /\ local'.op = local.op /\ local'.got = r.payload
        BY <1>1, <2>6, <3>1, <3>2 DEF MqttLocals
      <3>4. M!Whole'
        BY <1>8, <3>1, <3>2, <3>3 DEF M!Whole
      <3> QED BY <2>5, <2>6, <3>1, <3>2, <3>3, <3>4, Empty
    <2>7. CASE pc = "PUBACK" /\ r.type = "PUBACK" /\ r.id = M!PacketId /\ M!Take(r) /\ M!Bye("ok") /\ UNCHANGED local
      <3>1. r.re = 2 /\ server.got = M!Payload
        BY <2>3, <2>7 DEF MqttAnswers, MqttPings
      <3>2. local.op = "publish"
        BY <1>3, <2>7 DEF MqttStage
      <3>3. M!Whole'
        BY <1>8, <2>7, <3>1, <3>2 DEF M!Whole
      <3>4. toServer \in Seq(MqttFarewells)
        <4>1. CASE toServer = <<>>
          BY <4>1, Empty
        <4>2. CASE toServer # <<>>
          <5>1. toServer = <<[verb |-> "PUBLISH", arg |-> [qos |-> 1], n |-> 2]>>
            BY <1>3, <2>7, <4>2 DEF MqttStage
          <5>2. [verb |-> "PUBLISH", arg |-> [qos |-> 1], n |-> 2] \in MqttFarewells
            BY DEF MqttFarewells
          <5> QED BY <5>1, <5>2, OneIn
        <4> QED BY <4>1, <4>2
      <3>5. local' \in MqttLocals /\ local'.qos = local.qos /\ local'.op = local.op
        BY <1>1, <2>7
      <3> QED BY <2>5, <2>7, <3>1, <3>3, <3>4, <3>5
    <2>8. CASE M!Skip(r) /\ M!Return("error") /\ UNCHANGED local
      BY <1>1, <1>4, <1>8, <2>8 DEF M!Skip
    <2> QED BY <1>8, <2>4, <2>6, <2>7, <2>8 DEF M!Await
  <1>9. CASE M!Broken
    <2>1. M!Return("error") /\ UNCHANGED <<local, server, inStep>>
      BY <1>9 DEF M!Broken, MqttInv
    <2> QED BY <1>4, <2>1
  <1> QED BY <1>5, <1>6, <1>7, <1>8, <1>9 DEF M!Client, M!Receive

\* What an answer does to the state of the server.
LEMMA MqttAnswered ==
    ASSUME MqttInv, NEW c \in MqttCommands(server.connected), NEW a \in M!Answers(server, c.verb, c.arg, c.n)
    PROVE  /\ a.s \in MqttServers /\ (server.connected => a.s.connected) /\ (server.got = M!Payload => a.s.got = M!Payload)
           /\ c.verb = "CONNECT" =>
                /\ a.s.topic = server.topic
                /\ \E code \in Nat : a.replies = <<[type |-> "CONNACK", code |-> code, re |-> c.n]>> /\ (code = 0 => a.s.connected)
           /\ c.verb = "SUBSCRIBE" /\ c.n = 2 => a.replies \in Seq(MqttAnswers(a.s.published, a.s.got))
           /\ c.verb # "SUBSCRIBE" => a.s.published = server.published
           /\ c.verb = "PUBLISH" =>
                /\ a.s.topic = server.topic
                /\ c.n = 2 => a.replies \in Seq(MqttAnswers(a.s.published, a.s.got))
  <1>0. server \in MqttServers
    BY DEF MqttInv, MqttTypes
  <1>1. CASE c.verb = "CONNECT"
    <2>1. a \in {M!To([server EXCEPT !.connected = TRUE], <<M!Ack("CONNACK", 0, c.n)>>), M!To(server, <<M!Ack("CONNACK", 5, c.n)>>)}
      BY <1>1 DEF M!Answers
    <2>2. CASE a = M!To([server EXCEPT !.connected = TRUE], <<M!Ack("CONNACK", 0, c.n)>>)
      <3>1. a.s = [server EXCEPT !.connected = TRUE] /\ a.replies = <<[type |-> "CONNACK", code |-> 0, re |-> c.n]>>
        BY <2>2 DEF M!To, M!Ack
      <3>2. /\ a.s \in MqttServers /\ a.s.connected = TRUE /\ a.s.got = server.got /\ a.s.topic = server.topic
            /\ a.s.published = server.published
        BY <1>0, <3>1 DEF MqttServers
      <3> QED BY <1>1, <3>1, <3>2
    <2>3. CASE a = M!To(server, <<M!Ack("CONNACK", 5, c.n)>>)
      <3>1. a.s = server /\ a.replies = <<[type |-> "CONNACK", code |-> 5, re |-> c.n]>> /\ 5 \in Nat
        BY <2>3 DEF M!To, M!Ack
      <3>2. \E code \in Nat : a.replies = <<[type |-> "CONNACK", code |-> code, re |-> c.n]>> /\ (code = 0 => a.s.connected)
        <4> WITNESS 5 \in Nat
        <4> QED BY <3>1
      <3> QED BY <1>0, <1>1, <3>1, <3>2
    <2> QED BY <2>1, <2>2, <2>3
  <1>2. CASE c.verb # "CONNECT"
    <2>1. server.connected /\ c \in MqttFarewells \cup [verb : {"SUBSCRIBE"}, arg : {""}, n : Nat]
      BY <1>2 DEF MqttCommands
    <2>2. CASE c.verb = "SUBSCRIBE"
      <3> DEFINE on == [server EXCEPT !.topic = TRUE]
                 ack == M!Ack("SUBACK", 0, c.n)
      <3>1. on \in MqttServers /\ on.connected /\ on.got = server.got
        BY <1>0, <2>1 DEF MqttServers
      <3>2. ASSUME NEW m \in Posts
            PROVE  LET s == [on EXCEPT !.published = {m}] IN
                   s \in MqttServers /\ s.connected /\ s.got = server.got /\ s.published = {m}
        BY <3>1 DEF MqttServers
      <3>3. c.n = 2 => \A published, got : \A code \in Nat : M!Ack("SUBACK", code, c.n) \in MqttAnswers(published, got)
        BY DEF M!Ack, MqttAnswers
      <3>4. \A got, m : M!Post(m) \in MqttAnswers({m}, got)
        BY DEF M!Post, MqttAnswers
      <3>5. a \in M!Accepts(server, c.n) \cup {M!To(server, <<M!Ack("SUBACK", 128, c.n)>>)}
        BY <2>1, <2>2 DEF M!Answers
      <3> DEFINE Good == /\ a.s \in MqttServers /\ a.s.connected /\ a.s.got = server.got
                         /\ c.n = 2 => a.replies \in Seq(MqttAnswers(a.s.published, a.s.got))
      <3>6. ASSUME a = M!To(server, <<M!Ack("SUBACK", 128, c.n)>>) PROVE Good
        <4>1. a.s = server /\ a.replies = <<M!Ack("SUBACK", 128, c.n)>> /\ 128 \in Nat
          BY <3>6 DEF M!To
        <4> DEFINE no == M!Ack("SUBACK", 128, c.n)
        <4>2. c.n = 2 => no \in MqttAnswers(server.published, server.got)
          BY <3>3, <4>1
        <4> HIDE DEF no
        <4>3. c.n = 2 => <<no>> \in Seq(MqttAnswers(server.published, server.got))
          BY <4>2, OneIn
        <4>4. a.replies = <<no>>
          BY <4>1 DEF no
        <4> QED BY <1>0, <2>1, <4>1, <4>3, <4>4
      <3>7. ASSUME a = M!To(on, <<ack>>) PROVE Good
        <4>1. a.s = on /\ a.replies = <<ack>> /\ 0 \in Nat
          BY <3>7 DEF M!To
        <4>2. c.n = 2 => ack \in MqttAnswers(on.published, on.got)
          BY <3>3
        <4> HIDE DEF on, ack
        <4> QED BY <3>1, <4>1, <4>2, OneIn
      <3>8. ASSUME NEW m \in Posts,
                   a = M!To([on EXCEPT !.published = {m}], <<M!Post(m), ack>>) \/ a = M!To([on EXCEPT !.published = {m}], <<ack, M!Post(m)>>)
            PROVE  Good
        <4> DEFINE post == M!Post(m)
                   s == [on EXCEPT !.published = {m}]
                   A == MqttAnswers({m}, s.got)
        <4>1. a.s = s /\ (a.replies = <<post, ack>> \/ a.replies = <<ack, post>>) /\ 0 \in Nat
          BY <3>8 DEF M!To
        <4>2. post \in A /\ (c.n = 2 => ack \in A)
          BY <3>3, <3>4
        <4>3. s \in MqttServers /\ s.connected /\ s.got = server.got /\ s.published = {m}
          BY <3>2
        <4>4. a.s.published = {m} /\ a.s.got = s.got
          BY <4>1, <4>3
        <4> HIDE DEF post, ack, s, A
        <4>5. c.n = 2 => <<post, ack>> \in Seq(A) /\ <<ack, post>> \in Seq(A)
          BY <4>2
        <4>6. c.n = 2 => a.replies \in Seq(A)
          BY <4>1, <4>5
        <4>7. A = MqttAnswers(a.s.published, a.s.got)
          BY <4>4 DEF A
        <4> QED BY <4>1, <4>3, <4>6, <4>7
      <3>9. Good
        <4>1. \/ a = M!To(server, <<M!Ack("SUBACK", 128, c.n)>>) \/ a = M!To(on, <<ack>>)
              \/ \E m \in Posts : a = M!To([on EXCEPT !.published = {m}], <<M!Post(m), ack>>)
              \/ \E m \in Posts : a = M!To([on EXCEPT !.published = {m}], <<ack, M!Post(m)>>)
          BY <3>5, Zenon DEF M!Accepts
        <4> HIDE DEF Good, on, ack
        <4>2. (a = M!To(server, <<M!Ack("SUBACK", 128, c.n)>>) \/ a = M!To(on, <<ack>>)) => Good
          BY <3>6, <3>7 DEF Good
        <4>3. (\E m \in Posts : a = M!To([on EXCEPT !.published = {m}], <<M!Post(m), ack>>)) => Good
          BY <3>8
        <4>4. (\E m \in Posts : a = M!To([on EXCEPT !.published = {m}], <<ack, M!Post(m)>>)) => Good
          BY <3>8
        <4> QED BY <4>1, <4>2, <4>3, <4>4
      <3> QED BY <2>2, <3>9
    <2>3. CASE c.verb = "PUBLISH"
      <3> DEFINE s == [server EXCEPT !.got = M!Payload]
                 replies == IF c.arg.qos = 1 THEN <<[type |-> "PUBACK", id |-> M!PacketId, re |-> c.n]>> ELSE <<>>
      <3>1. a = M!To(s, replies)
        BY <2>1, <2>3 DEF M!Answers
      <3>2. a.s = s /\ a.replies = replies
        BY <3>1 DEF M!To
      <3>3. /\ s \in MqttServers /\ s.connected = server.connected /\ s.got = M!Payload /\ s.topic = server.topic
            /\ s.published = server.published
        BY <1>0 DEF MqttServers
      <3> HIDE DEF s
      <3>4. c.n = 2 => [type |-> "PUBACK", id |-> M!PacketId, re |-> c.n] \in MqttAnswers(s.published, s.got)
        BY <3>3 DEF MqttAnswers
      <3>5. c.n = 2 => replies \in Seq(MqttAnswers(s.published, s.got))
        BY <3>4, OneIn, Empty
      <3> HIDE DEF replies
      <3> QED BY <2>1, <2>3, <3>2, <3>3, <3>5
    <2>4. CASE c.verb = "DISCONNECT"
      <3>1. a.s = [server EXCEPT !.alive = FALSE]
        <4>1. a = M!To([server EXCEPT !.alive = FALSE], <<>>)
          BY <2>1, <2>4 DEF M!Answers
        <4> QED BY <4>1 DEF M!To
      <3>2. a.s \in MqttServers /\ a.s.connected = server.connected /\ a.s.got = server.got /\ a.s.published = server.published
        BY <1>0, <3>1 DEF MqttServers
      <3> QED BY <2>4, <3>2
    <2>5. c.verb \in {"SUBSCRIBE", "PUBLISH", "DISCONNECT"}
      BY <2>1 DEF MqttFarewells
    <2> QED BY <2>2, <2>3, <2>4, <2>5
  <1> QED BY <1>1, <1>2

\* Of the end of the broker nothing depends.
LEMMA MqttUnchanged ==
    ASSUME MqttInv, server' = [server EXCEPT !.alive = FALSE], UNCHANGED <<pc, result, local, sent, toServer, toClient, inStep>>
    PROVE  MqttInv'
  <1>1. MqttTypes
    BY DEF MqttInv
  <1>2. /\ server' \in MqttServers /\ server'.connected = server.connected /\ server'.got = server.got
        /\ server'.topic = server.topic /\ server'.published = server.published
    BY <1>1 DEF MqttTypes, MqttServers
  <1>3. MqttTypes'
    BY <1>1, <1>2 DEF MqttTypes
  <1>4. MqttStage'
    BY <1>2 DEF MqttInv, MqttStage
  <1>5. M!Whole => M!Whole'
    BY <1>2 DEF M!Whole
  <1> QED BY <1>3, <1>4, <1>5 DEF MqttInv

LEMMA MqttServer == MqttInv /\ M!Server => MqttInv'
  <1> SUFFICES ASSUME MqttInv, M!Server PROVE MqttInv'
    OBVIOUS
  <1>1. /\ server \in MqttServers /\ local \in MqttLocals /\ toServer \in Seq(MqttCommands(server.connected)) /\ inStep = TRUE
        /\ local.qos # 0 => local.op = "publish"
    BY DEF MqttInv, MqttTypes
  <1>2. MqttStage
    BY DEF MqttInv
  <1>3. CASE M!Serve
    <2> DEFINE c == Head(toServer)
    <2>1. toServer # <<>> /\ server.alive
      BY <1>3 DEF M!Serve
    <2>2. PICK a \in M!Answers(server, c.verb, c.arg, c.n) : M!Answer(a.s, a.replies)
      BY <1>3 DEF M!Serve
    <2>3. /\ server' = a.s /\ toServer' = Tail(toServer) /\ toClient' = toClient \o a.replies
          /\ UNCHANGED <<pc, result, local, sent, inStep>>
      BY <2>2 DEF M!Answer
    <2>4. c \in MqttCommands(server.connected) /\ Tail(toServer) \in Seq(MqttCommands(server.connected))
      BY <1>1, <2>1, Reading
    <2>5. /\ a.s \in MqttServers /\ (server.connected => a.s.connected) /\ (server.got = M!Payload => a.s.got = M!Payload)
          /\ c.verb = "CONNECT" =>
                /\ a.s.topic = server.topic
                /\ \E code \in Nat : a.replies = <<[type |-> "CONNACK", code |-> code, re |-> c.n]>> /\ (code = 0 => a.s.connected)
          /\ c.verb = "SUBSCRIBE" /\ c.n = 2 => a.replies \in Seq(MqttAnswers(a.s.published, a.s.got))
          /\ c.verb # "SUBSCRIBE" => a.s.published = server.published
          /\ c.verb = "PUBLISH" =>
                /\ a.s.topic = server.topic
                /\ c.n = 2 => a.replies \in Seq(MqttAnswers(a.s.published, a.s.got))
      BY <2>2, <2>4, MqttAnswered
    <2> HIDE DEF c
    <2>6. MqttCommands(server.connected) \subseteq MqttCommands(a.s.connected)
      BY <2>5 DEF MqttCommands
    <2>7. toServer' \in Seq(MqttCommands(server'.connected))
      BY <2>3, <2>4, <2>6, SeqMonotonic
    <2>8. MqttTypes'
      BY <1>1, <2>3, <2>5, <2>7 DEF MqttTypes
    <2>9. pc # "start" /\ pc # "message"
      BY <1>2, <2>1 DEF MqttStage
    <2>10. CASE pc = "CONNACK"
      <3>1. /\ toServer = <<[verb |-> "CONNECT", arg |-> "", n |-> 1]>> /\ toClient = <<>> /\ sent = 1 /\ ~server.topic
        BY <1>2, <2>1, <2>10 DEF MqttStage
      <3> DEFINE command == [verb |-> "CONNECT", arg |-> "", n |-> 1]
      <3>0. c = command /\ toServer' = <<>>
        <4>1. toServer = <<command>>
          BY <3>1
        <4> HIDE DEF command
        <4> QED BY <2>3, <4>1, One DEF c
      <3>2. c.verb = "CONNECT" /\ c.n = 1 /\ toServer' = <<>>
        BY <3>0
      <3>3. PICK code \in Nat : a.replies = <<[type |-> "CONNACK", code |-> code, re |-> 1]>> /\ (code = 0 => a.s.connected)
        BY <2>5, <3>2
      <3> DEFINE ack == [type |-> "CONNACK", code |-> code, re |-> 1]
      <3>4. ack \in MqttAcks /\ ack \in MqttAcks \cup MqttPings /\ ack.code = code
        BY DEF MqttAcks
      <3>5. a.replies = <<ack>>
        BY <3>3
      <3> HIDE DEF ack
      <3>6. toClient' = <<ack>>
        BY <2>3, <3>1, <3>5, One
      <3>7. /\ toClient' # <<>> /\ Head(toClient') = ack /\ Tail(toClient') = <<>>
            /\ toClient' \in Seq(MqttAcks \cup MqttPings)
        BY <3>4, <3>6, One, OneIn
      <3>8. MqttStage'
        BY <2>3, <2>5, <2>10, <3>1, <3>2, <3>3, <3>4, <3>7, Empty DEF MqttStage
      <3> QED BY <1>1, <2>3, <2>8, <2>10, <3>8 DEF MqttInv
    <2>11. CASE pc = "SUBACK"
      <3>1. /\ toServer = <<[verb |-> "SUBSCRIBE", arg |-> "", n |-> 2]>> /\ sent = 2 /\ server.connected
            /\ toClient \in Seq(MqttPings)
        BY <1>2, <2>1, <2>11 DEF MqttStage
      <3> DEFINE command == [verb |-> "SUBSCRIBE", arg |-> "", n |-> 2]
      <3>0. c = command /\ toServer' = <<>>
        <4>1. toServer = <<command>>
          BY <3>1
        <4> HIDE DEF command
        <4> QED BY <2>3, <4>1, One DEF c
      <3>2. c.verb = "SUBSCRIBE" /\ c.n = 2 /\ toServer' = <<>>
        BY <3>0
      <3>3. toClient \in Seq(MqttAnswers(a.s.published, a.s.got))
        BY <3>1, SeqMonotonic DEF MqttAnswers
      <3>4. a.replies \in Seq(MqttAnswers(a.s.published, a.s.got))
        BY <2>5, <3>2
      <3>5. toClient' \in Seq(MqttAnswers(server'.published, server'.got))
        BY <2>3, <3>3, <3>4, ConcatProperties
      <3>6. local.op = "subscribe"
        BY <1>2, <2>11 DEF MqttStage
      <3>7. MqttStage'
        BY <2>3, <2>5, <2>11, <3>1, <3>2, <3>5, <3>6 DEF MqttStage
      <3> QED BY <1>1, <2>3, <2>8, <2>11, <3>7 DEF MqttInv
    <2>12. CASE pc = "PUBACK"
      <3>1. /\ toServer = <<[verb |-> "PUBLISH", arg |-> [qos |-> 1], n |-> 2]>> /\ sent = 2 /\ server.connected
            /\ toClient \in Seq(MqttAnswers(server.published, server.got)) /\ ~server.topic /\ local.op = "publish"
        BY <1>2, <2>1, <2>12 DEF MqttStage
      <3>2. c.verb = "PUBLISH" /\ c.n = 2 /\ toServer' = <<>>
        BY <2>3, <3>1, One DEF c
      <3>3. MqttAnswers(server.published, server.got) \subseteq MqttAnswers(a.s.published, a.s.got)
        BY <2>5, <3>2 DEF MqttAnswers
      <3>4. toClient \in Seq(MqttAnswers(a.s.published, a.s.got))
        BY <3>1, <3>3, SeqMonotonic
      <3>5. a.replies \in Seq(MqttAnswers(a.s.published, a.s.got))
        BY <2>5, <3>2
      <3>6. toClient' \in Seq(MqttAnswers(server'.published, server'.got))
        BY <2>3, <3>4, <3>5, ConcatProperties
      <3>7. MqttStage'
        BY <2>3, <2>5, <2>12, <3>1, <3>2, <3>6 DEF MqttStage
      <3> QED BY <1>1, <2>3, <2>8, <2>12, <3>7 DEF MqttInv
    <2>13. CASE pc = "done"
      <3>1. result = "ok" => M!Whole /\ toServer \in Seq(MqttFarewells)
        BY <2>13 DEF MqttInv
      <3>2. result = "ok" => c \in MqttFarewells /\ Tail(toServer) \in Seq(MqttFarewells)
        BY <2>1, <3>1, Reading DEF c
      <3>3. result = "ok" => c.verb # "SUBSCRIBE"
        BY <3>2 DEF MqttFarewells
      <3>4. result = "ok" => M!Whole'
        BY <2>3, <2>5, <3>1, <3>3 DEF M!Whole
      <3>5. MqttStage'
        BY <2>3, <2>13 DEF MqttStage
      <3> QED BY <1>1, <2>3, <2>8, <2>13, <3>2, <3>4, <3>5 DEF MqttInv
    <2> QED BY <2>9, <2>10, <2>11, <2>12, <2>13 DEF MqttInv
  <1>4. CASE M!Expire
    <2>1. server' = [server EXCEPT !.alive = FALSE] /\ UNCHANGED <<pc, result, local, sent, toServer, toClient, inStep>>
      BY <1>4 DEF M!Expire
    <2> QED BY <2>1, MqttUnchanged
  <1> QED BY <1>3, <1>4 DEF M!Server

LEMMA MqttFault == MqttInv /\ (M!Publish \/ M!Ping \/ M!Die) => MqttInv'
  <1> SUFFICES ASSUME MqttInv, M!Publish \/ M!Ping \/ M!Die PROVE MqttInv'
    OBVIOUS
  <1>1. /\ server \in MqttServers /\ local \in MqttLocals /\ toServer \in Seq(MqttCommands(server.connected)) /\ inStep = TRUE
        /\ local.qos # 0 => local.op = "publish"
    BY DEF MqttInv, MqttTypes
  <1>2. MqttStage
    BY DEF MqttInv
  <1>3. CASE M!Publish
    <2>1. PICK m \in Posts \ server.published :
            /\ server' = [server EXCEPT !.published = @ \cup {m}]
            /\ toClient' = toClient \o <<M!Post(m)>>
            /\ UNCHANGED <<pc, result, local, sent, toServer, inStep>>
      BY <1>3 DEF M!Publish, M!Send
    <2> DEFINE more == server.published \cup {m}
               A == MqttAnswers(more, server.got)
               post == M!Post(m)
    <2>2. server.topic
      BY <1>3 DEF M!Publish
    <2>3. more \in SUBSET Posts /\ server' = [server EXCEPT !.published = more]
      BY <1>1, <2>1 DEF MqttServers
    <2>4. server.published \subseteq more
      OBVIOUS
    <2>5. post \in A
      BY DEF MqttAnswers, M!Post
    <2> HIDE DEF more, post
    <2>6. /\ server' \in MqttServers /\ server'.connected = server.connected /\ server'.got = server.got
          /\ server'.topic = server.topic /\ server'.published = more
      BY <1>1, <2>3 DEF MqttServers
    <2>7. MqttTypes'
      BY <1>1, <2>1, <2>6 DEF MqttTypes
    <2>8. pc # "start" /\ pc # "CONNACK" /\ pc # "PUBACK" /\ (pc = "SUBACK" => toServer = <<>>)
      BY <1>2, <2>2 DEF MqttStage
    <2>9. pc \in {"SUBACK", "message"} => toClient' \in Seq(MqttAnswers(server'.published, server'.got))
      <3> SUFFICES ASSUME pc \in {"SUBACK", "message"} PROVE toClient' \in Seq(A)
        BY <2>6
      <3>1. toClient \in Seq(MqttAnswers(server.published, server.got))
        BY <1>2 DEF MqttStage
      <3>2. MqttAnswers(server.published, server.got) \subseteq A
        BY <2>4 DEF MqttAnswers
      <3>3. toClient \in Seq(A)
        BY <3>1, <3>2, SeqMonotonic
      <3>4. <<post>> \in Seq(A)
        BY <2>5, OneIn
      <3> HIDE DEF A
      <3> QED BY <2>1, <3>3, <3>4, ConcatProperties DEF post
    <2>10. MqttStage'
      BY <1>2, <2>1, <2>6, <2>8, <2>9 DEF MqttStage
    <2>11. M!Whole => M!Whole'
      BY <2>1, <2>4, <2>6 DEF M!Whole
    <2> QED BY <1>1, <2>1, <2>7, <2>10, <2>11 DEF MqttInv
  <1>4. CASE M!Ping
    <2> DEFINE ping == [type |-> "PINGRESP", re |-> 0]
    <2>1. /\ server' = [server EXCEPT !.pinged = TRUE] /\ toClient' = toClient \o <<ping>>
          /\ UNCHANGED <<pc, result, local, sent, toServer, inStep>> /\ server.connected
      BY <1>4 DEF M!Ping, M!Send
    <2>2. /\ server' \in MqttServers /\ server'.connected = server.connected /\ server'.got = server.got
          /\ server'.topic = server.topic /\ server'.published = server.published
      BY <1>1, <2>1 DEF MqttServers
    <2>3. MqttTypes'
      BY <1>1, <2>1, <2>2 DEF MqttTypes
    <2>4. ping \in MqttPings
      BY DEF MqttPings
    <2> HIDE DEF ping
    <2>5. <<ping>> \in Seq(MqttPings) /\ \A S : <<ping>> \in Seq(MqttPings \cup S) /\ <<ping>> \in Seq(S \cup MqttPings)
      BY <2>4, OneIn
    <2>6. pc # "start"
      BY <1>2, <2>1 DEF MqttStage
    <2>7. CASE pc = "CONNACK"
      <3>1. /\ toServer = <<>> /\ toClient # <<>> /\ toClient \in Seq(MqttAcks \cup MqttPings)
            /\ Head(toClient) \in MqttAcks /\ (Head(toClient).code = 0 => server.connected)
            /\ Tail(toClient) \in Seq(MqttPings) /\ sent = 1 /\ ~server.topic
        BY <1>2, <2>1, <2>7 DEF MqttStage
      <3>2. toClient' # <<>> /\ Head(toClient') = Head(toClient) /\ Tail(toClient') = Tail(toClient) \o <<ping>>
        BY <2>1, <2>5, <3>1, JoinedTail
      <3>3. toClient' \in Seq(MqttAcks \cup MqttPings) /\ Tail(toClient') \in Seq(MqttPings)
        BY <2>1, <2>5, <3>1, <3>2, ConcatProperties
      <3>4. MqttStage'
        BY <2>1, <2>2, <2>7, <3>1, <3>2, <3>3 DEF MqttStage
      <3> QED BY <1>1, <2>1, <2>3, <2>7, <3>4 DEF MqttInv
    <2>8. CASE pc \in {"SUBACK", "message", "PUBACK"}
      <3>1. toClient \in Seq(MqttAnswers(server.published, server.got))
        BY <1>2, <2>8 DEF MqttStage
      <3>2. <<ping>> \in Seq(MqttAnswers(server.published, server.got))
        BY <2>4, OneIn DEF MqttAnswers
      <3>3. toClient' \in Seq(MqttAnswers(server'.published, server'.got))
        BY <2>1, <2>2, <3>1, <3>2, ConcatProperties
      <3>4. toClient \in Seq(MqttPings) => toClient' \in Seq(MqttPings)
        BY <2>1, <2>5, ConcatProperties
      <3>5. MqttStage'
        BY <1>2, <2>1, <2>2, <2>8, <3>3, <3>4 DEF MqttStage
      <3> QED BY <1>1, <2>1, <2>3, <2>8, <3>5 DEF MqttInv
    <2>9. CASE pc = "done"
      <3>1. MqttStage'
        BY <2>1, <2>9 DEF MqttStage
      <3>2. M!Whole => M!Whole'
        BY <2>1, <2>2 DEF M!Whole
      <3> QED BY <1>1, <2>1, <2>3, <2>9, <3>1, <3>2 DEF MqttInv
    <2> QED BY <2>6, <2>7, <2>8, <2>9 DEF MqttInv
  <1>5. CASE M!Die
    BY <1>5, MqttUnchanged DEF M!Die, M!Crash
  <1> QED BY <1>3, <1>4, <1>5

LEMMA MqttSafe == MqttInv => inStep /\ ~server.refused /\ M!Whole
  BY DEF MqttInv, MqttTypes, MqttServers, M!Whole

-----------------------------------------------------------------------------
(* LDAP.                                                                   *)

LdapServers ==
    [alive : BOOLEAN, refused : {FALSE}, bound : BOOLEAN, entries : Seq(Text), left : Seq(Text),
     searching : Nat, referred : BOOLEAN]
LdapLocals == [valid : BOOLEAN, filterOk : BOOLEAN, got : Seq(Text)]

\* Nothing is searched before the bind.
LdapCommands(bound) ==
    [verb : {"BIND", "UNBIND"}, arg : {""}, n : Nat] \cup [verb : IF bound THEN {"SEARCH"} ELSE {}, arg : {""}, n : Nat]

LdapTypes ==
    /\ server \in LdapServers /\ local \in LdapLocals
    /\ toServer \in Seq(LdapCommands(server.bound))
    /\ inStep = TRUE

LdapNotices == [mid : {0}, op : {"extended"}, code : {52}, re : {0}]
LdapBinds(bound) == [mid : {1}, op : {"bind"}, code : IF bound THEN Nat ELSE Nat \ {0}, re : {1}]
LdapReplies ==
    [mid : Nat, op : {"bind", "done", "extended"}, code : Nat, re : Nat]
        \cup [mid : Nat, op : {"reference", "intermediate"}, re : Nat]
        \cup [mid : Nat, op : {"entry"}, dn : Text, re : Nat]

\* A message on its way: the entries behind it are b, the entries from it on a.
LdapStep(a, r, b) ==
    /\ r.mid = r.re
    /\ IF r.op = "entry"
       THEN r.re = 2 /\ a # <<>> /\ r.dn = Head(a) /\ b = Tail(a)
       ELSE b = a /\ (r.op = "done" /\ r.code = 0 => a = <<>>)
LdapSteps == {s \in Seq(Text) \X LdapReplies \X Seq(Text) : LdapStep(s[1], s[2], s[3])}

\* The entries are what was read, what is on its way and what is left.
LdapCourse(got, q, s) ==
    /\ q \in Seq(LdapReplies)
    /\ \E rest \in Seq(Text) : s.entries = got \o rest /\ Course(Seq(Text), LdapSteps, q, rest, s.left)

LdapStage ==
    /\ pc \in {"start", "bind"} => server.left = server.entries /\ local.got = <<>> /\ server.searching = 0
    /\ pc = "start" => sent = 0 /\ toServer = <<>> /\ toClient \in Seq(LdapNotices)
    /\ pc = "bind" =>
        /\ sent = 1
        /\ \/ toServer = <<[verb |-> "BIND", arg |-> "", n |-> 1]>> /\ toClient \in Seq(LdapNotices)
           \/ toServer = <<>> /\ toClient \in Seq(LdapNotices \cup LdapBinds(server.bound))
    /\ pc = "search" =>
        /\ sent = 2 /\ LdapCourse(local.got, toClient, server)
        /\ \/ toServer = <<[verb |-> "SEARCH", arg |-> "", n |-> 2]>> /\ server.searching = 0
           \/ toServer = <<>> /\ server.searching \in {0, 2}

LdapInv ==
    /\ LdapTypes /\ LdapStage
    /\ pc \in {"start", "bind", "search", "done"}
    /\ IF pc = "done" THEN L!Whole ELSE result = "none"

LEMMA LdapInit == L!Init => LdapInv
  <1> SUFFICES ASSUME L!Init PROVE LdapInv
    OBVIOUS
  <1>1. /\ pc = "start" /\ result = "none" /\ sent = 0 /\ inStep = TRUE /\ toServer = <<>> /\ toClient = <<>>
    BY DEF L!Init
  <1>2. PICK entries \in Results :
            server = [alive |-> TRUE, refused |-> FALSE, bound |-> FALSE, entries |-> entries,
                      left |-> entries, searching |-> 0, referred |-> FALSE]
    BY DEF L!Init
  <1>3. PICK valid \in BOOLEAN, filterOk \in BOOLEAN : local = [valid |-> valid, filterOk |-> filterOk, got |-> <<>>]
    BY DEF L!Init
  <1>4. local \in LdapLocals /\ local.got = <<>>
    BY <1>3, Empty DEF LdapLocals
  <1>5. server \in LdapServers /\ server.left = server.entries /\ server.searching = 0
    BY <1>2, ClientsAssumption DEF LdapServers
  <1>6. LdapTypes
    BY <1>1, <1>4, <1>5, Empty DEF LdapTypes
  <1>7. LdapStage
    BY <1>1, <1>4, <1>5, Empty DEF LdapStage
  <1> QED BY <1>1, <1>6, <1>7 DEF LdapInv

LEMMA LdapMove ==
    ASSUME NEW a, NEW r, NEW b, <<a, r, b>> \in LdapSteps
    PROVE  a \in Seq(Text) /\ r \in LdapReplies /\ b \in Seq(Text) /\ LdapStep(a, r, b)
  BY DEF LdapSteps

LEMMA LdapMoves ==
    ASSUME NEW a \in Seq(Text), NEW r \in LdapReplies, NEW b \in Seq(Text), LdapStep(a, r, b)
    PROVE  <<a, r, b>> \in LdapSteps
  BY DEF LdapSteps

LEMMA LdapClient == LdapInv /\ L!Client => LdapInv'
  <1> SUFFICES ASSUME LdapInv, L!Client PROVE LdapInv'
    OBVIOUS
  <1>1. server \in LdapServers /\ local \in LdapLocals /\ toServer \in Seq(LdapCommands(server.bound)) /\ inStep = TRUE
    BY DEF LdapInv, LdapTypes
  <1>2. LdapStage
    BY DEF LdapInv
  <1>3. ASSUME L!Return("error"), UNCHANGED <<server, inStep>>, local' \in LdapLocals PROVE LdapInv'
    <2>1. pc' = "done" /\ result' = "error" /\ UNCHANGED <<sent, toServer>>
      BY <1>3 DEF L!Return
    <2>2. LdapTypes'
      BY <1>1, <1>3, <2>1 DEF LdapTypes
    <2>3. L!Whole'
      BY <2>1 DEF L!Whole
    <2> QED BY <2>1, <2>2, <2>3 DEF LdapInv, LdapStage
  <1>4. ASSUME NEW verb \in {"BIND", "SEARCH"}, NEW p, verb = "SEARCH" => server.bound, sent \in Nat,
               L!Ask(verb, "", p), UNCHANGED <<server, local>>, inStep' = TRUE, toServer = <<>>
        PROVE  /\ LdapTypes' /\ pc' = p /\ sent' = sent + 1 /\ result' = result
               /\ toServer' = <<[verb |-> verb, arg |-> "", n |-> sent + 1]>>
    <2> DEFINE command == [verb |-> verb, arg |-> "", n |-> sent + 1]
    <2>1. command \in LdapCommands(server.bound)
      <3>0. sent \in Nat
        BY <1>4
      <3>1. sent + 1 \in Nat
        BY <3>0
      <3> QED BY <1>4, <3>1 DEF LdapCommands
    <2>2. pc' = p /\ sent' = sent + 1 /\ toServer' = Append(<<>>, command) /\ UNCHANGED result
      BY <1>4 DEF L!Ask
    <2> HIDE DEF command
    <2>3. toServer' = <<command>>
      BY <2>2, One
    <2>4. toServer' \in Seq(LdapCommands(server.bound))
      BY <2>1, <2>3, OneIn
    <2>5. LdapTypes'
      BY <1>1, <1>4, <2>4 DEF LdapTypes
    <2> QED BY <2>2, <2>3, <2>5 DEF command
  <1>5. CASE L!Begin
    <2>1. pc = "start" /\ sent = 0 /\ toServer = <<>> /\ toClient \in Seq(LdapNotices) /\ result = "none"
          /\ UNCHANGED <<local, toClient, server, inStep>> /\ server.left = server.entries /\ local.got = <<>> /\ server.searching = 0
      BY <1>2, <1>5 DEF L!Begin, LdapStage, LdapInv
    <2>2. CASE L!Ask("BIND", "", "bind")
      <3>1. /\ LdapTypes' /\ pc' = "bind" /\ sent' = sent + 1 /\ result' = result
            /\ toServer' = <<[verb |-> "BIND", arg |-> "", n |-> sent + 1]>>
        BY <1>1, <1>4, <2>1, <2>2
      <3>2. sent' = 1 /\ toServer' = <<[verb |-> "BIND", arg |-> "", n |-> 1]>>
        <4>1. sent + 1 = 1
          BY <2>1
        <4> QED BY <3>1, <4>1
      <3>3. LdapStage'
        BY <2>1, <3>1, <3>2 DEF LdapStage
      <3> QED BY <2>1, <3>1, <3>3 DEF LdapInv
    <2> QED BY <1>1, <1>3, <1>5, <2>1, <2>2 DEF L!Begin
  <1> DEFINE r == Head(toClient)
  <1>6. CASE toClient # <<>> /\ L!Bound(r) /\ UNCHANGED <<server, data>>
    <2>1. pc = "bind" /\ UNCHANGED <<local, server>>
      BY <1>6 DEF L!Bound
    <2>2. /\ sent = 1 /\ result = "none" /\ server.left = server.entries /\ local.got = <<>> /\ server.searching = 0
          /\ \/ toServer = <<[verb |-> "BIND", arg |-> "", n |-> 1]>> /\ toClient \in Seq(LdapNotices)
             \/ toServer = <<>> /\ toClient \in Seq(LdapNotices \cup LdapBinds(server.bound))
      BY <1>2, <2>1 DEF LdapStage, LdapInv
    <2>3. CASE r.op = "bind" /\ r.code = 0
      <3> DEFINE S == LdapNotices \cup LdapBinds(server.bound)
      <3>1. toServer = <<>> /\ toClient \in Seq(S)
        <4>1. toClient \in Seq(LdapNotices) => r \in LdapNotices
          BY <1>6, Reading
        <4>2. toClient \in Seq(LdapNotices) => r.op = "extended"
          BY <4>1 DEF LdapNotices
        <4> QED BY <2>2, <2>3, <4>2
      <3>2. r \in S /\ Tail(toClient) \in Seq(S)
        <4> HIDE DEF S
        <4> QED BY <1>6, <3>1, Reading DEF r
      <3>3. r.re = 1 /\ server.bound
        BY <2>3, <3>2 DEF LdapNotices, LdapBinds
      <3>4. toClient' = Tail(toClient) /\ inStep' = TRUE
        BY <1>1, <1>6, <2>2, <2>3, <3>3 DEF L!Bound, L!Take
      <3>5. CASE L!Ask("SEARCH", "", "search")
        <4>1. /\ LdapTypes' /\ pc' = "search" /\ sent' = sent + 1 /\ result' = result
              /\ toServer' = <<[verb |-> "SEARCH", arg |-> "", n |-> sent + 1]>>
          BY <1>1, <1>4, <2>1, <2>2, <3>1, <3>3, <3>4, <3>5
        <4>2. sent' = 2 /\ toServer' = <<[verb |-> "SEARCH", arg |-> "", n |-> 2]>>
          <5>0. sent = 1
            BY <2>2
          <5>1. sent + 1 = 2
            BY <5>0
          <5> QED BY <4>1, <5>1
        <4> DEFINE e == server.entries
        <4>3. e \in Seq(Text) /\ server.left = e
          BY <1>1, <2>2 DEF LdapServers
        <4>4. S \subseteq LdapReplies
          BY DEF LdapNotices, LdapBinds, LdapReplies
        <4>5. ASSUME NEW x \in S PROVE <<e, x, e>> \in LdapSteps
          <5>1. x.mid = x.re /\ x.op # "entry" /\ x.op # "done"
            BY <4>5 DEF LdapNotices, LdapBinds
          <5>2. LdapStep(e, x, e)
            BY <5>1 DEF LdapStep
          <5> QED BY <4>3, <4>4, <5>2, LdapMoves
        <4>6. Course(Seq(Text), LdapSteps, Tail(toClient), e, e)
          <5> HIDE DEF S, e
          <5> QED BY <3>2, <4>3, <4>5, CourseIdle
        <4>7. Tail(toClient) \in Seq(LdapReplies)
          <5> HIDE DEF S
          <5> QED BY <3>2, <4>4, SeqMonotonic
        <4>8. LdapCourse(local.got, Tail(toClient), server)
          <5>1. server.entries = local.got \o e
            BY <2>2, <4>3, AllRead
          <5> QED BY <4>3, <4>6, <4>7, <5>1 DEF LdapCourse
        <4>9. LdapStage'
          BY <2>1, <2>2, <3>4, <4>1, <4>2, <4>8 DEF LdapStage
        <4> QED BY <2>2, <4>1, <4>9 DEF LdapInv
      <3>6. L!Return("error") \/ L!Ask("SEARCH", "", "search")
        BY <1>6 DEF L!Bound
      <3> QED BY <1>1, <1>3, <2>1, <3>4, <3>5, <3>6
    <2>4. CASE ~(r.op = "bind" /\ r.code = 0)
      <3>1. L!Return("error") /\ UNCHANGED inStep
        BY <1>6, <2>4 DEF L!Bound, L!Skip
      <3> QED BY <1>1, <1>3, <2>1, <3>1
    <2> QED BY <2>3, <2>4
  <1>7. CASE toClient # <<>> /\ L!Searched(r) /\ UNCHANGED <<server, data>>
    <2>1. /\ pc = "search" /\ result = "none" /\ sent = 2 /\ LdapCourse(local.got, toClient, server)
          /\ \/ toServer = <<[verb |-> "SEARCH", arg |-> "", n |-> 2]>> /\ server.searching = 0
             \/ toServer = <<>> /\ server.searching \in {0, 2}
      BY <1>2, <1>7 DEF L!Searched, LdapStage, LdapInv
    <2>2. toClient \in Seq(LdapReplies)
      BY <2>1 DEF LdapCourse
    <2>3. PICK rest \in Seq(Text) : /\ server.entries = local.got \o rest
                                    /\ Course(Seq(Text), LdapSteps, toClient, rest, server.left)
      BY <2>1 DEF LdapCourse
    <2>4. PICK m \in Seq(Text) : <<rest, r, m>> \in LdapSteps /\ Course(Seq(Text), LdapSteps, Tail(toClient), m, server.left)
      <3>1. toClient # <<>>
        BY <1>7
      <3> QED BY <2>2, <2>3, <3>1, CourseRead
    <2>5. LdapStep(rest, r, m) /\ r.mid = r.re
      BY <2>4, LdapMove DEF LdapStep
    <2>6. Tail(toClient) \in Seq(LdapReplies)
      BY <1>7, <2>2, Reading
    <2>7. local.got \in Seq(Text)
      BY <1>1 DEF LdapLocals
    <2>8. ASSUME toClient' = Tail(toClient), inStep' = TRUE, L!Stay, local' \in LdapLocals, server.entries = local'.got \o m
          PROVE  LdapInv'
      <3>1. LdapTypes'
        BY <1>1, <1>7, <2>8 DEF LdapTypes, L!Stay
      <3>2. LdapCourse(local.got, toClient, server)'
        BY <1>7, <2>4, <2>6, <2>8 DEF LdapCourse
      <3>3. LdapStage'
        BY <1>7, <2>1, <2>8, <3>2 DEF LdapStage, L!Stay
      <3> QED BY <2>1, <2>8, <3>1, <3>3 DEF LdapInv, L!Stay
    <2>9. CASE r.op = "entry" /\ L!OfSearch(r) /\ L!Take(r) /\ L!Stay /\ local' = [local EXCEPT !.got = Append(@, L!LdifOf(r))]
      <3>1. rest # <<>> /\ r.dn = Head(rest) /\ m = Tail(rest)
        BY <2>5, <2>9 DEF LdapStep
      <3> DEFINE more == Append(local.got, r.dn)
      <3>2. more \in Seq(Text) /\ server.entries = more \o m
        <4>1. Append(local.got, Head(rest)) \in Seq(Text) /\ Append(local.got, Head(rest)) \o Tail(rest) = local.got \o rest
          <5> HIDE DEF more
          <5>1. local.got \in Seq(Text) /\ rest \in Seq(Text) /\ rest # <<>>
            BY <2>3, <2>7, <3>1
          <5> QED BY ONLY <5>1, ReadOn
        <4>2. more = Append(local.got, Head(rest))
          BY <3>1
        <4> HIDE DEF more
        <4> QED BY <2>3, <3>1, <4>1, <4>2
      <3>3. local' = [local EXCEPT !.got = more]
        BY <2>9 DEF L!LdifOf
      <3> HIDE DEF more
      <3>4. local' \in LdapLocals /\ local'.got = more
        BY <1>1, <3>2, <3>3 DEF LdapLocals
      <3>5. toClient' = Tail(toClient) /\ inStep' = TRUE
        BY <1>1, <2>1, <2>5, <2>9 DEF L!Take, L!OfSearch
      <3> QED BY <2>8, <2>9, <3>2, <3>4, <3>5
    <2>10. CASE r.op # "entry" /\ L!Stay /\ UNCHANGED local /\ (L!Skip(r) \/ (L!OfSearch(r) /\ L!Take(r)))
      <3>1. m = rest
        BY <2>5, <2>10 DEF LdapStep
      <3>2. toClient' = Tail(toClient) /\ inStep' = TRUE
        BY <1>1, <2>1, <2>5, <2>10 DEF L!Take, L!OfSearch, L!Skip
      <3> QED BY <1>1, <2>3, <2>8, <2>10, <3>1, <3>2
    <2>11. CASE r.op = "entry" /\ ~L!OfSearch(r)
      BY <2>1, <2>5, <2>11 DEF LdapStep, L!OfSearch
    <2>12. CASE L!OfSearch(r) /\ r.op = "done" /\ L!Take(r) /\ UNCHANGED local /\ r.code = 0 /\ L!Unbind
      <3>1. rest = <<>>
        BY <2>5, <2>12 DEF LdapStep
      <3>2. server.entries = local.got
        BY <2>3, <2>7, <3>1, AllRead
      <3>3. toClient' = Tail(toClient) /\ inStep' = TRUE
        BY <1>1, <2>1, <2>5, <2>12 DEF L!Take, L!OfSearch
      <3> DEFINE command == [verb |-> "UNBIND", arg |-> "", n |-> sent + 1]
      <3>4. command \in LdapCommands(server.bound)
        <4>0. sent = 2
          BY <2>1
        <4>1. sent + 1 \in Nat
          BY <4>0
        <4> QED BY <4>1 DEF LdapCommands
      <3>5. pc' = "done" /\ result' = "ok" /\ sent' = sent + 1 /\ toServer' = Append(toServer, command)
        BY <2>12 DEF L!Unbind
      <3> HIDE DEF command
      <3>6. toServer' \in Seq(LdapCommands(server.bound))
        BY <1>1, <3>4, <3>5, AppendProperties
      <3>7. LdapTypes'
        BY <1>1, <1>7, <2>12, <3>3, <3>6 DEF LdapTypes
      <3>8. L!Whole'
        BY <1>7, <2>12, <3>2 DEF L!Whole
      <3> QED BY <3>5, <3>7, <3>8 DEF LdapInv, LdapStage
    <2>13. CASE L!Return("error") /\ UNCHANGED local /\ (L!Skip(r) \/ (L!OfSearch(r) /\ L!Take(r)))
      <3>1. inStep' = TRUE
        BY <1>1, <2>1, <2>5, <2>13 DEF L!Take, L!OfSearch, L!Skip
      <3> QED BY <1>1, <1>3, <1>7, <2>13, <3>1
    <2> QED BY <1>7, <2>9, <2>10, <2>11, <2>12, <2>13 DEF L!Searched
  <1>8. CASE L!Broken \/ (pc # "start" /\ L!Timeout)
    <2>1. L!Return("error") /\ UNCHANGED <<local, server, inStep>>
      BY <1>8 DEF L!Broken, L!Timeout, LdapInv
    <2> QED BY <1>1, <1>3, <2>1
  <1>9. L!Receive => toClient # <<>> /\ (L!Bound(r) \/ L!Searched(r)) /\ UNCHANGED <<server, data>>
    BY DEF L!Receive
  <1> HIDE DEF r
  <1> QED BY <1>5, <1>6, <1>7, <1>8, <1>9 DEF L!Client

\* A change of the server that its messages do not tell.
LEMMA LdapUnchanged ==
    ASSUME LdapInv, server' \in LdapServers, server'.bound = server.bound, server'.entries = server.entries,
           server'.left = server.left, server'.searching = server.searching,
           UNCHANGED <<pc, result, local, sent, toServer, inStep>>,
           pc \in {"start", "bind"} => toClient' = toClient \/ toClient' \in Seq(LdapNotices)
                \/ toClient' = toClient \o <<[mid |-> 0, op |-> "extended", code |-> 52, re |-> 0]>>,
           pc = "search" => LdapCourse(local.got, toClient', server')
    PROVE  LdapInv'
  <1> DEFINE notice == [mid |-> 0, op |-> "extended", code |-> 52, re |-> 0]
  <1>1. LdapTypes /\ LdapStage
    BY DEF LdapInv
  <1>2. LdapTypes'
    BY <1>1 DEF LdapTypes
  <1>3. ASSUME NEW S, LdapNotices \subseteq S, toClient \in Seq(S), pc \in {"start", "bind"} PROVE toClient' \in Seq(S)
    <2>1. notice \in S
      BY <1>3 DEF LdapNotices
    <2>2. toClient' = toClient \/ toClient' \in Seq(LdapNotices) \/ toClient' = toClient \o <<notice>>
      BY <1>3
    <2> HIDE DEF notice
    <2>3. <<notice>> \in Seq(S)
      BY <2>1, OneIn
    <2>4. toClient \o <<notice>> \in Seq(S)
      BY <1>3, <2>3, ConcatProperties
    <2>5. toClient' \in Seq(LdapNotices) => toClient' \in Seq(S)
      BY <1>3, SeqMonotonic
    <2> QED BY <1>3, <2>2, <2>4, <2>5
  <1>4. LdapNotices \subseteq LdapNotices /\ LdapNotices \subseteq LdapNotices \cup LdapBinds(server.bound)
    OBVIOUS
  <1>5. CASE pc = "start"
    <2>1. toClient' \in Seq(LdapNotices)
      BY <1>1, <1>3, <1>4, <1>5 DEF LdapStage
    <2>2. LdapStage'
      BY <1>1, <1>5, <2>1 DEF LdapStage
    <2> QED BY <1>2, <1>5, <2>2 DEF LdapInv
  <1>6. CASE pc = "bind"
    <2>1. /\ toClient \in Seq(LdapNotices) => toClient' \in Seq(LdapNotices)
          /\ toClient \in Seq(LdapNotices \cup LdapBinds(server.bound))
                => toClient' \in Seq(LdapNotices \cup LdapBinds(server.bound))
      BY <1>3, <1>4, <1>6
    <2>2. LdapStage'
      BY <1>1, <1>6, <2>1 DEF LdapStage
    <2> QED BY <1>2, <1>6, <2>2 DEF LdapInv
  <1>7. CASE pc = "search"
    <2>1. LdapStage'
      BY <1>1, <1>7 DEF LdapStage
    <2> QED BY <1>2, <1>7, <2>1 DEF LdapInv
  <1>8. CASE pc = "done"
    <2>1. LdapStage'
      BY <1>8 DEF LdapStage
    <2>2. L!Whole'
      BY <1>8 DEF L!Whole, LdapInv
    <2> QED BY <1>2, <1>8, <2>1, <2>2 DEF LdapInv
  <1> QED BY <1>5, <1>6, <1>7, <1>8 DEF LdapInv

\* One more message of the search, or what is none of it.
LEMMA LdapSends ==
    ASSUME NEW got \in Seq(Text), NEW q, NEW s, NEW x \in LdapReplies, NEW t, s.entries = t.entries,
           LdapCourse(got, q, s), t.left \in Seq(Text), LdapStep(s.left, x, t.left), s.left \in Seq(Text)
    PROVE  LdapCourse(got, q \o <<x>>, t)
  <1>1. PICK rest \in Seq(Text) : s.entries = got \o rest /\ Course(Seq(Text), LdapSteps, q, rest, s.left)
    BY DEF LdapCourse
  <1>2. q \in Seq(LdapReplies)
    BY DEF LdapCourse
  <1>3. <<s.left, x, t.left>> \in LdapSteps
    BY LdapMoves
  <1>4. Course(Seq(Text), LdapSteps, q \o <<x>>, rest, t.left)
    BY <1>1, <1>2, <1>3, CourseSent
  <1>5. q \o <<x>> \in Seq(LdapReplies)
    BY <1>2, OneIn, ConcatProperties
  <1> QED BY <1>1, <1>4, <1>5 DEF LdapCourse

LEMMA LdapServer == LdapInv /\ L!Server => LdapInv'
  <1> SUFFICES ASSUME LdapInv, L!Server PROVE LdapInv'
    OBVIOUS
  <1>1. server \in LdapServers /\ local \in LdapLocals /\ toServer \in Seq(LdapCommands(server.bound)) /\ inStep = TRUE
    BY DEF LdapInv, LdapTypes
  <1>2. LdapStage
    BY DEF LdapInv
  <1>3. CASE L!Serve
    <2> DEFINE c == Head(toServer)
    <2>1. toServer # <<>> /\ server.searching = 0
      BY <1>3 DEF L!Serve
    <2>2. PICK a \in L!Answers(server, c) : L!Answer(a.s, a.replies)
      BY <1>3 DEF L!Serve
    <2>3. /\ server' = a.s /\ toServer' = Tail(toServer) /\ toClient' = toClient \o a.replies
          /\ UNCHANGED <<pc, result, local, sent, inStep>>
      BY <2>2 DEF L!Answer
    <2>4. c \in LdapCommands(server.bound) /\ Tail(toServer) \in Seq(LdapCommands(server.bound))
      BY <1>1, <2>1, Reading
    <2>5. /\ a.s \in LdapServers /\ (server.bound => a.s.bound) /\ a.s.entries = server.entries /\ a.s.left = server.left
          /\ a.s.searching = server.searching \/ (a.s.searching = c.n /\ c.verb = "SEARCH")
          /\ c.verb = "BIND" => \E code \in Nat :
                a.replies = <<[mid |-> c.n, op |-> "bind", code |-> code, re |-> c.n]>> /\ (code = 0 => a.s.bound)
          /\ c.verb = "SEARCH" => a.replies = <<>>
      <3>1. c.n \in Nat /\ c.verb \in {"BIND", "SEARCH", "UNBIND"} /\ (c.verb = "SEARCH" => server.bound)
        BY <2>4 DEF LdapCommands
      <3> HIDE DEF c
      <3>2. CASE c.verb = "BIND"
        <4> DEFINE s == [server EXCEPT !.bound = TRUE]
        <4>1. a \in {L!To(s, <<L!Coded("bind", 0, c.n)>>), L!To(server, <<L!Coded("bind", 49, c.n)>>)}
          BY <2>2, <3>2 DEF L!Answers
        <4>2. s \in LdapServers /\ s.bound /\ s.entries = server.entries /\ s.left = server.left /\ s.searching = server.searching
          BY <1>1 DEF LdapServers
        <4> HIDE DEF s
        <4>3. CASE a = L!To(s, <<L!Coded("bind", 0, c.n)>>)
          <5>1. a.s = s /\ a.replies = <<[mid |-> c.n, op |-> "bind", code |-> 0, re |-> c.n]>> /\ 0 \in Nat
            BY <4>3 DEF L!To, L!Coded
          <5> QED BY <3>2, <4>2, <5>1
        <4>4. CASE a = L!To(server, <<L!Coded("bind", 49, c.n)>>)
          <5>1. a.s = server /\ a.replies = <<[mid |-> c.n, op |-> "bind", code |-> 49, re |-> c.n]>>
            BY <4>4 DEF L!To, L!Coded
          <5>2. 49 \in Nat /\ ~(49 = 0)
            OBVIOUS
          <5>3. \E code \in Nat :
                a.replies = <<[mid |-> c.n, op |-> "bind", code |-> code, re |-> c.n]>> /\ (code = 0 => a.s.bound)
            <6> WITNESS 49 \in Nat
            <6> QED BY <5>1, <5>2
          <5>4. a.s \in LdapServers /\ a.s = server
            BY <1>1, <5>1
          <5> QED BY <3>2, <5>3, <5>4
        <4> QED BY <4>1, <4>3, <4>4
      <3>3. CASE c.verb = "SEARCH"
        <4> DEFINE s == [server EXCEPT !.searching = c.n]
        <4>1. a = L!To(s, <<>>)
          BY <2>2, <3>1, <3>3 DEF L!Answers
        <4>2. s \in LdapServers /\ s.bound /\ s.entries = server.entries /\ s.left = server.left /\ s.searching = c.n
          BY <1>1, <3>1, <3>3 DEF LdapServers
        <4> HIDE DEF s
        <4> QED BY <3>3, <4>1, <4>2 DEF L!To
      <3>4. CASE c.verb = "UNBIND"
        <4> DEFINE s == [server EXCEPT !.alive = FALSE]
        <4>1. a = L!To(s, <<>>)
          BY <2>2, <3>1, <3>4 DEF L!Answers
        <4>2. /\ s \in LdapServers /\ s.bound = server.bound /\ s.entries = server.entries /\ s.left = server.left
              /\ s.searching = server.searching
          BY <1>1 DEF LdapServers
        <4> HIDE DEF s
        <4> QED BY <3>4, <4>1, <4>2 DEF L!To
      <3> QED BY <3>1, <3>2, <3>3, <3>4
    <2> HIDE DEF c
    <2>6. LdapCommands(server.bound) \subseteq LdapCommands(a.s.bound)
      BY <2>5 DEF LdapCommands
    <2>7. toServer' \in Seq(LdapCommands(server'.bound))
      BY <2>3, <2>4, <2>6, SeqMonotonic
    <2>8. LdapTypes'
      BY <1>1, <2>3, <2>5, <2>7 DEF LdapTypes
    <2>9. pc # "start"
      BY <1>2, <2>1 DEF LdapStage
    <2>10. CASE pc = "bind"
      <3> DEFINE command == [verb |-> "BIND", arg |-> "", n |-> 1]
      <3>1. sent = 1 /\ toServer = <<command>> /\ toClient \in Seq(LdapNotices)
            /\ server.left = server.entries /\ local.got = <<>> /\ result = "none"
        BY <1>2, <2>1, <2>10 DEF LdapStage, LdapInv
      <3>2. c = command /\ toServer' = <<>>
        <4> HIDE DEF command
        <4> QED BY <2>3, <3>1, One DEF c
      <3>3. c.verb = "BIND" /\ c.n = 1
        BY <3>2
      <3>4. PICK code \in Nat : /\ a.replies = <<[mid |-> 1, op |-> "bind", code |-> code, re |-> 1]>>
                                /\ code = 0 => a.s.bound
        BY <2>5, <3>3
      <3> DEFINE reply == [mid |-> 1, op |-> "bind", code |-> code, re |-> 1]
                 S == LdapNotices \cup LdapBinds(a.s.bound)
      <3>5. reply \in S
        BY <3>4 DEF LdapBinds
      <3>6. toClient' = toClient \o <<reply>>
        BY <2>3, <3>4
      <3>7. toClient \in Seq(S)
        BY <3>1, SeqMonotonic
      <3> HIDE DEF reply, S
      <3>8. toClient' \in Seq(S)
        BY <3>5, <3>6, <3>7, OneIn, ConcatProperties
      <3>9. a.s.searching = 0
        BY <2>1, <2>5, <3>3
      <3>10. LdapStage'
        BY <2>3, <2>5, <2>10, <3>1, <3>2, <3>8, <3>9 DEF LdapStage, S
      <3> QED BY <2>3, <2>8, <2>10, <3>1, <3>10 DEF LdapInv
    <2>11. CASE pc = "search"
      <3> DEFINE command == [verb |-> "SEARCH", arg |-> "", n |-> 2]
      <3>1. sent = 2 /\ toServer = <<command>> /\ LdapCourse(local.got, toClient, server) /\ result = "none"
        BY <1>2, <2>1, <2>11 DEF LdapStage, LdapInv
      <3>2. c = command /\ toServer' = <<>>
        <4> HIDE DEF command
        <4> QED BY <2>3, <3>1, One DEF c
      <3>3. c.verb = "SEARCH" /\ c.n = 2
        BY <3>2
      <3>4. toClient \in Seq(LdapReplies)
        BY <3>1 DEF LdapCourse
      <3>5. toClient' = toClient /\ server'.searching \in {0, 2}
        BY <2>1, <2>3, <2>5, <3>3, <3>4, AllRead
      <3>6. LdapCourse(local.got, toClient', server')
        BY <2>3, <2>5, <3>1, <3>5 DEF LdapCourse
      <3>7. LdapStage'
        BY <2>3, <2>11, <3>1, <3>2, <3>5, <3>6 DEF LdapStage
      <3> QED BY <2>3, <2>8, <2>11, <3>1, <3>7 DEF LdapInv
    <2>12. CASE pc = "done"
      <3>1. L!Whole /\ L!Whole'
        BY <2>3, <2>5, <2>12 DEF L!Whole, LdapInv
      <3> QED BY <2>3, <2>8, <2>12, <3>1 DEF LdapInv, LdapStage
    <2> QED BY <2>9, <2>10, <2>11, <2>12 DEF LdapInv
  <1>4. CASE L!Result
    <2>1. server.searching # 0 /\ UNCHANGED data
      BY <1>4 DEF L!Result
    <2>2. pc # "start" /\ pc # "bind"
      BY <1>2, <2>1 DEF LdapStage
    <2> DEFINE n == server.searching
    <2>3. n \in Nat /\ local.got \in Seq(Text) /\ server.left \in Seq(Text) /\ server.bound \in BOOLEAN
      BY <1>1 DEF LdapServers, LdapLocals
    <2>4. pc = "search" => n = 2 /\ LdapCourse(local.got, toClient, server) /\ sent = 2 /\ toServer = <<>>
      BY <1>2, <2>1 DEF LdapStage
    <2> HIDE DEF n
    <2>5. ASSUME NEW x, x \in LdapReplies, toClient' = toClient \o <<x>>, UNCHANGED <<pc, result, local, sent, toServer, inStep>>,
                 server' \in LdapServers, server'.bound = server.bound, server'.entries = server.entries,
                 server'.searching \in {n, 0}, pc = "search" => LdapStep(server.left, x, server'.left)
          PROVE  LdapInv'
      <3>1. LdapTypes'
        BY <1>1, <2>5 DEF LdapTypes
      <3>2. server'.left \in Seq(Text)
        BY <2>5 DEF LdapServers
      <3>3. pc = "search" => LdapCourse(local.got, toClient', server')
        BY <2>3, <2>4, <2>5, <3>2, LdapSends
      <3>4. LdapStage'
        BY <2>2, <2>4, <2>5, <3>3 DEF LdapStage
      <3>5. pc = "done" => L!Whole'
        BY <2>5 DEF L!Whole, LdapInv
      <3> QED BY <2>5, <3>1, <3>4, <3>5 DEF LdapInv
    <2>6. CASE /\ server.left # <<>>
               /\ server' = [server EXCEPT !.left = Tail(@)]
               /\ L!Send(<<L!EntryOf(Head(server.left), n)>>)
      <3> DEFINE t == Tail(server.left)
                 dn == Head(server.left)
                 x == [mid |-> n, op |-> "entry", dn |-> dn, re |-> n]
      <3>1. t \in Seq(Text) /\ dn \in Text
        BY <2>3, <2>6, Reading
      <3>2. server' = [server EXCEPT !.left = t]
        BY <2>6
      <3>3. toClient' = toClient \o <<x>> /\ UNCHANGED <<pc, result, local, sent, toServer, inStep>>
        BY <2>6 DEF L!Send, L!EntryOf
      <3>4. pc = "search" => LdapStep(server.left, x, t)
        BY <2>4, <2>6 DEF LdapStep
      <3> HIDE DEF t, dn
      <3>5. /\ server' \in LdapServers /\ server'.bound = server.bound /\ server'.entries = server.entries
            /\ server'.searching = server.searching /\ server'.left = t
        BY <1>1, <3>1, <3>2 DEF LdapServers
      <3>6. x \in LdapReplies
        BY <2>3, <3>1 DEF LdapReplies
      <3> HIDE DEF x
      <3> QED BY <2>5, <3>3, <3>4, <3>5, <3>6 DEF n
    <2>7. CASE /\ server' = [server EXCEPT !.referred = TRUE]
               /\ \E op \in {"reference", "intermediate"} : L!Send(<<L!Plain(op, n)>>)
      <3>1. PICK op \in {"reference", "intermediate"} : L!Send(<<L!Plain(op, n)>>)
        BY <2>7
      <3> DEFINE x == [mid |-> n, op |-> op, re |-> n]
      <3>2. toClient' = toClient \o <<x>> /\ UNCHANGED <<pc, result, local, sent, toServer, inStep>>
        BY <3>1 DEF L!Send, L!Plain
      <3>3. LdapStep(server.left, x, server.left)
        BY DEF LdapStep
      <3>4. /\ server' \in LdapServers /\ server'.bound = server.bound /\ server'.entries = server.entries
            /\ server'.searching = server.searching /\ server'.left = server.left
        BY <1>1, <2>7 DEF LdapServers
      <3>5. x \in LdapReplies
        BY <2>3 DEF LdapReplies
      <3> HIDE DEF x
      <3> QED BY <2>5, <3>2, <3>3, <3>4, <3>5 DEF n
    <2>8. CASE /\ server' = [server EXCEPT !.searching = 0]
               /\ \E code \in {4} \cup (IF server.left = <<>> THEN {0, 32} ELSE {}) : L!Send(<<L!Coded("done", code, n)>>)
      <3>1. PICK code \in {4} \cup (IF server.left = <<>> THEN {0, 32} ELSE {}) : L!Send(<<L!Coded("done", code, n)>>)
        BY <2>8
      <3> DEFINE x == [mid |-> n, op |-> "done", code |-> code, re |-> n]
      <3>2. toClient' = toClient \o <<x>> /\ UNCHANGED <<pc, result, local, sent, toServer, inStep>>
        BY <3>1 DEF L!Send, L!Coded
      <3>3. code \in Nat /\ (code = 0 => server.left = <<>>)
        OBVIOUS
      <3>4. LdapStep(server.left, x, server.left)
        BY <3>3 DEF LdapStep
      <3>5. /\ server' \in LdapServers /\ server'.bound = server.bound /\ server'.entries = server.entries
            /\ server'.searching = 0 /\ server'.left = server.left
        BY <1>1, <2>8 DEF LdapServers
      <3>6. x \in LdapReplies
        BY <2>3, <3>3 DEF LdapReplies
      <3> HIDE DEF x
      <3> QED BY <2>5, <3>2, <3>4, <3>5, <3>6 DEF n
    <2> QED BY <1>4, <2>6, <2>7, <2>8 DEF L!Result, n
  <1> QED BY <1>3, <1>4 DEF L!Server

LEMMA LdapFault == LdapInv /\ (L!Notice \/ L!Die) => LdapInv'
  <1> SUFFICES ASSUME LdapInv, L!Notice \/ L!Die PROVE LdapInv'
    OBVIOUS
  <1> DEFINE notice == [mid |-> 0, op |-> "extended", code |-> 52, re |-> 0]
  <1>1. server \in LdapServers /\ local \in LdapLocals
    BY DEF LdapInv, LdapTypes
  <1>2. /\ server' = [server EXCEPT !.alive = FALSE] /\ UNCHANGED <<pc, result, local, sent, toServer, inStep>>
        /\ toClient' = toClient \/ toClient' = toClient \o <<notice>>
    BY DEF L!Notice, L!Die, L!Crash, L!Send, L!Coded
  <1>3. /\ server' \in LdapServers /\ server'.bound = server.bound /\ server'.entries = server.entries
        /\ server'.left = server.left /\ server'.searching = server.searching
    BY <1>1, <1>2 DEF LdapServers
  <1>4. ASSUME pc = "search" PROVE LdapCourse(local.got, toClient', server')
    <2>1. LdapCourse(local.got, toClient, server)
      BY <1>4 DEF LdapInv, LdapStage
    <2>2. CASE toClient' = toClient
      BY <1>3, <2>1, <2>2 DEF LdapCourse
    <2>3. CASE toClient' = toClient \o <<notice>>
      <3>1. notice \in LdapReplies
        BY DEF LdapReplies
      <3>2. LdapStep(server.left, notice, server'.left)
        BY <1>3 DEF LdapStep
      <3>3. local.got \in Seq(Text) /\ server.left \in Seq(Text)
        BY <1>1 DEF LdapLocals, LdapServers
      <3> HIDE DEF notice
      <3> QED BY <1>3, <2>1, <2>3, <3>1, <3>2, <3>3, LdapSends
    <2> QED BY <1>2, <2>2, <2>3
  <1> QED BY <1>2, <1>3, <1>4, LdapUnchanged

LEMMA LdapSafe == LdapInv => inStep /\ ~server.refused /\ L!Whole
  BY DEF LdapInv, LdapTypes, LdapServers, L!Whole

-----------------------------------------------------------------------------
(* IMAP.                                                                   *)

ImapCaps == (UNION ClearCaps) \cup (UNION TlsCaps)
ImapLiterals == Mails \cup {<<>>}
ImapReplies == [status : {"OK", "NO", "BAD", "BYE", "PREAUTH", "+"}, caps : SUBSET ImapCaps, literal : ImapLiterals, re : Nat]
ImapOps == {"LIST", "UIDS", "UID"}

ImapServers ==
    [alive : BOOLEAN, refused : {FALSE}, phase : {"new", "user", "password", "in"}, clear : SUBSET ImapCaps,
     secure : SUBSET ImapCaps, tls : BOOLEAN, mail : Mails, quoted : BOOLEAN, preauth : BOOLEAN]
ImapLocals ==
    [op : ImapOps, creds : {"none", "good", "ctl"}, tls : BOOLEAN, caps : SUBSET ImapCaps,
     preauth : BOOLEAN, got : ImapLiterals]

ImapTypes == server \in ImapServers /\ local \in ImapLocals /\ sent \in Nat /\ inStep = TRUE

\* The literal that the URL asks for.
ImapWanted(op, s) == IF op = "UID" /\ ~s.quoted THEN s.mail ELSE <<>>

\* The commands that the client may be waiting with at p, and that the server is not to refuse.
ImapMayAsk(p, verb, op, s) ==
    CASE p \in {"capability", "recapability"} -> verb = "CAPABILITY"
      [] p = "starttls" -> verb = "STARTTLS" /\ verb \in I!Caps(s) /\ ~s.tls
      [] p = "auth" ->
            \/ verb = "AUTH=PLAIN" /\ verb \in I!Caps(s) /\ s.phase = "new"
            \/ verb = "LOGIN" /\ "LOGINDISABLED" \notin I!Caps(s) /\ s.phase = "new"
            \/ verb = "continue" /\ s.phase = "password"
      [] p = "user" -> verb = "AUTH=LOGIN" /\ verb \in I!Caps(s) /\ s.phase = "new"
      [] p = "password" -> verb = "continue" /\ s.phase = "user"
      [] p = "select" -> verb = "SELECT"
      [] p = "body" -> verb = op
      [] OTHER -> verb = "LOGOUT"

\* The replies that it may get there.
ImapMayGet(p, r, op, s) ==
    /\ p \in {"capability", "recapability"} => r.caps = I!Caps(s)
    /\ p = "starttls" => s.tls = (r.status = "OK")
    /\ p = "user" => r.status # "OK" /\ (r.status = "+" => s.phase = "user")
    /\ p = "password" => r.status # "OK" /\ (r.status = "+" => s.phase = "password")
    /\ p = "body" /\ r.status = "OK" => r.literal = ImapWanted(op, s)

ImapReplied(p, op, s, n, commands, q) ==
    \E r \in ImapReplies :
        /\ commands = <<>> /\ r.re = n /\ ImapMayGet(p, r, op, s)
        /\ q = <<r>> \/ (p = "starttls" /\ q = <<r, I!Staged>>)

ImapWaits == {"capability", "starttls", "recapability", "user", "password", "auth", "select", "body", "farewell"}

ImapStage ==
    /\ pc = "greeting" =>
        /\ sent = 0 /\ toServer = <<>>
        /\ \/ toClient = <<>> /\ server.phase = "new"
           \/ \E r \in ImapReplies :
                /\ toClient = <<r>> /\ r.re = 0 /\ r.caps \in {{}, I!Caps(server)}
                /\ r.status = "OK" => server.phase = "new"
    /\ pc \in ImapWaits =>
        \/ \E verb : Asked(verb, sent, toServer, toClient) /\ ImapMayAsk(pc, verb, local.op, server)
        \/ ImapReplied(pc, local.op, server, sent, toServer, toClient)
    /\ pc \in {"capability", "starttls", "recapability"} => local.preauth \/ server.phase = "new"
    /\ pc \in {"greeting", "capability", "recapability"} => local.tls = server.tls
    /\ pc = "starttls" => ~local.tls
    /\ pc = "farewell" => local.got = ImapWanted(local.op, server)
    /\ pc = "done" => toServer = <<>> \/ ~server.alive

ImapInv ==
    /\ ImapTypes /\ ImapStage
    /\ pc \in {"greeting", "done"} \cup ImapWaits
    /\ IF pc = "done" THEN I!Whole ELSE result = "none"

LEMMA ImapInit == I!Init => ImapInv
  <1> SUFFICES ASSUME I!Init PROVE ImapInv
    OBVIOUS
  <1>1. pc = "greeting" /\ result = "none" /\ sent = 0 /\ inStep = TRUE /\ toServer = <<>> /\ toClient = <<>>
    BY DEF I!Init
  <1>2. PICK op \in ImapOps, creds \in {"none", "good", "ctl"}, tls \in BOOLEAN :
            local = [op |-> op, creds |-> creds, tls |-> tls, caps |-> {}, preauth |-> FALSE, got |-> <<>>]
    BY DEF I!Init, ImapOps
  <1>3. PICK clear \in ClearCaps, secure \in TlsCaps, mail \in Mails, quoted, preauth \in BOOLEAN :
            server = [alive |-> TRUE, refused |-> FALSE, phase |-> "new", clear |-> clear, secure |-> secure,
                      tls |-> local.tls, mail |-> mail, quoted |-> quoted, preauth |-> preauth]
    BY DEF I!Init
  <1>4. clear \in SUBSET ImapCaps /\ secure \in SUBSET ImapCaps /\ {} \in SUBSET ImapCaps /\ <<>> \in ImapLiterals
    BY DEF ImapCaps, ImapLiterals
  <1>5. local \in ImapLocals /\ local.tls \in BOOLEAN
    BY <1>2, <1>4 DEF ImapLocals
  <1>6. server \in ImapServers /\ server.phase = "new" /\ server.tls = local.tls
    BY <1>3, <1>4, <1>5 DEF ImapServers
  <1>7. ImapTypes /\ ImapStage
    BY <1>1, <1>5, <1>6 DEF ImapTypes, ImapStage, ImapWaits
  <1> QED BY <1>1, <1>7 DEF ImapInv

LEMMA ImapClient == ImapInv /\ I!Client => ImapInv'
  <1> SUFFICES ASSUME ImapInv, I!Client PROVE ImapInv'
    OBVIOUS
  <1>1. server \in ImapServers /\ local \in ImapLocals /\ sent \in Nat /\ inStep = TRUE
    BY DEF ImapInv, ImapTypes
  <1>2. ImapStage
    BY DEF ImapInv
  <1>3. ASSUME NEW outcome, I!Return(outcome), outcome = "ok" => local'.got = ImapWanted(local'.op, server),
               toServer = <<>> \/ ~server.alive, UNCHANGED server, local' \in ImapLocals, inStep' = TRUE
        PROVE  ImapInv'
    <2>1. pc' = "done" /\ result' = outcome /\ UNCHANGED <<sent, toServer>>
      BY <1>3 DEF I!Return
    <2>2. ImapTypes'
      BY <1>1, <1>3, <2>1 DEF ImapTypes
    <2>3. I!Whole'
      BY <1>3, <2>1 DEF I!Whole, ImapWanted
    <2> QED BY <1>3, <2>1, <2>2, <2>3 DEF ImapInv, ImapStage, ImapWaits
  <1>4. ASSUME NEW verb, NEW p \in ImapWaits, I!Ask(verb, "", p), toServer = <<>>, toClient' = <<>>, result = "none",
               UNCHANGED server, local' \in ImapLocals, inStep' = TRUE,
               ImapMayAsk(p, verb, local'.op, server),
               p \in {"capability", "starttls", "recapability"} => local'.preauth \/ server.phase = "new",
               p \in {"capability", "recapability"} => local'.tls = server.tls,
               p = "starttls" => ~local'.tls,
               p = "farewell" => local'.got = ImapWanted(local'.op, server)
        PROVE  ImapInv'
    <2>1. sent + 1 \in Nat
      BY <1>1
    <2>2. pc' = p /\ sent' = sent + 1 /\ toServer' = Append(toServer, [verb |-> verb, arg |-> "", n |-> sent + 1]) /\ UNCHANGED result
      BY <1>4 DEF I!Ask
    <2>3. Asked(verb, sent', toServer', toClient')
      BY <1>4, <2>2, AskedNext DEF Asked
    <2>4. ImapTypes'
      BY <1>1, <1>4, <2>1, <2>2 DEF ImapTypes
    <2>5. p \notin {"greeting", "done"}
      BY DEF ImapWaits
    <2>6. ImapStage'
      BY <1>4, <2>2, <2>3, <2>5 DEF ImapStage
    <2> QED BY <1>4, <2>2, <2>4, <2>5, <2>6 DEF ImapInv
  <1>5. ASSUME NEW l \in ImapLocals, local' = l, I!Fetch(l), toServer = <<>>, toClient' = <<>>, result = "none",
               UNCHANGED server, inStep' = TRUE
        PROVE  ImapInv'
    <2>1. CASE l.op = "LIST" /\ I!Ask("LIST", "", "body")
      <3>1. "body" \in ImapWaits /\ ImapMayAsk("body", "LIST", l.op, server)
        BY <2>1 DEF ImapWaits, ImapMayAsk
      <3> QED BY <1>4, <1>5, <2>1, <3>1
    <2>2. CASE I!Ask("SELECT", "", "select")
      <3>1. "select" \in ImapWaits /\ ImapMayAsk("select", "SELECT", l.op, server)
        BY DEF ImapWaits, ImapMayAsk
      <3> QED BY <1>4, <1>5, <2>2, <3>1
    <2> QED BY <1>5, <2>1, <2>2 DEF I!Fetch
  <1>6. ASSUME NEW l \in ImapLocals, local' = l, I!Authenticate(l), toServer = <<>>, toClient' = <<>>, result = "none",
               UNCHANGED server, inStep' = TRUE, l.preauth \/ server.phase = "new", l.caps = I!Caps(server)
        PROVE  ImapInv'
    <2>1. CASE I!Fetch(l)
      BY <1>5, <1>6, <2>1
    <2>2. CASE I!Return("error")
      BY <1>3, <1>6, <2>2
    <2>3. CASE ~l.preauth /\ I!ChooseAuth(l.caps) = "PLAIN" /\ I!Ask("AUTH=PLAIN", "", "auth")
      <3>1. "AUTH=PLAIN" \in l.caps
        BY <2>3 DEF I!ChooseAuth
      <3>2. "auth" \in ImapWaits /\ ImapMayAsk("auth", "AUTH=PLAIN", l.op, server)
        BY <1>6, <2>3, <3>1 DEF ImapWaits, ImapMayAsk
      <3> QED BY <1>4, <1>6, <2>3, <3>2
    <2>4. CASE ~l.preauth /\ I!ChooseAuth(l.caps) = "LOGIN" /\ I!Ask("AUTH=LOGIN", "", "user")
      <3>1. "AUTH=LOGIN" \in l.caps
        BY <2>4 DEF I!ChooseAuth
      <3>2. "user" \in ImapWaits /\ ImapMayAsk("user", "AUTH=LOGIN", l.op, server)
        BY <1>6, <2>4, <3>1 DEF ImapWaits, ImapMayAsk
      <3> QED BY <1>4, <1>6, <2>4, <3>2
    <2>5. CASE ~l.preauth /\ I!ChooseAuth(l.caps) = "COMMAND" /\ I!Ask("LOGIN", "", "auth")
      <3>1. "LOGINDISABLED" \notin l.caps
        BY <2>5 DEF I!ChooseAuth
      <3>2. "auth" \in ImapWaits /\ ImapMayAsk("auth", "LOGIN", l.op, server)
        BY <1>6, <2>5, <3>1 DEF ImapWaits, ImapMayAsk
      <3> QED BY <1>4, <1>6, <2>5, <3>2
    <2>6. I!ChooseAuth(l.caps) \in {"PLAIN", "LOGIN", "COMMAND", "none"}
      BY DEF I!ChooseAuth
    <2> QED BY <1>6, <2>1, <2>2, <2>3, <2>4, <2>5, <2>6 DEF I!Authenticate
  <1>7. ASSUME NEW l \in ImapLocals, local' = l, I!Secure(l), toServer = <<>>, toClient' = <<>>, result = "none",
               UNCHANGED server, inStep' = TRUE, l.preauth \/ server.phase = "new", l.caps = I!Caps(server), l.tls = server.tls
        PROVE  ImapInv'
    <2>1. CASE ~l.tls /\ "STARTTLS" \in l.caps /\ I!Ask("STARTTLS", "", "starttls")
      <3>1. "starttls" \in ImapWaits /\ ImapMayAsk("starttls", "STARTTLS", l.op, server)
        BY <1>7, <2>1 DEF ImapWaits, ImapMayAsk
      <3> QED BY <1>4, <1>7, <2>1, <3>1
    <2>2. CASE I!Authenticate(l)
      BY <1>6, <1>7, <2>2
    <2> QED BY <1>7, <2>1, <2>2 DEF I!Secure
  <1>8. CASE I!Broken
    <2>1. /\ pc # "done" /\ ~server.alive /\ I!Return(IF pc = "farewell" THEN "ok" ELSE "error")
          /\ UNCHANGED <<local, server, inStep>>
      BY <1>8 DEF I!Broken
    <2>2. pc = "farewell" => local.got = ImapWanted(local.op, server)
      BY <1>2 DEF ImapStage
    <2> QED BY <1>1, <1>3, <2>1, <2>2
  <1>9. CASE I!Receive
    <2> DEFINE r == Head(toClient)
    <2>1. /\ toClient # <<>> /\ pc # "done" /\ I!Take(r) /\ UNCHANGED server
          /\ \/ I!Greeting(r) \/ I!Capability(r) \/ I!StartTls(r) \/ I!Prompt(r)
             \/ I!Completion(r) \/ I!Fetched(r) \/ I!Farewell(r)
      BY <1>9 DEF I!Receive
    <2>2. toClient' = Tail(toClient) /\ inStep' = (inStep /\ r.re = sent) /\ result = "none"
      BY <2>1 DEF I!Take, ImapInv
    <2>3. ASSUME pc \in ImapWaits
          PROVE  /\ toServer = <<>> /\ inStep' = TRUE /\ r \in ImapReplies /\ ImapMayGet(pc, r, local.op, server)
                 /\ toClient' = <<>> \/ (pc = "starttls" /\ toClient' = <<I!Staged>>)
      <3>1. ImapReplied(pc, local.op, server, sent, toServer, toClient)
        BY <1>2, <2>1, <2>3 DEF ImapStage, Asked
      <3>2. PICK x \in ImapReplies :
              /\ toServer = <<>> /\ x.re = sent /\ ImapMayGet(pc, x, local.op, server)
              /\ toClient = <<x>> \/ (pc = "starttls" /\ toClient = <<x, I!Staged>>)
        BY <3>1 DEF ImapReplied
      <3>3. r = x /\ (toClient' = <<>> \/ (pc = "starttls" /\ toClient' = <<I!Staged>>))
        <4> DEFINE staged == I!Staged
        <4> HIDE DEF staged
        <4>1. CASE toClient = <<x>>
          BY <2>2, <4>1, One DEF r
        <4>2. CASE pc = "starttls" /\ toClient = <<x, staged>>
          <5>1. r = x /\ toClient' = <<staged>>
            BY <2>2, <4>2, Two DEF r
          <5> QED BY <4>2, <5>1 DEF staged
        <4> QED BY <3>2, <4>1, <4>2 DEF staged
      <3> QED BY <1>1, <2>2, <3>2, <3>3
    <2> HIDE DEF r
    <2>4. CASE I!Greeting(r)
      <3> DEFINE caps == I!CapsOf(r)
                 preauth == r.status = "PREAUTH"
                 l == [local EXCEPT !.caps = caps, !.preauth = preauth]
      <3>1. pc = "greeting" /\ local' = l
            /\ IF r.status \notin {"OK", "PREAUTH"} THEN I!Return("error")
               ELSE IF l.caps = {} THEN I!Ask("CAPABILITY", "", "capability") ELSE I!Secure(l)
        BY <2>4 DEF I!Greeting
      <3>2. PICK x \in ImapReplies :
                /\ toClient = <<x>> /\ x.re = 0 /\ x.caps \in {{}, I!Caps(server)}
                /\ x.status = "OK" => server.phase = "new"
        BY <1>2, <2>1, <3>1 DEF ImapStage
      <3>3. r = x /\ toClient' = <<>> /\ sent = 0 /\ toServer = <<>> /\ inStep' = TRUE /\ local.tls = server.tls
        BY <1>1, <1>2, <2>2, <3>1, <3>2, One DEF ImapStage, r
      <3>4. caps \in SUBSET ImapCaps /\ preauth \in BOOLEAN /\ caps = r.caps
        BY <3>2, <3>3 DEF ImapReplies, I!CapsOf
      <3> HIDE DEF caps, preauth
      <3>5. l \in ImapLocals /\ l.caps = caps /\ l.preauth = preauth /\ l.tls = local.tls /\ l.op = local.op
        BY <1>1, <3>4 DEF ImapLocals
      <3> HIDE DEF l
      <3>6. r.status \in {"OK", "PREAUTH"} => l.preauth \/ server.phase = "new"
        BY <3>2, <3>3, <3>5 DEF preauth
      <3>7. CASE I!Return("error")
        BY <1>3, <2>1, <3>1, <3>3, <3>5, <3>7
      <3>8. CASE r.status \in {"OK", "PREAUTH"} /\ I!Ask("CAPABILITY", "", "capability")
        <4>1. "capability" \in ImapWaits /\ ImapMayAsk("capability", "CAPABILITY", l.op, server)
          BY DEF ImapWaits, ImapMayAsk
        <4> QED BY <1>4, <2>1, <2>2, <3>1, <3>3, <3>5, <3>6, <3>8, <4>1
      <3>9. CASE r.status \in {"OK", "PREAUTH"} /\ l.caps # {} /\ I!Secure(l)
        <4>1. l.caps = I!Caps(server)
          BY <3>2, <3>3, <3>4, <3>5, <3>9
        <4> QED BY <1>7, <2>1, <2>2, <3>1, <3>3, <3>5, <3>6, <3>9, <4>1
      <3> QED BY <3>1, <3>7, <3>8, <3>9
    <2>5. CASE I!Capability(r)
      <3> DEFINE caps == I!CapsOf(r)
                 l == [local EXCEPT !.caps = caps]
      <3>1. pc \in {"capability", "recapability"} /\ local' = l
            /\ IF ~I!Ok(r) THEN I!Return("error") ELSE IF pc = "capability" THEN I!Secure(l) ELSE I!Authenticate(l)
        BY <2>5 DEF I!Capability
      <3>2. pc \in ImapWaits /\ pc # "starttls"
        BY <3>1 DEF ImapWaits
      <3>3. toServer = <<>> /\ inStep' = TRUE /\ r \in ImapReplies /\ ImapMayGet(pc, r, local.op, server) /\ toClient' = <<>>
        BY <2>3, <3>2
      <3>4. caps = I!Caps(server) /\ caps \in SUBSET ImapCaps
        BY <3>1, <3>3 DEF ImapMayGet, ImapReplies, I!CapsOf
      <3> HIDE DEF caps
      <3>5. l \in ImapLocals /\ l.caps = caps /\ l.preauth = local.preauth /\ l.tls = local.tls
        BY <1>1, <3>4 DEF ImapLocals
      <3> HIDE DEF l
      <3>6. (local.preauth \/ server.phase = "new") /\ local.tls = server.tls
        BY <1>2, <3>1 DEF ImapStage
      <3>7. CASE I!Return("error")
        BY <1>3, <2>1, <3>1, <3>3, <3>5, <3>7
      <3>8. CASE I!Secure(l)
        BY <1>7, <2>1, <2>2, <3>1, <3>3, <3>4, <3>5, <3>6, <3>8
      <3>9. CASE I!Authenticate(l)
        BY <1>6, <2>1, <2>2, <3>1, <3>3, <3>4, <3>5, <3>6, <3>9
      <3> QED BY <3>1, <3>7, <3>8, <3>9
    <2>6. CASE I!StartTls(r)
      <3>1. pc = "starttls" /\ pc \in ImapWaits
        BY <2>6 DEF I!StartTls, ImapWaits
      <3>2. toServer = <<>> /\ inStep' = TRUE /\ r \in ImapReplies /\ ImapMayGet(pc, r, local.op, server)
        BY <2>3, <3>1
      <3>3. CASE I!Return("error") /\ UNCHANGED local
        BY <1>1, <1>3, <2>1, <3>2, <3>3
      <3>4. CASE /\ I!Ok(r) /\ I!IsClear(Tail(toClient))
                 /\ local' = [local EXCEPT !.tls = TRUE] /\ I!Ask("CAPABILITY", "", "recapability")
        <4>1. toClient' = <<>>
          BY <2>2, <3>4 DEF I!IsClear
        <4>2. server.tls = TRUE
          BY <1>1, <3>1, <3>2, <3>4 DEF I!Ok, ImapMayGet, ImapServers
        <4>3. local' \in ImapLocals /\ local'.tls = TRUE /\ local'.preauth = local.preauth /\ local'.op = local.op
          BY <1>1, <3>4 DEF ImapLocals
        <4>4. "recapability" \in ImapWaits /\ ImapMayAsk("recapability", "CAPABILITY", local'.op, server)
          BY DEF ImapWaits, ImapMayAsk
        <4>5. local.preauth \/ server.phase = "new"
          BY <1>2, <3>1 DEF ImapStage
        <4> QED BY <1>4, <2>1, <2>2, <3>2, <3>4, <4>1, <4>2, <4>3, <4>4, <4>5
      <3> QED BY <2>6, <3>3, <3>4 DEF I!StartTls
    <2>7. CASE I!Prompt(r)
      <3>1. pc \in {"user", "password"} /\ UNCHANGED local
            /\ IF r.status = "+" THEN I!Ask("continue", "", IF pc = "user" THEN "password" ELSE "auth")
               ELSE IF I!Ok(r) THEN I!Fetch(local) ELSE I!Return("error")
        BY <2>7 DEF I!Prompt
      <3>2. pc \in ImapWaits /\ pc # "starttls"
        BY <3>1 DEF ImapWaits
      <3>3. toServer = <<>> /\ inStep' = TRUE /\ r \in ImapReplies /\ ImapMayGet(pc, r, local.op, server) /\ toClient' = <<>>
        BY <2>3, <3>2
      <3>4. CASE pc = "user" /\ r.status = "+" /\ I!Ask("continue", "", "password")
        <4>1. server.phase = "user"
          BY <3>3, <3>4 DEF ImapMayGet
        <4>2. "password" \in ImapWaits /\ ImapMayAsk("password", "continue", local'.op, server)
          BY <4>1 DEF ImapWaits, ImapMayAsk
        <4> QED BY <1>1, <1>4, <2>1, <2>2, <3>1, <3>3, <3>4, <4>2
      <3>5. CASE pc = "password" /\ r.status = "+" /\ I!Ask("continue", "", "auth")
        <4>1. server.phase = "password"
          BY <3>3, <3>5 DEF ImapMayGet
        <4>2. "auth" \in ImapWaits /\ ImapMayAsk("auth", "continue", local'.op, server)
          BY <4>1 DEF ImapWaits, ImapMayAsk
        <4> QED BY <1>1, <1>4, <2>1, <2>2, <3>1, <3>3, <3>5, <4>2
      <3>6. CASE I!Fetch(local)
        BY <1>1, <1>5, <2>1, <2>2, <3>1, <3>3, <3>6
      <3>7. CASE I!Return("error")
        BY <1>1, <1>3, <2>1, <3>1, <3>3, <3>7
      <3> QED BY <3>1, <3>4, <3>5, <3>6, <3>7
    <2>8. CASE I!Completion(r)
      <3>1. pc \in {"auth", "select"} /\ UNCHANGED local
            /\ IF ~I!Ok(r) THEN I!Return("error")
               ELSE IF pc = "auth" THEN I!Fetch(local) ELSE I!Ask(local.op, "", "body")
        BY <2>8 DEF I!Completion
      <3>2. pc \in ImapWaits /\ pc # "starttls"
        BY <3>1 DEF ImapWaits
      <3>3. toServer = <<>> /\ inStep' = TRUE /\ r \in ImapReplies /\ ImapMayGet(pc, r, local.op, server) /\ toClient' = <<>>
        BY <2>3, <3>2
      <3>4. CASE I!Return("error")
        BY <1>1, <1>3, <2>1, <3>1, <3>3, <3>4
      <3>5. CASE I!Fetch(local)
        BY <1>1, <1>5, <2>1, <2>2, <3>1, <3>3, <3>5
      <3>6. CASE I!Ask(local.op, "", "body")
        <4>1. "body" \in ImapWaits /\ ImapMayAsk("body", local.op, local'.op, server)
          BY <3>1 DEF ImapWaits, ImapMayAsk
        <4> QED BY <1>1, <1>4, <2>1, <2>2, <3>1, <3>3, <3>6, <4>1
      <3> QED BY <3>1, <3>4, <3>5, <3>6
    <2>9. CASE I!Fetched(r)
      <3>1. pc = "body" /\ pc \in ImapWaits
        BY <2>9 DEF I!Fetched, ImapWaits
      <3>2. toServer = <<>> /\ inStep' = TRUE /\ r \in ImapReplies /\ ImapMayGet(pc, r, local.op, server) /\ toClient' = <<>>
        BY <2>3, <3>1
      <3>3. CASE I!Return("error") /\ UNCHANGED local
        BY <1>1, <1>3, <2>1, <3>2, <3>3
      <3>4. CASE I!Ok(r) /\ I!Ask("LOGOUT", "", "farewell") /\ local' = [local EXCEPT !.got = r.literal]
        <4>1. r.literal \in ImapLiterals
          BY <3>2 DEF ImapReplies
        <4>2. local' \in ImapLocals /\ local'.got = r.literal /\ local'.op = local.op
          BY <1>1, <3>4, <4>1 DEF ImapLocals
        <4>3. r.literal = ImapWanted(local.op, server)
          BY <3>1, <3>2, <3>4 DEF ImapMayGet, I!Ok
        <4>4. "farewell" \in ImapWaits /\ ImapMayAsk("farewell", "LOGOUT", local'.op, server)
          BY DEF ImapWaits, ImapMayAsk
        <4> QED BY <1>4, <2>1, <2>2, <3>2, <3>4, <4>2, <4>3, <4>4
      <3> QED BY <2>9, <3>3, <3>4 DEF I!Fetched
    <2>10. CASE I!Farewell(r)
      <3>1. pc = "farewell" /\ pc \in ImapWaits /\ I!Return("ok") /\ UNCHANGED local
        BY <2>10 DEF I!Farewell, ImapWaits
      <3>2. toServer = <<>> /\ inStep' = TRUE
        BY <2>3, <3>1
      <3>3. local.got = ImapWanted(local.op, server)
        BY <1>2, <3>1 DEF ImapStage
      <3> QED BY <1>1, <1>3, <2>1, <3>1, <3>2, <3>3
    <2> QED BY <2>1, <2>4, <2>5, <2>6, <2>7, <2>8, <2>9, <2>10
  <1> QED BY <1>8, <1>9 DEF I!Client

\* What the server answers is what the client waits for.
LEMMA ImapAnswered ==
    ASSUME ImapInv, NEW p \in ImapWaits, NEW verb, NEW n \in Nat, Head(toServer).n = n,
           ImapMayAsk(p, verb, local.op, server), NEW a \in I!Answers(server, verb)
    PROVE  /\ a.s \in ImapServers /\ a.s.mail = server.mail /\ a.s.quoted = server.quoted
           /\ p # "starttls" => a.s.tls = server.tls
           /\ p \in {"capability", "starttls", "recapability"} => a.s.phase = server.phase
           /\ \E r \in ImapReplies :
                /\ r.re = n /\ ImapMayGet(p, r, local.op, a.s)
                /\ a.replies = <<r>> \/ (p = "starttls" /\ a.replies = <<r, I!Staged>>)
  <1> DEFINE reply(status) == [status |-> status, caps |-> {}, literal |-> <<>>, re |-> n]
  <1>1. server \in ImapServers /\ local.op \in ImapOps
    BY DEF ImapInv, ImapTypes, ImapLocals
  <1>2. ASSUME NEW status \in {"OK", "NO", "BAD", "+"}
        PROVE  /\ I!Status(status) = reply(status) /\ reply(status) \in ImapReplies
               /\ I!Status(status) \in ImapReplies /\ I!Status(status).status = status /\ I!Status(status).re = n
    <2>1. <<>> \in ImapLiterals /\ {} \in SUBSET ImapCaps
      BY DEF ImapLiterals
    <2>2. I!Status(status) = reply(status)
      BY DEF I!Status, I!Reply
    <2>3. reply(status) \in ImapReplies
      BY <2>1 DEF ImapReplies
    <2>4. reply(status).status = status /\ reply(status).re = n
      OBVIOUS
    <2> HIDE DEF reply
    <2> QED BY <2>2, <2>3, <2>4
  <1>3. ASSUME NEW s \in ImapServers, s.mail = server.mail /\ s.quoted = server.quoted, s.tls = server.tls,
               p \in {"capability", "recapability"} => s.phase = server.phase, p # "starttls",
               NEW r \in ImapReplies, r.re = n, ImapMayGet(p, r, local.op, s), a = I!To(s, r)
        PROVE  /\ a.s \in ImapServers /\ a.s.mail = server.mail /\ a.s.quoted = server.quoted
               /\ p # "starttls" => a.s.tls = server.tls
               /\ p \in {"capability", "starttls", "recapability"} => a.s.phase = server.phase
               /\ \E x \in ImapReplies :
                    /\ x.re = n /\ ImapMayGet(p, x, local.op, a.s)
                    /\ a.replies = <<x>> \/ (p = "starttls" /\ a.replies = <<x, I!Staged>>)
    <2>1. a.s = s /\ a.replies = <<r>>
      BY <1>3 DEF I!To
    <2> QED BY <1>3, <2>1
  <1>4. CASE p \in {"capability", "recapability"}
    <2>1. a = I!To(server, [I!Status("OK") EXCEPT !.caps = I!Caps(server)])
      BY <1>4 DEF ImapMayAsk, I!Answers
    <2> DEFINE r == [status |-> "OK", caps |-> I!Caps(server), literal |-> <<>>, re |-> n]
    <2>2. I!Status("OK") = reply("OK")
      BY <1>2
    <2>3. a = I!To(server, r)
      BY <2>1, <2>2
    <2>4. I!Caps(server) \in SUBSET ImapCaps /\ <<>> \in ImapLiterals
      BY <1>1 DEF ImapServers, I!Caps, ImapLiterals
    <2>5. r \in ImapReplies
      BY <2>4 DEF ImapReplies
    <2>6. ImapMayGet(p, r, local.op, server)
      BY <1>4 DEF ImapMayGet
    <2>7. r.re = n
      OBVIOUS
    <2> HIDE DEF r
    <2> QED BY <1>1, <1>3, <1>4, <2>3, <2>5, <2>6, <2>7
  <1>5. CASE p = "starttls"
    <2> DEFINE s == [server EXCEPT !.tls = TRUE]
               ok == I!Status("OK")
    <2>1. verb = "STARTTLS" /\ verb \in I!Caps(server) /\ ~server.tls
      BY <1>5 DEF ImapMayAsk
    <2>2. a \in {I!To(s, ok), I!To(server, I!Status("NO")), [s |-> s, replies |-> <<ok, I!Staged>>]}
      BY <2>1 DEF I!Answers
    <2>3. s \in ImapServers /\ s.tls = TRUE /\ s.mail = server.mail /\ s.quoted = server.quoted /\ s.phase = server.phase
      BY <1>1 DEF ImapServers
    <2>4. server.tls = FALSE
      BY <1>1, <2>1 DEF ImapServers
    <2>5. /\ ok \in ImapReplies /\ ok.status = "OK" /\ ok.re = n
          /\ I!Status("NO") \in ImapReplies /\ I!Status("NO").status = "NO" /\ I!Status("NO").re = n
      BY <1>2
    <2>6. ImapMayGet(p, ok, local.op, s) /\ ImapMayGet(p, I!Status("NO"), local.op, server)
      BY <1>5, <2>3, <2>4, <2>5 DEF ImapMayGet
    <2> HIDE DEF s, ok
    <2>7. CASE a = I!To(s, ok)
      <3>1. a.s = s /\ a.replies = <<ok>>
        BY <2>7 DEF I!To
      <3> QED BY <1>5, <2>3, <2>5, <2>6, <3>1
    <2>8. CASE a = I!To(server, I!Status("NO"))
      <3>1. a.s = server /\ a.replies = <<I!Status("NO")>>
        BY <2>8 DEF I!To
      <3> QED BY <1>1, <1>5, <2>5, <2>6, <3>1
    <2>9. CASE a = [s |-> s, replies |-> <<ok, I!Staged>>]
      <3>1. a.s = s /\ a.replies = <<ok, I!Staged>>
        BY <2>9
      <3> QED BY <1>5, <2>3, <2>5, <2>6, <3>1
    <2> QED BY <2>2, <2>7, <2>8, <2>9
  <1>6. ASSUME NEW s \in ImapServers, s.mail = server.mail /\ s.quoted = server.quoted, s.tls = server.tls,
               NEW status \in {"OK", "NO", "BAD", "+"},
               p \in {"user", "password", "auth", "select", "farewell"}, a = I!To(s, I!Status(status)),
               p = "user" => status # "OK" /\ (status = "+" => s.phase = "user"),
               p = "password" => status # "OK" /\ (status = "+" => s.phase = "password")
        PROVE  /\ a.s \in ImapServers /\ a.s.mail = server.mail /\ a.s.quoted = server.quoted
               /\ p # "starttls" => a.s.tls = server.tls
               /\ p \in {"capability", "starttls", "recapability"} => a.s.phase = server.phase
               /\ \E x \in ImapReplies :
                    /\ x.re = n /\ ImapMayGet(p, x, local.op, a.s)
                    /\ a.replies = <<x>> \/ (p = "starttls" /\ a.replies = <<x, I!Staged>>)
    <2> DEFINE r == I!Status(status)
    <2>1. r \in ImapReplies /\ r.re = n /\ r.status = status
      BY <1>2
    <2>2. ImapMayGet(p, r, local.op, s)
      BY <1>6, <2>1 DEF ImapMayGet
    <2> HIDE DEF r
    <2> QED BY <1>3, <1>6, <2>1, <2>2 DEF r
  <1>7. ASSUME NEW phase \in {"new", "user", "password", "in"}
        PROVE  /\ [server EXCEPT !.phase = phase] \in ImapServers /\ [server EXCEPT !.phase = phase].phase = phase
               /\ [server EXCEPT !.phase = phase].mail = server.mail /\ [server EXCEPT !.phase = phase].tls = server.tls
               /\ [server EXCEPT !.phase = phase].quoted = server.quoted
    BY <1>1 DEF ImapServers
  <1> DEFINE in == [server EXCEPT !.phase = "in"]
             user == [server EXCEPT !.phase = "user"]
             password == [server EXCEPT !.phase = "password"]
  <1>8. /\ in \in ImapServers /\ in.mail = server.mail /\ in.quoted = server.quoted /\ in.tls = server.tls
        /\ user \in ImapServers /\ user.mail = server.mail /\ user.quoted = server.quoted
        /\ user.tls = server.tls /\ user.phase = "user"
        /\ password \in ImapServers /\ password.mail = server.mail /\ password.quoted = server.quoted
        /\ password.tls = server.tls /\ password.phase = "password"
    BY <1>7
  <1>9. I!Done(server) = {I!To(in, I!Status("OK")), I!To(server, I!Status("NO"))}
    BY DEF I!Done, I!In
  <1> HIDE DEF in, user, password, reply
  <1>10. CASE p = "auth"
    <2>1. a \in {I!To(in, I!Status("OK")), I!To(server, I!Status("NO")), I!To(server, I!Status("+"))}
      <3>1. CASE verb = "AUTH=PLAIN" /\ verb \in I!Caps(server) /\ server.phase = "new"
        BY <1>9, <3>1 DEF I!Answers
      <3>2. CASE verb = "LOGIN" /\ "LOGINDISABLED" \notin I!Caps(server) /\ server.phase = "new"
        BY <1>9, <3>2 DEF I!Answers
      <3>3. CASE verb = "continue" /\ server.phase = "password"
        BY <1>9, <3>3 DEF I!Answers
      <3> QED BY <1>10, <3>1, <3>2, <3>3 DEF ImapMayAsk
    <2>2. CASE a = I!To(in, I!Status("OK"))
      BY <1>6, <1>8, <1>10, <2>2
    <2>3. CASE a = I!To(server, I!Status("NO"))
      BY <1>1, <1>6, <1>10, <2>3
    <2>4. CASE a = I!To(server, I!Status("+"))
      BY <1>1, <1>6, <1>10, <2>4
    <2> QED BY <2>1, <2>2, <2>3, <2>4
  <1>11. CASE p = "user"
    <2>1. a \in {I!To(user, I!Status("+")), I!To(server, I!Status("NO"))}
      BY <1>11 DEF ImapMayAsk, I!Answers, user
    <2>2. CASE a = I!To(user, I!Status("+"))
      BY <1>6, <1>8, <1>11, <2>2
    <2>3. CASE a = I!To(server, I!Status("NO"))
      BY <1>1, <1>6, <1>11, <2>3
    <2> QED BY <2>1, <2>2, <2>3
  <1>12. CASE p = "password"
    <2>1. a = I!To(password, I!Status("+"))
      BY <1>12 DEF ImapMayAsk, I!Answers, password
    <2> QED BY <1>6, <1>8, <1>12, <2>1
  <1>13. CASE p = "farewell"
    <2> DEFINE s == [server EXCEPT !.alive = FALSE]
    <2>1. verb = "LOGOUT"
      BY <1>13 DEF ImapMayAsk
    <2>2. a = I!To(s, I!Status("OK"))
      BY <2>1 DEF I!Answers
    <2>3. s \in ImapServers /\ s.mail = server.mail /\ s.quoted = server.quoted /\ s.tls = server.tls
      BY <1>1 DEF ImapServers
    <2> HIDE DEF s
    <2> QED BY <1>6, <1>13, <2>2, <2>3
  <1>14. CASE p \in {"select", "body"}
    <2>1. verb \in {"LIST", "SELECT", "UIDS", "UID"} /\ (p = "select" => verb = "SELECT") /\ (p = "body" => verb = local.op)
      BY <1>1, <1>14 DEF ImapMayAsk, ImapOps
    <2>2. \/ a = I!To(server, I!Status("NO"))
          \/ \E l \in I!Literals(server, verb) : a = I!To(server, [I!Status("OK") EXCEPT !.literal = l])
      <3>1. a \in IF server.phase # "in" THEN {I!To(server, I!Status("NO"))}
                  ELSE {I!To(server, [I!Status("OK") EXCEPT !.literal = l]) : l \in I!Literals(server, verb)}
                            \cup {I!To(server, I!Status("NO"))}
        BY <2>1 DEF I!Answers
      <3> QED BY <3>1
    <2>3. CASE a = I!To(server, I!Status("NO"))
      <3> DEFINE r == I!Status("NO")
      <3>1. r \in ImapReplies /\ r.re = n /\ r.status = "NO"
        BY <1>2
      <3>2. ImapMayGet(p, r, local.op, server)
        BY <1>14, <3>1 DEF ImapMayGet
      <3> HIDE DEF r
      <3> QED BY <1>1, <1>3, <1>14, <2>3, <3>1, <3>2 DEF r
    <2>4. ASSUME NEW l \in I!Literals(server, verb), a = I!To(server, [I!Status("OK") EXCEPT !.literal = l])
          PROVE  /\ a.s \in ImapServers /\ a.s.mail = server.mail /\ a.s.quoted = server.quoted
                 /\ p # "starttls" => a.s.tls = server.tls
                 /\ p \in {"capability", "starttls", "recapability"} => a.s.phase = server.phase
                 /\ \E x \in ImapReplies :
                        /\ x.re = n /\ ImapMayGet(p, x, local.op, a.s)
                        /\ a.replies = <<x>> \/ (p = "starttls" /\ a.replies = <<x, I!Staged>>)
      <3> DEFINE r == [status |-> "OK", caps |-> {}, literal |-> l, re |-> n]
      <3>1. l = IF verb = "UID" /\ ~server.quoted THEN server.mail ELSE <<>>
        BY <2>4 DEF I!Literals
      <3>2. l \in ImapLiterals /\ {} \in SUBSET ImapCaps
        BY <1>1, <3>1 DEF ImapLiterals, ImapServers
      <3>3. r \in ImapReplies
        BY <3>2 DEF ImapReplies
      <3>4. a = I!To(server, r)
        <4>1. I!Status("OK") = reply("OK")
          BY <1>2
        <4> QED BY <2>4, <4>1 DEF reply
      <3>5. ImapMayGet(p, r, local.op, server)
        BY <1>14, <2>1, <3>1 DEF ImapMayGet, ImapWanted
      <3>6. r.re = n
        OBVIOUS
      <3> HIDE DEF r
      <3> QED BY <1>1, <1>3, <1>14, <3>3, <3>4, <3>5, <3>6
    <2> QED BY <2>2, <2>3, <2>4
  <1> QED BY <1>4, <1>5, <1>10, <1>11, <1>12, <1>13, <1>14 DEF ImapWaits

LEMMA ImapServer == ImapInv /\ I!Server => ImapInv'
  <1> SUFFICES ASSUME ImapInv, I!Server PROVE ImapInv'
    OBVIOUS
  <1>1. server \in ImapServers /\ local \in ImapLocals /\ sent \in Nat /\ inStep = TRUE
    BY DEF ImapInv, ImapTypes
  <1>2. ImapStage
    BY DEF ImapInv
  <1>3. CASE I!Greet
    <2>1. PICK inline \in BOOLEAN, status \in {"OK", "BYE"} :
            /\ I!Send(<<I!Reply(IF status = "OK" /\ server.preauth THEN "PREAUTH" ELSE status,
                        IF inline THEN I!Caps(server) ELSE {}, <<>>, 0)>>)
            /\ server' = IF server.preauth THEN I!In(server) ELSE server
      BY <1>3 DEF I!Greet
    <2> DEFINE st == IF status = "OK" /\ server.preauth THEN "PREAUTH" ELSE status
               caps == IF inline THEN I!Caps(server) ELSE {}
               r == [status |-> st, caps |-> caps, literal |-> <<>>, re |-> 0]
    <2>2. /\ pc = "greeting" /\ toClient = <<>> /\ sent = 0 /\ toClient' = toClient \o <<r>>
          /\ UNCHANGED <<pc, result, local, sent, toServer, inStep>>
      BY <1>3, <2>1 DEF I!Greet, I!Send, I!Reply
    <2>3. toServer = <<>> /\ server.phase = "new" /\ local.tls = server.tls
      BY <1>2, <2>2, One DEF ImapStage
    <2>4. st \in {"OK", "BYE", "PREAUTH"} /\ (st = "OK" => ~server.preauth)
      OBVIOUS
    <2>5. /\ server' \in ImapServers /\ server'.tls = server.tls /\ I!Caps(server') = I!Caps(server)
          /\ ~server.preauth => server'.phase = "new"
      BY <1>1, <2>1, <2>3 DEF ImapServers, I!In, I!Caps
    <2>6. I!Caps(server) \in SUBSET ImapCaps /\ <<>> \in ImapLiterals
      BY <1>1 DEF ImapServers, I!Caps, ImapLiterals
    <2>7. caps \in SUBSET ImapCaps /\ caps \in {{}, I!Caps(server)}
      BY <2>6
    <2> HIDE DEF st, caps
    <2>8. r \in ImapReplies /\ r.re = 0 /\ r.caps = caps /\ r.status = st
      BY <2>4, <2>6, <2>7 DEF ImapReplies
    <2> HIDE DEF r
    <2>9. toClient' = <<r>>
      BY <2>2, One
    <2>10. \E x \in ImapReplies :
                /\ toClient' = <<x>> /\ x.re = 0 /\ x.caps \in {{}, I!Caps(server')}
                /\ x.status = "OK" => server'.phase = "new"
      BY <2>4, <2>5, <2>7, <2>8, <2>9
    <2>11. ImapTypes' /\ ImapStage'
      BY <1>1, <2>2, <2>3, <2>5, <2>10 DEF ImapTypes, ImapStage, ImapWaits
    <2> QED BY <2>2, <2>11 DEF ImapInv
  <1>4. CASE I!Serve
    <2> DEFINE c == Head(toServer)
    <2>1. toServer # <<>> /\ server.alive
      BY <1>4 DEF I!Serve
    <2>2. PICK a \in I!Answers(server, c.verb) : I!Answer(a.s, a.replies)
      BY <1>4 DEF I!Serve
    <2>3. /\ server' = a.s /\ toServer' = Tail(toServer) /\ toClient' = toClient \o a.replies
          /\ UNCHANGED <<pc, result, local, sent, inStep>>
      BY <2>2 DEF I!Answer
    <2>4. pc \in ImapWaits /\ pc \notin {"greeting", "done"}
      BY <1>2, <2>1 DEF ImapStage, ImapInv, ImapWaits
    <2>5. PICK verb : Asked(verb, sent, toServer, toClient) /\ ImapMayAsk(pc, verb, local.op, server)
      BY <1>2, <2>1, <2>4 DEF ImapStage, ImapReplied
    <2>6. c.verb = verb /\ c.n = sent /\ Tail(toServer) = <<>> /\ toClient = <<>>
      BY <2>5, AskedOne
    <2>7. /\ a.s \in ImapServers /\ a.s.mail = server.mail /\ a.s.quoted = server.quoted
          /\ pc # "starttls" => a.s.tls = server.tls
          /\ pc \in {"capability", "starttls", "recapability"} => a.s.phase = server.phase
          /\ \E r \in ImapReplies :
               /\ r.re = sent /\ ImapMayGet(pc, r, local.op, a.s)
               /\ a.replies = <<r>> \/ (pc = "starttls" /\ a.replies = <<r, I!Staged>>)
      BY <1>1, <2>2, <2>4, <2>5, <2>6, ImapAnswered
    <2> HIDE DEF c
    <2>8. PICK r \in ImapReplies :
               /\ r.re = sent /\ ImapMayGet(pc, r, local.op, a.s)
               /\ a.replies = <<r>> \/ (pc = "starttls" /\ a.replies = <<r, I!Staged>>)
      BY <2>7
    <2>9. toClient' = <<r>> \/ (pc = "starttls" /\ toClient' = <<r, I!Staged>>)
      <3> DEFINE staged == I!Staged
      <3> HIDE DEF staged
      <3>1. toClient' = a.replies
        <4>1. a.replies = <<r>> \/ a.replies = <<r, staged>>
          BY <2>8 DEF staged
        <4> QED BY <2>3, <2>6, <4>1, One, Two
      <3> QED BY <2>8, <3>1
    <2>10. ImapReplied(pc, local.op, server, sent, toServer, toClient)'
      BY <2>3, <2>6, <2>8, <2>9 DEF ImapReplied
    <2>11. ImapTypes'
      BY <1>1, <2>3, <2>7 DEF ImapTypes
    <2>12. ImapWanted(local.op, server') = ImapWanted(local.op, server)
      BY <2>3, <2>7 DEF ImapWanted
    <2>13. ImapStage'
      BY <1>2, <2>3, <2>4, <2>7, <2>10, <2>12 DEF ImapStage
    <2> QED BY <2>3, <2>4, <2>11, <2>13 DEF ImapInv
  <1> QED BY <1>3, <1>4 DEF I!Server

LEMMA ImapFault == ImapInv /\ I!Die => ImapInv'
  <1> SUFFICES ASSUME ImapInv, I!Die PROVE ImapInv'
    OBVIOUS
  <1>1. server' = [server EXCEPT !.alive = FALSE] /\ UNCHANGED <<pc, result, local, sent, toServer, toClient, inStep>>
    BY DEF I!Die, I!Crash
  <1>2. ImapTypes /\ ImapStage
    BY DEF ImapInv
  <1>3. /\ server' \in ImapServers /\ server'.phase = server.phase /\ server'.mail = server.mail
        /\ server'.quoted = server.quoted /\ server'.tls = server.tls
        /\ server'.alive = FALSE /\ I!Caps(server') = I!Caps(server)
    BY <1>1, <1>2 DEF ImapTypes, ImapServers, I!Caps
  <1>4. \A p, verb, r, op : /\ ImapMayAsk(p, verb, op, server') <=> ImapMayAsk(p, verb, op, server)
                            /\ ImapMayGet(p, r, op, server') <=> ImapMayGet(p, r, op, server)
                            /\ ImapWanted(op, server') = ImapWanted(op, server)
    BY <1>3 DEF ImapMayAsk, ImapMayGet, ImapWanted
  <1>5. ImapReplied(pc, local.op, server, sent, toServer, toClient) => ImapReplied(pc, local.op, server, sent, toServer, toClient)'
    BY <1>1, <1>4 DEF ImapReplied
  <1>6. pc \in ImapWaits =>
            \/ \E verb : Asked(verb, sent, toServer, toClient)' /\ ImapMayAsk(pc, verb, local.op, server)'
            \/ ImapReplied(pc, local.op, server, sent, toServer, toClient)'
    BY <1>1, <1>2, <1>4, <1>5 DEF ImapStage
  <1>7. ImapTypes'
    BY <1>1, <1>2, <1>3 DEF ImapTypes
  <1>8. ImapStage'
    BY <1>1, <1>2, <1>3, <1>4, <1>6 DEF ImapStage
  <1>9. pc = "done" => I!Whole'
    BY <1>1, <1>3 DEF I!Whole, ImapInv
  <1> QED BY <1>1, <1>7, <1>8, <1>9 DEF ImapInv

LEMMA ImapSafe == ImapInv => inStep /\ ~server.refused /\ I!Whole
  BY DEF ImapInv, ImapTypes, ImapServers, I!Whole

-----------------------------------------------------------------------------
(* WebSocket.                                                              *)

WsFrames ==
    [type : {"TEXT", "CONT"}, rsv1 : BOOLEAN, fin : BOOLEAN, payload : Text, re : {0}]
        \cup [type : {"PING", "CLOSE"}, payload : Nat, re : {0}]
WsUpgrades == [status : Nat, accept : BOOLEAN, pmd : BOOLEAN, re : {1}]
WsReplies == WsUpgrades \cup WsFrames
WsCommands == [verb : {"GET", "CLOSE"}, arg : {""}, n : Nat] \cup [verb : {"PONG"}, arg : Nat, n : Nat]

WsServers ==
    [alive : BOOLEAN, refused : {FALSE}, up : BOOLEAN, pings : Seq(Nat), pinged : Nat,
     content : Seq(Text) \ {<<>>}, deflated : BOOLEAN, at : Nat, closed : BOOLEAN]
WsLocals ==
    [pmd : BOOLEAN, chain : BOOLEAN, compressed : BOOLEAN, buf : Seq(Text), got : Seq(Text)]

\* The oldest ping that the server has had no echo of.
WsOldest(s) == s.pinged - Len(s.pings)

WsTypes ==
    /\ server \in WsServers /\ local \in WsLocals
    /\ toServer \in Seq(WsCommands)
    /\ sent \in Nat /\ inStep = TRUE
    /\ server.at <= Len(server.content)

\* The echoes on their way to the server are of its oldest pings, in order; what is not
\* one is the last.
WsEchoes(q, s) ==
    /\ Len(s.pings) <= s.pinged
    /\ \A i \in 1 .. Len(s.pings) : s.pings[i] = WsOldest(s) + i - 1
    /\ \A i \in 1 .. Len(q) :
        IF q[i].verb = "PONG" THEN i <= Len(s.pings) /\ q[i].arg = WsOldest(s) + i - 1 ELSE i = Len(q)

\* A place in what the server sends: the parts of the message behind it, the next ping,
\* and whether the message has not begun or the server has closed.
WsPlaces == [parts : Seq(Text), ping : Nat, closed : BOOLEAN, first : BOOLEAN]
WsPlace(parts, ping, closed, first) == [parts |-> parts, ping |-> ping, closed |-> closed, first |-> first]

\* Frame r leads from place a to place b; `most` pings have been sent.
WsMoves(deflated, most, a, r, b) ==
    /\ ~a.closed
    /\ \/ /\ r.type \in {"TEXT", "CONT"} /\ a.parts # <<>>
          /\ r.payload = Head(a.parts) /\ r.rsv1 = (deflated /\ a.first) /\ r.fin = (Tail(a.parts) = <<>>)
          /\ b = WsPlace(Tail(a.parts), a.ping, FALSE, FALSE)
       \/ r.type = "PING" /\ r.payload = a.ping /\ a.ping < most /\ b = WsPlace(a.parts, a.ping + 1, FALSE, a.first)
       \/ r.type = "CLOSE" /\ b = WsPlace(a.parts, a.ping, TRUE, a.first)
WsSteps(deflated, most) ==
    {s \in WsPlaces \X WsFrames \X WsPlaces : WsMoves(deflated, most, s[1], s[2], s[3])}

\* Where the server is, and where the client is: what it gathered is the message up to there.
WsNow(s) == WsPlace(SubSeq(s.content, s.at + 1, Len(s.content)), s.pinged, s.closed, s.at = 0)
WsReads(s, buf, compressed, echoes, a) ==
    /\ a.parts # <<>> /\ s.content = buf \o a.parts
    /\ a.first = (buf = <<>>) /\ compressed = (s.deflated /\ buf # <<>>)
    /\ a.ping = WsOldest(s) + echoes

\* The frames of q lead from what the client has to what the server has sent.
WsCourse(q, s, buf, compressed, echoes) ==
    /\ q \in Seq(WsFrames)
    /\ \E a \in WsPlaces :
        /\ WsReads(s, buf, compressed, echoes, a)
        /\ Course(WsPlaces, WsSteps(s.deflated, s.pinged), q, a, WsNow(s))

WsFresh(s) == ~s.up /\ s.at = 0 /\ ~s.closed /\ s.pings = <<>> /\ s.pinged = 0

WsStage ==
    /\ pc = "start" => sent = 0 /\ toServer = <<>> /\ toClient = <<>> /\ WsFresh(server)
    /\ pc \in {"start", "upgrade"} => local.buf = <<>> /\ ~local.compressed
    /\ pc = "upgrade" =>
        /\ sent = 1
        /\ \/ Asked("GET", 1, toServer, toClient) /\ WsFresh(server)
           \/ /\ toServer = <<>> /\ toClient \in Seq(WsReplies) /\ toClient # <<>> /\ Head(toClient) \in WsUpgrades
              /\ IF server.up THEN WsCourse(Tail(toClient), server, local.buf, local.compressed, Len(toServer))
                 ELSE Tail(toClient) = <<>> /\ ~Head(toClient).accept
    /\ pc = "message" =>
        /\ server.up /\ \A i \in 1 .. Len(toServer) : toServer[i].verb = "PONG"
        /\ WsCourse(toClient, server, local.buf, local.compressed, Len(toServer))
    /\ pc # "done" => local.got = <<>>

WsInv ==
    /\ WsTypes /\ WsEchoes(toServer, server) /\ WsStage
    /\ pc \in {"start", "upgrade", "message", "done"}
    /\ IF pc = "done" THEN W!Whole /\ (result = "ok" => \A i \in 1 .. Len(toServer) : toServer[i].verb # "GET")
       ELSE result = "none"

LEMMA WsPlaced ==
    ASSUME NEW parts \in Seq(Text), NEW ping \in Nat, NEW closed \in BOOLEAN, NEW first \in BOOLEAN
    PROVE  /\ WsPlace(parts, ping, closed, first) \in WsPlaces
           /\ WsPlace(parts, ping, closed, first).parts = parts /\ WsPlace(parts, ping, closed, first).ping = ping
           /\ WsPlace(parts, ping, closed, first).closed = closed /\ WsPlace(parts, ping, closed, first).first = first
  BY DEF WsPlace, WsPlaces

\* The server's place.
LEMMA WsWhere ==
    ASSUME NEW s \in WsServers, s.at <= Len(s.content)
    PROVE  /\ WsNow(s) \in WsPlaces /\ WsNow(s).parts \in Seq(Text)
           /\ WsNow(s).ping = s.pinged /\ WsNow(s).closed = s.closed /\ WsNow(s).first = (s.at = 0)
           /\ s.at = 0 => WsNow(s).parts = s.content
           /\ s.at < Len(s.content) =>
                /\ WsNow(s).parts # <<>> /\ Head(WsNow(s).parts) = s.content[s.at + 1]
                /\ Tail(WsNow(s).parts) = SubSeq(s.content, s.at + 2, Len(s.content))
                /\ Tail(WsNow(s).parts) \in Seq(Text)
                /\ (Tail(WsNow(s).parts) = <<>>) = (s.at + 1 = Len(s.content))
           /\ s.at = Len(s.content) => WsNow(s).parts = <<>>
  <1> DEFINE content == s.content
             k == Len(content)
             n == s.at
             parts == SubSeq(content, n + 1, k)
  <1>1. content \in Seq(Text) /\ content # <<>> /\ k \in Nat /\ n \in Nat /\ n <= k
    BY LenProperties DEF WsServers
  <1>2. s.pinged \in Nat /\ s.closed \in BOOLEAN /\ (s.at = 0) \in BOOLEAN
    BY DEF WsServers
  <1> HIDE DEF content, k, n
  <1>3. n = 0 => parts = content
    <2>1. ASSUME n = 0 PROVE parts = content
      <3>1. n + 1 = 1
        BY <2>1
      <3> QED BY <1>1, <3>1, Suffixes DEF k
    <2> QED BY <2>1
  <1>4. n = k => parts = <<>>
    BY <1>1, Suffixes DEF k
  <1>5. ASSUME n < k
        PROVE  /\ parts \in Seq(Text) /\ parts # <<>> /\ Head(parts) = content[n + 1]
               /\ Tail(parts) = SubSeq(content, n + 2, k) /\ Tail(parts) \in Seq(Text)
               /\ (Tail(parts) = <<>>) = (n + 1 = k)
    <2>1. n + 1 \in 1 .. k /\ (n + 1) + 1 = n + 2
      BY <1>1, <1>5
    <2>2. /\ parts \in Seq(Text) /\ parts # <<>> /\ Head(parts) = content[n + 1]
          /\ Tail(parts) = SubSeq(content, n + 2, k) /\ SubSeq(content, n + 2, k) \in Seq(Text)
      BY <1>1, <2>1, Suffix DEF k
    <2>3. CASE n + 1 = k
      <3>1. n + 2 = k + 1
        BY <1>1, <2>3
      <3> QED BY <1>1, <2>2, <2>3, <3>1, Suffixes DEF k
    <2>4. CASE n + 1 # k
      <3>1. n + 2 \in 1 .. k
        BY <1>1, <1>5, <2>4
      <3>2. SubSeq(content, n + 2, k) # <<>>
        BY <1>1, <3>1, Suffix DEF k
      <3> QED BY <2>2, <2>4, <3>2
    <2> QED BY <2>3, <2>4
  <1>6. parts \in Seq(Text)
    <2>1. n < k \/ n = k
      BY <1>1
    <2> QED BY <1>4, <1>5, <2>1, Empty
  <1>7. WsNow(s) = WsPlace(parts, s.pinged, s.closed, s.at = 0)
    BY DEF WsNow, content, k, n
  <1> HIDE DEF parts
  <1>8. /\ WsNow(s) \in WsPlaces /\ WsNow(s).parts = parts
        /\ WsNow(s).ping = s.pinged /\ WsNow(s).closed = s.closed /\ WsNow(s).first = (s.at = 0)
    BY <1>2, <1>6, <1>7 DEF WsPlace, WsPlaces
  <1> QED BY <1>3, <1>4, <1>5, <1>6, <1>8 DEF content, k, n

LEMMA WsInit == W!Init => WsInv
  <1> SUFFICES ASSUME W!Init PROVE WsInv
    OBVIOUS
  <1>1. pc = "start" /\ result = "none" /\ sent = 0 /\ inStep = TRUE /\ toServer = <<>> /\ toClient = <<>>
    BY DEF W!Init
  <1>2. PICK content \in Contents, deflated \in BOOLEAN :
            server = [alive |-> TRUE, refused |-> FALSE, up |-> FALSE, pings |-> <<>>, pinged |-> 0,
                      content |-> content, deflated |-> deflated, at |-> 0, closed |-> FALSE]
    BY DEF W!Init
  <1>3. content \in Seq(Text) \ {<<>>} /\ Len(content) \in Nat
    BY ClientsAssumption, LenProperties
  <1>4. server \in WsServers /\ WsFresh(server) /\ server.content = content /\ server.at = 0
    BY <1>2, <1>3, Empty DEF WsServers, WsFresh
  <1>5. local \in WsLocals /\ local.buf = <<>> /\ ~local.compressed /\ local.got = <<>>
    BY Empty DEF W!Init, WsLocals
  <1>6. WsTypes
    BY <1>1, <1>3, <1>4, <1>5, Empty DEF WsTypes
  <1>7. WsEchoes(toServer, server)
    BY <1>1, <1>4, EmptyLen DEF WsEchoes, WsFresh
  <1> QED BY <1>1, <1>4, <1>5, <1>6, <1>7 DEF WsInv, WsStage

LEMMA WsMove ==
    ASSUME NEW deflated, NEW most, NEW a, NEW r, NEW b, <<a, r, b>> \in WsSteps(deflated, most)
    PROVE  a \in WsPlaces /\ r \in WsFrames /\ b \in WsPlaces /\ WsMoves(deflated, most, a, r, b)
  BY DEF WsSteps

LEMMA WsMoved ==
    ASSUME NEW deflated, NEW most, NEW a \in WsPlaces, NEW r \in WsFrames, NEW b \in WsPlaces,
           WsMoves(deflated, most, a, r, b)
    PROVE  <<a, r, b>> \in WsSteps(deflated, most)
  BY DEF WsSteps

\* A command more on its way: a PONG that echoes the next ping, or another one.
LEMMA WsWrite ==
    ASSUME NEW q \in Seq(WsCommands), NEW s \in WsServers, NEW c \in WsCommands, WsEchoes(q, s),
           \A i \in 1 .. Len(q) : q[i].verb = "PONG",
           c.verb = "PONG" => c.arg = WsOldest(s) + Len(q) /\ WsOldest(s) + Len(q) < s.pinged
    PROVE  /\ Append(q, c) \in Seq(WsCommands) /\ Len(Append(q, c)) = Len(q) + 1
           /\ \A i \in 1 .. Len(q) + 1 : Append(q, c)[i] = IF i <= Len(q) THEN q[i] ELSE c
           /\ WsEchoes(Append(q, c), s)
  <1> DEFINE k == Len(q)
             j == Append(q, c)
             n == Len(s.pings)
  <1>1. /\ k \in Nat /\ j \in Seq(WsCommands) /\ Len(j) = k + 1
        /\ \A i \in 1 .. k + 1 : j[i] = IF i <= k THEN q[i] ELSE c
    OBVIOUS
  <1>2. n \in Nat /\ s.pinged \in Nat /\ WsOldest(s) = s.pinged - n
    BY LenProperties DEF WsServers, WsOldest
  <1> HIDE DEF k, j, n
  <1>3. ASSUME NEW i \in 1 .. k + 1
        PROVE  IF j[i].verb = "PONG" THEN i <= n /\ j[i].arg = WsOldest(s) + i - 1 ELSE i = k + 1
    <2>1. CASE i <= k
      <3>1. i \in 1 .. k
        BY <1>1, <2>1
      <3>2. j[i] = q[i] /\ q[i].verb = "PONG"
        BY <1>1, <2>1, <3>1 DEF k
      <3> QED BY <3>1, <3>2 DEF WsEchoes, k, n
    <2>2. CASE ~(i <= k)
      <3>1. i = k + 1 /\ j[i] = c
        BY <1>1, <2>2
      <3>2. CASE c.verb = "PONG"
        <4>1. c.arg = WsOldest(s) + k /\ WsOldest(s) + k < s.pinged
          BY <3>2 DEF k
        <4>2. s.pinged - n + k < s.pinged /\ c.arg = s.pinged - n + k
          BY <1>2, <4>1
        <4>3. k + 1 <= n /\ s.pinged - n + k = s.pinged - n + (k + 1) - 1
          BY <1>1, <1>2, <4>2
        <4> QED BY <1>2, <3>1, <4>2, <4>3
      <3> QED BY <3>1, <3>2
    <2> QED BY <2>1, <2>2
  <1>4. WsEchoes(j, s)
    BY <1>1, <1>3 DEF WsEchoes, n
  <1> QED BY <1>1, <1>4 DEF k, j

LEMMA WsClient == WsInv /\ W!Client => WsInv'
  <1> SUFFICES ASSUME WsInv, W!Client PROVE WsInv'
    OBVIOUS
  <1>1. /\ server \in WsServers /\ local \in WsLocals /\ toServer \in Seq(WsCommands) /\ sent \in Nat /\ inStep = TRUE
        /\ server.at <= Len(server.content)
    BY DEF WsInv, WsTypes
  <1>2. WsStage /\ WsEchoes(toServer, server) /\ (pc # "done" => result = "none")
    BY DEF WsInv
  <1>3. UNCHANGED server
    BY DEF W!Client, W!Begin, W!Receive, W!Broken, W!Timeout
  <1>4. sent + 1 \in Nat
    BY <1>1
  <1>5. ASSUME W!Return("error"), local' \in WsLocals, inStep' = TRUE PROVE WsInv'
    <2>1. pc' = "done" /\ result' = "error" /\ UNCHANGED <<sent, toServer>>
      BY <1>5 DEF W!Return
    <2>2. WsTypes' /\ WsEchoes(toServer', server')
      BY <1>1, <1>2, <1>3, <1>5, <2>1 DEF WsTypes
    <2>3. WsStage' /\ W!Whole'
      BY <2>1 DEF WsStage, W!Whole
    <2> QED BY <2>1, <2>2, <2>3 DEF WsInv
  <1>6. CASE W!Begin
    <2> DEFINE c == [verb |-> "GET", arg |-> "", n |-> sent + 1]
    <2>1. /\ pc = "start" /\ pc' = "upgrade" /\ sent' = sent + 1 /\ toServer' = Append(toServer, c)
          /\ UNCHANGED <<result, local, toClient, inStep>>
      BY <1>6 DEF W!Begin, W!Ask
    <2>2. sent = 0 /\ toServer = <<>> /\ toClient = <<>> /\ WsFresh(server) /\ local.buf = <<>> /\ ~local.compressed
          /\ local.got = <<>>
      BY <1>2, <2>1 DEF WsStage
    <2>3. c \in WsCommands /\ c.verb # "PONG"
      BY <1>4 DEF WsCommands
    <2>4. sent + 1 = 1
      BY <2>2
    <2>5. c = [verb |-> "GET", arg |-> "", n |-> 1]
      BY <2>4
    <2> HIDE DEF c
    <2>6. toServer' \in Seq(WsCommands) /\ WsEchoes(toServer', server)
      <3>1. \A i \in 1 .. Len(toServer) : toServer[i].verb = "PONG"
        BY <2>2, EmptyLen
      <3> QED BY <1>1, <1>2, <2>1, <2>3, <3>1, WsWrite
    <2>7. toServer' = <<c>>
      BY <2>1, <2>2, One
    <2>8. Asked("GET", 1, toServer', toClient')
      BY <2>1, <2>2, <2>5, <2>7 DEF Asked
    <2>9. WsTypes'
      BY <1>1, <1>3, <1>4, <2>1, <2>6 DEF WsTypes
    <2>10. WsStage'
      BY <1>3, <2>1, <2>2, <2>4, <2>8 DEF WsStage
    <2> QED BY <1>2, <1>3, <2>1, <2>6, <2>9, <2>10 DEF WsInv
  <1>7. CASE W!Receive
    <2> DEFINE r == Head(toClient)
    <2>1. toClient # <<>> /\ (W!Upgrade(r) \/ W!Control(r) \/ W!DataFrame(r))
      BY <1>7 DEF W!Receive
    <2> HIDE DEF r
    <2>2. CASE W!Upgrade(r)
      <3>1. /\ pc = "upgrade" /\ toClient' = Tail(toClient) /\ inStep' = (inStep /\ r.re = sent)
            /\ IF r.status = 101 /\ r.accept
               THEN W!Goto("message") /\ local' = [local EXCEPT !.pmd = r.pmd]
               ELSE W!Return("error") /\ UNCHANGED local
        BY <2>2 DEF W!Upgrade, W!Take
      <3>2. /\ sent = 1 /\ toServer = <<>> /\ toClient \in Seq(WsReplies) /\ r \in WsUpgrades
            /\ IF server.up THEN WsCourse(Tail(toClient), server, local.buf, local.compressed, Len(toServer))
               ELSE Tail(toClient) = <<>> /\ ~r.accept
        BY <1>2, <2>1, <3>1 DEF WsStage, Asked, r
      <3>3. r.re = 1 /\ r.pmd \in BOOLEAN
        BY <3>2 DEF WsUpgrades
      <3>4. inStep' = TRUE
        BY <1>1, <3>1, <3>2, <3>3
      <3>5. CASE r.status = 101 /\ r.accept
        <4>1. /\ pc' = "message" /\ UNCHANGED <<sent, toServer, result>> /\ local' = [local EXCEPT !.pmd = r.pmd]
          BY <3>1, <3>5 DEF W!Goto
        <4>2. /\ local' \in WsLocals /\ local'.buf = local.buf /\ local'.compressed = local.compressed
              /\ local'.got = local.got
          BY <1>1, <3>3, <4>1 DEF WsLocals
        <4>3. WsTypes'
          BY <1>1, <1>3, <3>4, <4>1, <4>2 DEF WsTypes
        <4>4. WsCourse(toClient', server', local'.buf, local'.compressed, Len(toServer')) /\ server.up
          BY <1>3, <3>1, <3>2, <3>5, <4>1, <4>2
        <4>5. \A i \in 1 .. Len(toServer') : toServer'[i].verb = "PONG"
          BY <3>2, <4>1, EmptyLen
        <4>6. local.got = <<>>
          BY <1>2, <3>1 DEF WsStage
        <4>7. WsStage'
          BY <1>3, <4>1, <4>2, <4>4, <4>5, <4>6 DEF WsStage
        <4> QED BY <1>2, <1>3, <3>1, <4>1, <4>3, <4>7 DEF WsInv
      <3>6. CASE ~(r.status = 101 /\ r.accept)
        BY <1>1, <1>5, <3>1, <3>4, <3>6
      <3> QED BY <3>5, <3>6
    <2>3. ASSUME pc = "message"
          PROVE  /\ server.up /\ local.got = <<>> /\ (\A i \in 1 .. Len(toServer) : toServer[i].verb = "PONG")
                 /\ toClient \in Seq(WsFrames)
                 /\ \E a, m \in WsPlaces :
                        /\ WsReads(server, local.buf, local.compressed, Len(toServer), a)
                        /\ <<a, r, m>> \in WsSteps(server.deflated, server.pinged)
                        /\ Course(WsPlaces, WsSteps(server.deflated, server.pinged), Tail(toClient), m, WsNow(server))
      <3>1. /\ server.up /\ local.got = <<>> /\ \A i \in 1 .. Len(toServer) : toServer[i].verb = "PONG"
            /\ WsCourse(toClient, server, local.buf, local.compressed, Len(toServer))
        BY <1>2, <2>3 DEF WsStage
      <3>2. toClient \in Seq(WsFrames)
        BY <3>1 DEF WsCourse
      <3>3. PICK a \in WsPlaces :
                /\ WsReads(server, local.buf, local.compressed, Len(toServer), a)
                /\ Course(WsPlaces, WsSteps(server.deflated, server.pinged), toClient, a, WsNow(server))
        BY <3>1 DEF WsCourse
      <3>4. PICK m \in WsPlaces :
                /\ <<a, r, m>> \in WsSteps(server.deflated, server.pinged)
                /\ Course(WsPlaces, WsSteps(server.deflated, server.pinged), Tail(toClient), m, WsNow(server))
        BY <2>1, <3>2, <3>3, CourseRead DEF r
      <3> QED BY <3>1, <3>2, <3>3, <3>4
    <2>4. ASSUME W!Bye, local' \in WsLocals, inStep' = TRUE, pc = "message",
                 \/ local'.got = W!Meaning(server)
                 \/ local'.got = <<>> /\ server.closed /\ server.at < Len(server.content)
          PROVE  WsInv'
      <3> DEFINE c == [verb |-> "CLOSE", arg |-> "", n |-> sent + 1]
      <3>1. pc' = "done" /\ result' = "ok" /\ sent' = sent + 1 /\ toServer' = Append(toServer, c)
        BY <2>4 DEF W!Bye, W!Write
      <3>2. c \in WsCommands /\ c.verb = "CLOSE"
        BY <1>4 DEF WsCommands
      <3> HIDE DEF c
      <3>3. /\ toServer' \in Seq(WsCommands) /\ WsEchoes(toServer', server) /\ Len(toServer') = Len(toServer) + 1
            /\ \A i \in 1 .. Len(toServer) + 1 : toServer'[i] = IF i <= Len(toServer) THEN toServer[i] ELSE c
        <4>1. \A i \in 1 .. Len(toServer) : toServer[i].verb = "PONG"
          BY <2>3, <2>4
        <4> QED BY <1>1, <1>2, <3>1, <3>2, <4>1, WsWrite
      <3>4. \A i \in 1 .. Len(toServer) : toServer[i].verb = "PONG"
        BY <2>3, <2>4
      <3>5. \A i \in 1 .. Len(toServer') : toServer'[i].verb # "GET"
        <4>1. Len(toServer) \in Nat
          BY <1>1, LenProperties
        <4>2. \A i \in 1 .. Len(toServer) + 1 : i <= Len(toServer) => i \in 1 .. Len(toServer)
          BY <4>1
        <4> QED BY <3>2, <3>3, <3>4, <4>2
      <3>6. WsTypes'
        BY <1>1, <1>3, <1>4, <2>4, <3>1, <3>3 DEF WsTypes
      <3>7. WsStage'
        BY <3>1 DEF WsStage
      <3>8. W!Whole'
        BY <1>3, <2>4 DEF W!Whole, W!Meaning
      <3> QED BY <1>3, <3>1, <3>3, <3>5, <3>6, <3>7, <3>8 DEF WsInv
    <2>5. ASSUME NEW m \in WsPlaces, pc = "message", pc' = pc, UNCHANGED result, local' \in WsLocals, local'.got = <<>>, inStep' = TRUE,
                 sent' \in Nat, toClient' = Tail(toClient), toServer' \in Seq(WsCommands), WsEchoes(toServer', server),
                 (\A i \in 1 .. Len(toServer') : toServer'[i].verb = "PONG"),
                 WsReads(server, local'.buf, local'.compressed, Len(toServer'), m),
                 Course(WsPlaces, WsSteps(server.deflated, server.pinged), Tail(toClient), m, WsNow(server))
          PROVE  WsInv'
      <3>1. WsTypes'
        BY <1>1, <1>3, <2>5 DEF WsTypes
      <3>2. Tail(toClient) \in Seq(WsFrames)
        BY <2>1, <2>3, <2>5, Reading
      <3>3. WsCourse(Tail(toClient), server, local'.buf, local'.compressed, Len(toServer'))
        BY <2>5, <3>2 DEF WsCourse
      <3>4. WsStage'
        BY <1>3, <2>3, <2>5, <3>3 DEF WsStage
      <3> QED BY <1>2, <1>3, <2>5, <3>1, <3>4 DEF WsInv
    <2>6. Len(toServer) \in Nat /\ WsOldest(server) \in Nat
      <3>1. Len(toServer) \in Nat /\ Len(server.pings) \in Nat /\ server.pinged \in Nat
        BY <1>1, LenProperties DEF WsServers
      <3>2. Len(server.pings) <= server.pinged
        BY <1>2 DEF WsEchoes
      <3> QED BY <3>1, <3>2 DEF WsOldest
    <2>7. CASE W!Control(r)
      <3>1. /\ pc = "message" /\ r.type \in {"PING", "PONG", "CLOSE"} /\ toClient' = Tail(toClient) /\ UNCHANGED <<inStep, local>>
            /\ \/ r.type = "PING" /\ W!Write("PONG", r.payload) /\ UNCHANGED <<pc, result>>
               \/ r.type = "PONG" /\ W!Goto(pc)
               \/ r.type = "CLOSE" /\ W!Bye
        BY <2>7 DEF W!Control, W!Skip
      <3>2. PICK a, m \in WsPlaces :
              /\ WsReads(server, local.buf, local.compressed, Len(toServer), a)
              /\ <<a, r, m>> \in WsSteps(server.deflated, server.pinged)
              /\ Course(WsPlaces, WsSteps(server.deflated, server.pinged), Tail(toClient), m, WsNow(server))
        BY <2>3, <3>1
      <3>3. WsMoves(server.deflated, server.pinged, a, r, m)
        BY <3>2, WsMove
      <3>4. a.parts \in Seq(Text) /\ a.ping \in Nat /\ a.first \in BOOLEAN
        BY DEF WsPlaces
      <3>5. a.parts # <<>> /\ a.ping = WsOldest(server) + Len(toServer)
        BY <3>2 DEF WsReads
      <3>6. toClient \in Seq(WsFrames) /\ Tail(toClient) \in Seq(WsFrames)
        BY <2>1, <2>3, <3>1, Reading
      <3>7. CASE r.type = "PING"
        <4>1. r.payload = a.ping /\ a.ping < server.pinged /\ m = WsPlace(a.parts, a.ping + 1, FALSE, a.first)
          BY <3>3, <3>7 DEF WsMoves
        <4> DEFINE c == [verb |-> "PONG", arg |-> a.ping, n |-> sent + 1]
        <4>2. sent' = sent + 1 /\ toServer' = Append(toServer, c) /\ UNCHANGED <<pc, result>>
          BY <3>1, <3>7, <4>1 DEF W!Write
        <4>3. c \in WsCommands /\ c.verb = "PONG" /\ c.arg = a.ping
          BY <1>4, <3>4 DEF WsCommands
        <4> HIDE DEF c
        <4>4. /\ toServer' \in Seq(WsCommands) /\ WsEchoes(toServer', server) /\ Len(toServer') = Len(toServer) + 1
              /\ \A i \in 1 .. Len(toServer) + 1 : toServer'[i] = IF i <= Len(toServer) THEN toServer[i] ELSE c
          <5>1. \A i \in 1 .. Len(toServer) : toServer[i].verb = "PONG"
            BY <2>3, <3>1
          <5> QED BY <1>1, <1>2, <3>5, <4>1, <4>2, <4>3, <5>1, WsWrite
        <4>5. \A i \in 1 .. Len(toServer') : toServer'[i].verb = "PONG"
          <5>1. \A i \in 1 .. Len(toServer) + 1 : i <= Len(toServer) => i \in 1 .. Len(toServer)
            BY <2>6
          <5>2. \A i \in 1 .. Len(toServer) : toServer[i].verb = "PONG"
            BY <2>3, <3>1
          <5> QED BY <4>3, <4>4, <5>1, <5>2
        <4>6. a.ping + 1 \in Nat /\ a.ping + 1 = WsOldest(server) + (Len(toServer) + 1)
          BY <2>6, <3>4, <3>5
        <4>7. m.parts = a.parts /\ m.ping = a.ping + 1 /\ m.first = a.first
          BY <4>1 DEF WsPlace
        <4>8. WsReads(server, local'.buf, local'.compressed, Len(toServer'), m)
          BY <3>1, <3>2, <4>4, <4>6, <4>7 DEF WsReads
        <4>9. sent' \in Nat /\ local' \in WsLocals /\ inStep' = TRUE /\ local'.got = <<>>
          BY <1>1, <1>4, <2>3, <3>1, <4>2
        <4> QED BY <2>5, <3>1, <3>2, <4>2, <4>4, <4>5, <4>8, <4>9
      <3>8. CASE r.type = "CLOSE"
        <4>1. m = WsPlace(a.parts, a.ping, TRUE, a.first)
          BY <3>3, <3>8 DEF WsMoves
        <4>2. m.closed = TRUE /\ m.parts = a.parts
          BY <4>1 DEF WsPlace
        <4>3. Tail(toClient) = <<>>
          <5>1. ASSUME Tail(toClient) # <<>> PROVE FALSE
            <6>1. PICK x \in WsPlaces : <<m, Head(Tail(toClient)), x>> \in WsSteps(server.deflated, server.pinged)
              BY <3>2, <3>6, <5>1, CourseRead
            <6> QED BY <4>2, <6>1, WsMove DEF WsMoves
          <5> QED BY <5>1
        <4>4. m = WsNow(server)
          BY <3>2, <4>3, CourseNone
        <4>5. server.closed /\ WsNow(server).parts # <<>>
          BY <1>1, <3>5, <4>2, <4>4, WsWhere
        <4>6. server.at < Len(server.content)
          <5>1. server.at = Len(server.content) => WsNow(server).parts = <<>>
            BY <1>1, WsWhere
          <5>2. server.at \in Nat /\ Len(server.content) \in Nat
            BY <1>1, LenProperties DEF WsServers
          <5> QED BY <1>1, <4>5, <5>1, <5>2
        <4>7. local'.got = <<>> /\ local' \in WsLocals /\ inStep' = TRUE
          BY <1>1, <2>3, <3>1
        <4> QED BY <2>4, <3>1, <3>8, <4>5, <4>6, <4>7
      <3>9. r.type # "PONG"
        BY <3>3 DEF WsMoves
      <3> QED BY <3>1, <3>7, <3>8, <3>9
    <2>8. CASE W!DataFrame(r)
      <3> DEFINE buf == Append(local.buf, r.payload)
                 compressed == local.compressed \/ r.rsv1
      <3>1. /\ pc = "message" /\ r.type \in {"TEXT", "CONT"} /\ toClient' = Tail(toClient) /\ UNCHANGED inStep
            /\ \/ W!Return("error") /\ UNCHANGED local
               \/ r.fin /\ W!Bye /\ local' = [local EXCEPT !.got = W!Finished(buf, compressed)]
               \/ ~r.fin /\ W!Goto(pc) /\ local' = [local EXCEPT !.buf = buf, !.compressed = compressed, !.chain = TRUE]
        BY <2>8 DEF W!DataFrame, W!Skip
      <3>2. PICK a, m \in WsPlaces :
              /\ WsReads(server, local.buf, local.compressed, Len(toServer), a)
              /\ <<a, r, m>> \in WsSteps(server.deflated, server.pinged)
              /\ Course(WsPlaces, WsSteps(server.deflated, server.pinged), Tail(toClient), m, WsNow(server))
        BY <2>3, <3>1
      <3>3. WsMoves(server.deflated, server.pinged, a, r, m)
        BY <3>2, WsMove
      <3>4. /\ a.parts # <<>> /\ r.payload = Head(a.parts) /\ r.rsv1 = (server.deflated /\ a.first)
            /\ r.fin = (Tail(a.parts) = <<>>) /\ m = WsPlace(Tail(a.parts), a.ping, FALSE, FALSE)
        BY <3>1, <3>3 DEF WsMoves
      <3>5. a.parts \in Seq(Text) /\ a.ping \in Nat /\ a.first \in BOOLEAN
        BY DEF WsPlaces
      <3>6. /\ server.content = local.buf \o a.parts /\ a.first = (local.buf = <<>>)
            /\ local.compressed = (server.deflated /\ local.buf # <<>>) /\ a.ping = WsOldest(server) + Len(toServer)
        BY <3>2 DEF WsReads
      <3>7. local.buf \in Seq(Text) /\ server.deflated \in BOOLEAN
        BY <1>1 DEF WsLocals, WsServers
      <3>8. compressed = server.deflated
        BY <3>4, <3>6, <3>7
      <3>9. buf \in Seq(Text) /\ buf # <<>> /\ buf \o Tail(a.parts) = server.content /\ Tail(a.parts) \in Seq(Text)
        <4>1. buf = Append(local.buf, Head(a.parts)) /\ Head(a.parts) \in Text /\ Tail(a.parts) \in Seq(Text)
          BY <3>4, <3>5, Reading
        <4>2. buf \in Seq(Text) /\ buf \o Tail(a.parts) = server.content
          <5>1. Append(local.buf, Head(a.parts)) \in Seq(Text) /\ Append(local.buf, Head(a.parts)) \o Tail(a.parts) = local.buf \o a.parts
            BY <3>4, <3>5, <3>7, ReadOn
          <5> HIDE DEF buf
          <5> QED BY <3>6, <4>1, <5>1
        <4>3. buf # <<>>
          BY <3>7, <4>1
        <4> QED BY <4>1, <4>2, <4>3
      <3>10. m.parts = Tail(a.parts) /\ m.ping = a.ping /\ m.first = FALSE
        BY <3>4, <3>5, <3>9, WsPlaced
      <3> HIDE DEF buf, compressed
      <3>11. CASE W!Return("error") /\ UNCHANGED local
        BY <1>1, <1>5, <3>1, <3>11
      <3>12. CASE r.fin /\ W!Bye /\ local' = [local EXCEPT !.got = W!Finished(buf, compressed)]
        <4>1. buf = server.content
          <5>1. buf \o <<>> = buf
            BY <3>9, AllRead
          <5> QED BY <3>4, <3>9, <3>12, <5>1
        <4>2. W!Finished(buf, compressed) = W!Meaning(server)
          BY <3>8, <4>1 DEF W!Finished, W!Meaning
        <4>3. W!Finished(buf, compressed) \in Seq(Text)
          BY <3>9, ConcatProperties DEF W!Finished, W!Inflated
        <4>4. local' \in WsLocals /\ local'.got = W!Meaning(server)
          BY <1>1, <3>12, <4>2, <4>3 DEF WsLocals
        <4> QED BY <1>1, <2>4, <3>1, <3>12, <4>4
      <3>13. CASE ~r.fin /\ W!Goto(pc) /\ local' = [local EXCEPT !.buf = buf, !.compressed = compressed, !.chain = TRUE]
        <4>1. compressed \in BOOLEAN
          BY <3>7, <3>8
        <4>2. /\ local' \in WsLocals /\ local'.buf = buf /\ local'.compressed = server.deflated
              /\ local'.got = local.got
          BY <1>1, <3>8, <3>9, <3>13, <4>1 DEF WsLocals
        <4>3. pc' = pc /\ UNCHANGED <<sent, toServer, result>>
          BY <3>13 DEF W!Goto
        <4>4. WsReads(server, local'.buf, local'.compressed, Len(toServer'), m)
          BY <3>4, <3>6, <3>7, <3>9, <3>10, <3>13, <4>2, <4>3 DEF WsReads
        <4>5. (\A i \in 1 .. Len(toServer') : toServer'[i].verb = "PONG") /\ local'.got = <<>>
          BY <2>3, <3>1, <4>2, <4>3
        <4> QED BY <1>1, <1>2, <2>5, <3>1, <3>2, <4>2, <4>3, <4>4, <4>5
      <3> QED BY <3>1, <3>11, <3>12, <3>13
    <2> QED BY <2>1, <2>2, <2>7, <2>8
  <1>8. CASE W!Broken
    <2>1. W!Return(IF pc = "farewell" THEN "ok" ELSE "error") /\ UNCHANGED <<local, inStep>>
      BY <1>8 DEF W!Broken
    <2>2. pc # "farewell"
      BY DEF WsInv
    <2> QED BY <1>1, <1>5, <2>1, <2>2
  <1>9. CASE W!Timeout
    BY <1>1, <1>5, <1>9 DEF W!Timeout
  <1> QED BY <1>6, <1>7, <1>8, <1>9 DEF W!Client

\* The server sends a frame.
LEMMA WsSending ==
    ASSUME WsInv, NEW x \in WsFrames, toClient' = toClient \o <<x>>, UNCHANGED <<pc, result, local, sent, toServer, inStep>>,
           server.up, ~server.closed, server' \in WsServers, server'.at <= Len(server'.content), server'.up,
           server'.content = server.content, server'.deflated = server.deflated, server.pinged <= server'.pinged,
           WsOldest(server') = WsOldest(server), WsEchoes(toServer, server'),
           WsMoves(server.deflated, server'.pinged, WsNow(server), x, WsNow(server'))
    PROVE  WsInv'
  <1>1. /\ server \in WsServers /\ local \in WsLocals /\ toServer \in Seq(WsCommands) /\ sent \in Nat /\ inStep = TRUE
        /\ server.at <= Len(server.content)
    BY DEF WsInv, WsTypes
  <1>2. WsStage
    BY DEF WsInv
  <1>3. WsTypes'
    BY <1>1 DEF WsTypes
  <1>4. ASSUME NEW q, WsCourse(q, server, local.buf, local.compressed, Len(toServer))
        PROVE  WsCourse(q \o <<x>>, server', local.buf, local.compressed, Len(toServer))
    <2> DEFINE Steps == WsSteps(server.deflated, server.pinged)
               Others == WsSteps(server.deflated, server'.pinged)
    <2>1. q \in Seq(WsFrames)
      BY <1>4 DEF WsCourse
    <2>2. PICK a \in WsPlaces :
            WsReads(server, local.buf, local.compressed, Len(toServer), a) /\ Course(WsPlaces, Steps, q, a, WsNow(server))
      BY <1>4 DEF WsCourse
    <2>3. Steps \subseteq Others
      <3>1. server.pinged \in Nat /\ server'.pinged \in Nat
        BY <1>1 DEF WsServers
      <3>2. ASSUME NEW u \in WsPlaces, NEW r \in WsFrames, NEW v \in WsPlaces,
                   WsMoves(server.deflated, server.pinged, u, r, v)
            PROVE  WsMoves(server.deflated, server'.pinged, u, r, v)
        <4>1. u.ping < server.pinged => u.ping < server'.pinged
          <5>1. u.ping \in Nat
            BY DEF WsPlaces
          <5> QED BY <3>1, <5>1
        <4> QED BY <3>2, <4>1 DEF WsMoves
      <3> QED BY <3>2 DEF WsSteps
    <2>4. WsNow(server) \in WsPlaces /\ WsNow(server') \in WsPlaces
      BY <1>1, WsWhere
    <2>5. <<WsNow(server), x, WsNow(server')>> \in Others
      BY <2>4, WsMoved
    <2> HIDE DEF Steps, Others
    <2>6. Course(WsPlaces, Others, q, a, WsNow(server))
      BY <2>2, <2>3, CourseMore
    <2>7. Course(WsPlaces, Others, q \o <<x>>, a, WsNow(server'))
      BY <2>1, <2>4, <2>5, <2>6, CourseSent
    <2>8. q \o <<x>> \in Seq(WsFrames)
      BY <2>1, OneIn, ConcatProperties
    <2>9. WsReads(server', local.buf, local.compressed, Len(toServer), a)
      BY <2>2 DEF WsReads
    <2> QED BY <2>7, <2>8, <2>9 DEF WsCourse, Others
  <1>5. CASE pc = "upgrade"
    <2>1. /\ sent = 1 /\ toServer = <<>> /\ toClient \in Seq(WsReplies) /\ toClient # <<>> /\ Head(toClient) \in WsUpgrades
          /\ WsCourse(Tail(toClient), server, local.buf, local.compressed, Len(toServer))
      BY <1>2, <1>5 DEF WsStage, WsFresh
    <2>2. x \in WsReplies
      BY DEF WsReplies
    <2>3. toClient' # <<>> /\ Head(toClient') = Head(toClient) /\ Tail(toClient') = Tail(toClient) \o <<x>>
          /\ toClient' \in Seq(WsReplies)
      BY <2>1, <2>2, OneIn, JoinedTail, ConcatProperties
    <2>4. WsCourse(Tail(toClient'), server', local.buf, local.compressed, Len(toServer))
      BY <1>4, <2>1, <2>3
    <2>5. WsStage'
      BY <1>2, <1>5, <2>1, <2>3, <2>4 DEF WsStage
    <2> QED BY <1>3, <1>5, <2>5 DEF WsInv
  <1>6. CASE pc = "message"
    <2>1. /\ (\A i \in 1 .. Len(toServer) : toServer[i].verb = "PONG")
          /\ WsCourse(toClient, server, local.buf, local.compressed, Len(toServer))
      BY <1>2, <1>6 DEF WsStage
    <2>2. WsCourse(toClient', server', local.buf, local.compressed, Len(toServer))
      BY <1>4, <2>1
    <2>3. WsStage'
      BY <1>2, <1>6, <2>1, <2>2 DEF WsStage
    <2> QED BY <1>3, <1>6, <2>3 DEF WsInv
  <1>7. CASE pc = "done"
    <2>1. WsStage'
      BY <1>7 DEF WsStage
    <2>2. W!Whole'
      BY <1>7 DEF WsInv, W!Whole, W!Meaning
    <2> QED BY <1>3, <1>7, <2>1, <2>2 DEF WsInv
  <1> QED BY <1>2, <1>5, <1>6, <1>7 DEF WsInv, WsStage, WsFresh

LEMMA WsServer == WsInv /\ W!Server => WsInv'
  <1> SUFFICES ASSUME WsInv, W!Server PROVE WsInv'
    OBVIOUS
  <1>1. /\ server \in WsServers /\ local \in WsLocals /\ toServer \in Seq(WsCommands) /\ sent \in Nat /\ inStep = TRUE
        /\ server.at <= Len(server.content)
    BY DEF WsInv, WsTypes
  <1>2. WsStage /\ WsEchoes(toServer, server)
    BY DEF WsInv
  <1>3. UNCHANGED <<pc, result, local, sent, inStep>>
    BY DEF W!Server, W!Serve, W!Fragment, W!Send, W!Answer
  <1>4. CASE W!Fragment
    <2> DEFINE n == server.at
               content == server.content
               x(wrong) == [type |-> IF (n = 0) # wrong THEN "TEXT" ELSE "CONT", rsv1 |-> server.deflated /\ n = 0,
                            fin |-> n + 1 = Len(content), payload |-> content[n + 1], re |-> 0]
    <2>1. /\ server.up /\ ~server.closed /\ n < Len(content) /\ server' = [server EXCEPT !.at = n + 1] /\ UNCHANGED toServer
          /\ \E wrong \in BOOLEAN : toClient' = toClient \o <<x(wrong)>>
      BY <1>4 DEF W!Fragment, W!Send
    <2>2. PICK wrong \in BOOLEAN : toClient' = toClient \o <<x(wrong)>>
      BY <2>1
    <2>3. n \in Nat /\ Len(content) \in Nat /\ content \in Seq(Text) /\ n + 1 \in 1 .. Len(content)
      <3>1. n \in Nat /\ Len(content) \in Nat /\ content \in Seq(Text)
        BY <1>1, LenProperties DEF WsServers
      <3> QED BY <2>1, <3>1
    <2>4. content[n + 1] \in Text
      BY <2>3, ElementOfSeq
    <2>5. server.deflated \in BOOLEAN
      BY <1>1 DEF WsServers
    <2>6. /\ x(wrong) \in WsFrames /\ x(wrong).type \in {"TEXT", "CONT"} /\ x(wrong).rsv1 = (server.deflated /\ n = 0)
          /\ x(wrong).fin = (n + 1 = Len(content)) /\ x(wrong).payload = content[n + 1]
      <3> DEFINE type == IF (n = 0) # wrong THEN "TEXT" ELSE "CONT"
                 rsv1 == server.deflated /\ n = 0
                 fin == n + 1 = Len(content)
      <3>1. type \in {"TEXT", "CONT"}
        OBVIOUS
      <3>2. rsv1 \in BOOLEAN /\ fin \in BOOLEAN
        BY <2>5
      <3>3. x(wrong) = [type |-> type, rsv1 |-> rsv1, fin |-> fin, payload |-> content[n + 1], re |-> 0]
        OBVIOUS
      <3> HIDE DEF type, x, n, content
      <3>4. x(wrong).type = type /\ x(wrong).rsv1 = rsv1 /\ x(wrong).fin = fin /\ x(wrong).payload = content[n + 1]
        BY <3>3
      <3> HIDE DEF rsv1, fin
      <3>5. x(wrong) \in WsFrames
        BY <2>4, <3>1, <3>2, <3>3 DEF WsFrames
      <3> QED BY <3>1, <3>4, <3>5 DEF rsv1, fin
    <2> HIDE DEF x
    <2>7. server' \in WsServers /\ server'.at = n + 1 /\ server'.content = content /\ server'.up /\ server'.closed = server.closed
          /\ server'.deflated = server.deflated /\ server'.pinged = server.pinged /\ server'.pings = server.pings
      <3>1. n + 1 \in Nat
        BY <2>3
      <3> QED BY <1>1, <2>1, <3>1 DEF WsServers
    <2>8. server'.at <= Len(server'.content)
      BY <2>3, <2>7
    <2>9. WsOldest(server') = WsOldest(server) /\ WsEchoes(toServer, server') /\ server.pinged <= server'.pinged
      <3>1. server.pinged \in Nat
        BY <1>1 DEF WsServers
      <3> QED BY <1>2, <2>7, <3>1 DEF WsOldest, WsEchoes
    <2>10. /\ WsNow(server).parts # <<>> /\ Head(WsNow(server).parts) = content[n + 1]
           /\ Tail(WsNow(server).parts) = SubSeq(content, n + 2, Len(content))
           /\ (Tail(WsNow(server).parts) = <<>>) = (n + 1 = Len(content))
           /\ WsNow(server).first = (n = 0) /\ ~WsNow(server).closed /\ WsNow(server).ping = server.pinged
      <3>1. /\ WsNow(server).first = (server.at = 0) /\ WsNow(server).closed = server.closed
            /\ WsNow(server).ping = server.pinged
        BY <1>1, WsWhere
      <3>2. /\ WsNow(server).parts # <<>> /\ Head(WsNow(server).parts) = server.content[server.at + 1]
            /\ Tail(WsNow(server).parts) = SubSeq(server.content, server.at + 2, Len(server.content))
            /\ (Tail(WsNow(server).parts) = <<>>) = (server.at + 1 = Len(server.content))
        BY <1>1, <2>1, WsWhere
      <3> QED BY <2>1, <3>1, <3>2
    <2>11. WsNow(server') = WsPlace(Tail(WsNow(server).parts), WsNow(server).ping, FALSE, FALSE)
      <3>1. server'.at + 1 = n + 2 /\ (server'.at = 0) = FALSE /\ server'.closed = FALSE
        BY <1>1, <2>1, <2>3, <2>7 DEF WsServers
      <3> QED BY <2>7, <2>10, <3>1 DEF WsNow
    <2>12. WsMoves(server.deflated, server'.pinged, WsNow(server), x(wrong), WsNow(server'))
      <3> DEFINE a == WsNow(server)
                 b == WsNow(server')
                 r == x(wrong)
      <3>1. ~a.closed /\ r.type \in {"TEXT", "CONT"} /\ a.parts # <<>> /\ r.payload = Head(a.parts)
            /\ r.rsv1 = (server.deflated /\ a.first) /\ r.fin = (Tail(a.parts) = <<>>) /\ b = WsPlace(Tail(a.parts), a.ping, FALSE, FALSE)
        BY <2>6, <2>10, <2>11
      <3> HIDE DEF a, b, r
      <3>2. WsMoves(server.deflated, server'.pinged, a, r, b)
        BY <3>1 DEF WsMoves
      <3> QED BY <3>2 DEF a, b, r
    <2> QED BY <1>3, <2>1, <2>2, <2>6, <2>7, <2>8, <2>9, <2>12, WsSending
  <1>5. CASE W!Serve
    <2> DEFINE c == Head(toServer)
    <2>1. /\ toServer # <<>>
          /\ \/ /\ c.verb = "GET"
                /\ \E r \in {W!Response(101, TRUE, TRUE, c.n), W!Response(101, TRUE, FALSE, c.n),
                             W!Response(101, FALSE, FALSE, c.n), W!Response(403, FALSE, FALSE, c.n)} :
                      W!Answer([server EXCEPT !.up = r.accept, !.deflated = @ /\ r.pmd], <<r>>)
             \/ /\ c.verb = "PONG"
                /\ W!Answer(IF server.pings = <<>> \/ Head(server.pings) # c.arg THEN W!Refused(server)
                            ELSE [server EXCEPT !.pings = Tail(@)], <<>>)
             \/ c.verb = "CLOSE" /\ W!Answer([server EXCEPT !.alive = FALSE], <<>>)
      BY <1>5 DEF W!Serve
    <2>2. toServer' = Tail(toServer)
      BY <2>1 DEF W!Answer
    <2>3. /\ c = toServer[1] /\ c \in WsCommands /\ Len(toServer) \in Nat \ {0}
          /\ Tail(toServer) \in Seq(WsCommands) /\ Len(Tail(toServer)) = Len(toServer) - 1
          /\ \A i \in 1 .. Len(toServer) - 1 : Tail(toServer)[i] = toServer[i + 1]
      BY <1>1, <2>1, Reading
    <2> HIDE DEF c
    <2>4. 1 \in 1 .. Len(toServer) /\ \A i \in 1 .. Len(toServer) - 1 : i + 1 \in 1 .. Len(toServer)
      BY <2>3
    <2>5. c.verb # "PONG" => toServer' = <<>> /\ Len(toServer) = 1
      <3>1. ASSUME c.verb # "PONG" PROVE toServer' = <<>> /\ Len(toServer) = 1
        <4>1. Len(toServer) = 1
          BY <1>2, <2>3, <2>4, <3>1 DEF WsEchoes
        <4>2. Len(Tail(toServer)) = 0
          BY <2>3, <4>1
        <4> QED BY <2>2, <2>3, <4>1, <4>2, NoneLeft
      <3> QED BY <3>1
    <2>6. ASSUME server' \in WsServers, server'.at = server.at, server'.content = server.content,
                 WsEchoes(toServer', server'), pc = "done", server'.closed = server.closed,
                 c.verb # "GET" => server'.deflated = server.deflated
          PROVE  WsInv'
      <3>1. WsTypes'
        BY <1>1, <1>3, <2>2, <2>3, <2>6 DEF WsTypes
      <3>2. WsStage'
        BY <1>3, <2>6 DEF WsStage
      <3>3. result = "ok" => c.verb # "GET" /\ \A i \in 1 .. Len(toServer') : toServer'[i].verb # "GET"
        BY <2>2, <2>3, <2>4, <2>6 DEF WsInv
      <3>4. W!Whole'
        BY <1>3, <2>6, <3>3 DEF WsInv, W!Whole, W!Meaning
      <3> QED BY <1>3, <2>6, <3>1, <3>2, <3>3, <3>4 DEF WsInv
    <2>7. CASE c.verb = "GET"
      <3>1. PICK r \in {W!Response(101, TRUE, TRUE, c.n), W!Response(101, TRUE, FALSE, c.n),
                        W!Response(101, FALSE, FALSE, c.n), W!Response(403, FALSE, FALSE, c.n)} :
              W!Answer([server EXCEPT !.up = r.accept, !.deflated = @ /\ r.pmd], <<r>>)
        BY <2>1, <2>7
      <3>2. c.n \in Nat
        BY <2>3, <2>7 DEF WsCommands
      <3>3. r \in [status : Nat, accept : BOOLEAN, pmd : BOOLEAN, re : {c.n}]
        <4> DEFINE S == [status : Nat, accept : BOOLEAN, pmd : BOOLEAN, re : {c.n}]
                   y1 == W!Response(101, TRUE, TRUE, c.n)
                   y2 == W!Response(101, TRUE, FALSE, c.n)
                   y3 == W!Response(101, FALSE, FALSE, c.n)
                   y4 == W!Response(403, FALSE, FALSE, c.n)
        <4>1. y1 \in S /\ y2 \in S /\ y3 \in S /\ y4 \in S
          BY DEF W!Response
        <4>2. r = y1 \/ r = y2 \/ r = y3 \/ r = y4
          <5>1. r \in {y1, y2, y3, y4}
            BY <3>1
          <5> HIDE DEF y1, y2, y3, y4
          <5> QED BY <5>1
        <4> HIDE DEF S, y1, y2, y3, y4
        <4>3. r \in S
          BY <4>1, <4>2
        <4> QED BY <4>3 DEF S
      <3>4. server' = [server EXCEPT !.up = r.accept, !.deflated = server.deflated /\ r.pmd] /\ toClient' = toClient \o <<r>>
        BY <3>1 DEF W!Answer
      <3>5. r.accept \in BOOLEAN /\ r.pmd \in BOOLEAN
        BY <3>3
      <3>6. /\ server' \in WsServers /\ server'.at = server.at /\ server'.content = server.content /\ server'.closed = server.closed
            /\ server'.pings = server.pings /\ server'.pinged = server.pinged /\ server'.up = r.accept
        <4>1. (server.deflated /\ r.pmd) \in BOOLEAN
          BY <1>1, <3>5 DEF WsServers
        <4> DEFINE deflated == server.deflated /\ r.pmd
        <4>2. server' = [server EXCEPT !.up = r.accept, !.deflated = deflated] /\ deflated \in BOOLEAN
          BY <3>4, <4>1
        <4> HIDE DEF deflated
        <4> QED BY <1>1, <3>5, <4>2 DEF WsServers
      <3>7. CASE pc = "upgrade"
        <4>1. Asked("GET", 1, toServer, toClient) /\ WsFresh(server) /\ sent = 1 /\ local.buf = <<>> /\ ~local.compressed
              /\ local.got = <<>>
          BY <1>2, <2>1, <3>7 DEF WsStage
        <4>2. c.n = 1 /\ toServer' = <<>> /\ toClient' = <<r>>
          <5>1. Head(toServer).n = 1 /\ Tail(toServer) = <<>> /\ \A y : toClient \o <<y>> = <<y>>
            <6> DEFINE command == [verb |-> "GET", arg |-> "", n |-> 1]
            <6>1. toServer = <<command>> /\ command.n = 1
              BY <4>1 DEF Asked
            <6> HIDE DEF command
            <6>2. Head(toServer).n = 1 /\ Tail(toServer) = <<>>
              BY <6>1, One
            <6>3. toClient = <<>>
              BY <4>1 DEF Asked
            <6> QED BY <6>2, <6>3, One
          <5> QED BY <2>2, <3>4, <5>1 DEF c
        <4>3. r \in WsUpgrades /\ r \in WsReplies
          BY <3>3, <4>2 DEF WsUpgrades, WsReplies
        <4>4. toClient' \in Seq(WsReplies) /\ toClient' # <<>> /\ Head(toClient') = r /\ Tail(toClient') = <<>>
          BY <4>2, <4>3, One, OneIn
        <4>5. server'.at = 0 /\ server'.closed = FALSE /\ server'.pings = <<>> /\ server'.pinged = 0
          BY <3>6, <4>1 DEF WsFresh, WsServers
        <4>6. WsOldest(server') = 0 /\ WsEchoes(toServer', server')
          <5>1. Len(server'.pings) = 0 /\ Len(toServer') = 0 /\ 0 - 0 = 0
            BY <4>2, <4>5, EmptyLen
          <5>2. WsOldest(server') = 0
            BY <4>5, <5>1 DEF WsOldest
          <5>3. 1 .. 0 = {} /\ 0 <= 0
            OBVIOUS
          <5> QED BY <4>5, <5>1, <5>2, <5>3 DEF WsEchoes
        <4>7. server'.up => WsCourse(<<>>, server', local.buf, local.compressed, 0)
          <5> DEFINE a == WsNow(server')
          <5>1. /\ a \in WsPlaces /\ a.parts = server'.content /\ a.ping = 0 /\ a.first = TRUE
            BY <1>1, <3>6, <4>5, WsWhere
          <5>2. server'.content \in Seq(Text) /\ server'.content # <<>>
            BY <3>6 DEF WsServers
          <5>3. <<>> \o server'.content = server'.content
            BY <5>2, AllThere
          <5> HIDE DEF a
          <5>4. WsReads(server', local.buf, local.compressed, 0, a)
            <6>1. local.compressed \in BOOLEAN /\ 0 + 0 = 0
              BY <1>1 DEF WsLocals
            <6>2. local.compressed = (server'.deflated /\ local.buf # <<>>)
              BY <4>1, <6>1
            <6> QED BY <4>1, <4>6, <5>1, <5>2, <5>3, <6>1, <6>2 DEF WsReads
          <5>5. Course(WsPlaces, WsSteps(server'.deflated, server'.pinged), <<>>, a, a)
            BY <5>1, CourseEmpty
          <5> QED BY <5>1, <5>4, <5>5, Empty DEF WsCourse, a
        <4>8. WsTypes'
          BY <1>1, <1>3, <2>2, <2>3, <3>6 DEF WsTypes
        <4>9. WsStage'
          <5>1. Len(toServer') = 0
            BY <4>2, EmptyLen
          <5>2. /\ server'.up => WsCourse(Tail(toClient'), server', local'.buf, local'.compressed, Len(toServer'))
                /\ ~server'.up => Tail(toClient') = <<>> /\ ~Head(toClient').accept
            BY <1>3, <3>6, <4>4, <4>7, <5>1
          <5>3. server'.up \in BOOLEAN
            BY <3>5, <3>6
          <5> QED BY <1>3, <3>7, <4>1, <4>2, <4>3, <4>4, <5>2, <5>3 DEF WsStage
        <4> QED BY <1>3, <3>7, <4>6, <4>8, <4>9 DEF WsInv
      <3>8. CASE pc = "done"
        <4>1. WsEchoes(toServer', server')
          BY <1>2, <2>5, <2>7, <3>6, EmptyLen DEF WsOldest, WsEchoes
        <4> QED BY <2>6, <2>7, <3>6, <3>8, <4>1
      <3>9. pc \in {"upgrade", "done"}
        BY <1>2, <2>1, <2>3, <2>4, <2>7 DEF WsInv, WsStage
      <3> QED BY <3>7, <3>8, <3>9
    <2>8. CASE c.verb = "PONG"
      <3> DEFINE n == Len(server.pings)
                 k == Len(toServer)
                 oldest == WsOldest(server)
                 left == Tail(server.pings)
      <3>1. /\ n \in Nat /\ server.pinged \in Nat /\ n <= server.pinged /\ server.pings \in Seq(Nat)
            /\ oldest = server.pinged - n /\ k \in Nat \ {0}
        BY <1>1, <1>2, <2>3, LenProperties DEF WsServers, WsEchoes, WsOldest
      <3>2. 1 <= n /\ c.arg = oldest + 1 - 1
        BY <1>2, <2>3, <2>4, <2>8 DEF WsEchoes
      <3>3. server.pings # <<>>
        BY <3>1, <3>2, EmptyLen
      <3>4. /\ Head(server.pings) = server.pings[1] /\ left \in Seq(Nat) /\ Len(left) = n - 1
            /\ \A i \in 1 .. n - 1 : left[i] = server.pings[i + 1]
        BY <3>1, <3>3, Reading
      <3>5. Head(server.pings) = c.arg
        <4>1. 1 \in 1 .. n
          BY <3>1, <3>2
        <4> QED BY <1>2, <3>2, <3>4, <4>1 DEF WsEchoes
      <3>6. server' = [server EXCEPT !.pings = left] /\ toClient' = toClient \o <<>>
        BY <2>1, <2>8, <3>3, <3>5 DEF W!Answer
      <3> HIDE DEF n, k, oldest, left
      <3>7. /\ server' \in WsServers /\ server'.at = server.at /\ server'.content = server.content /\ server'.closed = server.closed
            /\ server'.pings = left /\ server'.pinged = server.pinged /\ server'.up = server.up /\ server'.deflated = server.deflated
        BY <1>1, <3>4, <3>6 DEF WsServers
      <3>8. WsOldest(server') = oldest + 1
        <4>1. WsOldest(server') = server.pinged - (n - 1)
          BY <3>4, <3>7 DEF WsOldest
        <4> QED BY <3>1, <4>1
      <3>9. WsEchoes(toServer', server')
        <4>1. \A i \in 1 .. n - 1 : left[i] = oldest + 1 + i - 1
          <5>1. ASSUME NEW i \in 1 .. n - 1 PROVE left[i] = oldest + 1 + i - 1
            <6>1. i + 1 \in 1 .. n /\ oldest + (i + 1) - 1 = oldest + 1 + i - 1
              BY <3>1
            <6>2. server.pings[i + 1] = oldest + (i + 1) - 1
              BY <1>2, <6>1 DEF WsEchoes, n, oldest
            <6> QED BY <3>4, <6>1, <6>2
          <5> QED BY <5>1
        <4>2. ASSUME NEW i \in 1 .. k - 1
              PROVE  IF toServer'[i].verb = "PONG" THEN i <= n - 1 /\ toServer'[i].arg = oldest + 1 + i - 1 ELSE i = k - 1
          <5>1. i + 1 \in 1 .. k /\ oldest + (i + 1) - 1 = oldest + 1 + i - 1 /\ (i + 1 <= n => i <= n - 1) /\ (i + 1 = k => i = k - 1)
            BY <3>1
          <5>2. toServer'[i] = toServer[i + 1]
            BY <2>2, <2>3 DEF k
          <5>3. IF toServer[i + 1].verb = "PONG" THEN i + 1 <= n /\ toServer[i + 1].arg = oldest + (i + 1) - 1 ELSE i + 1 = k
            BY <1>2, <5>1 DEF WsEchoes, n, k, oldest
          <5> QED BY <5>1, <5>2, <5>3
        <4>3. Len(toServer') = k - 1 /\ n - 1 <= server.pinged
          BY <2>2, <2>3, <3>1 DEF k
        <4>4. Len(server'.pings) = n - 1
          BY <3>4, <3>7
        <4> QED BY <3>7, <3>8, <4>1, <4>2, <4>3, <4>4 DEF WsEchoes
      <3>10. CASE pc = "message"
        <4>1. /\ server.up /\ local.got = <<>> /\ \A i \in 1 .. k : toServer[i].verb = "PONG"
              /\ WsCourse(toClient, server, local.buf, local.compressed, k)
          BY <1>2, <3>10 DEF WsStage, k
        <4>2. toClient' = toClient
          <5>1. toClient \in Seq(WsFrames)
            BY <4>1 DEF WsCourse
          <5> QED BY <3>6, <5>1, AllRead
        <4>3. WsNow(server') = WsNow(server)
          BY <3>7 DEF WsNow
        <4>4. Len(toServer') = k - 1
          BY <2>2, <2>3 DEF k
        <4>5. oldest + 1 + (k - 1) = oldest + k
          BY <3>1
        <4>6. WsCourse(toClient', server', local.buf, local.compressed, Len(toServer'))
          BY <3>7, <3>8, <4>1, <4>2, <4>3, <4>4, <4>5 DEF WsCourse, WsReads, oldest
        <4>7. \A i \in 1 .. Len(toServer') : toServer'[i].verb = "PONG"
          BY <2>2, <2>3, <2>4, <4>1 DEF k
        <4>8. WsTypes'
          BY <1>1, <1>3, <2>2, <2>3, <3>7 DEF WsTypes
        <4>9. WsStage'
          BY <1>3, <3>7, <3>10, <4>1, <4>6, <4>7 DEF WsStage
        <4> QED BY <1>3, <3>9, <3>10, <4>8, <4>9 DEF WsInv
      <3>11. CASE pc = "done"
        BY <2>6, <3>7, <3>9, <3>11
      <3>12. pc \in {"message", "done"}
        <4>1. pc = "upgrade" => toServer = <<[verb |-> "GET", arg |-> "", n |-> 1]>>
          BY <1>2, <2>1 DEF WsStage, Asked
        <4>2. pc # "upgrade"
          <5> DEFINE command == [verb |-> "GET", arg |-> "", n |-> 1]
          <5>1. command.verb # "PONG"
            OBVIOUS
          <5> HIDE DEF command
          <5>2. pc = "upgrade" => toServer = <<command>>
            BY <4>1 DEF command
          <5> QED BY <2>3, <2>8, <5>1, <5>2, One
        <4> QED BY <1>2, <2>1, <4>2 DEF WsStage, WsInv
      <3> QED BY <3>10, <3>11, <3>12
    <2>9. CASE c.verb = "CLOSE"
      <3>1. server' = [server EXCEPT !.alive = FALSE]
        BY <2>1, <2>9 DEF W!Answer
      <3>2. /\ server' \in WsServers /\ server'.at = server.at /\ server'.content = server.content /\ server'.closed = server.closed
            /\ server'.pings = server.pings /\ server'.pinged = server.pinged /\ server'.deflated = server.deflated
        BY <1>1, <3>1 DEF WsServers
      <3>3. WsEchoes(toServer', server')
        BY <1>2, <2>5, <2>9, <3>2, EmptyLen DEF WsOldest, WsEchoes
      <3>4. pc = "done"
        <4>1. pc # "message"
          BY <1>2, <2>3, <2>4, <2>9 DEF WsStage
        <4>2. pc = "upgrade" => toServer = <<[verb |-> "GET", arg |-> "", n |-> 1]>>
          BY <1>2, <2>1 DEF WsStage, Asked
        <4>3. pc # "upgrade"
          <5> DEFINE command == [verb |-> "GET", arg |-> "", n |-> 1]
          <5>1. command.verb # "CLOSE"
            OBVIOUS
          <5> HIDE DEF command
          <5>2. pc = "upgrade" => toServer = <<command>>
            BY <4>2 DEF command
          <5> QED BY <2>3, <2>9, <5>1, <5>2, One
        <4> QED BY <1>2, <2>1, <4>1, <4>3 DEF WsStage, WsInv
      <3> QED BY <2>6, <2>9, <3>2, <3>3, <3>4
    <2> QED BY <2>1, <2>7, <2>8, <2>9
  <1> QED BY <1>4, <1>5 DEF W!Server

LEMMA WsFault == WsInv /\ (W!Ping \/ W!Close \/ W!Die) => WsInv'
  <1> SUFFICES ASSUME WsInv, W!Ping \/ W!Close \/ W!Die PROVE WsInv'
    OBVIOUS
  <1>1. /\ server \in WsServers /\ local \in WsLocals /\ toServer \in Seq(WsCommands) /\ sent \in Nat /\ inStep = TRUE
        /\ server.at <= Len(server.content)
    BY DEF WsInv, WsTypes
  <1>2. WsStage /\ WsEchoes(toServer, server)
    BY DEF WsInv
  <1>3. /\ WsNow(server).ping = server.pinged /\ WsNow(server).closed = server.closed
        /\ WsNow(server).first = (server.at = 0) /\ WsNow(server).parts = SubSeq(server.content, server.at + 1, Len(server.content))
    BY <1>1, WsWhere DEF WsNow, WsPlace
  <1>4. CASE W!Ping
    <2> DEFINE p == server.pinged
               x == [type |-> "PING", payload |-> p, re |-> 0]
               n == Len(server.pings)
               more == Append(server.pings, p)
               oldest == WsOldest(server)
    <2>1. /\ server.up /\ ~server.closed /\ server' = [server EXCEPT !.pinged = p + 1, !.pings = more]
          /\ toClient' = toClient \o <<x>> /\ UNCHANGED <<pc, result, local, sent, toServer, inStep>>
      BY <1>4 DEF W!Ping, W!Send
    <2>2. p \in Nat /\ n \in Nat /\ n <= p /\ oldest = p - n /\ server.pings \in Seq(Nat)
      BY <1>1, <1>2, LenProperties DEF WsServers, WsEchoes, WsOldest
    <2>3. /\ more \in Seq(Nat) /\ Len(more) = n + 1
          /\ \A i \in 1 .. n + 1 : more[i] = IF i <= n THEN server.pings[i] ELSE p
      <3> DEFINE pings == server.pings
      <3>1. pings \in Seq(Nat) /\ p \in Nat
        BY <2>2
      <3> HIDE DEF pings, p
      <3>2. /\ Append(pings, p) \in Seq(Nat) /\ Len(Append(pings, p)) = Len(pings) + 1
            /\ \A i \in 1 .. Len(pings) + 1 : Append(pings, p)[i] = IF i <= Len(pings) THEN pings[i] ELSE p
        BY <3>1
      <3> QED BY <3>2 DEF pings
    <2>4. x \in WsFrames /\ x.type = "PING" /\ x.payload = p
      BY <2>2 DEF WsFrames
    <2> HIDE DEF p, x, n, more, oldest
    <2>5. /\ server' \in WsServers /\ server'.at = server.at /\ server'.content = server.content /\ server'.closed = server.closed
          /\ server'.pings = more /\ server'.pinged = p + 1 /\ server'.up /\ server'.deflated = server.deflated
      <3>1. p + 1 \in Nat
        BY <2>2
      <3> DEFINE q == p + 1
      <3>2. server' = [server EXCEPT !.pinged = q, !.pings = more] /\ q \in Nat
        BY <2>1, <3>1
      <3> HIDE DEF q
      <3>3. /\ server' \in WsServers /\ server'.at = server.at /\ server'.content = server.content /\ server'.closed = server.closed
            /\ server'.pings = more /\ server'.pinged = q /\ server'.up = server.up /\ server'.deflated = server.deflated
        BY <1>1, <2>3, <3>2 DEF WsServers
      <3> QED BY <2>1, <3>3 DEF q
    <2>6. WsOldest(server') = oldest
      <3>1. WsOldest(server') = (p + 1) - (n + 1)
        BY <2>3, <2>5 DEF WsOldest
      <3> QED BY <2>2, <3>1
    <2>7. WsEchoes(toServer, server')
      <3>1. ASSUME NEW i \in 1 .. n + 1 PROVE more[i] = oldest + i - 1
        <4>1. CASE i <= n
          <5>1. i \in 1 .. n
            BY <2>2, <4>1
          <5> QED BY <1>2, <2>3, <4>1, <5>1 DEF WsEchoes, n, oldest
        <4>2. CASE ~(i <= n)
          <5>1. i = n + 1 /\ p - n + (n + 1) - 1 = p
            BY <2>2, <4>2
          <5> QED BY <2>2, <2>3, <4>2, <5>1
        <4> QED BY <4>1, <4>2
      <3>2. ASSUME NEW i \in 1 .. Len(toServer)
            PROVE  IF toServer[i].verb = "PONG" THEN i <= n + 1 /\ toServer[i].arg = oldest + i - 1 ELSE i = Len(toServer)
        <4>1. IF toServer[i].verb = "PONG" THEN i <= n /\ toServer[i].arg = oldest + i - 1 ELSE i = Len(toServer)
          BY <1>2 DEF WsEchoes, n, oldest
        <4>2. i <= n => i <= n + 1
          BY <2>2
        <4> QED BY <4>1, <4>2
      <3>3. n + 1 <= p + 1
        BY <2>2
      <3> QED BY <2>3, <2>5, <2>6, <3>1, <3>2, <3>3 DEF WsEchoes
    <2>8. server.pinged <= server'.pinged /\ p < p + 1
      BY <2>2, <2>5 DEF p
    <2>9. WsNow(server') = WsPlace(WsNow(server).parts, p + 1, FALSE, WsNow(server).first)
      <3>1. server'.closed = FALSE
        BY <1>1, <2>1, <2>5 DEF WsServers
      <3> QED BY <1>3, <2>5, <3>1 DEF WsNow
    <2>10. WsMoves(server.deflated, server'.pinged, WsNow(server), x, WsNow(server'))
      <3> DEFINE a == WsNow(server)
                 b == WsNow(server')
      <3>1. ~a.closed /\ a.ping = p /\ b = WsPlace(a.parts, p + 1, FALSE, a.first)
        BY <1>3, <2>1, <2>9 DEF p
      <3> HIDE DEF a, b
      <3>2. WsMoves(server.deflated, p + 1, a, x, b)
        BY <2>4, <2>8, <3>1 DEF WsMoves
      <3> QED BY <2>5, <3>2 DEF a, b
    <2>11. server'.at <= Len(server'.content)
      BY <1>1, <2>5
    <2> QED BY <2>1, <2>4, <2>5, <2>6, <2>7, <2>8, <2>10, <2>11, WsSending DEF oldest
  <1>5. CASE W!Close
    <2> DEFINE x == [type |-> "CLOSE", payload |-> 0, re |-> 0]
    <2>1. /\ server.up /\ ~server.closed /\ server' = [server EXCEPT !.closed = TRUE]
          /\ toClient' = toClient \o <<x>> /\ UNCHANGED <<pc, result, local, sent, toServer, inStep>>
      BY <1>5 DEF W!Close, W!Send
    <2>2. x \in WsFrames /\ x.type = "CLOSE"
      BY DEF WsFrames
    <2> HIDE DEF x
    <2>3. /\ server' \in WsServers /\ server'.at = server.at /\ server'.content = server.content /\ server'.closed = TRUE
          /\ server'.pings = server.pings /\ server'.pinged = server.pinged /\ server'.up /\ server'.deflated = server.deflated
      BY <1>1, <2>1 DEF WsServers
    <2>4. WsOldest(server') = WsOldest(server) /\ WsEchoes(toServer, server')
      BY <1>2, <2>3 DEF WsOldest, WsEchoes
    <2>5. server.pinged <= server'.pinged /\ server'.at <= Len(server'.content)
      BY <1>1, <2>3 DEF WsServers
    <2>6. WsNow(server') = WsPlace(WsNow(server).parts, WsNow(server).ping, TRUE, WsNow(server).first)
      BY <1>3, <2>3 DEF WsNow
    <2>7. WsMoves(server.deflated, server'.pinged, WsNow(server), x, WsNow(server'))
      <3> DEFINE a == WsNow(server)
                 b == WsNow(server')
      <3>1. ~a.closed /\ b = WsPlace(a.parts, a.ping, TRUE, a.first)
        BY <1>3, <2>1, <2>6
      <3> HIDE DEF a, b
      <3>2. WsMoves(server.deflated, server'.pinged, a, x, b)
        BY <2>2, <3>1 DEF WsMoves
      <3> QED BY <3>2 DEF a, b
    <2> QED BY <2>1, <2>2, <2>3, <2>4, <2>5, <2>7, WsSending
  <1>6. CASE W!Die
    <2>1. server' = [server EXCEPT !.alive = FALSE] /\ UNCHANGED <<pc, result, local, sent, toServer, toClient, inStep>>
      BY <1>6 DEF W!Die, W!Crash
    <2>2. /\ server' \in WsServers /\ server'.at = server.at /\ server'.content = server.content /\ server'.closed = server.closed
          /\ server'.pings = server.pings /\ server'.pinged = server.pinged /\ server'.up = server.up
          /\ server'.deflated = server.deflated
      BY <1>1, <2>1 DEF WsServers
    <2>3. WsTypes'
      BY <1>1, <2>1, <2>2 DEF WsTypes
    <2>4. WsEchoes(toServer', server')
      BY <1>2, <2>1, <2>2 DEF WsOldest, WsEchoes
    <2>5. \A q, n : WsCourse(q, server, local.buf, local.compressed, n) => WsCourse(q, server', local.buf, local.compressed, n)
      BY <2>2 DEF WsCourse, WsReads, WsNow, WsOldest
    <2>6. WsFresh(server) => WsFresh(server')
      BY <2>2 DEF WsFresh
    <2>7. WsStage'
      BY <1>2, <2>1, <2>2, <2>5, <2>6 DEF WsStage
    <2>8. pc = "done" => W!Whole'
      BY <2>1, <2>2 DEF W!Whole, W!Meaning, WsInv
    <2> QED BY <2>1, <2>3, <2>4, <2>7, <2>8 DEF WsInv
  <1> QED BY <1>4, <1>5, <1>6

LEMMA WsSafe == WsInv => inStep /\ ~server.refused /\ W!Whole
  BY DEF WsInv, WsTypes, WsServers, W!Whole

-----------------------------------------------------------------------------
(* FTP.                                                                    *)

FtpVerbs == {"USER", "PASS", "TYPE", "REST", "EPSV", "PASV", "RETR", "STOR", "APPE", "QUIT"}
FtpCommands == [verb : FtpVerbs, arg : {"", "I", Offset}, n : Nat]
FtpReplies == [code : Nat, re : Nat]

FtpServers ==
    [alive : BOOLEAN, refused : {FALSE}, phase : {"new", "user", "pass", "in"}, binary : BOOLEAN,
     mark : BOOLEAN, port : BOOLEAN, xfer : {"no", "RETR", "STOR", "APPE"}, pos : Nat,
     stored : Seq(Nat), n : Nat]
FtpLocals ==
    [op : {"RETR", "STOR", "APPE"}, resume : BOOLEAN, pathOk : BOOLEAN, prelim : BOOLEAN,
     got : Seq(Nat), left : Seq(Nat)]
FtpData == [state : {"none", "open", "eof", "reset"}, q : Seq(Nat)]

FtpTypes ==
    /\ server \in FtpServers /\ local \in FtpLocals /\ data \in FtpData
    /\ toServer \in Seq(FtpCommands) /\ toClient \in Seq(FtpReplies)
    /\ sent \in Nat /\ inStep = TRUE

\* What an upload keeps, and what it makes of it.
FtpKept(l) == IF l.op = "APPE" THEN Remote ELSE SubSeq(Remote, 1, IF l.resume THEN Offset ELSE 0)
FtpTarget(l) == FtpKept(l) \o Body

\* The file is where it was to be sent or received.
FtpGood(s, l) == IF l.op = "RETR" THEN l.got = Remote ELSE s.stored = FtpTarget(l)

\* The only command is on its way; it is answered.
FtpAsked(verb, n, commands, q) ==
    q = <<>> /\ \E c \in FtpCommands : commands = <<c>> /\ c.verb = verb /\ c.n = n
FtpReplied(code, n, commands, q) == commands = <<>> /\ q = <<[code |-> code, re |-> n]>>

\* The server when a command of the login or the preparation is on its way, and when it
\* has answered it.
FtpSteps == {"USER", "PASS", "TYPE", "REST", "EPSV", "PASV"}
FtpReady(p, s, l) ==
    /\ p = "USER" => s.phase = "user"
    /\ p = "PASS" => s.phase = "pass"
    /\ p \notin {"USER", "PASS"} => s.phase = "in"
    /\ p \in {"REST", "EPSV", "PASV", "command"} => s.binary
    /\ p = "REST" => l.resume
    /\ s.mark = (l.resume /\ p \in {"EPSV", "PASV", "command"})
FtpLed(p, code, s, l) ==
    /\ p = "USER" => (code = 230 => s.phase = "in") /\ (code = 331 => s.phase = "pass")
    /\ p = "PASS" => (code \in {230, 202} => s.phase = "in")
    /\ p = "TYPE" => s.phase = "in" /\ (code = 200 => s.binary)
    /\ p \in {"REST", "EPSV", "PASV"} => s.phase = "in" /\ s.binary
    /\ p = "REST" => l.resume /\ (code = 350 => s.mark)
    /\ p # "REST" => s.mark = (l.resume /\ p \in {"EPSV", "PASV"})

FtpIdle(s, l) == s.xfer = "no" /\ s.pos = 0 /\ l.got = <<>> /\ l.left = Body

\* What is stored, on its way and still to be written.
FtpUpload(stored, q, left) == (stored \o q) \o left

\* A transfer at work, the client being at p: what is on its way is between what is
\* there and what is still to come.
FtpRunning(s, l, d, n, p) ==
    /\ s.xfer = l.op /\ s.n = n
    /\ l.op = "RETR" =>
        /\ p # "end" /\ d.state = "open"
        /\ s.pos <= Len(Remote) /\ l.got \o d.q = SubSeq(Remote, 1, s.pos)
    /\ l.op # "RETR" =>
        /\ d.state = (IF p = "end" THEN "eof" ELSE "open") /\ (p = "end" => l.left = <<>>)
        /\ FtpUpload(s.stored, d.q, l.left) = FtpTarget(l)

\* It was complete.
FtpComplete(s, l, d, p) ==
    IF l.op = "RETR" THEN IF p = "end" THEN l.got = Remote ELSE d.state = "eof" /\ l.got \o d.q = Remote
    ELSE p = "end" /\ s.stored = FtpTarget(l)

\* It ends with one more reply, a good one only when it is complete.
FtpEnds(q, s, l, d, n, p) ==
    /\ s.xfer = "no"
    /\ \/ q = <<[code |-> 426, re |-> n]>>
       \/ q = <<[code |-> 226, re |-> n]>> /\ FtpComplete(s, l, d, p)
FtpTransfer(q, s, l, d, n, p) ==
    /\ s.alive /\ s.xfer # "no" => FtpRunning(s, l, d, n, p)
    /\ q = <<>> \/ FtpEnds(q, s, l, d, n, p)

FtpStage ==
    /\ pc = "banner" =>
        /\ sent = 0 /\ toServer = <<>> /\ FtpIdle(server, local) /\ ~server.mark
        /\ IF server.phase = "new" THEN toClient = <<>>
           ELSE /\ server.phase = "user" /\ toClient # <<>> /\ Head(toClient).re = 0
                /\ F!IsPositive(Head(toClient).code) => Tail(toClient) = <<>>
    /\ pc \in FtpSteps =>
        /\ FtpIdle(server, local)
        /\ \/ FtpAsked(pc, sent, toServer, toClient) /\ FtpReady(pc, server, local)
           \/ \E code \in Nat : FtpReplied(code, sent, toServer, toClient) /\ FtpLed(pc, code, server, local)
    /\ pc = "command" =>
        \/ /\ FtpAsked(local.op, sent, toServer, toClient) /\ FtpReady(pc, server, local) /\ FtpIdle(server, local)
           /\ data.q = <<>> /\ (server.alive => data.state = "open")
        \/ FtpReplied(550, sent, toServer, toClient) /\ server.xfer = "no"
        \/ /\ FtpReplied(226, sent, toServer, toClient) /\ server.xfer = "no"
           /\ local.op = "RETR" /\ local.got = <<>> /\ data.state = "eof" /\ data.q = Remote
        \/ /\ toServer = <<>> /\ toClient # <<>> /\ Head(toClient) = [code |-> 150, re |-> sent]
           /\ FtpTransfer(Tail(toClient), server, local, data, sent, pc)
    /\ pc = "read" =>
        /\ toServer = <<>> /\ local.op = "RETR"
        /\ IF local.prelim THEN FtpTransfer(toClient, server, local, data, sent, pc)
           ELSE /\ toClient = <<>> /\ server.xfer = "no"
                /\ data.state = "eof" /\ local.got \o data.q = Remote
    /\ pc = "write" =>
        /\ toServer = <<>> /\ local.op # "RETR" /\ FtpTransfer(toClient, server, local, data, sent, pc)
    /\ pc = "end" => toServer = <<>> /\ FtpTransfer(toClient, server, local, data, sent, pc)
    /\ pc = "farewell" =>
        /\ FtpGood(server, local) /\ server.xfer = "no"
        /\ \/ FtpAsked("QUIT", sent, toServer, toClient)
           \/ \E code \in Nat : FtpReplied(code, sent, toServer, toClient)

FtpInv ==
    /\ FtpTypes /\ FtpStage
    /\ pc \in FtpSteps \cup {"banner", "command", "read", "write", "end", "farewell", "done"}
    /\ pc \notin {"banner", "done"} => server.phase # "new"
    /\ IF pc = "done"
       THEN (toServer = <<>> \/ ~server.alive) /\ (result = "ok" => FtpGood(server, local) /\ server.xfer = "no")
       ELSE result = "none"

LEMMA FtpInit == F!Init => FtpInv
  <1> SUFFICES ASSUME F!Init PROVE FtpInv
    OBVIOUS
  <1>1. pc = "banner" /\ result = "none" /\ sent = 0 /\ inStep = TRUE /\ toServer = <<>> /\ toClient = <<>>
    BY DEF F!Init
  <1>2. PICK op \in {"RETR", "STOR", "APPE"}, resume, pathOk \in BOOLEAN :
            local = [op |-> op, resume |-> resume, pathOk |-> pathOk, prelim |-> FALSE, got |-> <<>>, left |-> Body]
    BY DEF F!Init
  <1>3. Body \in Seq(Nat) /\ Remote \in Seq(Nat)
    BY ClientsAssumption
  <1>4. local \in FtpLocals /\ local.got = <<>> /\ local.left = Body
    BY <1>2, <1>3, Empty DEF FtpLocals
  <1>5. server \in FtpServers /\ server.phase = "new" /\ server.xfer = "no" /\ server.pos = 0 /\ ~server.mark
    BY <1>3 DEF F!Init, FtpServers
  <1>6. data \in FtpData
    BY Empty DEF F!Init, F!NoData, FtpData
  <1>7. FtpTypes
    BY <1>1, <1>4, <1>5, <1>6, Empty DEF FtpTypes
  <1>8. FtpStage
    BY <1>1, <1>4, <1>5 DEF FtpStage, FtpIdle, FtpSteps
  <1> QED BY <1>1, <1>7, <1>8 DEF FtpInv

LEMMA FtpHead ==
    ASSUME NEW code, NEW n, NEW commands, NEW q, FtpReplied(code, n, commands, q)
    PROVE  commands = <<>> /\ q # <<>> /\ Head(q).code = code /\ Head(q).re = n /\ Tail(q) = <<>>
  <1> DEFINE x == [code |-> code, re |-> n]
  <1>1. x.code = code /\ x.re = n /\ q = <<x>> /\ commands = <<>>
    BY DEF FtpReplied
  <1> HIDE DEF x
  <1> QED BY <1>1, One

\* A good end of a transfer.
LEMMA FtpDone ==
    ASSUME NEW s, NEW l, NEW d, FtpComplete(s, l, d, "end")
    PROVE  FtpGood(s, l)
  BY DEF FtpComplete, FtpGood

\* A step of the client during a transfer.
LEMMA FtpOn ==
    ASSUME NEW q, NEW s, NEW l, NEW d, NEW n, NEW p, NEW k, NEW e, NEW m, FtpTransfer(q, s, l, d, n, p),
           s.alive /\ FtpRunning(s, l, d, n, p) => FtpRunning(s, k, e, n, m), FtpComplete(s, l, d, p) => FtpComplete(s, k, e, m)
    PROVE  FtpTransfer(q, s, k, e, n, m)
  BY DEF FtpTransfer, FtpEnds

LEMMA FtpWhole ==
    ASSUME FtpGood(server, local), local \in FtpLocals
    PROVE  F!Whole
  <1>1. Body \in Seq(Nat) /\ Remote \in Seq(Nat)
    BY ClientsAssumption
  <1>2. SubSeq(Remote, 1, 0) \o Body = Body
    <2>1. SubSeq(Remote, 1, 0) = <<>>
      BY <1>1
    <2> QED BY <1>1, <2>1, AllThere
  <1>3. local.op \in {"RETR", "STOR", "APPE"}
    BY DEF FtpLocals
  <1>4. CASE local.op = "RETR"
    BY <1>4 DEF F!Whole, FtpGood
  <1>5. CASE local.op = "APPE"
    <2>1. server.stored = Remote \o Body
      BY <1>5 DEF FtpGood, FtpTarget, FtpKept
    <2> QED BY <1>5, <2>1 DEF F!Whole
  <1>6. CASE local.op = "STOR"
    <2>1. server.stored = SubSeq(Remote, 1, IF local.resume THEN Offset ELSE 0) \o Body
      BY <1>6 DEF FtpGood, FtpTarget, FtpKept
    <2>2. server.stored = IF local.resume THEN SubSeq(Remote, 1, Offset) \o Body ELSE Body
      BY <1>2, <2>1
    <2> QED BY <1>6, <2>2 DEF F!Whole
  <1> QED BY <1>3, <1>4, <1>5, <1>6

LEMMA FtpLast ==
    ASSUME NEW a \in Seq(Nat), NEW b \in Seq(Nat), NEW x \in Nat
    PROVE  a \o Append(b, x) = Append(a \o b, x)
  <1>1. a \o b \in Seq(Nat)
    BY ConcatProperties
  <1>2. Append(b, x) = b \o <<x>> /\ Append(a \o b, x) = (a \o b) \o <<x>>
    BY <1>1, AppendIsConcat
  <1>3. a \o (b \o <<x>>) = (a \o b) \o <<x>>
    BY OneIn, ConcatAssociative
  <1> QED BY <1>2, <1>3

\* The next chunk of an upload goes to the connection.
LEMMA FtpWritten ==
    ASSUME NEW a \in Seq(Nat), NEW b \in Seq(Nat), NEW c \in Seq(Nat), c # <<>>
    PROVE  FtpUpload(a, Append(b, Head(c)), Tail(c)) = FtpUpload(a, b, c)
  <1>1. Head(c) \in Nat /\ a \o b \in Seq(Nat)
    BY Reading, ConcatProperties
  <1>2. a \o Append(b, Head(c)) = Append(a \o b, Head(c))
    BY <1>1, FtpLast
  <1>3. Append(a \o b, Head(c)) \o Tail(c) = (a \o b) \o c
    BY <1>1, ReadOn
  <1> QED BY <1>2, <1>3 DEF FtpUpload

\* And from there to the file.
LEMMA FtpStored ==
    ASSUME NEW a \in Seq(Nat), NEW b \in Seq(Nat), b # <<>>
    PROVE  Append(a, Head(b)) \in Seq(Nat) /\ Append(a, Head(b)) \o Tail(b) = a \o b
  BY ReadOn

LEMMA FtpClient == FtpInv /\ F!Client => FtpInv'
  <1> SUFFICES ASSUME FtpInv, F!Client PROVE FtpInv'
    OBVIOUS
  <1>1. /\ server \in FtpServers /\ local \in FtpLocals /\ data \in FtpData /\ toServer \in Seq(FtpCommands)
        /\ toClient \in Seq(FtpReplies) /\ sent \in Nat /\ inStep = TRUE
    BY DEF FtpInv, FtpTypes
  <1>2. FtpStage /\ (pc # "done" => result = "none")
    BY DEF FtpInv
  <1>3. UNCHANGED server
    BY DEF F!Client, F!Receive, F!ReadData, F!WriteData, F!Broken
  <1>4. sent + 1 \in Nat
    BY <1>1
  <1>0. pc' \notin {"banner", "done"} => server'.phase # "new"
    <2>1. CASE pc = "banner"
      <3>1. server.phase = "new" => toClient = <<>>
        BY <1>2, <2>1 DEF FtpStage
      <3> QED BY <1>3, <2>1, <3>1 DEF F!Client, F!Receive, F!Take, F!ReadData, F!WriteData, F!Broken, F!Return
    <2>2. CASE pc = "done"
      BY <2>2 DEF F!Client, F!Receive, F!Login, F!Prepare, F!End, F!Farewell, F!Passive, F!Command, F!ReadData, F!WriteData, F!Broken
    <2>3. CASE pc \notin {"banner", "done"}
      BY <1>3, <2>3 DEF FtpInv
    <2> QED BY <2>1, <2>2, <2>3
  <1>5. ASSUME NEW outcome, F!Return(outcome), local' \in FtpLocals, data' \in FtpData, toClient' \in Seq(FtpReplies), inStep' = TRUE,
               toServer = <<>> \/ ~server.alive,
               outcome = "ok" => FtpGood(server, local') /\ server.xfer = "no"
        PROVE  FtpInv'
    <2>1. pc' = "done" /\ result' = outcome /\ UNCHANGED <<sent, toServer>>
      BY <1>5 DEF F!Return
    <2>2. FtpTypes'
      BY <1>1, <1>3, <1>5, <2>1 DEF FtpTypes
    <2>3. FtpStage'
      BY <2>1 DEF FtpStage, FtpSteps
    <2> QED BY <1>0, <1>3, <1>5, <2>1, <2>2, <2>3 DEF FtpInv
  <1>6. ASSUME NEW verb \in FtpVerbs, NEW arg \in {"", "I", Offset}, NEW p, F!Ask(verb, arg, p), toServer = <<>>, toClient' = <<>>, inStep' = TRUE,
               local' \in FtpLocals, data' \in FtpData
        PROVE  FtpTypes' /\ pc' = p /\ result' = result /\ FtpAsked(verb, sent', toServer', toClient')
    <2> DEFINE c == [verb |-> verb, arg |-> arg, n |-> sent + 1]
    <2>1. c \in FtpCommands /\ c.verb = verb /\ c.n = sent + 1
      BY <1>4, <1>6 DEF FtpCommands
    <2>2. pc' = p /\ sent' = sent + 1 /\ toServer' = Append(<<>>, c) /\ UNCHANGED result
      BY <1>6 DEF F!Ask
    <2> HIDE DEF c
    <2>3. toServer' = <<c>> /\ toServer' \in Seq(FtpCommands)
      BY <2>1, <2>2, One, OneIn
    <2>4. FtpTypes'
      BY <1>1, <1>3, <1>4, <1>6, <2>2, <2>3, Empty DEF FtpTypes
    <2>5. FtpAsked(verb, sent', toServer', toClient')
      BY <1>6, <2>1, <2>2, <2>3 DEF FtpAsked
    <2> QED BY <2>2, <2>4, <2>5
  <1>7. ASSUME NEW p \in FtpSteps, NEW arg \in {"", "I", Offset}, F!Ask(p, arg, p), toServer = <<>>, toClient' = <<>>, inStep' = TRUE,
               UNCHANGED <<local, data>>, FtpReady(p, server, local), FtpIdle(server, local), pc # "done"
        PROVE  FtpInv'
    <2>1. p \in FtpVerbs
      BY DEF FtpSteps, FtpVerbs
    <2>2. FtpTypes' /\ pc' = p /\ result' = result /\ FtpAsked(p, sent', toServer', toClient')
      BY <1>1, <1>6, <1>7, <2>1
    <2>3. FtpStage'
      BY <1>3, <1>7, <2>2 DEF FtpStage, FtpSteps
    <2> QED BY <1>0, <1>2, <1>7, <2>2, <2>3 DEF FtpInv, FtpSteps
  <1>8. ASSUME F!Ask("QUIT", "", "farewell"), toServer = <<>>, toClient' = <<>>, inStep' = TRUE, UNCHANGED local, data' \in FtpData,
               FtpGood(server, local), server.xfer = "no", pc # "done"
        PROVE  FtpInv'
    <2>1. "QUIT" \in FtpVerbs /\ "" \in {"", "I", Offset}
      BY DEF FtpVerbs
    <2>2. FtpTypes' /\ pc' = "farewell" /\ result' = result /\ FtpAsked("QUIT", sent', toServer', toClient')
      BY <1>1, <1>6, <1>8, <2>1
    <2>3. FtpStage'
      BY <1>3, <1>8, <2>2 DEF FtpStage, FtpSteps
    <2> QED BY <1>0, <1>2, <1>8, <2>2, <2>3 DEF FtpInv
  <1>9. CASE F!Receive
    <2> DEFINE r == Head(toClient)
    <2>1. /\ toClient # <<>> /\ toClient' = Tail(toClient) /\ inStep' = (inStep /\ r.re = sent)
          /\ \/ (F!Login(r) \/ F!Prepare(r) \/ F!End(r) \/ F!Farewell(r)) /\ UNCHANGED <<local, data>>
             \/ F!Passive(r) /\ UNCHANGED local
             \/ F!Command(r) /\ UNCHANGED data
      <3>1. PICK x \in {toClient[i] : i \in DOMAIN toClient} :
              /\ F!Take(x)
              /\ \/ (F!Login(x) \/ F!Prepare(x) \/ F!End(x) \/ F!Farewell(x)) /\ UNCHANGED <<local, data>>
                 \/ F!Passive(x) /\ UNCHANGED local
                 \/ F!Command(x) /\ UNCHANGED data
        BY <1>9 DEF F!Receive
      <3>2. toClient # <<>> /\ x = r /\ toClient' = Tail(toClient) /\ inStep' = (inStep /\ r.re = sent)
        BY <3>1 DEF F!Take
      <3> QED BY <3>1, <3>2
    <2>2. toClient' \in Seq(FtpReplies) /\ r \in FtpReplies
      BY <1>1, <2>1, Reading
    <2> HIDE DEF r
    <2>3. CASE pc = "banner"
      <3>1. /\ sent = 0 /\ toServer = <<>> /\ FtpIdle(server, local) /\ ~server.mark
            /\ server.phase = "user" /\ r.re = 0 /\ (F!IsPositive(r.code) => toClient' = <<>>)
        BY <1>2, <2>1, <2>3 DEF FtpStage, r
      <3>2. inStep' = TRUE
        BY <1>1, <2>1, <3>1
      <3>3. /\ UNCHANGED <<local, data>>
            /\ (F!IsPositive(r.code) /\ F!Ask("USER", "", "USER")) \/ F!Return("error")
        BY <2>1, <2>3 DEF F!Login, F!Prepare, F!End, F!Farewell, F!Passive, F!Command
      <3>4. FtpReady("USER", server, local) /\ "USER" \in FtpSteps /\ "" \in {"", "I", Offset}
        <4>1. server.mark = FALSE
          BY <1>1, <3>1 DEF FtpServers
        <4> QED BY <3>1, <4>1 DEF FtpReady, FtpSteps
      <3>5. CASE F!IsPositive(r.code) /\ F!Ask("USER", "", "USER")
        BY <1>7, <2>3, <3>1, <3>2, <3>3, <3>4, <3>5
      <3>6. CASE F!Return("error")
        BY <1>1, <1>5, <2>2, <3>1, <3>2, <3>3, <3>6
      <3> QED BY <3>3, <3>5, <3>6
    <2>4. ASSUME NEW code, FtpReplied(code, sent, toServer, toClient)
          PROVE  r.code = code /\ toServer = <<>> /\ toClient' = <<>> /\ inStep' = TRUE
      <3>1. toServer = <<>> /\ Head(toClient).code = code /\ Head(toClient).re = sent /\ Tail(toClient) = <<>>
        BY <2>4, FtpHead
      <3> QED BY <1>1, <2>1, <3>1 DEF r
    <2>5. CASE pc \in FtpSteps
      <3>1. FtpIdle(server, local)
        BY <1>2, <2>5 DEF FtpStage
      <3>2. PICK code \in Nat : FtpReplied(code, sent, toServer, toClient) /\ FtpLed(pc, code, server, local)
        BY <1>2, <2>1, <2>5 DEF FtpStage, FtpAsked
      <3>3. r.code = code /\ toServer = <<>> /\ toClient' = <<>> /\ inStep' = TRUE
        BY <2>4, <3>2
      <3>4. server.mark \in BOOLEAN /\ local.resume \in BOOLEAN /\ Offset \in Nat
        <4>1. Offset \in Nat
          BY ClientsAssumption
        <4> QED BY <1>1, <4>1 DEF FtpServers, FtpLocals
      <3>5. ASSUME NEW p \in FtpSteps, NEW arg \in {"", "I", Offset}, F!Ask(p, arg, p), UNCHANGED <<local, data>>,
                   FtpReady(p, server, local)
            PROVE  FtpInv'
        BY <1>7, <2>5, <3>1, <3>3, <3>5 DEF FtpSteps
      <3>6. ASSUME F!Return("error"), UNCHANGED local, data' \in FtpData PROVE FtpInv'
        BY <1>1, <1>5, <2>2, <3>3, <3>6
      <3>7. ASSUME F!Dial, UNCHANGED local, FtpReady("command", server, local) PROVE FtpInv'
        <4>1. CASE F!Return("error") /\ UNCHANGED data
          BY <1>1, <3>6, <3>7, <4>1
        <4>2. CASE data' = [F!NoData EXCEPT !.state = "open"] /\ F!Ask(local.op, "", "command")
          <5>1. data' \in FtpData /\ data'.q = <<>> /\ data'.state = "open"
            BY <4>2, Empty DEF F!NoData, FtpData
          <5>2. local.op \in FtpVerbs /\ "" \in {"", "I", Offset}
            BY <1>1 DEF FtpLocals, FtpVerbs
          <5>3. FtpTypes' /\ pc' = "command" /\ result' = result /\ FtpAsked(local.op, sent', toServer', toClient')
            BY <1>1, <1>6, <3>3, <3>7, <4>2, <5>1, <5>2
          <5>4. FtpStage'
            BY <1>3, <3>1, <3>7, <5>1, <5>3 DEF FtpStage, FtpSteps
          <5> QED BY <1>0, <1>2, <2>5, <5>3, <5>4 DEF FtpInv, FtpSteps
        <4> QED BY <3>7, <4>1, <4>2 DEF F!Dial
      <3>8. CASE pc = "USER"
        <4>1. /\ UNCHANGED <<local, data>>
              /\ \/ code = 230 /\ F!Ask("TYPE", "I", "TYPE")
                 \/ code = 331 /\ F!Ask("PASS", "", "PASS")
                 \/ F!Return("error")
          BY <2>1, <3>3, <3>8 DEF F!Login, F!Prepare, F!End, F!Farewell, F!Passive, F!Command
        <4>2. /\ (code = 230 => FtpReady("TYPE", server, local)) /\ (code = 331 => FtpReady("PASS", server, local))
          BY <3>2, <3>4, <3>8 DEF FtpLed, FtpReady
        <4>3. "TYPE" \in FtpSteps /\ "PASS" \in FtpSteps /\ "I" \in {"", "I", Offset} /\ "" \in {"", "I", Offset}
          BY DEF FtpSteps
        <4>4. CASE code = 230 /\ F!Ask("TYPE", "I", "TYPE")
          BY <3>5, <4>1, <4>2, <4>3, <4>4
        <4>5. CASE code = 331 /\ F!Ask("PASS", "", "PASS")
          BY <3>5, <4>1, <4>2, <4>3, <4>5
        <4>6. CASE F!Return("error")
          BY <1>1, <3>6, <4>1, <4>6
        <4> QED BY <4>1, <4>4, <4>5, <4>6
      <3>9. CASE pc = "PASS"
        <4>1. /\ UNCHANGED <<local, data>>
              /\ IF code \in {230, 202} THEN F!Ask("TYPE", "I", "TYPE") ELSE F!Return("error")
          BY <2>1, <3>3, <3>9 DEF F!Login, F!Prepare, F!End, F!Farewell, F!Passive, F!Command, F!PassAccepted
        <4>2. code \in {230, 202} => FtpReady("TYPE", server, local)
          BY <3>2, <3>4, <3>9 DEF FtpLed, FtpReady
        <4>3. "TYPE" \in FtpSteps
          BY DEF FtpSteps
        <4> QED BY <1>1, <3>5, <3>6, <4>1, <4>2, <4>3
      <3>10. CASE pc = "TYPE"
        <4>1. /\ UNCHANGED <<local, data>>
              /\ \/ F!Return("error")
                 \/ code = 200 /\ local.resume /\ F!Ask("REST", Offset, "REST")
                 \/ code = 200 /\ ~local.resume /\ F!Ask("EPSV", "", "EPSV")
          BY <2>1, <3>3, <3>10 DEF F!Login, F!Prepare, F!End, F!Farewell, F!Passive, F!Command
        <4>2. /\ code = 200 /\ local.resume => FtpReady("REST", server, local)
              /\ code = 200 /\ ~local.resume => FtpReady("EPSV", server, local)
          BY <3>2, <3>4, <3>10 DEF FtpLed, FtpReady
        <4>3. "REST" \in FtpSteps /\ "EPSV" \in FtpSteps /\ Offset \in {"", "I", Offset} /\ "" \in {"", "I", Offset}
          BY DEF FtpSteps
        <4>4. CASE F!Return("error")
          BY <1>1, <3>6, <4>1, <4>4
        <4>5. CASE code = 200 /\ local.resume /\ F!Ask("REST", Offset, "REST")
          BY <3>5, <4>1, <4>2, <4>3, <4>5
        <4>6. CASE code = 200 /\ ~local.resume /\ F!Ask("EPSV", "", "EPSV")
          BY <3>5, <4>1, <4>2, <4>3, <4>6
        <4> QED BY <4>1, <4>4, <4>5, <4>6
      <3>11. CASE pc = "REST"
        <4>1. /\ UNCHANGED <<local, data>>
              /\ IF code = 350 THEN F!Ask("EPSV", "", "EPSV") ELSE F!Return("error")
          BY <2>1, <3>3, <3>11 DEF F!Login, F!Prepare, F!End, F!Farewell, F!Passive, F!Command
        <4>2. code = 350 => FtpReady("EPSV", server, local)
          BY <3>2, <3>4, <3>11 DEF FtpLed, FtpReady
        <4>3. "EPSV" \in FtpSteps
          BY DEF FtpSteps
        <4> QED BY <1>1, <3>5, <3>6, <4>1, <4>2, <4>3
      <3>12. CASE pc \in {"EPSV", "PASV"}
        <4>1. UNCHANGED local
          BY <2>1, <3>12 DEF F!Login, F!Prepare, F!End, F!Farewell, F!Passive, F!Command
        <4>2. \/ F!Dial
              \/ F!Ask("PASV", "", "PASV") /\ UNCHANGED data
              \/ F!Return("error") /\ UNCHANGED data
          BY <2>1, <3>12 DEF F!Login, F!Prepare, F!End, F!Farewell, F!Passive, F!Command
        <4>3. FtpReady("PASV", server, local) /\ FtpReady("command", server, local)
          BY <3>2, <3>4, <3>12 DEF FtpLed, FtpReady
        <4>4. "PASV" \in FtpSteps
          BY DEF FtpSteps
        <4> QED BY <1>1, <3>5, <3>6, <3>7, <4>1, <4>2, <4>3, <4>4
      <3> QED BY <2>5, <3>8, <3>9, <3>10, <3>11, <3>12 DEF FtpSteps
    <2>6. CASE pc = "command"
      <3>1. /\ UNCHANGED data
            /\ LET prelim == r.code \in {125, 150}
               IN  IF prelim \/ (~F!Upload /\ F!IsPositive(r.code))
                   THEN F!Goto(IF F!Upload THEN "write" ELSE "read") /\ local' = [local EXCEPT !.prelim = prelim]
                   ELSE F!Return("error") /\ UNCHANGED local
        BY <2>1, <2>6 DEF F!Login, F!Prepare, F!End, F!Farewell, F!Passive, F!Command
      <3>2. local.op \in {"RETR", "STOR", "APPE"} /\ (F!Upload <=> local.op # "RETR")
        BY <1>1 DEF FtpLocals, F!Upload
      <3>3. CASE FtpReplied(550, sent, toServer, toClient)
        <4>1. r.code = 550 /\ toServer = <<>> /\ toClient' = <<>> /\ inStep' = TRUE
          <5> DEFINE code == 550
          <5>1. FtpReplied(code, sent, toServer, toClient)
            BY <3>3
          <5> HIDE DEF code
          <5>2. r.code = code /\ toServer = <<>> /\ toClient' = <<>> /\ inStep' = TRUE
            BY <2>4, <5>1
          <5> QED BY <5>2 DEF code
        <4>2. F!Return("error") /\ UNCHANGED local
          BY <3>1, <4>1 DEF F!IsPositive
        <4> QED BY <1>1, <1>5, <2>2, <3>1, <4>1, <4>2
      <3>4. CASE /\ FtpReplied(226, sent, toServer, toClient) /\ server.xfer = "no"
                 /\ local.op = "RETR" /\ local.got = <<>> /\ data.state = "eof" /\ data.q = Remote
        <4>1. r.code = 226 /\ toServer = <<>> /\ toClient' = <<>> /\ inStep' = TRUE
          <5> DEFINE code == 226
          <5>1. FtpReplied(code, sent, toServer, toClient)
            BY <3>4
          <5> HIDE DEF code
          <5>2. r.code = code /\ toServer = <<>> /\ toClient' = <<>> /\ inStep' = TRUE
            BY <2>4, <5>1
          <5> QED BY <5>2 DEF code
        <4>2. F!Goto("read") /\ local' = [local EXCEPT !.prelim = FALSE]
          <5>1. (r.code \in {125, 150}) = FALSE /\ F!IsPositive(r.code) /\ ~F!Upload
            BY <3>2, <3>4, <4>1 DEF F!IsPositive
          <5> QED BY <3>1, <5>1
        <4>3. pc' = "read" /\ UNCHANGED <<sent, toServer, result>>
          BY <4>2 DEF F!Goto
        <4>4. local' \in FtpLocals /\ local'.prelim = FALSE /\ local'.op = "RETR" /\ local'.got = <<>>
          BY <1>1, <3>4, <4>2 DEF FtpLocals
        <4>5. local'.got \o data'.q = Remote
          <5>1. Remote \in Seq(Nat)
            BY ClientsAssumption
          <5> QED BY <3>1, <3>4, <4>4, <5>1, AllThere
        <4>6. FtpTypes'
          BY <1>1, <1>3, <2>2, <3>1, <4>1, <4>3, <4>4 DEF FtpTypes
        <4>7. FtpStage'
          BY <1>3, <3>1, <3>4, <4>1, <4>3, <4>4, <4>5 DEF FtpStage, FtpSteps
        <4> QED BY <1>0, <1>2, <2>6, <4>3, <4>6, <4>7 DEF FtpInv
      <3>5. CASE /\ toServer = <<>> /\ r = [code |-> 150, re |-> sent]
                 /\ FtpTransfer(Tail(toClient), server, local, data, sent, "command")
        <4>1. r.code = 150 /\ r.re = sent
          BY <3>5
        <4>2. inStep' = TRUE
          BY <1>1, <2>1, <4>1
        <4>3. F!Goto(IF F!Upload THEN "write" ELSE "read") /\ local' = [local EXCEPT !.prelim = TRUE]
          <5>1. (r.code \in {125, 150}) = TRUE
            BY <4>1
          <5> QED BY <3>1, <5>1
        <4>4. /\ local' \in FtpLocals /\ local'.prelim = TRUE /\ local'.op = local.op /\ local'.got = local.got
              /\ local'.left = local.left /\ local'.resume = local.resume
          BY <1>1, <4>3 DEF FtpLocals
        <4>5. pc' = (IF local.op = "RETR" THEN "read" ELSE "write") /\ UNCHANGED <<sent, toServer, result>>
          BY <3>2, <4>3 DEF F!Goto
        <4>6. FtpTransfer(toClient', server', local', data', sent', pc')
          <5>1. pc' # "end"
            BY <4>5
          <5>2. FtpTarget(local') = FtpTarget(local)
            BY <4>4 DEF FtpTarget, FtpKept
          <5>3. FtpRunning(server, local, data, sent, "command") => FtpRunning(server, local', data, sent, pc')
            BY <4>4, <5>1, <5>2 DEF FtpRunning
          <5>4. FtpComplete(server, local, data, "command") => FtpComplete(server, local', data, pc')
            BY <4>4, <5>1, <5>2 DEF FtpComplete
          <5>5. FtpTransfer(Tail(toClient), server, local', data, sent, pc')
            BY <3>5, <5>3, <5>4, FtpOn
          <5> QED BY <1>3, <2>1, <3>1, <4>5, <5>5
        <4>7. FtpTypes'
          BY <1>1, <1>3, <2>2, <3>1, <4>2, <4>4, <4>5 DEF FtpTypes
        <4>8. FtpStage'
          BY <3>2, <3>5, <4>4, <4>5, <4>6 DEF FtpStage, FtpSteps
        <4> QED BY <1>0, <1>2, <2>6, <4>5, <4>7, <4>8 DEF FtpInv, FtpSteps
      <3> QED BY <1>2, <2>1, <2>6, <3>3, <3>4, <3>5 DEF FtpStage, FtpAsked, r
    <2>7. CASE pc = "end"
      <3>1. toServer = <<>> /\ FtpTransfer(toClient, server, local, data, sent, "end")
        BY <1>2, <2>7 DEF FtpStage
      <3>2. FtpEnds(toClient, server, local, data, sent, "end")
        BY <2>1, <3>1 DEF FtpTransfer
      <3>3. PICK code \in {226, 426} :
              FtpReplied(code, sent, toServer, toClient) /\ (code = 226 => FtpComplete(server, local, data, "end"))
        BY <3>1, <3>2 DEF FtpEnds, FtpReplied
      <3>4. r.code = code /\ toClient' = <<>> /\ inStep' = TRUE /\ server.xfer = "no"
        BY <2>4, <3>2, <3>3 DEF FtpEnds
      <3>5. UNCHANGED <<local, data>> /\ (IF F!IsPositive(code) THEN F!Ask("QUIT", "", "farewell") ELSE F!Return("error"))
        BY <2>1, <2>7, <3>4 DEF F!Login, F!Prepare, F!End, F!Farewell, F!Passive, F!Command
      <3>6. CASE code = 226
        <4>1. FtpGood(server, local)
          BY <3>3, <3>6, FtpDone
        <4>2. F!Ask("QUIT", "", "farewell")
          <5>1. F!IsPositive(code)
            BY <3>6 DEF F!IsPositive
          <5> QED BY <3>5, <5>1
        <4> QED BY <1>1, <1>8, <2>7, <3>1, <3>4, <3>5, <4>1, <4>2
      <3>7. CASE code = 426
        <4>1. F!Return("error")
          BY <3>5, <3>7 DEF F!IsPositive
        <4> QED BY <1>1, <1>5, <2>2, <3>1, <3>4, <3>5, <4>1
      <3> QED BY <3>6, <3>7
    <2>8. CASE pc = "farewell"
      <3>1. FtpGood(server, local) /\ server.xfer = "no"
        BY <1>2, <2>8 DEF FtpStage
      <3>2. PICK code \in Nat : FtpReplied(code, sent, toServer, toClient)
        BY <1>2, <2>1, <2>8 DEF FtpStage, FtpAsked
      <3>3. toServer = <<>> /\ inStep' = TRUE
        BY <2>4, <3>2
      <3>4. UNCHANGED <<local, data>> /\ F!Return("ok")
        BY <2>1, <2>8 DEF F!Login, F!Prepare, F!End, F!Farewell, F!Passive, F!Command
      <3> QED BY <1>1, <1>5, <2>2, <3>1, <3>3, <3>4
    <2> QED BY <2>1, <2>3, <2>5, <2>6, <2>7, <2>8 DEF F!Login, F!Prepare, F!End, F!Farewell, F!Passive, F!Command, FtpSteps
  <1>10. CASE F!ReadData
    <2>1. pc = "read" /\ UNCHANGED <<toClient, inStep>>
      BY <1>10 DEF F!ReadData
    <2>2. /\ toServer = <<>> /\ local.op = "RETR"
          /\ IF local.prelim THEN FtpTransfer(toClient, server, local, data, sent, "read")
             ELSE toClient = <<>> /\ server.xfer = "no" /\ data.state = "eof" /\ local.got \o data.q = Remote
      BY <1>2, <2>1 DEF FtpStage
    <2>3. local.got \in Seq(Nat) /\ data.q \in Seq(Nat) /\ local.prelim \in BOOLEAN
      BY <1>1 DEF FtpLocals, FtpData
    <2>4. CASE data.q # <<>>
      <3> DEFINE got == Append(local.got, Head(data.q))
                 q == Tail(data.q)
      <3>1. data' = [data EXCEPT !.q = q] /\ local' = [local EXCEPT !.got = got] /\ UNCHANGED <<pc, result, sent, toServer>>
        BY <1>10, <2>4 DEF F!ReadData
      <3>2. got \in Seq(Nat) /\ q \in Seq(Nat) /\ got \o q = local.got \o data.q
        BY <2>3, <2>4, ReadOn, Reading
      <3> HIDE DEF got, q
      <3>3. /\ data' \in FtpData /\ data'.q = q /\ data'.state = data.state
            /\ local' \in FtpLocals /\ local'.got = got /\ local'.op = local.op /\ local'.prelim = local.prelim
            /\ local'.left = local.left /\ local'.resume = local.resume
        BY <1>1, <3>1, <3>2 DEF FtpData, FtpLocals
      <3>4. FtpTransfer(toClient, server, local, data, sent, "read") => FtpTransfer(toClient', server', local', data', sent', pc')
        <4>1. FtpRunning(server, local, data, sent, "read") => FtpRunning(server, local', data', sent, "read")
          BY <2>2, <3>2, <3>3 DEF FtpRunning
        <4>2. FtpComplete(server, local, data, "read") => FtpComplete(server, local', data', "read")
          BY <2>2, <3>2, <3>3 DEF FtpComplete
        <4>3. FtpTransfer(toClient, server, local, data, sent, "read") => FtpTransfer(toClient, server, local', data', sent, "read")
          BY <4>1, <4>2, FtpOn
        <4> QED BY <1>3, <2>1, <3>1, <4>3
      <3>5. FtpTypes'
        BY <1>1, <1>3, <2>1, <3>1, <3>3 DEF FtpTypes
      <3>6. FtpStage'
        BY <1>3, <2>1, <2>2, <2>3, <3>1, <3>2, <3>3, <3>4 DEF FtpStage, FtpSteps
      <3> QED BY <1>0, <1>2, <2>1, <3>1, <3>5, <3>6 DEF FtpInv
    <2>5. CASE data.q = <<>>
      <3>1. /\ data.state \in {"eof", "reset"} /\ data' = F!NoData /\ UNCHANGED local
            /\ IF data.state = "reset" THEN F!Return("error")
               ELSE IF local.prelim THEN F!Goto("end") ELSE F!Ask("QUIT", "", "farewell")
        BY <1>10, <2>5 DEF F!ReadData, F!AwaitsFinal
      <3>2. data' \in FtpData
        BY <3>1, Empty DEF F!NoData, FtpData
      <3>3. local.got \o data.q = local.got
        BY <2>3, <2>5, AllRead
      <3>4. CASE data.state = "reset"
        BY <1>1, <1>5, <2>1, <2>2, <3>1, <3>2, <3>4
      <3>5. CASE data.state = "eof" /\ local.prelim
        <4>1. pc' = "end" /\ UNCHANGED <<sent, toServer, result>>
          BY <3>1, <3>5 DEF F!Goto
        <4>2. FtpTransfer(toClient', server', local', data', sent', pc')
          <5>1. ~FtpRunning(server, local, data, sent, "read")
            BY <2>2, <3>5 DEF FtpRunning
          <5>2. FtpComplete(server, local, data, "read") => FtpComplete(server, local, data', "end")
            BY <2>2, <3>3 DEF FtpComplete
          <5>3. FtpTransfer(toClient, server, local, data', sent, "end")
            BY <2>2, <3>5, <5>1, <5>2, FtpOn
          <5> QED BY <1>3, <2>1, <3>1, <4>1, <5>3
        <4>3. FtpTypes'
          BY <1>1, <1>3, <2>1, <3>1, <3>2, <4>1 DEF FtpTypes
        <4>4. FtpStage'
          BY <2>2, <4>1, <4>2 DEF FtpStage, FtpSteps
        <4> QED BY <1>0, <1>2, <2>1, <4>1, <4>3, <4>4 DEF FtpInv
      <3>6. CASE data.state = "eof" /\ ~local.prelim
        <4>1. F!Ask("QUIT", "", "farewell") /\ server.xfer = "no" /\ toClient' = <<>> /\ FtpGood(server, local)
          BY <2>1, <2>2, <3>1, <3>3, <3>6 DEF FtpGood
        <4> QED BY <1>1, <1>8, <2>1, <2>2, <3>1, <3>2, <4>1
      <3> QED BY <3>1, <3>4, <3>5, <3>6
    <2> QED BY <2>4, <2>5
  <1>11. CASE F!WriteData
    <2>1. pc = "write" /\ UNCHANGED <<toClient, inStep>>
      BY <1>11 DEF F!WriteData
    <2>2. toServer = <<>> /\ local.op # "RETR" /\ FtpTransfer(toClient, server, local, data, sent, "write")
      BY <1>2, <2>1 DEF FtpStage
    <2>3. local.left \in Seq(Nat) /\ data.q \in Seq(Nat) /\ server.stored \in Seq(Nat)
      BY <1>1 DEF FtpLocals, FtpData, FtpServers
    <2>4. CASE local.left = <<>>
      <3>1. F!Goto("end") /\ data' = [data EXCEPT !.state = "eof"] /\ UNCHANGED local
        BY <1>11, <2>4 DEF F!WriteData
      <3>2. data' \in FtpData /\ data'.state = "eof" /\ data'.q = data.q
        BY <1>1, <3>1 DEF FtpData
      <3>3. pc' = "end" /\ UNCHANGED <<sent, toServer, result>>
        BY <3>1 DEF F!Goto
      <3>4. FtpTransfer(toClient', server', local', data', sent', pc')
        <4>1. FtpRunning(server, local, data, sent, "write") => FtpRunning(server, local, data', sent, "end")
          BY <2>2, <2>4, <3>2 DEF FtpRunning
        <4>2. FtpComplete(server, local, data, "write") => FtpComplete(server, local, data', "end")
          BY <2>2 DEF FtpComplete
        <4>3. FtpTransfer(toClient, server, local, data', sent, "end")
          BY <2>2, <4>1, <4>2, FtpOn
        <4> QED BY <1>3, <2>1, <3>1, <3>3, <4>3
      <3>5. FtpTypes'
        BY <1>1, <1>3, <2>1, <3>1, <3>2, <3>3 DEF FtpTypes
      <3>6. FtpStage'
        BY <2>2, <3>3, <3>4 DEF FtpStage, FtpSteps
      <3> QED BY <1>0, <1>2, <2>1, <3>3, <3>5, <3>6 DEF FtpInv
    <2>5. CASE local.left # <<>>
      <3> DEFINE q == Append(data.q, Head(local.left))
                 left == Tail(local.left)
      <3>1. \/ /\ data' = IF data.state = "open" THEN [data EXCEPT !.q = q] ELSE data
               /\ local' = [local EXCEPT !.left = left]
               /\ UNCHANGED <<pc, result, sent, toServer>>
            \/ F!Return("error") /\ UNCHANGED <<data, local>>
        BY <1>11, <2>5 DEF F!WriteData
      <3>2. left \in Seq(Nat) /\ q \in Seq(Nat) /\ FtpUpload(server.stored, q, left) = FtpUpload(server.stored, data.q, local.left)
        <4>1. left \in Seq(Nat)
          BY <2>3, <2>5, Reading
        <4>2. q \in Seq(Nat)
          <5>1. Head(local.left) \in Nat
            BY <2>3, <2>5, Reading
          <5> QED BY <2>3, <5>1
        <4>3. FtpUpload(server.stored, Append(data.q, Head(local.left)), Tail(local.left)) = FtpUpload(server.stored, data.q, local.left)
          BY <2>3, <2>5, FtpWritten
        <4> QED BY <4>1, <4>2, <4>3
      <3> HIDE DEF q, left
      <3>3. CASE F!Return("error") /\ UNCHANGED <<data, local>>
        BY <1>1, <1>5, <2>1, <2>2, <3>3
      <3>4. CASE /\ data' = IF data.state = "open" THEN [data EXCEPT !.q = q] ELSE data
                 /\ local' = [local EXCEPT !.left = left]
                 /\ UNCHANGED <<pc, result, sent, toServer>>
        <4>1. data' \in FtpData /\ data'.state = data.state /\ data'.q = (IF data.state = "open" THEN q ELSE data.q)
          BY <1>1, <3>2, <3>4 DEF FtpData
        <4>2. /\ local' \in FtpLocals /\ local'.left = left /\ local'.op = local.op /\ local'.resume = local.resume
          BY <1>1, <3>2, <3>4 DEF FtpLocals
        <4>3. FtpTarget(local') = FtpTarget(local)
          BY <4>2 DEF FtpTarget, FtpKept
        <4>4. FtpTransfer(toClient', server', local', data', sent', pc')
          <5>1. FtpRunning(server, local, data, sent, "write") => FtpRunning(server, local', data', sent, "write")
            BY <2>2, <3>2, <4>1, <4>2, <4>3 DEF FtpRunning
          <5>2. FtpComplete(server, local, data, "write") => FtpComplete(server, local', data', "write")
            BY <2>2 DEF FtpComplete
          <5>3. FtpTransfer(toClient, server, local', data', sent, "write")
            BY <2>2, <5>1, <5>2, FtpOn
          <5> QED BY <1>3, <2>1, <3>4, <5>3
        <4>5. FtpTypes'
          BY <1>1, <1>3, <2>1, <3>4, <4>1, <4>2 DEF FtpTypes
        <4>6. FtpStage'
          BY <2>1, <2>2, <3>4, <4>2, <4>4 DEF FtpStage, FtpSteps
        <4> QED BY <1>0, <1>2, <2>1, <3>4, <4>5, <4>6 DEF FtpInv
      <3> QED BY <3>1, <3>3, <3>4
    <2> QED BY <2>4, <2>5
  <1>12. CASE F!Broken
    <2>1. /\ ~server.alive /\ F!Return(IF pc = "farewell" THEN "ok" ELSE "error") /\ UNCHANGED <<local, data, toClient, inStep>>
      BY <1>12 DEF F!Broken
    <2>2. pc = "farewell" => FtpGood(server, local) /\ server.xfer = "no"
      BY <1>2 DEF FtpStage
    <2> QED BY <1>1, <1>5, <2>1, <2>2
  <1> QED BY <1>9, <1>10, <1>11, <1>12 DEF F!Client


\* The next chunk of a download is on its way.
LEMMA FtpNext ==
    ASSUME NEW got \in Seq(Nat), NEW q \in Seq(Nat), NEW all \in Seq(Nat), NEW k \in Nat, k < Len(all), got \o q = SubSeq(all, 1, k)
    PROVE  got \o Append(q, all[k + 1]) = SubSeq(all, 1, k + 1)
  <1> DEFINE x == all[k + 1]
  <1>1. k + 1 \in 1 .. Len(all)
    BY LenProperties
  <1>2. x \in Nat
    BY <1>1, ElementOfSeq
  <1>3. SubSeq(all, 1, k + 1) = Append(SubSeq(all, 1, k), x)
    BY <1>1
  <1> HIDE DEF x
  <1>4. got \o Append(q, x) = Append(got \o q, x)
    BY <1>2, FtpLast
  <1> QED BY <1>3, <1>4 DEF x

\* What the server answers to a command of the login or the preparation that it waits for.
LEMMA FtpAnswers ==
    ASSUME server \in FtpServers, NEW l \in FtpLocals, NEW verb \in FtpSteps, FtpReady(verb, server, l),
           NEW a \in F!Answers(server, verb)
    PROVE  /\ a.s \in FtpServers /\ a.code \in Nat /\ a.code # 550 /\ a.s.phase # "new" /\ FtpLed(verb, a.code, a.s, l)
           /\ a.s.alive = server.alive /\ a.s.xfer = server.xfer /\ a.s.pos = server.pos
  <1> DEFINE FtpKin(s) == s \in FtpServers /\ s.alive = server.alive /\ s.xfer = server.xfer /\ s.pos = server.pos
  <1>0. server \in FtpServers /\ server.mark \in BOOLEAN /\ l.resume \in BOOLEAN /\ server.phase # "new"
    BY DEF FtpServers, FtpLocals, FtpReady
  <1>1. CASE verb = "USER"
    <2> DEFINE x == [server EXCEPT !.phase = "in"]
               y == [server EXCEPT !.phase = "pass"]
    <2>1. a \in {F!To(x, 230), F!To(y, 331), F!To(server, 332), F!To(server, 530)}
      BY <1>1 DEF F!Answers, F!Logged, FtpReady
    <2>2. FtpKin(x) /\ x.phase = "in" /\ x.mark = server.mark
      BY <1>0, <1>1 DEF FtpServers, FtpKin, FtpReady
    <2>3. FtpKin(y) /\ y.phase = "pass" /\ y.mark = server.mark
      BY <1>0, <1>1 DEF FtpServers, FtpKin, FtpReady
    <2> HIDE DEF x, y
    <2>4. \/ a.s = x /\ a.code = 230
          \/ a.s = y /\ a.code = 331
          \/ a.s = server /\ a.code \in {332, 530}
      BY <2>1 DEF F!To
    <2>5. CASE a.s = x /\ a.code = 230
      <3>1. a.code \in Nat /\ a.code # 550
        BY <2>5
      <3> QED BY <1>0, <1>1, <2>2, <2>5, <3>1 DEF FtpKin, FtpReady, FtpLed
    <2>6. CASE a.s = y /\ a.code = 331
      <3>1. a.code \in Nat /\ a.code # 550
        BY <2>6
      <3> QED BY <1>0, <1>1, <2>3, <2>6, <3>1 DEF FtpKin, FtpReady, FtpLed
    <2>7. CASE a.s = server /\ a.code \in {332, 530}
      <3>1. a.code \in Nat /\ a.code # 550 /\ a.code \notin {200, 202, 230, 331, 350}
        BY <2>7
      <3> QED BY <1>0, <1>1, <2>7, <3>1 DEF FtpReady, FtpLed
    <2> QED BY <2>4, <2>5, <2>6, <2>7
  <1>2. CASE verb = "PASS"
    <2> DEFINE x == [server EXCEPT !.phase = "in"]
               y == [server EXCEPT !.phase = "user"]
    <2>1. a \in {F!To(x, 230), F!To(x, 202), F!To(y, 530)}
      BY <1>2 DEF F!Answers, F!Logged, FtpReady
    <2>2. FtpKin(x) /\ x.phase = "in" /\ x.mark = server.mark
      BY <1>0, <1>2 DEF FtpServers, FtpKin, FtpReady
    <2>3. FtpKin(y) /\ y.phase = "user" /\ y.mark = server.mark
      BY <1>0, <1>2 DEF FtpServers, FtpKin, FtpReady
    <2> HIDE DEF x, y
    <2>4. \/ a.s = x /\ a.code \in {230, 202}
          \/ a.s = y /\ a.code = 530
      BY <2>1 DEF F!To
    <2>5. CASE a.s = x /\ a.code \in {230, 202}
      <3>1. a.code \in Nat /\ a.code # 550
        BY <2>5
      <3> QED BY <1>0, <1>2, <2>2, <2>5, <3>1 DEF FtpKin, FtpReady, FtpLed
    <2>6. CASE a.s = y /\ a.code = 530
      <3>1. a.code \in Nat /\ a.code # 550
        BY <2>6
      <3> QED BY <1>0, <1>2, <2>3, <2>6, <3>1 DEF FtpKin, FtpReady, FtpLed
    <2> QED BY <2>4, <2>5, <2>6
  <1>3. CASE verb = "TYPE"
    <2> DEFINE x == [server EXCEPT !.binary = TRUE]
    <2>1. a \in {F!To(x, 200), F!To(server, 504)}
      BY <1>3 DEF F!Answers, F!Logged, FtpReady
    <2>2. FtpKin(x) /\ x.phase = "in" /\ x.binary /\ x.mark = server.mark
      BY <1>0, <1>3 DEF FtpServers, FtpKin, FtpReady
    <2> HIDE DEF x
    <2>3. \/ a.s = x /\ a.code = 200
          \/ a.s = server /\ a.code = 504
      BY <2>1 DEF F!To
    <2>4. CASE a.s = x /\ a.code = 200
      <3>1. a.code \in Nat /\ a.code # 550
        BY <2>4
      <3> QED BY <1>0, <1>3, <2>2, <2>4, <3>1 DEF FtpKin, FtpReady, FtpLed
    <2>5. CASE a.s = server /\ a.code = 504
      <3>1. a.code \in Nat /\ a.code # 550 /\ a.code \notin {200, 202, 230, 331, 350}
        BY <2>5
      <3> QED BY <1>0, <1>3, <2>5, <3>1 DEF FtpReady, FtpLed
    <2> QED BY <2>3, <2>4, <2>5
  <1>4. CASE verb = "REST"
    <2> DEFINE x == [server EXCEPT !.mark = TRUE]
    <2>1. a \in {F!To(x, 350), F!To(server, 502)}
      BY <1>4 DEF F!Answers, F!Logged, FtpReady
    <2>2. FtpKin(x) /\ x.phase = "in" /\ x.binary /\ x.mark
      BY <1>0, <1>4 DEF FtpServers, FtpKin, FtpReady
    <2> HIDE DEF x
    <2>3. \/ a.s = x /\ a.code = 350
          \/ a.s = server /\ a.code = 502
      BY <2>1 DEF F!To
    <2>4. CASE a.s = x /\ a.code = 350
      <3>1. a.code \in Nat /\ a.code # 550
        BY <2>4
      <3> QED BY <1>0, <1>4, <2>2, <2>4, <3>1 DEF FtpKin, FtpReady, FtpLed
    <2>5. CASE a.s = server /\ a.code = 502
      <3>1. a.code \in Nat /\ a.code # 550 /\ a.code \notin {200, 202, 230, 331, 350}
        BY <2>5
      <3> QED BY <1>0, <1>4, <2>5, <3>1 DEF FtpReady, FtpLed
    <2> QED BY <2>3, <2>4, <2>5
  <1>5. CASE verb = "EPSV"
    <2> DEFINE x == [server EXCEPT !.port = TRUE]
    <2>1. a \in {F!To(x, 229), F!To(server, 500), F!To(server, 421)}
      BY <1>5 DEF F!Answers, F!Logged, FtpReady
    <2>2. FtpKin(x) /\ x.phase = "in" /\ x.binary /\ x.mark = server.mark
      BY <1>0, <1>5 DEF FtpServers, FtpKin, FtpReady
    <2> HIDE DEF x
    <2>3. \/ a.s = x /\ a.code = 229
          \/ a.s = server /\ a.code \in {500, 421}
      BY <2>1 DEF F!To
    <2>4. CASE a.s = x /\ a.code = 229
      <3>1. a.code \in Nat /\ a.code # 550
        BY <2>4
      <3> QED BY <1>0, <1>5, <2>2, <2>4, <3>1 DEF FtpKin, FtpReady, FtpLed
    <2>5. CASE a.s = server /\ a.code \in {500, 421}
      <3>1. a.code \in Nat /\ a.code # 550 /\ a.code \notin {200, 202, 230, 331, 350}
        BY <2>5
      <3> QED BY <1>0, <1>5, <2>5, <3>1 DEF FtpReady, FtpLed
    <2> QED BY <2>3, <2>4, <2>5
  <1>6. CASE verb = "PASV"
    <2> DEFINE x == [server EXCEPT !.port = TRUE]
    <2>1. a \in {F!To(x, 227), F!To(server, 502)}
      BY <1>6 DEF F!Answers, F!Logged, FtpReady
    <2>2. FtpKin(x) /\ x.phase = "in" /\ x.binary /\ x.mark = server.mark
      BY <1>0, <1>6 DEF FtpServers, FtpKin, FtpReady
    <2> HIDE DEF x
    <2>3. \/ a.s = x /\ a.code = 227
          \/ a.s = server /\ a.code = 502
      BY <2>1 DEF F!To
    <2>4. CASE a.s = x /\ a.code = 227
      <3>1. a.code \in Nat /\ a.code # 550
        BY <2>4
      <3> QED BY <1>0, <1>6, <2>2, <2>4, <3>1 DEF FtpKin, FtpReady, FtpLed
    <2>5. CASE a.s = server /\ a.code = 502
      <3>1. a.code \in Nat /\ a.code # 550 /\ a.code \notin {200, 202, 230, 331, 350}
        BY <2>5
      <3> QED BY <1>0, <1>6, <2>5, <3>1 DEF FtpReady, FtpLed
    <2> QED BY <2>3, <2>4, <2>5
  <1> QED BY <1>1, <1>2, <1>3, <1>4, <1>5, <1>6 DEF FtpSteps

\* A step of the server during a transfer.
LEMMA FtpDuring ==
    ASSUME FtpInv, server.alive, server.xfer # "no", UNCHANGED <<pc, result, local, sent, toServer, inStep>>,
           server' \in FtpServers, server'.phase = server.phase, data' \in FtpData,
           NEW more \in Seq(FtpReplies), toClient' = toClient \o more,
           FtpRunning(server, local, data, sent, pc) => FtpTransfer(more, server', local, data', sent, pc)
    PROVE  FtpInv'
  <1>1. FtpStage /\ toClient \in Seq(FtpReplies) /\ pc \in FtpSteps \cup {"banner", "command", "read", "write", "end", "farewell", "done"}
    BY DEF FtpInv, FtpTypes
  <1>2. toClient' \in Seq(FtpReplies)
    BY <1>1, ConcatProperties
  <1>3. FtpTypes'
    BY <1>2 DEF FtpInv, FtpTypes
  <1>4. ASSUME NEW rest, FtpTransfer(rest, server, local, data, sent, pc) PROVE rest = <<>> /\ FtpTransfer(more, server', local, data', sent, pc)
    BY <1>4 DEF FtpTransfer, FtpEnds
  <1>5. <<>> \o more = more
    BY AllThere
  <1>6. pc \notin FtpSteps \cup {"banner", "farewell"}
    BY <1>1 DEF FtpStage, FtpIdle
  <1>7. FtpStage'
    <2>1. CASE pc = "command"
      <3>1. toServer = <<>> /\ toClient # <<>> /\ Head(toClient) = [code |-> 150, re |-> sent] /\ FtpTransfer(Tail(toClient), server, local, data, sent, pc)
        BY <1>1, <2>1 DEF FtpStage, FtpIdle
      <3>2. Tail(toClient) = <<>> /\ FtpTransfer(more, server', local, data', sent, pc)
        BY <1>4, <3>1
      <3>3. toClient' # <<>> /\ Head(toClient') = Head(toClient) /\ Tail(toClient') = more
        <4> DEFINE q == toClient
        <4>1. q \o more # <<>> /\ Head(q \o more) = Head(q) /\ Tail(q \o more) = Tail(q) \o more
          BY <1>1, <3>1, JoinedTail
        <4> QED BY <1>5, <3>2, <4>1
      <3> QED BY <2>1, <3>1, <3>2, <3>3 DEF FtpStage, FtpSteps
    <2>2. CASE pc \in {"read", "write", "end"}
      <3>1. toServer = <<>> /\ FtpTransfer(toClient, server, local, data, sent, pc) /\ (pc = "read" => local.prelim)
            /\ (pc = "read" => local.op = "RETR") /\ (pc = "write" => local.op # "RETR")
        BY <1>1, <2>2 DEF FtpStage
      <3>2. toClient = <<>> /\ FtpTransfer(more, server', local, data', sent, pc)
        BY <1>4, <3>1
      <3>3. toClient' = more
        BY <1>5, <3>2
      <3> QED BY <2>2, <3>1, <3>2, <3>3 DEF FtpStage, FtpSteps
    <2>3. CASE pc = "done"
      BY <2>3 DEF FtpStage, FtpSteps
    <2> QED BY <1>1, <1>6, <2>1, <2>2, <2>3
  <1>8. pc = "done" => (toServer = <<>> /\ result # "ok")
    BY DEF FtpInv
  <1> QED BY <1>1, <1>3, <1>7, <1>8 DEF FtpInv

LEMMA FtpMoves == FtpInv /\ F!Transfer => FtpInv'
  <1> SUFFICES ASSUME FtpInv, F!Transfer PROVE FtpInv'
    OBVIOUS
  <1>1. server \in FtpServers /\ local \in FtpLocals /\ data \in FtpData /\ toClient \in Seq(FtpReplies)
    BY DEF FtpInv, FtpTypes
  <1>2. data.q \in Seq(Nat) /\ server.stored \in Seq(Nat) /\ server.pos \in Nat /\ local.got \in Seq(Nat)
    BY <1>1 DEF FtpServers, FtpData, FtpLocals
  <1>3. Remote \in Seq(Nat)
    BY ClientsAssumption
  <1>4. server.alive /\ UNCHANGED <<pc, result, local, sent, toServer, toClient, inStep>>
    BY DEF F!Transfer
  <1>5. toClient' = toClient \o <<>> /\ <<>> \in Seq(FtpReplies)
    BY <1>1, <1>4, AllRead, Empty
  <1>6. CASE /\ server.xfer = "RETR" /\ server.pos < Len(Remote)
             /\ data' = [data EXCEPT !.q = Append(@, Remote[server.pos + 1])]
             /\ server' = [server EXCEPT !.pos = @ + 1]
    <2> DEFINE q == Append(data.q, Remote[server.pos + 1])
               pos == server.pos + 1
    <2>1. pos \in Nat /\ pos \in 1 .. Len(Remote) /\ pos <= Len(Remote) /\ Len(Remote) \in Nat
      BY <1>2, <1>3, <1>6, LenProperties
    <2>2. q \in Seq(Nat)
      <3>1. Remote[server.pos + 1] \in Nat
        BY <1>3, <2>1, ElementOfSeq
      <3> QED BY <1>2, <3>1
    <2>3. local.got \o data.q = SubSeq(Remote, 1, server.pos) => local.got \o q = SubSeq(Remote, 1, pos)
      BY <1>2, <1>3, <1>6, FtpNext
    <2>4. data' = [data EXCEPT !.q = q] /\ server' = [server EXCEPT !.pos = pos]
      BY <1>6
    <2> HIDE DEF q, pos
    <2>5. data' \in FtpData /\ data'.q = q /\ data'.state = data.state
      BY <1>1, <2>2, <2>4 DEF FtpData
    <2>6. server' \in FtpServers /\ server'.pos = pos /\ server'.xfer = server.xfer /\ server'.n = server.n /\ server'.phase = server.phase
      BY <1>1, <2>1, <2>4 DEF FtpServers
    <2>7. FtpRunning(server, local, data, sent, pc) => FtpRunning(server', local, data', sent, pc)
      BY <1>6, <2>1, <2>3, <2>5, <2>6 DEF FtpRunning
    <2>8. FtpRunning(server, local, data, sent, pc) => FtpTransfer(<<>>, server', local, data', sent, pc)
      BY <2>7 DEF FtpTransfer
    <2> QED BY <1>4, <1>5, <1>6, <2>5, <2>6, <2>8, FtpDuring
  <1>7. CASE /\ server.xfer \in {"STOR", "APPE"} /\ data.q # <<>>
             /\ data' = [data EXCEPT !.q = Tail(@)]
             /\ server' = [server EXCEPT !.stored = Append(@, Head(data.q))]
    <2> DEFINE q == Tail(data.q)
               stored == Append(server.stored, Head(data.q))
    <2>1. q \in Seq(Nat) /\ stored \in Seq(Nat)
      BY <1>2, <1>7, Reading, FtpStored
    <2>2. FtpUpload(stored, q, local.left) = FtpUpload(server.stored, data.q, local.left)
      <3>1. stored \o q = server.stored \o data.q
        BY <1>2, <1>7, FtpStored
      <3> QED BY <3>1 DEF FtpUpload
    <2>3. data' = [data EXCEPT !.q = q] /\ server' = [server EXCEPT !.stored = stored]
      BY <1>7
    <2> HIDE DEF q, stored
    <2>4. data' \in FtpData /\ data'.q = q /\ data'.state = data.state
      BY <1>1, <2>1, <2>3 DEF FtpData
    <2>5. server' \in FtpServers /\ server'.stored = stored /\ server'.xfer = server.xfer /\ server'.n = server.n /\ server'.phase = server.phase
      BY <1>1, <2>1, <2>3 DEF FtpServers
    <2>6. FtpRunning(server, local, data, sent, pc) => FtpRunning(server', local, data', sent, pc)
      BY <1>7, <2>2, <2>4, <2>5 DEF FtpRunning
    <2>7. FtpRunning(server, local, data, sent, pc) => FtpTransfer(<<>>, server', local, data', sent, pc)
      BY <2>6 DEF FtpTransfer
    <2> QED BY <1>4, <1>5, <1>7, <2>4, <2>5, <2>7, FtpDuring
  <1> QED BY <1>6, <1>7 DEF F!Transfer

LEMMA FtpCompletes == FtpInv /\ F!Complete => FtpInv'
  <1> SUFFICES ASSUME FtpInv, F!Complete PROVE FtpInv'
    OBVIOUS
  <1>1. server \in FtpServers /\ local \in FtpLocals /\ data \in FtpData /\ sent \in Nat
    BY DEF FtpInv, FtpTypes
  <1>2. data.q \in Seq(Nat) /\ server.stored \in Seq(Nat) /\ Remote \in Seq(Nat)
    <2>1. Remote \in Seq(Nat)
      BY ClientsAssumption
    <2> QED BY <1>1, <2>1 DEF FtpServers, FtpData
  <1>3. /\ server.alive /\ server.xfer # "no" /\ (server.xfer = "RETR" => server.pos = Len(Remote))
        /\ (server.xfer \in {"STOR", "APPE"} => data.state = "eof" /\ data.q = <<>>)
        /\ server' = [server EXCEPT !.xfer = "no"] /\ data' = [data EXCEPT !.state = "eof"]
        /\ F!Send(<<F!Reply(226, server.n)>>)
    BY DEF F!Complete
  <1> DEFINE last == [code |-> 226, re |-> server.n]
             more == <<last>>
  <1>4. last \in FtpReplies /\ toClient' = toClient \o more /\ UNCHANGED <<pc, result, local, sent, toServer, inStep>>
    BY <1>1, <1>3 DEF F!Send, F!Reply, FtpReplies, FtpServers
  <1>5. more \in Seq(FtpReplies)
    <2> HIDE DEF last
    <2> QED BY <1>4, OneIn
  <1>6. /\ server' \in FtpServers /\ server'.xfer = "no" /\ server'.phase = server.phase /\ server'.stored = server.stored
        /\ data' \in FtpData /\ data'.state = "eof" /\ data'.q = data.q
    BY <1>1, <1>3 DEF FtpServers, FtpData
  <1>7. ASSUME FtpRunning(server, local, data, sent, pc) PROVE FtpTransfer(more, server', local, data', sent, pc)
    <2>1. server.xfer = local.op /\ server.n = sent
      BY <1>7 DEF FtpRunning
    <2>2. local.op \in {"RETR", "STOR", "APPE"}
      BY <1>1 DEF FtpLocals
    <2>3. CASE local.op = "RETR"
      <3>1. SubSeq(Remote, 1, Len(Remote)) = Remote
        BY <1>2
      <3>2. pc # "end" /\ local.got \o data.q = SubSeq(Remote, 1, server.pos) /\ server.pos = Len(Remote)
        BY <1>3, <1>7, <2>1, <2>3 DEF FtpRunning
      <3>3. FtpComplete(server', local, data', pc)
        BY <1>6, <2>3, <3>1, <3>2 DEF FtpComplete
      <3> QED BY <1>6, <2>1, <3>3 DEF FtpTransfer, FtpEnds
    <2>4. CASE local.op # "RETR"
      <3>1. data.state = "eof" /\ data.q = <<>>
        BY <1>3, <2>1, <2>2, <2>4
      <3>2. pc = "end" /\ local.left = <<>> /\ FtpUpload(server.stored, data.q, local.left) = FtpTarget(local)
        BY <1>7, <2>4, <3>1 DEF FtpRunning
      <3>3. server.stored \o <<>> = server.stored
        BY <1>2, AllRead
      <3>4. server.stored = FtpTarget(local)
        BY <3>1, <3>2, <3>3 DEF FtpUpload
      <3>5. FtpComplete(server', local, data', pc)
        BY <1>6, <2>4, <3>2, <3>4 DEF FtpComplete
      <3> QED BY <1>6, <2>1, <3>5 DEF FtpTransfer, FtpEnds
    <2> QED BY <2>3, <2>4
  <1> HIDE DEF last, more
  <1> QED BY <1>3, <1>4, <1>5, <1>6, <1>7, FtpDuring

LEMMA FtpFails == FtpInv /\ F!Fail => FtpInv'
  <1> SUFFICES ASSUME FtpInv, F!Fail PROVE FtpInv'
    OBVIOUS
  <1>1. server \in FtpServers /\ data \in FtpData /\ sent \in Nat
    BY DEF FtpInv, FtpTypes
  <1>2. /\ server.alive /\ server.xfer # "no" /\ server' = [server EXCEPT !.xfer = "no"]
        /\ \E st \in {"eof", "reset"} :
             data' = [state |-> IF server.xfer = "RETR" THEN st ELSE "reset", q |-> IF st = "eof" THEN data.q ELSE <<>>]
        /\ F!Send(<<F!Reply(426, server.n)>>)
    BY DEF F!Fail
  <1> DEFINE last == [code |-> 426, re |-> server.n]
             more == <<last>>
  <1>3. last \in FtpReplies /\ toClient' = toClient \o more /\ UNCHANGED <<pc, result, local, sent, toServer, inStep>>
    BY <1>1, <1>2 DEF F!Send, F!Reply, FtpReplies, FtpServers
  <1>4. more \in Seq(FtpReplies)
    <2> HIDE DEF last
    <2> QED BY <1>3, OneIn
  <1>5. server' \in FtpServers /\ server'.xfer = "no" /\ server'.phase = server.phase
    BY <1>1, <1>2 DEF FtpServers
  <1>6. data' \in FtpData
    BY <1>1, <1>2, Empty DEF FtpData
  <1>7. FtpRunning(server, local, data, sent, pc) => FtpTransfer(more, server', local, data', sent, pc)
    BY <1>5 DEF FtpRunning, FtpTransfer, FtpEnds
  <1> HIDE DEF last, more
  <1> QED BY <1>2, <1>3, <1>4, <1>5, <1>6, <1>7, FtpDuring

LEMMA FtpServes == FtpInv /\ F!Serve => FtpInv'
  <1> SUFFICES ASSUME FtpInv, F!Serve PROVE FtpInv'
    OBVIOUS
  <1>1. /\ server \in FtpServers /\ local \in FtpLocals /\ data \in FtpData /\ toServer \in Seq(FtpCommands)
        /\ toClient \in Seq(FtpReplies) /\ sent \in Nat /\ inStep = TRUE /\ FtpStage
    BY DEF FtpInv, FtpTypes
  <1>2. server.alive /\ server.phase # "new" /\ server.xfer = "no" /\ toServer # <<>>
    BY DEF F!Serve
  <1> DEFINE verb == Head(toServer).verb
             n == Head(toServer).n
  <1>3. PICK a \in F!Answers(server, verb) :
          /\ F!Answer([a.s EXCEPT !.n = n], <<F!Reply(a.code, n)>>)
          /\ data' = IF a.code = 550 THEN [data EXCEPT !.state = "eof"] ELSE data
    BY DEF F!Serve
  <1> DEFINE reply == [code |-> a.code, re |-> n]
  <1>4. /\ server' = [a.s EXCEPT !.n = n] /\ toServer' = Tail(toServer) /\ toClient' = toClient \o <<reply>>
        /\ UNCHANGED <<pc, result, local, sent, inStep>>
    BY <1>3 DEF F!Answer, F!Reply
  <1>5. n \in Nat
    <2>1. Head(toServer) \in FtpCommands
      BY <1>1, <1>2, Reading
    <2> QED BY <2>1 DEF FtpCommands
  <1>6. data' \in FtpData
    BY <1>1, <1>3 DEF FtpData
  <1>7. ASSUME NEW v, FtpAsked(v, sent, toServer, toClient)
        PROVE  verb = v /\ n = sent /\ toServer' = <<>> /\ toClient' = <<reply>>
    <2>1. PICK c \in FtpCommands : toServer = <<c>> /\ c.verb = v /\ c.n = sent /\ toClient = <<>>
      BY <1>7 DEF FtpAsked
    <2>2. Head(toServer) = c /\ Tail(toServer) = <<>>
      BY <2>1, One
    <2> HIDE DEF reply
    <2>3. <<>> \o <<reply>> = <<reply>>
      BY One
    <2> QED BY <1>4, <2>1, <2>2, <2>3
  <1>8. ASSUME a.s \in FtpServers, a.code \in Nat, toServer' = <<>>, toClient' = <<reply>>
        PROVE  /\ FtpTypes' /\ FtpReplied(a.code, n, toServer', toClient') /\ server' \in FtpServers
               /\ server'.alive = a.s.alive /\ server'.phase = a.s.phase /\ server'.binary = a.s.binary /\ server'.mark = a.s.mark
               /\ server'.xfer = a.s.xfer /\ server'.pos = a.s.pos /\ server'.stored = a.s.stored /\ server'.n = n
    <2>1. reply \in FtpReplies
      BY <1>5, <1>8 DEF FtpReplies
    <2>2. FtpReplied(a.code, n, toServer', toClient')
      BY <1>8 DEF FtpReplied
    <2> HIDE DEF reply
    <2>3. toClient' \in Seq(FtpReplies) /\ toServer' \in Seq(FtpCommands)
      BY <1>8, <2>1, OneIn, Empty
    <2>4. /\ server' \in FtpServers /\ server'.alive = a.s.alive /\ server'.phase = a.s.phase /\ server'.binary = a.s.binary /\ server'.mark = a.s.mark
          /\ server'.xfer = a.s.xfer /\ server'.pos = a.s.pos /\ server'.stored = a.s.stored /\ server'.n = n
      BY <1>4, <1>5, <1>8 DEF FtpServers
    <2>5. FtpTypes'
      BY <1>1, <1>4, <1>6, <2>3, <2>4 DEF FtpTypes
    <2> QED BY <2>2, <2>4, <2>5
  <1> HIDE DEF verb, n
  <1>9. CASE pc \in FtpSteps
    <2>1. FtpAsked(pc, sent, toServer, toClient) /\ FtpReady(pc, server, local) /\ FtpIdle(server, local)
      BY <1>1, <1>2, <1>9 DEF FtpStage, FtpReplied
    <2>2. verb = pc /\ n = sent /\ toServer' = <<>> /\ toClient' = <<reply>>
      BY <1>7, <2>1
    <2>3. a \in F!Answers(server, pc)
      BY <1>3, <2>2
    <2>4. /\ a.s \in FtpServers /\ a.code \in Nat /\ a.s.phase # "new" /\ FtpLed(pc, a.code, a.s, local)
          /\ a.s.xfer = server.xfer /\ a.s.pos = server.pos
      BY <1>1, <1>9, <2>1, <2>3, FtpAnswers
    <2>5. /\ FtpTypes' /\ FtpReplied(a.code, n, toServer', toClient')
          /\ server'.phase = a.s.phase /\ server'.binary = a.s.binary /\ server'.mark = a.s.mark
          /\ server'.xfer = a.s.xfer /\ server'.pos = a.s.pos
      BY <1>8, <2>2, <2>4
    <2>6. FtpLed(pc, a.code, server', local)
      BY <2>4, <2>5 DEF FtpLed
    <2>7. FtpIdle(server', local')
      BY <1>4, <2>1, <2>4, <2>5 DEF FtpIdle
    <2>8. FtpReplied(a.code, sent', toServer', toClient') /\ FtpLed(pc', a.code, server', local')
      BY <1>4, <2>2, <2>5, <2>6
    <2>9. FtpStage'
      BY <1>4, <1>9, <2>4, <2>7, <2>8 DEF FtpStage, FtpSteps
    <2> QED BY <1>4, <1>9, <2>4, <2>5, <2>9 DEF FtpInv, FtpSteps
  <1>10. CASE pc = "command"
    <2>1. /\ FtpAsked(local.op, sent, toServer, toClient) /\ FtpReady("command", server, local) /\ FtpIdle(server, local)
          /\ data.q = <<>> /\ data.state = "open"
      BY <1>1, <1>2, <1>10 DEF FtpStage, FtpReplied
    <2>2. verb = local.op /\ n = sent /\ toServer' = <<>> /\ toClient' = <<reply>>
      BY <1>7, <2>1
    <2>3. local.op \in {"RETR", "STOR", "APPE"} /\ local.resume \in BOOLEAN /\ server.mark = local.resume /\ server.phase = "in" /\ server.binary
      BY <1>1, <2>1 DEF FtpLocals, FtpReady
    <2> DEFINE kept == IF verb = "RETR" \/ verb = "APPE" THEN Remote ELSE SubSeq(Remote, 1, IF server.mark THEN Offset ELSE 0)
               s == [server EXCEPT !.xfer = verb, !.stored = kept]
    <2>4. a \in {F!To(s, 150), F!To(server, 550)}
      BY <1>3, <2>1, <2>2, <2>3 DEF F!Answers
    <2>5. Remote \in Seq(Nat) /\ Offset \in 0 .. Len(Remote)
      BY ClientsAssumption
    <2>6. kept \in Seq(Nat) /\ (local.op # "RETR" => kept = FtpKept(local))
      <3>1. kept \in Seq(Nat)
        BY <2>5
      <3> QED BY <2>2, <2>3, <3>1 DEF FtpKept
    <2>7. s \in FtpServers /\ s.xfer = local.op /\ s.stored = kept /\ s.pos = 0 /\ s.alive /\ s.phase = "in"
      <3> HIDE DEF kept
      <3> QED BY <1>1, <1>2, <2>1, <2>2, <2>3, <2>6 DEF FtpServers, FtpIdle
    <2> HIDE DEF s, kept
    <2>8. (a.s = s /\ a.code = 150) \/ (a.s = server /\ a.code = 550)
      BY <2>4 DEF F!To
    <2>9. CASE a.s = server /\ a.code = 550
      <3>1. FtpTypes' /\ FtpReplied(a.code, n, toServer', toClient') /\ server'.xfer = "no" /\ server'.phase = "in"
        <4>1. a.code \in Nat
          BY <2>9
        <4> QED BY <1>1, <1>2, <1>8, <2>2, <2>3, <2>9, <4>1
      <3>2. FtpReplied(550, sent', toServer', toClient')
        BY <1>4, <2>2, <2>9, <3>1
      <3>3. FtpStage'
        BY <1>4, <1>10, <3>1, <3>2 DEF FtpStage, FtpSteps
      <3> QED BY <1>4, <1>10, <3>1, <3>3 DEF FtpInv, FtpSteps
    <2>10. CASE a.s = s /\ a.code = 150
      <3>1. a.code \in Nat /\ data' = data
        BY <1>3, <2>10
      <3>2. /\ FtpTypes' /\ server'.phase = "in" /\ server'.xfer = local.op /\ server'.stored = kept /\ server'.pos = 0 /\ server'.n = sent
        BY <1>8, <2>2, <2>7, <2>10, <3>1
      <3>3. toServer' = <<>> /\ toClient' # <<>> /\ Head(toClient') = [code |-> 150, re |-> sent] /\ Tail(toClient') = <<>>
        <4>1. reply = [code |-> 150, re |-> sent]
          BY <2>2, <2>10
        <4> HIDE DEF reply
        <4>2. toClient' # <<>> /\ Head(toClient') = reply /\ Tail(toClient') = <<>>
          BY <2>2, One
        <4> QED BY <2>2, <4>1, <4>2
      <3>4. local.got = <<>> /\ local.left = Body
        BY <2>1 DEF FtpIdle
      <3>5. FtpRunning(server', local, data, sent, "command")
        <4>1. CASE local.op = "RETR"
          <5>1. SubSeq(Remote, 1, 0) = <<>> /\ 0 <= Len(Remote)
            BY <2>5
          <5>2. <<>> \o <<>> = <<>>
            BY One
          <5> QED BY <2>1, <3>2, <3>4, <4>1, <5>1, <5>2 DEF FtpRunning
        <4>2. CASE local.op # "RETR"
          <5>1. kept \o <<>> = kept
            BY <2>6, AllRead
          <5>2. FtpUpload(kept, <<>>, Body) = FtpTarget(local)
            BY <2>6, <4>2, <5>1 DEF FtpUpload, FtpTarget
          <5> QED BY <2>1, <3>2, <3>4, <4>2, <5>2 DEF FtpRunning
        <4> QED BY <4>1, <4>2
      <3>6. FtpTransfer(<<>>, server', local, data, sent, "command")
        BY <3>5 DEF FtpTransfer
      <3>7. FtpTransfer(Tail(toClient'), server', local', data', sent', "command")
        BY <1>4, <3>1, <3>3, <3>6
      <3>8. FtpStage'
        BY <1>4, <1>10, <3>3, <3>7 DEF FtpStage, FtpSteps
      <3> QED BY <1>4, <1>10, <3>2, <3>8 DEF FtpInv, FtpSteps
    <2> QED BY <2>8, <2>9, <2>10
  <1>11. CASE pc = "farewell"
    <2>1. FtpAsked("QUIT", sent, toServer, toClient) /\ FtpGood(server, local)
      BY <1>1, <1>2, <1>11 DEF FtpStage, FtpReplied
    <2>2. verb = "QUIT" /\ n = sent /\ toServer' = <<>> /\ toClient' = <<reply>>
      BY <1>7, <2>1
    <2> DEFINE s == [server EXCEPT !.alive = FALSE]
    <2>3. s \in FtpServers /\ s.stored = server.stored /\ s.xfer = "no" /\ s.phase # "new"
      BY <1>1, <1>2 DEF FtpServers
    <2>4. a.s \in FtpServers /\ a.s.stored = server.stored /\ a.s.xfer = "no" /\ a.s.phase # "new" /\ a.code \in Nat
      <3>1. a \in {F!To(s, 221)}
        BY <1>3, <2>2 DEF F!Answers
      <3> HIDE DEF s
      <3>2. a.s = s /\ a.code = 221
        BY <3>1 DEF F!To
      <3> QED BY <2>3, <3>2
    <2>5. FtpTypes' /\ FtpReplied(a.code, n, toServer', toClient') /\ server'.stored = server.stored /\ server'.xfer = "no" /\ server'.phase # "new"
      BY <1>8, <2>2, <2>4
    <2>6. FtpGood(server', local')
      BY <1>4, <2>1, <2>5 DEF FtpGood
    <2>7. FtpReplied(a.code, sent', toServer', toClient')
      BY <1>4, <2>2, <2>5
    <2>8. FtpStage'
      BY <1>4, <1>11, <2>4, <2>5, <2>6, <2>7 DEF FtpStage, FtpSteps
    <2> QED BY <1>4, <1>11, <2>5, <2>8 DEF FtpInv, FtpSteps
  <1>12. CASE pc \in {"banner", "read", "write", "end", "done"}
    BY <1>1, <1>2, <1>12 DEF FtpStage, FtpInv
  <1> QED BY <1>9, <1>10, <1>11, <1>12 DEF FtpInv

LEMMA FtpServesAtOnce == FtpInv /\ F!ServeAtOnce => FtpInv'
  <1> SUFFICES ASSUME FtpInv, F!ServeAtOnce PROVE FtpInv'
    OBVIOUS
  <1>1. /\ server \in FtpServers /\ local \in FtpLocals /\ toServer \in Seq(FtpCommands)
        /\ toClient \in Seq(FtpReplies) /\ sent \in Nat /\ inStep = TRUE /\ FtpStage
    BY DEF FtpInv, FtpTypes
  <1> DEFINE verb == Head(toServer).verb
             n == Head(toServer).n
             reply == [code |-> 226, re |-> n]
  <1>2. /\ server.alive /\ server.xfer = "no" /\ toServer # <<>> /\ verb = "RETR" /\ server.phase = "in"
        /\ data' = [state |-> "eof", q |-> Remote]
        /\ server' = server /\ toServer' = Tail(toServer) /\ toClient' = toClient \o <<reply>>
        /\ UNCHANGED <<pc, result, local, sent, inStep>>
    BY DEF F!ServeAtOnce, F!Answer, F!Reply
  <1>3. ASSUME NEW v, FtpAsked(v, sent, toServer, toClient)
        PROVE  verb = v /\ n = sent /\ toServer' = <<>> /\ toClient' = <<reply>>
    <2>1. PICK c \in FtpCommands : toServer = <<c>> /\ c.verb = v /\ c.n = sent /\ toClient = <<>>
      BY <1>3 DEF FtpAsked
    <2>2. Head(toServer) = c /\ Tail(toServer) = <<>>
      BY <2>1, One
    <2> HIDE DEF reply
    <2>3. <<>> \o <<reply>> = <<reply>>
      BY One
    <2> QED BY <1>2, <2>1, <2>2, <2>3
  <1>4. Remote \in Seq(Nat)
    BY ClientsAssumption
  <1>5. data' \in FtpData /\ data'.state = "eof" /\ data'.q = Remote
    BY <1>2, <1>4 DEF FtpData
  <1>6. pc = "command" /\ FtpAsked(local.op, sent, toServer, toClient) /\ FtpIdle(server, local)
    <2>1. CASE pc \in FtpSteps
      <3>1. FtpAsked(pc, sent, toServer, toClient)
        BY <1>1, <1>2, <2>1 DEF FtpStage, FtpReplied
      <3>2. verb = pc
        BY <1>3, <3>1
      <3> QED BY <1>2, <2>1, <3>2 DEF FtpSteps
    <2>2. CASE pc = "farewell"
      <3>1. FtpAsked("QUIT", sent, toServer, toClient)
        BY <1>1, <1>2, <2>2 DEF FtpStage, FtpReplied
      <3>2. verb = "QUIT"
        BY <1>3, <3>1
      <3> QED BY <1>2, <3>2
    <2>3. CASE pc \in {"banner", "read", "write", "end", "done"}
      BY <1>1, <1>2, <2>3 DEF FtpStage, FtpInv
    <2>4. CASE pc = "command"
      BY <1>1, <1>2, <2>4 DEF FtpStage, FtpReplied
    <2> QED BY <2>1, <2>2, <2>3, <2>4 DEF FtpInv
  <1>7. local.op = "RETR" /\ n = sent /\ toServer' = <<>> /\ toClient' = <<reply>>
    BY <1>2, <1>3, <1>6
  <1>8. reply \in FtpReplies /\ FtpReplied(226, sent', toServer', toClient')
    BY <1>1, <1>2, <1>7 DEF FtpReplies, FtpReplied
  <1> HIDE DEF verb, n, reply
  <1>9. FtpTypes'
    BY <1>1, <1>2, <1>5, <1>7, <1>8, OneIn, Empty DEF FtpTypes
  <1>10. FtpStage'
    BY <1>2, <1>5, <1>6, <1>7, <1>8 DEF FtpStage, FtpIdle, FtpSteps
  <1> QED BY <1>2, <1>6, <1>9, <1>10 DEF FtpInv, FtpSteps

LEMMA FtpGreets == FtpInv /\ F!Greet => FtpInv'
  <1> SUFFICES ASSUME FtpInv, F!Greet PROVE FtpInv'
    OBVIOUS
  <1>1. server \in FtpServers /\ toClient \in Seq(FtpReplies) /\ FtpStage
    BY DEF FtpInv, FtpTypes
  <1>2. server.alive /\ server.phase = "new" /\ server' = [server EXCEPT !.phase = "user"] /\ UNCHANGED data
    BY DEF F!Greet
  <1>3. PICK replies \in {<<F!Reply(220, 0)>>, <<F!Reply(120, 0), F!Reply(220, 0)>>, <<F!Reply(421, 0)>>} :
          toClient' = toClient \o replies /\ UNCHANGED <<pc, result, local, sent, toServer, inStep>>
    BY DEF F!Greet, F!Send
  <1>4. /\ replies \in Seq(FtpReplies) /\ <<>> \o replies = replies /\ replies # <<>> /\ Head(replies).re = 0
        /\ (F!IsPositive(Head(replies).code) => Tail(replies) = <<>>)
    <2> DEFINE x == [code |-> 220, re |-> 0]
               y == [code |-> 120, re |-> 0]
               z == [code |-> 421, re |-> 0]
    <2>1. replies \in {<<x>>, <<y, x>>, <<z>>}
      BY <1>3 DEF F!Reply
    <2>2. /\ x \in FtpReplies /\ y \in FtpReplies /\ z \in FtpReplies /\ x.re = 0 /\ y.re = 0 /\ z.re = 0
          /\ ~F!IsPositive(y.code) /\ ~F!IsPositive(z.code)
      BY DEF FtpReplies, F!IsPositive
    <2> HIDE DEF x, y, z
    <2>3. CASE replies = <<x>>
      BY <2>2, <2>3, One, OneIn
    <2>4. CASE replies = <<y, x>>
      <3>1. <<y, x>> \in Seq(FtpReplies)
        BY <2>2
      <3> QED BY <2>2, <2>4, <3>1, Two
    <2>5. CASE replies = <<z>>
      BY <2>2, <2>5, One, OneIn
    <2> QED BY <2>1, <2>3, <2>4, <2>5
  <1>5. toClient' \in Seq(FtpReplies)
    BY <1>1, <1>3, <1>4, ConcatProperties
  <1>6. /\ server' \in FtpServers /\ server'.phase = "user" /\ server'.mark = server.mark /\ server'.xfer = server.xfer
        /\ server'.pos = server.pos /\ server'.stored = server.stored
    BY <1>1, <1>2 DEF FtpServers
  <1>7. FtpTypes'
    BY <1>2, <1>3, <1>5, <1>6 DEF FtpInv, FtpTypes
  <1>8. pc \in {"banner", "done"}
    BY <1>2 DEF FtpInv
  <1>9. CASE pc = "banner"
    <2>1. sent = 0 /\ toServer = <<>> /\ FtpIdle(server, local) /\ ~server.mark /\ toClient = <<>>
      BY <1>1, <1>2, <1>9 DEF FtpStage
    <2>2. toClient' = replies
      BY <1>3, <1>4, <2>1
    <2>3. FtpStage'
      BY <1>3, <1>4, <1>6, <1>9, <2>1, <2>2 DEF FtpStage, FtpIdle, FtpSteps
    <2> QED BY <1>3, <1>7, <1>9, <2>3 DEF FtpInv
  <1>10. CASE pc = "done"
    <2>1. FtpStage'
      BY <1>3, <1>10 DEF FtpStage, FtpSteps
    <2>2. FtpGood(server, local) => FtpGood(server', local')
      BY <1>3, <1>6 DEF FtpGood
    <2>3. toServer = <<>> /\ (result = "ok" => FtpGood(server, local) /\ server.xfer = "no")
      BY <1>2, <1>10 DEF FtpInv
    <2> QED BY <1>3, <1>6, <1>7, <1>10, <2>1, <2>2, <2>3 DEF FtpInv
  <1> QED BY <1>8, <1>9, <1>10

LEMMA FtpServer == FtpInv /\ F!Server => FtpInv'
  BY FtpGreets, FtpServes, FtpServesAtOnce, FtpMoves, FtpCompletes DEF F!Server

LEMMA FtpDies == FtpInv /\ F!Die => FtpInv'
  <1> SUFFICES ASSUME FtpInv, F!Die PROVE FtpInv'
    OBVIOUS
  <1>1. server \in FtpServers /\ data \in FtpData /\ FtpStage /\ pc \in FtpSteps \cup {"banner", "command", "read", "write", "end", "farewell", "done"}
    BY DEF FtpInv, FtpTypes
  <1>2. /\ server.alive /\ server' = [server EXCEPT !.alive = FALSE]
        /\ data' = [data EXCEPT !.state = IF @ = "open" THEN "eof" ELSE @]
        /\ UNCHANGED <<pc, result, local, sent, toServer, toClient, inStep>>
    BY DEF F!Die, F!Crash
  <1>3. /\ server' \in FtpServers /\ ~server'.alive /\ server'.phase = server.phase /\ server'.mark = server.mark /\ server'.binary = server.binary
        /\ server'.xfer = server.xfer /\ server'.pos = server.pos /\ server'.stored = server.stored
    BY <1>1, <1>2 DEF FtpServers
  <1>4. data' \in FtpData /\ data'.q = data.q /\ (data.state = "eof" => data'.state = "eof")
    BY <1>1, <1>2 DEF FtpData
  <1>5. FtpTypes'
    BY <1>2, <1>3, <1>4 DEF FtpInv, FtpTypes
  <1>6. FtpIdle(server', local) <=> FtpIdle(server, local)
    BY <1>3 DEF FtpIdle
  <1>7. FtpGood(server', local) <=> FtpGood(server, local)
    BY <1>3 DEF FtpGood
  <1>8. ASSUME NEW q, FtpTransfer(q, server, local, data, sent, pc) PROVE FtpTransfer(q, server', local, data', sent, pc)
    <2>1. FtpComplete(server, local, data, pc) => FtpComplete(server', local, data', pc)
      BY <1>3, <1>4 DEF FtpComplete
    <2> QED BY <1>3, <1>8, <2>1 DEF FtpTransfer, FtpEnds
  <1>9. FtpStage'
    <2>1. CASE pc = "banner"
      BY <1>1, <1>2, <1>3, <1>6, <2>1 DEF FtpStage, FtpSteps
    <2>2. CASE pc \in FtpSteps
      <3>1. FtpReady(pc, server, local) => FtpReady(pc, server', local)
        BY <1>3 DEF FtpReady
      <3>2. \A code : FtpLed(pc, code, server, local) => FtpLed(pc, code, server', local)
        BY <1>3 DEF FtpLed
      <3>3. FtpIdle(server, local)
        BY <1>1, <2>2 DEF FtpStage
      <3>4. CASE FtpAsked(pc, sent, toServer, toClient) /\ FtpReady(pc, server, local)
        BY <1>2, <1>6, <2>2, <3>1, <3>3, <3>4 DEF FtpStage, FtpSteps
      <3>5. CASE \E code \in Nat : FtpReplied(code, sent, toServer, toClient) /\ FtpLed(pc, code, server, local)
        <4>1. PICK code \in Nat : FtpReplied(code, sent, toServer, toClient) /\ FtpLed(pc, code, server, local)
          BY <3>5
        <4>2. FtpLed(pc, code, server', local)
          BY <3>2, <4>1
        <4> QED BY <1>2, <1>6, <2>2, <3>3, <4>1, <4>2 DEF FtpStage, FtpSteps
      <3> QED BY <1>1, <2>2, <3>4, <3>5 DEF FtpStage
    <2>3. CASE pc = "command"
      <3>1. FtpReady(pc, server, local) => FtpReady(pc, server', local)
        BY <1>3 DEF FtpReady
      <3>2. \/ FtpAsked(local.op, sent, toServer, toClient) /\ FtpReady(pc, server', local) /\ FtpIdle(server', local) /\ data'.q = <<>>
            \/ FtpReplied(550, sent, toServer, toClient) /\ server'.xfer = "no"
            \/ /\ FtpReplied(226, sent, toServer, toClient) /\ server'.xfer = "no"
               /\ local.op = "RETR" /\ local.got = <<>> /\ data'.state = "eof" /\ data'.q = Remote
            \/ /\ toServer = <<>> /\ toClient # <<>> /\ Head(toClient) = [code |-> 150, re |-> sent]
               /\ FtpTransfer(Tail(toClient), server', local, data', sent, pc)
        BY <1>1, <1>3, <1>4, <1>6, <1>8, <2>3, <3>1 DEF FtpStage
      <3> QED BY <1>2, <1>3, <2>3, <3>2 DEF FtpStage, FtpSteps
    <2>4. CASE pc \in {"read", "write", "end"}
      <3>1. FtpTransfer(toClient, server, local, data, sent, pc) => FtpTransfer(toClient', server', local', data', sent', pc')
        BY <1>2, <1>8
      <3> QED BY <1>1, <1>2, <1>3, <1>4, <2>4, <3>1 DEF FtpStage, FtpSteps
    <2>5. CASE pc = "farewell"
      BY <1>1, <1>2, <1>3, <1>7, <2>5 DEF FtpStage, FtpSteps
    <2>6. CASE pc = "done"
      BY <1>2, <2>6 DEF FtpStage, FtpSteps
    <2> QED BY <1>1, <2>1, <2>2, <2>3, <2>4, <2>5, <2>6
  <1> QED BY <1>1, <1>2, <1>3, <1>5, <1>7, <1>9 DEF FtpInv

LEMMA FtpFault == FtpInv /\ (F!Fail \/ F!Die) => FtpInv'
  BY FtpFails, FtpDies

LEMMA FtpSafe == FtpInv => inStep /\ ~server.refused /\ F!Whole
  <1> SUFFICES ASSUME FtpInv PROVE inStep /\ ~server.refused /\ F!Whole
    OBVIOUS
  <1>1. inStep /\ ~server.refused
    BY DEF FtpInv, FtpTypes, FtpServers
  <1>2. result = "ok" => FtpGood(server, local)
    BY DEF FtpInv
  <1>3. local \in FtpLocals
    BY DEF FtpInv, FtpTypes
  <1>4. CASE result = "ok"
    BY <1>1, <1>2, <1>3, <1>4, FtpWhole
  <1>5. CASE result # "ok"
    BY <1>1, <1>5 DEF F!Whole
  <1> QED BY <1>1, <1>4, <1>5
-----------------------------------------------------------------------------
(* The clients.                                                            *)

LEMMA FtpStill == FtpInv /\ UNCHANGED vars => FtpInv'
  <1> SUFFICES ASSUME FtpInv, UNCHANGED vars PROVE FtpInv'
    OBVIOUS
  <1>1. UNCHANGED <<pc, result, local, sent, toServer, toClient, server, data, inStep>>
    BY DEF vars
  <1>2. FtpTypes'
    BY <1>1 DEF FtpInv, FtpTypes
  <1>3. FtpStage'
    <2>1. FtpStage
      BY DEF FtpInv
    <2> QED BY <1>1, <2>1, ZenonT(60) DEF FtpStage
  <1> QED BY <1>1, <1>2, <1>3 DEF FtpInv

LEMMA Pop3Still == Pop3Inv /\ UNCHANGED vars => Pop3Inv'
  BY DEF vars, Pop3Inv, Pop3Types, Pop3Stage, P!Whole

LEMMA DictStill == DictInv /\ UNCHANGED vars => DictInv'
  BY DEF vars, DictInv, DictTypes, DictStage, DictIdle, D!Whole

LEMMA RtspStill == RtspInv /\ UNCHANGED vars => RtspInv'
  BY DEF vars, RtspInv, RtspTypes, RtspStage, RtspTodo

LEMMA MqttStill == MqttInv /\ UNCHANGED vars => MqttInv'
  BY DEF vars, MqttInv, MqttTypes, MqttStage, M!Whole

LEMMA LdapStill == LdapInv /\ UNCHANGED vars => LdapInv'
  BY DEF vars, LdapInv, LdapTypes, LdapStage, L!Whole

LEMMA ImapStill == ImapInv /\ UNCHANGED vars => ImapInv'
  BY DEF vars, ImapInv, ImapTypes, ImapStage, I!Whole

LEMMA WsStill == WsInv /\ UNCHANGED vars => WsInv'
  BY DEF vars, WsInv, WsTypes, WsStage, W!Whole

LEMMA GopherStill == GopherInv /\ UNCHANGED vars => GopherInv'
  BY DEF vars, GopherInv, GopherTypes, GopherStage

\* The inductive invariant: that of the protocol of the call.
Schemes == {"ftp", "pop3", "dict", "rtsp", "mqtt", "ldap", "imap", "ws", "gopher"}
ClientsInv ==
    /\ scheme \in Schemes
    /\ scheme = "ftp" => FtpInv
    /\ scheme = "pop3" => Pop3Inv
    /\ scheme = "dict" => DictInv
    /\ scheme = "rtsp" => RtspInv
    /\ scheme = "mqtt" => MqttInv
    /\ scheme = "ldap" => LdapInv
    /\ scheme = "imap" => ImapInv
    /\ scheme = "ws" => WsInv
    /\ scheme = "gopher" => GopherInv

LEMMA ClientsInit == Init => ClientsInv
  BY FtpInit, Pop3Init, DictInit, RtspInit, MqttInit, LdapInit, ImapInit, WsInit, GopherInit DEF Init, ClientsInv, Schemes

LEMMA ClientsNext == ClientsInv /\ [Next]_allVars => ClientsInv'
  <1> SUFFICES ASSUME ClientsInv, [Next]_allVars PROVE ClientsInv'
    OBVIOUS
  <1>1. UNCHANGED scheme
    BY DEF Next, ClientStep, ServerStep, Fault, Stop, allVars
  <1>2. CASE scheme = "ftp"
    <2>1. F!Client \/ F!Server \/ (F!Fail \/ F!Die) \/ UNCHANGED vars
      BY <1>2 DEF Next, ClientStep, ServerStep, Fault, Stop, allVars
    <2>2. FtpInv'
      BY <1>2, <2>1, FtpClient, FtpServer, FtpFault, FtpStill DEF ClientsInv
    <2> QED BY <1>1, <1>2, <2>2 DEF ClientsInv, Schemes
  <1>3. CASE scheme = "pop3"
    <2>1. P!Client \/ P!Server \/ P!Die \/ UNCHANGED vars
      BY <1>3 DEF Next, ClientStep, ServerStep, Fault, Stop, allVars
    <2>2. Pop3Inv'
      BY <1>3, <2>1, Pop3Client, Pop3Server, Pop3Fault, Pop3Still DEF ClientsInv
    <2> QED BY <1>1, <1>3, <2>2 DEF ClientsInv, Schemes
  <1>4. CASE scheme = "dict"
    <2>1. D!Client \/ D!Server \/ D!Die \/ UNCHANGED vars
      BY <1>4 DEF Next, ClientStep, ServerStep, Fault, Stop, allVars
    <2>2. DictInv'
      BY <1>4, <2>1, DictClient, DictServer, DictFault, DictStill DEF ClientsInv
    <2> QED BY <1>1, <1>4, <2>2 DEF ClientsInv, Schemes
  <1>5. CASE scheme = "rtsp"
    <2>1. R!Client \/ R!Server \/ (R!Repeat \/ R!Die) \/ UNCHANGED vars
      BY <1>5 DEF Next, ClientStep, ServerStep, Fault, Stop, allVars
    <2>2. RtspInv'
      BY <1>5, <2>1, RtspClient, RtspServer, RtspFault, RtspStill DEF ClientsInv
    <2> QED BY <1>1, <1>5, <2>2 DEF ClientsInv, Schemes
  <1>6. CASE scheme = "mqtt"
    <2>1. M!Client \/ M!Server \/ (M!Publish \/ M!Ping \/ M!Die) \/ UNCHANGED vars
      BY <1>6 DEF Next, ClientStep, ServerStep, Fault, Stop, allVars
    <2>2. MqttInv'
      BY <1>6, <2>1, MqttClient, MqttServer, MqttFault, MqttStill DEF ClientsInv
    <2> QED BY <1>1, <1>6, <2>2 DEF ClientsInv, Schemes
  <1>7. CASE scheme = "ldap"
    <2>1. L!Client \/ L!Server \/ (L!Notice \/ L!Die) \/ UNCHANGED vars
      BY <1>7 DEF Next, ClientStep, ServerStep, Fault, Stop, allVars
    <2>2. LdapInv'
      BY <1>7, <2>1, LdapClient, LdapServer, LdapFault, LdapStill DEF ClientsInv
    <2> QED BY <1>1, <1>7, <2>2 DEF ClientsInv, Schemes
  <1>8. CASE scheme = "imap"
    <2>1. I!Client \/ I!Server \/ I!Die \/ UNCHANGED vars
      BY <1>8 DEF Next, ClientStep, ServerStep, Fault, Stop, allVars
    <2>2. ImapInv'
      BY <1>8, <2>1, ImapClient, ImapServer, ImapFault, ImapStill DEF ClientsInv
    <2> QED BY <1>1, <1>8, <2>2 DEF ClientsInv, Schemes
  <1>9. CASE scheme = "ws"
    <2>1. W!Client \/ W!Server \/ (W!Ping \/ W!Close \/ W!Die) \/ UNCHANGED vars
      BY <1>9 DEF Next, ClientStep, ServerStep, Fault, Stop, allVars
    <2>2. WsInv'
      BY <1>9, <2>1, WsClient, WsServer, WsFault, WsStill DEF ClientsInv
    <2> QED BY <1>1, <1>9, <2>2 DEF ClientsInv, Schemes
  <1>10. CASE scheme = "gopher"
    <2>1. G!Client \/ G!Server \/ G!Die \/ UNCHANGED vars
      BY <1>10 DEF Next, ClientStep, ServerStep, Fault, Stop, allVars
    <2>2. GopherInv'
      BY <1>10, <2>1, GopherClient, GopherServer, GopherFault, GopherStill DEF ClientsInv
    <2> QED BY <1>1, <1>10, <2>2 DEF ClientsInv, Schemes
  <1> QED BY <1>2, <1>3, <1>4, <1>5, <1>6, <1>7, <1>8, <1>9, <1>10 DEF ClientsInv, Schemes

LEMMA ClientsSafe == ClientsInv => inStep /\ ~server.refused /\ Whole
  BY FtpSafe, Pop3Safe, DictSafe, RtspSafe, MqttSafe, LdapSafe, ImapSafe, WsSafe, GopherSafe DEF ClientsInv, Schemes, Whole

\* The inductive invariant of the calls of the nine clients.
THEOREM ClientsInvariance == Spec => []ClientsInv
  BY ClientsInit, ClientsNext, PTL DEF Spec

\* A call returns Ok only with the whole of what was asked for, whatever the file, mail,
\* definition, listing or message is and wherever the server fails: the framing that ftp.rs,
\* pop3.rs, dict.rs, rtsp.rs, mqtt.rs, ldap.rs, imap.rs, websocket.rs and gopher.rs read by
\* loses and adds nothing.
THEOREM AlwaysWhole == Spec => []Whole
  <1>1. ClientsInv => Whole
    BY ClientsSafe
  <1> QED BY <1>1, ClientsInvariance, PTL

\* Every reply that a client acts on answers the command it takes it for.
THEOREM AlwaysPaired == Spec => []RepliesPaired
  <1>1. ClientsInv => RepliesPaired
    BY ClientsSafe DEF RepliesPaired
  <1> QED BY <1>1, ClientsInvariance, PTL

\* No client sends a command that its server, at that point of the session, refuses.
THEOREM AlwaysInSequence == Spec => []InSequence
  <1>1. ClientsInv => InSequence
    BY ClientsSafe DEF InSequence
  <1> QED BY <1>1, ClientsInvariance, PTL
=============================================================================
