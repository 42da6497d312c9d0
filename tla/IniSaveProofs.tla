---------------------------- MODULE IniSaveProofs ----------------------------
(***************************************************************************)
(* Saving and loading, for all data and every text: what LoadFile leaves   *)
(* is sound, SaveFile writes each key, header and blank line as one that   *)
(* LoadFile reads back, and a value that SetVal set is the one that a      *)
(* lookup finds in what was read back.                                     *)
(***************************************************************************)
EXTENDS IniProofs

-----------------------------------------------------------------------------
(* Runs.                                                                   *)

\* A run of one sequence, then of another.
LEMMA RunBoth ==
    ASSUME NEW X, NEW F, NEW E, NEW a, NEW b, NEW c, NEW s \in Seq(E), NEW t \in Seq(E),
           Run(F, X, a, s, b), Run(F, X, b, t, c)
    PROVE  Run(F, X, a, s \o t, c)
<1> DEFINE m == Len(s)
           n == Len(t)
           u == s \o t
<1>1. m \in Nat /\ n \in Nat /\ Len(u) = m + n
      /\ \A i \in 1 .. m + n : u[i] = IF i <= m THEN s[i] ELSE t[i - m]
  BY ConcatProperties
<1>2. PICK g \in [0 .. m -> X] : /\ g[0] = a /\ g[m] = b
                                 /\ \A k \in 0 .. m - 1 : g[k + 1] = F[<<g[k], s[k + 1]>>]
  BY DEF Run
<1>3. PICK h \in [0 .. n -> X] : /\ h[0] = b /\ h[n] = c
                                 /\ \A k \in 0 .. n - 1 : h[k + 1] = F[<<h[k], t[k + 1]>>]
  BY DEF Run
<1> HIDE DEF m, n, u
<1> DEFINE f == [k \in 0 .. m + n |-> IF k <= m THEN g[k] ELSE h[k - m]]
<1>4. ASSUME NEW k \in 0 .. m + n PROVE f[k] \in X
  <2>1. CASE k <= m
    BY <1>1, <1>2, <2>1
  <2>2. CASE ~(k <= m)
    <3>1. k - m \in 0 .. n
      BY <1>1, <2>2
    <3> QED
      BY <1>3, <2>2, <3>1
  <2> QED
    BY <2>1, <2>2
<1>5. f \in [0 .. m + n -> X]
  BY <1>4
<1>6. f[0] = a
  BY <1>1, <1>2
<1>7. f[m + n] = c
  <2>1. CASE n = 0
    BY <1>1, <1>2, <1>3, <2>1
  <2>2. CASE n # 0
    <3>1. m + n \in 0 .. m + n /\ ~(m + n <= m) /\ (m + n) - m = n
      BY <1>1, <2>2
    <3> QED
      BY <1>3, <3>1
  <2> QED
    BY <2>1, <2>2
<1>8. ASSUME NEW k \in 0 .. (m + n) - 1 PROVE f[k + 1] = F[<<f[k], u[k + 1]>>]
  <2>1. k \in 0 .. m + n /\ k + 1 \in 0 .. m + n /\ k + 1 \in 1 .. m + n /\ k \in Nat
    BY <1>1
  <2>2. CASE k + 1 <= m
    <3>1. k <= m /\ k \in 0 .. m - 1
      BY <1>1, <2>1, <2>2
    <3>2. f[k + 1] = g[k + 1] /\ f[k] = g[k] /\ u[k + 1] = s[k + 1]
      BY <1>1, <2>1, <2>2, <3>1
    <3> HIDE DEF f
    <3> QED
      BY <1>2, <3>1, <3>2
  <2>3. CASE ~(k + 1 <= m)
    <3>1. k - m \in 0 .. n - 1 /\ (k + 1) - m = (k - m) + 1
      BY <1>1, <2>1, <2>3
    <3>2. f[k + 1] = h[(k - m) + 1] /\ u[k + 1] = t[(k - m) + 1]
      BY <1>1, <2>1, <2>3, <3>1
    <3>3. f[k] = h[k - m]
      <4>1. CASE k = m
        BY <1>1, <1>2, <1>3, <2>1, <4>1
      <4>2. CASE k # m
        BY <1>1, <2>1, <2>3, <4>2
      <4> QED
        BY <4>1, <4>2
    <3> HIDE DEF f
    <3> QED
      BY <1>3, <3>1, <3>2, <3>3
  <2> QED
    BY <2>2, <2>3
<1> HIDE DEF f
<1>9. Run(F, X, a, u, c)
  BY <1>1, <1>5, <1>6, <1>7, <1>8 DEF Run
<1> QED
  BY <1>9 DEF u

\* Nothing leads nowhere, and one element is one step.
LEMMA RunNone == ASSUME NEW X, NEW F, NEW a \in X PROVE Run(F, X, a, <<>>, a)
<1> DEFINE g == [k \in 0 .. 0 |-> a]
<1>1. g \in [0 .. Len(<<>>) -> X] /\ g[0] = a /\ g[Len(<<>>)] = a
  OBVIOUS
<1>2. \A k \in 0 .. Len(<<>>) - 1 : g[k + 1] = F[<<g[k], <<>>[k + 1]>>]
  OBVIOUS
<1> HIDE DEF g
<1> QED
  BY <1>1, <1>2 DEF Run

\* One element is one step.
LEMMA RunOne ==
    ASSUME NEW X, NEW E, NEW F \in [X \X E -> X], NEW a \in X, NEW e \in E
    PROVE  Run(F, X, a, <<e>>, F[<<a, e>>])
<1> DEFINE b == F[<<a, e>>]
           g == [k \in 0 .. 1 |-> IF k = 0 THEN a ELSE b]
<1>1. b \in X
  OBVIOUS
<1> HIDE DEF b
<1>2. Len(<<e>>) = 1 /\ <<e>>[1] = e
  OBVIOUS
<1>3. g \in [0 .. 1 -> X] /\ g[0] = a /\ g[1] = b
  BY <1>1
<1> HIDE DEF g
<1>4. \A k \in 0 .. 1 - 1 : g[k + 1] = F[<<g[k], <<e>>[k + 1]>>]
  <2>1. \A k \in 0 .. 1 - 1 : k = 0
    OBVIOUS
  <2>2. g[0 + 1] = F[<<g[0], <<e>>[0 + 1]>>]
    BY <1>2, <1>3 DEF b
  <2> QED
    BY <2>1, <2>2
<1> QED
  BY <1>2, <1>3, <1>4 DEF Run, b

\* A run has one end.
LEMMA RunEnd ==
    ASSUME NEW X, NEW F, NEW E, NEW a, NEW b, NEW c, NEW s \in Seq(E), Run(F, X, a, s, b), Run(F, X, a, s, c)
    PROVE  b = c
<1> DEFINE N == Len(s)
<1>1. N \in Nat
  OBVIOUS
<1>2. PICK g \in [0 .. N -> X] : /\ g[0] = a /\ g[N] = b
                                 /\ \A k \in 0 .. N - 1 : g[k + 1] = F[<<g[k], s[k + 1]>>]
  BY DEF Run
<1>3. PICK h \in [0 .. N -> X] : /\ h[0] = a /\ h[N] = c
                                 /\ \A k \in 0 .. N - 1 : h[k + 1] = F[<<h[k], s[k + 1]>>]
  BY DEF Run
<1> HIDE DEF N
<1> DEFINE T == {k \in 0 .. N : g[k] = h[k]}
<1>4. T \in SUBSET (0 .. N) /\ 0 \in T
  BY <1>1, <1>2, <1>3
<1>5. ASSUME NEW k \in 0 .. N - 1, k \in T PROVE k + 1 \in T
  BY <1>1, <1>2, <1>3, <1>5
<1> HIDE DEF T
<1>6. T = 0 .. N
  BY <1>1, <1>4, <1>5, Induction
<1>7. N \in T
  BY <1>1, <1>6
<1> QED
  BY <1>2, <1>3, <1>7 DEF T

\* What holds of the first state of a run and passes with each element that
\* is read holds of the last.
LEMMA RunKeeps ==
    ASSUME NEW X, NEW F, NEW E, NEW a, NEW b, NEW s \in Seq(E), Run(F, X, a, s, b),
           NEW P, a \in P, \A x \in X \cap P : \A e \in E : F[<<x, e>>] \in P
    PROVE  b \in P
<1> DEFINE N == Len(s)
<1>1. N \in Nat /\ \A k \in 0 .. N - 1 : s[k + 1] \in E /\ k \in 0 .. N
  OBVIOUS
<1>2. PICK g \in [0 .. N -> X] : /\ g[0] = a /\ g[N] = b
                                 /\ \A k \in 0 .. N - 1 : g[k + 1] = F[<<g[k], s[k + 1]>>]
  BY DEF Run
<1> HIDE DEF N
<1> DEFINE T == {k \in 0 .. N : g[k] \in P}
<1>3. T \in SUBSET (0 .. N) /\ 0 \in T
  BY <1>1, <1>2
<1>4. ASSUME NEW k \in 0 .. N - 1, k \in T PROVE k + 1 \in T
  <2>1. g[k] \in X \cap P /\ s[k + 1] \in E /\ k + 1 \in 0 .. N
    BY <1>1, <1>2, <1>4
  <2> QED
    BY <1>2, <2>1
<1> HIDE DEF T
<1>5. T = 0 .. N
  BY <1>1, <1>3, <1>4, Induction
<1>6. N \in T
  BY <1>1, <1>5
<1> QED
  BY <1>2, <1>6 DEF T

\* What FlattenSeq gives comes of the sequences one by one.
LEMMA Flattened ==
    ASSUME NEW S, NEW seqs \in Seq(Seq(S))
    PROVE  \E f \in [0 .. Len(seqs) -> Seq(S)] :
               /\ f[0] = <<>> /\ f[Len(seqs)] = FlattenSeq(seqs)
               /\ \A n \in 0 .. Len(seqs) - 1 : f[n + 1] = f[n] \o seqs[n + 1]
<1> DEFINE N == Len(seqs)
           Is(h, n) == h = [i \in 1 .. n |-> IF i = 1 THEN seqs[i] ELSE h[i - 1] \o seqs[i]]
           Some(n) == \E h : Is(h, n)
           flatten == CHOOSE h : Is(h, N)
           T == {n \in 0 .. N : Some(n)}
<1>1. N \in Nat /\ \A i \in 1 .. N : seqs[i] \in Seq(S)
  OBVIOUS
<1>2. FlattenSeq(seqs) = IF N = 0 THEN seqs ELSE flatten[N]
  BY DEF FlattenSeq
<1> HIDE DEF N
<1>3. Some(0)
  <2>1. Is([i \in 1 .. 0 |-> 0], 0)
    OBVIOUS
  <2> QED
    BY <2>1
<1>4. ASSUME NEW n \in 0 .. N - 1, Some(n) PROVE Some(n + 1)
  <2>1. PICK h : Is(h, n)
    BY <1>4
  <2> DEFINE k == [i \in 1 .. n + 1 |-> IF i = n + 1 THEN IF n = 0 THEN seqs[1] ELSE h[n] \o seqs[n + 1]
                                        ELSE h[i]]
  <2>2. n \in Nat
    BY <1>1
  <2>3. ASSUME NEW i \in 1 .. n + 1 PROVE k[i] = IF i = 1 THEN seqs[i] ELSE k[i - 1] \o seqs[i]
    <3>1. CASE i = n + 1 /\ n = 0
      BY <3>1
    <3>2. CASE i = n + 1 /\ n # 0
      <4>1. n \in 1 .. n + 1 /\ n # n + 1 /\ i - 1 = n /\ i # 1
        BY <2>2, <3>2
      <4>2. k[n] = h[n] /\ k[i] = h[n] \o seqs[n + 1]
        BY <3>2, <4>1
      <4> HIDE DEF k
      <4> QED
        BY <3>2, <4>1, <4>2
    <3>3. CASE i # n + 1
      <4>1. i \in 1 .. n
        BY <2>2, <3>3
      <4>2. k[i] = h[i]
        BY <3>3
      <4>3. h[i] = IF i = 1 THEN seqs[i] ELSE h[i - 1] \o seqs[i]
        BY <2>1, <4>1
      <4>4. i # 1 => k[i - 1] = h[i - 1]
        <5>1. i # 1 => i - 1 \in 1 .. n + 1 /\ i - 1 # n + 1
          BY <2>2, <4>1
        <5> QED
          BY <5>1
      <4> HIDE DEF k
      <4> QED
        BY <4>2, <4>3, <4>4
    <3> QED
      BY <3>1, <3>2, <3>3
  <2>4. k = [i \in 1 .. n + 1 |-> k[i]]
    OBVIOUS
  <2> HIDE DEF k
  <2>5. Is(k, n + 1)
    BY <2>3, <2>4
  <2> QED
    BY <2>5
<1> HIDE DEF Some
<1>5. T = 0 .. N
  <2>1. 0 \in T /\ T \in SUBSET (0 .. N)
    BY <1>1, <1>3
  <2>2. ASSUME NEW n \in 0 .. N - 1, n \in T PROVE n + 1 \in T
    <3>1. Some(n) /\ n + 1 \in 0 .. N
      BY <1>1, <2>2
    <3> QED
      BY <1>4, <3>1
  <2> HIDE DEF T
  <2> QED
    BY <1>1, <2>1, <2>2, Induction
<1>6. N \in T
  BY <1>1, <1>5
<1>7. \E h : Is(h, N)
  BY <1>6 DEF Some
<1>8. Is(flatten, N)
  BY <1>7
<1> HIDE DEF flatten
<1> DEFINE f == [n \in 0 .. N |-> IF n = 0 THEN <<>> ELSE flatten[n]]
<1>9. ASSUME NEW n \in 0 .. N - 1 PROVE f[n] \in Seq(S) => f[n + 1] = f[n] \o seqs[n + 1] /\ f[n + 1] \in Seq(S)
  <2>1. n \in 0 .. N /\ n + 1 \in 0 .. N /\ n + 1 # 0 /\ n + 1 \in 1 .. N /\ (n + 1) - 1 = n
    BY <1>1
  <2>2. seqs[n + 1] \in Seq(S)
    BY <1>1, <2>1
  <2>3. f[n + 1] = flatten[n + 1]
    BY <2>1
  <2>4. flatten[n + 1] = IF n + 1 = 1 THEN seqs[n + 1] ELSE flatten[n] \o seqs[n + 1]
    BY <1>8, <2>1
  <2>5. CASE n = 0
    <3>1. f[n] = <<>> /\ f[n + 1] = seqs[n + 1]
      BY <2>1, <2>3, <2>4, <2>5
    <3> HIDE DEF f
    <3> QED
      BY <2>2, <3>1, ConcatEmptySeq
  <2>6. CASE n # 0
    <3>1. f[n] = flatten[n] /\ n + 1 # 1
      BY <2>1, <2>6
    <3>2. f[n + 1] = f[n] \o seqs[n + 1]
      BY <2>3, <2>4, <3>1
    <3> HIDE DEF f
    <3> QED
      BY <2>2, <3>2, ConcatProperties
  <2> QED
    BY <2>5, <2>6
<1> DEFINE U == {n \in 0 .. N : f[n] \in Seq(S)}
<1>10. U = 0 .. N
  <2>1. f[0] = <<>> /\ <<>> \in Seq(S)
    BY <1>1
  <2>2. 0 \in U /\ U \in SUBSET (0 .. N)
    BY <1>1, <2>1
  <2>3. ASSUME NEW n \in 0 .. N - 1, n \in U PROVE n + 1 \in U
    <3>1. n + 1 \in 0 .. N /\ f[n] \in Seq(S)
      BY <1>1, <2>3
    <3> QED
      BY <1>9, <3>1
  <2> HIDE DEF U
  <2> QED
    BY <1>1, <2>2, <2>3, Induction
<1>11. f \in [0 .. N -> Seq(S)]
  <2>1. \A n \in 0 .. N : f[n] \in Seq(S)
    BY <1>10
  <2> QED
    BY <2>1
<1>12. f[0] = <<>> /\ f[N] = FlattenSeq(seqs)
  <2>1. N = 0 => seqs = <<>>
    BY DEF N
  <2> QED
    BY <1>1, <1>2, <2>1
<1>13. \A n \in 0 .. N - 1 : f[n + 1] = f[n] \o seqs[n + 1]
  <2>1. \A n \in 0 .. N - 1 : n \in 0 .. N
    BY <1>1
  <2> QED
    BY <1>9, <1>11, <2>1
<1> HIDE DEF f
<1> QED
  BY <1>11, <1>12, <1>13 DEF N

\* Runs of sequences one after the other are one of all of them.
LEMMA RunAll ==
    ASSUME NEW X, NEW F, NEW E, NEW seqs \in Seq(Seq(E)), NEW g \in [0 .. Len(seqs) -> X],
           \A n \in 0 .. Len(seqs) - 1 : Run(F, X, g[n], seqs[n + 1], g[n + 1])
    PROVE  FlattenSeq(seqs) \in Seq(E) /\ Run(F, X, g[0], FlattenSeq(seqs), g[Len(seqs)])
<1> DEFINE N == Len(seqs)
<1>1. N \in Nat /\ \A n \in 0 .. N - 1 : seqs[n + 1] \in Seq(E) /\ n \in 0 .. N /\ n + 1 \in 0 .. N
  OBVIOUS
<1>2. PICK f \in [0 .. N -> Seq(E)] :
        /\ f[0] = <<>> /\ f[N] = FlattenSeq(seqs)
        /\ \A n \in 0 .. N - 1 : f[n + 1] = f[n] \o seqs[n + 1]
  BY Flattened
<1>3. \A n \in 0 .. N - 1 : Run(F, X, g[n], seqs[n + 1], g[n + 1])
  OBVIOUS
<1>4. g[0] \in X
  BY <1>1
<1> HIDE DEF N
<1> DEFINE T == {n \in 0 .. N : Run(F, X, g[0], f[n], g[n])}
<1>5. T \in SUBSET (0 .. N) /\ 0 \in T
  <2>1. Run(F, X, g[0], <<>>, g[0])
    BY <1>4, RunNone
  <2> QED
    BY <1>1, <1>2, <2>1
<1>6. ASSUME NEW n \in 0 .. N - 1, n \in T PROVE n + 1 \in T
  <2>1. seqs[n + 1] \in Seq(E) /\ f[n] \in Seq(E) /\ f[n + 1] = f[n] \o seqs[n + 1] /\ n + 1 \in 0 .. N
    BY <1>1, <1>2
  <2>2. Run(F, X, g[0], f[n], g[n]) /\ Run(F, X, g[n], seqs[n + 1], g[n + 1])
    BY <1>3, <1>6
  <2>3. Run(F, X, g[0], f[n] \o seqs[n + 1], g[n + 1])
    BY <2>1, <2>2, RunBoth
  <2> QED
    BY <2>1, <2>3
<1> HIDE DEF T
<1>7. T = 0 .. N
  BY <1>1, <1>5, <1>6, Induction
<1>8. N \in T /\ N \in 0 .. N
  BY <1>1, <1>7
<1> QED
  BY <1>2, <1>8 DEF T, N

\* A prefix that is one element longer.
LEMMA SubSeqNext ==
    ASSUME NEW S, NEW seq \in Seq(S), NEW k \in 0 .. Len(seq) - 1
    PROVE  SubSeq(seq, 1, k + 1) = Append(SubSeq(seq, 1, k), seq[k + 1])
<1> DEFINE a == SubSeq(seq, 1, k + 1)
           c == SubSeq(seq, 1, k)
           b == Append(c, seq[k + 1])
<1>1. k \in Nat /\ Len(seq) \in Nat /\ k + 1 \in 1 .. Len(seq) /\ seq[k + 1] \in S
  OBVIOUS
<1>2. a \in Seq(S) /\ Len(a) = k + 1 /\ \A i \in 1 .. k + 1 : a[i] = seq[i]
  BY <1>1
<1>3. c \in Seq(S) /\ Len(c) = k /\ \A i \in 1 .. k : c[i] = seq[i]
  BY <1>1
<1> HIDE DEF a, c
<1>4. b \in Seq(S) /\ Len(b) = k + 1 /\ b[k + 1] = seq[k + 1] /\ \A i \in 1 .. k : b[i] = c[i]
  BY <1>1, <1>3, AppendProperties
<1> HIDE DEF b
<1>5. \A i \in 1 .. k + 1 : i \in 1 .. k \/ i = k + 1
  BY <1>1
<1>6. \A i \in 1 .. k + 1 : a[i] = b[i]
  BY <1>1, <1>2, <1>3, <1>4, <1>5
<1>7. a = b
  BY <1>2, <1>4, <1>6, SeqEqual
<1> QED
  BY <1>7 DEF a, b, c

-----------------------------------------------------------------------------
(* The words of a line that was written.                                   *)

\* A state of the scan: the values so far, the word being read, inside quotes,
\* inside a comment.
State(v, s, q, c) == [v |-> v, s |-> s, q |-> q, c |-> c]

\* A piece that is read as it is.
Literal(q, c, p) == c \/ (q /\ p # Quote) \/ p \notin {Quote, Space}

\* What Scan does with a piece that is read as it is,
LEMMA ScanLiteral ==
    ASSUME NEW v, NEW s, NEW q \in BOOLEAN, NEW c \in BOOLEAN, NEW p, Literal(q, c, p)
    PROVE  Scan(State(v, s, q, c), p) = State(v, Append(s, p), q, c \/ (p = Hash /\ ~q))
<1> DEFINE st == State(v, s, q, c)
<1>1. st.v = v /\ st.s = s /\ (st.q <=> q) /\ (st.c <=> c)
  BY DEF State
<1>2. st.c \/ (st.q /\ p # Quote) \/ p \notin {Quote, Space}
  BY <1>1, Zenon DEF Literal
<1>3. Scan(st, p) = [st EXCEPT !.s = Append(st.s, p), !.c = st.c \/ (p = Hash /\ ~st.q)]
  BY <1>2, Zenon DEF Scan
<1> QED
  BY <1>1, <1>3 DEF State

\* with one that is no sign,
LEMMA ScanPlain ==
    ASSUME NEW v, NEW s, NEW p, p \notin {Quote, Space, Hash}
    PROVE  Scan(State(v, s, FALSE, FALSE), p) = State(v, Append(s, p), FALSE, FALSE)
<1> DEFINE st == State(v, s, FALSE, FALSE)
<1>1. st.v = v /\ st.s = s /\ ~st.q /\ ~st.c /\ p # Hash
  BY DEF State
<1>2. st.c \/ (st.q /\ p # Quote) \/ p \notin {Quote, Space}
  OBVIOUS
<1>3. Scan(st, p) = [st EXCEPT !.s = Append(st.s, p), !.c = st.c \/ (p = Hash /\ ~st.q)]
  BY <1>2, Zenon DEF Scan
<1> QED
  BY <1>1, <1>3 DEF State

\* with the sign that starts a comment,
LEMMA ScanHash ==
    ASSUME NEW v, NEW s
    PROVE  Scan(State(v, s, FALSE, FALSE), Hash) = State(v, Append(s, Hash), FALSE, TRUE)
<1> DEFINE st == State(v, s, FALSE, FALSE)
<1>1. st.v = v /\ st.s = s /\ ~st.q /\ ~st.c
  BY DEF State
<1>2. st.c \/ (st.q /\ Hash # Quote) \/ Hash \notin {Quote, Space}
  BY DEF Hash, Quote, Space
<1>3. Scan(st, Hash) = [st EXCEPT !.s = Append(st.s, Hash), !.c = st.c \/ (Hash = Hash /\ ~st.q)]
  BY <1>2, Zenon DEF Scan
<1> QED
  BY <1>1, <1>3 DEF State

\* with any piece of a comment,
LEMMA ScanComment ==
    ASSUME NEW v, NEW s, NEW p
    PROVE  Scan(State(v, s, FALSE, TRUE), p) = State(v, Append(s, p), FALSE, TRUE)
<1> DEFINE st == State(v, s, FALSE, TRUE)
<1>1. st.v = v /\ st.s = s /\ ~st.q /\ st.c
  BY DEF State
<1>2. st.c \/ (st.q /\ p # Quote) \/ p \notin {Quote, Space}
  BY <1>1
<1>3. Scan(st, p) = [st EXCEPT !.s = Append(st.s, p), !.c = st.c \/ (p = Hash /\ ~st.q)]
  BY <1>2, Zenon DEF Scan
<1> QED
  BY <1>1, <1>3 DEF State

\* with a quote outside of a comment,
LEMMA ScanQuote ==
    ASSUME NEW v, NEW s, NEW q \in BOOLEAN
    PROVE  Scan(State(v, s, q, FALSE), Quote) = State(v, s, ~q, FALSE)
<1> DEFINE st == State(v, s, q, FALSE)
<1>1. st.v = v /\ st.s = s /\ (st.q <=> q) /\ ~st.c
  BY DEF State
<1>2. ~(st.c \/ (st.q /\ Quote # Quote) \/ Quote \notin {Quote, Space}) /\ Quote # Space
  BY <1>1, Zenon DEF Quote, Space
<1>3. Scan(st, Quote) = [st EXCEPT !.q = ~st.q]
  BY <1>2, Zenon DEF Scan
<1> QED
  BY <1>1, <1>3 DEF State

\* and with the blank after a word.
LEMMA ScanSpace ==
    ASSUME NEW v, NEW s, s # <<>>
    PROVE  Scan(State(v, s, FALSE, FALSE), Space) = State(Append(v, s), <<>>, FALSE, FALSE)
<1> DEFINE st == State(v, s, FALSE, FALSE)
<1>1. st.v = v /\ st.s = s /\ ~st.q /\ ~st.c
  BY DEF State
<1>2. ~(st.c \/ (st.q /\ Space # Quote) \/ Space \notin {Quote, Space}) /\ Quote # Space
  <2>1. Quote # Space
    BY DEF Quote, Space
  <2> QED
    BY <1>1, <2>1, Zenon
<1>3. Scan(st, Space) = [st EXCEPT !.v = IF st.s = <<>> THEN st.v ELSE Append(st.v, st.s), !.s = <<>>]
  BY <1>2, ZenonT(30) DEF Scan
<1> QED
  BY <1>1, <1>3 DEF State

\* These are states of the scan.
LEMMA StateType ==
    ASSUME NEW v \in Seq(Words), NEW s \in Seq(Pieces), NEW q \in BOOLEAN, NEW c \in BOOLEAN
    PROVE  State(v, s, q, c) \in ScanStates
BY DEF State, ScanStates

\* A text that is read as it is, after the part s of a word.
LEMMA ReadLiteral ==
    ASSUME NEW v \in Seq(Words), NEW s \in Seq(Pieces), NEW q \in BOOLEAN, NEW c \in BOOLEAN,
           NEW text \in Seq(Pieces), \A i \in DOMAIN text : Literal(q, c, text[i])
    PROVE  Run(Scanning, ScanStates, State(v, s, q, c), text,
               State(v, s \o text, q, c \/ (~q /\ Has(text, Hash))))
<1> DEFINE N == Len(text)
           C(k) == c \/ (~q /\ \E i \in 1 .. k : text[i] = Hash)
           S(k) == s \o SubSeq(text, 1, k)
           g == [k \in 0 .. N |-> State(v, S(k), q, C(k))]
<1>1. N \in Nat /\ DOMAIN text = 1 .. N
  OBVIOUS
<1>2. ASSUME NEW k \in 0 .. N PROVE S(k) \in Seq(Pieces) /\ C(k) \in BOOLEAN
  <2>1. SubSeq(text, 1, k) \in Seq(Pieces)
    BY <1>1
  <2> QED
    BY <2>1, ConcatProperties
<1>3. g \in [0 .. N -> ScanStates]
  BY <1>2, StateType
<1>4. g[0] = State(v, s, q, c)
  <2>1. SubSeq(text, 1, 0) = <<>>
    BY SubSeqEmpty
  <2>2. S(0) = s
    BY <2>1, ConcatEmptySeq
  <2>3. C(0) = c
    OBVIOUS
  <2>4. 0 \in 0 .. N
    BY <1>1
  <2> QED
    BY <2>2, <2>3, <2>4
<1>5. g[N] = State(v, s \o text, q, c \/ (~q /\ Has(text, Hash)))
  <2>1. SubSeq(text, 1, N) = text
    OBVIOUS
  <2>2. C(N) = (c \/ (~q /\ Has(text, Hash)))
    BY <1>1 DEF Has
  <2>3. N \in 0 .. N
    BY <1>1
  <2> QED
    BY <2>1, <2>2, <2>3
<1>6. ASSUME NEW k \in 0 .. N - 1 PROVE g[k + 1] = Scanning[<<g[k], text[k + 1]>>]
  <2>1. k \in 0 .. N /\ k + 1 \in 0 .. N /\ k + 1 \in 1 .. N /\ k \in Nat
    BY <1>1
  <2> DEFINE p == text[k + 1]
  <2>2. p \in Pieces /\ Literal(q, c, p)
    BY <1>1, <2>1
  <2>3. S(k + 1) = Append(S(k), p)
    <3> DEFINE l == Len(s)
               a == S(k + 1)
               b == Append(S(k), p)
               t1 == SubSeq(text, 1, k + 1)
               t0 == SubSeq(text, 1, k)
    <3>1. /\ t1 \in Seq(Pieces) /\ Len(t1) = k + 1 /\ \A i \in 1 .. k + 1 : t1[i] = text[i]
          /\ t0 \in Seq(Pieces) /\ Len(t0) = k /\ \A i \in 1 .. k : t0[i] = text[i]
      BY <1>1, <2>1
    <3>2. l \in Nat
      OBVIOUS
    <3>3. a = s \o t1 /\ b = Append(s \o t0, p)
      OBVIOUS
    <3> HIDE DEF a, b, t1, t0, l, p
    <3>4. a \in Seq(Pieces) /\ Len(a) = l + (k + 1)
          /\ \A i \in 1 .. l + (k + 1) : a[i] = IF i <= l THEN s[i] ELSE t1[i - l]
      <4>1. /\ s \o t1 \in Seq(Pieces) /\ Len(s \o t1) = l + Len(t1)
            /\ \A i \in 1 .. l + Len(t1) : (s \o t1)[i] = IF i <= l THEN s[i] ELSE t1[i - l]
        BY <3>1, ConcatProperties DEF l
      <4> QED
        BY <3>1, <3>3, <4>1
    <3>5. s \o t0 \in Seq(Pieces) /\ Len(s \o t0) = l + k
          /\ \A i \in 1 .. l + k : (s \o t0)[i] = IF i <= l THEN s[i] ELSE t0[i - l]
      BY <3>1, ConcatProperties DEF l
    <3>6. b \in Seq(Pieces) /\ Len(b) = (l + k) + 1 /\ b[(l + k) + 1] = p
          /\ \A i \in 1 .. l + k : b[i] = (s \o t0)[i]
      BY <2>2, <3>3, <3>5, AppendProperties
    <3>7. ASSUME NEW i \in 1 .. l + (k + 1) PROVE a[i] = b[i]
      <4>1. CASE i <= l
        <5>1. i \in 1 .. l + k
          BY <2>1, <3>2, <4>1
        <5> QED
          BY <3>4, <3>5, <3>6, <4>1, <5>1
      <4>2. CASE ~(i <= l) /\ i # l + (k + 1)
        <5>1. i - l \in 1 .. k /\ i - l \in 1 .. k + 1 /\ i \in 1 .. l + k
          BY <2>1, <3>2, <4>2
        <5> QED
          BY <3>1, <3>4, <3>5, <3>6, <4>2, <5>1
      <4>3. CASE i = l + (k + 1)
        <5>1. i - l = k + 1 /\ ~(i <= l) /\ k + 1 \in 1 .. k + 1 /\ i = (l + k) + 1
          BY <2>1, <3>2, <4>3
        <5> QED
          BY <3>1, <3>4, <3>6, <5>1 DEF p
      <4> QED
        BY <4>1, <4>2, <4>3
    <3>8. Len(b) = Len(a)
      BY <2>1, <3>2, <3>4, <3>6
    <3>9. a = b
      BY <3>4, <3>6, <3>7, <3>8, SeqEqual
    <3> QED
      BY <3>9 DEF a, b, p
  <2>4. Literal(q, C(k), p)
    BY <2>2, Zenon DEF Literal
  <2>5. C(k + 1) <=> C(k) \/ (p = Hash /\ ~q)
    <3>1. \A i : i \in 1 .. k + 1 <=> i \in 1 .. k \/ i = k + 1
      BY <2>1
    <3> QED
      BY <3>1
  <2>6. C(k) \in BOOLEAN /\ C(k + 1) \in BOOLEAN /\ S(k) \in Seq(Pieces)
    BY <1>2, <2>1
  <2> HIDE DEF S, C, p
  <2>7. Scan(State(v, S(k), q, C(k)), p) = State(v, Append(S(k), p), q, C(k) \/ (p = Hash /\ ~q))
    BY <2>4, <2>6, ScanLiteral
  <2>8. (C(k) \/ (p = Hash /\ ~q)) = C(k + 1)
    BY <2>5, <2>6
  <2>9. g[k + 1] = Scan(g[k], p)
    BY <2>1, <2>3, <2>7, <2>8
  <2>10. g[k] \in ScanStates
    BY <1>3, <2>1
  <2> HIDE DEF g
  <2> QED
    BY <2>2, <2>9, <2>10 DEF Scanning, p
<1> HIDE DEF g
<1> QED
  BY <1>3, <1>4, <1>5, <1>6 DEF Run

\* Where the pieces of a line lead gives its words.
LEMMA WordsOf ==
    ASSUME NEW line \in Seq(Pieces), NEW st,
           Run(Scanning, ScanStates, State(<<>>, <<>>, FALSE, FALSE), line, st)
    PROVE  VectoriseLine(line) = IF st.s = <<>> THEN st.v ELSE Append(st.v, st.s)
<1> DEFINE end == FoldLeft(Scan, ScanStart, line)
<1>1. Run(Scanning, ScanStates, ScanStart, line, end)
  BY ScanFold
<1>2. ScanStart = State(<<>>, <<>>, FALSE, FALSE)
  BY DEF ScanStart, State
<1>3. VectoriseLine(line) = IF end.s = <<>> THEN end.v ELSE Append(end.v, end.s)
  BY DEF VectoriseLine, ScanStart
<1> HIDE DEF end
<1>4. end = st
  BY <1>1, <1>2, RunEnd
<1> QED
  BY <1>3, <1>4

\* The same for a state that is spelled out.
LEMMA WordsRead ==
    ASSUME NEW line \in Seq(Pieces), NEW v, NEW s, NEW q, NEW c,
           Run(Scanning, ScanStates, State(<<>>, <<>>, FALSE, FALSE), line, State(v, s, q, c))
    PROVE  VectoriseLine(line) = IF s = <<>> THEN v ELSE Append(v, s)
<1>1. State(v, s, q, c).v = v /\ State(v, s, q, c).s = s
  BY DEF State
<1> QED
  BY <1>1, WordsOf

\* The signs are pieces, and a piece of a name is no sign.
LEMMA SignPieces ==
    /\ Space \in Pieces /\ Quote \in Pieces /\ Hash \in Pieces
    /\ "=" \in Pieces /\ "[" \in Pieces /\ "]" \in Pieces
    /\ \A p \in NamePieces : p \in Pieces /\ p \notin {Space, Quote, Hash, "[", "]", "="}
BY PiecesAssumption DEF Signs

\* One piece is a run.
LEMMA ReadPiece ==
    ASSUME NEW st \in ScanStates, NEW p \in Pieces
    PROVE  Run(Scanning, ScanStates, st, <<p>>, Scan(st, p))
<1>1. Scanning[<<st, p>>] = Scan(st, p)
  BY DEF Scanning
<1> QED
  BY <1>1, ScanningType, RunOne

\* Two elements are one and one.
LEMMA Pair == ASSUME NEW S, NEW x \in S, NEW y \in S PROVE <<x, y>> \in Seq(S) /\ <<x>> \o <<y>> = <<x, y>>
<1> DEFINE a == <<x>> \o <<y>>
           b == <<x, y>>
<1>1. b \in Seq(S) /\ Len(b) = 2 /\ b[1] = x /\ b[2] = y
  OBVIOUS
<1>2. <<x>> \in Seq(S) /\ <<y>> \in Seq(S) /\ Len(<<x>>) = 1 /\ Len(<<y>>) = 1 /\ <<x>>[1] = x /\ <<y>>[1] = y
  OBVIOUS
<1>3. a \in Seq(S) /\ Len(a) = 2 /\ a[1] = x /\ a[2] = y
  BY <1>2, ConcatProperties
<1> HIDE DEF a, b
<1>4. \A i \in 1 .. 2 : a[i] = b[i]
  <2>1. \A i \in 1 .. 2 : i = 1 \/ i = 2
    OBVIOUS
  <2> QED
    BY <1>1, <1>3, <2>1
<1>5. a = b
  BY <1>1, <1>3, <1>4, SeqEqual
<1> QED
  BY <1>1, <1>5 DEF a, b

\* Two pieces are a run.
LEMMA ReadPair ==
    ASSUME NEW st \in ScanStates, NEW p \in Pieces, NEW r \in Pieces
    PROVE  Run(Scanning, ScanStates, st, <<p, r>>, Scan(Scan(st, p), r))
<1>1. Scan(st, p) \in ScanStates
  BY ScanType
<1>2. Run(Scanning, ScanStates, st, <<p>>, Scan(st, p))
      /\ Run(Scanning, ScanStates, Scan(st, p), <<r>>, Scan(Scan(st, p), r))
  BY <1>1, ReadPiece
<1>3. <<p>> \in Seq(Pieces) /\ <<r>> \in Seq(Pieces)
  OBVIOUS
<1>4. Run(Scanning, ScanStates, st, <<p>> \o <<r>>, Scan(Scan(st, p), r))
  BY <1>2, <1>3, RunBoth
<1> QED
  BY <1>4, Pair

\* A value is read back from its quoted form, when it lasts.
LEMMA ReadQuoted ==
    ASSUME NEW v \in Seq(Words), NEW value \in Words, ~Has(value, Quote)
    PROVE  /\ Quoted(value) \in Seq(Pieces)
           /\ Run(Scanning, ScanStates, State(v, <<>>, FALSE, FALSE), Quoted(value),
                  State(v, value, FALSE, Has(value, Hash) /\ ~Has(value, Space)))
<1> DEFINE H == Has(value, Hash) /\ ~Has(value, Space)
<1>1. value \in Seq(Pieces) /\ <<>> \in Seq(Pieces) /\ <<>> \o value = value
  BY ConcatEmptySeq DEF Words
<1>2. State(v, <<>>, FALSE, FALSE) \in ScanStates /\ State(v, <<>>, TRUE, FALSE) \in ScanStates
      /\ State(v, value, TRUE, FALSE) \in ScanStates
  BY <1>1, StateType
<1>3. CASE Has(value, Space)
  <2>1. Quoted(value) = (<<Quote>> \o value) \o <<Quote>>
    BY <1>3 DEF Quoted
  <2>2. <<Quote>> \in Seq(Pieces)
    BY SignPieces
  <2>3. <<Quote>> \o value \in Seq(Pieces)
    BY <1>1, <2>2, ConcatProperties
  <2>4. Run(Scanning, ScanStates, State(v, <<>>, FALSE, FALSE), <<Quote>>, State(v, <<>>, TRUE, FALSE))
    <3>1. Scan(State(v, <<>>, FALSE, FALSE), Quote) = State(v, <<>>, TRUE, FALSE)
      <4>1. Scan(State(v, <<>>, FALSE, FALSE), Quote) = State(v, <<>>, ~FALSE, FALSE)
        BY ScanQuote
      <4> QED
        BY <4>1
    <3> QED
      BY <1>2, <3>1, SignPieces, ReadPiece
  <2>5. Run(Scanning, ScanStates, State(v, <<>>, TRUE, FALSE), value, State(v, value, TRUE, FALSE))
    <3>1. \A i \in DOMAIN value : Literal(TRUE, FALSE, value[i])
      BY DEF Literal, Has
    <3>2. Run(Scanning, ScanStates, State(v, <<>>, TRUE, FALSE), value,
              State(v, <<>> \o value, TRUE, FALSE \/ (~TRUE /\ Has(value, Hash))))
      BY <1>1, <3>1, ReadLiteral
    <3>3. (FALSE \/ (~TRUE /\ Has(value, Hash))) = FALSE
      OBVIOUS
    <3> QED
      BY <1>1, <3>2, <3>3
  <2>6. Run(Scanning, ScanStates, State(v, value, TRUE, FALSE), <<Quote>>, State(v, value, FALSE, FALSE))
    <3>1. Scan(State(v, value, TRUE, FALSE), Quote) = State(v, value, FALSE, FALSE)
      <4>1. Scan(State(v, value, TRUE, FALSE), Quote) = State(v, value, ~TRUE, FALSE)
        BY ScanQuote
      <4> QED
        BY <4>1
    <3> QED
      BY <1>2, <3>1, SignPieces, ReadPiece
  <2>7. Run(Scanning, ScanStates, State(v, <<>>, FALSE, FALSE), <<Quote>> \o value, State(v, value, TRUE, FALSE))
    BY <1>1, <2>2, <2>4, <2>5, RunBoth
  <2>8. Run(Scanning, ScanStates, State(v, <<>>, FALSE, FALSE), (<<Quote>> \o value) \o <<Quote>>,
            State(v, value, FALSE, FALSE))
    BY <2>2, <2>3, <2>6, <2>7, RunBoth
  <2>9. H = FALSE
    BY <1>3
  <2>10. Quoted(value) \in Seq(Pieces)
    BY <2>1, <2>2, <2>3, ConcatProperties
  <2> QED
    BY <2>1, <2>8, <2>9, <2>10
<1>4. CASE ~Has(value, Space)
  <2>1. Quoted(value) = value
    BY <1>4 DEF Quoted
  <2>2. \A i \in DOMAIN value : Literal(FALSE, FALSE, value[i])
    BY <1>4 DEF Literal, Has
  <2>3. Run(Scanning, ScanStates, State(v, <<>>, FALSE, FALSE), value,
            State(v, <<>> \o value, FALSE, FALSE \/ (~FALSE /\ Has(value, Hash))))
    BY <1>1, <2>2, ReadLiteral
  <2>4. (FALSE \/ (~FALSE /\ Has(value, Hash))) = H
    BY <1>4
  <2> QED
    BY <1>1, <2>1, <2>3, <2>4
<1> QED
  BY <1>3, <1>4

\* The words that a key's line is written of are read back, when they last.
LEMMA KeyLineRead ==
    ASSUME NEW name \in Seq(NamePieces) \ {<<>>}, NEW values \in Seq(Words), values # <<>>, Lasting(values)
    PROVE  LET line == name \o <<Space, "=">>
                         \o FlattenSeq([i \in DOMAIN values |-> <<Space>> \o Quoted(values[i])])
           IN  line \in Seq(Pieces) /\ VectoriseLine(line) = <<name, <<"=">> >> \o values
<1> DEFINE parts == [i \in DOMAIN values |-> <<Space>> \o Quoted(values[i])]
           head == name \o <<Space, "=">>
           words == <<name, <<"=">> >> \o values
           N == Len(values)
           C(n) == n > 0 /\ Has(values[n], Hash) /\ ~Has(values[n], Space)
           W(n) == State(SubSeq(words, 1, n + 1), words[n + 2], FALSE, C(n))
<1>1. N \in Nat \ {0} /\ DOMAIN values = 1 .. N /\ \A i \in 1 .. N : values[i] \in Words
  OBVIOUS
<1>2. name \in Seq(Pieces) /\ name # <<>> /\ name \in Words /\ <<"=">> \in Words /\ <<"=">> \in Seq(Pieces)
  <2>1. NamePieces \subseteq Pieces
    BY SignPieces
  <2>2. name \in Seq(Pieces)
    BY <2>1
  <2>3. <<"=">> \in Seq(Pieces)
    BY SignPieces
  <2> QED
    BY <2>2, <2>3 DEF Words
<1>3. /\ words \in Seq(Words) /\ Len(words) = N + 2 /\ words[1] = name /\ words[2] = <<"=">>
      /\ \A n \in 1 .. N : words[n + 2] = values[n]
  <2> DEFINE two == <<name, <<"=">> >>
  <2>1. two \in Seq(Words) /\ Len(two) = 2 /\ two[1] = name /\ two[2] = <<"=">>
    BY <1>2
  <2> HIDE DEF two
  <2>2. /\ two \o values \in Seq(Words) /\ Len(two \o values) = Len(two) + N
        /\ \A i \in 1 .. Len(two) + N : (two \o values)[i] = IF i <= Len(two) THEN two[i] ELSE values[i - Len(two)]
    BY <2>1, ConcatProperties
  <2>3. \A n \in 1 .. N : n + 2 \in 1 .. 2 + N /\ ~(n + 2 <= 2) /\ (n + 2) - 2 = n
    BY <1>1
  <2>4. words = two \o values
    BY DEF two
  <2> HIDE DEF words, N
  <2>5. 1 \in 1 .. 2 + N /\ 2 \in 1 .. 2 + N /\ 2 + N = N + 2
    BY <1>1
  <2> QED
    BY <2>1, <2>2, <2>3, <2>4, <2>5
<1>4. parts \in Seq(Seq(Pieces)) /\ Len(parts) = N /\ \A i \in 1 .. N : parts[i] = <<Space>> \o Quoted(values[i])
  <2>1. ASSUME NEW i \in 1 .. N PROVE <<Space>> \o Quoted(values[i]) \in Seq(Pieces)
    <3>1. values[i] \in Words /\ ~Has(values[i], Quote)
      BY <1>1 DEF Lasting
    <3>2. Quoted(values[i]) \in Seq(Pieces)
      <4>1. <<>> \in Seq(Words)
        OBVIOUS
      <4> QED
        BY <3>1, <4>1, ReadQuoted
    <3>3. <<Space>> \in Seq(Pieces)
      BY SignPieces
    <3> QED
      BY <3>2, <3>3, ConcatProperties
  <2> QED
    BY <1>1, <2>1
<1>5. head \in Seq(Pieces) /\ Run(Scanning, ScanStates, State(<<>>, <<>>, FALSE, FALSE), head, W(0))
  <2>1. <<>> \in Seq(Words) /\ <<>> \in Seq(Pieces) /\ <<>> \o name = name /\ <<name>> \in Seq(Words)
    BY <1>2, ConcatEmptySeq
  <2>2. Run(Scanning, ScanStates, State(<<>>, <<>>, FALSE, FALSE), name, State(<<>>, name, FALSE, FALSE))
    <3>1. \A i \in DOMAIN name : name[i] \in NamePieces
      OBVIOUS
    <3>2. \A i \in DOMAIN name : Literal(FALSE, FALSE, name[i])
      BY <3>1, SignPieces DEF Literal
    <3>3. ~Has(name, Hash)
      BY <3>1, SignPieces DEF Has
    <3>4. Run(Scanning, ScanStates, State(<<>>, <<>>, FALSE, FALSE), name,
              State(<<>>, <<>> \o name, FALSE, FALSE \/ (~FALSE /\ Has(name, Hash))))
      BY <1>2, <2>1, <3>2, ReadLiteral
    <3>5. (FALSE \/ (~FALSE /\ Has(name, Hash))) = FALSE
      BY <3>3
    <3> QED
      BY <2>1, <3>4, <3>5
  <2>3. Scan(Scan(State(<<>>, name, FALSE, FALSE), Space), "=") = State(<<name>>, <<"=">>, FALSE, FALSE)
    <3>1. Scan(State(<<>>, name, FALSE, FALSE), Space) = State(<<name>>, <<>>, FALSE, FALSE)
      <4>1. Scan(State(<<>>, name, FALSE, FALSE), Space) = State(Append(<<>>, name), <<>>, FALSE, FALSE)
        BY <1>2, ScanSpace
      <4>2. Append(<<>>, name) = <<name>>
        OBVIOUS
      <4> QED
        BY <4>1, <4>2
    <3>2. Scan(State(<<name>>, <<>>, FALSE, FALSE), "=") = State(<<name>>, <<"=">>, FALSE, FALSE)
      <4>1. "=" \notin {Quote, Space, Hash}
        BY DEF Quote, Space, Hash
      <4>2. <<"=">> = Append(<<>>, "=")
        OBVIOUS
      <4>3. Scan(State(<<name>>, <<>>, FALSE, FALSE), "=") = State(<<name>>, Append(<<>>, "="), FALSE, FALSE)
        BY <4>1, ScanPlain
      <4> QED
        BY <4>2, <4>3
    <3> QED
      BY <3>1, <3>2
  <2>4. State(<<>>, name, FALSE, FALSE) \in ScanStates
    BY <1>2, <2>1, StateType
  <2>5. Run(Scanning, ScanStates, State(<<>>, name, FALSE, FALSE), <<Space, "=">>,
            State(<<name>>, <<"=">>, FALSE, FALSE))
    BY <2>3, <2>4, SignPieces, ReadPair
  <2>6. <<Space, "=">> \in Seq(Pieces)
    BY SignPieces, Pair
  <2>7. Run(Scanning, ScanStates, State(<<>>, <<>>, FALSE, FALSE), head, State(<<name>>, <<"=">>, FALSE, FALSE))
    BY <1>2, <2>2, <2>5, <2>6, RunBoth
  <2>8. W(0) = State(<<name>>, <<"=">>, FALSE, FALSE)
    <3>1. SubSeq(words, 1, 0 + 1) = <<name>>
      <4>1. SubSeq(words, 1, 0) = <<>>
        BY SubSeqEmpty
      <4>2. 0 \in 0 .. Len(words) - 1
        BY <1>1, <1>3
      <4> HIDE DEF words
      <4>3. SubSeq(words, 1, 0 + 1) = Append(SubSeq(words, 1, 0), words[0 + 1])
        BY <1>3, <4>2, SubSeqNext
      <4>4. words[0 + 1] = name
        BY <1>3
      <4>5. Append(<<>>, name) = <<name>>
        OBVIOUS
      <4> QED
        BY <4>1, <4>3, <4>4, <4>5
    <3>2. words[0 + 2] = <<"=">> /\ C(0) = FALSE
      BY <1>3
    <3> QED
      BY <3>1, <3>2
  <2>9. head \in Seq(Pieces)
    BY <1>2, <2>6, ConcatProperties
  <2> QED
    BY <2>7, <2>8, <2>9
<1>6. ASSUME NEW n \in 0 .. N PROVE W(n) \in ScanStates
  <2>1. n + 1 \in Nat /\ n + 1 <= Len(words) /\ n + 2 \in 1 .. Len(words)
    BY <1>1, <1>3
  <2> HIDE DEF words
  <2>2. SubSeq(words, 1, n + 1) \in Seq(Words) /\ words[n + 2] \in Words /\ C(n) \in BOOLEAN
    BY <1>3, <2>1
  <2>3. words[n + 2] \in Seq(Pieces)
    BY <2>2 DEF Words
  <2> QED
    BY <2>2, <2>3, StateType
<1>7. ASSUME NEW n \in 0 .. N - 1 PROVE Run(Scanning, ScanStates, W(n), parts[n + 1], W(n + 1))
  <2> DEFINE value == values[n + 1]
             v == SubSeq(words, 1, n + 2)
  <2>1. n \in 0 .. N /\ n + 1 \in 1 .. N /\ n \in Nat /\ n + 1 \in 0 .. Len(words) - 1 /\ (n + 1) + 1 = n + 2
        /\ (n + 1) + 2 = n + 3 /\ n + 2 \in 1 .. Len(words)
    BY <1>1, <1>3
  <2>2. value \in Words /\ ~Has(value, Quote)
    BY <1>1, <2>1 DEF Lasting
  <2>3. C(n) = FALSE
    <3>1. n = N \/ ~C(n)
      <4>1. n > 0 => n \in DOMAIN values
        BY <1>1, <2>1
      <4>2. n > 0 /\ Has(values[n], Hash) /\ ~Has(values[n], Space) => n = Len(values)
        BY <4>1 DEF Lasting
      <4> QED
        BY <4>2, Zenon
    <3>2. n # N
      <4> HIDE DEF N
      <4> QED
        BY <1>1
    <3> QED
      BY <3>1, <3>2
  <2>4. words[n + 3] = value /\ C(n + 1) = (Has(value, Hash) /\ ~Has(value, Space))
    <3>1. words[(n + 1) + 2] = values[n + 1]
      BY <1>3, <2>1
    <3>2. n + 1 > 0
      BY <2>1
    <3> QED
      BY <2>1, <3>1, <3>2
  <2> HIDE DEF words, value
  <2>5. v = Append(SubSeq(words, 1, n + 1), words[n + 2])
    BY <1>3, <2>1, SubSeqNext
  <2>6. words[n + 2] \in Words
    BY <1>3, <2>1
  <2>7. v \in Seq(Words)
    <3>1. SubSeq(words, 1, n + 1) \in Seq(Words)
      BY <1>3, <2>1
    <3> QED
      BY <2>5, <2>6, <3>1, AppendProperties
  <2>8. W(n) = State(SubSeq(words, 1, n + 1), words[n + 2], FALSE, FALSE)
    BY <2>3
  <2>9. Scan(W(n), Space) = State(v, <<>>, FALSE, FALSE)
    <3>1. words[n + 2] # <<>>
      BY <2>6 DEF Words
    <3> QED
      BY <2>5, <2>8, <3>1, ScanSpace
  <2>10. W(n + 1) = State(v, value, FALSE, Has(value, Hash) /\ ~Has(value, Space))
    <3>1. SubSeq(words, 1, (n + 1) + 1) = v /\ words[(n + 1) + 2] = value
      BY <2>1, <2>4
    <3> HIDE DEF v
    <3> QED
      BY <2>4, <3>1
  <2> HIDE DEF v
  <2>11. W(n) \in ScanStates
    BY <1>6, <2>1
  <2> HIDE DEF W
  <2>12. Run(Scanning, ScanStates, W(n), <<Space>>, State(v, <<>>, FALSE, FALSE))
    BY <2>9, <2>11, SignPieces, ReadPiece
  <2>13. Quoted(value) \in Seq(Pieces) /\ Run(Scanning, ScanStates, State(v, <<>>, FALSE, FALSE), Quoted(value), W(n + 1))
    BY <2>2, <2>7, <2>10, ReadQuoted
  <2>14. <<Space>> \in Seq(Pieces)
    BY SignPieces
  <2>15. parts[n + 1] = <<Space>> \o Quoted(value)
    BY <1>4, <2>1 DEF value
  <2> HIDE DEF v, value, parts
  <2>16. Run(Scanning, ScanStates, W(n), <<Space>> \o Quoted(value), W(n + 1))
    BY <2>12, <2>13, <2>14, RunBoth
  <2> QED
    BY <2>15, <2>16
<1> DEFINE g == [n \in 0 .. N |-> W(n)]
<1> HIDE DEF parts, W, head
<1>8. FlattenSeq(parts) \in Seq(Pieces) /\ Run(Scanning, ScanStates, W(0), FlattenSeq(parts), W(N))
  <2>1. g \in [0 .. N -> ScanStates] /\ 0 \in 0 .. N /\ N \in 0 .. N /\ g[0] = W(0) /\ g[N] = W(N)
    BY <1>1, <1>6
  <2>2. \A n \in 0 .. N - 1 : n \in 0 .. N /\ n + 1 \in 0 .. N
    BY <1>1
  <2>3. \A n \in 0 .. N - 1 : g[n] = W(n) /\ g[n + 1] = W(n + 1)
    BY <2>2
  <2> HIDE DEF g
  <2>4. \A n \in 0 .. N - 1 : Run(Scanning, ScanStates, g[n], parts[n + 1], g[n + 1])
    BY <1>7, <2>3
  <2> QED
    BY <1>4, <2>1, <2>4, RunAll
<1> DEFINE line == head \o FlattenSeq(parts)
<1>9. line \in Seq(Pieces)
  BY <1>5, <1>8, ConcatProperties
<1>10. Run(Scanning, ScanStates, State(<<>>, <<>>, FALSE, FALSE), line, W(N))
  BY <1>5, <1>8, RunBoth
<1>11. VectoriseLine(line) = words
  <2>1. W(N) = State(SubSeq(words, 1, N + 1), words[N + 2], FALSE, C(N)) /\ C(N) \in BOOLEAN
    BY DEF W
  <2> HIDE DEF words, line, C, N
  <2>2. N + 1 \in 0 .. Len(words) - 1 /\ (N + 1) + 1 = N + 2 /\ N + 2 \in 1 .. Len(words)
    BY <1>1, <1>3
  <2>3. words[N + 2] # <<>>
    BY <1>3, <2>2 DEF Words
  <2>4. VectoriseLine(line) = Append(SubSeq(words, 1, N + 1), words[N + 2])
    <3>1. W(N).v = SubSeq(words, 1, N + 1) /\ W(N).s = words[N + 2]
      <4> DEFINE a == SubSeq(words, 1, N + 1)
                 b == words[N + 2]
                 d == C(N)
      <4>1. W(N) = State(a, b, FALSE, d)
        BY <2>1
      <4> HIDE DEF a, b, d, W
      <4>2. State(a, b, FALSE, d).v = a /\ State(a, b, FALSE, d).s = b
        BY DEF State
      <4>3. W(N).v = a /\ W(N).s = b
        BY <4>1, <4>2
      <4> QED
        BY <4>3 DEF a, b
    <3> HIDE DEF W
    <3>2. VectoriseLine(line) = IF W(N).s = <<>> THEN W(N).v ELSE Append(W(N).v, W(N).s)
      BY <1>9, <1>10, WordsOf
    <3> QED
      BY <2>3, <3>1, <3>2
  <2>5. SubSeq(words, 1, N + 2) = Append(SubSeq(words, 1, N + 1), words[N + 2])
    BY <1>3, <2>2, SubSeqNext
  <2>6. SubSeq(words, 1, Len(words)) = words
    BY <1>3
  <2> QED
    BY <1>3, <2>4, <2>5, <2>6
<1> QED
  BY <1>9, <1>11 DEF head, parts

\* A comment, a header and a blank line are read back as they are.
LEMMA CommentRead ==
    ASSUME NEW text \in Seq(Pieces)
    PROVE  LET line == <<Hash, Space>> \o text
           IN  line \in Seq(Pieces) /\ VectoriseLine(line) = <<line>> /\ line[1] = Hash /\ line # <<>>
<1> DEFINE line == <<Hash, Space>> \o text
           two == <<Hash, Space>>
<1>1. two \in Seq(Pieces) /\ <<>> \in Seq(Pieces) /\ <<>> \in Seq(Words)
  BY SignPieces, Pair
<1>2. line \in Seq(Pieces) /\ Len(line) = 2 + Len(text) /\ line[1] = Hash /\ line # <<>>
  <2>1. Len(two) = 2 /\ two[1] = Hash
    OBVIOUS
  <2> HIDE DEF two
  <2>2. two \o text \in Seq(Pieces) /\ Len(two \o text) = Len(two) + Len(text)
        /\ \A i \in 1 .. Len(two) + Len(text) : (two \o text)[i] = IF i <= Len(two) THEN two[i] ELSE text[i - Len(two)]
    BY <1>1, ConcatProperties
  <2>3. line = two \o text
    BY DEF two
  <2> HIDE DEF line
  <2>4. Len(text) \in Nat /\ 1 \in 1 .. 2 + Len(text) /\ 2 + Len(text) # 0
    OBVIOUS
  <2>5. line \in Seq(Pieces) /\ Len(line) = 2 + Len(text) /\ line[1] = Hash
    BY <2>1, <2>2, <2>3, <2>4
  <2> QED
    BY <2>4, <2>5
<1>3. Scan(Scan(State(<<>>, <<>>, FALSE, FALSE), Hash), Space) = State(<<>>, two, FALSE, TRUE)
  <2>1. Scan(State(<<>>, <<>>, FALSE, FALSE), Hash) = State(<<>>, <<Hash>>, FALSE, TRUE)
    <3>1. Append(<<>>, Hash) = <<Hash>>
      OBVIOUS
    <3> QED
      BY <3>1, ScanHash
  <2>2. Scan(State(<<>>, <<Hash>>, FALSE, TRUE), Space) = State(<<>>, two, FALSE, TRUE)
    <3>1. two = Append(<<Hash>>, Space)
      <4>1. /\ <<Hash>> \in Seq(Pieces) /\ Len(<<Hash>>) = 1 /\ <<Hash>>[1] = Hash
            /\ two \in Seq(Pieces) /\ Len(two) = 2 /\ two[1] = Hash /\ two[2] = Space
        BY SignPieces
      <4> DEFINE one == <<Hash>>
                 a == Append(one, Space)
      <4> HIDE DEF one, two
      <4>2. a \in Seq(Pieces) /\ Len(a) = 2 /\ a[1] = Hash /\ a[2] = Space
        BY <4>1, SignPieces, AppendProperties DEF one
      <4> HIDE DEF a
      <4>3. \A i \in 1 .. 2 : a[i] = two[i]
        <5>1. \A i \in 1 .. 2 : i = 1 \/ i = 2
          OBVIOUS
        <5> QED
          BY <4>1, <4>2, <5>1
      <4>4. a = two
        BY <4>1, <4>2, <4>3, SeqEqual
      <4> QED
        BY <4>4 DEF a, one
    <3> HIDE DEF two
    <3> QED
      BY <3>1, ScanComment
  <2> QED
    BY <2>1, <2>2
<1>4. State(<<>>, <<>>, FALSE, FALSE) \in ScanStates
  BY <1>1, StateType
<1>5. Run(Scanning, ScanStates, State(<<>>, <<>>, FALSE, FALSE), two, State(<<>>, two, FALSE, TRUE))
  BY <1>3, <1>4, SignPieces, ReadPair
<1> HIDE DEF two
<1>6. Run(Scanning, ScanStates, State(<<>>, two, FALSE, TRUE), text, State(<<>>, two \o text, FALSE, TRUE))
  <2>1. \A i \in DOMAIN text : Literal(FALSE, TRUE, text[i])
    BY DEF Literal
  <2>2. Run(Scanning, ScanStates, State(<<>>, two, FALSE, TRUE), text,
            State(<<>>, two \o text, FALSE, TRUE \/ (~FALSE /\ Has(text, Hash))))
    BY <1>1, <2>1, ReadLiteral
  <2>3. (TRUE \/ (~FALSE /\ Has(text, Hash))) = TRUE
    OBVIOUS
  <2> QED
    BY <2>2, <2>3
<1>7. Run(Scanning, ScanStates, State(<<>>, <<>>, FALSE, FALSE), two \o text, State(<<>>, two \o text, FALSE, TRUE))
  BY <1>1, <1>5, <1>6, RunBoth
<1>8. line = two \o text
  BY DEF two
<1> HIDE DEF line
<1>9. VectoriseLine(line) = Append(<<>>, line)
  <2> DEFINE st == State(<<>>, line, FALSE, TRUE)
  <2>1. st.v = <<>> /\ st.s = line
    BY DEF State
  <2>2. Run(Scanning, ScanStates, State(<<>>, <<>>, FALSE, FALSE), line, st)
    BY <1>7, <1>8
  <2> HIDE DEF st
  <2>3. VectoriseLine(line) = IF st.s = <<>> THEN st.v ELSE Append(st.v, st.s)
    BY <1>2, <2>2, WordsOf
  <2> QED
    BY <1>2, <2>1, <2>3
<1>10. Append(<<>>, line) = <<line>>
  OBVIOUS
<1> QED
  BY <1>2, <1>9, <1>10 DEF line

\* A header is one word, with the name between its brackets.
LEMMA HeaderRead ==
    ASSUME NEW name \in Seq(NamePieces)
    PROVE  LET line == <<"[">> \o name \o <<"]">>
           IN  /\ line \in Seq(Pieces) /\ line # <<>> /\ VectoriseLine(line) = <<line>>
               /\ line[1] = "[" /\ Last(line) = "]" /\ HeaderName(line) = name
<1> DEFINE l == Len(name)
           open == <<"[">> \o name
           line == open \o <<"]">>
<1>1. l \in Nat /\ name \in Seq(Pieces) /\ <<"[">> \in Seq(Pieces) /\ <<"]">> \in Seq(Pieces)
      /\ \A i \in 1 .. l : name[i] \in NamePieces
  <2>1. NamePieces \subseteq Pieces
    BY SignPieces
  <2>2. name \in Seq(Pieces)
    BY <2>1
  <2> QED
    BY <2>2, SignPieces
<1>2. open \in Seq(Pieces) /\ Len(open) = 1 + l
      /\ \A i \in 1 .. 1 + l : open[i] = IF i <= 1 THEN "[" ELSE name[i - 1]
  <2>1. Len(<<"[">>) = 1 /\ \A i \in 1 .. 1 + l : i <= 1 => <<"[">>[i] = "["
    OBVIOUS
  <2> DEFINE b == <<"[">>
  <2>2. b \in Seq(Pieces) /\ Len(b) = 1 /\ b[1] = "["
    BY <1>1
  <2> HIDE DEF b
  <2>3. b \o name \in Seq(Pieces) /\ Len(b \o name) = 1 + l
        /\ \A i \in 1 .. 1 + l : (b \o name)[i] = IF i <= 1 THEN b[i] ELSE name[i - 1]
    <3>1. b \o name \in Seq(Pieces) /\ Len(b \o name) = Len(b) + l
        /\ \A i \in 1 .. Len(b) + l : (b \o name)[i] = IF i <= Len(b) THEN b[i] ELSE name[i - Len(b)]
      BY <1>1, <2>2, ConcatProperties
    <3> QED
      BY <2>2, <3>1
  <2>4. open = b \o name
    BY DEF b
  <2>5. \A i \in 1 .. 1 + l : i <= 1 => b[i] = "["
    BY <1>1, <2>2
  <2> HIDE DEF open
  <2> QED
    BY <2>3, <2>4, <2>5
<1> HIDE DEF open
<1>3. line \in Seq(Pieces) /\ Len(line) = l + 2 /\ line[l + 2] = "]" /\ \A i \in 1 .. l + 1 : line[i] = open[i]
  <2> DEFINE b == <<"]">>
  <2>1. b \in Seq(Pieces) /\ Len(b) = 1 /\ b[1] = "]"
    BY <1>1
  <2> HIDE DEF b
  <2>2. open \o b \in Seq(Pieces) /\ Len(open \o b) = (1 + l) + 1
        /\ \A i \in 1 .. (1 + l) + 1 : (open \o b)[i] = IF i <= 1 + l THEN open[i] ELSE b[i - (1 + l)]
    <3>1. open \o b \in Seq(Pieces) /\ Len(open \o b) = Len(open) + Len(b)
        /\ \A i \in 1 .. Len(open) + Len(b) : (open \o b)[i] = IF i <= Len(open) THEN open[i] ELSE b[i - Len(open)]
      BY <1>1, <1>2, <2>1, ConcatProperties
    <3> QED
      BY <1>2, <2>1, <3>1
  <2>3. line = open \o b
    BY DEF b
  <2> HIDE DEF line
  <2>4. (1 + l) + 1 = l + 2 /\ l + 2 \in 1 .. (1 + l) + 1 /\ ~(l + 2 <= 1 + l) /\ (l + 2) - (1 + l) = 1
        /\ \A i \in 1 .. l + 1 : i \in 1 .. (1 + l) + 1 /\ i <= 1 + l
    BY <1>1
  <2> QED
    BY <2>1, <2>2, <2>3, <2>4
<1> HIDE DEF line
<1>4. \A i \in 1 .. l + 1 : line[i] = IF i <= 1 THEN "[" ELSE name[i - 1]
  BY <1>1, <1>2, <1>3
<1>5. \A i \in DOMAIN line : line[i] \in NamePieces \cup {"[", "]"}
  <2>1. DOMAIN line = 1 .. l + 2
    BY <1>3
  <2>2. \A i \in 1 .. l + 2 : i = l + 2 \/ i \in 1 .. l + 1
    BY <1>1
  <2>3. \A i \in 1 .. l + 1 : i <= 1 \/ i - 1 \in 1 .. l
    BY <1>1
  <2> QED
    BY <1>1, <1>3, <1>4, <2>1, <2>2, <2>3
<1>6. \A i \in DOMAIN line : line[i] \notin {Quote, Space, Hash}
  <2>1. "[" \notin {Quote, Space, Hash} /\ "]" \notin {Quote, Space, Hash}
    BY DEF Quote, Space, Hash
  <2> QED
    BY <1>5, <2>1, SignPieces
<1>7. VectoriseLine(line) = <<line>> /\ line # <<>>
  <2>1. \A i \in DOMAIN line : Literal(FALSE, FALSE, line[i])
    BY <1>6 DEF Literal
  <2>2. <<>> \in Seq(Words) /\ <<>> \in Seq(Pieces) /\ <<>> \o line = line /\ line # <<>>
    BY <1>1, <1>3, ConcatEmptySeq
  <2>3. Run(Scanning, ScanStates, State(<<>>, <<>>, FALSE, FALSE), line,
            State(<<>>, <<>> \o line, FALSE, FALSE \/ (~FALSE /\ Has(line, Hash))))
    BY <1>3, <2>1, <2>2, ReadLiteral
  <2>4. (FALSE \/ (~FALSE /\ Has(line, Hash))) \in BOOLEAN
    OBVIOUS
  <2>5. VectoriseLine(line) = Append(<<>>, line)
    BY <1>3, <2>2, <2>3, <2>4, WordsRead
  <2> QED
    BY <2>2, <2>5
<1>8. HeaderName(line) = name
  <2> DEFINE h == SubSeq(line, 2, l + 1)
  <2>1. h \in Seq(Pieces) /\ Len(h) = l /\ \A i \in 1 .. l : h[i] = line[i + 1]
    <3>1. \A i \in 2 .. l + 1 : line[i] \in Pieces
      BY <1>1, <1>3
    <3>2. 2 \in Int /\ l + 1 \in Int /\ (l + 1) - 2 + 1 = l /\ \A i \in 1 .. l : 2 + i - 1 = i + 1
      BY <1>1
    <3>3. /\ h \in Seq(Pieces) /\ Len(h) = IF 2 <= l + 1 THEN (l + 1) - 2 + 1 ELSE 0
          /\ \A i \in 1 .. (l + 1) - 2 + 1 : h[i] = line[2 + i - 1]
      BY <3>1, <3>2, SubSeqProperties
    <3>4. ~(2 <= l + 1) => l = 0
      BY <1>1
    <3> HIDE DEF h
    <3> QED
      BY <3>2, <3>3, <3>4
  <2>2. \A i \in 1 .. l : i + 1 \in 1 .. l + 1 /\ ~(i + 1 <= 1) /\ (i + 1) - 1 = i
    BY <1>1
  <2> HIDE DEF h
  <2>3. \A i \in 1 .. l : h[i] = name[i]
    BY <1>4, <2>1, <2>2
  <2>4. h = name
    BY <1>1, <2>1, <2>3, SeqEqual
  <2>5. Len(line) - 1 = l + 1
    BY <1>1, <1>3
  <2> QED
    BY <2>4, <2>5 DEF HeaderName, h
<1>9. line[1] = "[" /\ Last(line) = "]"
  <2>1. 1 \in 1 .. l + 1
    BY <1>1
  <2> QED
    BY <1>3, <1>4, <2>1 DEF Last
<1>10. line = <<"[">> \o name \o <<"]">>
  BY DEF line, open
<1> QED
  BY <1>3, <1>7, <1>8, <1>9, <1>10

\* A blank line has no words.
LEMMA BlankRead == VectoriseLine(<<>>) = <<>>
<1>1. <<>> \in Seq(Words) /\ <<>> \in Seq(Pieces)
  OBVIOUS
<1>2. State(<<>>, <<>>, FALSE, FALSE) \in ScanStates
  BY <1>1, StateType
<1>3. Run(Scanning, ScanStates, State(<<>>, <<>>, FALSE, FALSE), <<>>, State(<<>>, <<>>, FALSE, FALSE))
  BY <1>2, RunNone
<1> QED
  BY <1>1, <1>3, WordsRead

-----------------------------------------------------------------------------
(* The data of a file.                                                     *)

\* A header that ends the load, and the lines that do not.
BadLine(line) == LET words == VectoriseLine(line) IN IsHeader(words) /\ ~HeaderOK(words[1])
GoodLines == {line \in Seq(Pieces) : ~BadLine(line)}

\* The keys and the sections that come of lines.
FileKeys == {key \in IniKeys : /\ key.comment => key.values = <<>>
                               /\ ~key.comment => /\ key.name \in Seq(NamePieces) /\ key.name # <<>>
                                                  /\ key.values # <<>>}

\* Sections of such keys.
FileSections == {section \in Sections : section.keys \in Seq(FileKeys)}

\* The data that a load leaves: the default section comes first, and the other
\* sections have names that a header can have.
Sound(data) ==
    /\ data \in Seq(FileSections) /\ data # <<>>
    /\ data[1].name = DefaultSection.name
    /\ \A i \in DOMAIN data : i # 1 => data[i].name \in Seq(NamePieces) /\ data[i].name # DefaultSection.name

\* A text that can be a name is one of pieces of names.
LEMMA NameOf == ASSUME NEW text \in Seq(Pieces), IsName(text) PROVE text \in Seq(NamePieces)
BY DEF IsName

\* The keys that come of lines are comments without values and keys with a
\* name and values.
LEMMA KeyKinds ==
    /\ \A text \in Seq(Pieces) : Comment(text) \in FileKeys
    /\ \A name \in Seq(NamePieces), values \in Seq(Words) :
          name # <<>> /\ values # <<>> => NewKey(name, values) \in FileKeys
    /\ \A key \in FileKeys : key.comment => key = Comment(key.name) /\ key.name \in Seq(Pieces)
    /\ \A key \in FileKeys : ~key.comment => /\ key = NewKey(key.name, key.values)
                                              /\ key.name \in Seq(NamePieces) /\ key.name # <<>>
                                              /\ key.values \in Seq(Words) /\ key.values # <<>>
<1>1. ASSUME NEW text \in Seq(Pieces) PROVE Comment(text) \in FileKeys
  <2>1. <<>> \in Seq(Words)
    OBVIOUS
  <2> QED
    BY <2>1 DEF Comment, FileKeys, IniKeys
<1>2. ASSUME NEW name \in Seq(NamePieces), NEW values \in Seq(Words), name # <<>>, values # <<>>
      PROVE  NewKey(name, values) \in FileKeys
  <2>1. NamePieces \subseteq Pieces
    BY PiecesAssumption
  <2>2. name \in Seq(Pieces)
    BY <2>1
  <2> QED
    BY <1>2, <2>2 DEF NewKey, FileKeys, IniKeys
<1>3. ASSUME NEW key \in FileKeys, key.comment PROVE key = Comment(key.name) /\ key.name \in Seq(Pieces)
  BY <1>3 DEF Comment, FileKeys, IniKeys
<1>4. ASSUME NEW key \in FileKeys, ~key.comment
      PROVE  /\ key = NewKey(key.name, key.values)
             /\ key.name \in Seq(NamePieces) /\ key.name # <<>>
             /\ key.values \in Seq(Words) /\ key.values # <<>>
  BY <1>4 DEF NewKey, FileKeys, IniKeys
<1> QED
  BY <1>1, <1>2, <1>3, <1>4

\* A line that does not end the load keeps the data sound.
LEMMA LineSound ==
    ASSUME NEW data \in Datas, Sound(data), NEW line \in GoodLines
    PROVE  LoadLine(data, line) \in Datas /\ Sound(LoadLine(data, line))
<1> DEFINE words == VectoriseLine(line)
           n == Len(data)
<1>1. line \in Seq(Pieces) /\ words \in Seq(Words) /\ LoadLine(data, line) \in Datas
  BY LineWords, LoadLineType DEF GoodLines
<1>2. n \in Nat \ {0} /\ DOMAIN data = 1 .. n /\ \A i \in 1 .. n : data[i] \in FileSections
  BY DEF Sound
<1>3. ASSUME NEW key \in FileKeys, LoadLine(data, line) = AddKey(data, key) PROVE Sound(LoadLine(data, line))
  <2> DEFINE d == AddKey(data, key)
  <2>1. key \in IniKeys
    BY DEF FileKeys
  <2>2. /\ d \in Datas /\ Len(d) = n /\ DOMAIN d = 1 .. n
        /\ \A i \in 1 .. n : d[i].name = data[i].name
        /\ \A i \in 1 .. n : i # n => d[i].keys = data[i].keys
        /\ d[n].keys = Append(data[n].keys, key)
    BY <2>1, KeyAdded
  <2> HIDE DEF d, n
  <2>3. ASSUME NEW i \in 1 .. n PROVE d[i] \in FileSections
    <3>1. d[i] \in Sections
      BY <2>2 DEF Datas
    <3>2. data[i].keys \in Seq(FileKeys)
      BY <1>2 DEF FileSections
    <3>3. Append(data[i].keys, key) \in Seq(FileKeys)
      BY <3>2, AppendProperties
    <3>4. d[i].keys \in Seq(FileKeys)
      BY <2>2, <3>2, <3>3
    <3> QED
      BY <3>1, <3>4 DEF FileSections
  <2>4. d \in Seq(FileSections) /\ d # <<>>
    BY <1>2, <2>2, <2>3 DEF Datas
  <2>5. 1 \in 1 .. n
    BY <1>2
  <2>6. Sound(d)
    BY <1>2, <2>2, <2>4, <2>5 DEF Sound
  <2> QED
    BY <1>3, <2>6 DEF d
<1>4. CASE IsHeader(words)
  <2> DEFINE name == HeaderName(words[1])
             d == Append(data, Section(name))
  <2>1. LoadLine(data, line) = d
    BY <1>1, <1>4, LoadLineIs
  <2>2. words # <<>> /\ HeaderOK(words[1])
    BY <1>4 DEF IsHeader, GoodLines, BadLine
  <2>3. name \in Seq(Pieces)
    <3> HIDE DEF words
    <3>1. words[1] \in Seq(Pieces)
      BY <1>1, <2>2 DEF Words
    <3> QED
      BY <3>1 DEF HeaderName
  <2>4. IsName(name) /\ name # DefaultSection.name
    BY <2>2 DEF HeaderOK
  <2> HIDE DEF name
  <2>5. name \in Seq(NamePieces)
    BY <2>3, <2>4, NameOf
  <2>6. Section(name) \in FileSections /\ Section(name).name = name
    <3>1. <<>> \in Seq(IniKeys) /\ <<>> \in Seq(FileKeys)
      OBVIOUS
    <3> QED
      BY <2>3, <3>1 DEF Section, Sections, FileSections
  <2> DEFINE section == Section(name)
  <2> HIDE DEF section
  <2>7. /\ d \in Seq(FileSections) /\ Len(d) = n + 1 /\ d # <<>> /\ d[n + 1] = section
        /\ \A i \in 1 .. n : d[i] = data[i]
    BY <2>6, AppendProperties DEF Sound, section
  <2>8. \A i \in 1 .. n + 1 : i = n + 1 \/ i \in 1 .. n
    BY <1>2
  <2>9. DOMAIN d = 1 .. n + 1 /\ 1 \in 1 .. n
    BY <1>2, <2>7
  <2>10. d[1].name = data[1].name
    BY <2>7, <2>9
  <2>11. section.name = name
    BY <2>6 DEF section
  <2> HIDE DEF d, n
  <2>12. ASSUME NEW i \in DOMAIN d, i # 1
         PROVE  d[i].name \in Seq(NamePieces) /\ d[i].name # DefaultSection.name
    <3>1. i = n + 1 \/ i \in 1 .. n
      BY <2>8, <2>9
    <3>2. CASE i = n + 1
      BY <2>4, <2>5, <2>7, <2>11, <3>2
    <3>3. CASE i \in 1 .. n
      BY <1>2, <2>7, <2>12, <3>3 DEF Sound
    <3> QED
      BY <3>1, <3>2, <3>3
  <2>13. Sound(d)
    BY <2>7, <2>10, <2>12 DEF Sound
  <2> QED
    BY <1>1, <2>1, <2>13
<1>5. CASE ~IsHeader(words) /\ IsComment(words)
  <2> DEFINE text == IF words = <<>> THEN <<>> ELSE line
  <2>1. LoadLine(data, line) = AddKey(data, Comment(text))
    BY <1>1, <1>5, LoadLineIs
  <2>2. text \in Seq(Pieces)
    <3>1. <<>> \in Seq(Pieces)
      OBVIOUS
    <3> QED
      BY <1>1, <3>1
  <2> HIDE DEF text
  <2>3. Comment(text) \in FileKeys
    BY <2>2, KeyKinds
  <2> QED
    BY <1>1, <1>3, <2>1, <2>3
<1>6. CASE ~IsHeader(words) /\ ~IsComment(words) /\ IsKeyLine(words)
  <2> DEFINE name == words[1]
             values == SubSeq(words, 3, Len(words))
  <2>1. LoadLine(data, line) = AddKey(data, NewKey(name, values))
    BY <1>1, <1>6, LoadLineIs
  <2>2. Len(words) > 2 /\ IsName(name)
    BY <1>6 DEF IsKeyLine
  <2>3. name \in Words /\ values \in Seq(Words) /\ values # <<>>
    <3> HIDE DEF words
    <3> DEFINE l == Len(words)
    <3>1. words \in Seq(Words) /\ l > 2
      BY <1>1, <2>2
    <3>2. l \in Nat
      BY <3>1
    <3>3. SubSeq(words, 3, l) \in Seq(Words) /\ Len(SubSeq(words, 3, l)) = l - 2
      BY <3>1, <3>2
    <3>4. words[1] \in Words
      BY <3>1, <3>2
    <3> HIDE DEF values
    <3>5. values \in Seq(Words) /\ Len(values) = l - 2
      BY <3>3 DEF values
    <3> HIDE DEF l
    <3>6. Len(values) # 0
      BY <3>1, <3>2, <3>5
    <3>7. Len(<<>>) = 0
      OBVIOUS
    <3>8. values # <<>>
      BY <3>6, <3>7
    <3> QED
      BY <3>4, <3>5, <3>8
  <2> HIDE DEF name, values
  <2>4. name \in Seq(NamePieces) /\ name # <<>>
    BY <2>2, <2>3, NameOf DEF Words
  <2>5. NewKey(name, values) \in FileKeys
    BY <2>3, <2>4, KeyKinds
  <2> QED
    BY <1>1, <1>3, <2>1, <2>5
<1>7. CASE ~IsHeader(words) /\ ~IsComment(words) /\ ~IsKeyLine(words)
  <2>1. LoadLine(data, line) = data
    BY <1>1, <1>7, LoadLineIs
  <2> QED
    BY <2>1
<1> QED
  BY <1>1, <1>4, <1>5, <1>6, <1>7

\* A load reads the lines before the first bad one.
LEMMA LoadIs ==
    ASSUME NEW lines \in Texts
    PROVE  LET B == {i \in 1 .. Len(lines) : BadLine(lines[i])}
           IN  /\ B = {} => /\ LoadFile(lines).ok
                            /\ LoadFile(lines).data = FoldLeft(LoadLine, <<DefaultSection>>, lines)
               /\ B # {} => LoadFile(lines).data
                                = FoldLeft(LoadLine, <<DefaultSection>>, SubSeq(lines, 1, Min(B) - 1))
<1> DEFINE B == {i \in 1 .. Len(lines) : BadLine(lines[i])}
           bad == IF B # {} THEN Min(B) ELSE 0
<1>1. LoadFile(lines) = [ ok   |-> bad = 0,
                          data |-> FoldLeft(LoadLine, <<DefaultSection>>,
                                            IF bad = 0 THEN lines ELSE SubSeq(lines, 1, bad - 1)) ]
  BY DEF LoadFile, SelectInSeq, BadLine
<1>2. B \in SUBSET Nat /\ \A i \in B : i # 0
  OBVIOUS
<1> HIDE DEF B
<1>3. B # {} => Min(B) # 0
  BY <1>2, Smallest
<1>4. LoadFile(lines).ok = (bad = 0)
      /\ LoadFile(lines).data = FoldLeft(LoadLine, <<DefaultSection>>,
                                         IF bad = 0 THEN lines ELSE SubSeq(lines, 1, bad - 1))
  BY <1>1
<1>5. B = {} => LoadFile(lines).ok /\ LoadFile(lines).data = FoldLeft(LoadLine, <<DefaultSection>>, lines)
  BY <1>4
<1>6. B # {} => LoadFile(lines).data = FoldLeft(LoadLine, <<DefaultSection>>, SubSeq(lines, 1, Min(B) - 1))
  BY <1>3, <1>4
<1> QED
  BY <1>5, <1>6 DEF B

\* Without a bad line a load succeeds, and reads all the lines.
LEMMA GoodLoad ==
    ASSUME NEW lines \in Seq(GoodLines)
    PROVE  /\ lines \in Texts /\ LoadFile(lines).ok
           /\ LoadFile(lines).data = FoldLeft(LoadLine, <<DefaultSection>>, lines)
<1>1. GoodLines \subseteq Seq(Pieces)
  BY DEF GoodLines
<1>2. lines \in Texts
  BY <1>1 DEF Texts
<1> DEFINE B == {i \in 1 .. Len(lines) : BadLine(lines[i])}
<1>3. B = {}
  <2>1. \A i \in 1 .. Len(lines) : lines[i] \in GoodLines
    OBVIOUS
  <2> QED
    BY <2>1 DEF GoodLines
<1> QED
  BY <1>2, <1>3, LoadIs

\* What such lines leave is sound.
LEMMA FoldSound ==
    ASSUME NEW lines \in Seq(GoodLines)
    PROVE  Sound(FoldLeft(LoadLine, <<DefaultSection>>, lines))
<1> DEFINE b == FoldLeft(LoadLine, <<DefaultSection>>, lines)
           P == {data \in Datas : Sound(data)}
<1>1. lines \in Texts
  BY GoodLoad
<1>2. Run(Loading, Datas, <<DefaultSection>>, lines, b)
  BY <1>1, LoadFold
<1>3. <<DefaultSection>> \in P
  <2>1. <<>> \in Seq(FileKeys)
    OBVIOUS
  <2>2. <<DefaultSection>> \in Datas /\ DefaultSection \in Sections
    BY LoadingType DEF Datas
  <2>3. DefaultSection \in FileSections
    BY <2>1, <2>2 DEF FileSections, DefaultSection, Section
  <2> DEFINE d == <<DefaultSection>>
             section == DefaultSection
  <2>4. d \in Seq(FileSections) /\ d # <<>> /\ d[1] = section /\ DOMAIN d = 1 .. 1
    BY <2>3
  <2> HIDE DEF d, section
  <2>5. Sound(d)
    BY <2>4 DEF Sound, section
  <2> QED
    BY <2>2, <2>5 DEF d
<1>4. ASSUME NEW data \in Datas \cap P, NEW line \in GoodLines PROVE Loading[<<data, line>>] \in P
  <2>1. LoadLine(data, line) \in P
    BY LineSound
  <2>2. line \in Seq(Pieces)
    BY DEF GoodLines
  <2> QED
    BY <2>1, <2>2 DEF Loading
<1> HIDE DEF b, P
<1>5. b \in P
  BY <1>2, <1>3, <1>4, RunKeeps
<1> QED
  BY <1>5 DEF b, P

\* What is loaded is sound, cut off or not: whatever the text of a file.
LEMMA LoadSound == ASSUME NEW lines \in Texts PROVE Sound(LoadFile(lines).data)
<1> DEFINE B == {i \in 1 .. Len(lines) : BadLine(lines[i])}
           N == Len(lines)
<1>1. N \in Nat /\ DOMAIN lines = 1 .. N /\ \A i \in 1 .. N : lines[i] \in Seq(Pieces)
  BY DEF Texts
<1>2. \A i \in 1 .. N : i \notin B => lines[i] \in GoodLines
  BY <1>1 DEF GoodLines
<1>3. B \in SUBSET (1 .. N)
  OBVIOUS
<1>4. /\ B = {} => LoadFile(lines).data = FoldLeft(LoadLine, <<DefaultSection>>, lines)
      /\ B # {} => LoadFile(lines).data = FoldLeft(LoadLine, <<DefaultSection>>, SubSeq(lines, 1, Min(B) - 1))
  BY LoadIs
<1> HIDE DEF B
<1>5. CASE B = {}
  <2>1. lines \in Seq(GoodLines)
    BY <1>1, <1>2, <1>5 DEF Texts
  <2> QED
    BY <1>4, <1>5, <2>1, FoldSound
<1>6. CASE B # {}
  <2> DEFINE m == Min(B)
             s == SubSeq(lines, 1, m - 1)
  <2>1. m \in B /\ \A i \in B : m <= i
    BY <1>3, <1>6, Smallest
  <2> HIDE DEF m, N
  <2>2. m \in 1 .. N
    BY <1>3, <2>1
  <2>3. \A i \in 1 .. m - 1 : i \in 1 .. N /\ ~(m <= i)
    BY <1>1, <2>2
  <2>4. \A i \in 1 .. m - 1 : lines[i] \in GoodLines
    BY <1>2, <2>1, <2>3
  <2>5. s \in Seq(GoodLines)
    BY <2>2, <2>4, SubSeqProperties
  <2>6. LoadFile(lines).data = FoldLeft(LoadLine, <<DefaultSection>>, s)
    BY <1>4, <1>6 DEF m
  <2> HIDE DEF s
  <2> QED
    BY <2>5, <2>6, FoldSound
<1> QED
  BY <1>5, <1>6

\* A file of good lines is loaded into what its lines lead to.
LEMMA LoadRun ==
    ASSUME NEW lines \in Seq(GoodLines), NEW data, Run(Loading, Datas, <<DefaultSection>>, lines, data)
    PROVE  LoadFile(lines).ok /\ LoadFile(lines).data = data
<1>1. lines \in Texts /\ LoadFile(lines).ok
      /\ LoadFile(lines).data = FoldLeft(LoadLine, <<DefaultSection>>, lines)
  BY GoodLoad
<1>2. Run(Loading, Datas, <<DefaultSection>>, lines, FoldLeft(LoadLine, <<DefaultSection>>, lines))
  BY <1>1, LoadFold
<1>3. FoldLeft(LoadLine, <<DefaultSection>>, lines) = data
  BY <1>2, RunEnd
<1> QED
  BY <1>1, <1>3

-----------------------------------------------------------------------------
(* What is written is read back.                                           *)

\* The key that a line is written of is the one that the line adds.
IsLineOf(line, key) ==
    /\ line \in GoodLines
    /\ \A data \in Datas : LoadLine(data, line) = AddKey(data, key)

\* A comment, or a blank line, is added as it is.
LEMMA CommentLine ==
    ASSUME NEW line \in Seq(Pieces), line = <<>> \/ (line[1] = Hash /\ VectoriseLine(line) = <<line>>)
    PROVE  IsLineOf(line, Comment(line))
<1> DEFINE words == VectoriseLine(line)
<1>1. words = <<>> \/ (words = <<line>> /\ words[1][1] = Hash)
  BY BlankRead
<1>2. words = <<>> => line = <<>>
  <2>1. <<line>> # <<>>
    OBVIOUS
  <2> QED
    BY <2>1
<1>3. (IF words = <<>> THEN <<>> ELSE line) = line
  BY <1>2
<1>4. ~IsHeader(words) /\ IsComment(words)
  BY <1>1 DEF IsHeader, IsComment, Hash
<1>5. line \in GoodLines
  BY <1>4 DEF GoodLines, BadLine
<1>6. ASSUME NEW data \in Datas PROVE LoadLine(data, line) = AddKey(data, Comment(line))
  BY <1>3, <1>4, LoadLineIs
<1> QED
  BY <1>5, <1>6 DEF IsLineOf

\* A line of a name, an equals sign and values is added as that key.
LEMMA ValuesLine ==
    ASSUME NEW name \in Seq(NamePieces), name # <<>>, NEW values \in Seq(Words), values # <<>>,
           NEW line \in Seq(Pieces), VectoriseLine(line) = <<name, <<"=">> >> \o values
    PROVE  IsLineOf(line, NewKey(name, values))
<1> DEFINE words == VectoriseLine(line)
           N == Len(values)
           two == <<name, <<"=">> >>
<1>1. N \in Nat \ {0}
  <2>1. N \in Nat /\ (N = 0 => values = <<>>)
    OBVIOUS
  <2> QED
    BY <2>1
<1>2. two \in Seq(Words) /\ Len(two) = 2 /\ two[1] = name /\ two[2] = <<"=">>
  <2>1. NamePieces \subseteq Pieces
    BY SignPieces
  <2>2. name \in Seq(Pieces)
    BY <2>1
  <2>3. <<"=">> \in Seq(Pieces)
    BY SignPieces
  <2>4. name \in Words /\ <<"=">> \in Words
    BY <2>2, <2>3 DEF Words
  <2> QED
    BY <2>4
<1> HIDE DEF two
<1>3. /\ two \o values \in Seq(Words) /\ Len(two \o values) = Len(two) + N
      /\ \A i \in 1 .. Len(two) + N : (two \o values)[i] = IF i <= Len(two) THEN two[i] ELSE values[i - Len(two)]
  BY <1>2, ConcatProperties
<1>4. words = two \o values
  BY DEF two
<1> HIDE DEF words, N
<1>5. /\ words \in Seq(Words) /\ Len(words) = N + 2 /\ words[1] = name /\ words[2] = <<"=">>
      /\ \A i \in 1 .. N : words[i + 2] = values[i]
  <2>1. /\ words \in Seq(Words) /\ Len(words) = 2 + N
        /\ \A i \in 1 .. 2 + N : words[i] = IF i <= 2 THEN two[i] ELSE values[i - 2]
    BY <1>2, <1>3, <1>4
  <2>2. 1 \in 1 .. 2 + N /\ 2 \in 1 .. 2 + N /\ 2 + N = N + 2
        /\ \A i \in 1 .. N : i + 2 \in 1 .. 2 + N /\ ~(i + 2 <= 2) /\ (i + 2) - 2 = i
    BY <1>1
  <2> QED
    BY <1>2, <2>1, <2>2
<1>6. \A i \in DOMAIN name : name[i] \in NamePieces
  OBVIOUS
<1>7. name[1] \in NamePieces
  <2>1. 1 \in DOMAIN name
    OBVIOUS
  <2> QED
    BY <1>6, <2>1
<1>8. name[1] # "[" /\ name[1] # Hash
  BY <1>7, SignPieces
<1>9. words # <<>>
  BY <1>1, <1>5
<1>10. ~IsHeader(words) /\ ~IsComment(words)
  BY <1>5, <1>8, <1>9 DEF IsHeader, IsComment
<1>11. IsKeyLine(words)
  <2>1. Len(words) > 2
    BY <1>1, <1>5
  <2> QED
    BY <1>5, <1>6, <2>1 DEF IsKeyLine, IsName
<1>12. SubSeq(words, 3, Len(words)) = values
  <2> DEFINE s == SubSeq(words, 3, N + 2)
  <2>1. s \in Seq(Words) /\ Len(s) = N /\ \A i \in 1 .. N : s[i] = words[i + 2]
    <3>1. \A i \in 3 .. N + 2 : words[i] \in Words
      BY <1>1, <1>5
    <3>2. 3 \in Int /\ N + 2 \in Int /\ 3 <= N + 2 /\ (N + 2) - 3 + 1 = N /\ \A i \in 1 .. N : 3 + i - 1 = i + 2
      BY <1>1
    <3>3. /\ s \in Seq(Words) /\ Len(s) = IF 3 <= N + 2 THEN (N + 2) - 3 + 1 ELSE 0
          /\ \A i \in 1 .. (N + 2) - 3 + 1 : s[i] = words[3 + i - 1]
      BY <3>1, <3>2, SubSeqProperties
    <3> HIDE DEF s
    <3> QED
      BY <3>2, <3>3
  <2> HIDE DEF s
  <2>2. Len(values) = N
    BY DEF N
  <2>3. \A i \in 1 .. N : s[i] = values[i]
    BY <1>5, <2>1
  <2>4. s = values
    BY <2>1, <2>2, <2>3, SeqEqual
  <2> QED
    BY <1>5, <2>4 DEF s
<1>13. line \in GoodLines
  BY <1>10 DEF GoodLines, BadLine, words
<1>14. ASSUME NEW data \in Datas PROVE LoadLine(data, line) = AddKey(data, NewKey(name, values))
  <2>1. LoadLine(data, line) = AddKey(data, NewKey(words[1], SubSeq(words, 3, Len(words))))
    BY <1>10, <1>11, LoadLineIs DEF words
  <2> QED
    BY <1>5, <1>12, <2>1
<1> QED
  BY <1>13, <1>14 DEF IsLineOf

\* What SaveFile makes of a key is one line, which a load reads back as the key
\* that SaveFile left in memory, if its values last.
LEMMA KeyWritten ==
    ASSUME NEW key \in FileKeys, Lasting(key.values)
    PROVE  /\ Commented(key) \in FileKeys
           /\ \E line \in Seq(Pieces) : KeyLines(Commented(key)) = <<line>> /\ IsLineOf(line, Commented(key))
<1>1. CASE key.comment /\ key.name = <<>>
  <2>1. Commented(key) = key /\ key = Comment(<<>>) /\ <<>> \in Seq(Pieces)
    BY <1>1, KeyKinds DEF Commented
  <2>2. KeyLines(key) = << <<>> >>
    BY <1>1 DEF KeyLines
  <2>3. IsLineOf(<<>>, Comment(<<>>))
    BY <2>1, CommentLine
  <2> QED
    BY <2>1, <2>2, <2>3
<1>2. CASE key.comment /\ key.name # <<>>
  <2> DEFINE line == <<Hash, Space>> \o key.name
  <2>1. key = Comment(key.name) /\ key.name \in Seq(Pieces)
    BY <1>2, KeyKinds
  <2>2. line \in Seq(Pieces) /\ VectoriseLine(line) = <<line>> /\ line[1] = Hash
    BY <2>1, CommentRead
  <2>3. Commented(key) = [key EXCEPT !.name = line]
    BY <1>2 DEF Commented
  <2> HIDE DEF line
  <2>4. Commented(key) = Comment(line)
    <3> DEFINE k == [key EXCEPT !.name = line]
    <3>1. k \in IniKeys /\ k.name = line /\ k.values = key.values /\ k.comment = key.comment
      BY <2>2 DEF FileKeys, IniKeys
    <3>2. key.comment /\ key.values = <<>>
      BY <1>2 DEF FileKeys
    <3> HIDE DEF k
    <3>3. k \in FileKeys /\ k.comment
      BY <3>1, <3>2 DEF FileKeys
    <3>4. k = Comment(k.name)
      BY <3>3, KeyKinds
    <3> QED
      BY <2>3, <3>1, <3>4 DEF k
  <2>5. KeyLines(Comment(line)) = <<line>>
    BY DEF KeyLines, Comment
  <2>6. IsLineOf(line, Comment(line)) /\ Comment(line) \in FileKeys
    BY <2>2, CommentLine, KeyKinds
  <2> QED
    BY <2>2, <2>4, <2>5, <2>6
<1>3. CASE ~key.comment
  <2> DEFINE line == key.name \o <<Space, "=">>
                       \o FlattenSeq([i \in DOMAIN key.values |-> <<Space>> \o Quoted(key.values[i])])
  <2>1. /\ key = NewKey(key.name, key.values)
        /\ key.name \in Seq(NamePieces) /\ key.name # <<>>
        /\ key.values \in Seq(Words) /\ key.values # <<>>
    BY <1>3, KeyKinds
  <2>2. Commented(key) = key
    BY <1>3 DEF Commented
  <2>3. KeyLines(key) = <<line>>
    BY <1>3, <2>1 DEF KeyLines
  <2>4. line \in Seq(Pieces) /\ VectoriseLine(line) = <<key.name, <<"=">> >> \o key.values
    BY <2>1, KeyLineRead
  <2> HIDE DEF line
  <2>5. IsLineOf(line, NewKey(key.name, key.values))
    BY <2>1, <2>4, ValuesLine
  <2> QED
    BY <2>1, <2>2, <2>3, <2>4, <2>5
<1> QED
  BY <1>1, <1>2, <1>3

\* The header that SaveFile writes starts a section of that name.
LEMMA HeaderLine ==
    ASSUME NEW name \in Seq(NamePieces), name # DefaultSection.name
    PROVE  LET line == <<"[">> \o name \o <<"]">>
           IN  line \in GoodLines /\ \A data \in Datas : LoadLine(data, line) = Append(data, Section(name))
<1> DEFINE line == <<"[">> \o name \o <<"]">>
           words == VectoriseLine(line)
<1>1. /\ line \in Seq(Pieces) /\ line # <<>> /\ words = <<line>>
      /\ line[1] = "[" /\ Last(line) = "]" /\ HeaderName(line) = name
  BY HeaderRead
<1> HIDE DEF line, words
<1>2. words # <<>> /\ words[1] = line
  BY <1>1
<1>3. IsHeader(words) /\ HeaderName(words[1]) = name
  BY <1>1, <1>2 DEF IsHeader
<1>4. HeaderOK(words[1])
  <2>1. IsName(name)
    BY DEF IsName
  <2> QED
    BY <1>1, <1>2, <2>1 DEF HeaderOK
<1>5. line \in GoodLines
  BY <1>1, <1>4 DEF GoodLines, BadLine, words
<1>6. ASSUME NEW data \in Datas PROVE LoadLine(data, line) = Append(data, Section(name))
  BY <1>1, <1>3, LoadLineIs DEF words
<1> QED
  BY <1>5, <1>6 DEF line

\* A section and what a save makes of it: keys in it, and the blank line.
Sect(name, keys) == [name |-> name, keys |-> keys]

\* The names of sections, the default one too.
SectionNames == Seq(Pieces) \cup {DefaultSection.name}

\* What SaveFile makes of keys and of a section, in memory, and the section
\* with the blank line that SaveFile writes after it.
SavedKeys(keys) == [j \in DOMAIN keys |-> Commented(keys[j])]
SavedSection(section) == [section EXCEPT !.keys = [j \in DOMAIN @ |-> Commented(@[j])]]
SpacedSection(section) == [section EXCEPT !.keys = Append(@, Comment(<<>>))]

\* A section has its name and its keys.
LEMMA SectionIs ==
    \A name \in SectionNames, keys \in Seq(IniKeys) :
        Sect(name, keys) \in Sections /\ Sect(name, keys).name = name /\ Sect(name, keys).keys = keys
BY DEF Sect, SectionNames, Sections

\* A section is its name and its keys.
LEMMA SameSection ==
    ASSUME NEW s \in Sections, NEW t \in Sections, s.name = t.name, s.keys = t.keys
    PROVE  s = t
BY DEF Sections

\* A key that is added to the data goes to its last section.
LEMMA KeyAppended ==
    ASSUME NEW base \in Seq(Sections), NEW name \in SectionNames, NEW keys \in Seq(IniKeys), NEW key \in IniKeys
    PROVE  /\ Append(base, Sect(name, keys)) \in Datas
           /\ AddKey(Append(base, Sect(name, keys)), key) = Append(base, Sect(name, Append(keys, key)))
<1> DEFINE n == Len(base)
           s == Sect(name, keys)
           t == Sect(name, Append(keys, key))
           d == Append(base, s)
           e == Append(base, t)
           f == AddKey(d, key)
<1>1. Append(keys, key) \in Seq(IniKeys) /\ n \in Nat
  BY AppendProperties
<1>2. s \in Sections /\ s.name = name /\ s.keys = keys
      /\ t \in Sections /\ t.name = name /\ t.keys = Append(keys, key)
  BY <1>1, SectionIs
<1> HIDE DEF s, t
<1>3. /\ d \in Seq(Sections) /\ d # <<>> /\ Len(d) = n + 1 /\ d[n + 1] = s /\ \A i \in 1 .. n : d[i] = base[i]
      /\ e \in Seq(Sections) /\ Len(e) = n + 1 /\ e[n + 1] = t /\ \A i \in 1 .. n : e[i] = base[i]
  BY <1>2, AppendProperties
<1> HIDE DEF d, e
<1>4. d \in Datas
  BY <1>3 DEF Datas
<1>5. /\ f \in Datas /\ Len(f) = n + 1
      /\ \A i \in 1 .. n + 1 : f[i].name = d[i].name
      /\ \A i \in 1 .. n + 1 : i # n + 1 => f[i].keys = d[i].keys
      /\ f[n + 1].keys = Append(d[n + 1].keys, key)
  BY <1>3, <1>4, KeyAdded
<1> HIDE DEF f, n
<1>6. f \in Seq(Sections) /\ \A i \in 1 .. n + 1 : f[i] \in Sections /\ e[i] \in Sections
  BY <1>3, <1>5 DEF Datas
<1>7. ASSUME NEW i \in 1 .. n + 1 PROVE f[i] = e[i]
  <2>1. f[i] \in Sections /\ e[i] \in Sections
    BY <1>6
  <2>2. CASE i = n + 1
    <3>1. f[i].name = name /\ f[i].keys = Append(keys, key)
      BY <1>2, <1>3, <1>5, <2>2
    <3>2. e[i].name = name /\ e[i].keys = Append(keys, key)
      BY <1>2, <1>3, <2>2
    <3> QED
      BY <2>1, <3>1, <3>2, SameSection
  <2>3. CASE i # n + 1
    <3>1. i \in 1 .. n
      BY <1>1, <2>3
    <3>2. d[i] = e[i]
      BY <1>3, <3>1
    <3>3. f[i].name = e[i].name /\ f[i].keys = e[i].keys
      BY <1>5, <2>3, <3>2
    <3> QED
      BY <2>1, <3>3, SameSection
  <2> QED
    BY <2>2, <2>3
<1>8. f = e
  BY <1>3, <1>5, <1>6, <1>7, SeqEqual
<1> QED
  BY <1>4, <1>8 DEF d, e, f, s, t

\* A line is a run of its own.
LEMMA LineRun ==
    ASSUME NEW data \in Datas, NEW line \in GoodLines
    PROVE  <<line>> \in Seq(GoodLines) /\ Run(Loading, Datas, data, <<line>>, LoadLine(data, line))
<1>1. line \in Seq(Pieces)
  BY DEF GoodLines
<1>2. Loading[<<data, line>>] = LoadLine(data, line)
  BY <1>1 DEF Loading
<1>3. Run(Loading, Datas, data, <<line>>, Loading[<<data, line>>])
  BY <1>1, LoadingType, RunOne
<1> QED
  BY <1>2, <1>3

\* The keys of a section are read back one by one.
LEMMA KeysBack ==
    ASSUME NEW base \in Seq(Sections), NEW name \in SectionNames, NEW keys \in Seq(FileKeys),
           \A j \in DOMAIN keys : Lasting(keys[j].values)
    PROVE  LET saved == SavedKeys(keys)
               lines == FlattenSeq([j \in DOMAIN saved |-> KeyLines(saved[j])])
           IN  /\ saved \in Seq(FileKeys) /\ lines \in Seq(GoodLines)
               /\ Run(Loading, Datas, Append(base, Sect(name, <<>>)), lines, Append(base, Sect(name, saved)))
<1> DEFINE N == Len(keys)
           saved == SavedKeys(keys)
           seqs == [j \in DOMAIN saved |-> KeyLines(saved[j])]
           g == [n \in 0 .. N |-> Append(base, Sect(name, SubSeq(saved, 1, n)))]
<1>1. N \in Nat /\ DOMAIN keys = 1 .. N /\ DOMAIN saved = 1 .. N
      /\ \A j \in 1 .. N : keys[j] \in FileKeys /\ Lasting(keys[j].values) /\ saved[j] = Commented(keys[j])
  BY DEF SavedKeys
<1>2. ASSUME NEW j \in 1 .. N
      PROVE  /\ saved[j] \in FileKeys
             /\ \E line \in Seq(Pieces) : KeyLines(saved[j]) = <<line>> /\ IsLineOf(line, saved[j])
  BY <1>1, KeyWritten
<1>3. saved \in Seq(FileKeys) /\ Len(saved) = N
  <2>1. saved = [j \in 1 .. N |-> Commented(keys[j])]
    BY <1>1 DEF SavedKeys
  <2>2. \A j \in 1 .. N : Commented(keys[j]) \in FileKeys
    BY <1>1, <1>2
  <2> HIDE DEF saved, N
  <2> QED
    BY <1>1, <2>1, <2>2
<1>4. FileKeys \subseteq IniKeys
  BY DEF FileKeys
<1>5. ASSUME NEW j \in 1 .. N PROVE seqs[j] \in Seq(GoodLines) /\ seqs[j] = KeyLines(saved[j])
  <2>1. PICK line \in Seq(Pieces) : KeyLines(saved[j]) = <<line>> /\ IsLineOf(line, saved[j])
    BY <1>2
  <2>2. seqs[j] = KeyLines(saved[j])
    BY <1>1
  <2>3. line \in GoodLines
    BY <2>1 DEF IsLineOf
  <2> HIDE DEF seqs, saved
  <2>4. <<line>> \in Seq(GoodLines)
    BY <2>3
  <2> QED
    BY <2>1, <2>2, <2>4
<1>6. seqs \in Seq(Seq(GoodLines)) /\ Len(seqs) = N
  <2>1. \A j \in 1 .. N : KeyLines(saved[j]) \in Seq(GoodLines)
    BY <1>5
  <2>2. seqs = [j \in 1 .. N |-> KeyLines(saved[j])]
    BY <1>1
  <2> HIDE DEF seqs, saved, N
  <2> QED
    BY <1>1, <2>1, <2>2
<1> HIDE DEF seqs, saved, N
<1>7. ASSUME NEW n \in 0 .. N
      PROVE  /\ SubSeq(saved, 1, n) \in Seq(IniKeys)
             /\ Append(base, Sect(name, SubSeq(saved, 1, n))) \in Datas
  <2>1. saved \in Seq(IniKeys)
    BY <1>3, <1>4
  <2>2. SubSeq(saved, 1, n) \in Seq(IniKeys)
    BY <1>1, <1>3, <2>1
  <2>3. \E key : key \in IniKeys
    <3>1. <<>> \in Seq(Pieces)
      OBVIOUS
    <3>2. Comment(<<>>) \in FileKeys
      BY <3>1, KeyKinds
    <3> QED
      BY <1>4, <3>2
  <2> QED
    BY <2>2, <2>3, KeyAppended
<1>8. g \in [0 .. N -> Datas]
  BY <1>7
<1>9. ASSUME NEW n \in 0 .. N - 1 PROVE Run(Loading, Datas, g[n], seqs[n + 1], g[n + 1])
  <2>1. n \in 0 .. N /\ n + 1 \in 0 .. N /\ n + 1 \in 1 .. N /\ n \in 0 .. Len(saved) - 1
    BY <1>1, <1>3
  <2>2. PICK line \in Seq(Pieces) : KeyLines(saved[n + 1]) = <<line>> /\ IsLineOf(line, saved[n + 1])
    BY <1>2, <2>1
  <2>3. line \in GoodLines /\ g[n] \in Datas
    BY <1>8, <2>1, <2>2 DEF IsLineOf
  <2>4. LoadLine(g[n], line) = AddKey(g[n], saved[n + 1])
    BY <2>2, <2>3 DEF IsLineOf
  <2>5. g[n] = Append(base, Sect(name, SubSeq(saved, 1, n)))
    BY <2>1
  <2>6. g[n + 1] = Append(base, Sect(name, SubSeq(saved, 1, n + 1)))
    BY <2>1
  <2> HIDE DEF g
  <2>7. saved[n + 1] \in IniKeys
    BY <1>2, <1>4, <2>1
  <2>8. SubSeq(saved, 1, n + 1) = Append(SubSeq(saved, 1, n), saved[n + 1])
    BY <1>3, <2>1, SubSeqNext
  <2>9. AddKey(g[n], saved[n + 1]) = g[n + 1]
    BY <1>7, <2>1, <2>5, <2>6, <2>7, <2>8, KeyAppended
  <2>10. Run(Loading, Datas, g[n], <<line>>, LoadLine(g[n], line))
    BY <2>3, LineRun
  <2> QED
    BY <1>5, <2>1, <2>2, <2>4, <2>9, <2>10
<1>10. g[0] = Append(base, Sect(name, <<>>)) /\ g[N] = Append(base, Sect(name, saved))
  <2>1. SubSeq(saved, 1, 0) = <<>>
    BY SubSeqEmpty
  <2>2. SubSeq(saved, 1, N) = saved
    BY <1>3
  <2>3. 0 \in 0 .. N /\ N \in 0 .. N
    BY <1>1
  <2> QED
    BY <2>1, <2>2, <2>3
<1> HIDE DEF g
<1>11. FlattenSeq(seqs) \in Seq(GoodLines) /\ Run(Loading, Datas, g[0], FlattenSeq(seqs), g[N])
  BY <1>6, <1>8, <1>9, RunAll
<1> QED
  BY <1>3, <1>10, <1>11 DEF saved, seqs

\* The name and the keys of a section that was saved.
LEMMA SavedSectionIs ==
    ASSUME NEW section \in FileSections, \A j \in DOMAIN section.keys : Lasting(section.keys[j].values)
    PROVE  /\ SavedSection(section).name = section.name
           /\ SavedSection(section).keys = SavedKeys(section.keys)
           /\ SavedSection(section) \in FileSections
           /\ SpacedSection(SavedSection(section)).name = section.name
           /\ SpacedSection(SavedSection(section)).keys = Append(SavedKeys(section.keys), Comment(<<>>))
           /\ SpacedSection(SavedSection(section)) \in FileSections
<1> DEFINE s == SavedSection(section)
           t == SpacedSection(s)
<1>1. section \in Sections /\ section.keys \in Seq(FileKeys)
  BY DEF FileSections
<1>2. s.name = section.name /\ s.keys = SavedKeys(section.keys)
  BY <1>1 DEF Sections, SavedSection, SavedKeys
<1>3. \A k : k \in Seq(FileKeys) => k \in Seq(IniKeys)
  <2>1. FileKeys \subseteq IniKeys
    BY DEF FileKeys
  <2> QED
    BY <2>1
<1>4. SavedKeys(section.keys) \in Seq(FileKeys)
  <2>1. <<>> \in Seq(Sections) /\ DefaultSection.name \in SectionNames
    BY DEF SectionNames
  <2> QED
    BY <1>1, <2>1, KeysBack
<1>5. s \in FileSections
  <2>1. SavedKeys(section.keys) \in Seq(IniKeys)
    BY <1>3, <1>4
  <2>2. s \in Sections
    BY <1>1, <2>1 DEF Sections, SavedSection, SavedKeys
  <2> QED
    BY <1>2, <1>4, <2>2 DEF FileSections
<1> HIDE DEF s
<1>6. t.name = s.name /\ t.keys = Append(s.keys, Comment(<<>>))
  BY <1>5 DEF FileSections, Sections, SpacedSection
<1>7. Comment(<<>>) \in FileKeys
  <2>1. <<>> \in Seq(Pieces)
    OBVIOUS
  <2> QED
    BY <2>1, KeyKinds
<1>8. Append(s.keys, Comment(<<>>)) \in Seq(FileKeys)
  BY <1>2, <1>4, <1>7, AppendProperties
<1>9. t \in FileSections
  <2>1. Append(s.keys, Comment(<<>>)) \in Seq(IniKeys)
    BY <1>3, <1>8
  <2>2. t \in Sections
    BY <1>5, <2>1 DEF FileSections, Sections, SpacedSection
  <2> QED
    BY <1>6, <1>8, <2>2 DEF FileSections
<1> QED
  BY <1>2, <1>5, <1>6, <1>9 DEF s

\* A section is read back after the data before it, the default one first.
LEMMA SectionBack ==
    ASSUME NEW base \in Seq(Sections), NEW section \in FileSections,
           \A j \in DOMAIN section.keys : Lasting(section.keys[j].values), NEW start,
           \/ section.name = DefaultSection.name /\ base = <<>> /\ start = <<DefaultSection>>
           \/ /\ section.name \in Seq(NamePieces) /\ section.name # DefaultSection.name
              /\ base \in Datas /\ start = base
    PROVE  LET saved == SavedSection(section)
           IN  /\ SectionLines(saved) \in Seq(GoodLines)
               /\ start \in Datas /\ Append(base, SpacedSection(saved)) \in Datas
               /\ Run(Loading, Datas, start, SectionLines(saved), Append(base, SpacedSection(saved)))
<1> DEFINE saved == SavedSection(section)
           keys == SavedKeys(section.keys)
           name == section.name
           head == IF name = DefaultSection.name THEN <<>> ELSE << <<"[">> \o name \o <<"]">> >>
           lines == FlattenSeq([j \in DOMAIN keys |-> KeyLines(keys[j])])
           blank == Comment(<<>>)
           a == Append(base, Sect(name, <<>>))
           b == Append(base, Sect(name, keys))
           c == Append(base, Sect(name, Append(keys, blank)))
<1>1. saved.name = name /\ saved.keys = keys /\ SpacedSection(saved) \in FileSections
      /\ SpacedSection(saved).name = name /\ SpacedSection(saved).keys = Append(keys, blank)
  BY SavedSectionIs
<1>2. SectionLines(saved) = head \o lines \o << <<>> >>
  BY <1>1 DEF SectionLines
<1>3. name \in SectionNames /\ section.keys \in Seq(FileKeys)
  BY DEF FileSections, Sections, SectionNames
<1>4. keys \in Seq(FileKeys) /\ lines \in Seq(GoodLines) /\ Run(Loading, Datas, a, lines, b)
  BY <1>3, KeysBack
<1> HIDE DEF lines, keys
<1>5. blank \in FileKeys /\ FileKeys \subseteq IniKeys /\ <<>> \in Seq(Pieces) /\ <<>> \in Seq(IniKeys)
  <2>1. <<>> \in Seq(Pieces)
    OBVIOUS
  <2>2. blank \in FileKeys
    BY <2>1, KeyKinds
  <2>3. FileKeys \subseteq IniKeys /\ <<>> \in Seq(IniKeys)
    BY DEF FileKeys
  <2> QED
    BY <2>1, <2>2, <2>3
<1>6. keys \in Seq(IniKeys) /\ Append(keys, blank) \in Seq(IniKeys)
  BY <1>4, <1>5, AppendProperties
<1>7. a \in Datas /\ b \in Datas /\ c \in Datas /\ AddKey(b, blank) = c
  BY <1>3, <1>5, <1>6, KeyAppended
<1>8. c = Append(base, SpacedSection(saved))
  <2>1. SpacedSection(saved) \in Sections
    BY <1>1 DEF FileSections
  <2> DEFINE s == SpacedSection(saved)
             t == Sect(name, Append(keys, blank))
  <2>2. s \in Sections /\ t \in Sections /\ s.name = t.name /\ s.keys = t.keys
    BY <1>1, <1>3, <1>6, <2>1, SectionIs
  <2> HIDE DEF s, t
  <2>3. s = t
    BY <2>2, SameSection
  <2> QED
    BY <2>3 DEF s, t
<1>9. start \in Datas /\ head \in Seq(GoodLines) /\ Run(Loading, Datas, start, head, a)
  <2>1. CASE name = DefaultSection.name /\ base = <<>> /\ start = <<DefaultSection>>
    <3>1. head = <<>> /\ start \in Datas
      BY <2>1, LoadingType
    <3>2. a = start
      <4>1. Sect(name, <<>>) = DefaultSection
        BY <2>1 DEF Sect, DefaultSection, Section
      <4>2. Append(<<>>, DefaultSection) = <<DefaultSection>>
        OBVIOUS
      <4> QED
        BY <2>1, <4>1, <4>2
    <3> HIDE DEF head, a
    <3>3. Run(Loading, Datas, start, <<>>, start)
      BY <3>1, RunNone
    <3>4. <<>> \in Seq(GoodLines)
      OBVIOUS
    <3> QED
      BY <3>1, <3>2, <3>3, <3>4
  <2>2. CASE /\ name \in Seq(NamePieces) /\ name # DefaultSection.name
             /\ base \in Datas /\ start = base
    <3> DEFINE line == <<"[">> \o name \o <<"]">>
    <3>1. line \in GoodLines /\ LoadLine(base, line) = Append(base, Section(name))
      BY <2>2, HeaderLine
    <3>2. head = <<line>>
      BY <2>2
    <3>3. Section(name) = Sect(name, <<>>)
      BY DEF Section, Sect
    <3> HIDE DEF head, line
    <3>4. <<line>> \in Seq(GoodLines) /\ Run(Loading, Datas, base, <<line>>, LoadLine(base, line))
      BY <2>2, <3>1, LineRun
    <3> QED
      BY <2>2, <3>1, <3>2, <3>3, <3>4
  <2> QED
    BY <2>1, <2>2
<1> HIDE DEF head
<1>10. << <<>> >> \in Seq(GoodLines) /\ Run(Loading, Datas, b, << <<>> >>, c)
  <2>1. IsLineOf(<<>>, blank)
    BY <1>5, CommentLine
  <2>2. <<>> \in GoodLines /\ LoadLine(b, <<>>) = c
    BY <1>7, <2>1 DEF IsLineOf
  <2> HIDE DEF b, c
  <2> QED
    BY <1>7, <2>2, LineRun
<1>11. \A s \in Seq(GoodLines) : s \in Seq(Seq(Pieces))
  <2>1. GoodLines \subseteq Seq(Pieces)
    BY DEF GoodLines
  <2> QED
    BY <2>1
<1> DEFINE last == << <<>> >>
<1> HIDE DEF a, b, c, saved, last, blank, name
<1>12. head \o lines \in Seq(GoodLines) /\ Run(Loading, Datas, start, head \o lines, b)
  BY <1>4, <1>9, RunBoth, ConcatProperties
<1>13. last \in Seq(GoodLines) /\ Run(Loading, Datas, b, last, c)
  BY <1>10 DEF last
<1>14. (head \o lines) \o last \in Seq(GoodLines) /\ Run(Loading, Datas, start, (head \o lines) \o last, c)
  BY <1>12, <1>13, RunBoth, ConcatProperties
<1> QED
  BY <1>2, <1>7, <1>8, <1>9, <1>14 DEF last, saved

\* All the values in the data last.
Lasts(data) == \A i \in DOMAIN data : \A j \in DOMAIN data[i].keys : Lasting(data[i].keys[j].values)

\* SaveFile section by section.
LEMMA SaveIs ==
    ASSUME NEW data
    PROVE  /\ SaveFile(data).data = [i \in DOMAIN data |-> SavedSection(data[i])]
           /\ SaveFile(data).lines = FlattenSeq([i \in DOMAIN data |-> SectionLines(SavedSection(data[i]))])
           /\ Spaced(SaveFile(data).data) = [i \in DOMAIN data |-> SpacedSection(SavedSection(data[i]))]
<1> DEFINE saved == [i \in DOMAIN data |-> SavedSection(data[i])]
<1>1. SaveFile(data) = [data |-> saved, lines |-> FlattenSeq([i \in DOMAIN saved |-> SectionLines(saved[i])])]
  BY DEF SaveFile, SavedSection
<1>2. [i \in DOMAIN saved |-> SectionLines(saved[i])] = [i \in DOMAIN data |-> SectionLines(SavedSection(data[i]))]
  OBVIOUS
<1>3. Spaced(saved) = [i \in DOMAIN saved |-> SpacedSection(saved[i])]
  BY DEF Spaced, SpacedSection
<1>4. [i \in DOMAIN saved |-> SpacedSection(saved[i])] = [i \in DOMAIN data |-> SpacedSection(SavedSection(data[i]))]
  OBVIOUS
<1> HIDE DEF saved
<1>5. SaveFile(data).data = saved /\ SaveFile(data).lines = FlattenSeq([i \in DOMAIN saved |-> SectionLines(saved[i])])
  BY <1>1
<1> QED
  BY <1>2, <1>3, <1>4, <1>5 DEF saved

\* What SaveFile writes of sound data with values that last is read back: the
\* load succeeds and leaves the data that SaveFile left in memory, but for the
\* blank line after each section.
THEOREM FileBack ==
    ASSUME NEW data, Sound(data), Lasts(data)
    PROVE  /\ LoadFile(SaveFile(data).lines).ok
           /\ LoadFile(SaveFile(data).lines).data = Spaced(SaveFile(data).data)
<1> DEFINE N == Len(data)
           spaced == [i \in DOMAIN data |-> SpacedSection(SavedSection(data[i]))]
           seqs == [i \in DOMAIN data |-> SectionLines(SavedSection(data[i]))]
           g == [n \in 0 .. N |-> IF n = 0 THEN <<DefaultSection>> ELSE SubSeq(spaced, 1, n)]
<1>1. N \in Nat \ {0} /\ DOMAIN data = 1 .. N /\ \A i \in 1 .. N : data[i] \in FileSections
  BY DEF Sound
<1>2. ASSUME NEW i \in 1 .. N PROVE \A j \in DOMAIN data[i].keys : Lasting(data[i].keys[j].values)
  BY <1>1 DEF Lasts
<1>3. ASSUME NEW i \in 1 .. N PROVE spaced[i] \in Sections /\ spaced[i] = SpacedSection(SavedSection(data[i]))
  <2>1. SpacedSection(SavedSection(data[i])) \in FileSections
    BY <1>1, <1>2, SavedSectionIs
  <2> QED
    BY <1>1, <2>1 DEF FileSections
<1>4. spaced \in Seq(Sections) /\ Len(spaced) = N
  <2>1. \A i \in 1 .. N : SpacedSection(SavedSection(data[i])) \in Sections
    BY <1>3
  <2>2. spaced = [i \in 1 .. N |-> SpacedSection(SavedSection(data[i]))]
    BY <1>1
  <2> HIDE DEF spaced, N
  <2> QED
    BY <1>1, <2>1, <2>2
<1> HIDE DEF spaced, N
<1>5. ASSUME NEW n \in 0 .. N PROVE SubSeq(spaced, 1, n) \in Seq(Sections)
                                    /\ Len(SubSeq(spaced, 1, n)) = n /\ (n # 0 => SubSeq(spaced, 1, n) \in Datas)
  <2>1. SubSeq(spaced, 1, n) \in Seq(Sections) /\ Len(SubSeq(spaced, 1, n)) = n
    BY <1>1, <1>4
  <2>2. Len(<<>>) = 0
    OBVIOUS
  <2> QED
    BY <2>1, <2>2 DEF Datas
<1>6. g \in [0 .. N -> Datas]
  BY <1>5, LoadingType
<1>7. ASSUME NEW n \in 0 .. N - 1
      PROVE  seqs[n + 1] \in Seq(GoodLines) /\ Run(Loading, Datas, g[n], seqs[n + 1], g[n + 1])
  <2> DEFINE base == SubSeq(spaced, 1, n)
             section == data[n + 1]
             lines == SectionLines(SavedSection(section))
  <2>1. n \in 0 .. N /\ n + 1 \in 0 .. N /\ n + 1 \in 1 .. N /\ n + 1 # 0 /\ n \in 0 .. Len(spaced) - 1
    BY <1>1, <1>4
  <2>2. base \in Seq(Sections) /\ section \in FileSections
        /\ \A j \in DOMAIN section.keys : Lasting(section.keys[j].values)
    BY <1>1, <1>2, <1>5, <2>1
  <2>3. g[n + 1] = Append(base, SpacedSection(SavedSection(section)))
    <3>1. g[n + 1] = SubSeq(spaced, 1, n + 1)
      BY <2>1
    <3>2. SubSeq(spaced, 1, n + 1) = Append(base, spaced[n + 1])
      BY <1>4, <2>1, SubSeqNext
    <3> HIDE DEF g, base, section
    <3> QED
      BY <1>3, <2>1, <3>1, <3>2 DEF section
  <2>4. \/ section.name = DefaultSection.name /\ base = <<>> /\ g[n] = <<DefaultSection>>
        \/ /\ section.name \in Seq(NamePieces) /\ section.name # DefaultSection.name
           /\ base \in Datas /\ g[n] = base
    <3>1. CASE n = 0
      <4>1. SubSeq(spaced, 1, 0) = <<>>
        BY SubSeqEmpty
      <4>2. g[0] = <<DefaultSection>>
        BY <1>1
      <4> HIDE DEF g
      <4> QED
        BY <3>1, <4>1, <4>2 DEF Sound
    <3>2. CASE n # 0
      <4>1. n + 1 # 1 /\ n + 1 \in DOMAIN data
        BY <1>1, <2>1, <3>2
      <4>2. section.name \in Seq(NamePieces) /\ section.name # DefaultSection.name
        BY <4>1 DEF Sound
      <4>3. g[n] = base
        BY <2>1, <3>2
      <4> QED
        BY <1>5, <2>1, <3>2, <4>2, <4>3
    <3> QED
      BY <3>1, <3>2
  <2>5. seqs[n + 1] = lines
    BY <1>1, <2>1
  <2> HIDE DEF base, section, g, seqs
  <2>6. lines \in Seq(GoodLines)
        /\ Run(Loading, Datas, g[n], lines, Append(base, SpacedSection(SavedSection(section))))
    BY <2>2, <2>4, SectionBack
  <2> QED
    BY <2>3, <2>5, <2>6
<1>8. seqs \in Seq(Seq(GoodLines)) /\ Len(seqs) = N
  <2>1. \A i \in 1 .. N : i - 1 \in 0 .. N - 1 /\ (i - 1) + 1 = i
    BY <1>1
  <2>2. \A i \in 1 .. N : seqs[i] \in Seq(GoodLines)
    BY <1>7, <2>1
  <2>3. seqs = [i \in 1 .. N |-> seqs[i]]
    BY <1>1
  <2> HIDE DEF seqs
  <2> QED
    BY <1>1, <2>2, <2>3
<1>9. g[0] = <<DefaultSection>> /\ g[N] = spaced
  <2>1. SubSeq(spaced, 1, N) = spaced
    BY <1>4
  <2>2. 0 \in 0 .. N /\ N \in 0 .. N /\ N # 0
    BY <1>1
  <2> QED
    BY <2>1, <2>2
<1>10. SaveFile(data).lines = FlattenSeq(seqs) /\ Spaced(SaveFile(data).data) = spaced
  BY SaveIs DEF spaced
<1> HIDE DEF g, seqs
<1>11. FlattenSeq(seqs) \in Seq(GoodLines) /\ Run(Loading, Datas, g[0], FlattenSeq(seqs), g[N])
  BY <1>6, <1>7, <1>8, RunAll
<1> QED
  BY <1>9, <1>10, <1>11, LoadRun

-----------------------------------------------------------------------------
(* What is set is found.                                                   *)

\* A key of the name, which is no comment.
Named(k, key) == ~k.comment /\ SameName(k.name, key)

\* The j-th key of the i-th section is the first of its name there, and the
\* section is the first of its.
FirstAt(data, section, key, i, j) ==
    /\ i \in DOMAIN data /\ SameName(data[i].name, section)
    /\ \A a \in DOMAIN data : a < i => ~SameName(data[a].name, section)
    /\ j \in DOMAIN data[i].keys /\ Named(data[i].keys[j], key)
    /\ \A b \in DOMAIN data[i].keys : b < j => ~Named(data[i].keys[b], key)

\* GetVal answers what the first key of the name in the first section of its
\* name has, when it is there.
LEMMA FirstFound ==
    ASSUME NEW data \in Seq(Sections), NEW section, NEW key, Askable(section, key),
           NEW i, NEW j, FirstAt(data, section, key, i, j)
    PROVE  GetVal(data, section, key) = data[i].keys[j].values
<1> DEFINE found == {p \in KeyPlaces(data, section) : SameName(KeyAt(data, p).name, key)}
           first == <<i, j>>
<1>1. \A a \in DOMAIN data : a \in Nat /\ data[a] \in Sections
  OBVIOUS
<1>2. \A a \in DOMAIN data : a \in Nat /\ data[a].keys \in Seq(IniKeys)
  BY <1>1 DEF Sections
<1>3. \A a \in DOMAIN data : \A b \in DOMAIN data[a].keys : a \in Nat /\ b \in Nat
  BY <1>2
<1>4. i \in Nat /\ j \in Nat
  BY <1>3 DEF FirstAt
<1>5. first \in found
  <2>1. first \in KeyPlaces(data, section)
    BY DEF KeyPlaces, FirstAt, Named
  <2>2. KeyAt(data, first).name = data[i].keys[j].name
    BY DEF KeyAt
  <2> QED
    BY <2>1, <2>2 DEF FirstAt, Named
<1>6. ASSUME NEW p \in found, p # first PROVE Before(first, p) /\ ~Before(p, first)
  <2>1. PICK a \in DOMAIN data : \E b \in DOMAIN data[a].keys :
          p = <<a, b>> /\ SameName(data[a].name, section) /\ ~data[a].keys[b].comment
    BY DEF KeyPlaces
  <2>2. PICK b \in DOMAIN data[a].keys :
          p = <<a, b>> /\ SameName(data[a].name, section) /\ ~data[a].keys[b].comment
    BY <2>1
  <2>3. p[1] = a /\ p[2] = b /\ first[1] = i /\ first[2] = j
    BY <2>2
  <2>4. Named(data[a].keys[b], key)
    <3>1. SameName(data[p[1]].keys[p[2]].name, key)
      BY DEF KeyAt
    <3> QED
      BY <2>2, <2>3, <3>1 DEF Named
  <2>5. ~(a < i) /\ (a = i => ~(b < j))
    BY <2>2, <2>4 DEF FirstAt
  <2>6. a # i \/ b # j
    BY <1>6, <2>2
  <2>7. a \in Nat /\ b \in Nat
    BY <1>3
  <2> QED
    BY <1>4, <2>3, <2>5, <2>6, <2>7 DEF Before
<1> HIDE DEF found, first
<1>7. \A q \in found \ {first} : Before(first, q)
  BY <1>6
<1>8. \A p \in found : (\A q \in found \ {p} : Before(p, q)) => p = first
  BY <1>5, <1>6
<1>9. FirstPlace(found) = first
  BY <1>5, <1>7, <1>8 DEF FirstPlace
<1>10. GetVal(data, section, key) = IF found = {} THEN <<>> ELSE KeyAt(data, FirstPlace(found)).values
  BY DEF GetVal, Askable, found
<1>11. KeyAt(data, first).values = data[i].keys[j].values
  BY DEF KeyAt, first
<1> QED
  BY <1>5, <1>9, <1>10, <1>11

\* The keys of one section change.
LEMMA KeysChanged ==
    ASSUME NEW data \in Datas, Sound(data), NEW i \in DOMAIN data, NEW keys \in Seq(FileKeys)
    PROVE  LET d == [data EXCEPT ![i].keys = keys]
           IN  /\ Sound(d) /\ d \in Datas /\ DOMAIN d = DOMAIN data /\ d[i].keys = keys
               /\ \A a \in DOMAIN d : d[a].name = data[a].name
<1> DEFINE s == [data[i] EXCEPT !.keys = keys]
           d == [data EXCEPT ![i].keys = keys]
           N == Len(data)
<1>1. N \in Nat \ {0} /\ DOMAIN data = 1 .. N /\ data \in Seq(FileSections)
      /\ \A a \in 1 .. N : data[a] \in FileSections
  BY DEF Sound
<1>2. keys \in Seq(IniKeys)
  <2>1. FileKeys \subseteq IniKeys
    BY DEF FileKeys
  <2> QED
    BY <2>1
<1>3. s \in FileSections /\ s.name = data[i].name /\ s.keys = keys
  BY <1>1, <1>2 DEF FileSections, Sections
<1>4. d = [data EXCEPT ![i] = s]
  OBVIOUS
<1> HIDE DEF s, N
<1>5. d \in Seq(FileSections) /\ DOMAIN d = 1 .. N /\ Len(d) = N
      /\ \A a \in 1 .. N : d[a] = IF a = i THEN s ELSE data[a]
  BY <1>1, <1>3, <1>4
<1> HIDE DEF d
<1>6. \A a \in 1 .. N : d[a].name = data[a].name
  BY <1>3, <1>5
<1>7. 1 \in 1 .. N /\ d # <<>>
  BY <1>1, <1>5
<1>8. Sound(d)
  BY <1>1, <1>5, <1>6, <1>7 DEF Sound
<1>9. d \in Datas
  <2>1. FileSections \subseteq Sections
    BY DEF FileSections
  <2> QED
    BY <1>5, <1>7, <2>1 DEF Datas
<1> QED
  BY <1>1, <1>3, <1>5, <1>6, <1>8, <1>9 DEF d

\* The first key of a name, in keys and in data.
FirstKey(keys, key, j) ==
    /\ j \in DOMAIN keys /\ Named(keys[j], key)
    /\ \A b \in DOMAIN keys : b < j => ~Named(keys[b], key)

\* The first section of the name.
FirstSection(data, section, i) ==
    /\ i \in DOMAIN data /\ SameName(data[i].name, section)
    /\ \A a \in DOMAIN data : a < i => ~SameName(data[a].name, section)

\* The data with other keys in the i-th section.
WithKeys(data, i, keys) == [data EXCEPT ![i].keys = keys]

\* What SetVal makes of the data: a new section, a new key or new values.
NewSection(data, section, key, values, set) ==
    /\ \A a \in DOMAIN data : ~SameName(data[a].name, section)
    /\ set = Append(data, Sect(section, <<NewKey(key, values)>>))
AddedKey(data, section, key, values, set, i) ==
    /\ FirstSection(data, section, i)
    /\ \A b \in DOMAIN data[i].keys : ~Named(data[i].keys[b], key)
    /\ set = WithKeys(data, i, Append(data[i].keys, NewKey(key, values)))
NewValues(data, section, key, values, set, i, j) ==
    /\ FirstSection(data, section, i) /\ FirstKey(data[i].keys, key, j)
    /\ set = WithKeys(data, i, [data[i].keys EXCEPT ![j] = [data[i].keys[j] EXCEPT !.values = values]])

\* What SetVal makes of the data is one of the three.
SetTo(data, section, key, values, set) ==
    \/ NewSection(data, section, key, values, set)
    \/ \E i \in DOMAIN data : AddedKey(data, section, key, values, set, i)
    \/ \E i \in DOMAIN data : \E j \in DOMAIN data[i].keys : NewValues(data, section, key, values, set, i, j)

\* It is, for the names that SetVal takes.
LEMMA SetValIs ==
    ASSUME NEW data \in Datas, NEW section, NEW key, NEW values, Askable(section, key)
    PROVE  SetTo(data, section, key, values, SetVal(data, section, key, values))
<1> DEFINE I == {a \in 1 .. Len(data) : SameName(data[a].name, section)}
           i == IF I # {} THEN Min(I) ELSE 0
           keys == data[i].keys
           J == {b \in 1 .. Len(keys) : ~keys[b].comment /\ SameName(keys[b].name, key)}
           j == IF J # {} THEN Min(J) ELSE 0
           set == SetVal(data, section, key, values)
<1>1. ~(section = DefaultSection.name \/ ~IsName(section) \/ ~IsName(key))
  BY DEF Askable
<1> DEFINE rest == IF i = 0 THEN Append(data, Sect(section, <<NewKey(key, values)>>))
                   ELSE IF j = 0 THEN [data EXCEPT ![i].keys = Append(@, NewKey(key, values))]
                   ELSE [data EXCEPT ![i].keys[j].values = values]
<1>2. set = IF section = DefaultSection.name \/ ~IsName(section) \/ ~IsName(key) THEN data ELSE rest
  BY DEF SetVal, SelectInSeq, Sect
<1>3. set = rest
  <2> DEFINE bad == section = DefaultSection.name \/ ~IsName(section) \/ ~IsName(key)
  <2>1. ~bad /\ set = IF bad THEN data ELSE rest
    BY <1>1, <1>2
  <2> HIDE DEF rest, set, bad
  <2> QED
    BY <2>1, Zenon
<1> HIDE DEF set
<1>4. Len(data) \in Nat /\ DOMAIN data = 1 .. Len(data) /\ \A a \in 1 .. Len(data) : data[a].keys \in Seq(IniKeys)
  <2> HIDE DEF I, i, J, j, keys, rest
  <2>1. data \in Seq(Sections)
    BY DEF Datas
  <2>2. Len(data) \in Nat /\ DOMAIN data = 1 .. Len(data) /\ \A a \in 1 .. Len(data) : data[a] \in Sections
    BY <2>1
  <2> QED
    BY <2>2 DEF Sections
<1>5. I \in SUBSET Nat /\ 0 \notin I /\ \A a : a \in I <=> a \in DOMAIN data /\ SameName(data[a].name, section)
  BY <1>4
<1> HIDE DEF I
<1>6. CASE I = {}
  <2>1. set = Append(data, Sect(section, <<NewKey(key, values)>>))
    BY <1>3, <1>6
  <2>2. NewSection(data, section, key, values, set)
    BY <1>5, <1>6, <2>1 DEF NewSection
  <2> QED
    BY <2>2 DEF set, SetTo
<1>7. CASE I # {}
  <2>1. i \in I /\ \A a \in I : i <= a
    BY <1>5, <1>7, Smallest
  <2> HIDE DEF i
  <2>2. i # 0 /\ i \in DOMAIN data /\ keys \in Seq(IniKeys)
    BY <1>4, <1>5, <2>1
  <2>3. FirstSection(data, section, i)
    <3>1. \A a \in DOMAIN data : a < i => ~(i <= a)
      BY <1>4, <2>2
    <3> QED
      BY <1>5, <2>1, <3>1 DEF FirstSection
  <2>4. Len(keys) \in Nat /\ DOMAIN keys = 1 .. Len(keys)
    BY <2>2
  <2>5. J \in SUBSET Nat /\ 0 \notin J /\ \A b : b \in J <=> b \in DOMAIN keys /\ Named(keys[b], key)
    BY <2>4 DEF Named
  <2> HIDE DEF J
  <2>6. CASE J = {}
    <3>1. set = [data EXCEPT ![i].keys = Append(@, NewKey(key, values))]
      BY <1>3, <2>2, <2>6
    <3>2. set = WithKeys(data, i, Append(keys, NewKey(key, values)))
      BY <3>1 DEF WithKeys
    <3>3. AddedKey(data, section, key, values, set, i)
      BY <2>3, <2>5, <2>6, <3>2 DEF AddedKey
    <3> QED
      BY <2>2, <3>3 DEF set, SetTo
  <2>7. CASE J # {}
    <3>1. j \in J /\ \A b \in J : j <= b
      BY <2>5, <2>7, Smallest
    <3> HIDE DEF j
    <3>2. j # 0 /\ j \in DOMAIN keys
      BY <2>5, <3>1
    <3>3. set = [data EXCEPT ![i].keys[j].values = values]
      BY <1>3, <2>2, <3>2
    <3>4. set = WithKeys(data, i, [keys EXCEPT ![j] = [keys[j] EXCEPT !.values = values]])
      BY <3>3 DEF WithKeys
    <3>5. FirstKey(keys, key, j)
      <4>1. \A b \in DOMAIN keys : b < j => ~(j <= b)
        BY <2>4, <3>2
      <4> QED
        BY <2>5, <3>1, <4>1 DEF FirstKey
    <3>6. NewValues(data, section, key, values, set, i, j)
      BY <2>3, <3>4, <3>5 DEF NewValues
    <3> QED
      BY <2>2, <3>2, <3>6 DEF set, SetTo
  <2> QED
    BY <2>6, <2>7
<1> QED
  BY <1>6, <1>7

\* A value that is set is at the first key of the name that a lookup finds.
SetIn(set, section, key, values) ==
    /\ Sound(set)
    /\ \E i, j : FirstAt(set, section, key, i, j) /\ set[i].keys[j].values = values

\* Keys that are put in the first section of a name are found there.
LEMMA KeysSet ==
    ASSUME NEW data \in Datas, Sound(data), NEW section, NEW i, FirstSection(data, section, i),
           NEW keys \in Seq(FileKeys), NEW key, NEW j, FirstKey(keys, key, j)
    PROVE  SetIn(WithKeys(data, i, keys), section, key, keys[j].values)
<1> DEFINE set == WithKeys(data, i, keys)
<1>1. i \in DOMAIN data
  BY DEF FirstSection
<1>2. Sound(set) /\ DOMAIN set = DOMAIN data /\ set[i].keys = keys
      /\ \A a \in DOMAIN set : set[a].name = data[a].name
  BY <1>1, KeysChanged DEF WithKeys
<1> HIDE DEF set
<1>3. FirstAt(set, section, key, i, j)
  BY <1>2 DEF FirstAt, FirstSection, FirstKey
<1> QED
  BY <1>2, <1>3 DEF SetIn, set

\* What is at a first place is in the data.
LEMMA SetAt ==
    ASSUME NEW set, Sound(set), NEW section, NEW key, NEW i, NEW j, FirstAt(set, section, key, i, j)
    PROVE  SetIn(set, section, key, set[i].keys[j].values)
BY DEF SetIn

\* SetVal keeps the data sound, and its value is at the first key of the name.
LEMMA SetFound ==
    ASSUME NEW data \in Datas, Sound(data),
           NEW section \in Seq(NamePieces), NEW key \in Seq(NamePieces), Askable(section, key),
           NEW values \in Seq(Words), values # <<>>
    PROVE  SetIn(SetVal(data, section, key, values), section, key, values)
<1> DEFINE set == SetVal(data, section, key, values)
           new == NewKey(key, values)
           N == Len(data)
<1>1. new \in FileKeys /\ ~new.comment /\ new.name = key /\ new.values = values
  BY KeyKinds DEF Askable, NewKey
<1>2. SameName(key, key) /\ SameName(section, section)
  BY DEF SameName
<1>3. N \in Nat \ {0} /\ DOMAIN data = 1 .. N /\ data \in Seq(FileSections)
      /\ \A a \in 1 .. N : data[a] \in FileSections
  BY DEF Sound
<1>4. Named(new, key)
  BY <1>1, <1>2 DEF Named
<1> HIDE DEF set
<1>5. CASE NewSection(data, section, key, values, set)
  <2> DEFINE s == Sect(section, <<new>>)
  <2>1. set = Append(data, s) /\ \A a \in 1 .. N : ~SameName(data[a].name, section)
    BY <1>3, <1>5 DEF NewSection
  <2>2. s \in FileSections /\ s.name = section /\ s.keys = <<new>>
    <3>1. section \in SectionNames
      <4>1. NamePieces \subseteq Pieces
        BY SignPieces
      <4> QED
        BY <4>1 DEF SectionNames
    <3>2. <<new>> \in Seq(FileKeys) /\ <<new>> \in Seq(IniKeys)
      <4>1. FileKeys \subseteq IniKeys
        BY DEF FileKeys
      <4> QED
        BY <1>1, <4>1
    <3> QED
      BY <3>1, <3>2, SectionIs DEF FileSections
  <2>3. <<new>>[1] = new /\ DOMAIN <<new>> = 1 .. 1
    OBVIOUS
  <2> HIDE DEF s, new
  <2>4. /\ set \in Seq(FileSections) /\ set # <<>> /\ Len(set) = N + 1 /\ set[N + 1] = s
        /\ \A a \in 1 .. N : set[a] = data[a]
    BY <1>3, <2>1, <2>2, AppendProperties
  <2> HIDE DEF N
  <2>5. DOMAIN set = 1 .. N + 1 /\ 1 \in 1 .. N /\ N + 1 \in 1 .. N + 1
        /\ \A a \in 1 .. N + 1 : a = N + 1 \/ (a \in 1 .. N /\ a # N + 1)
    BY <1>3, <2>4
  <2>6. Sound(set)
    <3>1. ASSUME NEW a \in DOMAIN set, a # 1
          PROVE  set[a].name \in Seq(NamePieces) /\ set[a].name # DefaultSection.name
      <4>1. CASE a = N + 1
        BY <2>2, <2>4, <4>1 DEF Askable
      <4>2. CASE a \in 1 .. N
        BY <1>3, <2>4, <3>1, <4>2 DEF Sound
      <4> QED
        BY <2>5, <4>1, <4>2
    <3>2. set[1].name = DefaultSection.name
      BY <2>4, <2>5 DEF Sound
    <3> QED
      BY <2>4, <3>1, <3>2 DEF Sound
  <2>7. \A a \in DOMAIN set : a < N + 1 => ~SameName(set[a].name, section)
    <3>1. \A a \in DOMAIN set : a < N + 1 => a \in 1 .. N
      BY <1>3, <2>5
    <3> QED
      BY <2>1, <2>4, <3>1
  <2>8. FirstAt(set, section, key, N + 1, 1)
    <3>1. \A b \in 1 .. 1 : ~(b < 1)
      OBVIOUS
    <3>2. set[N + 1].keys = <<new>> /\ set[N + 1].name = section
      BY <2>2, <2>4
    <3>3. 1 \in DOMAIN set[N + 1].keys /\ set[N + 1].keys[1] = new
          /\ \A b \in DOMAIN set[N + 1].keys : ~(b < 1)
      BY <2>3, <3>1, <3>2
    <3> QED
      BY <1>2, <1>4, <2>5, <2>7, <3>2, <3>3 DEF FirstAt
  <2>9. set[N + 1].keys[1].values = values
    BY <1>1, <2>2, <2>3, <2>4
  <2>10. SetIn(set, section, key, set[N + 1].keys[1].values)
    BY <2>6, <2>8, SetAt
  <2> DEFINE v == set[N + 1].keys[1].values
  <2>11. v = values /\ SetIn(set, section, key, v)
    BY <2>9, <2>10
  <2> HIDE DEF v
  <2> QED
    BY <2>11 DEF set
<1>6. ASSUME NEW i \in DOMAIN data, AddedKey(data, section, key, values, set, i)
      PROVE  SetIn(set, section, key, values)
  <2> DEFINE keys == data[i].keys
             ks == Append(keys, new)
             M == Len(keys)
  <2>1. keys \in Seq(FileKeys) /\ M \in Nat /\ DOMAIN keys = 1 .. M
    BY <1>3 DEF FileSections
  <2>2. /\ FirstSection(data, section, i) /\ set = WithKeys(data, i, ks)
        /\ \A b \in 1 .. M : ~Named(keys[b], key)
    BY <1>6, <2>1 DEF AddedKey
  <2> HIDE DEF new, keys, M
  <2>3. /\ ks \in Seq(FileKeys) /\ Len(ks) = M + 1 /\ ks[M + 1] = new
        /\ \A b \in 1 .. M : ks[b] = keys[b]
    BY <1>1, <2>1, AppendProperties DEF M
  <2> HIDE DEF ks
  <2>4. DOMAIN ks = 1 .. M + 1 /\ M + 1 \in 1 .. M + 1 /\ \A c \in 1 .. M + 1 : c < M + 1 => c \in 1 .. M
    BY <2>1, <2>3
  <2>5. FirstKey(ks, key, M + 1)
    BY <1>4, <2>2, <2>3, <2>4 DEF FirstKey
  <2>6. SetIn(WithKeys(data, i, ks), section, key, ks[M + 1].values)
    BY <2>2, <2>3, <2>5, KeysSet
  <2> QED
    BY <1>1, <2>2, <2>3, <2>6
<1>7. ASSUME NEW i \in DOMAIN data, NEW j \in DOMAIN data[i].keys, NewValues(data, section, key, values, set, i, j)
      PROVE  SetIn(set, section, key, values)
  <2> DEFINE keys == data[i].keys
             k == [keys[j] EXCEPT !.values = values]
             ks == [keys EXCEPT ![j] = k]
             M == Len(keys)
  <2>1. keys \in Seq(FileKeys) /\ M \in Nat /\ DOMAIN keys = 1 .. M
    BY <1>3 DEF FileSections
  <2>2. FirstSection(data, section, i) /\ set = WithKeys(data, i, ks) /\ FirstKey(keys, key, j)
    BY <1>7 DEF NewValues
  <2> HIDE DEF keys, M
  <2>3. j \in 1 .. M /\ Named(keys[j], key) /\ keys[j] \in FileKeys
        /\ \A b \in 1 .. M : b < j => ~Named(keys[b], key)
    BY <2>1, <2>2 DEF FirstKey
  <2>4. k \in FileKeys /\ k.values = values /\ k.name = keys[j].name /\ ~k.comment
    BY <2>3 DEF FileKeys, IniKeys, Named
  <2> HIDE DEF k
  <2>5. ks \in Seq(FileKeys) /\ DOMAIN ks = 1 .. M /\ \A b \in 1 .. M : ks[b] = IF b = j THEN k ELSE keys[b]
    BY <2>1, <2>3, <2>4
  <2> HIDE DEF ks
  <2>6. FirstKey(ks, key, j)
    <3>1. Named(ks[j], key) /\ j \in DOMAIN ks
      BY <2>3, <2>4, <2>5 DEF Named
    <3>2. ASSUME NEW c \in DOMAIN ks, c < j PROVE ~Named(ks[c], key)
      <4>1. c \in 1 .. M /\ c # j
        BY <2>1, <2>3, <2>5, <3>2
      <4> QED
        BY <2>3, <2>5, <3>2, <4>1
    <3> QED
      BY <3>1, <3>2 DEF FirstKey
  <2>7. SetIn(WithKeys(data, i, ks), section, key, ks[j].values)
    BY <2>2, <2>5, <2>6, KeysSet
  <2> QED
    BY <2>2, <2>3, <2>4, <2>5, <2>7
<1>8. SetTo(data, section, key, values, set)
  BY SetValIs DEF set
<1> QED
  BY <1>5, <1>6, <1>7, <1>8 DEF SetTo, set

\* A save changes no key but the comments.
LEMMA KeyKept ==
    ASSUME NEW k \in FileKeys, NEW key
    PROVE  /\ Named(Commented(k), key) <=> Named(k, key)
           /\ ~k.comment => Commented(k) = k
<1>1. CASE k.comment
  <2>1. Commented(k).comment
    BY <1>1 DEF FileKeys, IniKeys, Commented
  <2> QED
    BY <1>1, <2>1 DEF Named
<1>2. CASE ~k.comment
  BY <1>2 DEF Commented
<1> QED
  BY <1>1, <1>2

\* The first key of a name is the first of it after a save and a load, with the
\* same values.
LEMMA StillFirst ==
    ASSUME NEW set, Sound(set), Lasts(set), NEW section, NEW key, NEW i, NEW j,
           FirstAt(set, section, key, i, j)
    PROVE  LET spaced == Spaced(SaveFile(set).data)
           IN  /\ spaced \in Seq(Sections) /\ FirstAt(spaced, section, key, i, j)
               /\ spaced[i].keys[j].values = set[i].keys[j].values
<1> DEFINE N == Len(set)
           spaced == Spaced(SaveFile(set).data)
           blank == Comment(<<>>)
<1>1. N \in Nat /\ DOMAIN set = 1 .. N /\ \A a \in 1 .. N : set[a] \in FileSections
  BY DEF Sound
<1>2. ASSUME NEW a \in 1 .. N PROVE \A b \in DOMAIN set[a].keys : Lasting(set[a].keys[b].values)
  BY <1>1 DEF Lasts
<1>3. spaced = [a \in 1 .. N |-> SpacedSection(SavedSection(set[a]))]
  BY <1>1, SaveIs
<1> HIDE DEF spaced, N
<1>4. ASSUME NEW a \in 1 .. N
      PROVE  /\ spaced[a] \in Sections /\ spaced[a].name = set[a].name
             /\ spaced[a].keys = Append(SavedKeys(set[a].keys), blank)
  <2>1. /\ SpacedSection(SavedSection(set[a])) \in FileSections
        /\ SpacedSection(SavedSection(set[a])).name = set[a].name
        /\ SpacedSection(SavedSection(set[a])).keys = Append(SavedKeys(set[a].keys), blank)
    BY <1>1, <1>2, SavedSectionIs
  <2>2. spaced[a] = SpacedSection(SavedSection(set[a]))
    BY <1>3
  <2> QED
    BY <2>1, <2>2 DEF FileSections
<1>5. spaced \in Seq(Sections) /\ DOMAIN spaced = 1 .. N
  <2>1. DOMAIN spaced = 1 .. N /\ spaced = [a \in 1 .. N |-> spaced[a]]
    BY <1>3
  <2> QED
    BY <1>1, <1>4, <2>1
<1>6. ASSUME NEW a \in 1 .. N
      PROVE  /\ DOMAIN set[a].keys \subseteq DOMAIN spaced[a].keys
             /\ \A b \in DOMAIN set[a].keys : spaced[a].keys[b] = Commented(set[a].keys[b])
             /\ \A b \in DOMAIN set[a].keys, c \in DOMAIN spaced[a].keys :
                    b \in Nat /\ c \in Nat /\ (c < b => c \in DOMAIN set[a].keys)
  <2> DEFINE keys == set[a].keys
             saved == SavedKeys(keys)
             M == Len(keys)
  <2>1. keys \in Seq(FileKeys) /\ M \in Nat /\ DOMAIN keys = 1 .. M
    BY <1>1 DEF FileSections
  <2>2. DOMAIN saved = 1 .. M /\ \A b \in 1 .. M : saved[b] = Commented(keys[b])
    BY <2>1 DEF SavedKeys
  <2>3. saved \in Seq(FileKeys)
    <3>1. <<>> \in Seq(Sections) /\ DefaultSection.name \in SectionNames
      BY DEF SectionNames
    <3> QED
      BY <1>2, <2>1, <3>1, KeysBack
  <2> HIDE DEF keys, saved, M
  <2>4. Len(saved) = M
    BY <2>1, <2>2, <2>3
  <2>5. blank \in FileKeys
    <3>1. <<>> \in Seq(Pieces)
      OBVIOUS
    <3> QED
      BY <3>1, KeyKinds
  <2>6. DOMAIN Append(saved, blank) = 1 .. M + 1 /\ \A b \in 1 .. M : Append(saved, blank)[b] = saved[b]
    BY <2>1, <2>3, <2>4, <2>5, AppendProperties
  <2>7. 1 .. M \subseteq 1 .. M + 1
        /\ \A b \in 1 .. M, c \in 1 .. M + 1 : b \in Nat /\ c \in Nat /\ (c < b => c \in 1 .. M)
    BY <2>1
  <2>8. spaced[a].keys = Append(saved, blank)
    BY <1>4 DEF saved, keys
  <2> QED
    BY <2>1, <2>2, <2>6, <2>7, <2>8 DEF keys
<1>7. i \in 1 .. N /\ j \in DOMAIN set[i].keys /\ Named(set[i].keys[j], key)
      /\ \A b \in DOMAIN set[i].keys : b < j => ~Named(set[i].keys[b], key)
  BY <1>1 DEF FirstAt
<1>8. \A b \in DOMAIN set[i].keys : set[i].keys[b] \in FileKeys
  BY <1>1, <1>7 DEF FileSections
<1>9. spaced[i].keys[j] = set[i].keys[j]
  BY <1>6, <1>7, <1>8, KeyKept DEF Named
<1>10. \A c \in DOMAIN spaced[i].keys : c < j => ~Named(spaced[i].keys[c], key)
  BY <1>6, <1>7, <1>8, KeyKept
<1>11. FirstAt(spaced, section, key, i, j)
  BY <1>1, <1>4, <1>5, <1>6, <1>7, <1>9, <1>10 DEF FirstAt
<1> QED
  BY <1>5, <1>9, <1>11 DEF spaced

\* A load leaves sound data, cut off or not.
LEMMA LoadedSound == ASSUME NEW lines \in Texts PROVE LoadFile(lines).data \in Datas /\ Sound(LoadFile(lines).data)
<1>1. Sound(LoadFile(lines).data)
  BY LoadSound
<1>2. FileSections \subseteq Sections
  BY DEF FileSections
<1> QED
  BY <1>1, <1>2 DEF Sound, Datas

\* The data with a value set is read back when it is saved, and the value is
\* answered.
ReadBack(data, section, key, values) ==
    LET saved == SaveFile(SetVal(data, section, key, values))
        again == LoadFile(saved.lines)
    IN  again.ok /\ again.data = Spaced(saved.data) /\ GetVal(again.data, section, key) = values

\* It is, if all values last.
LEMMA SetSavedRead ==
    ASSUME NEW data \in Datas, Sound(data),
           NEW section \in Seq(NamePieces), NEW key \in Seq(NamePieces), Askable(section, key),
           NEW values \in Seq(Words), values # <<>>,
           Lasts(SetVal(data, section, key, values))
    PROVE  ReadBack(data, section, key, values)
<1> DEFINE set == SetVal(data, section, key, values)
           saved == SaveFile(set)
           again == LoadFile(saved.lines)
           spaced == Spaced(saved.data)
<1>1. SetIn(set, section, key, values)
  BY SetFound
<1> HIDE DEF set
<1>2. PICK i, j : FirstAt(set, section, key, i, j) /\ set[i].keys[j].values = values
  BY <1>1 DEF SetIn
<1>3. Sound(set) /\ Lasts(set)
  BY <1>1 DEF SetIn, set
<1>4. again.ok /\ again.data = spaced
  BY <1>3, FileBack
<1>5. spaced \in Seq(Sections) /\ FirstAt(spaced, section, key, i, j) /\ spaced[i].keys[j].values = values
  BY <1>2, <1>3, StillFirst
<1> HIDE DEF spaced
<1>6. GetVal(spaced, section, key) = values
  BY <1>5, FirstFound
<1> QED
  BY <1>4, <1>6 DEF ReadBack, set, spaced
=============================================================================
