------------------------------ MODULE IniProofs ------------------------------
(***************************************************************************)
(* Lemmas about the ini files, for every text.  The folds of LoadFile and  *)
(* of VectoriseLine are unrolled into runs, which pass from one line or    *)
(* piece to the next; so the lines of keys in a file and the places of     *)
(* the data it is loaded into correspond, and a lookup answers what the    *)
(* first line for the key says.                                            *)
(***************************************************************************)
EXTENDS ProfileIni, SequenceTheorems, FiniteSetTheorems, WellFoundedInduction, TLAPS

-----------------------------------------------------------------------------
(* Numbers.                                                                *)

\* A set of numbers has a least one: the numbers are well-founded.
LEMMA Least == ASSUME NEW T \in SUBSET Nat, T # {} PROVE \E x \in T : \A y \in T : x <= y
<1> DEFINE R == {ss \in Nat \X Nat : ss[1] < ss[2]}
<1>1. IsWellFoundedOn(R, Nat)
  BY NatLessThanWellFounded DEF OpToRel
<1>2. \A x, y \in Nat : y < x => <<y, x>> \in R
  OBVIOUS
<1> HIDE DEF R
<1>3. PICK x \in T : \A y \in T : ~(<<y, x>> \in R)
  BY <1>1, WFMin
<1>4. \A y \in T : ~(y < x)
  BY <1>2, <1>3
<1> QED
  BY <1>4

\* Whatever holds of 0 and passes from each number to the next holds of all:
\* induction, for a set of numbers.
LEMMA Induction ==
    ASSUME NEW n \in Nat, NEW T \in SUBSET (0 .. n), 0 \in T,
           \A k \in 0 .. n - 1 : k \in T => k + 1 \in T
    PROVE  T = 0 .. n
<1> SUFFICES ASSUME (0 .. n) \ T # {} PROVE FALSE
  OBVIOUS
<1>1. (0 .. n) \ T \in SUBSET Nat
  OBVIOUS
<1>2. PICK x \in (0 .. n) \ T : \A y \in (0 .. n) \ T : x <= y
  BY <1>1, Least
<1>3. x # 0 /\ x - 1 \in 0 .. n - 1 /\ x - 1 \in 0 .. n /\ x = (x - 1) + 1 /\ ~(x <= x - 1)
  BY <1>2
<1>4. x - 1 \in T
  BY <1>2, <1>3
<1>5. (x - 1) + 1 \in T
  BY <1>3, <1>4
<1> QED
  BY <1>2, <1>3, <1>5

\* Min of a set of numbers is its least.
LEMMA Smallest == ASSUME NEW T \in SUBSET Nat, T # {} PROVE Min(T) \in T /\ \A y \in T : Min(T) <= y
BY Least DEF Min

\* Max of a set of numbers up to n is its greatest.
LEMMA Greatest ==
    ASSUME NEW n \in Nat, NEW T \in SUBSET (1 .. n), T # {}
    PROVE  Max(T) \in T /\ \A y \in T : Max(T) >= y
<1> DEFINE U == {n - x : x \in T}
<1>1. U \in SUBSET Nat /\ U # {}
  <2>1. \A x \in T : n - x \in Nat
    OBVIOUS
  <2> QED
    BY <2>1
<1>2. PICK u \in U : \A v \in U : u <= v
  BY <1>1, Least
<1>3. PICK x \in T : u = n - x
  BY <1>2
<1>4. ASSUME NEW y \in T PROVE x >= y
  <2>1. n - x <= n - y
    BY <1>2, <1>3
  <2>2. x \in Nat /\ y \in Nat
    OBVIOUS
  <2> QED
    BY <2>1, <2>2
<1> QED
  BY <1>3, <1>4 DEF Max

\* The first n + 1 numbers are the first n and their greatest.
LEMMA Prefix ==
    ASSUME NEW N \in Nat, NEW n \in Nat, n + 1 \in 1 .. N
    PROVE  /\ 1 .. n + 1 \in SUBSET (1 .. N) /\ 1 .. n + 1 # {}
           /\ Max(1 .. n + 1) = n + 1
           /\ (1 .. n + 1) \ {n + 1} = 1 .. n
<1>1. n + 1 \in Nat /\ n + 1 \in 1 .. n + 1
  OBVIOUS
<1>2. 1 .. n + 1 # {}
  BY <1>1
<1>3. Max(1 .. n + 1) \in 1 .. n + 1 /\ \A y \in 1 .. n + 1 : Max(1 .. n + 1) >= y
  BY <1>1, <1>2, Greatest
<1>4. Max(1 .. n + 1) = n + 1
  BY <1>1, <1>3
<1> QED
  BY <1>2, <1>4

\* The function that MapThenFoldSet chooses: it folds F over the elements of
\* a set of numbers up to n, the greatest last.
Folding(iter, F, base, n) ==
    iter = [s \in SUBSET (1 .. n) |-> IF s = {} THEN base ELSE F[<<iter[s \ {Max(s)}], Max(s)>>]]

\* There is such a function, and its results stay in X when F does.
LEMMA FoldExists ==
    ASSUME NEW X, NEW base \in X, NEW N \in Nat, NEW F \in [X \X (1 .. N) -> X]
    PROVE  \E iter : Folding(iter, F, base, N) /\ iter \in [SUBSET (1 .. N) -> X]
<1> DEFINE Folds(n) == \E iter : Folding(iter, F, base, n) /\ iter \in [SUBSET (1 .. n) -> X]
           T == {n \in 0 .. N : Folds(n)}
<1>1. Folds(0)
  <2> DEFINE iter == [s \in SUBSET (1 .. 0) |-> base]
  <2>1. \A s \in SUBSET (1 .. 0) : s = {}
    OBVIOUS
  <2>2. Folding(iter, F, base, 0) /\ iter \in [SUBSET (1 .. 0) -> X]
    BY <2>1 DEF Folding
  <2> QED
    BY <2>2
<1>2. ASSUME NEW n \in 0 .. N - 1, Folds(n) PROVE Folds(n + 1)
  <2>1. PICK iter : Folding(iter, F, base, n) /\ iter \in [SUBSET (1 .. n) -> X]
    BY <1>2
  <2> DEFINE next == [s \in SUBSET (1 .. n + 1) |->
                         IF n + 1 \in s THEN F[<<iter[s \ {n + 1}], n + 1>>] ELSE iter[s]]
  <2>2. ASSUME NEW s \in SUBSET (1 .. n + 1), n + 1 \in s
        PROVE  next[s] = F[<<next[s \ {Max(s)}], Max(s)>>] /\ next[s] \in X
    <3>1. n + 1 \in Nat /\ s # {}
      BY <2>2
    <3>2. Max(s) \in s /\ \A y \in s : Max(s) >= y
      BY <3>1, Greatest
    <3>3. Max(s) = n + 1
      <4>1. Max(s) \in 1 .. n + 1 /\ Max(s) >= n + 1
        BY <3>2, <2>2
      <4> QED
        BY <4>1, <3>1
    <3>4. s \ {n + 1} \in SUBSET (1 .. n) /\ s \ {n + 1} \in SUBSET (1 .. n + 1)
      OBVIOUS
    <3>5. next[s \ {n + 1}] = iter[s \ {n + 1}] /\ iter[s \ {n + 1}] \in X
      BY <3>4, <2>1
    <3>6. next[s] = F[<<iter[s \ {n + 1}], n + 1>>] /\ n + 1 \in 1 .. N
      BY <2>2
    <3> HIDE DEF next
    <3> QED
      BY <3>3, <3>5, <3>6
  <2>3. ASSUME NEW s \in SUBSET (1 .. n + 1), n + 1 \notin s, s # {}
        PROVE  next[s] = F[<<next[s \ {Max(s)}], Max(s)>>] /\ next[s] \in X
    <3>1. s \in SUBSET (1 .. n) /\ s \ {Max(s)} \in SUBSET (1 .. n)
      <4>1. \A y \in 1 .. n + 1 : y # n + 1 => y \in 1 .. n
        OBVIOUS
      <4>2. s \subseteq 1 .. n
        BY <4>1, <2>3
      <4> QED
        BY <4>2
    <3>2. next[s] = iter[s] /\ next[s \ {Max(s)}] = iter[s \ {Max(s)}]
      BY <3>1
    <3>3. iter[s] = F[<<iter[s \ {Max(s)}], Max(s)>>] /\ iter[s] \in X
      BY <2>1, <2>3, <3>1 DEF Folding
    <3> HIDE DEF next
    <3> QED
      BY <3>2, <3>3
  <2>4. next[{}] = base
    <3>1. iter[{}] = base
      BY <2>1 DEF Folding
    <3> QED
      BY <3>1
  <2>5. next = [s \in SUBSET (1 .. n + 1) |-> next[s]]
    OBVIOUS
  <2> HIDE DEF next
  <2>6. \A s \in SUBSET (1 .. n + 1) :
            next[s] = (IF s = {} THEN base ELSE F[<<next[s \ {Max(s)}], Max(s)>>]) /\ next[s] \in X
    BY <2>2, <2>3, <2>4
  <2>7. Folding(next, F, base, n + 1) /\ next \in [SUBSET (1 .. n + 1) -> X]
    BY <2>5, <2>6 DEF Folding
  <2> QED
    BY <2>7
<1> HIDE DEF Folds
<1>3. T = 0 .. N
  <2>1. T \in SUBSET (0 .. N) /\ 0 \in T
    BY <1>1
  <2>2. ASSUME NEW n \in 0 .. N - 1, n \in T PROVE n + 1 \in T
    <3>1. Folds(n) /\ n + 1 \in 0 .. N
      BY <2>2
    <3> QED
      BY <3>1, <1>2
  <2> HIDE DEF T
  <2> QED
    BY <2>1, <2>2, Induction
<1>4. N \in T
  BY <1>3
<1> QED
  BY <1>4 DEF Folds

\* Run(F, X, a, seq, b): from a the elements of seq lead, one after the other,
\* to b, by way of states in X.
Run(F, X, a, seq, b) ==
    \E g \in [0 .. Len(seq) -> X] :
        /\ g[0] = a /\ g[Len(seq)] = b
        /\ \A n \in 0 .. Len(seq) - 1 : g[n + 1] = F[<<g[n], seq[n + 1]>>]

\* A fold over a sequence is a run.
LEMMA FoldRun ==
    ASSUME NEW X, NEW E, NEW F \in [X \X E -> X], NEW a \in X, NEW seq \in Seq(E), NEW iter,
           iter[1 .. 0] = a,
           \A n \in 0 .. Len(seq) - 1 :
               iter[1 .. n] \in X => iter[1 .. n + 1] = F[<<iter[1 .. n], seq[n + 1]>>]
    PROVE  Run(F, X, a, seq, iter[1 .. Len(seq)])
<1> DEFINE N == Len(seq)
           T == {n \in 0 .. N : iter[1 .. n] \in X}
           g == [n \in 0 .. N |-> iter[1 .. n]]
<1>1. N \in Nat /\ \A n \in 0 .. N - 1 : n + 1 \in 0 .. N /\ n \in 0 .. N /\ seq[n + 1] \in E
  OBVIOUS
<1> HIDE DEF N
<1>2. T = 0 .. N
  <2>1. 0 \in T /\ T \in SUBSET (0 .. N)
    BY <1>1
  <2>2. ASSUME NEW n \in 0 .. N - 1, n \in T PROVE n + 1 \in T
    <3>1. iter[1 .. n] \in X
      BY <2>2
    <3>2. iter[1 .. n + 1] = F[<<iter[1 .. n], seq[n + 1]>>]
      BY <3>1 DEF N
    <3>3. F[<<iter[1 .. n], seq[n + 1]>>] \in X
      BY <1>1, <3>1
    <3> QED
      BY <1>1, <3>2, <3>3
  <2> HIDE DEF T
  <2> QED
    BY <1>1, <2>1, <2>2, Induction
<1>3. g \in [0 .. N -> X] /\ \A n \in 0 .. N - 1 : iter[1 .. n] \in X
  BY <1>1, <1>2
<1>4. g[0] = a /\ g[N] = iter[1 .. N]
  BY <1>1
<1>5. \A n \in 0 .. N - 1 : g[n + 1] = F[<<g[n], seq[n + 1]>>]
  BY <1>1, <1>3 DEF N
<1> HIDE DEF g
<1> QED
  BY <1>3, <1>4, <1>5 DEF Run, N

-----------------------------------------------------------------------------
(* The words of a line.                                                    *)

\* Words are not empty, and these are the states of a scan.
Words == Seq(Pieces) \ {<<>>}
ScanStates == [v : Seq(Words), s : Seq(Pieces), q : BOOLEAN, c : BOOLEAN]
ScanStart == [v |-> <<>>, s |-> <<>>, q |-> FALSE, c |-> FALSE]

\* A word that ends changes the values and the word of the state.
LEMMA WordEnded ==
    ASSUME NEW V, NEW W, NEW st \in [v : V, s : W, q : BOOLEAN, c : BOOLEAN], NEW v \in V, NEW w \in W
    PROVE  [st EXCEPT !.v = v, !.s = w] \in [v : V, s : W, q : BOOLEAN, c : BOOLEAN]
OBVIOUS

\* A piece leads from a state of the scan to another.
LEMMA ScanType == ASSUME NEW st \in ScanStates, NEW p \in Pieces PROVE Scan(st, p) \in ScanStates
<1> DEFINE literal == st.c \/ (st.q /\ p # Quote) \/ p \notin {Quote, Space}
<1>1. CASE literal
  <2>1. Scan(st, p) = [st EXCEPT !.s = Append(st.s, p), !.c = st.c \/ (p = Hash /\ ~st.q)]
    BY <1>1, Zenon DEF Scan
  <2>2. (st.c \/ (p = Hash /\ ~st.q)) \in BOOLEAN
    BY Zenon
  <2>3. Append(st.s, p) \in Seq(Pieces)
    BY AppendProperties DEF ScanStates
  <2> QED
    BY <2>1, <2>2, <2>3 DEF ScanStates
<1>2. CASE ~literal /\ p = Quote
  <2>1. Scan(st, p) = [st EXCEPT !.q = ~st.q]
    <3>1. Quote # Space
      BY DEF Quote, Space
    <3> QED
      BY <1>2, <3>1, Zenon DEF Scan
  <2>2. (~st.q) \in BOOLEAN
    BY Zenon
  <2> QED
    BY <2>1, <2>2 DEF ScanStates
<1>3. CASE ~literal /\ p = Space
  <2>1. Quote # Space
    BY DEF Quote, Space
  <2> DEFINE v == IF st.s = <<>> THEN st.v ELSE Append(st.v, st.s)
  <2>2. Scan(st, p) = [st EXCEPT !.v = v, !.s = <<>>]
    BY <1>3, <2>1, ZenonT(30) DEF Scan
  <2>3. v \in Seq(Words)
    BY AppendProperties DEF ScanStates, Words
  <2>4. <<>> \in Seq(Pieces)
    OBVIOUS
  <2> HIDE DEF v
  <2>5. Scan(st, p) \in ScanStates
    <3>1. st \in [v : Seq(Words), s : Seq(Pieces), q : BOOLEAN, c : BOOLEAN]
      BY DEF ScanStates
    <3>2. [st EXCEPT !.v = v, !.s = <<>>] \in [v : Seq(Words), s : Seq(Pieces), q : BOOLEAN, c : BOOLEAN]
      BY <2>3, <2>4, <3>1, WordEnded, Zenon
    <3> QED
      BY <2>2, <3>2, Zenon DEF ScanStates
  <2> QED
    BY <2>5
<1> QED
  BY <1>1, <1>2, <1>3

\* Scan as a function, for runs.
Scanning == [x \in ScanStates \X Pieces |-> Scan(x[1], x[2])]

\* It is one on the states of the scan, and the first state is among them.
LEMMA ScanningType == Scanning \in [ScanStates \X Pieces -> ScanStates] /\ ScanStart \in ScanStates
BY ScanType DEF Scanning, ScanStart, ScanStates

\* VectoriseLine runs over the pieces of a line.
LEMMA ScanFold ==
    ASSUME NEW line \in Seq(Pieces)
    PROVE  Run(Scanning, ScanStates, ScanStart, line, FoldLeft(Scan, ScanStart, line))
<1> DEFINE N == Len(line)
           F == [x \in ScanStates \X (1 .. N) |-> Scan(x[1], line[x[2]])]
           Is(it) == it = [s \in SUBSET (1 .. N) |-> IF s = {} THEN ScanStart
                                                     ELSE Scan(it[s \ {Max(s)}], line[Max(s)])]
           iter == CHOOSE it : Is(it)
<1>1. N \in Nat /\ DOMAIN line = 1 .. N /\ \A i \in 1 .. N : line[i] \in Pieces
  OBVIOUS
<1>2. F \in [ScanStates \X (1 .. N) -> ScanStates]
  BY <1>1, ScanType
<1>3. FoldLeft(Scan, ScanStart, line) = iter[1 .. N]
  BY <1>1 DEF FoldLeft, MapThenFoldSet
<1> HIDE DEF N
<1>4. \E it : Is(it)
  <2> HIDE DEF F
  <2>1. PICK it : Folding(it, F, ScanStart, N) /\ it \in [SUBSET (1 .. N) -> ScanStates]
    BY <1>1, <1>2, ScanningType, FoldExists
  <2>2. ASSUME NEW s \in SUBSET (1 .. N), s # {}
        PROVE  F[<<it[s \ {Max(s)}], Max(s)>>] = Scan(it[s \ {Max(s)}], line[Max(s)])
    <3>1. Max(s) \in 1 .. N
      BY <1>1, <2>2, Greatest
    <3>2. it[s \ {Max(s)}] \in ScanStates
      BY <2>1
    <3> QED
      BY <3>1, <3>2 DEF F
  <2>3. Is(it)
    BY <2>1, <2>2 DEF Folding
  <2> QED
    BY <2>3
<1>5. Is(iter)
  BY <1>4
<1> HIDE DEF iter
<1>6. iter[1 .. 0] = ScanStart
  BY <1>1, <1>5
<1>7. ASSUME NEW n \in 0 .. N - 1, iter[1 .. n] \in ScanStates
      PROVE  iter[1 .. n + 1] = Scanning[<<iter[1 .. n], line[n + 1]>>]
  <2>1. n \in Nat /\ n + 1 \in 1 .. N
    BY <1>1
  <2>2. 1 .. n + 1 \in SUBSET (1 .. N) /\ 1 .. n + 1 # {} /\ Max(1 .. n + 1) = n + 1
        /\ (1 .. n + 1) \ {n + 1} = 1 .. n
    BY <1>1, <2>1, Prefix
  <2>3. iter[1 .. n + 1] = Scan(iter[1 .. n], line[n + 1])
    BY <1>5, <2>2
  <2> QED
    BY <1>1, <1>7, <2>1, <2>3 DEF Scanning
<1>8. Run(Scanning, ScanStates, ScanStart, line, iter[1 .. N])
  BY <1>6, <1>7, ScanningType, FoldRun DEF N
<1> QED
  BY <1>3, <1>8

\* A line is cut into words, none of them empty.
LEMMA LineWords == ASSUME NEW line \in Seq(Pieces) PROVE VectoriseLine(line) \in Seq(Words)
<1>1. FoldLeft(Scan, ScanStart, line) \in ScanStates
  BY ScanFold DEF Run
<1> DEFINE st == FoldLeft(Scan, ScanStart, line)
<1>2. VectoriseLine(line) = IF st.s = <<>> THEN st.v ELSE Append(st.v, st.s)
  BY DEF VectoriseLine, ScanStart
<1> HIDE DEF st
<1>3. st.v \in Seq(Words) /\ st.s \in Seq(Pieces)
  BY <1>1 DEF ScanStates, st
<1> QED
  BY <1>2, <1>3, AppendProperties DEF Words

-----------------------------------------------------------------------------
(* The data of a file, line by line.                                       *)

\* Keys, sections, the data of a load and the texts of files: the name of the
\* default section is not of pieces.
IniKeys == [name : Seq(Pieces), values : Seq(Words), comment : BOOLEAN]
Sections == [name : Seq(Pieces) \cup {DefaultSection.name}, keys : Seq(IniKeys)]
Datas == Seq(Sections) \ {<<>>}
Texts == Seq(Seq(Pieces))

\* What LoadLine does with each kind of line.
LEMMA LoadLineIs ==
    ASSUME NEW data \in Datas, NEW line \in Seq(Pieces)
    PROVE  LET words == VectoriseLine(line) IN
           /\ IsHeader(words) => LoadLine(data, line) = Append(data, Section(HeaderName(words[1])))
           /\ ~IsHeader(words) /\ IsComment(words) =>
                LoadLine(data, line) = AddKey(data, Comment(IF words = <<>> THEN <<>> ELSE line))
           /\ ~IsHeader(words) /\ ~IsComment(words) /\ IsKeyLine(words) =>
                LoadLine(data, line) = AddKey(data, NewKey(words[1], SubSeq(words, 3, Len(words))))
           /\ ~IsHeader(words) /\ ~IsComment(words) /\ ~IsKeyLine(words) => LoadLine(data, line) = data
<1> DEFINE words == VectoriseLine(line)
<1>1. words \in Seq(Words)
  BY LineWords
<1>2. IsHeader(words) => ~IsComment(words)
  BY DEF IsHeader, IsComment, Hash
<1>3. IsHeader(words) => ~IsKeyLine(words)
  <2> SUFFICES ASSUME IsHeader(words), IsName(words[1]) PROVE FALSE
    BY DEF IsKeyLine
  <2>1. words # <<>> /\ words[1][1] = "["
    BY DEF IsHeader
  <2> HIDE DEF words
  <2>2. words[1] \in Words
    BY <1>1, <2>1
  <2>3. 1 \in DOMAIN words[1]
    BY <2>2 DEF Words
  <2>4. words[1][1] \in NamePieces
    BY <2>3 DEF IsName
  <2> QED
    BY <2>1, <2>4, PiecesAssumption DEF Signs
<1>4. IsComment(words) => ~IsKeyLine(words)
  <2> SUFFICES ASSUME IsComment(words), IsKeyLine(words) PROVE FALSE
    OBVIOUS
  <2> HIDE DEF words
  <2>1. words # <<>>
    BY <1>1 DEF IsKeyLine
  <2>2. words[1][1] = Hash
    BY <2>1 DEF IsComment
  <2>3. words[1] \in Words
    BY <1>1, <2>1
  <2>4. 1 \in DOMAIN words[1]
    BY <2>3 DEF Words
  <2>5. words[1][1] \in NamePieces
    BY <2>4 DEF IsName, IsKeyLine
  <2> QED
    BY <2>2, <2>5, PiecesAssumption DEF Signs
<1>5. LoadLine(data, line) =
        CASE IsHeader(words)  -> Append(data, Section(HeaderName(words[1])))
          [] IsComment(words) -> AddKey(data, Comment(IF words = <<>> THEN <<>> ELSE line))
          [] IsKeyLine(words) -> AddKey(data, NewKey(words[1], SubSeq(words, 3, Len(words))))
          [] OTHER -> data
  BY DEF LoadLine
<1> HIDE DEF words
<1> QED
  BY <1>2, <1>3, <1>4, <1>5, ZenonT(30) DEF words

\* A key that is added is the last of the last section and changes no other.
LEMMA KeyAdded ==
    ASSUME NEW data \in Datas, NEW key \in IniKeys
    PROVE  LET d == AddKey(data, key)
               n == Len(data)
           IN  /\ d \in Datas /\ n \in Nat \ {0} /\ Len(d) = n /\ DOMAIN d = 1 .. n /\ DOMAIN data = 1 .. n
               /\ \A i \in 1 .. n : d[i].name = data[i].name
               /\ \A i \in 1 .. n : i # n => d[i].keys = data[i].keys
               /\ d[n].keys = Append(data[n].keys, key)
<1> DEFINE n == Len(data)
           new == [data[n] EXCEPT !.keys = Append(data[n].keys, key)]
           d == AddKey(data, key)
<1>1. n \in Nat \ {0} /\ DOMAIN data = 1 .. n /\ \A i \in 1 .. n : data[i] \in Sections
  BY DEF Datas
<1>2. d = [data EXCEPT ![n] = new]
  BY DEF AddKey
<1>3. Append(data[n].keys, key) \in Seq(IniKeys)
  BY <1>1, AppendProperties DEF Sections
<1>4. new \in Sections /\ new.keys = Append(data[n].keys, key) /\ new.name = data[n].name
  <2>1. data[n] \in Sections
    BY <1>1
  <2> QED
    BY <1>3, <2>1 DEF Sections
<1> HIDE DEF new, n, d
<1>5. data \in Seq(Sections)
  BY DEF Datas
<1>6. d \in Seq(Sections) /\ Len(d) = n /\ DOMAIN d = 1 .. n
  BY <1>1, <1>2, <1>4, <1>5 DEF n
<1>7. d # <<>>
  BY <1>1, <1>6
<1>8. d[n] = new /\ \A i \in 1 .. n : i # n => d[i] = data[i]
  BY <1>1, <1>2
<1>9. d \in Datas
  BY <1>6, <1>7 DEF Datas
<1> QED
  BY <1>1, <1>4, <1>6, <1>8, <1>9 DEF d, n

\* A line leads from data to data.
LEMMA LoadLineType ==
    ASSUME NEW data \in Datas, NEW line \in Seq(Pieces)
    PROVE  LoadLine(data, line) \in Datas
<1> DEFINE words == VectoriseLine(line)
<1>1. words \in Seq(Words)
  BY LineWords
<1>2. words # <<>> => words[1] \in Seq(Pieces)
  <2> HIDE DEF words
  <2> QED
    BY <1>1 DEF Words
<1>3. CASE IsHeader(words)
  <2>1. LoadLine(data, line) = Append(data, Section(HeaderName(words[1])))
    BY <1>3, LoadLineIs
  <2>2. words # <<>>
    BY <1>3 DEF IsHeader
  <2> HIDE DEF words
  <2>3. HeaderName(words[1]) \in Seq(Pieces)
    BY <1>2, <2>2 DEF HeaderName
  <2>4. Section(HeaderName(words[1])) \in Sections
    <3>1. <<>> \in Seq(IniKeys)
      OBVIOUS
    <3> QED
      BY <2>3, <3>1 DEF Section, Sections
  <2> QED
    BY <2>1, <2>4, AppendProperties DEF Datas
<1>4. CASE ~IsHeader(words) /\ IsComment(words)
  <2> DEFINE key == Comment(IF words = <<>> THEN <<>> ELSE line)
  <2>1. LoadLine(data, line) = AddKey(data, key)
    BY <1>4, LoadLineIs
  <2>2. key \in IniKeys
    <3>1. <<>> \in Seq(Pieces) /\ <<>> \in Seq(Words) /\ TRUE \in BOOLEAN
      OBVIOUS
    <3> QED
      BY <3>1 DEF Comment, IniKeys
  <2> QED
    BY <2>1, <2>2, KeyAdded
<1>5. CASE ~IsHeader(words) /\ ~IsComment(words) /\ IsKeyLine(words)
  <2> DEFINE key == NewKey(words[1], SubSeq(words, 3, Len(words)))
  <2>1. LoadLine(data, line) = AddKey(data, key)
    BY <1>5, LoadLineIs
  <2>2. words # <<>> /\ Len(words) > 2
    BY <1>5 DEF IsComment, IsKeyLine
  <2>3. key \in IniKeys
    <3> HIDE DEF words
    <3>1. SubSeq(words, 3, Len(words)) \in Seq(Words)
      BY <1>1, <2>2
    <3>2. FALSE \in BOOLEAN
      OBVIOUS
    <3> QED
      BY <1>2, <2>2, <3>1, <3>2 DEF NewKey, IniKeys
  <2> QED
    BY <2>1, <2>3, KeyAdded
<1>6. CASE ~IsHeader(words) /\ ~IsComment(words) /\ ~IsKeyLine(words)
  BY <1>6, LoadLineIs
<1> QED
  BY <1>3, <1>4, <1>5, <1>6

\* LoadLine as a function, for runs.
Loading == [x \in Datas \X Seq(Pieces) |-> LoadLine(x[1], x[2])]

\* It is one on the data, and what a load starts from is among them.
LEMMA LoadingType == Loading \in [Datas \X Seq(Pieces) -> Datas] /\ <<DefaultSection>> \in Datas
<1>1. <<>> \in Seq(IniKeys)
  OBVIOUS
<1>2. DefaultSection \in Sections
  BY <1>1 DEF DefaultSection, Section, Sections
<1> QED
  BY <1>2, LoadLineType DEF Loading, Datas

\* The data of a file comes of its lines, one by one.
LEMMA LoadFold ==
    ASSUME NEW lines \in Texts
    PROVE  Run(Loading, Datas, <<DefaultSection>>, lines, FoldLeft(LoadLine, <<DefaultSection>>, lines))
<1> DEFINE N == Len(lines)
           F == [x \in Datas \X (1 .. N) |-> LoadLine(x[1], lines[x[2]])]
           start == <<DefaultSection>>
           Is(it) == it = [s \in SUBSET (1 .. N) |-> IF s = {} THEN start
                                                     ELSE LoadLine(it[s \ {Max(s)}], lines[Max(s)])]
           iter == CHOOSE it : Is(it)
<1>1. N \in Nat /\ DOMAIN lines = 1 .. N /\ \A i \in 1 .. N : lines[i] \in Seq(Pieces)
  BY DEF Texts
<1>2. start \in Datas
  BY LoadingType
<1>3. F \in [Datas \X (1 .. N) -> Datas]
  BY <1>1, LoadLineType
<1>4. FoldLeft(LoadLine, <<DefaultSection>>, lines) = iter[1 .. N]
  BY <1>1 DEF FoldLeft, MapThenFoldSet
<1> HIDE DEF N, start
<1>5. \E it : Is(it)
  <2> HIDE DEF F
  <2>1. PICK it : Folding(it, F, start, N) /\ it \in [SUBSET (1 .. N) -> Datas]
    BY <1>1, <1>2, <1>3, FoldExists
  <2>2. ASSUME NEW s \in SUBSET (1 .. N), s # {}
        PROVE  F[<<it[s \ {Max(s)}], Max(s)>>] = LoadLine(it[s \ {Max(s)}], lines[Max(s)])
    <3>1. Max(s) \in 1 .. N
      BY <1>1, <2>2, Greatest
    <3>2. it[s \ {Max(s)}] \in Datas
      BY <2>1
    <3> QED
      BY <3>1, <3>2 DEF F
  <2>3. Is(it)
    BY <2>1, <2>2 DEF Folding
  <2> QED
    BY <2>3
<1>6. Is(iter)
  BY <1>5
<1> HIDE DEF iter
<1>7. iter[1 .. 0] = start
  BY <1>1, <1>6
<1>8. ASSUME NEW n \in 0 .. N - 1, iter[1 .. n] \in Datas
      PROVE  iter[1 .. n + 1] = Loading[<<iter[1 .. n], lines[n + 1]>>]
  <2>1. n \in Nat /\ n + 1 \in 1 .. N
    BY <1>1
  <2>2. 1 .. n + 1 \in SUBSET (1 .. N) /\ 1 .. n + 1 # {} /\ Max(1 .. n + 1) = n + 1
        /\ (1 .. n + 1) \ {n + 1} = 1 .. n
    BY <1>1, <2>1, Prefix
  <2>3. iter[1 .. n + 1] = LoadLine(iter[1 .. n], lines[n + 1])
    BY <1>6, <2>2
  <2> QED
    BY <1>1, <1>8, <2>1, <2>3 DEF Loading
<1>9. lines \in Seq(Seq(Pieces))
  BY DEF Texts
<1>10. Run(Loading, Datas, start, lines, iter[1 .. N])
  BY <1>2, <1>7, <1>8, <1>9, LoadingType, FoldRun DEF N
<1> QED
  BY <1>4, <1>10 DEF start

-----------------------------------------------------------------------------
(* The places of the data and the lines of the file.                       *)

\* The i-th line is one of a key.
IsKeyAt(lines, i) ==
    LET words == VectoriseLine(lines[i])
    IN  ~IsHeader(words) /\ ~IsComment(words) /\ IsKeyLine(words)

\* What the line says after the equals sign.
ValuesAt(lines, i) ==
    LET words == VectoriseLine(lines[i])
    IN  SubSeq(words, 3, Len(words))

\* The lines of keys among the first n.
KeyLinesUpTo(lines, n) == {i \in 1 .. n : IsKeyAt(lines, i)}

\* The place of a key, which is no comment, in the data.
IsPlace(data, p) ==
    /\ p \in Nat \X Nat
    /\ p[1] \in DOMAIN data
    /\ p[2] \in DOMAIN data[p[1]].keys
    /\ ~data[p[1]].keys[p[2]].comment

\* The data that n lines make: pl is the place of each line of a key, in the
\* order of the lines, with what the line says.
Corresponds(lines, n, data, pl) ==
    /\ pl \in [KeyLinesUpTo(lines, n) -> Nat \X Nat]
    /\ \A p : IsPlace(data, p) <=> \E i \in KeyLinesUpTo(lines, n) : pl[i] = p
    /\ \A i, j \in KeyLinesUpTo(lines, n) : i < j => Before(pl[i], pl[j])
    /\ \A i \in KeyLinesUpTo(lines, n) :
          /\ data[pl[i][1]].name = SectionAt(lines, i)
          /\ KeyAt(data, pl[i]).name = NameAt(lines, i)
          /\ KeyAt(data, pl[i]).values = ValuesAt(lines, i)

\* The section of the lines after a header, and after any other line.
LEMMA SectionNext ==
    ASSUME NEW lines, NEW k \in Nat \ {0}
    PROVE  SectionAt(lines, k + 1) = IF IsHeader(VectoriseLine(lines[k]))
                                     THEN HeaderName(VectoriseLine(lines[k])[1])
                                     ELSE SectionAt(lines, k)
<1> DEFINE H(n) == {j \in 1 .. n - 1 : IsHeader(VectoriseLine(lines[j]))}
<1>1. (k + 1) - 1 = k /\ k \in 1 .. k
  OBVIOUS
<1>2. CASE ~IsHeader(VectoriseLine(lines[k]))
  <2>1. H(k + 1) = H(k)
    <3>1. \A j \in 1 .. k : j = k \/ j \in 1 .. k - 1
      OBVIOUS
    <3>2. \A j \in 1 .. k - 1 : j \in 1 .. k
      OBVIOUS
    <3> QED
      BY <1>1, <1>2, <3>1, <3>2
  <2> QED
    BY <1>2, <2>1 DEF SectionAt
<1>3. CASE IsHeader(VectoriseLine(lines[k]))
  <2>1. k \in H(k + 1) /\ H(k + 1) \in SUBSET (1 .. k)
    BY <1>1, <1>3
  <2>2. SectionAt(lines, k + 1) = HeaderName(VectoriseLine(lines[Max(H(k + 1))])[1])
    BY <2>1 DEF SectionAt
  <2> HIDE DEF H
  <2>3. Max(H(k + 1)) \in 1 .. k /\ Max(H(k + 1)) >= k
    BY <2>1, Greatest
  <2>4. Max(H(k + 1)) = k
    BY <2>3
  <2> QED
    BY <1>3, <2>2, <2>4
<1> QED
  BY <1>2, <1>3

\* One more line is one more line of a key, or none.
LEMMA KeyLinesNext ==
    ASSUME NEW lines, NEW n \in Nat
    PROVE  KeyLinesUpTo(lines, n + 1) = KeyLinesUpTo(lines, n) \cup {i \in {n + 1} : IsKeyAt(lines, i)}
<1>1. \A i : i \in 1 .. n + 1 <=> i \in 1 .. n \/ i = n + 1
  OBVIOUS
<1> QED
  BY <1>1 DEF KeyLinesUpTo

\* Each line of a file keeps the correspondence.
LEMMA LineCorresponds ==
    ASSUME NEW lines \in Texts, NEW n \in 0 .. Len(lines) - 1, NEW data \in Datas, NEW pl,
           Corresponds(lines, n, data, pl), data[Len(data)].name = SectionAt(lines, n + 1)
    PROVE  LET d == LoadLine(data, lines[n + 1])
           IN  /\ \E q : Corresponds(lines, n + 1, d, q)
               /\ d[Len(d)].name = SectionAt(lines, n + 2)
<1> DEFINE line == lines[n + 1]
           words == VectoriseLine(line)
           m == Len(data)
           d == LoadLine(data, line)
           K == KeyLinesUpTo(lines, n)
<1>1. n \in Nat /\ n + 1 \in Nat \ {0} /\ (n + 1) + 1 = n + 2 /\ line \in Seq(Pieces)
  BY DEF Texts
<1>2. words \in Seq(Words)
  BY <1>1, LineWords
<1>3. m \in Nat \ {0} /\ DOMAIN data = 1 .. m /\ \A a \in 1 .. m : data[a] \in Sections
  BY DEF Datas
<1>4. SectionAt(lines, n + 2) = IF IsHeader(words) THEN HeaderName(words[1]) ELSE SectionAt(lines, n + 1)
  BY <1>1, SectionNext
<1>5. KeyLinesUpTo(lines, n + 1) = K \cup {i \in {n + 1} : IsKeyAt(lines, i)}
  BY <1>1, KeyLinesNext
<1>6. IsKeyAt(lines, n + 1) <=> ~IsHeader(words) /\ ~IsComment(words) /\ IsKeyLine(words)
  BY DEF IsKeyAt
<1>7. \A i \in K : pl[i] \in Nat \X Nat /\ pl[i][1] \in 1 .. m /\ pl[i][2] \in DOMAIN data[pl[i][1]].keys
                   /\ ~data[pl[i][1]].keys[pl[i][2]].comment
  BY <1>3 DEF Corresponds, IsPlace
<1>8. data[m].name = SectionAt(lines, n + 1)
  OBVIOUS
<1>9. CASE IsHeader(words)
  <2> DEFINE s == Section(HeaderName(words[1]))
  <2>1. d = Append(data, s)
    BY <1>1, <1>9, LoadLineIs
  <2> HIDE DEF d
  <2>2. s.keys = <<>> /\ s.name = HeaderName(words[1])
    BY DEF Section
  <2> HIDE DEF s
  <2>3. data \in Seq(Sections)
    BY DEF Datas
  <2>4. Len(d) = m + 1 /\ DOMAIN d = 1 .. m + 1 /\ d[m + 1] = s /\ \A a \in 1 .. m : d[a] = data[a]
    BY <2>1, <2>3
  <2> HIDE DEF m, words, line
  <2>5. ASSUME NEW p PROVE IsPlace(d, p) <=> IsPlace(data, p)
    <3>1. \A a : a \in 1 .. m + 1 <=> a \in 1 .. m \/ a = m + 1
      BY <1>3
    <3>2. DOMAIN d[m + 1].keys = {}
      BY <2>2, <2>4
    <3> QED
      BY <1>3, <2>4, <3>1, <3>2 DEF IsPlace
  <2>6. KeyLinesUpTo(lines, n + 1) = K
    BY <1>5, <1>6, <1>9
  <2>7. \A i \in K : d[pl[i][1]] = data[pl[i][1]]
    BY <1>7, <2>4
  <2>8. Corresponds(lines, n + 1, d, pl)
    BY <2>5, <2>6, <2>7 DEF Corresponds, KeyAt
  <2>9. d[Len(d)].name = SectionAt(lines, n + 2)
    BY <1>4, <1>9, <2>2, <2>4
  <2> QED
    BY <2>8, <2>9 DEF d, line
<1>10. CASE ~IsHeader(words) /\ IsComment(words)
  <2> DEFINE key == Comment(IF words = <<>> THEN <<>> ELSE line)
  <2>1. d = AddKey(data, key)
    BY <1>1, <1>10, LoadLineIs
  <2>2. key \in IniKeys /\ key.comment
    <3>1. <<>> \in Seq(Pieces) /\ <<>> \in Seq(Words) /\ TRUE \in BOOLEAN
      OBVIOUS
    <3> QED
      BY <1>1, <3>1 DEF Comment, IniKeys
  <2> HIDE DEF key, d
  <2>3. /\ Len(d) = m /\ DOMAIN d = 1 .. m
        /\ \A i \in 1 .. m : d[i].name = data[i].name
        /\ \A i \in 1 .. m : i # m => d[i].keys = data[i].keys
        /\ d[m].keys = Append(data[m].keys, key)
    BY <2>1, <2>2, KeyAdded
  <2>4. data[m].keys \in Seq(IniKeys)
    BY <1>3 DEF Sections
  <2> HIDE DEF m, words, line
  <2>5. /\ DOMAIN data[m].keys = 1 .. Len(data[m].keys)
        /\ DOMAIN d[m].keys = 1 .. Len(data[m].keys) + 1
        /\ d[m].keys[Len(data[m].keys) + 1] = key
        /\ Len(data[m].keys) \in Nat
        /\ \A b \in 1 .. Len(data[m].keys) : d[m].keys[b] = data[m].keys[b]
    BY <2>3, <2>4
  <2>6. \A b : b \in 1 .. Len(data[m].keys) + 1 <=> b \in 1 .. Len(data[m].keys) \/ b = Len(data[m].keys) + 1
    BY <2>5
  <2>7. ASSUME NEW p PROVE IsPlace(d, p) <=> IsPlace(data, p)
    <3>1. CASE p[1] = m
      <4>1. d[p[1]].keys = d[m].keys /\ data[p[1]].keys = data[m].keys /\ m \in DOMAIN d /\ m \in DOMAIN data
        BY <1>3, <2>3, <3>1
      <4>2. /\ IsPlace(d, p) <=> p \in Nat \X Nat /\ p[2] \in DOMAIN d[m].keys /\ ~d[m].keys[p[2]].comment
            /\ IsPlace(data, p) <=> /\ p \in Nat \X Nat /\ p[2] \in DOMAIN data[m].keys
                                   /\ ~data[m].keys[p[2]].comment
        BY <3>1, <4>1, Zenon DEF IsPlace
      <4>3. CASE p[2] \in 1 .. Len(data[m].keys)
        BY <2>5, <2>6, <4>2, <4>3
      <4>4. CASE p[2] = Len(data[m].keys) + 1
        <5>1. p[2] \notin 1 .. Len(data[m].keys)
          BY <2>5, <4>4
        <5> QED
          BY <2>2, <2>5, <4>2, <4>4, <5>1
      <4> QED
        BY <2>5, <2>6, <4>2, <4>3, <4>4
    <3>2. CASE p[1] # m
      BY <1>3, <2>3, <3>2 DEF IsPlace
    <3> QED
      BY <3>1, <3>2
  <2>8. KeyLinesUpTo(lines, n + 1) = K
    BY <1>5, <1>6, <1>10
  <2>9. \A i \in K : /\ d[pl[i][1]].name = data[pl[i][1]].name
                     /\ d[pl[i][1]].keys[pl[i][2]] = data[pl[i][1]].keys[pl[i][2]]
    <3> SUFFICES ASSUME NEW i \in K
                 PROVE /\ d[pl[i][1]].name = data[pl[i][1]].name
                       /\ d[pl[i][1]].keys[pl[i][2]] = data[pl[i][1]].keys[pl[i][2]]
      OBVIOUS
    <3>1. CASE pl[i][1] = m
      <4>1. pl[i][2] \in DOMAIN data[pl[i][1]].keys
        BY <1>7
      <4>2. pl[i][2] \in 1 .. Len(data[m].keys)
        BY <2>5, <3>1, <4>1
      <4>3. d[m].keys[pl[i][2]] = data[m].keys[pl[i][2]] /\ d[m].name = data[m].name
        BY <1>3, <2>3, <2>5, <4>2
      <4> QED
        BY <3>1, <4>3
    <3>2. CASE pl[i][1] # m
      BY <1>7, <2>3, <3>2
    <3> QED
      BY <3>1, <3>2
  <2>10. Corresponds(lines, n + 1, d, pl)
    BY <2>7, <2>8, <2>9 DEF Corresponds, KeyAt
  <2>11. d[Len(d)].name = SectionAt(lines, n + 2)
    BY <1>3, <1>4, <1>10, <1>8, <2>3
  <2> QED
    BY <2>10, <2>11 DEF d, line
<1>11. CASE ~IsHeader(words) /\ ~IsComment(words) /\ IsKeyLine(words)
  <2> DEFINE key == NewKey(words[1], SubSeq(words, 3, Len(words)))
  <2>1. d = AddKey(data, key)
    BY <1>1, <1>11, LoadLineIs
  <2>2. words # <<>> /\ Len(words) > 2
    BY <1>11 DEF IsComment, IsKeyLine
  <2>3. key \in IniKeys
    <3> HIDE DEF words
    <3>1. SubSeq(words, 3, Len(words)) \in Seq(Words) /\ words[1] \in Words
      BY <1>2, <2>2
    <3>2. words[1] \in Seq(Pieces) /\ FALSE \in BOOLEAN
      BY <3>1 DEF Words
    <3> QED
      BY <3>1, <3>2 DEF NewKey, IniKeys
  <2>4. ~key.comment /\ key.name = NameAt(lines, n + 1) /\ key.values = ValuesAt(lines, n + 1)
    BY DEF NewKey, NameAt, ValuesAt
  <2> HIDE DEF key, d
  <2>5. /\ Len(d) = m /\ DOMAIN d = 1 .. m
        /\ \A i \in 1 .. m : d[i].name = data[i].name
        /\ \A i \in 1 .. m : i # m => d[i].keys = data[i].keys
        /\ d[m].keys = Append(data[m].keys, key)
    BY <2>1, <2>3, KeyAdded
  <2>6. data[m].keys \in Seq(IniKeys)
    BY <1>3 DEF Sections
  <2> DEFINE l == Len(data[m].keys)
             new == <<m, l + 1>>
             q == [i \in KeyLinesUpTo(lines, n + 1) |-> IF i = n + 1 THEN new ELSE pl[i]]
  <2> HIDE DEF m, words, line
  <2>7. /\ l \in Nat /\ DOMAIN data[m].keys = 1 .. l /\ DOMAIN d[m].keys = 1 .. l + 1
        /\ d[m].keys[l + 1] = key
        /\ \A b \in 1 .. l : d[m].keys[b] = data[m].keys[b]
    BY <2>5, <2>6
  <2> HIDE DEF l
  <2>8. \A b : b \in 1 .. l + 1 <=> b \in 1 .. l \/ b = l + 1
    BY <2>7
  <2>9. ASSUME NEW p PROVE IsPlace(d, p) <=> IsPlace(data, p) \/ p = new
    <3>1. CASE p \in Nat \X Nat /\ p[1] = m
      <4>1. p = <<m, p[2]>>
        BY <3>1
      <4>2. p = new <=> p[2] = l + 1
        BY <4>1
      <4>3. d[p[1]].keys = d[m].keys /\ data[p[1]].keys = data[m].keys /\ m \in DOMAIN d /\ m \in DOMAIN data
        BY <1>3, <2>5, <3>1
      <4>4. /\ IsPlace(d, p) <=> p[2] \in DOMAIN d[m].keys /\ ~d[m].keys[p[2]].comment
            /\ IsPlace(data, p) <=> p[2] \in DOMAIN data[m].keys /\ ~data[m].keys[p[2]].comment
        BY <3>1, <4>3, Zenon DEF IsPlace
      <4>5. CASE p[2] \in 1 .. l
        <5>1. p[2] # l + 1
          BY <2>7, <4>5
        <5> HIDE DEF new
        <5> QED
          BY <2>7, <2>8, <4>2, <4>4, <4>5, <5>1
      <4>6. CASE p[2] = l + 1
        <5> HIDE DEF new
        <5> QED
          BY <2>4, <2>7, <2>8, <4>2, <4>4, <4>6
      <4> HIDE DEF new
      <4> QED
        BY <2>7, <2>8, <4>2, <4>4, <4>5, <4>6
    <3>2. CASE p \in Nat \X Nat /\ p[1] # m
      BY <1>3, <2>5, <3>2 DEF IsPlace
    <3>3. CASE p \notin Nat \X Nat
      <4>1. new \in Nat \X Nat
        BY <1>3, <2>7
      <4> QED
        BY <3>3, <4>1 DEF IsPlace
    <3> QED
      BY <3>1, <3>2, <3>3
  <2>10. KeyLinesUpTo(lines, n + 1) = K \cup {n + 1}
    BY <1>5, <1>6, <1>11
  <2>11. \A i \in K : i \in 1 .. n /\ i # n + 1 /\ i < n + 1 /\ i \in Nat
    BY <1>1 DEF KeyLinesUpTo
  <2>12. \A i \in K : /\ d[pl[i][1]].name = data[pl[i][1]].name
                      /\ d[pl[i][1]].keys[pl[i][2]] = data[pl[i][1]].keys[pl[i][2]]
    <3> SUFFICES ASSUME NEW i \in K
                 PROVE /\ d[pl[i][1]].name = data[pl[i][1]].name
                       /\ d[pl[i][1]].keys[pl[i][2]] = data[pl[i][1]].keys[pl[i][2]]
      OBVIOUS
    <3>1. CASE pl[i][1] = m
      <4>1. pl[i][2] \in DOMAIN data[pl[i][1]].keys
        BY <1>7
      <4>2. pl[i][2] \in 1 .. l
        BY <2>7, <3>1, <4>1
      <4>3. d[m].keys[pl[i][2]] = data[m].keys[pl[i][2]] /\ d[m].name = data[m].name
        BY <1>3, <2>5, <2>7, <4>2
      <4> QED
        BY <3>1, <4>3
    <3>2. CASE pl[i][1] # m
      BY <1>7, <2>5, <3>2
    <3> QED
      BY <3>1, <3>2
  <2>13. q[n + 1] = new /\ new \in Nat \X Nat /\ \A i \in K : q[i] = pl[i]
    BY <1>3, <2>7, <2>10, <2>11
  <2>14. DOMAIN q = K \cup {n + 1} /\ q = [i \in K \cup {n + 1} |-> q[i]]
    BY <2>10
  <2> HIDE DEF q
  <2>15. Corresponds(lines, n + 1, d, q)
    <3>1. q \in [KeyLinesUpTo(lines, n + 1) -> Nat \X Nat]
      BY <1>7, <2>10, <2>13, <2>14
    <3>2. ASSUME NEW p PROVE IsPlace(d, p) <=> \E i \in KeyLinesUpTo(lines, n + 1) : q[i] = p
      <4>1. IsPlace(data, p) <=> \E i \in K : pl[i] = p
        BY DEF Corresponds
      <4> HIDE DEF new, K
      <4> QED
        BY <2>9, <2>10, <2>13, <4>1
    <3>3. ASSUME NEW i \in KeyLinesUpTo(lines, n + 1), NEW j \in KeyLinesUpTo(lines, n + 1), i < j
          PROVE  Before(q[i], q[j])
      <4>1. i \in K
        BY <1>1, <2>10, <2>11, <3>3
      <4>2. CASE j \in K
        BY <2>13, <3>3, <4>1, <4>2 DEF Corresponds
      <4>3. CASE j = n + 1
        <5>1. pl[i][1] \in 1 .. m /\ (pl[i][1] = m => pl[i][2] \in 1 .. l)
          BY <1>7, <2>7, <4>1
        <5>2. new[1] = m /\ new[2] = l + 1
          OBVIOUS
        <5> QED
          BY <1>3, <2>7, <2>13, <4>1, <4>3, <5>1, <5>2 DEF Before
      <4> QED
        BY <2>10, <4>2, <4>3
    <3>4. ASSUME NEW i \in KeyLinesUpTo(lines, n + 1)
          PROVE  /\ d[q[i][1]].name = SectionAt(lines, i)
                 /\ KeyAt(d, q[i]).name = NameAt(lines, i)
                 /\ KeyAt(d, q[i]).values = ValuesAt(lines, i)
      <4>1. CASE i \in K
        BY <2>12, <2>13, <4>1 DEF Corresponds, KeyAt
      <4>2. CASE i = n + 1
        <5>1. d[m].name = SectionAt(lines, n + 1)
          BY <1>3, <1>8, <2>5
        <5>2. q[i][1] = m /\ q[i][2] = l + 1
          BY <2>13, <4>2
        <5> QED
          BY <2>4, <2>7, <4>2, <5>1, <5>2 DEF KeyAt
      <4> QED
        BY <2>10, <4>1, <4>2
    <3> QED
      BY <3>1, <3>2, <3>3, <3>4 DEF Corresponds
  <2>16. d[Len(d)].name = SectionAt(lines, n + 2)
    BY <1>3, <1>4, <1>11, <1>8, <2>5
  <2> QED
    BY <2>15, <2>16 DEF d, line
<1>12. CASE ~IsHeader(words) /\ ~IsComment(words) /\ ~IsKeyLine(words)
  <2>1. d = data
    BY <1>1, <1>12, LoadLineIs
  <2>2. KeyLinesUpTo(lines, n + 1) = K
    BY <1>5, <1>6, <1>12
  <2> HIDE DEF d
  <2>3. Corresponds(lines, n + 1, d, pl)
    BY <2>1, <2>2 DEF Corresponds
  <2>4. d[Len(d)].name = SectionAt(lines, n + 2)
    BY <1>4, <1>12, <2>1
  <2> QED
    BY <2>3, <2>4 DEF d
<1> QED
  BY <1>9, <1>10, <1>11, <1>12

\* A load that succeeds leaves data.
LEMMA LoadedData ==
    ASSUME NEW lines \in Texts, LoadFile(lines).ok
    PROVE  LoadFile(lines).data \in Datas
<1>1. LoadFile(lines).data = FoldLeft(LoadLine, <<DefaultSection>>, lines)
  BY DEF LoadFile
<1>2. Len(lines) \in Nat /\ Len(lines) \in 0 .. Len(lines)
  BY DEF Texts
<1> QED
  BY <1>1, <1>2, LoadFold DEF Run

\* The lines of a file and the data it is loaded into correspond.
LEMMA FileCorresponds ==
    ASSUME NEW lines \in Texts, LoadFile(lines).ok
    PROVE  \E pl : Corresponds(lines, Len(lines), LoadFile(lines).data, pl)
<1> DEFINE N == Len(lines)
<1>1. N \in Nat
  BY DEF Texts
<1>2. LoadFile(lines).data = FoldLeft(LoadLine, <<DefaultSection>>, lines)
  BY DEF LoadFile
<1>3. PICK g \in [0 .. N -> Datas] :
        /\ g[0] = <<DefaultSection>> /\ g[N] = FoldLeft(LoadLine, <<DefaultSection>>, lines)
        /\ \A n \in 0 .. N - 1 : g[n + 1] = Loading[<<g[n], lines[n + 1]>>]
  BY LoadFold DEF Run
<1> DEFINE Good(n) == (\E pl : Corresponds(lines, n, g[n], pl)) /\ g[n][Len(g[n])].name = SectionAt(lines, n + 1)
           T == {n \in 0 .. N : Good(n)}
<1>4. Good(0)
  <2>1. g[0] = <<DefaultSection>>
    BY <1>3
  <2>2. KeyLinesUpTo(lines, 0) = {}
    BY DEF KeyLinesUpTo
  <2>3. DefaultSection.keys = <<>>
    BY DEF DefaultSection, Section
  <2>4. \A p : ~IsPlace(g[0], p)
    BY <2>1, <2>3 DEF IsPlace
  <2>5. Corresponds(lines, 0, g[0], [i \in {} |-> <<0, 0>>])
    BY <2>2, <2>4 DEF Corresponds
  <2>6. SectionAt(lines, 0 + 1) = DefaultSection.name
    BY DEF SectionAt
  <2>7. g[0][Len(g[0])] = DefaultSection
    BY <2>1
  <2> QED
    BY <2>5, <2>6, <2>7
<1>5. ASSUME NEW n \in 0 .. N - 1, Good(n) PROVE Good(n + 1)
  <2>1. n \in 0 .. N /\ (n + 1) + 1 = n + 2
    BY <1>1
  <2>2. n + 1 \in DOMAIN lines
    BY <1>1 DEF Texts
  <2>3. \A i \in DOMAIN lines : lines[i] \in Seq(Pieces)
    BY DEF Texts
  <2>4. g[n] \in Datas /\ lines[n + 1] \in Seq(Pieces)
    BY <2>1, <2>2, <2>3
  <2>5. g[n] \in Datas /\ g[n + 1] = LoadLine(g[n], lines[n + 1])
    BY <1>3, <2>4 DEF Loading
  <2>6. PICK pl : Corresponds(lines, n, g[n], pl)
    BY <1>5
  <2>7. g[n][Len(g[n])].name = SectionAt(lines, n + 1)
    BY <1>5
  <2> QED
    BY <2>1, <2>5, <2>6, <2>7, LineCorresponds
<1> HIDE DEF Good
<1>6. T = 0 .. N
  <2>1. 0 \in T /\ T \in SUBSET (0 .. N)
    BY <1>1, <1>4
  <2>2. ASSUME NEW n \in 0 .. N - 1, n \in T PROVE n + 1 \in T
    <3>1. Good(n) /\ n + 1 \in 0 .. N
      BY <1>1, <2>2
    <3> QED
      BY <1>5, <3>1
  <2> HIDE DEF T
  <2> QED
    BY <1>1, <2>1, <2>2, Induction
<1>7. N \in T
  BY <1>1, <1>6
<1> QED
  BY <1>2, <1>3, <1>7 DEF Good

-----------------------------------------------------------------------------
(* Lookups.                                                                *)

\* Of two places one is before the other, not both.
LEMMA BeforeOrder ==
    ASSUME NEW p \in Nat \X Nat, NEW q \in Nat \X Nat, Before(p, q)
    PROVE  ~Before(q, p)
BY DEF Before

\* The first of the places of some lines is that of the first line.
LEMMA FirstLine ==
    ASSUME NEW lines, NEW n \in Nat, NEW data, NEW pl, Corresponds(lines, n, data, pl),
           NEW A \in SUBSET KeyLinesUpTo(lines, n), A # {}
    PROVE  Min(A) \in A /\ FirstPlace({pl[i] : i \in A}) = pl[Min(A)]
<1> DEFINE P == {pl[i] : i \in A}
<1>1. A \in SUBSET Nat /\ \A i \in A : i \in Nat
  BY DEF KeyLinesUpTo
<1>2. Min(A) \in A /\ \A i \in A : Min(A) <= i
  BY <1>1, Smallest
<1>3. \A i \in A : pl[i] \in Nat \X Nat
  BY DEF Corresponds
<1>4. pl[Min(A)] \in P /\ \A q \in P \ {pl[Min(A)]} : Before(pl[Min(A)], q)
  <2>1. ASSUME NEW i \in A, pl[i] # pl[Min(A)] PROVE Before(pl[Min(A)], pl[i])
    <3>1. Min(A) # i
      BY <2>1
    <3>2. Min(A) \in Nat /\ i \in Nat /\ Min(A) <= i
      BY <1>1, <1>2
    <3>3. Min(A) < i
      BY <3>1, <3>2
    <3> QED
      BY <1>2, <3>3 DEF Corresponds
  <2> QED
    BY <1>2, <2>1
<1>5. ASSUME NEW p \in P, \A q \in P \ {p} : Before(p, q) PROVE p = pl[Min(A)]
  <2> SUFFICES ASSUME p # pl[Min(A)] PROVE FALSE
    OBVIOUS
  <2>1. Before(p, pl[Min(A)]) /\ Before(pl[Min(A)], p)
    BY <1>4, <1>5
  <2>2. p \in Nat \X Nat /\ pl[Min(A)] \in Nat \X Nat
    BY <1>2, <1>3
  <2> QED
    BY <2>1, <2>2, BeforeOrder
<1> HIDE DEF P
<1>6. FirstPlace(P) = pl[Min(A)]
  BY <1>4, <1>5 DEF FirstPlace
<1> QED
  BY <1>2, <1>6 DEF P

\* GetKeyList lists the places of the lines of keys in the sections of a name.
LEMMA ListedLines ==
    ASSUME NEW lines \in Texts, NEW data, NEW pl, Corresponds(lines, Len(lines), data, pl), NEW section,
           data \in Seq(Sections)
    PROVE  /\ KeyLinesIn(lines, section) \in SUBSET KeyLinesUpTo(lines, Len(lines))
           /\ KeyPlaces(data, section) = {pl[i] : i \in KeyLinesIn(lines, section)}
<1>1. KeyLinesIn(lines, section) = {i \in KeyLinesUpTo(lines, Len(lines)) : SameName(SectionAt(lines, i), section)}
  <2>1. DOMAIN lines = 1 .. Len(lines)
    BY DEF Texts
  <2> QED
    BY <2>1 DEF KeyLinesIn, KeyLinesUpTo, IsKeyAt
<1>2. ASSUME NEW p PROVE p \in KeyPlaces(data, section) <=> IsPlace(data, p) /\ SameName(data[p[1]].name, section)
  <2>1. \A a \in DOMAIN data : a \in Nat /\ data[a] \in Sections
    OBVIOUS
  <2>2. \A a \in DOMAIN data : a \in Nat /\ data[a].keys \in Seq(IniKeys)
    BY <2>1 DEF Sections
  <2>3. \A a \in DOMAIN data : \A b \in DOMAIN data[a].keys : b \in Nat
    BY <2>2
  <2>4. CASE p \in KeyPlaces(data, section)
    <3>1. PICK a \in DOMAIN data : \E b \in DOMAIN data[a].keys :
            p = <<a, b>> /\ SameName(data[a].name, section) /\ ~data[a].keys[b].comment
      BY <2>4 DEF KeyPlaces
    <3>2. PICK b \in DOMAIN data[a].keys :
            p = <<a, b>> /\ SameName(data[a].name, section) /\ ~data[a].keys[b].comment
      BY <3>1
    <3>3. p[1] = a /\ p[2] = b /\ p \in Nat \X Nat
      BY <2>2, <2>3, <3>2
    <3>4. IsPlace(data, p) /\ SameName(data[p[1]].name, section)
      BY <3>2, <3>3 DEF IsPlace
    <3> QED
      BY <2>4, <3>4
  <2>5. CASE IsPlace(data, p) /\ SameName(data[p[1]].name, section)
    <3>1. p = <<p[1], p[2]>> /\ p[1] \in DOMAIN data /\ p[2] \in DOMAIN data[p[1]].keys
          /\ ~data[p[1]].keys[p[2]].comment /\ SameName(data[p[1]].name, section)
      BY <2>5 DEF IsPlace
    <3> QED
      BY <2>5, <3>1 DEF KeyPlaces
  <2> QED
    BY <2>4, <2>5
<1>3. \A i \in KeyLinesUpTo(lines, Len(lines)) : data[pl[i][1]].name = SectionAt(lines, i)
  BY DEF Corresponds
<1>4. \A p : IsPlace(data, p) <=> \E i \in KeyLinesUpTo(lines, Len(lines)) : pl[i] = p
  BY DEF Corresponds
<1>5. KeyLinesIn(lines, section) \in SUBSET KeyLinesUpTo(lines, Len(lines))
  BY <1>1
<1>6. KeyPlaces(data, section) = {pl[i] : i \in KeyLinesIn(lines, section)}
  BY <1>1, <1>2, <1>3, <1>4
<1> QED
  BY <1>5, <1>6

\* What can be asked for: neither name is empty, and the section is not the
\* one of the lines before the first header.
Askable(section, key) ==
    section # <<>> /\ key # <<>> /\ section # DefaultSection.name /\ IsName(section) /\ IsName(key)

\* GetVal answers what the first line of the name says, in a file of any text:
\* LoadFile neither loses, reorders nor misplaces a key.
THEOREM LookupSaid ==
    ASSUME NEW lines \in Texts, LoadFile(lines).ok, NEW section, NEW key, Askable(section, key)
    PROVE  GetVal(LoadFile(lines).data, section, key) = Said(lines, section, key)
<1> DEFINE data == LoadFile(lines).data
           found == {p \in KeyPlaces(data, section) : SameName(KeyAt(data, p).name, key)}
           at == {i \in KeyLinesIn(lines, section) : SameName(NameAt(lines, i), key)}
<1>1. PICK pl : Corresponds(lines, Len(lines), data, pl)
  BY FileCorresponds
<1>2. data \in Seq(Sections)
  BY LoadedData DEF Datas
<1> HIDE DEF data
<1>3. /\ KeyLinesIn(lines, section) \in SUBSET KeyLinesUpTo(lines, Len(lines))
      /\ KeyPlaces(data, section) = {pl[i] : i \in KeyLinesIn(lines, section)}
  BY <1>1, <1>2, ListedLines
<1>4. \A i \in KeyLinesIn(lines, section) : /\ KeyAt(data, pl[i]).name = NameAt(lines, i)
                                            /\ KeyAt(data, pl[i]).values = ValuesAt(lines, i)
  BY <1>1, <1>3 DEF Corresponds
<1>5. found = {pl[i] : i \in at} /\ at \in SUBSET KeyLinesUpTo(lines, Len(lines))
  BY <1>3, <1>4
<1>6. GetVal(data, section, key) = IF found = {} THEN <<>> ELSE KeyAt(data, FirstPlace(found)).values
  BY DEF GetVal, Askable
<1>7. Said(lines, section, key) = IF at = {} THEN <<>> ELSE ValuesAt(lines, Min(at))
  BY DEF Said, ValuesAt
<1>8. \A i \in at : i \in KeyLinesIn(lines, section)
  OBVIOUS
<1> HIDE DEF found, at
<1>9. CASE at = {}
  BY <1>5, <1>6, <1>7, <1>9 DEF data
<1>10. CASE at # {}
  <2>1. Len(lines) \in Nat
    BY DEF Texts
  <2>2. Min(at) \in at /\ FirstPlace(found) = pl[Min(at)]
    BY <1>1, <1>5, <1>10, <2>1, FirstLine
  <2>3. found # {}
    BY <1>5, <1>10
  <2>4. KeyAt(data, pl[Min(at)]).values = ValuesAt(lines, Min(at))
    BY <1>4, <1>8, <2>2
  <2> QED
    BY <1>6, <1>7, <1>10, <2>2, <2>3, <2>4 DEF data
<1> QED
  BY <1>9, <1>10
=============================================================================
