----------------------------- MODULE UinputProofs -----------------------------
(***************************************************************************)
(* Theorems about UinputDevice: for any inputs, codes and ranges, over any *)
(* writes that failed or broke off, what a reader sees after one that goes *)
(* through is what the inputs asked for since the one before.              *)
(***************************************************************************)
EXTENDS UinputDevice, FiniteSetTheorems, TLAPS

USE InputsAssumption, CodesAssumption

-----------------------------------------------------------------------------
(* What the buffer holds.                                                  *)

KeyEntries(c) == {Entry("key", c, 0), Entry("key", c, 1), Phantom, [Phantom EXCEPT !.value = 1]}

IsFunction(f) == f = [c \in DOMAIN f |-> f[c]]

\* A buffer the program can have: entries of every kind under their codes,
\* and among the keys phantoms, but only when there are absolute axes.
BufferOK(b) ==
    /\ b = [key |-> b.key, abs |-> b.abs, rel |-> b.rel]
    /\ IsFunction(b.key) /\ IsFunction(b.abs) /\ IsFunction(b.rel)
    /\ DOMAIN b.key \subseteq KeyList \cup AbsList
    /\ DOMAIN b.abs \subseteq AbsList
    /\ DOMAIN b.rel \subseteq RelList
    /\ \A c \in DOMAIN b.key : b.key[c] \in KeyEntries(c)
    /\ \A c \in DOMAIN b.key : b.key[c].type = "key" => c \in KeyList
    /\ \A c \in DOMAIN b.abs : b.abs[c].value \in Int /\ b.abs[c] = Entry("abs", c, b.abs[c].value)
    /\ \A c \in DOMAIN b.rel : b.rel[c].value \in Int /\ b.rel[c] = Entry("rel", c, b.rel[c].value)
    /\ DOMAIN b.abs = {} => \A c \in DOMAIN b.key : b.key[c].type = "key"

AskedSet ==
    [ key : SUBSET Nat, abs : [AbsList -> SUBSET Int],
      firstAbs : [AbsList -> Int], firstRel : [RelList -> Int] ]

\* The buffer holds just what was asked for.
Holds(b, a) ==
    /\ \A c \in DOMAIN b.key :
          /\ b.key[c].value # 0 => c \in a.key
          /\ b.key[c].type = "key" /\ c \in a.key => b.key[c].value # 0
    /\ \A c \in DOMAIN b.abs :
          \/ \E v \in a.abs[c] : b.abs[c].value = Scaled(c, v)
          \/ b.abs[c].value = 0 /\ (a.abs[c] = {} \/ c \in a.key)
    /\ \A c \in DOMAIN b.rel : b.rel[c].value = a.firstRel[c]

\* Entries of keys stay, and stay what they are.
KeysStay(b, new) ==
    /\ DOMAIN new.abs = DOMAIN b.abs
    /\ \A c \in DOMAIN b.key : c \in DOMAIN new.key /\ new.key[c].type = b.key[c].type

-----------------------------------------------------------------------------
(* Updates.                                                                *)

LEMMA ValuesAreIntegers ==
    ASSUME NEW v \in Int, NEW c \in AbsList
    PROVE  Truncate(v) \in Int /\ Scaled(c, v) \in Int
<1>1. \A w \in Int : Truncate(w) \in Int
  BY DEF Truncate
<1>2. AxisRange[c][1] \in Int /\ AxisRange[c][2] \in Int
  OBVIOUS
<1>3. PICK clamped \in Int : clamped = IF v < -2 THEN -2 ELSE IF v > 2 THEN 2 ELSE v
  OBVIOUS
<1>4. Abs(clamped) \in Int
  BY DEF Abs
<1>5. Abs(clamped) * AxisRange[c][1] \in Int /\ Abs(clamped) * AxisRange[c][2] \in Int
  BY <1>2, <1>4
<1> QED
  BY <1>1, <1>3, <1>5 DEF Scaled

LEMMA Changed ==
    ASSUME NEW f, NEW x, NEW e
    PROVE  [f EXCEPT ![x] = e] = [c \in DOMAIN f |-> IF c = x THEN e ELSE f[c]]
OBVIOUS

LEMMA EntryChanged ==
    ASSUME NEW t, NEW c, NEW u, NEW w
    PROVE  [Entry(t, c, u) EXCEPT !.value = w] = Entry(t, c, w)
BY DEF Entry

\* A key that is pressed.
LEMMA KeyUpdated ==
    ASSUME NEW b, NEW a \in AskedSet, NEW code \in Nat, BufferOK(b), Holds(b, a)
    PROVE  LET new == UpdateKey(b, code)
               asks == [a EXCEPT !.key = @ \cup {code}]
           IN  asks \in AskedSet /\ BufferOK(new) /\ Holds(new, asks) /\ KeysStay(b, new)
<1> DEFINE new == UpdateKey(b, code)
           asks == [a EXCEPT !.key = @ \cup {code}]
<1>1. asks \in AskedSet /\ asks.key = a.key \cup {code} /\ asks.abs = a.abs /\ asks.firstRel = a.firstRel
  BY DEF AskedSet
<1>2. CASE code \notin DOMAIN b.key
  <2>1. new = b
    BY <1>2 DEF UpdateKey
  <2> QED
    BY <1>1, <1>2, <2>1 DEF Holds, KeysStay
<1>3. CASE code \in DOMAIN b.key
  <2> DEFINE keys == [b.key EXCEPT ![code] = [@ EXCEPT !.value = 1]]
  <2>1. new = [key |-> keys, abs |-> b.abs, rel |-> b.rel]
    BY <1>3 DEF UpdateKey, BufferOK
  <2>2. /\ new.abs = b.abs /\ new.rel = b.rel
        /\ new.key = [c \in DOMAIN b.key |-> IF c = code THEN [b.key[code] EXCEPT !.value = 1] ELSE b.key[c]]
    <3>1. keys = [c \in DOMAIN b.key |-> IF c = code THEN [b.key[code] EXCEPT !.value = 1] ELSE b.key[c]]
      BY Changed
    <3> HIDE DEF new, keys
    <3> QED
      BY <2>1, <3>1
  <2>3. b.key[code] \in KeyEntries(code)
    BY <1>3 DEF BufferOK
  <2>4. LET e == [b.key[code] EXCEPT !.value = 1]
        IN  e \in KeyEntries(code) /\ e.type = b.key[code].type /\ e.value = 1
    BY <2>3 DEF KeyEntries, Entry, Phantom
  <2>5. BufferOK(new)
    BY <2>1, <2>2, <2>4 DEF BufferOK, IsFunction
  <2>6. Holds(new, asks)
    BY <1>1, <2>2, <2>4 DEF Holds
  <2> QED
    BY <1>1, <2>2, <2>4, <2>5, <2>6 DEF KeysStay
<1> QED
  BY <1>2, <1>3

\* An absolute axis that is moved.
LEMMA AxisUpdated ==
    ASSUME NEW b, NEW a \in AskedSet, NEW code \in Nat, NEW v \in Int, v # 0, BufferOK(b), Holds(b, a)
    PROVE  LET new == UpdateAbs(b, code, v)
               asks == IF code \in AbsList
                       THEN [a EXCEPT !.abs[code] = @ \cup {v},
                                      !.firstAbs[code] = IF @ = 0 THEN v ELSE @]
                       ELSE a
           IN  asks \in AskedSet /\ BufferOK(new) /\ Holds(new, asks) /\ KeysStay(b, new)
<1> DEFINE new == UpdateAbs(b, code, v)
           asks == IF code \in AbsList
                   THEN [a EXCEPT !.abs[code] = @ \cup {v},
                                  !.firstAbs[code] = IF @ = 0 THEN v ELSE @]
                   ELSE a
<1>1. /\ asks \in AskedSet /\ asks.key = a.key /\ asks.firstRel = a.firstRel
      /\ \A c \in AbsList : asks.abs[c] = IF c = code THEN a.abs[c] \cup {v} ELSE a.abs[c]
  BY DEF AskedSet
<1> HIDE DEF asks
<1>2. CASE code \notin DOMAIN b.abs
  <2>1. new = b
    BY <1>2 DEF UpdateAbs
  <2>2. \A c \in DOMAIN b.abs : c \in AbsList /\ asks.abs[c] = a.abs[c]
    BY <1>1, <1>2 DEF BufferOK
  <2>3. Holds(b, asks)
    BY <1>1, <2>2 DEF Holds
  <2> QED
    BY <1>1, <2>1, <2>3 DEF KeysStay, asks
<1>3. CASE code \in DOMAIN b.abs
  <2> DEFINE keys == [c \in DOMAIN b.key \cup {code} |-> IF c \in DOMAIN b.key THEN b.key[c] ELSE Phantom]
             looked == [key |-> keys, abs |-> b.abs, rel |-> b.rel]
  <2>1. code \in AbsList
    BY <1>3 DEF BufferOK
  <2>2. looked = [b EXCEPT !.key =
                     [c \in DOMAIN @ \cup {code} |-> IF c \in DOMAIN @ THEN @[c] ELSE Phantom]]
    <3>1. b = [key |-> b.key, abs |-> b.abs, rel |-> b.rel]
      BY DEF BufferOK
    <3>2. looked = [b EXCEPT !.key = keys]
      <4> HIDE DEF keys
      <4> QED
        BY <3>1
    <3> QED
      BY <3>2
  <2>3. BufferOK(looked)
    <3>1. DOMAIN keys \subseteq KeyList \cup AbsList
      BY <2>1 DEF BufferOK
    <3>2. \A c \in DOMAIN keys : keys[c] \in KeyEntries(c) /\ (keys[c].type = "key" => c \in KeyList)
      BY DEF BufferOK, KeyEntries, Phantom, Entry
    <3> QED
      BY <1>3, <3>1, <3>2 DEF BufferOK, IsFunction
  <2>4. KeysStay(b, looked)
    BY DEF KeysStay
  <2>5. \A c \in DOMAIN keys :
            /\ keys[c].value # 0 => c \in asks.key
            /\ keys[c].type = "key" /\ c \in asks.key => keys[c].value # 0
    BY <1>1 DEF Holds, Phantom, Entry
  <2>6. \A c \in DOMAIN b.rel : b.rel[c].value = asks.firstRel[c]
    BY <1>1 DEF Holds
  <2>7. CASE keys[code].value # 0
    <3>1. new = looked
      BY <1>3, <2>2, <2>7 DEF UpdateAbs
    <3>2. code \in asks.key
      BY <2>5, <2>7
    <3>3. ASSUME NEW c \in DOMAIN b.abs
          PROVE  \/ \E w \in asks.abs[c] : b.abs[c].value = Scaled(c, w)
                 \/ b.abs[c].value = 0 /\ (asks.abs[c] = {} \/ c \in asks.key)
      <4>1. c \in AbsList
        BY DEF BufferOK
      <4>2. \/ \E w \in a.abs[c] : b.abs[c].value = Scaled(c, w)
            \/ b.abs[c].value = 0 /\ (a.abs[c] = {} \/ c \in a.key)
        BY DEF Holds
      <4> QED
        BY <1>1, <3>2, <4>1, <4>2
    <3>4. Holds(looked, asks)
      BY <2>5, <2>6, <3>3 DEF Holds
    <3> QED
      BY <1>1, <2>3, <2>4, <3>1, <3>4 DEF asks
  <2>8. CASE keys[code].value = 0
    <3> DEFINE axes == [b.abs EXCEPT ![code] = [@ EXCEPT !.value = Scaled(code, v)]]
    <3>1. new = [looked EXCEPT !.abs[code].value = Scaled(code, v)]
      BY <1>3, <2>2, <2>8 DEF UpdateAbs
    <3>2. new = [key |-> keys, abs |-> axes, rel |-> b.rel]
      BY <3>1
    <3>3. axes = [c \in DOMAIN b.abs |-> IF c = code THEN [b.abs[code] EXCEPT !.value = Scaled(code, v)]
                                                     ELSE b.abs[c]]
      BY Changed
    <3> DEFINE e == [b.abs[code] EXCEPT !.value = Scaled(code, v)]
    <3>4. e = Entry("abs", code, Scaled(code, v)) /\ e.value = Scaled(code, v)
      <4>1. PICK u : b.abs[code] = Entry("abs", code, u)
        BY <1>3 DEF BufferOK
      <4>2. Entry("abs", code, Scaled(code, v)).value = Scaled(code, v)
        BY DEF Entry
      <4> QED
        BY <4>1, <4>2, EntryChanged
    <3>5. \A c \in DOMAIN axes : axes[c].value \in Int /\ axes[c] = Entry("abs", c, axes[c].value)
      <4>1. Scaled(code, v) \in Int
        BY <2>1, ValuesAreIntegers
      <4>2. DOMAIN axes = DOMAIN b.abs
        BY <3>3
      <4>3. axes[code] = e
        BY <1>3, <3>3
      <4>4. ASSUME NEW c \in DOMAIN b.abs, c # code
            PROVE  axes[c] = b.abs[c]
        BY <3>3, <4>4
      <4> HIDE DEF axes, e
      <4>5. ASSUME NEW c \in DOMAIN axes
            PROVE  axes[c].value \in Int /\ axes[c] = Entry("abs", c, axes[c].value)
        <5>1. CASE c = code
          BY <3>4, <4>1, <4>3, <5>1
        <5>2. CASE c # code
          BY <4>2, <4>4, <5>2 DEF BufferOK
        <5> QED
          BY <5>1, <5>2
      <4> QED
        BY <4>5
    <3> HIDE DEF keys, axes
    <3>6. BufferOK(new)
      <4>1. DOMAIN axes = DOMAIN b.abs /\ IsFunction(axes)
        BY <3>3 DEF IsFunction
      <4>2. looked.key = keys /\ looked.rel = b.rel /\ looked.abs = b.abs
        OBVIOUS
      <4>3. new.key = keys /\ new.rel = b.rel /\ new.abs = axes /\ new = [key |-> new.key, abs |-> new.abs, rel |-> new.rel]
        BY <3>2
      <4> HIDE DEF looked, new
      <4> QED
        BY <2>3, <3>5, <4>1, <4>2, <4>3 DEF BufferOK
    <3>7. ASSUME NEW c \in DOMAIN axes
          PROVE  \/ \E w \in asks.abs[c] : axes[c].value = Scaled(c, w)
                 \/ axes[c].value = 0 /\ (asks.abs[c] = {} \/ c \in asks.key)
      <4>1. c \in DOMAIN b.abs /\ c \in AbsList
        BY <3>3 DEF BufferOK
      <4>2. CASE c = code
        BY <1>1, <3>3, <3>4, <4>1, <4>2
      <4>3. CASE c # code
        <5>1. axes[c] = b.abs[c] /\ asks.abs[c] = a.abs[c]
          BY <1>1, <3>3, <4>1, <4>3
        <5> QED
          BY <1>1, <4>1, <5>1 DEF Holds
      <4> QED
        BY <4>2, <4>3
    <3>8. Holds(new, asks)
      BY <2>5, <2>6, <3>2, <3>7 DEF Holds
    <3>9. KeysStay(b, new)
      BY <2>4, <3>2, <3>3 DEF KeysStay
    <3> QED
      BY <1>1, <3>6, <3>8, <3>9 DEF asks
  <2> QED
    BY <2>7, <2>8
<1> QED
  BY <1>2, <1>3

\* A relative axis that is moved.
LEMMA RelUpdated ==
    ASSUME NEW b, NEW a \in AskedSet, NEW code \in Nat, NEW v \in Int, BufferOK(b), Holds(b, a)
    PROVE  LET new == UpdateRel(b, code, v)
               asks == IF code \in RelList
                       THEN [a EXCEPT !.firstRel[code] = IF @ = 0 THEN v ELSE @]
                       ELSE a
           IN  asks \in AskedSet /\ BufferOK(new) /\ Holds(new, asks) /\ KeysStay(b, new)
<1> DEFINE new == UpdateRel(b, code, v)
           asks == IF code \in RelList
                   THEN [a EXCEPT !.firstRel[code] = IF @ = 0 THEN v ELSE @]
                   ELSE a
<1>1. /\ asks \in AskedSet /\ asks.key = a.key /\ asks.abs = a.abs
      /\ \A c \in RelList : asks.firstRel[c] = IF c = code /\ a.firstRel[c] = 0 THEN v ELSE a.firstRel[c]
  BY DEF AskedSet
<1> HIDE DEF asks
<1>2. \A c \in DOMAIN b.rel : c \in RelList /\ b.rel[c].value = a.firstRel[c]
  BY DEF BufferOK, Holds
<1>3. CASE code \notin DOMAIN b.rel \/ v = 0 \/ b.rel[code].value # 0
  <2>1. new = b
    BY <1>3 DEF UpdateRel
  <2>2. \A c \in DOMAIN b.rel : b.rel[c].value = asks.firstRel[c]
    BY <1>1, <1>2, <1>3
  <2>3. Holds(b, asks)
    BY <1>1, <2>2 DEF Holds
  <2> QED
    BY <1>1, <2>1, <2>3 DEF KeysStay, asks
<1>4. CASE code \in DOMAIN b.rel /\ v # 0 /\ b.rel[code].value = 0
  <2> DEFINE rels == [b.rel EXCEPT ![code] = [@ EXCEPT !.value = v]]
  <2>1. new = [key |-> b.key, abs |-> b.abs, rel |-> rels]
    BY <1>4 DEF UpdateRel, BufferOK
  <2>2. rels = [c \in DOMAIN b.rel |-> IF c = code THEN [b.rel[code] EXCEPT !.value = v] ELSE b.rel[c]]
    BY DEF BufferOK, IsFunction
  <2>3. LET e == [b.rel[code] EXCEPT !.value = v] IN e = Entry("rel", code, v) /\ e.value = v
    BY <1>4 DEF BufferOK, Entry
  <2>4. \A c \in DOMAIN rels : rels[c].value \in Int /\ rels[c] = Entry("rel", c, rels[c].value)
    BY <2>2, <2>3 DEF BufferOK
  <2>5. \A c \in DOMAIN rels : rels[c].value = asks.firstRel[c]
    BY <1>1, <1>2, <1>4, <2>2, <2>3
  <2>6. DOMAIN rels = DOMAIN b.rel /\ IsFunction(rels)
    BY <2>2 DEF IsFunction
  <2> HIDE DEF rels
  <2>7. new.key = b.key /\ new.abs = b.abs /\ new.rel = rels /\ new = [key |-> new.key, abs |-> new.abs, rel |-> new.rel]
    BY <2>1
  <2> HIDE DEF new
  <2>8. BufferOK(new)
    BY <2>4, <2>6, <2>7 DEF BufferOK
  <2>9. Holds(new, asks)
    BY <1>1, <2>5, <2>7 DEF Holds
  <2> QED
    BY <1>1, <2>7, <2>8, <2>9 DEF KeysStay, asks, new
<1> QED
  BY <1>3, <1>4

-----------------------------------------------------------------------------
(* Writes.                                                                 *)

\* A sequence of all the elements of a finite set has each of them.
LEMMA OrderCovers ==
    ASSUME NEW S, IsFiniteSet(S), NEW order \in SetToSeqs(S)
    PROVE  /\ DOMAIN order = 1 .. Len(order)
           /\ \A i \in DOMAIN order : order[i] \in S
           /\ \A c \in S : \E i \in DOMAIN order : order[i] = c
<1> DEFINE n == Cardinality(S)
<1>1. n \in Nat
  BY FS_CardinalityType
<1>2. order \in [1 .. n -> S] /\ \A i, j \in 1 .. n : i # j => order[i] # order[j]
  BY DEF SetToSeqs
<1>3. order \in Injection(1 .. n, S)
  BY <1>2 DEF Injection, IsInjective
<1>4. Cardinality(1 .. n) = n
  BY <1>1, FS_Interval
<1>5. order \in Surjection(1 .. n, S)
  BY <1>3, <1>4, FS_Injection
<1>6. \A c \in S : \E i \in 1 .. n : order[i] = c
  BY <1>5 DEF Surjection
<1> HIDE DEF n
<1>7. order \in Seq(S)
  BY <1>1, <1>2
<1> QED
  BY <1>2, <1>6, <1>7

\* The history that the buffer goes with.
Base == IF sent THEN NothingAsked ELSE asked

SeenOK ==
    /\ seen \in [key : SUBSET KeyList, abs : [AbsList -> Int], rel : [RelList -> Int]]
    /\ \A c \in seen.key : c \in DOMAIN mEvBuff.key /\ mEvBuff.key[c].type = "key"

Stages ==
    /\ open \in BOOLEAN /\ sent \in BOOLEAN
    /\ next \in 1 .. Len(Inputs) + 1
    /\ sent => open /\ next = 1
    /\ ~open => asked = NothingAsked /\ seen = NothingSeen
    /\ Len(Inputs) = 0 => asked = NothingAsked

Follows == KeysFollowReport /\ AxesFollowReport /\ AtomicFrames /\ FirstRelKept

\* The inductive invariant: the buffer has what the inputs asked for since
\* the last write, and after one that went through a reader has what they had
\* asked for then.
IInv ==
    /\ BufferOK(mEvBuff) /\ asked \in AskedSet /\ Holds(mEvBuff, Base)
    /\ SeenOK /\ Stages /\ Follows

LEMMA WriteShows ==
    ASSUME IInv, NEW order \in SetToSeqs(DOMAIN mEvBuff.key), Write(order)
    PROVE  /\ seen'.key = {c \in DOMAIN mEvBuff.key : mEvBuff.key[c].type = "key" /\ mEvBuff.key[c].value # 0}
           /\ seen'.abs = Values(seen.abs, mEvBuff.abs)
           /\ seen'.rel = Values(seen.rel, mEvBuff.rel)
           /\ seen' = [key |-> seen'.key, abs |-> seen'.abs, rel |-> seen'.rel]
           /\ DOMAIN mEvBuff.abs = {} => reports' = {seen'.key}
<1>1. IsFiniteSet(DOMAIN mEvBuff.key)
  <2>1. DOMAIN mEvBuff.key \subseteq Codes
    BY DEF IInv, BufferOK, Codes
  <2> QED
    BY <2>1, FS_Subset
<1>2. /\ DOMAIN order = 1 .. Len(order)
      /\ \A i \in DOMAIN order : order[i] \in DOMAIN mEvBuff.key
      /\ \A c \in DOMAIN mEvBuff.key : \E i \in DOMAIN order : order[i] = c
  BY <1>1, OrderCovers
<1> DEFINE typed == {c \in DOMAIN mEvBuff.key : mEvBuff.key[c].type = "key"}
           written == {i \in 1 .. Len(order) : mEvBuff.key[order[i]].type = "key"}
           now == {order[i] : i \in written}
<1>3. now = typed
  BY <1>2
<1>4. seen.key \subseteq typed
  BY DEF IInv, SeenOK
<1>5. KeysDown(order, Len(order)) = {c \in typed : mEvBuff.key[c].value # 0}
  <2>1. KeysDown(order, Len(order)) = (seen.key \ now) \cup {c \in now : mEvBuff.key[c].value # 0}
    BY DEF KeysDown
  <2> HIDE DEF now, typed
  <2> QED
    BY <1>3, <1>4, <2>1
<1>6. seen' = [ key |-> KeysDown(order, Len(order)), abs |-> Values(seen.abs, mEvBuff.abs),
                rel |-> Values(seen.rel, mEvBuff.rel) ]
  BY DEF Write, Shown
<1>7. ASSUME DOMAIN mEvBuff.abs = {}
      PROVE  reports' = {seen'.key}
  <2>1. \A c \in DOMAIN mEvBuff.key : mEvBuff.key[c].type = "key"
    BY <1>7 DEF IInv, BufferOK
  <2>2. Syncs(order) = {}
    BY <1>2, <2>1 DEF Syncs
  <2>3. reports' = {KeysDown(order, i) : i \in Syncs(order)} \cup {seen'.key}
    BY DEF Write
  <2> QED
    BY <2>2, <2>3
<1> HIDE DEF typed
<1>8. seen'.key = {c \in typed : mEvBuff.key[c].value # 0}
  BY <1>5, <1>6
<1>9. seen'.key = {c \in DOMAIN mEvBuff.key : mEvBuff.key[c].type = "key" /\ mEvBuff.key[c].value # 0}
  BY <1>8 DEF typed
<1> QED
  BY <1>6, <1>7, <1>9

\* A write that breaks off leaves the device with keys it has.
LEMMA PartSeen ==
    ASSUME IInv, NEW order \in SetToSeqs(DOMAIN mEvBuff.key), WritePart(order)
    PROVE  /\ seen' \in [key : SUBSET KeyList, abs : [AbsList -> Int], rel : [RelList -> Int]]
           /\ \A c \in seen'.key : c \in DOMAIN mEvBuff.key /\ mEvBuff.key[c].type = "key"
<1>1. IsFiniteSet(DOMAIN mEvBuff.key)
  <2>1. DOMAIN mEvBuff.key \subseteq Codes
    BY DEF IInv, BufferOK, Codes
  <2> QED
    BY <2>1, FS_Subset
<1>2. Len(order) \in Nat /\ \A i \in 1 .. Len(order) : order[i] \in DOMAIN mEvBuff.key
  <2>1. DOMAIN order = 1 .. Len(order) /\ \A i \in DOMAIN order : order[i] \in DOMAIN mEvBuff.key
    BY <1>1, OrderCovers
  <2>2. Len(order) \in Nat
    BY <1>1, FS_CardinalityType DEF SetToSeqs
  <2> QED
    BY <2>1, <2>2
<1>3. PICK n \in 0 .. Len(order), axes \in SUBSET DOMAIN mEvBuff.abs, rels \in SUBSET DOMAIN mEvBuff.rel :
          seen' = [ key |-> KeysDown(order, n), abs |-> Values(seen.abs, Restrict(mEvBuff.abs, axes)),
                    rel |-> Values(seen.rel, Restrict(mEvBuff.rel, rels)) ]
  BY DEF WritePart
<1>4. \A c \in KeysDown(order, n) : c \in DOMAIN mEvBuff.key /\ mEvBuff.key[c].type = "key"
  <2>1. \A i \in 1 .. n : i \in 1 .. Len(order)
    BY <1>2, <1>3
  <2> QED
    BY <1>2, <2>1 DEF KeysDown, IInv, SeenOK
<1>5. KeysDown(order, n) \subseteq KeyList
  BY <1>4 DEF IInv, BufferOK
<1>6. seen.abs \in [AbsList -> Int] /\ seen.rel \in [RelList -> Int]
  BY DEF IInv, SeenOK
<1>7. Values(seen.abs, Restrict(mEvBuff.abs, axes)) \in [AbsList -> Int]
  BY <1>6 DEF Values, Restrict, IInv, BufferOK
<1>8. Values(seen.rel, Restrict(mEvBuff.rel, rels)) \in [RelList -> Int]
  BY <1>6 DEF Values, Restrict, IInv, BufferOK
<1> QED
  BY <1>3, <1>4, <1>5, <1>7, <1>8

\* Clearing a buffer leaves one that nothing was asked of.
LEMMA ClearedHolds ==
    ASSUME NEW b, BufferOK(b)
    PROVE  LET new == [key |-> Cleared(b.key), abs |-> Cleared(b.abs), rel |-> Cleared(b.rel)]
           IN  BufferOK(new) /\ Holds(new, NothingAsked) /\ KeysStay(b, new)
<1> DEFINE new == [key |-> Cleared(b.key), abs |-> Cleared(b.abs), rel |-> Cleared(b.rel)]
<1>1. new.key = Cleared(b.key) /\ new.abs = Cleared(b.abs) /\ new.rel = Cleared(b.rel)
  OBVIOUS
<1>2. new = [key |-> new.key, abs |-> new.abs, rel |-> new.rel]
  OBVIOUS
<1> HIDE DEF new
<1>3. DOMAIN new.key = DOMAIN b.key /\ DOMAIN new.abs = DOMAIN b.abs /\ DOMAIN new.rel = DOMAIN b.rel
  BY <1>1 DEF Cleared
<1>4. IsFunction(new.key) /\ IsFunction(new.abs) /\ IsFunction(new.rel)
  BY <1>1 DEF Cleared, IsFunction
<1>5. ASSUME NEW c \in DOMAIN b.key
      PROVE  new.key[c] \in KeyEntries(c) /\ new.key[c].value = 0 /\ new.key[c].type = b.key[c].type
  <2>1. new.key[c] = [b.key[c] EXCEPT !.value = 0]
    BY <1>1 DEF Cleared
  <2>2. b.key[c] \in KeyEntries(c)
    BY DEF BufferOK
  <2> QED
    BY <2>1, <2>2 DEF KeyEntries, Phantom, Entry
<1>6. ASSUME NEW c \in DOMAIN b.abs
      PROVE  new.abs[c] = Entry("abs", c, 0) /\ new.abs[c].value = 0
  <2>1. new.abs[c] = [b.abs[c] EXCEPT !.value = 0]
    BY <1>1 DEF Cleared
  <2>2. PICK u : b.abs[c] = Entry("abs", c, u)
    BY DEF BufferOK
  <2>3. [Entry("abs", c, u) EXCEPT !.value = 0] = Entry("abs", c, 0)
    BY EntryChanged
  <2> QED
    BY <2>1, <2>2, <2>3 DEF Entry
<1>7. ASSUME NEW c \in DOMAIN b.rel
      PROVE  new.rel[c] = Entry("rel", c, 0) /\ new.rel[c].value = 0
  <2>1. new.rel[c] = [b.rel[c] EXCEPT !.value = 0]
    BY <1>1 DEF Cleared
  <2>2. PICK u : b.rel[c] = Entry("rel", c, u)
    BY DEF BufferOK
  <2>3. [Entry("rel", c, u) EXCEPT !.value = 0] = Entry("rel", c, 0)
    BY EntryChanged
  <2> QED
    BY <2>1, <2>2, <2>3 DEF Entry
<1>8. BufferOK(new)
  <2>1. \A c \in DOMAIN new.key : new.key[c] \in KeyEntries(c) /\ (new.key[c].type = "key" => c \in KeyList)
    BY <1>3, <1>5 DEF BufferOK
  <2>2. \A c \in DOMAIN new.abs : new.abs[c].value \in Int /\ new.abs[c] = Entry("abs", c, new.abs[c].value)
    <3>1. ASSUME NEW c \in DOMAIN new.abs
          PROVE  new.abs[c].value \in Int /\ new.abs[c] = Entry("abs", c, new.abs[c].value)
      BY <1>3, <1>6
    <3> QED
      BY <3>1
  <2>3. \A c \in DOMAIN new.rel : new.rel[c].value \in Int /\ new.rel[c] = Entry("rel", c, new.rel[c].value)
    <3>1. ASSUME NEW c \in DOMAIN new.rel
          PROVE  new.rel[c].value \in Int /\ new.rel[c] = Entry("rel", c, new.rel[c].value)
      BY <1>3, <1>7
    <3> QED
      BY <3>1
  <2>4. DOMAIN new.abs = {} => \A c \in DOMAIN new.key : new.key[c].type = "key"
    BY <1>3, <1>5 DEF BufferOK
  <2>5. /\ DOMAIN new.key \subseteq KeyList \cup AbsList
        /\ DOMAIN new.abs \subseteq AbsList
        /\ DOMAIN new.rel \subseteq RelList
    BY <1>3 DEF BufferOK
  <2> QED
    BY <1>2, <1>4, <2>1, <2>2, <2>3, <2>4, <2>5 DEF BufferOK
<1>9. Holds(new, NothingAsked)
  <2>1. \A c \in DOMAIN b.abs : c \in AbsList /\ NothingAsked.abs[c] = {}
    BY DEF BufferOK, NothingAsked
  <2>2. \A c \in DOMAIN b.rel : c \in RelList /\ NothingAsked.firstRel[c] = 0
    BY DEF BufferOK, NothingAsked
  <2>3. NothingAsked.key = {}
    BY DEF NothingAsked
  <2> QED
    BY <1>3, <1>5, <1>6, <1>7, <2>1, <2>2, <2>3 DEF Holds
<1>10. KeysStay(b, new)
  BY <1>3, <1>5 DEF KeysStay
<1> QED
  BY <1>8, <1>9, <1>10 DEF new

-----------------------------------------------------------------------------
(* The invariant.                                                          *)

LEMMA FreshHolds ==
    ASSUME NEW keys \in SUBSET KeyList, NEW axes \in SUBSET AbsList, NEW rels \in SUBSET RelList
    PROVE  LET b == [key |-> Fresh("key", keys), abs |-> Fresh("abs", axes), rel |-> Fresh("rel", rels)]
           IN  BufferOK(b) /\ Holds(b, NothingAsked)
<1> DEFINE b == [key |-> Fresh("key", keys), abs |-> Fresh("abs", axes), rel |-> Fresh("rel", rels)]
<1>1. /\ b.key = Fresh("key", keys) /\ b.abs = Fresh("abs", axes) /\ b.rel = Fresh("rel", rels)
      /\ b = [key |-> b.key, abs |-> b.abs, rel |-> b.rel]
  OBVIOUS
<1> HIDE DEF b
<1>2. DOMAIN b.key = keys /\ DOMAIN b.abs = axes /\ DOMAIN b.rel = rels
  BY <1>1 DEF Fresh
<1>3. IsFunction(b.key) /\ IsFunction(b.abs) /\ IsFunction(b.rel)
  BY <1>1 DEF Fresh, IsFunction
<1>4. \A c \in keys : b.key[c] = Entry("key", c, 0) /\ b.key[c].value = 0 /\ b.key[c].type = "key"
  BY <1>1 DEF Fresh, Entry
<1>5. \A c \in axes : b.abs[c] = Entry("abs", c, 0) /\ b.abs[c].value = 0
  BY <1>1 DEF Fresh, Entry
<1>6. \A c \in rels : b.rel[c] = Entry("rel", c, 0) /\ b.rel[c].value = 0
  BY <1>1 DEF Fresh, Entry
<1>7. BufferOK(b)
  <2>1. \A c \in DOMAIN b.key : b.key[c] \in KeyEntries(c) /\ b.key[c].type = "key" /\ c \in KeyList
    BY <1>2, <1>4 DEF KeyEntries
  <2>2. ASSUME NEW c \in DOMAIN b.abs
        PROVE  b.abs[c].value \in Int /\ b.abs[c] = Entry("abs", c, b.abs[c].value)
    BY <1>2, <1>5
  <2>3. ASSUME NEW c \in DOMAIN b.rel
        PROVE  b.rel[c].value \in Int /\ b.rel[c] = Entry("rel", c, b.rel[c].value)
    BY <1>2, <1>6
  <2>4. \A c \in DOMAIN b.abs : b.abs[c].value \in Int /\ b.abs[c] = Entry("abs", c, b.abs[c].value)
    BY <2>2
  <2>5. \A c \in DOMAIN b.rel : b.rel[c].value \in Int /\ b.rel[c] = Entry("rel", c, b.rel[c].value)
    BY <2>3
  <2> QED
    BY <1>1, <1>2, <1>3, <2>1, <2>4, <2>5 DEF BufferOK
<1>8. Holds(b, NothingAsked)
  BY <1>2, <1>4, <1>5, <1>6 DEF Holds, NothingAsked
<1> QED
  BY <1>7, <1>8 DEF b

LEMMA NothingTypes ==
    /\ NothingAsked \in AskedSet
    /\ NothingSeen \in [key : SUBSET KeyList, abs : [AbsList -> Int], rel : [RelList -> Int]]
    /\ NothingSeen.key = {}
BY DEF NothingAsked, NothingSeen, AskedSet

LEMMA InitIInv == ASSUME Init PROVE IInv
<1>1. BufferOK(mEvBuff) /\ Holds(mEvBuff, NothingAsked)
  <2>1. /\ BufferOK([key |-> Fresh("key", {}), abs |-> Fresh("abs", {}), rel |-> Fresh("rel", {})])
        /\ Holds([key |-> Fresh("key", {}), abs |-> Fresh("abs", {}), rel |-> Fresh("rel", {})], NothingAsked)
    BY FreshHolds
  <2> QED
    BY <2>1 DEF Init
<1>2. Base = NothingAsked
  BY DEF Init, Base
<1>3. SeenOK
  BY NothingTypes DEF Init, SeenOK
<1>4. Stages
  <2>1. next \in 1 .. Len(Inputs) + 1
    BY DEF Init
  <2> QED
    BY <2>1, Zenon DEF Init, Stages
<1>5. Follows
  BY DEF Init, Follows, KeysFollowReport, AxesFollowReport, AtomicFrames, FirstRelKept
<1> QED
  BY <1>1, <1>2, <1>3, <1>4, <1>5, NothingTypes DEF IInv, Init

LEMMA ConfigureIInv == ASSUME IInv, Configure PROVE IInv'
<1>1. ~open /\ open' = TRUE /\ next' = next /\ sent' = sent /\ asked' = asked /\ seen' = seen
  BY DEF Configure
<1>2. ~sent /\ asked = NothingAsked /\ seen = NothingSeen
  BY <1>1 DEF IInv, Stages
<1>3. PICK keys \in SUBSET KeyList, axes \in SUBSET AbsList, rels \in SUBSET RelList :
          mEvBuff' = [key |-> Fresh("key", keys), abs |-> Fresh("abs", axes), rel |-> Fresh("rel", rels)]
  BY DEF Configure
<1>4. BufferOK(mEvBuff') /\ Holds(mEvBuff', NothingAsked)
  BY <1>3, FreshHolds
<1>5. Base' = NothingAsked
  BY <1>1, <1>2 DEF Base
<1>6. SeenOK'
  BY <1>1, <1>2, NothingTypes DEF SeenOK
<1>7. Stages'
  BY <1>1, <1>2 DEF IInv, Stages
<1>8. Follows'
  BY <1>1, <1>2 DEF Follows, KeysFollowReport, AxesFollowReport, AtomicFrames, FirstRelKept
<1> QED
  BY <1>1, <1>2, <1>4, <1>5, <1>6, <1>7, <1>8, NothingTypes DEF IInv

LEMMA InputTypes ==
    ASSUME NEW i \in DOMAIN Inputs
    PROVE  /\ Inputs[i].mode \in Modes /\ Inputs[i].ev \in {"key", "abs", "rel"}
           /\ Inputs[i].code \in Nat /\ Inputs[i].dir \in BOOLEAN
<1> DEFINE In == [mode : Modes, ev : {"key", "abs", "rel"}, code : Nat, dir : BOOLEAN]
<1>1. Inputs[i] \in In
  <2>1. Inputs \in Seq(In)
    OBVIOUS
  <2> HIDE DEF In
  <2> QED
    BY <2>1
<1> QED
  BY <1>1

LEMMA TransEventIInv == ASSUME IInv, NEW state \in -2 .. 2, TransEvent(state) PROVE IInv'
<1> DEFINE input == Inputs[next]
           v == Value(input, state)
<1>1. next \in DOMAIN Inputs /\ open /\ next' = next + 1 /\ sent' = FALSE /\ open' = open /\ seen' = seen
  BY DEF TransEvent
<1>2. mEvBuff' = Updated(input, v) /\ asked' = Asked(input, v)
  BY DEF TransEvent
<1>3. input.mode \in Modes /\ input.ev \in {"key", "abs", "rel"} /\ input.code \in Nat /\ input.dir \in BOOLEAN
  BY <1>1, InputTypes
<1>4. v \in Int
  <2> HIDE DEF input
  <2>1. state \in Int
    OBVIOUS
  <2> QED
    BY <1>3, <2>1 DEF Value, Abs, Modes
<1> HIDE DEF v, input
<1>5. BufferOK(mEvBuff) /\ Base \in AskedSet /\ Holds(mEvBuff, Base)
  BY NothingTypes DEF IInv, Base
<1>6. asked' \in AskedSet /\ BufferOK(mEvBuff') /\ Holds(mEvBuff', asked') /\ KeysStay(mEvBuff, mEvBuff')
  <2>1. CASE v = 0
    <3>1. mEvBuff' = mEvBuff /\ asked' = Base
      BY <1>2, <2>1 DEF Updated, Asked, Base
    <3> QED
      BY <1>5, <3>1 DEF KeysStay
  <2>2. CASE v # 0 /\ input.ev = "key"
    <3>1. mEvBuff' = UpdateKey(mEvBuff, input.code) /\ asked' = [Base EXCEPT !.key = @ \cup {input.code}]
      BY <1>2, <2>2 DEF Updated, Asked, Base
    <3> QED
      BY <1>3, <1>5, <3>1, KeyUpdated
  <2>3. CASE v # 0 /\ input.ev = "abs"
    <3> DEFINE asks == IF input.code \in AbsList
                       THEN [Base EXCEPT !.abs[input.code] = @ \cup {v},
                                         !.firstAbs[input.code] = IF @ = 0 THEN v ELSE @]
                       ELSE Base
    <3>1. mEvBuff' = UpdateAbs(mEvBuff, input.code, v)
      BY <1>2, <2>3 DEF Updated
    <3>2. asked' = asks
      BY <1>2, <2>3 DEF Asked, Base
    <3>3. asks \in AskedSet /\ BufferOK(mEvBuff') /\ Holds(mEvBuff', asks) /\ KeysStay(mEvBuff, mEvBuff')
      BY <1>3, <1>4, <1>5, <2>3, <3>1, AxisUpdated
    <3> HIDE DEF asks
    <3> QED
      BY <3>2, <3>3
  <2>4. CASE v # 0 /\ input.ev = "rel"
    <3> DEFINE t == Truncate(v)
               asks == IF input.code \in RelList
                       THEN [Base EXCEPT !.firstRel[input.code] = IF @ = 0 THEN t ELSE @]
                       ELSE Base
    <3>1. t \in Int
      BY <1>4 DEF Truncate
    <3>2. mEvBuff' = UpdateRel(mEvBuff, input.code, t)
      BY <1>2, <2>4 DEF Updated
    <3>3. asked' = asks
      BY <1>2, <2>4 DEF Asked, Base
    <3>4. asks \in AskedSet /\ BufferOK(mEvBuff') /\ Holds(mEvBuff', asks) /\ KeysStay(mEvBuff, mEvBuff')
      <4> HIDE DEF t
      <4> QED
        BY <1>3, <1>5, <3>1, <3>2, RelUpdated
    <3> HIDE DEF asks
    <3> QED
      BY <3>3, <3>4
  <2> QED
    BY <1>3, <2>1, <2>2, <2>3, <2>4
<1>7. Base' = asked'
  BY <1>1 DEF Base
<1>8. SeenOK'
  BY <1>1, <1>6 DEF IInv, SeenOK, KeysStay
<1>9. Stages'
  <2>1. Len(Inputs) \in Nat /\ DOMAIN Inputs = 1 .. Len(Inputs)
    OBVIOUS
  <2>2. next' \in 1 .. Len(Inputs) + 1 /\ Len(Inputs) # 0
    BY <1>1, <2>1
  <2>3. open' \in BOOLEAN /\ sent' \in BOOLEAN
    BY <1>1, Zenon DEF IInv, Stages
  <2> QED
    BY <1>1, <2>2, <2>3, Zenon DEF Stages
<1>10. Follows'
  BY <1>1 DEF Follows, KeysFollowReport, AxesFollowReport, AtomicFrames, FirstRelKept
<1> QED
  BY <1>6, <1>7, <1>8, <1>9, <1>10 DEF IInv

LEMMA FlushIInv == ASSUME IInv, Flush PROVE IInv'
<1>1. open /\ next = Len(Inputs) + 1 /\ next' = 1 /\ open' = open
  BY DEF Flush
<1>2. CASE UNCHANGED <<mEvBuff, sent, asked, seen, reports>>
  <2>1. Base' = Base
    BY <1>1, <1>2 DEF Base
  <2>2. SeenOK'
    BY <1>2 DEF IInv, SeenOK
  <2>3. next' \in 1 .. Len(Inputs) + 1
    BY <1>1
  <2>4. Stages'
    BY <1>1, <1>2, <2>3, Zenon DEF IInv, Stages
  <2>5. Follows'
    BY <1>1, <1>2 DEF IInv, Follows, KeysFollowReport, AxesFollowReport, AtomicFrames, FirstRelKept
  <2> QED
    BY <1>1, <1>2, <2>1, <2>2, <2>4, <2>5 DEF IInv
<1>3. ASSUME NEW order \in SetToSeqs(DOMAIN mEvBuff.key), Write(order),
             mEvBuff' = [key |-> Cleared(mEvBuff.key), abs |-> Cleared(mEvBuff.abs), rel |-> Cleared(mEvBuff.rel)],
             sent' = TRUE, asked' = asked
      PROVE  IInv'
  \* What the reader now sees was asked for: a report without inputs
  \* follows a write at once, but asks for nothing.
  <2>1. Base = asked
    <3>1. Len(Inputs) \in Nat
      OBVIOUS
    <3>2. sent => asked = NothingAsked
      BY <1>1, <3>1 DEF IInv, Stages
    <3> QED
      BY <3>2 DEF Base
  <2>2. Base' = NothingAsked
    BY <1>3 DEF Base
  <2>3. BufferOK(mEvBuff) /\ Holds(mEvBuff, asked)
    BY <2>1 DEF IInv
  <2>4. BufferOK(mEvBuff') /\ Holds(mEvBuff', NothingAsked) /\ KeysStay(mEvBuff, mEvBuff')
    BY <1>3, <2>3, ClearedHolds
  <2>5. /\ mEvBuff'.key = Cleared(mEvBuff.key) /\ mEvBuff'.abs = Cleared(mEvBuff.abs)
        /\ mEvBuff'.rel = Cleared(mEvBuff.rel)
    BY <1>3
  <2>6. /\ DOMAIN mEvBuff'.key = DOMAIN mEvBuff.key /\ DOMAIN mEvBuff'.abs = DOMAIN mEvBuff.abs
        /\ DOMAIN mEvBuff'.rel = DOMAIN mEvBuff.rel
    BY <2>5 DEF Cleared
  <2>7. /\ seen'.key = {c \in DOMAIN mEvBuff.key : mEvBuff.key[c].type = "key" /\ mEvBuff.key[c].value # 0}
        /\ seen'.abs = Values(seen.abs, mEvBuff.abs)
        /\ seen'.rel = Values(seen.rel, mEvBuff.rel)
        /\ seen' = [key |-> seen'.key, abs |-> seen'.abs, rel |-> seen'.rel]
        /\ DOMAIN mEvBuff.abs = {} => reports' = {seen'.key}
    BY <1>3, WriteShows
  <2>8. SeenOK'
    <3>1. seen.abs \in [AbsList -> Int] /\ seen.rel \in [RelList -> Int]
      BY DEF IInv, SeenOK
    <3>2. seen'.abs \in [AbsList -> Int] /\ seen'.rel \in [RelList -> Int]
      BY <2>3, <2>7, <3>1 DEF Values, BufferOK
    <3>3. seen'.key \subseteq KeyList
      BY <2>3, <2>7 DEF BufferOK
    <3>4. \A c \in seen'.key : c \in DOMAIN mEvBuff'.key /\ mEvBuff'.key[c].type = "key"
      BY <2>4, <2>7 DEF KeysStay
    <3> QED
      BY <2>7, <3>2, <3>3, <3>4 DEF SeenOK
  <2>9. Stages'
    <3>1. next' \in 1 .. Len(Inputs) + 1
      BY <1>1
    <3> QED
      BY <1>1, <1>3, <3>1, Zenon DEF IInv, Stages
  <2>10. KeysFollowReport'
    <3>1. \A c \in DOMAIN mEvBuff.key :
              /\ mEvBuff'.key[c].type = mEvBuff.key[c].type
              /\ mEvBuff.key[c].type = "key" => (mEvBuff.key[c].value # 0 <=> c \in asked.key)
      BY <2>3, <2>4 DEF Holds, KeysStay
    <3>2. seen'.key = {c \in asked'.key \cap DOMAIN mEvBuff'.key : mEvBuff'.key[c].type = "key"}
      BY <1>3, <2>6, <2>7, <3>1
    <3> QED
      BY <3>2 DEF KeysFollowReport
  <2>11. AxesFollowReport'
    <3>1. ASSUME NEW c \in DOMAIN mEvBuff.abs
          PROVE  \/ \E v \in asked.abs[c] : seen'.abs[c] = Scaled(c, v)
                 \/ seen'.abs[c] = 0 /\ (asked.abs[c] = {} \/ c \in asked.key)
      <4>1. c \in AbsList /\ DOMAIN seen.abs = AbsList
        BY <2>3 DEF BufferOK, IInv, SeenOK
      <4>2. seen'.abs[c] = mEvBuff.abs[c].value
        BY <2>7, <4>1 DEF Values
      <4> QED
        BY <2>3, <4>2 DEF Holds
    <3> QED
      BY <1>3, <2>6, <3>1 DEF AxesFollowReport
  <2>12. AtomicFrames'
    BY <2>6, <2>7 DEF AtomicFrames
  <2>13. FirstRelKept'
    <3>1. ASSUME NEW c \in DOMAIN mEvBuff.rel
          PROVE  seen'.rel[c] = asked.firstRel[c]
      <4>1. c \in RelList /\ DOMAIN seen.rel = RelList
        BY <2>3 DEF BufferOK, IInv, SeenOK
      <4>2. seen'.rel[c] = mEvBuff.rel[c].value
        BY <2>7, <4>1 DEF Values
      <4> QED
        BY <2>3, <4>2 DEF Holds
    <3> QED
      BY <1>3, <2>6, <3>1 DEF FirstRelKept
  <2>14. asked' \in AskedSet
    BY <1>3 DEF IInv
  <2> QED
    BY <2>2, <2>4, <2>8, <2>9, <2>10, <2>11, <2>12, <2>13, <2>14 DEF IInv, Follows
<1>4. ASSUME NEW order \in SetToSeqs(DOMAIN mEvBuff.key), WritePart(order),
             mEvBuff' = [key |-> Cleared(mEvBuff.key), abs |-> Cleared(mEvBuff.abs), rel |-> Cleared(mEvBuff.rel)],
             sent' = FALSE, asked' = NothingAsked
      PROVE  IInv'
  <2>1. BufferOK(mEvBuff') /\ Holds(mEvBuff', NothingAsked) /\ KeysStay(mEvBuff, mEvBuff')
    BY <1>4, ClearedHolds DEF IInv
  <2>2. Base' = NothingAsked
    BY <1>4 DEF Base
  <2>3. SeenOK'
    BY <1>4, <2>1, PartSeen DEF SeenOK, KeysStay
  <2>4. Stages'
    <3>1. next' \in 1 .. Len(Inputs) + 1
      BY <1>1
    <3> QED
      BY <1>1, <1>4, <3>1, Zenon DEF IInv, Stages
  <2>5. Follows'
    BY <1>4 DEF Follows, KeysFollowReport, AxesFollowReport, AtomicFrames, FirstRelKept
  <2> QED
    BY <1>4, <2>1, <2>2, <2>3, <2>4, <2>5, NothingTypes DEF IInv
<1> QED
  BY <1>2, <1>3, <1>4 DEF Flush

LEMMA StutterIInv == ASSUME IInv, UNCHANGED vars PROVE IInv'
<1>1. Base' = Base /\ SeenOK' /\ Stages' /\ Follows'
  BY DEF vars, IInv, Base, SeenOK, Stages, Follows, KeysFollowReport, AxesFollowReport, AtomicFrames, FirstRelKept
<1> QED
  BY <1>1 DEF vars, IInv

\* The buffer has what was asked for since it was last cleared, and after a
\* write that went through the reader sees what had been asked for at that write.
THEOREM InductiveInvariant == Spec => []IInv
<1>1. IInv /\ [Next]_vars => IInv'
  BY ConfigureIInv, TransEventIInv, FlushIInv, StutterIInv DEF Next
<1> QED
  BY InitIInv, <1>1, PTL DEF Spec

\* The buffers have entries of their kind for codes of the profile only,
\* whatever axes are moved that the device lacks.
THEOREM TypeCorrect == Spec => []TypeOK
<1>1. IInv => TypeOK
  <2> SUFFICES ASSUME IInv PROVE TypeOK
    OBVIOUS
  <2>1. \A c \in DOMAIN mEvBuff.key : mEvBuff.key[c] \in KeyEntries(c)
    BY DEF IInv, BufferOK
  <2>2. /\ \A c \in DOMAIN mEvBuff.abs : mEvBuff.abs[c] = Entry("abs", c, mEvBuff.abs[c].value)
        /\ \A c \in DOMAIN mEvBuff.rel : mEvBuff.rel[c] = Entry("rel", c, mEvBuff.rel[c].value)
    BY DEF IInv, BufferOK
  <2>3. /\ DOMAIN mEvBuff.key \subseteq KeyList \cup AbsList
        /\ DOMAIN mEvBuff.abs \subseteq AbsList
        /\ DOMAIN mEvBuff.rel \subseteq RelList
    BY DEF IInv, BufferOK
  <2>4. seen.key \subseteq KeyList
    BY DEF IInv, SeenOK
  <2>5. open \in BOOLEAN /\ sent \in BOOLEAN /\ next \in 1 .. Len(Inputs) + 1
    BY Zenon DEF IInv, Stages
  <2> QED
    BY <2>1, <2>2, <2>3, <2>4, <2>5, Zenon DEF TypeOK, KeyEntries
<1> QED
  BY <1>1, InductiveInvariant, PTL

\* After every write that goes through the reader sees down the keys that some
\* input asked for since the write before, and no other.
THEOREM KeysFollow == Spec => []KeysFollowReport
<1>1. IInv => KeysFollowReport
  BY DEF IInv, Follows
<1> QED
  BY <1>1, InductiveInvariant, PTL

\* After every write that goes through an axis shows a value an input asked for
\* since the write before, or rests.
THEOREM AxesFollow == Spec => []AxesFollowReport
<1>1. IInv => AxesFollowReport
  BY DEF IInv, Follows
<1> QED
  BY <1>1, InductiveInvariant, PTL

\* A device without absolute axes shows one state of its keys per report.
THEOREM FramesAtomic == Spec => []AtomicFrames
<1>1. IInv => AtomicFrames
  BY DEF IInv, Follows
<1> QED
  BY <1>1, InductiveInvariant, PTL

\* Of several relative values for one code the first nonzero one is sent.
THEOREM FirstRelSent == Spec => []FirstRelKept
<1>1. IInv => FirstRelKept
  BY DEF IInv, Follows
<1> QED
  BY <1>1, InductiveInvariant, PTL
=============================================================================
