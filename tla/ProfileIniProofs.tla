--------------------------- MODULE ProfileIniProofs ---------------------------
(***************************************************************************)
(* Theorems about ProfileIni for every list of inputs, every table of      *)
(* events and every text of a profile file, with the proofs that TLAPS     *)
(* checks: no two commands that wait for their exit get one id, a key that *)
(* is bound is enabled, bindings and axes are those that the text says,    *)
(* and what is saved is read back.                                         *)
(***************************************************************************)
EXTENDS IniSaveProofs

-----------------------------------------------------------------------------
(* Ids.                                                                    *)

\* The commands that wait among the first inputs, counted.
LEMMA WaitingCount ==
    ASSUME NEW data, NEW n \in Nat
    PROVE  IsFiniteSet(Waiting(data, n)) /\ Cardinality(Waiting(data, n)) \in Nat
<1>1. Waiting(data, n) \in SUBSET (1 .. n)
  BY DEF Waiting
<1>2. IsFiniteSet(1 .. n)
  BY FS_Interval
<1>3. IsFiniteSet(Waiting(data, n))
  BY <1>1, <1>2, FS_Subset
<1> QED
  BY <1>3, FS_CardinalityType

\* A command that waits counts among those up to any later input.
LEMMA WaitingGrows ==
    ASSUME NEW data, NEW n \in Nat, NEW i \in 1 .. n, i \in Waiting(data, n)
    PROVE  Cardinality(Waiting(data, i - 1)) < Cardinality(Waiting(data, n))
<1> DEFINE A == Waiting(data, i - 1)
           B == Waiting(data, n)
<1>1. A \cup {i} \in SUBSET B /\ i \notin A
  BY DEF Waiting
<1>2. IsFiniteSet(A) /\ Cardinality(A) \in Nat /\ IsFiniteSet(B) /\ Cardinality(B) \in Nat
  BY WaitingCount
<1> HIDE DEF A, B
<1>3. Cardinality(A \cup {i}) = Cardinality(A) + 1
  BY <1>1, <1>2, FS_AddElement
<1>4. Cardinality(A \cup {i}) <= Cardinality(B)
  BY <1>1, <1>2, FS_Subset
<1> QED
  BY <1>2, <1>3, <1>4 DEF A, B

-----------------------------------------------------------------------------
(* Bindings.                                                               *)

\* Only a command that waits for its exit has an id, the one it was offered.
LEMMA BindingId ==
    ASSUME NEW vals, NEW id, NEW b \in GetBinding(vals, id)
    PROVE  b.id = 0 \/ (b.id = id /\ Waits(vals))
BY DEF GetBinding, GetEventBinding, GetCommandBinding, GetProfileBinding, Binding

\* A code that was found is below the maximum of its type.
LEMMA CodeInRange ==
    ASSUME NEW name, GetEvCode(name) >= 0
    PROVE  GetEvType(name) \in EvTypes /\ GetEvCode(name) < MaxOf[GetEvType(name)]
<1>1. GetEvType(name) # "none"
  BY DEF GetEvCode
<1>2. GetEvType(name) \in EvTypes
  BY <1>1 DEF GetEvType
<1>3. /\ name \in DOMAIN CodeOf[GetEvType(name)]
      /\ ~(CodeOf[GetEvType(name)][name] >= MaxOf[GetEvType(name)])
      /\ GetEvCode(name) = CodeOf[GetEvType(name)][name]
  BY DEF GetEvCode
<1>4. CodeOf[GetEvType(name)][name] \in Nat /\ MaxOf[GetEvType(name)] \in Nat
  BY <1>2, <1>3, NumbersAssumption
<1> QED
  BY <1>2, <1>3, <1>4

\* The code of a binding of an event is one its type has.
LEMMA BindingCode ==
    ASSUME NEW vals, NEW id, NEW b \in GetBinding(vals, id), b.ev # "none"
    PROVE  b.ev \in EvTypes /\ b.code \in Nat /\ b.code < MaxOf[b.ev]
<1> DEFINE name == Uppercase(vals[2])
<1>1. b \in GetEventBinding(vals)
  BY DEF GetBinding, GetCommandBinding, GetProfileBinding, Binding
<1>2. b.ev = GetEvType(name) /\ b.code = GetEvCode(name) /\ ~(GetEvCode(name) < 0)
  BY <1>1 DEF GetEventBinding, Binding
<1>3. GetEvCode(name) \in Int
  <2>1. CASE GetEvCode(name) = -1
    BY <2>1
  <2>2. CASE GetEvCode(name) # -1
    <3>1. /\ GetEvCode(name) = CodeOf[GetEvType(name)][name]
          /\ GetEvType(name) # "none" /\ name \in DOMAIN CodeOf[GetEvType(name)]
      BY <2>2 DEF GetEvCode
    <3>2. GetEvType(name) \in EvTypes
      BY <3>1 DEF GetEvType
    <3> QED
      BY <3>1, <3>2, NumbersAssumption
  <2> QED
    BY <2>1, <2>2
<1> HIDE DEF name
<1>4. GetEvCode(name) >= 0 /\ GetEvCode(name) \in Nat
  BY <1>2, <1>3
<1> QED
  BY <1>2, <1>4, CodeInRange

-----------------------------------------------------------------------------
(* What Load reads.                                                        *)

\* The inputs with a binding that go to a slot.
InputsOf(data, id, s) == {i \in DOMAIN Keys : Slot(Keys[i]) = s /\ ReadBinding(data, i, id) # {}}

\* A slot has the binding of the last of its inputs, or none.
LEMMA SlotIs ==
    ASSUME NEW data, NEW id, NEW s \in Slots
    PROVE  LET For == InputsOf(data, id, s)
               b == ReadProfile(Template, data, id).map[s]
           IN  /\ For = {} => b = NoBinding
               /\ For # {} => b \in ReadBinding(data, Max(For), id) /\ Max(For) \in For
<1> DEFINE read == [i \in DOMAIN Keys |-> ReadBinding(data, i, id)]
           For == {i \in DOMAIN Keys : Slot(Keys[i]) = s /\ read[i] # {}}
           b == ReadProfile(Template, data, id).map[s]
<1>1. b = IF For = {} THEN NoBinding ELSE CHOOSE c \in read[Max(For)] : TRUE
  BY DEF ReadProfile, Template
<1>2. For = InputsOf(data, id, s)
  BY DEF InputsOf
<1>3. CASE For # {}
  <2>1. Len(Keys) \in Nat /\ For \in SUBSET (1 .. Len(Keys))
    BY KeysAssumption
  <2>2. Max(For) \in For
    BY <2>1, <1>3, Greatest
  <2>3. (CHOOSE c \in read[Max(For)] : TRUE) \in read[Max(For)]
    BY <2>2
  <2>4. b \in ReadBinding(data, Max(For), id)
    BY <1>1, <1>3, <2>2, <2>3
  <2> QED
    BY <1>2, <1>3, <2>2, <2>4
<1> QED
  BY <1>1, <1>2, <1>3

\* So a binding in a slot is one that was read for it.
LEMMA SlotRead ==
    ASSUME NEW data, NEW id, NEW s \in Slots
    PROVE  LET b == ReadProfile(Template, data, id).map[s]
           IN  \/ b = NoBinding
               \/ \E i \in DOMAIN Keys : Slot(Keys[i]) = s /\ b \in ReadBinding(data, i, id)
BY SlotIs DEF InputsOf

\* The number a command that waits takes: the next free one after those of
\* the inputs before it.
IdAt(data, i, id) == id + Cardinality(Waiting(data, i - 1))

\* An id that a binding has is that of its input, which waits.
LEMMA IdRead ==
    ASSUME NEW data, NEW id \in Nat \ {0}, NEW i \in DOMAIN Keys, NEW b \in ReadBinding(data, i, id), b.id # 0
    PROVE  b.id = IdAt(data, i, id) /\ i \in Waiting(data, i) /\ i \in Waiting(data, Len(Keys))
<1>1. b.id = IdAt(data, i, id) /\ Waits(GetVal(data, <<"Bindings">>, Keys[i]))
  BY BindingId DEF ReadBinding, IdAt
<1>2. i \in 1 .. Len(Keys) /\ i \in 1 .. i
  BY KeysAssumption
<1> QED
  BY <1>1, <1>2 DEF Waiting

\* Inputs that wait have ids in their order.
LEMMA IdsDiffer ==
    ASSUME NEW data, NEW id \in Nat \ {0}, NEW i \in DOMAIN Keys, NEW j \in DOMAIN Keys, i < j,
           i \in Waiting(data, i)
    PROVE  IdAt(data, i, id) < IdAt(data, j, id)
<1>1. i \in Nat /\ j \in Nat /\ i \in 1 .. j - 1 /\ j - 1 \in Nat
  BY KeysAssumption
<1>2. i \in Waiting(data, j - 1)
  BY <1>1 DEF Waiting
<1>3. Cardinality(Waiting(data, i - 1)) < Cardinality(Waiting(data, j - 1))
  BY <1>1, <1>2, WaitingGrows
<1>4. i - 1 \in Nat
  BY <1>1
<1>5. Cardinality(Waiting(data, i - 1)) \in Nat /\ Cardinality(Waiting(data, j - 1)) \in Nat
  BY <1>1, <1>4, WaitingCount
<1> QED
  BY <1>3, <1>5 DEF IdAt

\* A profile that was read has ids from the next free one on, no two alike.
LEMMA IdsRead ==
    ASSUME NEW data, NEW id \in Nat \ {0}
    PROVE  LET map == ReadProfile(Template, data, id).map
           IN  /\ \A s \in Slots : map[s].id \in 0 .. id + Cardinality(Waiting(data, Len(Keys))) - 1
               /\ \A s, t \in Slots : map[s].id = map[t].id /\ s # t => map[s].id = 0
<1> DEFINE map == ReadProfile(Template, data, id).map
<1>1. Len(Keys) \in Nat /\ DOMAIN Keys = 1 .. Len(Keys)
  BY KeysAssumption
<1>2. Cardinality(Waiting(data, Len(Keys))) \in Nat
  BY <1>1, WaitingCount
<1>3. ASSUME NEW s \in Slots, map[s].id # 0
      PROVE  \E i \in DOMAIN Keys : /\ Slot(Keys[i]) = s /\ map[s].id = IdAt(data, i, id)
                                    /\ i \in Waiting(data, i) /\ i \in Waiting(data, Len(Keys))
  <2>1. map[s] # NoBinding
    BY <1>3 DEF NoBinding, Binding
  <2>2. PICK i \in DOMAIN Keys : Slot(Keys[i]) = s /\ map[s] \in ReadBinding(data, i, id)
    BY <2>1, SlotRead
  <2> QED
    BY <1>3, <2>2, IdRead
<1> HIDE DEF map
<1>4. ASSUME NEW s \in Slots, map[s].id # 0
      PROVE  map[s].id \in 0 .. id + Cardinality(Waiting(data, Len(Keys))) - 1
  <2>1. PICK i \in DOMAIN Keys : map[s].id = IdAt(data, i, id) /\ i \in Waiting(data, Len(Keys))
    BY <1>3, <1>4
  <2>2. i \in 1 .. Len(Keys) /\ i - 1 \in Nat
    BY <1>1
  <2>3. Cardinality(Waiting(data, i - 1)) < Cardinality(Waiting(data, Len(Keys)))
    BY <1>1, <2>1, <2>2, WaitingGrows
  <2>4. Cardinality(Waiting(data, i - 1)) \in Nat
    BY <2>2, WaitingCount
  <2> QED
    BY <1>2, <2>1, <2>3, <2>4 DEF IdAt
<1>5. ASSUME NEW s \in Slots, NEW t \in Slots, map[s].id = map[t].id, s # t, map[s].id # 0 PROVE FALSE
  <2>1. PICK i \in DOMAIN Keys : Slot(Keys[i]) = s /\ map[s].id = IdAt(data, i, id) /\ i \in Waiting(data, i)
    BY <1>3, <1>5
  <2>2. PICK j \in DOMAIN Keys : Slot(Keys[j]) = t /\ map[t].id = IdAt(data, j, id) /\ j \in Waiting(data, j)
    BY <1>3, <1>5
  <2>3. i - 1 \in Nat /\ j - 1 \in Nat /\ i \in Nat /\ j \in Nat
    BY <1>1
  <2>4. IdAt(data, i, id) \in Nat /\ IdAt(data, j, id) \in Nat
    BY <2>3, WaitingCount DEF IdAt
  <2>5. IdAt(data, i, id) = IdAt(data, j, id)
    BY <1>5, <2>1, <2>2
  <2>6. CASE i < j
    <3>1. IdAt(data, i, id) < IdAt(data, j, id)
      BY <2>1, <2>6, IdsDiffer
    <3> QED
      BY <2>4, <2>5, <3>1
  <2>7. CASE j < i
    <3>1. IdAt(data, j, id) < IdAt(data, i, id)
      BY <2>2, <2>7, IdsDiffer
    <3> QED
      BY <2>4, <2>5, <3>1
  <2>8. i # j
    BY <1>5, <2>1, <2>2
  <2> QED
    BY <2>3, <2>6, <2>7, <2>8
<1>6. \A s \in Slots : map[s].id \in 0 .. id + Cardinality(Waiting(data, Len(Keys))) - 1
  <2>1. 0 \in 0 .. id + Cardinality(Waiting(data, Len(Keys))) - 1
    BY <1>2
  <2> QED
    BY <1>4, <2>1
<1> QED
  BY <1>5, <1>6 DEF map

\* A key, or a relative axis of the mouse, that is bound is enabled.
LEMMA KeysRead ==
    ASSUME NEW data, NEW id, NEW s \in Slots
    PROVE  LET p == ReadProfile(Template, data, id)
               b == p.map[s]
           IN  /\ b.type = "game" /\ b.ev = "key" => Emits(p, b)
               /\ b.type = "mouse" /\ b.ev \in {"key", "rel"} /\ p.features.MouseDevice => Emits(p, b)
<1> DEFINE p == ReadProfile(Template, data, id)
           b == p.map[s]
           read == [i \in DOMAIN Keys |-> ReadBinding(data, i, id)]
           bindings == UNION {read[i] : i \in DOMAIN Keys}
<1>1. SUFFICES ASSUME b.type \in {"game", "mouse"}, b.ev \in {"key", "rel"},
                      b.type = "game" => b.ev = "key", b.type = "mouse" => p.features.MouseDevice
               PROVE  Emits(p, b)
  OBVIOUS
<1>2. b # NoBinding
  BY <1>1 DEF NoBinding, Binding
<1>3. PICK i \in DOMAIN Keys : b \in ReadBinding(data, i, id)
  BY <1>2, SlotRead
<1>4. b \in bindings
  BY <1>3
<1>5. b.ev \in EvTypes /\ b.code \in Nat /\ b.code < MaxOf[b.ev]
  BY <1>1, <1>3, BindingCode DEF ReadBinding
<1>6. p.keys = AddKeyEvents(Template.keys, bindings) /\ p.rels = AddRelEvents(Template.rels, bindings)
  BY DEF ReadProfile
<1> HIDE DEF p, read, bindings
<1>7. b.ev = "key" => b.code \in p.keys[b.type]
  BY <1>1, <1>4, <1>6 DEF AddKeyEvents, Template
<1>8. b.ev = "rel" => b.code \in p.rels["mouse"] /\ b.type = "mouse"
  BY <1>1, <1>4, <1>6 DEF AddRelEvents, Template
<1>9. b.type \in DevicesOf(p)
  BY <1>1 DEF DevicesOf
<1>10. b.ev = "rel" => b.code < MaxOf["abs"]
  BY <1>5, NumbersAssumption DEF EvTypes
<1> QED
  BY <1>1, <1>5, <1>7, <1>8, <1>9, <1>10 DEF Emits, DeviceCodes

\* What a deadzone can be.
Deadzone(x) == x = NaN \/ x \in 0 .. 90

\* A deadzone that was read is from none to nine tenths, or not a number.
LEMMA DeadzoneRead ==
    ASSUME NEW data, NEW id, NEW d \in Deadzones
    PROVE  Deadzone(ReadProfile(Template, data, id).dz[d])
<1>1. ReadProfile(Template, data, id).dz[d] = GetDeadzone(data, d, 0)
  BY DEF ReadProfile, Template
<1> DEFINE vals == GetVal(data, <<"Deadzones">>, <<d>>)
           v == IF vals[1] \in DOMAIN PercentOf THEN PercentOf[vals[1]] ELSE 0
<1>2. GetDeadzone(data, d, 0) =
        IF vals = <<>> THEN 0
        ELSE IF v = NaN THEN NaN ELSE IF v > 90 THEN 90 ELSE IF v < 0 THEN 0 ELSE v
  BY DEF GetDeadzone
<1>3. v = NaN \/ v \in Int
  BY PercentAssumption
<1> HIDE DEF vals, v
<1>4. CASE v = NaN
  BY <1>1, <1>2, <1>4 DEF Deadzone
<1>5. CASE v # NaN
  <2>1. /\ GetDeadzone(data, d, 0) \in {0, 90, v}
        /\ v \in Int /\ (GetDeadzone(data, d, 0) = v => 0 <= v /\ v <= 90)
    BY <1>2, <1>3, <1>5
  <2> QED
    BY <1>1, <2>1 DEF Deadzone
<1> QED
  BY <1>4, <1>5

-----------------------------------------------------------------------------
(* The theorems.                                                           *)

\* Load is the only step that changes the profile in use.
LEMMA Steps ==
    ASSUME [Next]_vars
    PROVE  \/ UNCHANGED <<uid, prof>>
           \/ /\ prof' = ReadProfile(Template, mIni', uid)
              /\ uid' = uid + Cardinality(Waiting(mIni', Len(Keys)))
              /\ uid' <= MaxId
BY DEF Next, Edit, Delete, LoadFails, Load, vars

\* The ids, the number of edits, the slots and the deadzones of the profile in
\* use stay in their ranges, whatever text is loaded: a deadzone is at most nine
\* tenths, or the NaN that the code lets pass.
THEOREM TypeCorrect == Spec => []TypeOK
<1>1. Init => TypeOK
  <2> SUFFICES ASSUME Init PROVE TypeOK
    OBVIOUS
  <2>1. edits \in 0 .. MaxEdits /\ uid \in 1 .. MaxId /\ uid = 1
    BY BoundsAssumption DEF Init
  <2>2. \A s \in Slots : prof.map[s].id \in 0 .. uid - 1
    BY <2>1 DEF Init, Template, NoBinding, Binding
  <2>3. \A d \in Deadzones : Deadzone(prof.dz[d])
    BY DEF Init, Template, Deadzone
  <2>4. DOMAIN prof.map = Slots /\ DOMAIN mProf.map = Slots /\ file.there \in BOOLEAN
    BY DEF Init, Template, NoFile
  <2> QED
    BY <2>1, <2>2, <2>3, <2>4 DEF TypeOK, Deadzone
<1>2. TypeOK /\ [Next]_vars => TypeOK'
  <2> SUFFICES ASSUME TypeOK, [Next]_vars PROVE TypeOK'
    OBVIOUS
  <2>1. edits' \in 0 .. MaxEdits
    BY BoundsAssumption DEF TypeOK, Next, Edit, Delete, LoadFails, Load, vars
  <2>2. file'.there \in BOOLEAN
    <3>1. CASE file' = file
      BY <3>1 DEF TypeOK
    <3>2. CASE file' = NoFile
      BY <3>2 DEF NoFile
    <3>3. ASSUME NEW lines, file' = [there |-> TRUE, lines |-> lines] PROVE file'.there \in BOOLEAN
      BY <3>3
    <3> QED
      BY <3>1, <3>2, <3>3 DEF Next, Edit, Delete, LoadFails, Load, vars
  <2>3. DOMAIN prof'.map = Slots /\ DOMAIN mProf'.map = Slots
    BY DEF TypeOK, Next, Edit, Delete, LoadFails, Load, vars, ReadProfile, Template
  <2>4. /\ uid' \in 1 .. MaxId
        /\ \A s \in Slots : prof'.map[s].id \in 0 .. uid' - 1
        /\ \A d \in Deadzones : Deadzone(prof'.dz[d])
    <3>1. CASE UNCHANGED <<uid, prof>>
      BY <3>1 DEF TypeOK, Deadzone
    <3>2. CASE /\ prof' = ReadProfile(Template, mIni', uid)
               /\ uid' = uid + Cardinality(Waiting(mIni', Len(Keys)))
               /\ uid' <= MaxId
      <4>1. uid \in Nat \ {0} /\ MaxId \in Nat
        BY BoundsAssumption DEF TypeOK
      <4>2. Cardinality(Waiting(mIni', Len(Keys))) \in Nat
        BY WaitingCount, KeysAssumption
      <4>3. \A s \in Slots : prof'.map[s].id \in 0 .. uid' - 1
        <5>1. uid' - 1 = uid + Cardinality(Waiting(mIni', Len(Keys))) - 1
          BY <3>2, <4>1, <4>2
        <5>2. \A s \in Slots : ReadProfile(Template, mIni', uid).map[s].id
                                 \in 0 .. uid + Cardinality(Waiting(mIni', Len(Keys))) - 1
          BY <4>1, IdsRead
        <5> QED
          BY <3>2, <5>1, <5>2
      <4>4. \A d \in Deadzones : Deadzone(prof'.dz[d])
        BY <3>2, DeadzoneRead
      <4> QED
        BY <3>2, <4>1, <4>2, <4>3, <4>4
    <3> QED
      BY <3>1, <3>2, Steps
  <2> QED
    BY <2>1, <2>2, <2>3, <2>4 DEF TypeOK, Deadzone
<1> QED
  BY <1>1, <1>2, PTL DEF Spec

\* Two commands that wait for their exit never have one id, across any number
\* of loads and however the lines of the files repeat inputs.
THEOREM IdsUnique == Spec => []CommandIdsUnique
<1>1. Init => CommandIdsUnique
  BY DEF Init, Template, NoBinding, Binding, CommandIdsUnique
<1>2. TypeOK /\ CommandIdsUnique /\ [Next]_vars => CommandIdsUnique'
  <2> SUFFICES ASSUME TypeOK, CommandIdsUnique, [Next]_vars PROVE CommandIdsUnique'
    OBVIOUS
  <2>1. CASE UNCHANGED <<uid, prof>>
    BY <2>1 DEF CommandIdsUnique
  <2>2. CASE prof' = ReadProfile(Template, mIni', uid)
    <3>1. uid \in Nat \ {0}
      BY BoundsAssumption DEF TypeOK
    <3> QED
      BY <2>2, <3>1, IdsRead DEF CommandIdsUnique
  <2> QED
    BY <2>1, <2>2, Steps
<1> QED
  BY <1>1, <1>2, TypeCorrect, PTL DEF Spec

\* Every key of the gamepad and every key or relative axis of the mouse that is
\* bound is enabled on its device, whatever the file says.
THEOREM KeysEnabled == Spec => []KeysReachDevices
<1>1. Init => KeysReachDevices
  BY DEF Init, Template, NoBinding, Binding, KeysReachDevices
<1>2. KeysReachDevices /\ [Next]_vars => KeysReachDevices'
  <2> SUFFICES ASSUME KeysReachDevices, [Next]_vars PROVE KeysReachDevices'
    OBVIOUS
  <2>1. CASE UNCHANGED <<uid, prof>>
    BY <2>1 DEF KeysReachDevices, Emits, DevicesOf, DeviceCodes
  <2>2. CASE prof' = ReadProfile(Template, mIni', uid)
    BY <2>2, KeysRead DEF KeysReachDevices
  <2> QED
    BY <2>1, <2>2, Steps
<1> QED
  BY <1>1, <1>2, PTL DEF Spec

-----------------------------------------------------------------------------
(* The text and the profile.                                               *)

\* The profile in use is the template, or what Load reads in the file it was
\* loaded from, which had no bad header.
FromText ==
    /\ file.lines \in Texts /\ from \in Texts
    /\ \/ prof = Template /\ from = <<>>
       \/ /\ LoadFile(from).ok
          /\ \E id \in 1 .. MaxId : prof = ReadProfile(Template, LoadFile(from).data, id)

\* The history of the text: a file is made of the lines of edits, and only a
\* load that succeeds changes the profile in use.
LEMMA ProfileFromText == Spec => []FromText
<1>1. Init => FromText
  <2>1. <<>> \in Texts
    BY DEF Texts
  <2> QED
    BY <2>1 DEF Init, NoFile, FromText
<1>2. TypeOK /\ FromText /\ [Next]_vars => FromText'
  <2> SUFFICES ASSUME TypeOK, FromText, [Next]_vars PROVE FromText'
    OBVIOUS
  <2>1. CASE Edit
    <3>1. PICK lines \in Edits : file' = [there |-> TRUE, lines |-> file.lines \o lines]
      BY <2>1 DEF Edit
    <3>2. lines \in Texts
      BY EditsAssumption DEF Texts
    <3>3. file.lines \o lines \in Texts
      BY <3>2 DEF FromText, Texts
    <3> QED
      BY <2>1, <3>1, <3>3 DEF Edit, FromText
  <2>2. CASE Delete
    <3>1. <<>> \in Texts
      BY DEF Texts
    <3> QED
      BY <2>2, <3>1 DEF Delete, FromText, NoFile
  <2>3. CASE LoadFails
    BY <2>3 DEF LoadFails, FromText
  <2>4. CASE Load
    <3>1. /\ from' = file.lines /\ file' = file /\ LoadFile(file.lines).ok
          /\ prof' = ReadProfile(Template, LoadFile(file.lines).data, uid)
      BY <2>4 DEF Load
    <3>2. uid \in 1 .. MaxId
      BY DEF TypeOK
    <3>3. prof' = ReadProfile(Template, LoadFile(from').data, uid) /\ LoadFile(from').ok
      BY <3>1
    <3> QED
      BY <3>1, <3>2, <3>3 DEF FromText
  <2>5. CASE UNCHANGED vars
    BY <2>5 DEF vars, FromText
  <2> QED
    BY <2>1, <2>2, <2>3, <2>4, <2>5 DEF Next
<1> QED
  BY <1>1, <1>2, TypeCorrect, PTL DEF Spec

\* The names that are asked for are found.
LEMMA SectionsAskable ==
    ASSUME NEW key, key # <<>>, IsName(key)
    PROVE  Askable(<<"Bindings">>, key) /\ Askable(<<"GamepadAxes">>, key) /\ Askable(<<"MotionAxes">>, key)
<1>1. \A x \in NamePieces : IsName(<<x>>)
  BY DEF IsName
<1>2. IsName(<<"Bindings">>) /\ IsName(<<"GamepadAxes">>) /\ IsName(<<"MotionAxes">>)
  BY <1>1, NamesAssumption
<1>3. DefaultSection.name = <<"NONE">>
  BY DEF DefaultSection, Section
<1>4. <<"Bindings">> # <<"NONE">> /\ <<"GamepadAxes">> # <<"NONE">> /\ <<"MotionAxes">> # <<"NONE">>
  OBVIOUS
<1> QED
  BY <1>2, <1>3, <1>4 DEF Askable

\* So are the keys of bindings.
LEMMA KeysAskable == ASSUME NEW i \in DOMAIN Keys PROVE Askable(<<"Bindings">>, Keys[i])
<1>1. Keys[i] \in Seq(NamePieces) \ {<<>>}
  BY KeysAssumption
<1>2. Keys[i] # <<>> /\ IsName(Keys[i])
  BY <1>1 DEF IsName
<1> QED
  BY <1>2, SectionsAskable

\* The codes that Load takes the names of a section's lines for.
ListedCodes(lines, section) == {AxisCode(NameAt(lines, i)) : i \in KeyLinesIn(lines, section)}

\* The lines of an empty text say nothing.
LEMMA NothingSaid ==
    ASSUME NEW section, NEW key
    PROVE  KeyLinesIn(<<>>, section) = {} /\ ListedCodes(<<>>, section) = {} /\ Said(<<>>, section, key) = <<>>
<1>1. KeyLinesIn(<<>>, section) = {}
  BY DEF KeyLinesIn
<1> QED
  BY <1>1 DEF ListedCodes, Said

\* A binding whose id is left out.
LEMMA WithoutId ==
    ASSUME NEW type, NEW ev, NEW code, NEW dir, NEW id, NEW delay, NEW str
    PROVE  Anonymous(Binding(type, ev, code, dir, id, delay, str)) = Binding(type, ev, code, dir, 0, delay, str)
BY DEF Anonymous, Binding

\* But for its id a binding is what its values give.
LEMMA SameButId ==
    ASSUME NEW vals, NEW id, NEW other, NEW b \in GetBinding(vals, id)
    PROVE  \E c \in GetBinding(vals, other) : Anonymous(b) = Anonymous(c)
<1> DEFINE kind == IF vals = <<>> THEN <<>> ELSE Uppercase(vals[1])
<1>1. CASE kind \in {<<d>> : d \in DOMAIN Devices}
  <2>1. GetBinding(vals, id) = GetEventBinding(vals) /\ GetBinding(vals, other) = GetEventBinding(vals)
    BY <1>1 DEF GetBinding, Devices
  <2> QED
    BY <2>1
<1>2. CASE kind = <<"COMMAND">>
  <2>1. /\ GetBinding(vals, id) = GetCommandBinding(vals, id)
        /\ GetBinding(vals, other) = GetCommandBinding(vals, other)
    BY <1>2 DEF GetBinding, Devices
  <2> DEFINE delay == IF Number(vals, 3) < 0 THEN 0 ELSE Number(vals, 3)
             up == FALSE
             Of(n) == Binding("command", "none", 0, up, n, delay, FullString(vals, 4))
             At(n) == Of(IF Waits(vals) THEN n ELSE 0)
  <2>2. \A n : GetCommandBinding(vals, n) = IF Len(vals) < 4 THEN {} ELSE {At(n)}
    BY DEF GetCommandBinding
  <2> HIDE DEF delay, up
  <2>3. ASSUME NEW n PROVE Anonymous(Of(n)) = Of(0)
    BY WithoutId
  <2> HIDE DEF Of
  <2>4. b = At(id) /\ At(other) \in GetBinding(vals, other)
    BY <2>1, <2>2
  <2> QED
    BY <2>3, <2>4
<1>3. CASE kind = <<"PROFILE">>
  <2>1. GetBinding(vals, id) = GetProfileBinding(vals) /\ GetBinding(vals, other) = GetProfileBinding(vals)
    BY <1>3 DEF GetBinding, Devices
  <2> QED
    BY <2>1
<1>4. CASE kind \notin {<<d>> : d \in DOMAIN Devices} /\ kind # <<"COMMAND">> /\ kind # <<"PROFILE">>
  <2>1. GetBinding(vals, id) = {}
    BY <1>4 DEF GetBinding
  <2> QED
    BY <2>1
<1> QED
  BY <1>1, <1>2, <1>3, <1>4

\* What is read for an input is what the text gives it.
LEMMA ReadGiven ==
    ASSUME NEW lines \in Texts, LoadFile(lines).ok, NEW id, NEW i \in DOMAIN Keys
    PROVE  {Anonymous(b) : b \in ReadBinding(LoadFile(lines).data, i, id)} = Given(lines, Keys[i])
<1> DEFINE data == LoadFile(lines).data
           vals == GetVal(data, <<"Bindings">>, Keys[i])
           n == id + Cardinality(Waiting(data, i - 1))
<1>1. vals = Said(lines, <<"Bindings">>, Keys[i])
  BY KeysAskable, LookupSaid
<1>2. Given(lines, Keys[i]) = {Anonymous(b) : b \in GetBinding(vals, 0)}
  BY <1>1 DEF Given
<1>3. ReadBinding(data, i, id) = GetBinding(vals, n)
  BY DEF ReadBinding
<1> HIDE DEF data, vals, n
<1>4. \A b \in GetBinding(vals, n) : \E c \in GetBinding(vals, 0) : Anonymous(b) = Anonymous(c)
  BY SameButId
<1>5. \A b \in GetBinding(vals, 0) : \E c \in GetBinding(vals, n) : Anonymous(b) = Anonymous(c)
  BY SameButId
<1>6. {Anonymous(b) : b \in GetBinding(vals, n)} = {Anonymous(b) : b \in GetBinding(vals, 0)}
  BY <1>4, <1>5
<1> QED
  BY <1>2, <1>3, <1>6 DEF data

\* The inputs that go to the slot of an input: itself, and after it the region
\* of the right pad, when it is one of the left pad; to a slot of the right pad's
\* own none goes.
LEMMA InputsAtSlot ==
    ASSUME NEW i \in DOMAIN Keys, NEW j \in DOMAIN Keys, Slot(Keys[j]) = Keys[i]
    PROVE  /\ ~IsRegion("RPadPress", Keys[i])
           /\ j # i => /\ IsRegion("LPadPress", Keys[i]) /\ Keys[j] = <<"RPadPress", Keys[i][2]>>
                       /\ i < j
<1>1. CASE IsRegion("RPadPress", Keys[j])
  <2>1. Keys[i] = <<"LPadPress", Keys[j][2]>>
    BY <1>1 DEF Slot
  <2>2. IsRegion("LPadPress", Keys[i]) /\ Keys[i][2] = Keys[j][2] /\ ~IsRegion("RPadPress", Keys[i])
    BY <2>1 DEF IsRegion
  <2>3. Keys[j] \in Seq(NamePieces)
    BY KeysAssumption
  <2>4. Keys[j] = <<Keys[j][1], Keys[j][2]>>
    BY <1>1, <2>3 DEF IsRegion
  <2>5. Keys[j] = <<"RPadPress", Keys[i][2]>>
    BY <1>1, <2>2, <2>4 DEF IsRegion
  <2>6. i < j
    BY <1>1, <2>1, RegionsAssumption
  <2> QED
    BY <2>2, <2>5, <2>6
<1>2. CASE ~IsRegion("RPadPress", Keys[j])
  <2>1. Keys[j] = Keys[i]
    BY <1>2 DEF Slot
  <2>2. j = i
    BY <2>1, KeysAssumption
  <2> QED
    BY <1>2, <2>2
<1> QED
  BY <1>1, <1>2

\* And both of these do go there.
LEMMA SlotOfInput ==
    ASSUME NEW i \in DOMAIN Keys
    PROVE  /\ ~IsRegion("RPadPress", Keys[i]) => Slot(Keys[i]) = Keys[i]
           /\ \A j \in DOMAIN Keys :
                 IsRegion("LPadPress", Keys[i]) /\ Keys[j] = <<"RPadPress", Keys[i][2]>> => Slot(Keys[j]) = Keys[i]
<1>1. ASSUME NEW j \in DOMAIN Keys, IsRegion("LPadPress", Keys[i]), Keys[j] = <<"RPadPress", Keys[i][2]>>
      PROVE  Slot(Keys[j]) = Keys[i]
  <2>1. Slot(Keys[j]) = <<"LPadPress", Keys[i][2]>>
    BY <1>1 DEF Slot, IsRegion
  <2>2. Keys[i] \in Seq(NamePieces)
    BY KeysAssumption
  <2>3. Keys[i] = <<Keys[i][1], Keys[i][2]>>
    BY <1>1, <2>2 DEF IsRegion
  <2> QED
    BY <1>1, <2>1, <2>3 DEF IsRegion
<1> QED
  BY <1>1 DEF Slot

\* The profile in use has at every input what the first line for it in the
\* sections named Bindings says, and nothing where there is none, after any
\* loads that failed or succeeded before; but a region of the right pad has
\* nothing, and one of the left pad what the right pad's line says if there is one.
THEOREM BindingsFromText == Spec => []BindingsAsWritten
<1>1. TypeOK /\ FromText => BindingsAsWritten
  <2> SUFFICES ASSUME FromText, NEW i \in DOMAIN Keys
               PROVE  LET key == Keys[i]
                          own == Given(from, key)
                          right == {j \in DOMAIN Keys : IsRegion("LPadPress", key)
                                                          /\ Keys[j] = <<"RPadPress", key[2]>>}
                          over == UNION {Given(from, Keys[j]) : j \in right}
                          found == Anonymous(prof.map[key])
                      IN  /\ IsRegion("RPadPress", key) => found = NoBinding
                          /\ over # {} => found \in over
                          /\ ~IsRegion("RPadPress", key) /\ over = {}
                                => found \in (IF own = {} THEN {NoBinding} ELSE own)
    BY DEF BindingsAsWritten
  <2> DEFINE own == Given(from, Keys[i])
             right == {j \in DOMAIN Keys : IsRegion("LPadPress", Keys[i])
                                             /\ Keys[j] = <<"RPadPress", Keys[i][2]>>}
             over == UNION {Given(from, Keys[j]) : j \in right}
             found == Anonymous(prof.map[Keys[i]])
  <2>1. Anonymous(NoBinding) = NoBinding
    BY DEF Anonymous, NoBinding, Binding
  <2>2. Keys[i] \in Slots
    BY DEF Slots
  <2>3. CASE prof = Template /\ from = <<>>
    <3>1. ASSUME NEW k \in DOMAIN Keys PROVE Given(from, Keys[k]) = {}
      <4>1. Said(from, <<"Bindings">>, Keys[k]) = <<>>
        BY <2>3, NothingSaid
      <4>2. GetBinding(<<>>, 0) = {}
        BY DEF GetBinding, Devices
      <4> QED
        BY <4>1, <4>2 DEF Given
    <3>2. own = {} /\ over = {}
      BY <3>1
    <3>3. found = NoBinding
      BY <2>1, <2>2, <2>3 DEF Template
    <3> QED
      BY <3>2, <3>3
  <2>4. CASE LoadFile(from).ok /\ \E id \in 1 .. MaxId : prof = ReadProfile(Template, LoadFile(from).data, id)
    <3>1. PICK id \in 1 .. MaxId : prof = ReadProfile(Template, LoadFile(from).data, id)
      BY <2>4
    <3> DEFINE data == LoadFile(from).data
               For == InputsOf(data, id, Keys[i])
    <3>2. \A k \in DOMAIN Keys : {Anonymous(b) : b \in ReadBinding(data, k, id)} = Given(from, Keys[k])
      BY <2>4, ReadGiven DEF FromText
    <3>3. prof = ReadProfile(Template, data, id)
      BY <3>1
    <3> HIDE DEF data
    <3>4. \A k \in DOMAIN Keys : ReadBinding(data, k, id) = {} <=> Given(from, Keys[k]) = {}
      BY <3>2
    <3>5. /\ For = {} => prof.map[Keys[i]] = NoBinding
          /\ For # {} => prof.map[Keys[i]] \in ReadBinding(data, Max(For), id) /\ Max(For) \in For
      BY <2>2, <3>3, SlotIs
    <3>6. For = {k \in DOMAIN Keys : Slot(Keys[k]) = Keys[i] /\ Given(from, Keys[k]) # {}}
      BY <3>4 DEF InputsOf
    <3> DEFINE last == Max(For)
    <3>7. For # {} => found \in Given(from, Keys[last]) /\ last \in For
      BY <3>2, <3>5, <3>6
    <3>8. For = {} => found = NoBinding
      BY <2>1, <3>5
    <3>9. Len(Keys) \in Nat /\ For \in SUBSET (1 .. Len(Keys))
      BY <3>6, KeysAssumption
    <3>10. \A k \in For : k <= last
      BY <3>9, Greatest
    <3> HIDE DEF For, found, last
    <3>11. CASE IsRegion("RPadPress", Keys[i])
      <4>1. For = {}
        BY <3>6, <3>11, InputsAtSlot
      <4>2. over = {}
        BY <3>11 DEF IsRegion
      <4> QED
        BY <3>8, <3>11, <4>1, <4>2 DEF found
    <3>12. CASE ~IsRegion("RPadPress", Keys[i]) /\ over # {}
      <4>1. PICK j \in right : Given(from, Keys[j]) # {}
        BY <3>12
      <4>2. j \in For /\ j \in DOMAIN Keys
        BY <3>6, <4>1, SlotOfInput
      <4>3. i < j
        BY <3>6, <4>2, <4>1, InputsAtSlot DEF IsRegion
      <4>4. last \in For /\ found \in Given(from, Keys[last])
        BY <3>7, <4>2
      <4>5. i \in Nat /\ j \in Nat /\ last \in Nat /\ j <= last
        BY <3>9, <3>10, <4>2, <4>4, KeysAssumption
      <4>6. last # i
        BY <4>3, <4>5
      <4>7. last \in right
        BY <3>6, <4>4, <4>6, InputsAtSlot
      <4> QED
        BY <3>12, <4>4, <4>7 DEF found
    <3>13. CASE ~IsRegion("RPadPress", Keys[i]) /\ over = {}
      <4>1. For \subseteq {i}
        <5> SUFFICES ASSUME NEW k \in For, k # i PROVE FALSE
          OBVIOUS
        <5>1. k \in right /\ Given(from, Keys[k]) # {}
          BY <3>6, InputsAtSlot
        <5> QED
          BY <3>13, <5>1
      <4>2. CASE own = {}
        <5>1. For = {}
          BY <3>6, <4>1, <4>2
        <5> QED
          BY <3>8, <3>13, <4>2, <5>1 DEF found
      <4>3. CASE own # {}
        <5>1. For = {i}
          BY <3>6, <3>13, <4>1, <4>3, SlotOfInput
        <5>2. found \in own
          BY <3>7, <5>1
        <5> QED
          BY <3>13, <4>3, <5>2 DEF found
      <4> QED
        BY <4>2, <4>3
    <3> QED
      BY <3>11, <3>12, <3>13
  <2> QED
    BY <2>3, <2>4 DEF FromText
<1> QED
  BY <1>1, TypeCorrect, ProfileFromText, PTL

-----------------------------------------------------------------------------
(* Axes.                                                                   *)

\* The first line of a code in a section of axes.
FirstOf(lines, section, c) ==
    NameAt(lines, Min({i \in KeyLinesIn(lines, section) : AxisCode(NameAt(lines, i)) = c}))

\* The axes of a section are those its lines list, each with the range that
\* the first name for it has.
LEMMA AxesListed ==
    ASSUME NEW lines \in Texts, LoadFile(lines).ok, NEW section \in {<<"GamepadAxes">>, <<"MotionAxes">>}
    PROVE  LET axes == Axes(LoadFile(lines).data, section)
           IN  /\ DOMAIN axes = ListedCodes(lines, section)
               /\ \A c \in ListedCodes(lines, section) :
                     /\ axes[c] = GetAxisRange(LoadFile(lines).data, section, FirstOf(lines, section, c))
                     /\ Askable(section, FirstOf(lines, section, c))
<1> DEFINE data == LoadFile(lines).data
           listed == KeyLinesIn(lines, section)
           Code(p) == AxisCode(KeyAt(data, p).name)
<1>1. PICK pl : Corresponds(lines, Len(lines), data, pl)
  BY FileCorresponds
<1>2. data \in Seq(Sections)
  BY LoadedData DEF Datas
<1>3. Axes(data, section) =
        [c \in {Code(p) : p \in KeyPlaces(data, section)} |->
            GetAxisRange(data, section,
                         KeyAt(data, FirstPlace({p \in KeyPlaces(data, section) : Code(p) = c})).name)]
  BY DEF Axes
<1> HIDE DEF data
<1>4. listed \in SUBSET KeyLinesUpTo(lines, Len(lines)) /\ KeyPlaces(data, section) = {pl[i] : i \in listed}
  BY <1>1, <1>2, ListedLines
<1>5. \A i \in listed : KeyAt(data, pl[i]).name = NameAt(lines, i)
  BY <1>1, <1>4 DEF Corresponds
<1>6. \A i \in listed : NameAt(lines, i) # <<>> /\ IsName(NameAt(lines, i))
  <2> SUFFICES ASSUME NEW i \in listed PROVE NameAt(lines, i) # <<>> /\ IsName(NameAt(lines, i))
    OBVIOUS
  <2>1. i \in DOMAIN lines /\ IsKeyLine(VectoriseLine(lines[i]))
    BY DEF KeyLinesIn
  <2>2. lines[i] \in Seq(Pieces)
    BY <2>1 DEF Texts
  <2>3. VectoriseLine(lines[i]) \in Seq(Words)
    BY <2>2, LineWords
  <2>4. Len(VectoriseLine(lines[i])) > 2 /\ IsName(NameAt(lines, i))
    BY <2>1 DEF IsKeyLine, NameAt
  <2>5. NameAt(lines, i) \in Words
    BY <2>3, <2>4 DEF NameAt
  <2> QED
    BY <2>4, <2>5 DEF Words
<1>7. {Code(p) : p \in KeyPlaces(data, section)} = ListedCodes(lines, section)
  BY <1>4, <1>5 DEF ListedCodes
<1>8. ASSUME NEW c \in ListedCodes(lines, section)
      PROVE  /\ KeyAt(data, FirstPlace({p \in KeyPlaces(data, section) : Code(p) = c})).name
                  = FirstOf(lines, section, c)
             /\ Askable(section, FirstOf(lines, section, c))
  <2> DEFINE A == {i \in listed : AxisCode(NameAt(lines, i)) = c}
  <2>1. A # {} /\ A \in SUBSET KeyLinesUpTo(lines, Len(lines)) /\ \A i \in A : i \in listed
    BY <1>4 DEF ListedCodes
  <2>2. {p \in KeyPlaces(data, section) : Code(p) = c} = {pl[i] : i \in A}
    BY <1>4, <1>5
  <2>3. FirstOf(lines, section, c) = NameAt(lines, Min(A))
    BY DEF FirstOf
  <2> HIDE DEF A, listed, Code
  <2>4. Len(lines) \in Nat
    BY DEF Texts
  <2>5. Min(A) \in A /\ FirstPlace({pl[i] : i \in A}) = pl[Min(A)]
    BY <1>1, <2>1, <2>4, FirstLine
  <2>6. Min(A) \in listed
    BY <2>1, <2>5
  <2>7. KeyAt(data, pl[Min(A)]).name = NameAt(lines, Min(A))
    BY <1>5, <2>6
  <2>8. Askable(section, NameAt(lines, Min(A)))
    BY <1>6, <2>6, SectionsAskable
  <2> QED
    BY <2>2, <2>3, <2>5, <2>7, <2>8
<1> HIDE DEF Code
<1> QED
  BY <1>3, <1>7, <1>8 DEF data

\* The first two of four numbers.
LEMMA FirstTwo ==
    ASSUME NEW p \in Int, NEW q \in Int, NEW r \in Int, NEW t \in Int
    PROVE  SubSeq(<<p, q>> \o <<r, t>>, 1, 2) = <<p, q>> /\ SubSeq(<<p, q, r, t>>, 1, 2) = <<p, q>>
<1>1. ASSUME NEW s \in Seq(Int), Len(s) = 4, s[1] = p, s[2] = q PROVE SubSeq(s, 1, 2) = <<p, q>>
  <2>1. SubSeq(s, 1, 2) \in Seq(Int) /\ Len(SubSeq(s, 1, 2)) = 2
    BY <1>1
  <2>2. \A i \in 1 .. 2 : SubSeq(s, 1, 2)[i] = s[i]
    BY <1>1
  <2>3. <<p, q>> \in Seq(Int) /\ Len(<<p, q>>) = 2 /\ <<p, q>>[1] = p /\ <<p, q>>[2] = q
    OBVIOUS
  <2>4. \A i \in 1 .. 2 : i = 1 \/ i = 2
    OBVIOUS
  <2> DEFINE t2 == SubSeq(s, 1, 2)
             u == <<p, q>>
  <2>5. t2 \in Seq(Int) /\ u \in Seq(Int) /\ Len(t2) = 2 /\ Len(u) = 2
    BY <2>1, <2>3
  <2>6. \A i \in 1 .. 2 : t2[i] = u[i]
    BY <1>1, <2>2, <2>3, <2>4
  <2> HIDE DEF t2, u
  <2>7. t2 = u
    BY <2>5, <2>6, SeqEqual
  <2> QED
    BY <2>7 DEF t2, u
<1>2. <<p, q, r, t>> \in Seq(Int) /\ Len(<<p, q, r, t>>) = 4 /\ <<p, q, r, t>>[1] = p /\ <<p, q, r, t>>[2] = q
  OBVIOUS
<1>3. <<p, q>> \in Seq(Int) /\ <<r, t>> \in Seq(Int) /\ Len(<<p, q>>) = 2 /\ Len(<<r, t>>) = 2
      /\ <<p, q>>[1] = p /\ <<p, q>>[2] = q
  OBVIOUS
<1> DEFINE s == <<p, q>> \o <<r, t>>
<1>4. s \in Seq(Int) /\ Len(s) = 4 /\ s[1] = p /\ s[2] = q
  BY <1>3, ConcatProperties
<1> HIDE DEF s
<1> QED
  BY <1>1, <1>2, <1>4 DEF s

\* The absolute axes of a profile that was read from a text.
LEMMA AxesOfProfile ==
    ASSUME FromText
    PROVE  /\ DOMAIN prof.abs.game = ListedCodes(from, <<"GamepadAxes">>)
           /\ DOMAIN prof.abs.motion = ListedCodes(from, <<"MotionAxes">>)
           /\ \A c \in DOMAIN prof.abs.game :
                 LET said == Said(from, <<"GamepadAxes">>, FirstOf(from, <<"GamepadAxes">>, c))
                     range == <<Number(said, 1), Number(said, 2)>>
                 IN  prof.abs.game[c] =
                        IF Len(said) < 2 THEN <<0, 0, 0, 0>>
                        ELSE (IF range[1] = range[2] THEN <<0, 0>> ELSE range)
                             \o <<Number(said, 3), Number(said, 4)>>
<1>1. CASE prof = Template /\ from = <<>>
  <2>1. DOMAIN prof.abs.game = {} /\ DOMAIN prof.abs.motion = {}
    BY <1>1 DEF Template, NoAxes
  <2>2. ListedCodes(from, <<"GamepadAxes">>) = {} /\ ListedCodes(from, <<"MotionAxes">>) = {}
    BY <1>1, NothingSaid
  <2> QED
    BY <2>1, <2>2
<1>2. CASE LoadFile(from).ok /\ \E id \in 1 .. MaxId : prof = ReadProfile(Template, LoadFile(from).data, id)
  <2> DEFINE data == LoadFile(from).data
  <2>1. from \in Texts
    BY DEF FromText
  <2>2. /\ prof.abs.game = AddAbsEvents(Template.abs.game, Axes(data, <<"GamepadAxes">>))
        /\ prof.abs.motion = AddAbsEvents(Template.abs.motion, Axes(data, <<"MotionAxes">>))
    BY <1>2 DEF ReadProfile
  <2>3. DOMAIN Template.abs.game = {} /\ DOMAIN Template.abs.motion = {}
    BY DEF Template, NoAxes
  <2>4. /\ DOMAIN prof.abs.game = DOMAIN Axes(data, <<"GamepadAxes">>)
        /\ \A c \in DOMAIN prof.abs.game : prof.abs.game[c] = Axes(data, <<"GamepadAxes">>)[c]
        /\ DOMAIN prof.abs.motion = DOMAIN Axes(data, <<"MotionAxes">>)
    BY <2>2, <2>3 DEF AddAbsEvents
  <2>5. /\ DOMAIN Axes(data, <<"GamepadAxes">>) = ListedCodes(from, <<"GamepadAxes">>)
        /\ DOMAIN Axes(data, <<"MotionAxes">>) = ListedCodes(from, <<"MotionAxes">>)
    BY <1>2, <2>1, AxesListed
  <2>6. ASSUME NEW c \in DOMAIN prof.abs.game
        PROVE  LET said == Said(from, <<"GamepadAxes">>, FirstOf(from, <<"GamepadAxes">>, c))
                   range == <<Number(said, 1), Number(said, 2)>>
               IN  prof.abs.game[c] =
                      IF Len(said) < 2 THEN <<0, 0, 0, 0>>
                      ELSE (IF range[1] = range[2] THEN <<0, 0>> ELSE range)
                           \o <<Number(said, 3), Number(said, 4)>>
    <3>1. c \in ListedCodes(from, <<"GamepadAxes">>)
      BY <2>4, <2>5
    <3> DEFINE first == FirstOf(from, <<"GamepadAxes">>, c)
    <3>2. prof.abs.game[c] = GetAxisRange(data, <<"GamepadAxes">>, first) /\ Askable(<<"GamepadAxes">>, first)
      BY <1>2, <2>1, <2>4, <3>1, AxesListed
    <3> HIDE DEF first
    <3>3. GetVal(data, <<"GamepadAxes">>, first) = Said(from, <<"GamepadAxes">>, first)
      BY <1>2, <2>1, <3>2, LookupSaid
    <3> QED
      BY <3>2, <3>3, Zenon DEF GetAxisRange, first
  <2> QED
    BY <2>4, <2>5, <2>6
<1> QED
  BY <1>1, <1>2 DEF FromText

\* A name of a kind is taken for this kind.
LEMMA TypeOfName ==
    ASSUME NEW t \in EvTypes, NEW name \in DOMAIN CodeOf[t]
    PROVE  GetEvType(name) = t
<1>1. \A u \in EvTypes : Uppercase(name)[1] \in EvPrefixes[u] <=> u = t
  BY TablesAssumption DEF EvTypes, EvPrefixes
<1>2. {u \in EvTypes : Uppercase(name)[1] \in EvPrefixes[u]} = {t}
  BY <1>1
<1> QED
  BY <1>2 DEF GetEvType

\* Below the number that -1 becomes, the code that Load takes a name for is the
\* one that the tables have for it.
LEMMA CodeNamed ==
    ASSUME NEW name
    PROVE  /\ AxisCode(name) \in Nat
           /\ \A c \in Nat : c < 65535 =>
                 (AxisCode(name) = c <=>
                    \E t \in EvTypes : name \in DOMAIN CodeOf[t] /\ CodeOf[t][name] = c /\ c < MaxOf[t])
<1>1. CASE GetEvCode(name) = -1
  <2>1. AxisCode(name) = 65535
    <3> DEFINE n == GetEvCode(name)
    <3>1. n \in Int /\ n + 1 = 0 /\ AxisCode(name) = n % 65536
      BY <1>1 DEF AxisCode
    <3> HIDE DEF n
    <3>2. n % 65536 = 65535
      BY <3>1
    <3> QED
      BY <3>1, <3>2
  <2>2. ASSUME NEW t \in EvTypes, name \in DOMAIN CodeOf[t], CodeOf[t][name] < MaxOf[t]
        PROVE  FALSE
    <3>1. GetEvType(name) = t /\ t # "none"
      BY <2>2, TypeOfName DEF EvTypes
    <3>2. CodeOf[t][name] \in Nat /\ MaxOf[t] \in Nat
      BY <2>2, NumbersAssumption
    <3> QED
      BY <1>1, <2>2, <3>1, <3>2 DEF GetEvCode
  <2> QED
    BY <2>1, <2>2
<1>2. CASE GetEvCode(name) # -1
  <2> DEFINE u == GetEvType(name)
  <2>1. u # "none" /\ name \in DOMAIN CodeOf[u] /\ GetEvCode(name) = CodeOf[u][name]
        /\ ~(CodeOf[u][name] >= MaxOf[u])
    BY <1>2 DEF GetEvCode
  <2>2. u \in EvTypes
    BY <2>1 DEF GetEvType
  <2>3. GetEvCode(name) \in Nat /\ MaxOf[u] \in Nat /\ MaxOf[u] <= 65535
    BY <2>1, <2>2, NumbersAssumption, CodesAssumption
  <2>4. GetEvCode(name) < MaxOf[u] /\ AxisCode(name) = GetEvCode(name)
    <3> DEFINE n == GetEvCode(name)
               m == MaxOf[u]
    <3>1. n \in Nat /\ m \in Nat /\ m <= 65535 /\ ~(n >= m) /\ AxisCode(name) = n % 65536
      BY <2>1, <2>3 DEF AxisCode
    <3> HIDE DEF n, m
    <3>2. n < m /\ n % 65536 = n
      BY <3>1
    <3> QED
      BY <3>1, <3>2 DEF n, m
  <2>5. ASSUME NEW t \in EvTypes, name \in DOMAIN CodeOf[t] PROVE t = u
    BY <2>5, TypeOfName
  <2> HIDE DEF u
  <2> QED
    BY <2>1, <2>2, <2>3, <2>4, <2>5
<1> QED
  BY <1>1, <1>2

\* So the lines of a section with this code are those that name it.
LEMMA LinesNamed ==
    ASSUME NEW lines, NEW section, NEW c \in Nat, c < MaxOf["abs"]
    PROVE  /\ {i \in KeyLinesIn(lines, section) : AxisCode(NameAt(lines, i)) = c} = Naming(lines, section, c)
           /\ c \in ListedCodes(lines, section) <=> Naming(lines, section, c) # {}
           /\ FirstOf(lines, section, c) = NameAt(lines, Min(Naming(lines, section, c)))
<1>1. c < 65535
  BY NumbersAssumption, CodesAssumption DEF EvTypes
<1>2. {i \in KeyLinesIn(lines, section) : AxisCode(NameAt(lines, i)) = c} = Naming(lines, section, c)
  BY <1>1, CodeNamed DEF Naming
<1> QED
  BY <1>2 DEF ListedCodes, FirstOf

\* An absolute axis that is bound reaches its device just when a line of its
\* section has a name of the tables, as they have it, with the axis's code.
THEOREM AxesEnabled == Spec => []AxesReachDevices
<1>1. FromText => AxesReachDevices
  <2> SUFFICES ASSUME FromText, NEW s \in Slots,
                      prof.map[s].type \in {"game", "motion"}, prof.map[s].ev = "abs",
                      prof.map[s].type = "motion" => prof.features.MotionDevice
               PROVE  Emits(prof, prof.map[s]) <=>
                        Naming(from, IF prof.map[s].type = "game" THEN <<"GamepadAxes">> ELSE <<"MotionAxes">>,
                               prof.map[s].code) # {}
    BY DEF AxesReachDevices
  <2> DEFINE b == prof.map[s]
  <2>1. b # NoBinding
    BY DEF NoBinding, Binding
  <2>2. b.code \in Nat /\ b.code < MaxOf["abs"]
    <3>1. CASE prof = Template
      BY <2>1, <3>1 DEF Template
    <3>2. CASE \E id \in 1 .. MaxId : prof = ReadProfile(Template, LoadFile(from).data, id)
      <4>1. PICK id \in 1 .. MaxId : prof = ReadProfile(Template, LoadFile(from).data, id)
        BY <3>2
      <4>2. PICK i \in DOMAIN Keys : b \in ReadBinding(LoadFile(from).data, i, id)
        BY <2>1, <4>1, SlotRead
      <4> QED
        BY <4>2, BindingCode DEF ReadBinding
    <3> QED
      BY <3>1, <3>2 DEF FromText
  <2>3. /\ DOMAIN prof.abs.game = ListedCodes(from, <<"GamepadAxes">>)
        /\ DOMAIN prof.abs.motion = ListedCodes(from, <<"MotionAxes">>)
    BY AxesOfProfile
  <2>4. b.type \in DevicesOf(prof)
    BY DEF DevicesOf
  <2>5. /\ DeviceCodes(prof)["game"]["abs"] = {c \in DOMAIN prof.abs.game : c < MaxOf["abs"]}
        /\ DeviceCodes(prof)["motion"]["abs"] = {c \in DOMAIN prof.abs.motion : c < MaxOf["abs"]}
    BY DEF DeviceCodes
  <2>6. \A section : b.code \in ListedCodes(from, section) <=> Naming(from, section, b.code) # {}
    BY <2>2, LinesNamed
  <2> QED
    BY <2>2, <2>3, <2>4, <2>5, <2>6 DEF Emits
<1> QED
  BY <1>1, ProfileFromText, PTL

\* The gamepad has just the axes that a line of the text names, each with the
\* range of the first line that has the first of these names in whatever case.
THEOREM AxesFromText == Spec => []AxesAsWritten
<1>1. FromText => AxesAsWritten
  <2> SUFFICES ASSUME FromText PROVE AxesAsWritten
    OBVIOUS
  <2> DEFINE section == <<"GamepadAxes">>
             enabled == DeviceCodes(prof).game.abs
             Names(c) == Said(from, section, FirstOf(from, section, c))
  <2>1. enabled = {c \in 0 .. MaxOf.abs - 1 : Naming(from, section, c) # {}}
    <3>1. enabled = {c \in ListedCodes(from, section) : c < MaxOf.abs}
      BY AxesOfProfile DEF DeviceCodes
    <3>2. MaxOf.abs \in Nat
      BY NumbersAssumption DEF EvTypes
    <3>3. ListedCodes(from, section) \subseteq Nat
      BY CodeNamed DEF ListedCodes
    <3>4. enabled = {c \in 0 .. MaxOf.abs - 1 : c \in ListedCodes(from, section)}
      BY <3>1, <3>2, <3>3
    <3>5. \A c \in 0 .. MaxOf.abs - 1 : c \in ListedCodes(from, section) <=> Naming(from, section, c) # {}
      BY <3>2, LinesNamed
    <3> QED
      BY <3>4, <3>5
  <2>2. ASSUME NEW c \in enabled
        PROVE  LET said == Said(from, section, FirstOf(from, section, c))
                   range == <<Number(said, 1), Number(said, 2)>>
               IN  SubSeq(prof.abs.game[c], 1, 2) =
                      IF Len(said) < 2 \/ range[1] = range[2] THEN <<0, 0>> ELSE range
    <3> DEFINE said == Said(from, section, FirstOf(from, section, c))
               x == Number(said, 1)
               y == Number(said, 2)
               z == Number(said, 3)
               w == Number(said, 4)
    <3>1. c \in DOMAIN prof.abs.game
      BY DEF DeviceCodes
    <3>2. prof.abs.game[c] = IF Len(said) < 2 THEN <<0, 0, 0, 0>>
                             ELSE (IF x = y THEN <<0, 0>> ELSE <<x, y>>) \o <<z, w>>
      BY <3>1, AxesOfProfile
    <3>3. \A i : Number(said, i) \in Int
      BY NumbersAssumption DEF Number
    <3>4. x \in Int /\ y \in Int /\ z \in Int /\ w \in Int
      BY <3>3
    <3>5. \A p, q, r, t \in Int : /\ SubSeq(<<p, q>> \o <<r, t>>, 1, 2) = <<p, q>>
                                 /\ SubSeq(<<p, q, r, t>>, 1, 2) = <<p, q>>
      BY FirstTwo
    <3> HIDE DEF said, x, y, z, w
    <3>6. SubSeq(prof.abs.game[c], 1, 2) = IF Len(said) < 2 \/ x = y THEN <<0, 0>> ELSE <<x, y>>
      BY <3>2, <3>4, <3>5
    <3> QED
      BY <3>6 DEF said, x, y
  <2>3. ASSUME NEW c \in enabled
        PROVE  FirstOf(from, section, c) = NameAt(from, Min(Naming(from, section, c)))
    <3>1. MaxOf.abs \in Nat
      BY NumbersAssumption DEF EvTypes
    <3>2. c \in Nat /\ c < MaxOf["abs"]
      BY <2>1, <3>1
    <3> QED
      BY <3>2, LinesNamed
  <2> HIDE DEF enabled
  <2>4. ASSUME NEW c \in enabled
        PROVE  LET said == Said(from, section, NameAt(from, Min(Naming(from, section, c))))
                   range == <<Number(said, 1), Number(said, 2)>>
               IN  SubSeq(prof.abs.game[c], 1, 2) =
                      IF Len(said) < 2 \/ range[1] = range[2] THEN <<0, 0>> ELSE range
    BY <2>2, <2>3
  <2> QED
    BY <2>1, <2>4 DEF AxesAsWritten, enabled
<1> QED
  BY <1>1, ProfileFromText, PTL

-----------------------------------------------------------------------------
(* Saving and loading.                                                     *)

\* Until something is loaded there is no ini data, then what LoadFile leaves.
IniLoaded == mIni = <<>> \/ (mIni \in Datas /\ Sound(mIni))

\* A load leaves sound data, and nothing else changes the data.
LEMMA IniFromText == Spec => []IniLoaded
<1>1. Init => IniLoaded
  BY DEF Init, IniLoaded
<1>2. FromText /\ IniLoaded /\ [Next]_vars => IniLoaded'
  <2> SUFFICES ASSUME FromText, IniLoaded, [Next]_vars PROVE IniLoaded'
    OBVIOUS
  <2>1. LoadFile(file.lines).data \in Datas /\ Sound(LoadFile(file.lines).data)
    BY LoadedSound DEF FromText
  <2>2. CASE Edit
    BY <2>2 DEF Edit, IniLoaded
  <2>3. CASE Delete
    BY <2>3 DEF Delete, IniLoaded
  <2>4. CASE LoadFails
    BY <2>1, <2>4 DEF LoadFails, IniLoaded
  <2>5. CASE Load
    BY <2>1, <2>5 DEF Load, IniLoaded
  <2>6. CASE UNCHANGED vars
    BY <2>6 DEF vars, IniLoaded
  <2> QED
    BY <2>2, <2>3, <2>4, <2>5, <2>6 DEF Next
<1> QED
  BY <1>1, <1>2, ProfileFromText, PTL DEF Spec

\* What a file says of a key are words.
LEMMA SaidWords ==
    ASSUME NEW lines \in Texts, NEW section, NEW key
    PROVE  Said(lines, section, key) \in Seq(Words)
<1> DEFINE at == {i \in KeyLinesIn(lines, section) : SameName(NameAt(lines, i), key)}
           i == Min(at)
           words == VectoriseLine(lines[i])
<1>1. CASE at = {}
  <2>1. Said(lines, section, key) = <<>>
    BY <1>1 DEF Said
  <2> QED
    BY <2>1
<1>2. CASE at # {}
  <2>1. at \subseteq Nat /\ at \subseteq DOMAIN lines /\ \A l \in at : IsKeyLine(VectoriseLine(lines[l]))
    BY DEF KeyLinesIn, Texts
  <2>2. i \in at
    BY <1>2, <2>1, Smallest
  <2>3. Said(lines, section, key) = SubSeq(words, 3, Len(words))
    BY <1>2 DEF Said
  <2> HIDE DEF at, i
  <2>4. lines[i] \in Seq(Pieces)
    BY <2>1, <2>2 DEF Texts
  <2>5. words \in Seq(Words)
    BY <2>4, LineWords
  <2>6. Len(words) > 2
    BY <2>1, <2>2 DEF IsKeyLine
  <2> HIDE DEF words
  <2>7. SubSeq(words, 3, Len(words)) \in Seq(Words)
    BY <2>5, <2>6
  <2> QED
    BY <2>3, <2>7 DEF i, words, at
<1> QED
  BY <1>1, <1>2

\* Saving what a file was loaded into, with any one value set, leaves a file
\* that a load reads back as what SaveFile left in memory, in it the value that
\* was set.
THEOREM SaveReadBack == Spec => []SavedIsLoaded
<1>1. FromText /\ IniLoaded => SavedIsLoaded
  <2> SUFFICES ASSUME FromText, IniLoaded, mIni # <<>>,
                      NEW key \in {Keys[i] : i \in DOMAIN Keys},
                      NEW values \in {Said(from, <<"Bindings">>, k) : k \in ToSet(Keys)} \ {<<>>},
                      Lasts(SetVal(mIni, <<"Bindings">>, key, values))
               PROVE  ReadBack(mIni, <<"Bindings">>, key, values)
    BY DEF SavedIsLoaded, Lasts, ReadBack
  <2>1. mIni \in Datas /\ Sound(mIni)
    BY DEF IniLoaded
  <2>2. key \in Seq(NamePieces) /\ Askable(<<"Bindings">>, key)
    BY KeysAskable, KeysAssumption
  <2>3. values \in Seq(Words) /\ values # <<>>
    BY SaidWords DEF FromText
  <2>4. <<"Bindings">> \in Seq(NamePieces)
    BY NamesAssumption
  <2> QED
    BY <2>1, <2>2, <2>3, <2>4, SetSavedRead
<1> QED
  BY <1>1, ProfileFromText, IniFromText, PTL
=============================================================================
