------------------------------ MODULE ProfileIni ------------------------------
(***************************************************************************)
(* Profiles: what src/opensdd/profile_ini.cpp makes of the text of a       *)
(* profile file, with the names of events of src/common/                   *)
(* input_event_names.cpp, and the virtual devices that Driver::SetProfile  *)
(* asks for a profile.  A user edits the file, the daemon loads it with    *)
(* the one ProfileIni it has and keeps the profile of the last load that   *)
(* succeeded.                                                              *)
(***************************************************************************)
EXTENDS Ini, FiniteSets

CONSTANTS
    Keys,           \* the keys of [Bindings], in the order Load reads them
    CodeOf,         \* KEY_MAP, ABS_MAP and REL_MAP
    MaxOf,          \* KEY_MAX, ABS_MAX and REL_MAX
    IntOf,          \* what std::stoi makes of the texts it can convert
    PercentOf,      \* what std::stod makes of them, in hundredths, or
    NaN,            \* the number that is none: the texts "nan" convert too
    HexOf,          \* what std::stoul makes of them in base 16
    TemplateKeys,   \* the keys and relative axes of the mouse in
    TemplateRels,   \* PROFILE_TEMPLATE
    Edits,          \* the lines a user may add to the file at a time
    MaxEdits,       \* bound: edits of a file
    MaxId           \* bound: ids of command bindings

EvTypes == {"key", "abs", "rel"}

ASSUME KeysAssumption ==
    /\ Keys \in Seq(Seq(NamePieces) \ {<<>>})
    /\ \A i, j \in DOMAIN Keys : Keys[i] = Keys[j] => i = j
ASSUME NumbersAssumption ==
    /\ \A t \in DOMAIN IntOf : IntOf[t] \in Int
    /\ \A t \in DOMAIN HexOf : HexOf[t] \in Nat
    /\ \A t \in EvTypes : \A name \in DOMAIN CodeOf[t] : CodeOf[t][name] \in Nat
    /\ \A t \in EvTypes : MaxOf[t] \in Nat
    /\ MaxOf.rel <= MaxOf.abs
ASSUME PercentAssumption == \A t \in DOMAIN PercentOf : PercentOf[t] = NaN \/ PercentOf[t] \in Int
ASSUME CodesAssumption == \A t \in EvTypes : MaxOf[t] <= 65535
\* The names of sections and keys that Load asks for are such names.
ASSUME NamesAssumption ==
    {"Bindings", "GamepadAxes", "MotionAxes", "Features", "Deadzones", "DeviceInfo"} \subseteq NamePieces
ASSUME EditsAssumption == Edits \subseteq Seq(Seq(Pieces))
ASSUME BoundsAssumption == MaxEdits \in Nat /\ MaxId \in Nat \ {0}

VARIABLES
    file,       \* the lines of the profile file, and whether it is there
    edits,      \* edits of the file so far
    mIni,       \* ProfileIni's ini data
    mProf,      \* the profile it is reading
    uid,        \* the next id of a command binding, a static of the program
    prof,       \* the profile in use: the result of the last good load
    from        \* history: the lines it was loaded from

vars == <<file, edits, mIni, mProf, uid, prof, from>>

-----------------------------------------------------------------------------
(* Event names and values.                                                 *)

EvPrefixes == [key |-> {"KEY_", "BTN_"}, abs |-> {"ABS_"}, rel |-> {"REL_"}]

GetEvType(name) ==
    LET types == {t \in EvTypes : Uppercase(name)[1] \in EvPrefixes[t]}
    IN  IF types = {} THEN "none" ELSE CHOOSE t \in types : TRUE

\* The tables have names in capitals, with the prefix of their kind.
ASSUME TablesAssumption ==
    \A t \in EvTypes : \A name \in DOMAIN CodeOf[t] : Uppercase(name)[1] \in EvPrefixes[t]

\* A name with an offset is in no map, and the code of a type's maximum is
\* refused.
GetEvCode(name) ==
    LET t == GetEvType(name)
    IN  IF t = "none" \/ name \notin DOMAIN CodeOf[t] \/ CodeOf[t][name] >= MaxOf[t]
        THEN -1 ELSE CodeOf[t][name]

Number(vals, i) ==
    IF i \in DOMAIN vals /\ vals[i] \in DOMAIN IntOf THEN IntOf[vals[i]] ELSE 0

Truth(value) ==
    LET v == Uppercase(value)
    IN  \/ v \in {<<"TRUE">>, <<"YES">>}
        \/ v \notin {<<"FALSE">>, <<"NO">>} /\ Number(<<value>>, 1) # 0

\* All values from one on, with a blank between them.
FullString(vals, i) ==
    IF i \notin DOMAIN vals THEN <<>>
    ELSE Tail(FlattenSeq([j \in 1 .. Len(vals) - i + 1 |-> <<Space>> \o vals[i + j - 1]]))

-----------------------------------------------------------------------------
(* Bindings.                                                               *)

Devices == [GAMEPAD |-> "game", MOTION |-> "motion", MOUSE |-> "mouse"]

Binding(type, ev, code, dir, id, delay, str) ==
    [type |-> type, ev |-> ev, code |-> code, dir |-> dir, id |-> id, delay |-> delay, str |-> str]
NoBinding == Binding("none", "none", 0, FALSE, 0, 0, <<>>)

\* Each of the next operators is the binding some values give, as a set
\* that is empty when they give none and the slot stays as it was.

GetEventBinding(vals) ==
    LET name == Uppercase(vals[2])
        ev == GetEvType(name)
    IN  IF \/ Len(vals) < 2 \/ GetEvCode(name) < 0
           \/ ev = "abs" /\ (Len(vals) < 3 \/ vals[3] \notin {<<"+">>, <<"-">>})
        THEN {}
        ELSE {Binding(Devices[Uppercase(vals[1])[1]], ev, GetEvCode(name),
                      ev = "abs" /\ vals[3] = <<"+">>, 0, 0, <<>>)}

\* The command takes an id when it waits for its exit.
Waits(vals) == Len(vals) >= 4 /\ Uppercase(vals[1]) = <<"COMMAND">> /\ Truth(vals[2])

GetCommandBinding(vals, id) ==
    LET delay == Number(vals, 3)
    IN  IF Len(vals) < 4 THEN {}
        ELSE {Binding("command", "none", 0, FALSE, IF Waits(vals) THEN id ELSE 0,
                      IF delay < 0 THEN 0 ELSE delay, FullString(vals, 4))}

GetProfileBinding(vals) ==
    IF Len(vals) < 2 THEN {}
    ELSE {Binding("profile", "none", 0, FALSE, 0, 0, FullString(vals, 2))}

GetBinding(vals, id) ==
    LET kind == IF vals = <<>> THEN <<>> ELSE Uppercase(vals[1])
    IN  CASE kind \in {<<d>> : d \in DOMAIN Devices} -> GetEventBinding(vals)
          [] kind = <<"COMMAND">> -> GetCommandBinding(vals, id)
          [] kind = <<"PROFILE">> -> GetProfileBinding(vals)
          [] OTHER -> {}

\* The slot of the map a key's binding goes to: the presses of the regions
\* of the right pad go to those of the left one.
IsRegion(pad, key) == Len(key) = 2 /\ key[1] = pad
Slot(key) == IF IsRegion("RPadPress", key) THEN <<"LPadPress", key[2]>> ELSE key
\* Load reads the left pad's regions first.
ASSUME RegionsAssumption ==
    \A i, j \in DOMAIN Keys :
        IsRegion("RPadPress", Keys[j]) /\ Keys[i] = <<"LPadPress", Keys[j][2]>> => i < j
Slots == {Slot(Keys[i]) : i \in DOMAIN Keys} \cup {Keys[i] : i \in DOMAIN Keys}

-----------------------------------------------------------------------------
(* The profile.                                                            *)

Features == [ ForceFeedback |-> FALSE, MotionDevice |-> FALSE, MouseDevice |-> TRUE,
              LizardMode |-> FALSE, StickFiltering |-> TRUE, TrackpadFiltering |-> TRUE ]
Deadzones == {"LStick", "RStick", "LPad", "RPad", "LTrigg", "RTrigg"}
NoAxes == [c \in {} |-> 0]
DeviceInfo ==
    LET Of(pid, name) == [vid |-> 57005, pid |-> pid, ver |-> 1, name |-> <<name>>]
    IN  [ Gamepad |-> Of(48879, "OpenSD Gamepad Device"),
          Motion  |-> Of(48879, "OpenSD Motion Control Device"),
          Mouse   |-> Of(61453, "OpenSD Trackpad/Mouse Device") ]

Template ==
    [ features |-> Features, info |-> DeviceInfo, dz |-> [d \in Deadzones |-> 0],
      keys |-> [game |-> {}, motion |-> {}, mouse |-> TemplateKeys],
      abs |-> [game |-> NoAxes, motion |-> NoAxes],
      rels |-> [game |-> {}, motion |-> {}, mouse |-> TemplateRels],
      map |-> [s \in Slots |-> NoBinding] ]

GetFeatEnable(data, key, old) ==
    LET vals == GetVal(data, <<"Features">>, <<key>>)
    IN  IF vals = <<>> THEN old ELSE Uppercase(vals[1]) = <<"TRUE">>

\* Numbers are cut to 16 bits; a line that lacks one leaves all as it was.
GetDeviceInfo(data, key, old) ==
    LET vals == GetVal(data, <<"DeviceInfo">>, <<key>>)
    IN  IF Len(vals) < 4 \/ \E i \in 1 .. 3 : vals[i] \notin DOMAIN HexOf THEN old
        ELSE [ vid |-> HexOf[vals[1]] % 65536, pid |-> HexOf[vals[2]] % 65536,
               ver |-> HexOf[vals[3]] % 65536, name |-> vals[4] ]

\* Mutant: the upper bound is missing.
GetDeadzoneUnbounded(data, key, old) ==
    LET vals == GetVal(data, <<"Deadzones">>, <<key>>)
        v == IF vals[1] \in DOMAIN PercentOf THEN PercentOf[vals[1]] ELSE 0
    IN  IF vals = <<>> THEN old ELSE IF v = NaN THEN NaN ELSE IF v < 0 THEN 0 ELSE v

\* NaN is neither above the upper bound nor below the lower one.
GetDeadzone(data, key, old) ==
    LET vals == GetVal(data, <<"Deadzones">>, <<key>>)
        v == IF vals[1] \in DOMAIN PercentOf THEN PercentOf[vals[1]] ELSE 0
    IN  IF vals = <<>> THEN old
        ELSE IF v = NaN THEN NaN ELSE IF v > 90 THEN 90 ELSE IF v < 0 THEN 0 ELSE v

\* An axis without a range, or with a range of one point, stays at 0 to 0.
GetAxisRange(data, section, key) ==
    LET vals == GetVal(data, section, key)
        range == <<Number(vals, 1), Number(vals, 2)>>
    IN  IF Len(vals) < 2 THEN <<0, 0, 0, 0>>
        ELSE (IF range[1] = range[2] THEN <<0, 0>> ELSE range)
             \o <<Number(vals, 3), Number(vals, 4)>>

\* The axis a key of [GamepadAxes] or [MotionAxes] enables.  An unknown name
\* is only logged, and its -1 is cut to 16 bits.
AxisCode(name) == GetEvCode(name) % 65536

\* Mutant: a later line for an axis replaces the one before.
AxesLast(data, section) ==
    LET listed == KeyPlaces(data, section)
        Code(p) == AxisCode(KeyAt(data, p).name)
        LastOf(c) == CHOOSE p \in listed : Code(p) = c /\ \A q \in listed : Code(q) = c => ~Before(p, q)
    IN  [c \in {Code(p) : p \in listed} |-> GetAxisRange(data, section, KeyAt(data, LastOf(c)).name)]

\* The axes of a section: of several keys for one code the first one counts.
Axes(data, section) ==
    LET listed == KeyPlaces(data, section)
        Code(p) == AxisCode(KeyAt(data, p).name)
        At(c) == {p \in listed : Code(p) = c}
    IN  [c \in {Code(p) : p \in listed} |->
            GetAxisRange(data, section, KeyAt(data, FirstPlace(At(c))).name)]

\* The axes of a device after AddAbsEvent of each of the new ones.
AddAbsEvents(old, new) ==
    [c \in DOMAIN old \cup DOMAIN new |-> IF c \in DOMAIN old THEN old[c] ELSE new[c]]

\* Mutant: a key of the mouse is enabled on the gamepad.
AddKeyEventsGame(old, bindings) ==
    [d \in DOMAIN old |-> old[d] \cup {b.code : b \in {c \in bindings : c.ev = "key" /\ d = "game"}}]

\* The motion device takes no keys.
AddKeyEvents(old, bindings) ==
    [d \in DOMAIN old |->
        old[d] \cup {b.code : b \in {c \in bindings : c.ev = "key" /\ c.type = d /\ d # "motion"}}]

AddRelEvents(old, bindings) ==
    [d \in DOMAIN old |-> old[d] \cup {b.code : b \in {c \in bindings : c.ev = "rel" /\ c.type = d}}]

\* The commands that wait among the first n keys: each took an id.
Waiting(data, n) == {i \in 1 .. n : Waits(GetVal(data, <<"Bindings">>, Keys[i]))}

\* Mutant: every command gets the same id.
ReadBindingSameId(data, i, id) == GetBinding(GetVal(data, <<"Bindings">>, Keys[i]), id)

ReadBinding(data, i, id) ==
    GetBinding(GetVal(data, <<"Bindings">>, Keys[i]), id + Cardinality(Waiting(data, i - 1)))

\* Load's sections, read into the profile base, with id the next free id.
ReadProfile(base, data, id) ==
    LET read == [i \in DOMAIN Keys |-> ReadBinding(data, i, id)]
        bindings == UNION {read[i] : i \in DOMAIN Keys}
        For(s) == {i \in DOMAIN Keys : Slot(Keys[i]) = s /\ read[i] # {}}
    IN  [ features |-> [f \in DOMAIN Features |-> GetFeatEnable(data, f, base.features[f])],
          info |-> [d \in DOMAIN DeviceInfo |-> GetDeviceInfo(data, d, base.info[d])],
          dz |-> [d \in Deadzones |-> GetDeadzone(data, d, base.dz[d])],
          keys |-> AddKeyEvents(base.keys, bindings),
          abs |-> [ game   |-> AddAbsEvents(base.abs.game, Axes(data, <<"GamepadAxes">>)),
                    motion |-> AddAbsEvents(base.abs.motion, Axes(data, <<"MotionAxes">>)) ],
          rels |-> AddRelEvents(base.rels, bindings),
          map |-> [s \in Slots |-> IF For(s) = {} THEN base.map[s]
                                   ELSE CHOOSE b \in read[Max(For(s))] : TRUE] ]

NoFile == [there |-> FALSE, lines |-> <<>>]

Init ==
    /\ file = NoFile
    /\ edits = 0
    /\ mIni = <<>>
    /\ mProf = Template
    /\ uid = 1
    /\ prof = Template
    /\ from = <<>>

\* The user adds lines to the file.
Edit ==
    /\ edits < MaxEdits
    /\ edits' = edits + 1
    /\ \E lines \in Edits : file' = [there |-> TRUE, lines |-> file.lines \o lines]
    /\ UNCHANGED <<mIni, mProf, uid, prof, from>>

\* The user deletes the file.
Delete ==
    /\ file.there
    /\ file' = NoFile
    /\ UNCHANGED <<edits, mIni, mProf, uid, prof, from>>

\* Load fails: there is no file, or it has a bad section header.  What was
\* read before the header stays in the ini data until the next load.
LoadFails ==
    /\ ~file.there \/ ~LoadFile(file.lines).ok
    /\ mProf' = Template
    /\ mIni' = IF file.there THEN LoadFile(file.lines).data ELSE <<>>
    /\ UNCHANGED <<file, edits, uid, prof, from>>

\* Mutant: the profile is read on top of the one read before.
LoadOnTop ==
    /\ file.there /\ LoadFile(file.lines).ok
    /\ mIni' = LoadFile(file.lines).data
    /\ mProf' = ReadProfile(mProf, mIni', uid)
    /\ uid' = uid + Cardinality(Waiting(mIni', Len(Keys)))
    /\ uid' <= MaxId
    /\ prof' = mProf'
    /\ from' = file.lines
    /\ UNCHANGED <<file, edits>>

Load ==
    /\ file.there /\ LoadFile(file.lines).ok
    /\ mIni' = LoadFile(file.lines).data
    /\ mProf' = ReadProfile(Template, mIni', uid)
    /\ uid' = uid + Cardinality(Waiting(mIni', Len(Keys)))
    /\ uid' <= MaxId
    /\ prof' = mProf'
    /\ from' = file.lines
    /\ UNCHANGED <<file, edits>>

Next == Edit \/ Delete \/ LoadFails \/ Load

Spec == Init /\ [][Next]_vars

-----------------------------------------------------------------------------
(* The devices of a profile.                                               *)

\* Mutant: the motion device is made with the axes of the gamepad, left in cfg.
DeviceCodesShared(p) ==
    LET Below(t, codes) == {c \in codes : c < MaxOf[t]}
    IN  [ game   |-> [ key |-> Below("key", p.keys.game), abs |-> Below("abs", DOMAIN p.abs.game),
                       rel |-> {} ],
          motion |-> [key |-> {}, abs |-> Below("abs", DOMAIN p.abs.game), rel |-> {}],
          mouse  |-> [ key |-> Below("key", p.keys.mouse), abs |-> {},
                       rel |-> Below("abs", p.rels.mouse) ] ]

\* The codes of the devices SetProfile makes for a profile, when the kernel
\* grants all: the gamepad gets no relative axes, whatever is bound to them,
\* and EnableRel takes the maximum of absolute axes for that of relative.
DeviceCodes(p) ==
    LET Below(t, codes) == {c \in codes : c < MaxOf[t]}
    IN  [ game   |-> [ key |-> Below("key", p.keys.game), abs |-> Below("abs", DOMAIN p.abs.game),
                       rel |-> {} ],
          motion |-> [key |-> {}, abs |-> Below("abs", DOMAIN p.abs.motion), rel |-> {}],
          mouse  |-> [ key |-> Below("key", p.keys.mouse), abs |-> {},
                       rel |-> Below("abs", p.rels.mouse) ] ]

\* The motion device and the mouse exist if their feature is enabled.
DevicesOf(p) ==
    {"game"} \cup {d \in {"motion"} : p.features.MotionDevice}
             \cup {d \in {"mouse"} : p.features.MouseDevice}

\* TransEvent of the binding reaches a reader of the device.
Emits(p, b) == b.type \in DevicesOf(p) /\ b.code \in DeviceCodes(p)[b.type][b.ev]

-----------------------------------------------------------------------------
(* What the text of a file says, found by the places of its lines.         *)

SectionAt(lines, i) ==
    LET headers == {j \in 1 .. i - 1 : IsHeader(VectoriseLine(lines[j]))}
    IN  IF headers = {} THEN DefaultSection.name ELSE HeaderName(VectoriseLine(lines[Max(headers)])[1])

KeyLinesIn(lines, section) ==
    {i \in DOMAIN lines :
        LET words == VectoriseLine(lines[i])
        IN  ~IsHeader(words) /\ ~IsComment(words) /\ IsKeyLine(words)
            /\ SameName(SectionAt(lines, i), section)}

NameAt(lines, i) == VectoriseLine(lines[i])[1]

\* The values of the first line for a key in the sections of a name.
Said(lines, section, key) ==
    LET at == {i \in KeyLinesIn(lines, section) : SameName(NameAt(lines, i), key)}
        words == VectoriseLine(lines[Min(at)])
    IN  IF at = {} THEN <<>> ELSE SubSeq(words, 3, Len(words))

\* The lines of a section with a name that the tables have, as they have it,
\* for an event of a code: one of its axis, or of a key or a relative axis that
\* happens to have the code too.
Naming(lines, section, code) ==
    {i \in KeyLinesIn(lines, section) :
        \E t \in EvTypes : /\ NameAt(lines, i) \in DOMAIN CodeOf[t]
                           /\ CodeOf[t][NameAt(lines, i)] = code /\ code < MaxOf[t]}

-----------------------------------------------------------------------------
(* Properties.                                                             *)

\* A deadzone is within its bounds, unless it is no number at all: the cap of
\* nine tenths that default.profile:104 promises lets NaN pass.
TypeOK ==
    /\ file.there \in BOOLEAN
    /\ edits \in 0 .. MaxEdits
    /\ uid \in 1 .. MaxId
    /\ DOMAIN prof.map = Slots /\ DOMAIN mProf.map = Slots
    /\ \A s \in Slots : prof.map[s].id \in 0 .. uid - 1
    /\ \A d \in Deadzones : prof.dz[d] = NaN \/ prof.dz[d] \in 0 .. 90

Anonymous(b) == [b EXCEPT !.id = 0]
Given(lines, key) == {Anonymous(b) : b \in GetBinding(Said(lines, <<"Bindings">>, key), 0)}

\* The profile in use has at every input what the first line for it in the
\* sections named Bindings of the file it was loaded from says, in whatever
\* case, and nothing where there is none: nothing is left of the profiles
\* loaded before, nor of a load that a bad header cut off.  The regions of the
\* pads are the exception (profile_ini.cpp:772): one of the right pad never has
\* a binding, and what its line says goes to the same region of the left pad,
\* over what that one's own line says.
BindingsAsWritten ==
    \A i \in DOMAIN Keys :
        LET key == Keys[i]
            own == Given(from, key)
            right == {j \in DOMAIN Keys : IsRegion("LPadPress", key) /\ Keys[j] = <<"RPadPress", key[2]>>}
            over == UNION {Given(from, Keys[j]) : j \in right}
            found == Anonymous(prof.map[key])
        IN  /\ IsRegion("RPadPress", key) => found = NoBinding
            /\ over # {} => found \in over
            /\ ~IsRegion("RPadPress", key) /\ over = {} => found \in (IF own = {} THEN {NoBinding} ELSE own)

\* Two commands that wait for their exit never have the same id, which is
\* how the runner tells them apart.
CommandIdsUnique ==
    \A s, t \in Slots : prof.map[s].id = prof.map[t].id /\ s # t => prof.map[s].id = 0

\* Every key bound to the gamepad or the mouse, and every relative axis bound
\* to the mouse, is enabled on the device it is bound to: TransEvent never
\* updates a code that the device's buffer lacks.
KeysReachDevices ==
    \A s \in Slots :
        LET b == prof.map[s] IN
        /\ b.type = "game" /\ b.ev = "key" => Emits(prof, b)
        /\ b.type = "mouse" /\ b.ev \in {"key", "rel"} /\ prof.features.MouseDevice => Emits(prof, b)

\* An absolute axis that is bound reaches its device just when a line of the
\* device's section of axes names an event of its code, wherever in the file
\* that is.  The name of a key will do as well as that of the axis, though only
\* axes that are defined there should not be ignored (default.profile:120), and
\* the axis's own name will not in another case than that of the tables, though
\* names of keys of a file have no case (users_manual.html:624).
AxesReachDevices ==
    \A s \in Slots :
        LET b == prof.map[s] IN
        /\ b.type = "game" /\ b.ev = "abs" =>
               (Emits(prof, b) <=> Naming(from, <<"GamepadAxes">>, b.code) # {})
        /\ b.type = "motion" /\ b.ev = "abs" /\ prof.features.MotionDevice =>
               (Emits(prof, b) <=> Naming(from, <<"MotionAxes">>, b.code) # {})

\* The gamepad has the axes that a line of its section names, as above, and no
\* other.  Of several names for a code the first counts, and its range is that
\* of the first line with this name in whatever case: a line in lower case
\* makes no axis but may give one its range, and a line for it further down
\* changes nothing.  An axis whose line has no range, or one of a single point,
\* is made all the same (against default.profile:119) and goes from 0 to 0.
AxesAsWritten ==
    LET section == <<"GamepadAxes">>
        enabled == DeviceCodes(prof).game.abs
        First(c) == NameAt(from, Min(Naming(from, section, c)))
    IN  /\ enabled = {c \in 0 .. MaxOf.abs - 1 : Naming(from, section, c) # {}}
        /\ \A c \in enabled :
              LET said == Said(from, section, First(c))
                  range == <<Number(said, 1), Number(said, 2)>>
              IN  SubSeq(prof.abs.game[c], 1, 2) =
                      IF Len(said) < 2 \/ range[1] = range[2] THEN <<0, 0>> ELSE range

\* A value that a save and a load carry over: one with a quote is split, and
\* one with a comment sign swallows the values after it when no blank in it
\* makes SaveFile quote it.
Lasting(values) ==
    \A i \in DOMAIN values :
        /\ values[i] # <<>> /\ ~Has(values[i], Quote)
        /\ Has(values[i], Hash) /\ ~Has(values[i], Space) => i = Len(values)

\* The data with one more blank line at the end of each section.
Spaced(data) == [i \in DOMAIN data |-> [data[i] EXCEPT !.keys = Append(@, Comment(<<>>))]]

\* Saving the data of a file that was loaded, with any one value set, leaves
\* a file that a load reads back as what SaveFile left in memory, but for the
\* blank lines that SaveFile puts between sections, and in it the value that
\* was set, while values last.
SavedIsLoaded ==
    mIni # <<>> =>
        \A key \in {Keys[i] : i \in DOMAIN Keys}, values \in {Said(from, <<"Bindings">>, k) : k \in ToSet(Keys)} \ {<<>>} :
            LET set == SetVal(mIni, <<"Bindings">>, key, values)
                saved == SaveFile(set)
                again == LoadFile(saved.lines)
            IN  (\A i \in DOMAIN set : \A j \in DOMAIN set[i].keys : Lasting(set[i].keys[j].values))
                => /\ again.ok
                   /\ again.data = Spaced(saved.data)
                   /\ GetVal(again.data, <<"Bindings">>, key) = values
=============================================================================
