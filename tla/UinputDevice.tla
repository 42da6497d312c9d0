----------------------------- MODULE UinputDevice -----------------------------
(***************************************************************************)
(* One virtual input device (src/opensdd/uinput.cpp) and the translation   *)
(* of one report's inputs into its event buffer (Driver::TransEvent in     *)
(* src/opensdd/drivers/gamepad/driver.cpp).  Poll translates every input   *)
(* in a fixed order, then flushes the buffer to the kernel, which shows a  *)
(* reader of the device a new state at every SYN_REPORT it receives.       *)
(*                                                                         *)
(* The state of an axis is a double in -1 .. 1; here it is counted in      *)
(* halves, from -2 to 2, enough to tell a full deflection from a part one. *)
(***************************************************************************)
EXTENDS Integers, SequencesExt

CONSTANTS
    Inputs,         \* the bound inputs, in the order of Translate
    KeyList,        \* the codes the profile enables, of keys ...
    AbsList,        \* ... of absolute axes ...
    RelList,        \* ... and of relative axes
    AxisRange,      \* the min and max of each absolute axis
    KEY_MAX,
    ABS_MAX

Codes == KeyList \cup AbsList \cup RelList
Modes == {"BUTTON", "AXIS_MINUS", "AXIS_PLUS", "RELATIVE"}

ASSUME InputsAssumption ==
    Inputs \in Seq([mode : Modes, ev : {"key", "abs", "rel"}, code : Nat, dir : BOOLEAN])
ASSUME CodesAssumption ==
    /\ Codes \subseteq Nat /\ IsFiniteSet(Codes)
    /\ AxisRange \in [AbsList -> Int \X Int]
    /\ KEY_MAX \in Nat /\ ABS_MAX \in Nat

VARIABLES
    open,       \* the device exists
    mEvBuff,    \* its buffered events by kind and code
    next,       \* the input that is translated next
    sent,       \* the last writev wrote all and nothing was translated since
    asked,      \* history: what TransEvent asked for up to that write or, when
                \* not sent, since the buffer was last cleared
    seen,       \* the state of the device, which a reader sees at a SYN_REPORT
    reports     \* history: the key states of the reports of the last Flush

vars == <<open, mEvBuff, next, sent, asked, seen, reports>>

\* An entry of the buffer, and the one operator[] makes for a missing code.
Entry(type, code, value) == [type |-> type, code |-> code, value |-> value]
Phantom == Entry("syn", 0, 0)

Fresh(type, codes) == [c \in codes |-> Entry(type, c, 0)]
NothingAsked == [ key |-> {}, abs |-> [c \in AbsList |-> {}],
                  firstAbs |-> [c \in AbsList |-> 0], firstRel |-> [c \in RelList |-> 0] ]
NothingSeen == [ key |-> {}, abs |-> [c \in AbsList |-> 0], rel |-> [c \in RelList |-> 0] ]

Init ==
    /\ open = FALSE
    /\ mEvBuff = [key |-> Fresh("key", {}), abs |-> Fresh("abs", {}), rel |-> Fresh("rel", {})]
    /\ next = 1
    /\ sent = FALSE
    /\ asked = NothingAsked
    /\ seen = NothingSeen
    /\ reports = {}

\* EnableKey, EnableAbs and EnableRel of every code of the profile: a code
\* out of range is refused, and the kernel may refuse any other.
EnableKeys(codes) == codes \subseteq {c \in KeyList : c < KEY_MAX}
EnableAxes(codes) == codes \subseteq {c \in AbsList : c < ABS_MAX}
EnableRels(codes) == codes \subseteq {c \in RelList : c < ABS_MAX}

\* The constructor.  A device that lacks some of its events is still made.
Configure ==
    /\ ~open
    /\ open' = TRUE
    /\ \E keys \in SUBSET KeyList, axes \in SUBSET AbsList, rels \in SUBSET RelList :
           /\ EnableKeys(keys) /\ EnableAxes(axes) /\ EnableRels(rels)
           /\ mEvBuff' = [ key |-> Fresh("key", keys), abs |-> Fresh("abs", axes),
                           rel |-> Fresh("rel", rels) ]
    /\ UNCHANGED <<next, sent, asked, seen, reports>>

-----------------------------------------------------------------------------
(* Updates of the buffer: each is the buffer after the call.               *)

Abs(x) == IF x < 0 THEN -x ELSE x

\* A double in halves becomes an integer by truncation.
Truncate(halves) == IF halves < 0 THEN -((-halves) \div 2) ELSE halves \div 2

UpdateKey(buff, code) ==
    IF code \notin DOMAIN buff.key THEN buff ELSE [buff EXCEPT !.key[code].value = 1]

\* The multiplication by the end of the axis's range that UpdateAbs does.
Scaled(code, v) ==
    LET clamped == IF v < -2 THEN -2 ELSE IF v > 2 THEN 2 ELSE v
    IN  IF v > 0 THEN Truncate(Abs(clamped) * AxisRange[code][2])
                 ELSE Truncate(Abs(clamped) * AxisRange[code][1])

\* The test for a value already there looks the code up among the keys, and
\* makes an entry there when it finds none.
UpdateAbs(buff, code, v) ==
    IF code \notin DOMAIN buff.abs \/ v = 0 THEN buff
    ELSE LET looked == [buff EXCEPT !.key =
                           [c \in DOMAIN @ \cup {code} |-> IF c \in DOMAIN @ THEN @[c] ELSE Phantom]]
         IN  IF looked.key[code].value # 0 THEN looked
             ELSE [looked EXCEPT !.abs[code].value = Scaled(code, v)]

\* Mutant: the code is not looked up before it is written.
UpdateRelUnmapped(buff, code, v) ==
    LET old == IF code \in DOMAIN buff.rel THEN buff.rel[code].value ELSE 0
        new == IF v = 0 \/ old # 0 THEN old ELSE v
    IN  [buff EXCEPT !.rel = [c \in DOMAIN @ \cup {code} |->
                                 IF c = code THEN Entry("rel", code, new) ELSE @[c]]]

\* Mutant: the last value wins.
UpdateRelLast(buff, code, v) ==
    IF code \notin DOMAIN buff.rel \/ v = 0 THEN buff
    ELSE [buff EXCEPT !.rel[code].value = v]

UpdateRel(buff, code, v) ==
    IF code \notin DOMAIN buff.rel \/ v = 0 \/ buff.rel[code].value # 0 THEN buff
    ELSE [buff EXCEPT !.rel[code].value = v]

\* The value TransEvent passes on for an input in a state, zero when it
\* calls no update.
Value(input, state) ==
    CASE input.mode = "BUTTON" ->
            IF state = 0 THEN 0 ELSE IF input.dir THEN 2 ELSE -2
      [] input.mode = "AXIS_MINUS" ->
            IF state >= 0 THEN 0 ELSE IF input.dir THEN Abs(state) ELSE state
      [] input.mode = "AXIS_PLUS" ->
            IF state <= 0 THEN 0 ELSE IF input.dir THEN state ELSE -state
      [] input.mode = "RELATIVE" ->
            IF input.ev = "rel" THEN state ELSE 0

States(input) == IF input.mode = "BUTTON" THEN {0, 2} ELSE {-2, -1, 0, 1, 2}

Updated(input, v) ==
    IF v = 0 THEN mEvBuff
    ELSE CASE input.ev = "key" -> UpdateKey(mEvBuff, input.code)
           [] input.ev = "abs" -> UpdateAbs(mEvBuff, input.code, v)
           [] input.ev = "rel" -> UpdateRel(mEvBuff, input.code, Truncate(v))

\* The history: keys asked for, values asked of an axis, and the first
\* nonzero one, since the buffer was last cleared.
Asked(input, v) ==
    LET base == IF sent THEN NothingAsked ELSE asked
        First(old, new) == IF old = 0 THEN new ELSE old
    IN  IF v = 0 THEN base
        ELSE CASE input.ev = "key" -> [base EXCEPT !.key = @ \cup {input.code}]
               [] input.ev = "abs" /\ input.code \in AbsList ->
                    [base EXCEPT !.abs[input.code] = @ \cup {v},
                                 !.firstAbs[input.code] = First(@, v)]
               [] input.ev = "rel" /\ input.code \in RelList ->
                    [base EXCEPT !.firstRel[input.code] = First(@, Truncate(v))]
               [] OTHER -> base

TransEvent(state) ==
    /\ open
    /\ next \in DOMAIN Inputs
    /\ state \in States(Inputs[next])
    /\ LET v == Value(Inputs[next], state) IN
           /\ mEvBuff' = Updated(Inputs[next], v)
           /\ asked' = Asked(Inputs[next], v)
    /\ next' = next + 1
    /\ sent' = FALSE
    /\ UNCHANGED <<open, seen, reports>>

-----------------------------------------------------------------------------
(* Flush.                                                                  *)

\* The keys down after the first n entries of an order of the key buffer.
KeysDown(order, n) ==
    LET written == {i \in 1 .. n : mEvBuff.key[order[i]].type = "key"}
        now == {order[i] : i \in written}
    IN  (seen.key \ now) \cup {c \in now : mEvBuff.key[c].value # 0}

\* The places where an order of the key buffer has a SYN_REPORT.
Syncs(order) == {i \in DOMAIN order : mEvBuff.key[order[i]].type = "syn"}

Values(old, buff) == [c \in DOMAIN old |-> IF c \in DOMAIN buff THEN buff[c].value ELSE old[c]]

Cleared(buff) == [c \in DOMAIN buff |-> [buff[c] EXCEPT !.value = 0]]

Shown(order) ==
    seen' = [ key |-> KeysDown(order, Len(order)), abs |-> Values(seen.abs, mEvBuff.abs),
              rel |-> Values(seen.rel, mEvBuff.rel) ]

\* Mutant: every key is synchronised by itself.
WriteOneByOne(order) ==
    /\ Shown(order)
    /\ reports' = {KeysDown(order, i) : i \in DOMAIN order} \cup {seen'.key}

\* writev of all keys, all absolute and all relative axes, in the order in
\* which the hash map of each has them, and a SYN_REPORT.
Write(order) ==
    /\ Shown(order)
    /\ reports' = {KeysDown(order, i) : i \in Syncs(order)} \cup {seen'.key}

\* A writev of a first part of them only.  Without the last SYN_REPORT a reader
\* is not told, and what is missing is not written later: a result that is not
\* negative is taken for success.
WritePart(order) ==
    \E n \in 0 .. Len(order), axes \in SUBSET DOMAIN mEvBuff.abs, rels \in SUBSET DOMAIN mEvBuff.rel :
        /\ axes # {} => n = Len(order)
        /\ rels # {} => n = Len(order) /\ axes = DOMAIN mEvBuff.abs
        /\ seen' = [ key |-> KeysDown(order, n), abs |-> Values(seen.abs, Restrict(mEvBuff.abs, axes)),
                     rel |-> Values(seen.rel, Restrict(mEvBuff.rel, rels)) ]
        /\ reports' = {KeysDown(order, i) : i \in Syncs(order) \cap 1 .. n}

\* Mutant: the keys are not cleared after the write.
FlushKeepsKeys ==
    /\ open
    /\ next = Len(Inputs) + 1
    /\ next' = 1
    /\ \E order \in SetToSeqs(DOMAIN mEvBuff.key) : Write(order)
    /\ mEvBuff' = [mEvBuff EXCEPT !.abs = Cleared(@), !.rel = Cleared(@)]
    /\ sent' = TRUE
    /\ UNCHANGED <<open, asked>>

\* Mutant: the absolute axes are not cleared after the write.
FlushKeepsAxes ==
    /\ open
    /\ next = Len(Inputs) + 1
    /\ next' = 1
    /\ \E order \in SetToSeqs(DOMAIN mEvBuff.key) : Write(order)
    /\ mEvBuff' = [mEvBuff EXCEPT !.key = Cleared(@), !.rel = Cleared(@)]
    /\ sent' = TRUE
    /\ UNCHANGED <<open, asked>>

\* When writev fails the buffer keeps its values for the next report.
Flush ==
    /\ open
    /\ next = Len(Inputs) + 1
    /\ next' = 1
    /\ \/ /\ \E order \in SetToSeqs(DOMAIN mEvBuff.key) : Write(order)
          /\ mEvBuff' = [ key |-> Cleared(mEvBuff.key), abs |-> Cleared(mEvBuff.abs),
                          rel |-> Cleared(mEvBuff.rel) ]
          /\ sent' = TRUE
          /\ UNCHANGED asked
       \/ /\ \E order \in SetToSeqs(DOMAIN mEvBuff.key) : WritePart(order)
          /\ mEvBuff' = [ key |-> Cleared(mEvBuff.key), abs |-> Cleared(mEvBuff.abs),
                          rel |-> Cleared(mEvBuff.rel) ]
          /\ sent' = FALSE
          /\ asked' = NothingAsked
       \/ UNCHANGED <<mEvBuff, sent, asked, seen, reports>>
    /\ UNCHANGED open

Next ==
    \/ Configure
    \/ \E state \in -2 .. 2 : TransEvent(state)
    \/ Flush

Spec == Init /\ [][Next]_vars

-----------------------------------------------------------------------------
TypeOK ==
    /\ open \in BOOLEAN
    /\ DOMAIN mEvBuff.key \subseteq KeyList \cup AbsList
    /\ DOMAIN mEvBuff.abs \subseteq AbsList
    /\ DOMAIN mEvBuff.rel \subseteq RelList
    /\ \A c \in DOMAIN mEvBuff.key : mEvBuff.key[c] \in {Entry("key", c, 0), Entry("key", c, 1),
                                                        Phantom, [Phantom EXCEPT !.value = 1]}
    /\ \A c \in DOMAIN mEvBuff.abs : mEvBuff.abs[c] = Entry("abs", c, mEvBuff.abs[c].value)
    /\ \A c \in DOMAIN mEvBuff.rel : mEvBuff.rel[c] = Entry("rel", c, mEvBuff.rel[c].value)
    /\ next \in 1 .. Len(Inputs) + 1
    /\ sent \in BOOLEAN
    /\ seen.key \subseteq KeyList

\* After every write that goes through whole the keys a reader sees down are
\* those that some input asked for since the write before, whatever the other
\* inputs bound to the same key say and whatever writes failed in between or
\* broke off before: no key sticks, and none is lost but in a write that broke off.
KeysFollowReport ==
    sent => seen.key = {c \in asked.key \cap DOMAIN mEvBuff.key : mEvBuff.key[c].type = "key"}

\* Nor does an axis keep the value of an earlier report: it shows a value
\* that an input asked for, or zero when none did or when a key with the
\* axis's code was asked for, which UpdateAbs takes for the axis.
AxesFollowReport ==
    sent => \A c \in DOMAIN mEvBuff.abs :
        \/ \E v \in asked.abs[c] : seen.abs[c] = Scaled(c, v)
        \/ seen.abs[c] = 0 /\ (asked.abs[c] = {} \/ c \in asked.key)

\* A device without absolute axes shows a reader one state of the keys per
\* report; one with them may split a report where UpdateAbs made an entry among the keys.
AtomicFrames == sent /\ DOMAIN mEvBuff.abs = {} => reports = {seen.key}

\* uinput.cpp:534: of several relative values for one code "use the first
\* non-zero value that gets sent to the buffer", over failed writes too.
\* Movement that went out in a write that broke off comes on top of it.
FirstRelKept ==
    sent => \A c \in DOMAIN mEvBuff.rel : seen.rel[c] = asked.firstRel[c]

\* uinput.cpp:500: "in the event of multiple axes being bound to the same
\* abs event, we use the first non-zero value written to the buffer".
FirstAbsKept ==
    sent => \A c \in DOMAIN mEvBuff.abs :
        asked.firstAbs[c] # 0 => seen.abs[c] = Scaled(c, asked.firstAbs[c])
=============================================================================
