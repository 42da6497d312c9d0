---------------------------- MODULE MCProfileIni ----------------------------
(* An instance of ProfileIni for TLC.                                        *)
EXTENDS ProfileIni

\* One plain input, two more, and one region of each pad.
InputKeys == << <<"A">>, <<"B">>, <<"X">>, <<"LPadPress", "QuadUp">>, <<"RPadPress", "QuadUp">> >>

MCNamePieces ==
    {"A", "B", "X", "a", "LPadPress", "RPadPress", "QuadUp", "Bindings", "bindings", "BINDINGS",
     "Features", "Deadzones", "GamepadAxes", "MotionAxes", "NONE", "Gamepad", "Motion", "Mouse",
     "Command", "Profile", "GAMEPAD", "MOTION", "MOUSE", "COMMAND", "PROFILE", "ABS_", "abs_",
     "KEY_", "key_", "REL_", "MotionDevice", "MouseDevice", "LStick", "RStick", "true", "TRUE", "no", "NO",
     "run", "DeviceInfo", "10000", "0", "5", "9", "100", "nan", "x"}
MCPieces == MCNamePieces \cup Signs \cup {"+", "-", "-5", "+5"}
MCUpperOf ==
    ("a" :> "A") @@ ("bindings" :> "BINDINGS") @@ ("Bindings" :> "BINDINGS") @@
    ("Gamepad" :> "GAMEPAD") @@ ("Motion" :> "MOTION") @@ ("Mouse" :> "MOUSE") @@
    ("Command" :> "COMMAND") @@ ("Profile" :> "PROFILE") @@ ("abs_" :> "ABS_") @@
    ("key_" :> "KEY_") @@ ("true" :> "TRUE") @@ ("no" :> "NO") @@ ("x" :> "X")

\* Codes as in linux/input-event-codes.h: a key has the code of an axis, and
\* one of each kind has the maximum.
MCCodeOf ==
    [ key |-> (<<"KEY_", "A">> :> 1) @@ (<<"KEY_", "X">> :> 4),
      abs |-> (<<"ABS_", "A">> :> 1) @@ (<<"ABS_", "X">> :> 3),
      rel |-> (<<"REL_", "A">> :> 1) @@ (<<"REL_", "X">> :> 2) ]
MCMaxOf == [key |-> 4, abs |-> 4, rel |-> 3]
MCIntOf == (<<"0">> :> 0) @@ (<<"5">> :> 5) @@ (<<"9">> :> 9) @@ (<<"-5">> :> -5) @@ (<<"100">> :> 100)
MCHexOf == (<<"0">> :> 0) @@ (<<"9">> :> 9) @@ (<<"10000">> :> 65536)
MCPercentOf == (<<"9">> :> 900) @@ (<<"-5">> :> -500) @@ (<<"nan">> :> NaN)

\* A line from its words, with a blank between two of them.
Line(words) == Tail(FlattenSeq([i \in DOMAIN words |-> <<" ">> \o words[i]]))
Header(name) == << <<"[", name, "]">> >>
Eq == <<"=">>
KeyLine(key, values) == Line(<<key, Eq>> \o values)
W(piece) == <<piece>>
Bind(key, values) == Header("Bindings") \o << KeyLine(key, values) >>

MCEdits ==
    { Bind(W("A"), << W("Gamepad"), <<"KEY_", "A">> >>),
      \* a second line for A, in another case and for another device
      Header("bindings") \o << KeyLine(W("a"), << W("Mouse"), <<"key_", "A">> >>) >>,
      Bind(W("B"), << W("Gamepad"), <<"ABS_", "A">>, W("+") >>)
          \o << KeyLine(W("X"), << W("Motion"), <<"ABS_", "X">>, W("-") >>) >>,
      Bind(W("X"), << W("Mouse"), <<"REL_", "A">> >>) \o << KeyLine(W("B"), << W("Gamepad"), <<"KEY_", "X">> >>) >>,
      \* an axis without a direction, one with an offset
      Bind(W("A"), << W("Gamepad"), <<"ABS_", "A">> >>)
          \o << KeyLine(W("B"), << W("Gamepad"), <<"ABS_", "A", "+5">>, W("+") >>) >>,
      \* commands, with a quoted string and a comment
      Bind(<<"LPadPress", "QuadUp">>, << W("Command"), W("true"), W("-5"), <<"\"", "run", " ", "#", "x", "\"">>, <<"#", "x">> >>),
      Bind(<<"RPadPress", "QuadUp">>, << W("Command"), W("5"), W("100"), W("run"), <<"\"", "x", " ", "a", "\"">> >>)
          \o << KeyLine(W("X"), << W("Command"), W("true"), W("0"), W("run") >>) >>,
      Bind(W("B"), << W("Profile"), <<"\"", "x", "#", "a", "\"">> >>),
      \* axes: a repeated name, a range of one point, a name in lower case
      Header("GamepadAxes") \o << KeyLine(<<"ABS_", "A">>, << W("-5"), W("9"), W("0") >>),
                                  KeyLine(<<"ABS_", "A">>, << W("0"), W("100") >>) >>,
      Header("GamepadAxes") \o << KeyLine(<<"ABS_", "A">>, << W("5"), W("5") >>) >>,
      Header("GamepadAxes") \o << KeyLine(<<"abs_", "A">>, << W("0"), W("9") >>) >>,
      \* the name of a key with the code of an axis
      Header("GamepadAxes") \o << KeyLine(<<"KEY_", "A">>, << W("0"), W("5") >>) >>,
      Header("MotionAxes") \o << KeyLine(<<"ABS_", "X">>, << W("0"), W("5"), W("9"), W("9") >>) >>
          \o Header("Features") \o << KeyLine(W("MotionDevice"), << W("true") >>) >>,
      Header("Features") \o << KeyLine(W("MouseDevice"), << W("no") >>) >>
          \o Header("Deadzones") \o << KeyLine(W("LStick"), << W("9") >>),
                                      KeyLine(W("RStick"), << W("nan") >>) >>
          \o Header("DeviceInfo") \o << KeyLine(W("Mouse"), << W("9"), W("10000"), W("0"), W("run") >>),
                                        KeyLine(W("Motion"), << W("9"), W("9"), W("x"), W("run") >>) >>,
      \* a line for a section that was not opened, a blank line, a comment
      << KeyLine(W("A"), << W("Profile"), W("run") >>), <<>>, <<"#", "x">> >>,
      \* bad headers
      << KeyLine(W("B"), << W("Profile"), W("run") >>), <<"[", "Bindings">> >>,
      Header("NONE") }
=============================================================================
