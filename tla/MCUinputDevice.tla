---------------------------- MODULE MCUinputDevice ----------------------------
(* Instances of UinputDevice for TLC.                                        *)
EXTENDS UinputDevice, TLC

In(mode, ev, code, dir) == [mode |-> mode, ev |-> ev, code |-> code, dir |-> dir]

\* Two inputs on one key, two on axis 1, which has the code of a key that a
\* third input presses, a pad and a button on relative axis 2, and a button
\* on a relative axis that the device does not have.
MixedInputs == << In("BUTTON", "key", 1, TRUE),
                  In("BUTTON", "key", 3, TRUE),
                  In("AXIS_MINUS", "key", 3, TRUE),
                  In("BUTTON", "abs", 1, FALSE),
                  In("AXIS_PLUS", "abs", 1, TRUE),
                  In("BUTTON", "rel", 2, TRUE),
                  In("RELATIVE", "rel", 2, TRUE),
                  In("BUTTON", "rel", 3, TRUE) >>
MixedRange == 1 :> <<-4, 4>>

\* The two halves of a stick's axis and a button on one axis.
AxisInputs == << In("BUTTON", "abs", 1, FALSE),
                 In("AXIS_MINUS", "abs", 1, FALSE),
                 In("AXIS_PLUS", "abs", 1, TRUE) >>
===============================================================================
