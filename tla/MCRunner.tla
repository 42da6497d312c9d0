------------------------------ MODULE MCRunner -------------------------------
(* Instances of Runner for TLC: one binding that waits for its command and  *)
(* has no delay, one that does not wait and has one.                        *)
EXTENDS Runner, TLC

MCDelay == <<0, 2>>
=============================================================================
