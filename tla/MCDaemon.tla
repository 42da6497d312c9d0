------------------------------ MODULE MCDaemon -------------------------------
(* Instances of Daemon for TLC.                                            *)
EXTENDS Daemon, TLC

CONSTANTS plain, full

\* One profile with the gamepad alone, one with everything.
MCFeatures == (plain :> {}) @@ (full :> {"motion", "mouse"})
=============================================================================
