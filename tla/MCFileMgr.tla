------------------------------ MODULE MCFileMgr -------------------------------
(* Instances of FileMgr for TLC: as many profiles as the package ships, so   *)
(* that one may be copied before, between and after others that exist.       *)
EXTENDS FileMgr

CONSTANTS default, dualsense, dualshock4

MCProfiles == {default, dualsense, dualshock4}
=============================================================================
