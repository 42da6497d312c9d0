-------------------------- MODULE ProfileSwitching ---------------------------
(***************************************************************************)
(* What the daemon and the driver promise together about profiles, without *)
(* threads, locks or devices:                                              *)
(*   - every frame of output events is begun and ended under one profile;  *)
(*   - a profile goes out of service, and another comes into service, only *)
(*     between two frames;                                                 *)
(*   - requests are served one at a time, in the order they were made, and *)
(*     a profile comes into service only because it is the one being       *)
(*     loaded.                                                             *)
(***************************************************************************)
EXTENDS Naturals, Sequences

CONSTANTS Profiles, NoProfile, Capacity

VARIABLES
    active,     \* the profile in service
    frame,      \* the profile of the frame under way
    loading,    \* the profile being loaded
    requests    \* those asked for and not yet taken up

psVars == <<active, frame, loading, requests>>

PSInit ==
    /\ active = NoProfile
    /\ frame = NoProfile
    /\ loading = NoProfile
    /\ requests = <<>>

\* The start-up configuration names the first profile.
Configure ==
    /\ active = NoProfile
    /\ loading = NoProfile
    /\ loading' \in Profiles
    /\ UNCHANGED <<active, frame, requests>>

\* A frame may carry a request, which is lost if too many are waiting.
BeginFrame ==
    /\ active # NoProfile
    /\ frame = NoProfile
    /\ frame' = active
    /\ \/ UNCHANGED requests
       \/ /\ Len(requests) < Capacity
          /\ \E p \in Profiles : requests' = Append(requests, p)
    /\ UNCHANGED <<active, loading>>

EndFrame ==
    /\ frame # NoProfile
    /\ frame' = NoProfile
    /\ UNCHANGED <<active, loading, requests>>

Take ==
    /\ loading = NoProfile
    /\ requests # <<>>
    /\ loading' = Head(requests)
    /\ requests' = Tail(requests)
    /\ UNCHANGED <<active, frame>>

\* The load fails before the profile in service has been touched.
Reject ==
    /\ loading # NoProfile
    /\ loading' = NoProfile
    /\ UNCHANGED <<active, frame, requests>>

Withdraw ==
    /\ active # NoProfile
    /\ frame = NoProfile
    /\ active' = NoProfile
    /\ UNCHANGED <<frame, loading, requests>>

Activate ==
    /\ active = NoProfile
    /\ loading # NoProfile
    /\ frame = NoProfile
    /\ active' = loading
    /\ loading' = NoProfile
    /\ UNCHANGED <<frame, requests>>

PSNext ==
    \/ Configure \/ BeginFrame \/ EndFrame \/ Take \/ Reject \/ Withdraw \/ Activate

PSSpec == PSInit /\ [][PSNext]_psVars
=============================================================================
