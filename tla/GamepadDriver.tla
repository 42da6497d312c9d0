---------------------------- MODULE GamepadDriver ----------------------------
(***************************************************************************)
(* The gamepad driver (src/opensdd/drivers/gamepad/driver.cpp): the uinput *)
(* devices and bindings of the current profile, the poll thread that turns *)
(* input reports into uinput events, the lizard thread that keeps the      *)
(* firmware's keyboard emulation off, and the operations the daemon's main *)
(* thread performs on the driver.                                          *)
(*                                                                         *)
(* Every thread has a program counter.  A step is what a thread does       *)
(* between two points where another thread's step could matter: taking a   *)
(* mutex, testing a flag, or changing what the others read.  What a report *)
(* says is abstracted to whether it presses a Profile binding.             *)
(***************************************************************************)
EXTENDS Hidraw, DrvBase

CONSTANTS
    Features    \* of each profile: whether it enables motion and mouse

ASSUME FeaturesAssumption ==
    Features \in [Profiles -> SUBSET {"motion", "mouse"}]

NoProfile == "none"
ASSUME NoProfileAssumption == NoProfile \notin Profiles

DevNames == {"gamepad", "motion", "mouse"}

VARIABLES
    pc,             \* where each thread is
    mPollMutex,     \* the thread that holds Driver::mPollMutex
    mpDev,          \* mpGamepad, mpMotion, mpMouse: the profile each device
                    \* was created for, NoProfile for a null pointer
    mMap,           \* the profile whose bindings are in force
    mLizardMode,
    switchTimer,    \* the clock is before mProfSwitchTimestamp
    frame,          \* the profile whose bindings filled the event buffers
                    \* that the poll thread is about to write out
    profile,        \* the profile main is loading, while it loads one
    process         \* "running", "exited", or "aborted" by std::terminate

drvVars == <<pc, mPollMutex, mpDev, mMap, mLizardMode, switchTimer, frame,
             profile, process>>

MainLabels == { "startup", "construct", "hung", "load", "lock", "destroy",
                "gamepad", "motion", "mouse", "bind", "start", "loop",
                "message", "stop", "join", "lizard_lock", "lizard_on",
                "delete", "return", "end" }
PollLabels == { "unborn", "run", "spawn", "loop", "lock", "hid_lock", "read",
                "hung", "translate", "flush", "ff", "join", "end" }
LizardLabels == { "unborn", "loop", "check", "write", "end" }

DrvTypeOK ==
    /\ pc \in [Threads -> MainLabels \cup PollLabels \cup LizardLabels]
    /\ pc["main"] \in MainLabels
    /\ pc["poll"] \in PollLabels
    /\ pc["lizard"] \in LizardLabels
    /\ mPollMutex \in Threads \cup {Nobody}
    /\ mpDev \in [DevNames -> Profiles \cup {NoProfile}]
    /\ mMap \in Profiles \cup {NoProfile}
    /\ mLizardMode \in BOOLEAN
    /\ switchTimer \in BOOLEAN
    /\ frame \in Profiles \cup {NoProfile}
    /\ profile \in Profiles \cup {NoProfile}
    /\ process \in {"running", "exited", "aborted"}

DrvInit ==
    /\ pc = [t \in Threads |-> IF t = "main" THEN "startup" ELSE "unborn"]
    /\ mPollMutex = Nobody
    /\ mpDev = [d \in DevNames |-> NoProfile]
    /\ mMap = NoProfile
    /\ mLizardMode = FALSE
    /\ switchTimer = FALSE
    /\ frame = NoProfile
    /\ profile = NoProfile
    /\ process = "running"

At(t, label) == pc[t] = label
Ready(t, label) == process = "running" /\ At(t, label)
Goto(t, label) == pc' = [pc EXCEPT ![t] = label]

\* What most steps of a thread leave alone.
bindings == <<mMap, switchTimer, frame, profile, process>>

-----------------------------------------------------------------------------
(* The poll thread: Run, and Poll with what it calls.                      *)

RunInit ==
    /\ Ready("poll", "run")
    /\ SetRunning
    /\ Goto("poll", "spawn")
    /\ UNCHANGED <<hidVars, mPollMutex, mpDev, mLizardMode, bindings>>

RunSpawn ==
    /\ Ready("poll", "spawn")
    /\ mLizardMode' = FALSE
    /\ pc' = [pc EXCEPT !["poll"] = "loop", !["lizard"] = "loop"]
    /\ UNCHANGED <<hidVars, drvBaseVars, mPollMutex, mpDev, bindings>>

RunLoop ==
    /\ Ready("poll", "loop")
    /\ Goto("poll", IF mRunning THEN "lock" ELSE "join")
    /\ UNCHANGED <<hidVars, drvBaseVars, mPollMutex, mpDev, mLizardMode, bindings>>

\* Mutant: the lock_guard of Poll is missing.
PollLockMissing ==
    /\ Ready("poll", "lock")
    /\ Goto("poll", "hid_lock")
    /\ UNCHANGED <<hidVars, drvBaseVars, mPollMutex, mpDev, mLizardMode, bindings>>

\* Poll takes mPollMutex and Read looks whether the descriptor is open; if
\* it is not, Poll returns NO_DEVICE at once and the mutex is free again.
PollLock ==
    /\ Ready("poll", "lock")
    /\ mPollMutex = Nobody
    /\ IF IsOpen
       THEN /\ mPollMutex' = "poll"
            /\ Goto("poll", "hid_lock")
       ELSE /\ UNCHANGED mPollMutex
            /\ Goto("poll", "loop")
    /\ UNCHANGED <<hidVars, drvBaseVars, mpDev, mLizardMode, bindings>>

PollHidLock ==
    /\ Ready("poll", "hid_lock")
    /\ LockForRead("poll")
    /\ Goto("poll", "read")
    /\ UNCHANGED <<drvBaseVars, mPollMutex, mpDev, mLizardMode, bindings>>

\* The rest of Read, up to where Poll goes with its result.
PollRead ==
    /\ Ready("poll", "read")
    /\ \/ ReadReport /\ Goto("poll", "translate") /\ UNCHANGED mPollMutex
       \/ ReadTimesOut /\ Goto("poll", "ff") /\ UNCHANGED mPollMutex
       \/ ReadBlocks /\ Goto("poll", "hung") /\ UNCHANGED mPollMutex
       \/ ReadFails /\ Goto("poll", "loop") /\ mPollMutex' = Nobody
    /\ UNCHANGED <<drvBaseVars, mpDev, mLizardMode, bindings>>

\* TransEvent of the Profile bindings one report presses: none counts while
\* the switch delay runs, and the first that counts starts the delay.
RequestProfile ==
    \/ UNCHANGED <<switchTimer, drvBaseVars>>
    \/ /\ ~switchTimer
       /\ switchTimer' = TRUE
       /\ \E p \in Profiles : PushMessage(p)

\* UpdateState and Translate; or HandleInputReport does not know the report.
Translate ==
    /\ Ready("poll", "translate")
    /\ \/ /\ frame' = mMap
          /\ RequestProfile
          /\ Goto("poll", "flush")
       \/ /\ UNCHANGED <<frame, switchTimer, drvBaseVars>>
          /\ Goto("poll", "ff")
    /\ UNCHANGED <<hidVars, mPollMutex, mpDev, mMap, mLizardMode, profile, process>>

Flush ==
    /\ Ready("poll", "flush")
    /\ frame' = NoProfile
    /\ Goto("poll", "ff")
    /\ UNCHANGED <<hidVars, drvBaseVars, mPollMutex, mpDev, mMap, mLizardMode,
                   switchTimer, profile, process>>

\* Mutant: Poll returns without releasing mPollMutex.
PollFFKeepsLock ==
    /\ Ready("poll", "ff")
    /\ mpDev["gamepad"] # NoProfile
    /\ Goto("poll", "loop")
    /\ UNCHANGED <<hidVars, drvBaseVars, mPollMutex, mpDev, mLizardMode, bindings>>

\* Force feedback, which goes through mpGamepad unconditionally, and the
\* return from Poll.
PollFF ==
    /\ Ready("poll", "ff")
    /\ mpDev["gamepad"] # NoProfile
    /\ mPollMutex' = Nobody
    /\ Goto("poll", "loop")
    /\ UNCHANGED <<hidVars, drvBaseVars, mpDev, mLizardMode, bindings>>

\* Mutant: Run returns without joining the lizard thread.
RunJoinMissing ==
    /\ Ready("poll", "join")
    /\ Goto("poll", "end")
    /\ UNCHANGED <<hidVars, drvBaseVars, mPollMutex, mpDev, mLizardMode, bindings>>

RunJoin ==
    /\ Ready("poll", "join")
    /\ At("lizard", "end")
    /\ Goto("poll", "end")
    /\ UNCHANGED <<hidVars, drvBaseVars, mPollMutex, mpDev, mLizardMode, bindings>>

-----------------------------------------------------------------------------
(* The lizard thread: ThreadedLizardHandler.                               *)

\* Mutant: the lizard thread runs until Lizard Mode is on again.
LizardLoopUntilEnabled ==
    /\ Ready("lizard", "loop")
    /\ Goto("lizard", IF ~mLizardMode THEN "check" ELSE "end")
    /\ UNCHANGED <<hidVars, drvBaseVars, mPollMutex, mpDev, mLizardMode, bindings>>

LizardLoop ==
    /\ Ready("lizard", "loop")
    /\ Goto("lizard", IF mRunning THEN "check" ELSE "end")
    /\ UNCHANGED <<hidVars, drvBaseVars, mPollMutex, mpDev, mLizardMode, bindings>>

\* Mutant: the test of mLizardMode is the wrong way round.
LizardCheckInverted ==
    /\ Ready("lizard", "check")
    /\ Goto("lizard", IF mLizardMode /\ IsOpen THEN "write" ELSE "loop")
    /\ UNCHANGED <<hidVars, drvBaseVars, mPollMutex, mpDev, mLizardMode, bindings>>

\* After the sleep: both tests come before Write takes mMutex.
LizardCheck ==
    /\ Ready("lizard", "check")
    /\ Goto("lizard", IF ~mLizardMode /\ IsOpen THEN "write" ELSE "loop")
    /\ UNCHANGED <<hidVars, drvBaseVars, mPollMutex, mpDev, mLizardMode, bindings>>

LizardWrite ==
    /\ Ready("lizard", "write")
    /\ mMutex = Nobody
    /\ WriteDisable({"keyboard"})
    /\ Goto("lizard", "loop")
    /\ UNCHANGED <<mFd, mMutex, mTimeoutCount, plugged, drvBaseVars, mPollMutex,
                   mpDev, mLizardMode, bindings>>

-----------------------------------------------------------------------------
(* What the main thread does to the driver: the constructor, SetProfile,   *)
(* the destructor.                                                         *)

\* A bare throw with no exception in flight is std::terminate: the handler
\* around the constructor call is never reached.
Terminate ==
    /\ process' = "aborted"
    /\ Goto("main", "end")

\* OpenHid and SetLizardMode(false).  Nothing else runs yet, so both locks
\* are free and the three reports are one step.
Construct ==
    /\ Ready("main", "construct")
    /\ \/ /\ Open
          /\ WriteDisable({"keyboard", "mouse"})
          /\ Goto("main", "load")
          /\ UNCHANGED process
       \/ /\ OpenBlocks("main")
          /\ Goto("main", "hung")
          /\ UNCHANGED process
       \/ /\ "nodevice" \in Faults
          /\ Terminate
          /\ UNCHANGED hidVars
    /\ mLizardMode' = FALSE
    /\ UNCHANGED <<drvBaseVars, mPollMutex, mpDev, mMap, switchTimer, frame, profile>>

\* Mutant: SetProfile works on the devices without taking mPollMutex.
SetProfileLockMissing ==
    /\ Ready("main", "lock")
    /\ Goto("main", "destroy")
    /\ UNCHANGED <<hidVars, drvBaseVars, mPollMutex, mpDev, mLizardMode, bindings>>

SetProfileLock ==
    /\ Ready("main", "lock")
    /\ mPollMutex = Nobody
    /\ mPollMutex' = "main"
    /\ Goto("main", "destroy")
    /\ UNCHANGED <<hidVars, drvBaseVars, mpDev, mLizardMode, bindings>>

DestroyUinputDevs == mpDev' = [d \in DevNames |-> NoProfile]

SetProfileDestroy ==
    /\ Ready("main", "destroy")
    /\ DestroyUinputDevs
    /\ Goto("main", "gamepad")
    /\ UNCHANGED <<hidVars, drvBaseVars, mPollMutex, mLizardMode, bindings>>

\* The device SetProfile creates after d, if the profile asks for one.
After(d) ==
    CASE d = "gamepad" /\ "motion" \in Features[profile] -> "motion"
      [] d # "mouse" /\ "mouse" \in Features[profile]
            /\ (d = "motion" \/ "motion" \notin Features[profile]) -> "mouse"
      [] OTHER -> "bind"

\* new Uinput::Device, for each device in turn.
SetProfileCreate(d) ==
    /\ Ready("main", d)
    /\ \/ /\ mpDev' = [mpDev EXCEPT ![d] = profile]
          /\ Goto("main", After(d))
          /\ UNCHANGED process
       \/ /\ "uinput" \in Faults
          /\ Terminate
          /\ UNCHANGED mpDev
    /\ UNCHANGED <<hidVars, drvBaseVars, mPollMutex, mLizardMode, mMap,
                   switchTimer, frame, profile>>

\* The bindings and the deadzones, then back through LoadProfile: to
\* Startup, which goes on to start the thread, or to the daemon's loop.
SetProfileBind ==
    /\ Ready("main", "bind")
    /\ mMap' = profile
    /\ profile' = NoProfile
    /\ mPollMutex' = Nobody
    /\ Goto("main", IF mThread = "none" THEN "start" ELSE "loop")
    /\ UNCHANGED <<hidVars, drvBaseVars, mpDev, mLizardMode, switchTimer, frame, process>>

\* SetLizardMode(true) in the destructor: nothing happens when the
\* descriptor is closed, and a failed report does not stop the others.
LizardModeLock ==
    /\ Ready("main", "lizard_lock")
    /\ IF IsOpen
       THEN /\ mPollMutex = Nobody
            /\ mPollMutex' = "main"
            /\ Goto("main", "lizard_on")
       ELSE /\ UNCHANGED mPollMutex
            /\ Goto("main", "delete")
    /\ UNCHANGED <<hidVars, drvBaseVars, mpDev, mLizardMode, bindings>>

LizardModeOn ==
    /\ Ready("main", "lizard_on")
    /\ mMutex = Nobody
    /\ WriteEnable({"keyboard", "mouse"})
    /\ mLizardMode' = TRUE
    /\ mPollMutex' = Nobody
    /\ Goto("main", "delete")
    /\ UNCHANGED <<mFd, mMutex, mTimeoutCount, plugged, drvBaseVars, mpDev, bindings>>

\* The rest of the destructor.
Delete ==
    /\ Ready("main", "delete")
    /\ DestroyUinputDevs
    /\ Close
    /\ Goto("main", "return")
    /\ UNCHANGED <<drvBaseVars, mPollMutex, mLizardMode, bindings>>

-----------------------------------------------------------------------------
\* The system clock reaches mProfSwitchTimestamp.
SwitchDelayElapses ==
    /\ process = "running" /\ switchTimer
    /\ switchTimer' = FALSE
    /\ UNCHANGED <<hidVars, drvBaseVars, pc, mPollMutex, mpDev, mMap, mLizardMode,
                   frame, profile, process>>
=============================================================================
