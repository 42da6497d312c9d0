------------------------------- MODULE Daemon --------------------------------
(***************************************************************************)
(* The daemon (src/opensdd/daemon.cpp, main.cpp): its main thread starts   *)
(* the gamepad driver, serves the driver's requests to switch the profile, *)
(* and shuts the driver down when a signal arrives.  This module composes  *)
(* the main thread with the driver's two threads, the device, the clock    *)
(* and the signal: it is the whole running system, apart from the command  *)
(* runner.                                                                 *)
(***************************************************************************)
EXTENDS GamepadDriver

VARIABLES
    gDaemonRunning,
    mpGpDrv             \* the driver object exists

daemonVars == <<gDaemonRunning, mpGpDrv>>
vars == <<hidVars, drvBaseVars, drvVars, daemonVars>>

TypeOK ==
    /\ HidTypeOK
    /\ DrvBaseTypeOK
    /\ DrvTypeOK
    /\ gDaemonRunning \in BOOLEAN
    /\ mpGpDrv \in BOOLEAN

Init ==
    /\ HidInit
    /\ DrvBaseInit
    /\ DrvInit
    /\ gDaemonRunning = TRUE
    /\ mpGpDrv = FALSE

-----------------------------------------------------------------------------
(* Startup                                                                 *)

\* The signal handlers, the file manager and config.ini.  Nobody catches an
\* exception of std::filesystem here, nor in LoadProfile.
Startup ==
    /\ Ready("main", "startup")
    /\ \/ Goto("main", "construct") /\ UNCHANGED process
       \/ "config" \in Faults /\ Goto("main", "return") /\ UNCHANGED process
       \/ "throw" \in Faults /\ Terminate
    /\ UNCHANGED <<hidVars, drvBaseVars, mPollMutex, mpDev, mLizardMode, mMap,
                   switchTimer, frame, profile, daemonVars>>

\* The configured profile is the first that LoadProfile is called with.
CreateDriver ==
    /\ Construct
    /\ mpGpDrv' = At("main", "load")'
    /\ UNCHANGED gDaemonRunning

\* LoadProfile up to SetProfile: the file is found and parsed, or the call
\* fails without having touched the driver.
LoadProfile ==
    /\ Ready("main", "load")
    /\ mpGpDrv
    /\ \/ /\ IF profile = NoProfile
             THEN profile' \in Profiles
             ELSE UNCHANGED profile
          /\ Goto("main", "lock")
          /\ UNCHANGED process
       \/ /\ "profile" \in Faults
          /\ profile' = NoProfile
          /\ Goto("main", IF mThread = "none" THEN "return" ELSE "loop")
          /\ UNCHANGED process
       \/ /\ "throw" \in Faults
          /\ profile' = NoProfile
          /\ Terminate
    /\ UNCHANGED <<hidVars, drvBaseVars, mPollMutex, mpDev, mMap, mLizardMode,
                   switchTimer, frame, daemonVars>>

StartDriver ==
    /\ Ready("main", "start")
    /\ Start
    /\ pc' = [pc EXCEPT !["main"] = "loop", !["poll"] = "run"]
    /\ UNCHANGED <<hidVars, mPollMutex, mpDev, mLizardMode, bindings, daemonVars>>

-----------------------------------------------------------------------------
(* Run                                                                     *)

Loop ==
    /\ Ready("main", "loop")
    /\ Goto("main", IF gDaemonRunning THEN "message" ELSE "stop")
    /\ UNCHANGED <<hidVars, drvBaseVars, mPollMutex, mpDev, mLizardMode, bindings,
                   daemonVars>>

\* At most one message each time round.
HandleMessage ==
    /\ Ready("main", "message")
    /\ IF HasMessage
       THEN /\ PopMessage
            /\ profile' = Head(mMsgQueue)
            /\ Goto("main", "load")
       ELSE /\ UNCHANGED <<drvBaseVars, profile>>
            /\ Goto("main", "loop")
    /\ UNCHANGED <<hidVars, mPollMutex, mpDev, mMap, mLizardMode, switchTimer,
                   frame, process, daemonVars>>

-----------------------------------------------------------------------------
(* Shutdown                                                                *)

StopDriver ==
    /\ Ready("main", "stop")
    /\ StopFlag
    /\ Goto("main", "join")
    /\ UNCHANGED <<hidVars, mPollMutex, mpDev, mLizardMode, bindings, daemonVars>>

\* Mutant: the driver is deleted without waiting for its thread.
JoinDriverMissing ==
    /\ Ready("main", "join")
    /\ Join
    /\ Goto("main", "lizard_lock")
    /\ UNCHANGED <<hidVars, mPollMutex, mpDev, mLizardMode, bindings, daemonVars>>

JoinDriver ==
    /\ Ready("main", "join")
    /\ At("poll", "end")
    /\ Join
    /\ Goto("main", "lizard_lock")
    /\ UNCHANGED <<hidVars, mPollMutex, mpDev, mLizardMode, bindings, daemonVars>>

DeleteDriver ==
    /\ Delete
    /\ mpGpDrv' = FALSE
    /\ gDaemonRunning' = FALSE

\* Run has returned and main destroys the Daemon, whose destructor calls
\* Shutdown again.  After a failed start-up the driver may still be there:
\* Stop joins a thread that was never started, and what that throws cannot
\* leave a destructor.
Return ==
    /\ Ready("main", "return")
    /\ IF mpGpDrv
       THEN /\ StopFlag
            /\ Terminate
            /\ UNCHANGED daemonVars
       ELSE /\ gDaemonRunning' = FALSE
            /\ process' = "exited"
            /\ Goto("main", "end")
            /\ UNCHANGED <<drvBaseVars, mpGpDrv>>
    /\ UNCHANGED <<hidVars, mPollMutex, mpDev, mMap, mLizardMode, switchTimer,
                   frame, profile>>

-----------------------------------------------------------------------------
MainThread ==
    \/ Startup
    \/ CreateDriver
    \/ LoadProfile
    \/ SetProfileLock /\ UNCHANGED daemonVars
    \/ SetProfileDestroy /\ UNCHANGED daemonVars
    \/ \E d \in DevNames : SetProfileCreate(d) /\ UNCHANGED daemonVars
    \/ SetProfileBind /\ UNCHANGED daemonVars
    \/ StartDriver
    \/ Loop
    \/ HandleMessage
    \/ StopDriver
    \/ JoinDriver
    \/ LizardModeLock /\ UNCHANGED daemonVars
    \/ LizardModeOn /\ UNCHANGED daemonVars
    \/ DeleteDriver
    \/ Return

PollThread ==
    \/ RunInit /\ UNCHANGED daemonVars
    \/ RunSpawn /\ UNCHANGED daemonVars
    \/ RunLoop /\ UNCHANGED daemonVars
    \/ PollLock /\ UNCHANGED daemonVars
    \/ PollHidLock /\ UNCHANGED daemonVars
    \/ PollRead /\ UNCHANGED daemonVars
    \/ Translate /\ UNCHANGED daemonVars
    \/ Flush /\ UNCHANGED daemonVars
    \/ PollFF /\ UNCHANGED daemonVars
    \/ RunJoin /\ UNCHANGED daemonVars

LizardThread ==
    \/ LizardLoop /\ UNCHANGED daemonVars
    \/ LizardCheck /\ UNCHANGED daemonVars
    \/ LizardWrite /\ UNCHANGED daemonVars

\* sig_handler: SIGINT or SIGTERM, at any moment.
Signal ==
    /\ process = "running" /\ gDaemonRunning
    /\ gDaemonRunning' = FALSE
    /\ UNCHANGED <<hidVars, drvBaseVars, drvVars, mpGpDrv>>

DeviceUnplugged ==
    /\ process = "running" /\ Unplug
    /\ UNCHANGED <<drvBaseVars, drvVars, daemonVars>>

FirmwareResumes ==
    /\ process = "running" /\ KeyboardReturns
    /\ UNCHANGED <<drvBaseVars, drvVars, daemonVars>>

\* The process is gone, and nothing happens any more.
Ended == process # "running" /\ UNCHANGED vars

Next ==
    \/ MainThread
    \/ PollThread
    \/ LizardThread
    \/ Signal
    \/ SwitchDelayElapses /\ UNCHANGED daemonVars
    \/ DeviceUnplugged
    \/ FirmwareResumes
    \/ Ended

Spec == Init /\ [][Next]_vars

(***************************************************************************)
(* Fairness.  Each thread is scheduled, poll() returns within a second and *)
(* every other call returns.  Two steps take a mutex that another thread   *)
(* keeps taking again: a swap waits for mPollMutex, a lizard write for     *)
(* Hidraw::mMutex, both held while poll() waits.  The poll thread sleeps   *)
(* for 250us between two polls with both free; that the waiter gets in     *)
(* during one of these pauses is assumed, as strong fairness.  Signals,    *)
(* reports, failures and the clock owe nothing.                            *)
(***************************************************************************)
Fairness ==
    /\ WF_vars(MainThread)
    /\ WF_vars(PollThread)
    /\ WF_vars(LizardThread)
    /\ SF_vars(SetProfileLock /\ UNCHANGED daemonVars)
    /\ SF_vars(LizardWrite /\ UNCHANGED daemonVars)

FairSpec == Spec /\ Fairness

-----------------------------------------------------------------------------
(* Safety                                                                  *)

\* The devices a profile asks for.
DevicesOf(p) == {"gamepad"} \cup (Features[p] \cap DevNames)

\* From the translation of a report to its last write, the bindings and the
\* uinput devices are those of one profile: SetProfile never swaps either
\* while HandleInputReport works (driver.cpp:123-172 against 767-861).
FrameMatchesDevices ==
    frame # NoProfile =>
        /\ mMap = frame
        /\ \A d \in DevNames :
              mpDev[d] = IF d \in DevicesOf(frame) THEN frame ELSE NoProfile

\* Poll dereferences mpGamepad without a test (driver.cpp:912): whenever the
\* poll thread gets there, the device exists.
PollHasGamepad == At("poll", "ff") => mpDev["gamepad"] # NoProfile

\* The destructor runs, and the object is freed, only when neither driver
\* thread can touch the object again (driver_base.hpp:78, driver.cpp:1051).
DriverOutlivesThreads ==
    pc["main"] \in {"lizard_lock", "lizard_on", "delete"} \/ ~mpGpDrv =>
        \A t \in {"poll", "lizard"} : pc[t] \in {"unborn", "end"}

\* After an orderly exit the firmware emulates keyboard and mouse again: no
\* CLEAR_MAPPINGS of the lizard thread follows the destructor's reports
\* (data/profiles/default.profile:52).
ExitRestoresLizardMode ==
    process = "exited" /\ mThread = "joined" /\ plugged =>
        emulation = {"keyboard", "mouse"}

\* A profile is in service unless SetProfile is at work on the devices or an
\* exception has ended it there, or they are gone.
InService ==
    /\ process = "aborted" => profile = NoProfile
    /\ mpDev["gamepad"] # NoProfile
    /\ pc["main"] \notin {"gamepad", "motion", "mouse", "bind"}

ServingProfile == IF InService THEN mMap ELSE NoProfile

\* The daemon and the driver's threads provide the profile service.
PS == INSTANCE ProfileSwitching WITH
        active   <- ServingProfile,
        loading  <- profile,
        requests <- mMsgQueue,
        Capacity <- MAX_DRIVER_MESSAGES

SwitchesProfiles == PS!PSSpec

-----------------------------------------------------------------------------
(* Why the safety properties hold: an inductive invariant.                 *)

PollInside == {"hid_lock", "read", "hung", "translate", "flush", "ff"}
MainInside == {"destroy", "gamepad", "motion", "mouse", "bind", "lizard_on"}

\* Who is between the lock and the unlock of mPollMutex is its owner; if an
\* exception ended the process during a swap, the mutex died locked.
PollMutexInv ==
    /\ pc["poll"] \in PollInside => mPollMutex = "poll"
    /\ pc["main"] \in MainInside => mPollMutex = "main"
    /\ At("main", "end") /\ profile # NoProfile => mPollMutex = "main"

\* The threads live within each other: lizard in poll, poll between Start and
\* the join, all of them within the life of the driver object.
LifecycleInv ==
    /\ pc["poll"] \in {"unborn", "run", "spawn"} <=> At("lizard", "unborn")
    /\ At("poll", "end") => At("lizard", "end")
    /\ mThread = "none" <=> At("poll", "unborn")
    /\ mThread = "joined" => At("poll", "end")
    /\ pc["main"] \in {"startup", "construct", "hung", "start"} => mThread = "none"
    /\ pc["main"] \in {"loop", "message", "stop", "join"} => mThread = "joinable"
    /\ pc["main"] \in {"lizard_lock", "lizard_on", "delete"} => mThread = "joined"
    /\ At("main", "return") => mThread # "joinable"
    /\ pc["main"] \in {"load", "lock", "destroy", "gamepad", "motion", "mouse", "bind"}
          => mThread # "joined"
    /\ pc["main"] \in MainLabels \ {"startup", "construct", "hung", "return", "end"}
          => mpGpDrv
    /\ ~mpGpDrv => mThread # "joinable"

\* The devices are exactly those profile p asks for.
Complete(p) ==
    /\ p \in Profiles
    /\ \A d \in DevNames : mpDev[d] = IF d \in DevicesOf(p) THEN p ELSE NoProfile

NoDevices == \A d \in DevNames : mpDev[d] = NoProfile

\* They are those of the bindings whenever a poll may use them; while
\* SetProfile builds them up, the ones before its next are those of profile.
DeviceInv ==
    /\ pc["main"] \in {"lock", "destroy", "gamepad", "motion", "mouse", "bind"}
          => profile \in Profiles
    /\ pc["main"] \in {"start", "loop", "message", "stop", "join", "lizard_lock",
                       "lizard_on", "delete"}
          => Complete(mMap)
    /\ pc["main"] \in {"load", "lock", "destroy"} /\ mThread = "joinable"
          => Complete(mMap)
    /\ At("main", "end") /\ mThread = "joinable" /\ profile = NoProfile => Complete(mMap)
    /\ At("main", "gamepad") => NoDevices
    /\ At("main", "motion") =>
          /\ "motion" \in Features[profile]
          /\ mpDev["gamepad"] = profile
          /\ mpDev["motion"] = NoProfile
          /\ mpDev["mouse"] = NoProfile
    /\ At("main", "mouse") =>
          /\ "mouse" \in Features[profile]
          /\ mpDev["gamepad"] = profile
          /\ mpDev["motion"] = IF "motion" \in Features[profile] THEN profile ELSE NoProfile
          /\ mpDev["mouse"] = NoProfile
    /\ At("main", "bind") => Complete(profile)

\* A profile is being loaded from the call of LoadProfile to its return, and
\* before the first one there are no devices.
LoadInv ==
    /\ pc["main"] \in MainLabels \ {"load", "lock", "destroy", "gamepad", "motion",
                                    "mouse", "bind", "end"}
          => profile = NoProfile
    /\ At("main", "load") => (profile = NoProfile <=> mThread = "none")
    /\ mThread = "none" /\ pc["main"] \in {"startup", "construct", "hung", "load",
                                            "lock", "destroy"}
          => NoDevices
    /\ At("main", "return") => NoDevices

\* A frame is under way only between Translate and Flush.
FrameInv == frame # NoProfile => At("poll", "flush") /\ frame = mMap

\* Nobody reads from a device again after Read has given it up for lost.
TimeoutInv == mTimeoutCount > MaxTimeouts => At("poll", "hung")

\* The process ends only through main.
EndInv == At("main", "end") <=> process # "running"

Inv ==
    /\ TypeOK
    /\ PollMutexInv
    /\ LifecycleInv
    /\ DeviceInv
    /\ LoadInv
    /\ FrameInv
    /\ TimeoutInv
    /\ EndInv

-----------------------------------------------------------------------------
(* Liveness, under FairSpec                                                *)

Queued(p) == \E i \in DOMAIN mMsgQueue : mMsgQueue[i] = p
Stopping == ~gDaemonRunning \/ process # "running"

\* A request that made it into the queue is taken up, even if the driver
\* keeps adding others (daemon.cpp:172-202), unless a stop comes first.
RequestsServed ==
    \A p \in Profiles : Queued(p) ~> (profile = p \/ Stopping)

\* A swap that waits for mPollMutex gets it and ends with every thread back
\* at work (driver.cpp:775): the poll thread cannot keep the daemon out.
SwapsComplete == At("main", "lock") ~> (At("main", "loop") \/ Stopping)

\* Once Stop has cleared the flag of a driver thread that has read it as
\* set, both driver threads end and the process exits.
StopEnds ==
    At("main", "join") /\ ~mRunning /\ ~At("poll", "run") ~> process = "exited"

\* While the driver runs, the keyboard emulation that the firmware takes up
\* again is switched off again (driver.cpp:990-1027).
KeyboardSuppressed ==
    At("main", "loop") /\ "keyboard" \in emulation ~>
        ("keyboard" \notin emulation \/ Stopping \/ ~plugged)

-----------------------------------------------------------------------------
(* What the documentation and the comments say, and the code does not do   *)

\* "Gamepad device has been lost.  Terminating gamepad driver."
LostDeviceEndsDriver == mTimeoutCount > MaxTimeouts ~> At("poll", "end")

\* "Loop until interrupt signal"
SignalEndsDaemon == ~gDaemonRunning ~> process # "running"

\* "When OpenSD exits, Lizard Mode is re-enabled."
LizardModeAfterExit ==
    process # "running" /\ plugged => emulation = {"keyboard", "mouse"}

\* "If a profile fails to load, the process will be aborted and the profile
\* currently in use will remain so."
FailedLoadKeepsProfile ==
    mThread = "joinable" /\ profile # NoProfile => process = "running"
=============================================================================
