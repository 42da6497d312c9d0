---------------------------- MODULE DaemonProofs -----------------------------
(***************************************************************************)
(* What is proved of Daemon, for every set of profiles, every choice of    *)
(* features, queue capacity, timeout limit and set of faults.  The         *)
(* invariant Inv is inductive: each of its parts is kept by every step,    *)
(* one lemma per part, one step of the proof per action.  The safety       *)
(* properties follow from Inv, and so does the refinement of               *)
(* ProfileSwitching, step by step.                                         *)
(***************************************************************************)
EXTENDS Daemon, SequenceTheorems, TLAPS

\* The process starts in a state of the inductive invariant (daemon.cpp:220).
LEMMA InitInv == Init => Inv
  <1> SUFFICES ASSUME Init PROVE Inv
    OBVIOUS
  <1> USE DEF Init, HidInit, DrvBaseInit, DrvInit
  <1>1. HidTypeOK
    <2>1. mFd \in BOOLEAN /\ plugged \in BOOLEAN
      OBVIOUS
    <2>2. mMutex \in Threads \cup {Nobody} /\ emulation \in SUBSET {"keyboard", "mouse"}
      OBVIOUS
    <2>3. mTimeoutCount \in 0 .. MaxTimeouts + 1
      BY MaxTimeoutsAssumption
    <2> QED
      BY <2>1, <2>2, <2>3 DEF HidTypeOK
  <1>2. DrvBaseTypeOK
    <2>1. mRunning \in BOOLEAN /\ mThread \in {"none", "joinable", "joined"}
      OBVIOUS
    <2>2. mMsgQueue \in Seq(Profiles) /\ Len(mMsgQueue) <= MAX_DRIVER_MESSAGES
      BY CapacityAssumption
    <2> QED
      BY <2>1, <2>2 DEF DrvBaseTypeOK
  <1>3. DrvTypeOK
    BY DEF DrvTypeOK, Threads, MainLabels, PollLabels, LizardLabels
  <1>4. PollMutexInv /\ LifecycleInv /\ DeviceInv /\ LoadInv /\ FrameInv
    BY DEF PollMutexInv, LifecycleInv, DeviceInv, LoadInv, NoDevices, FrameInv, PollInside, MainInside, At,
           Threads, MainLabels
  <1>5. TimeoutInv /\ EndInv
    BY MaxTimeoutsAssumption DEF TimeoutInv, EndInv, At, Threads
  <1> QED
    BY <1>1, <1>2, <1>3, <1>4, <1>5 DEF Inv, TypeOK

USE DEF At, Ready, Goto, Terminate, vars, hidVars, drvBaseVars, drvVars, daemonVars, bindings

\* Every step keeps the variables' types; the timeout count needs TimeoutInv,
\* because Read counts one timeout beyond the limit only once (hidraw.cpp:225).
LEMMA TypeOKStep == TypeOK /\ TimeoutInv /\ [Next]_vars => TypeOK'
  <1> SUFFICES ASSUME TypeOK, TimeoutInv, [Next]_vars PROVE TypeOK'
    OBVIOUS
  <1> USE MaxTimeoutsAssumption, CapacityAssumption
      DEF TypeOK, HidTypeOK, DrvBaseTypeOK, DrvTypeOK, Threads, MainLabels, PollLabels, LizardLabels
  <1>1. CASE Startup
    BY <1>1 DEF Startup
  <1>2. CASE CreateDriver
    <2> USE <1>2 DEF CreateDriver, Construct, Open, OpenBlocks, WriteDisable, Delivered, IsOpen
    <2>1. HidTypeOK'
      OBVIOUS
    <2>2. DrvBaseTypeOK'
      OBVIOUS
    <2>3. DrvTypeOK'
      <3>1. (mLizardMode \in BOOLEAN /\ switchTimer \in BOOLEAN)'
        OBVIOUS
      <3>2. /\ pc' \in [Threads -> MainLabels \cup PollLabels \cup LizardLabels]
            /\ pc'["main"] \in MainLabels
            /\ pc'["poll"] \in PollLabels
            /\ pc'["lizard"] \in LizardLabels
        OBVIOUS
      <3>3. /\ mPollMutex' \in Threads \cup {Nobody}
            /\ mpDev' \in [DevNames -> Profiles \cup {NoProfile}]
            /\ mMap' \in Profiles \cup {NoProfile}
            /\ frame' \in Profiles \cup {NoProfile}
            /\ profile' \in Profiles \cup {NoProfile}
            /\ process' \in {"running", "exited", "aborted"}
        OBVIOUS
      <3> QED
        BY <3>1, <3>2, <3>3
    <2>4. (gDaemonRunning \in BOOLEAN /\ mpGpDrv \in BOOLEAN)'
      OBVIOUS
    <2> QED
      BY <2>1, <2>2, <2>3, <2>4
  <1>3. CASE LoadProfile
    BY <1>3 DEF LoadProfile
  <1>4. CASE SetProfileLock /\ UNCHANGED daemonVars
    BY <1>4 DEF SetProfileLock
  <1>5. CASE SetProfileDestroy /\ UNCHANGED daemonVars
    BY <1>5 DEF SetProfileDestroy, DestroyUinputDevs
  <1>6. ASSUME NEW d \in DevNames, SetProfileCreate(d) /\ UNCHANGED daemonVars PROVE TypeOK'
    BY <1>6 DEF SetProfileCreate, After, DevNames
  <1>7. CASE SetProfileBind /\ UNCHANGED daemonVars
    BY <1>7 DEF SetProfileBind
  <1>8. CASE StartDriver
    BY <1>8 DEF StartDriver, Start
  <1>9. CASE Loop
    BY <1>9 DEF Loop
  <1>10. CASE HandleMessage
    <2> USE <1>10 DEF HandleMessage, HasMessage, PopMessage
    <2>1. HidTypeOK'
      OBVIOUS
    <2>2. DrvBaseTypeOK'
      <3>1. CASE HasMessage
        BY <3>1, HeadTailProperties
      <3>2. CASE ~HasMessage
        BY <3>2
      <3> QED
        BY <3>1, <3>2
    <2>3. DrvTypeOK'
      OBVIOUS
    <2>4. (gDaemonRunning \in BOOLEAN /\ mpGpDrv \in BOOLEAN)'
      OBVIOUS
    <2> QED
      BY <2>1, <2>2, <2>3, <2>4
  <1>11. CASE StopDriver
    <2> USE <1>11 DEF StopDriver, StopFlag
    <2>1. HidTypeOK'
      OBVIOUS
    <2>2. DrvBaseTypeOK'
      OBVIOUS
    <2>3. DrvTypeOK'
      OBVIOUS
    <2>4. (gDaemonRunning \in BOOLEAN /\ mpGpDrv \in BOOLEAN)'
      OBVIOUS
    <2> QED
      BY <2>1, <2>2, <2>3, <2>4
  <1>12. CASE JoinDriver
    BY <1>12 DEF JoinDriver, Join
  <1>13. CASE LizardModeLock /\ UNCHANGED daemonVars
    BY <1>13 DEF LizardModeLock, IsOpen
  <1>14. CASE LizardModeOn /\ UNCHANGED daemonVars
    <2> USE <1>14 DEF LizardModeOn, WriteEnable, Delivered
    <2>1. HidTypeOK'
      OBVIOUS
    <2>2. DrvBaseTypeOK'
      OBVIOUS
    <2>3. DrvTypeOK'
      OBVIOUS
    <2>4. (gDaemonRunning \in BOOLEAN /\ mpGpDrv \in BOOLEAN)'
      OBVIOUS
    <2> QED
      BY <2>1, <2>2, <2>3, <2>4
  <1>15. CASE DeleteDriver
    <2> USE <1>15 DEF DeleteDriver, Delete, DestroyUinputDevs, Close
    <2>1. HidTypeOK'
      OBVIOUS
    <2>2. DrvBaseTypeOK'
      OBVIOUS
    <2>3. DrvTypeOK'
      OBVIOUS
    <2>4. (gDaemonRunning \in BOOLEAN /\ mpGpDrv \in BOOLEAN)'
      OBVIOUS
    <2> QED
      BY <2>1, <2>2, <2>3, <2>4
  <1>16. CASE Return
    <2> USE <1>16 DEF Return, StopFlag
    <2>1. HidTypeOK'
      OBVIOUS
    <2>2. DrvBaseTypeOK'
      OBVIOUS
    <2>3. DrvTypeOK'
      OBVIOUS
    <2>4. (gDaemonRunning \in BOOLEAN /\ mpGpDrv \in BOOLEAN)'
      OBVIOUS
    <2> QED
      BY <2>1, <2>2, <2>3, <2>4
  <1>17. CASE RunInit /\ UNCHANGED daemonVars
    BY <1>17 DEF RunInit, SetRunning
  <1>18. CASE RunSpawn /\ UNCHANGED daemonVars
    <2> USE <1>18 DEF RunSpawn
    <2>1. HidTypeOK'
      OBVIOUS
    <2>2. DrvBaseTypeOK'
      OBVIOUS
    <2>3. DrvTypeOK'
      OBVIOUS
    <2>4. (gDaemonRunning \in BOOLEAN /\ mpGpDrv \in BOOLEAN)'
      OBVIOUS
    <2> QED
      BY <2>1, <2>2, <2>3, <2>4
  <1>19. CASE RunLoop /\ UNCHANGED daemonVars
    BY <1>19 DEF RunLoop
  <1>20. CASE PollLock /\ UNCHANGED daemonVars
    BY <1>20 DEF PollLock, IsOpen
  <1>21. CASE PollHidLock /\ UNCHANGED daemonVars
    BY <1>21 DEF PollHidLock, LockForRead
  <1>22. CASE PollRead /\ UNCHANGED daemonVars
    <2> USE <1>22 DEF PollRead, ReadReport, ReadTimesOut, ReadBlocks, ReadFails
    <2>1. HidTypeOK'
      <3>1. mTimeoutCount' \in 0 .. MaxTimeouts + 1
        BY DEF TimeoutInv
      <3>2. mMutex' \in Threads \cup {Nobody}
        OBVIOUS
      <3>3. (mFd \in BOOLEAN /\ plugged \in BOOLEAN)'
        OBVIOUS
      <3>4. emulation' \in SUBSET {"keyboard", "mouse"}
        OBVIOUS
      <3> QED
        BY <3>1, <3>2, <3>3, <3>4
    <2>2. DrvBaseTypeOK'
      OBVIOUS
    <2>3. DrvTypeOK'
      OBVIOUS
    <2>4. (gDaemonRunning \in BOOLEAN /\ mpGpDrv \in BOOLEAN)'
      OBVIOUS
    <2> QED
      BY <2>1, <2>2, <2>3, <2>4
  <1>23. CASE Translate /\ UNCHANGED daemonVars
    <2> USE <1>23 DEF Translate, RequestProfile, PushMessage
    <2>1. HidTypeOK'
      OBVIOUS
    <2>2. DrvBaseTypeOK'
      <3>1. CASE UNCHANGED drvBaseVars
        BY <3>1
      <3>2. ASSUME NEW p \in Profiles, PushMessage(p) PROVE DrvBaseTypeOK'
        BY <3>2, AppendProperties DEF PushMessage
      <3> QED
        BY <3>1, <3>2
    <2>3. DrvTypeOK'
      <3>1. (mLizardMode \in BOOLEAN /\ switchTimer \in BOOLEAN)'
        OBVIOUS
      <3>2. /\ pc' \in [Threads -> MainLabels \cup PollLabels \cup LizardLabels]
            /\ pc'["main"] \in MainLabels
            /\ pc'["poll"] \in PollLabels
            /\ pc'["lizard"] \in LizardLabels
        OBVIOUS
      <3>3. /\ mPollMutex' \in Threads \cup {Nobody}
            /\ mpDev' \in [DevNames -> Profiles \cup {NoProfile}]
            /\ mMap' \in Profiles \cup {NoProfile}
            /\ frame' \in Profiles \cup {NoProfile}
            /\ profile' \in Profiles \cup {NoProfile}
            /\ process' \in {"running", "exited", "aborted"}
        OBVIOUS
      <3> QED
        BY <3>1, <3>2, <3>3
    <2>4. (gDaemonRunning \in BOOLEAN /\ mpGpDrv \in BOOLEAN)'
      OBVIOUS
    <2> QED
      BY <2>1, <2>2, <2>3, <2>4
  <1>24. CASE Flush /\ UNCHANGED daemonVars
    BY <1>24 DEF Flush
  <1>25. CASE PollFF /\ UNCHANGED daemonVars
    BY <1>25 DEF PollFF
  <1>26. CASE RunJoin /\ UNCHANGED daemonVars
    BY <1>26 DEF RunJoin
  <1>27. CASE LizardLoop /\ UNCHANGED daemonVars
    BY <1>27 DEF LizardLoop
  <1>28. CASE LizardCheck /\ UNCHANGED daemonVars
    BY <1>28 DEF LizardCheck, IsOpen
  <1>29. CASE LizardWrite /\ UNCHANGED daemonVars
    <2> USE <1>29 DEF LizardWrite, WriteDisable, Delivered
    <2>1. HidTypeOK'
      OBVIOUS
    <2>2. DrvBaseTypeOK'
      OBVIOUS
    <2>3. DrvTypeOK'
      OBVIOUS
    <2>4. (gDaemonRunning \in BOOLEAN /\ mpGpDrv \in BOOLEAN)'
      OBVIOUS
    <2> QED
      BY <2>1, <2>2, <2>3, <2>4
  <1>30. CASE Signal
    <2> USE <1>30 DEF Signal
    <2>1. HidTypeOK'
      OBVIOUS
    <2>2. DrvBaseTypeOK'
      OBVIOUS
    <2>3. DrvTypeOK'
      OBVIOUS
    <2>4. (gDaemonRunning \in BOOLEAN /\ mpGpDrv \in BOOLEAN)'
      OBVIOUS
    <2> QED
      BY <2>1, <2>2, <2>3, <2>4
  <1>31. CASE SwitchDelayElapses /\ UNCHANGED daemonVars
    <2> USE <1>31 DEF SwitchDelayElapses
    <2>1. HidTypeOK'
      OBVIOUS
    <2>2. DrvBaseTypeOK'
      OBVIOUS
    <2>3. DrvTypeOK'
      <3>1. (mLizardMode \in BOOLEAN /\ switchTimer \in BOOLEAN)'
        OBVIOUS
      <3>2. /\ pc' \in [Threads -> MainLabels \cup PollLabels \cup LizardLabels]
            /\ pc'["main"] \in MainLabels
            /\ pc'["poll"] \in PollLabels
            /\ pc'["lizard"] \in LizardLabels
        OBVIOUS
      <3>3. /\ mPollMutex' \in Threads \cup {Nobody}
            /\ mpDev' \in [DevNames -> Profiles \cup {NoProfile}]
            /\ mMap' \in Profiles \cup {NoProfile}
            /\ frame' \in Profiles \cup {NoProfile}
            /\ profile' \in Profiles \cup {NoProfile}
            /\ process' \in {"running", "exited", "aborted"}
        OBVIOUS
      <3> QED
        BY <3>1, <3>2, <3>3
    <2>4. (gDaemonRunning \in BOOLEAN /\ mpGpDrv \in BOOLEAN)'
      OBVIOUS
    <2> QED
      BY <2>1, <2>2, <2>3, <2>4
  <1>32. CASE DeviceUnplugged
    <2> USE <1>32 DEF DeviceUnplugged, Unplug
    <2>1. HidTypeOK'
      OBVIOUS
    <2>2. DrvBaseTypeOK'
      OBVIOUS
    <2>3. DrvTypeOK'
      OBVIOUS
    <2>4. (gDaemonRunning \in BOOLEAN /\ mpGpDrv \in BOOLEAN)'
      OBVIOUS
    <2> QED
      BY <2>1, <2>2, <2>3, <2>4
  <1>33. CASE FirmwareResumes
    BY <1>33 DEF FirmwareResumes, KeyboardReturns
  <1>34. CASE Ended
    BY <1>34 DEF Ended
  <1>35. CASE UNCHANGED vars
    BY <1>35
  <1> QED
    BY <1>1, <1>2, <1>3, <1>4, <1>5, <1>6, <1>7, <1>8, <1>9, <1>10, <1>11, <1>12, <1>13, <1>14, <1>15, <1>16, <1>17, <1>18, <1>19, <1>20, <1>21, <1>22, <1>23, <1>24, <1>25, <1>26, <1>27, <1>28, <1>29, <1>30, <1>31, <1>32, <1>33, <1>34, <1>35 DEF Next, MainThread, PollThread, LizardThread

\* Every step keeps mPollMutex with the thread that is between its lock and
\* its unlock (driver.cpp:775, 871, 1068).
LEMMA PollMutexStep == Inv /\ [Next]_vars => PollMutexInv'
  <1> SUFFICES ASSUME Inv, [Next]_vars PROVE PollMutexInv'
    OBVIOUS
  <1> USE DEF DevNames, Threads, MainLabels, PollLabels, LizardLabels
  <1>a. /\ pc \in [Threads -> MainLabels \cup PollLabels \cup LizardLabels]
        /\ pc["main"] \in MainLabels
        /\ pc["poll"] \in PollLabels
        /\ pc["lizard"] \in LizardLabels
    BY DEF Inv, TypeOK, DrvTypeOK
  <1> USE <1>a DEF Inv, PollMutexInv, PollInside, MainInside, LifecycleInv, EndInv, TimeoutInv
  <1>1. CASE Startup
    BY <1>1 DEF Startup, LoadInv
  <1>2. CASE CreateDriver
    BY <1>2 DEF CreateDriver, Construct, Open, OpenBlocks, LoadInv
  <1>3. CASE LoadProfile
    BY <1>3 DEF LoadProfile
  <1>4. CASE SetProfileLock /\ UNCHANGED daemonVars
    BY <1>4 DEF SetProfileLock, Nobody
  <1>5. CASE SetProfileDestroy /\ UNCHANGED daemonVars
    BY <1>5 DEF SetProfileDestroy, DestroyUinputDevs
  <1>6. ASSUME NEW d \in DevNames, SetProfileCreate(d) /\ UNCHANGED daemonVars
       PROVE PollMutexInv'
    BY <1>6 DEF SetProfileCreate, After
  <1>7. CASE SetProfileBind /\ UNCHANGED daemonVars
    BY <1>7 DEF SetProfileBind
  <1>8. CASE StartDriver
    BY <1>8 DEF StartDriver, Start
  <1>9. CASE Loop
    BY <1>9 DEF Loop
  <1>10. CASE HandleMessage
    BY <1>10 DEF HandleMessage, PopMessage
  <1>11. CASE StopDriver
    BY <1>11 DEF StopDriver, StopFlag
  <1>12. CASE JoinDriver
    BY <1>12 DEF JoinDriver, Join
  <1>13. CASE LizardModeLock /\ UNCHANGED daemonVars
    BY <1>13 DEF LizardModeLock
  <1>14. CASE LizardModeOn /\ UNCHANGED daemonVars
    BY <1>14 DEF LizardModeOn
  <1>15. CASE DeleteDriver
    BY <1>15 DEF DeleteDriver, Delete, DestroyUinputDevs, Close, LoadInv
  <1>16. CASE Return
    BY <1>16 DEF Return, StopFlag, LoadInv
  <1>17. CASE RunInit /\ UNCHANGED daemonVars
    BY <1>17 DEF RunInit, SetRunning
  <1>18. CASE RunSpawn /\ UNCHANGED daemonVars
    BY <1>18 DEF RunSpawn
  <1>19. CASE RunLoop /\ UNCHANGED daemonVars
    BY <1>19 DEF RunLoop
  <1>20. CASE PollLock /\ UNCHANGED daemonVars
    BY <1>20 DEF PollLock, Nobody
  <1>21. CASE PollHidLock /\ UNCHANGED daemonVars
    BY <1>21 DEF PollHidLock, LockForRead
  <1>22. CASE PollRead /\ UNCHANGED daemonVars
    BY <1>22 DEF PollRead, ReadReport, ReadTimesOut, ReadBlocks, ReadFails
  <1>23. CASE Translate /\ UNCHANGED daemonVars
    BY <1>23 DEF Translate, RequestProfile, PushMessage
  <1>24. CASE Flush /\ UNCHANGED daemonVars
    BY <1>24 DEF Flush
  <1>25. CASE PollFF /\ UNCHANGED daemonVars
    BY <1>25 DEF PollFF
  <1>26. CASE RunJoin /\ UNCHANGED daemonVars
    BY <1>26 DEF RunJoin
  <1>27. CASE LizardLoop /\ UNCHANGED daemonVars
    BY <1>27 DEF LizardLoop
  <1>28. CASE LizardCheck /\ UNCHANGED daemonVars
    BY <1>28 DEF LizardCheck
  <1>29. CASE LizardWrite /\ UNCHANGED daemonVars
    BY <1>29 DEF LizardWrite
  <1>30. CASE Signal
    BY <1>30 DEF Signal
  <1>31. CASE SwitchDelayElapses /\ UNCHANGED daemonVars
    BY <1>31 DEF SwitchDelayElapses
  <1>32. CASE DeviceUnplugged
    BY <1>32 DEF DeviceUnplugged, Unplug
  <1>33. CASE FirmwareResumes
    BY <1>33 DEF FirmwareResumes, KeyboardReturns
  <1>34. CASE Ended
    BY <1>34 DEF Ended
  <1>35. CASE UNCHANGED vars
    BY <1>35
  <1> QED
    BY <1>1, <1>2, <1>3, <1>4, <1>5, <1>6, <1>7, <1>8, <1>9, <1>10, <1>11, <1>12, <1>13, <1>14, <1>15, <1>16, <1>17, <1>18, <1>19, <1>20, <1>21, <1>22, <1>23, <1>24, <1>25, <1>26, <1>27, <1>28, <1>29, <1>30, <1>31, <1>32, <1>33, <1>34, <1>35
    DEF Next, MainThread, PollThread, LizardThread

\* Every step keeps the driver's threads within each other's lives and within
\* the driver object's (driver.cpp:1031-1052, driver_base.hpp:70-79).
LEMMA LifecycleStep == Inv /\ [Next]_vars => LifecycleInv'
  <1> SUFFICES ASSUME Inv, [Next]_vars PROVE LifecycleInv'
    OBVIOUS
  <1> USE DEF DevNames, Threads, MainLabels, PollLabels, LizardLabels
  <1>a. /\ pc \in [Threads -> MainLabels \cup PollLabels \cup LizardLabels]
        /\ pc["main"] \in MainLabels
        /\ pc["poll"] \in PollLabels
        /\ pc["lizard"] \in LizardLabels
    BY DEF Inv, TypeOK, DrvTypeOK
  <1> USE <1>a DEF Inv, LifecycleInv, EndInv
  <1>1. CASE Startup
    BY <1>1 DEF Startup
  <1>2. CASE CreateDriver
    BY <1>2 DEF CreateDriver, Construct, Open, OpenBlocks
  <1>3. CASE LoadProfile
    <2>1. mThread' = mThread /\ mpGpDrv' = mpGpDrv /\ mThread # "joined" /\ mpGpDrv
      BY <1>3 DEF LoadProfile
    <2>2. pc' = [pc EXCEPT !["main"] = "lock"]
             \/ pc' = [pc EXCEPT !["main"] = IF mThread = "none" THEN "return" ELSE "loop"]
             \/ pc' = [pc EXCEPT !["main"] = "end"]
      BY <1>3 DEF LoadProfile
    <2>3. mThread \in {"none", "joinable", "joined"}
      BY DEF Inv, TypeOK, DrvBaseTypeOK
    <2>4. CASE mThread = "none"
      BY <2>1, <2>2, <2>4
    <2>5. CASE mThread = "joinable"
      BY <2>1, <2>2, <2>5
    <2> QED
      BY <2>1, <2>3, <2>4, <2>5
  <1>4. CASE SetProfileLock /\ UNCHANGED daemonVars
    BY <1>4 DEF SetProfileLock
  <1>5. CASE SetProfileDestroy /\ UNCHANGED daemonVars
    BY <1>5 DEF SetProfileDestroy, DestroyUinputDevs
  <1>6. ASSUME NEW d \in DevNames, SetProfileCreate(d) /\ UNCHANGED daemonVars
       PROVE LifecycleInv'
    BY <1>6 DEF SetProfileCreate, After
  <1>7. CASE SetProfileBind /\ UNCHANGED daemonVars
    <2>1. mThread' = mThread /\ mpGpDrv' = mpGpDrv /\ mThread # "joined" /\ mpGpDrv
      BY <1>7 DEF SetProfileBind
    <2>2. pc' = [pc EXCEPT !["main"] = IF mThread = "none" THEN "start" ELSE "loop"]
      BY <1>7 DEF SetProfileBind
    <2>3. mThread \in {"none", "joinable", "joined"}
      BY DEF Inv, TypeOK, DrvBaseTypeOK
    <2>4. CASE mThread = "none"
      BY <2>1, <2>2, <2>4
    <2>5. CASE mThread = "joinable"
      BY <2>1, <2>2, <2>5
    <2> QED
      BY <2>1, <2>3, <2>4, <2>5
  <1>8. CASE StartDriver
    BY <1>8 DEF StartDriver, Start
  <1>9. CASE Loop
    BY <1>9 DEF Loop
  <1>10. CASE HandleMessage
    BY <1>10 DEF HandleMessage, PopMessage
  <1>11. CASE StopDriver
    BY <1>11 DEF StopDriver, StopFlag
  <1>12. CASE JoinDriver
    BY <1>12 DEF JoinDriver, Join
  <1>13. CASE LizardModeLock /\ UNCHANGED daemonVars
    BY <1>13 DEF LizardModeLock
  <1>14. CASE LizardModeOn /\ UNCHANGED daemonVars
    BY <1>14 DEF LizardModeOn
  <1>15. CASE DeleteDriver
    BY <1>15 DEF DeleteDriver, Delete, DestroyUinputDevs, Close
  <1>16. CASE Return
    BY <1>16 DEF Return, StopFlag
  <1>17. CASE RunInit /\ UNCHANGED daemonVars
    BY <1>17 DEF RunInit, SetRunning
  <1>18. CASE RunSpawn /\ UNCHANGED daemonVars
    BY <1>18 DEF RunSpawn
  <1>19. CASE RunLoop /\ UNCHANGED daemonVars
    BY <1>19 DEF RunLoop
  <1>20. CASE PollLock /\ UNCHANGED daemonVars
    BY <1>20 DEF PollLock
  <1>21. CASE PollHidLock /\ UNCHANGED daemonVars
    BY <1>21 DEF PollHidLock, LockForRead
  <1>22. CASE PollRead /\ UNCHANGED daemonVars
    BY <1>22 DEF PollRead, ReadReport, ReadTimesOut, ReadBlocks, ReadFails
  <1>23. CASE Translate /\ UNCHANGED daemonVars
    BY <1>23 DEF Translate, RequestProfile, PushMessage
  <1>24. CASE Flush /\ UNCHANGED daemonVars
    BY <1>24 DEF Flush
  <1>25. CASE PollFF /\ UNCHANGED daemonVars
    BY <1>25 DEF PollFF
  <1>26. CASE RunJoin /\ UNCHANGED daemonVars
    BY <1>26 DEF RunJoin
  <1>27. CASE LizardLoop /\ UNCHANGED daemonVars
    BY <1>27 DEF LizardLoop
  <1>28. CASE LizardCheck /\ UNCHANGED daemonVars
    BY <1>28 DEF LizardCheck
  <1>29. CASE LizardWrite /\ UNCHANGED daemonVars
    BY <1>29 DEF LizardWrite
  <1>30. CASE Signal
    BY <1>30 DEF Signal
  <1>31. CASE SwitchDelayElapses /\ UNCHANGED daemonVars
    BY <1>31 DEF SwitchDelayElapses
  <1>32. CASE DeviceUnplugged
    BY <1>32 DEF DeviceUnplugged, Unplug
  <1>33. CASE FirmwareResumes
    BY <1>33 DEF FirmwareResumes, KeyboardReturns
  <1>34. CASE Ended
    BY <1>34 DEF Ended
  <1>35. CASE UNCHANGED vars
    BY <1>35
  <1> QED
    BY <1>1, <1>2, <1>3, <1>4, <1>5, <1>6, <1>7, <1>8, <1>9, <1>10, <1>11, <1>12, <1>13, <1>14, <1>15, <1>16, <1>17, <1>18, <1>19, <1>20, <1>21, <1>22, <1>23, <1>24, <1>25, <1>26, <1>27, <1>28, <1>29, <1>30, <1>31, <1>32, <1>33, <1>34, <1>35
    DEF Next, MainThread, PollThread, LizardThread

\* Every step keeps a thread that has given the device up for lost where it
\* is (hidraw.cpp:235), and ends the process only through main.
LEMMA TimeoutStep == Inv /\ [Next]_vars => (TimeoutInv /\ EndInv)'
  <1> SUFFICES ASSUME Inv, [Next]_vars PROVE (TimeoutInv /\ EndInv)'
    OBVIOUS
  <1> USE DEF DevNames, Threads, MainLabels, PollLabels, LizardLabels
  <1>a. /\ pc \in [Threads -> MainLabels \cup PollLabels \cup LizardLabels]
        /\ pc["main"] \in MainLabels
        /\ pc["poll"] \in PollLabels
        /\ pc["lizard"] \in LizardLabels
    BY DEF Inv, TypeOK, DrvTypeOK
  <1>b. mTimeoutCount \in Nat
    BY MaxTimeoutsAssumption DEF Inv, TypeOK, HidTypeOK
  <1> USE <1>a, <1>b, MaxTimeoutsAssumption DEF Inv, TimeoutInv, EndInv
  <1>1. CASE Startup
    BY <1>1 DEF Startup
  <1>2. CASE CreateDriver
    BY <1>2 DEF CreateDriver, Construct, Open, OpenBlocks
  <1>3. CASE LoadProfile
    BY <1>3 DEF LoadProfile
  <1>4. CASE SetProfileLock /\ UNCHANGED daemonVars
    BY <1>4 DEF SetProfileLock
  <1>5. CASE SetProfileDestroy /\ UNCHANGED daemonVars
    BY <1>5 DEF SetProfileDestroy, DestroyUinputDevs
  <1>6. ASSUME NEW d \in DevNames, SetProfileCreate(d) /\ UNCHANGED daemonVars
       PROVE (TimeoutInv /\ EndInv)'
    BY <1>6 DEF SetProfileCreate, After
  <1>7. CASE SetProfileBind /\ UNCHANGED daemonVars
    BY <1>7 DEF SetProfileBind
  <1>8. CASE StartDriver
    BY <1>8 DEF StartDriver, Start, LifecycleInv
  <1>9. CASE Loop
    BY <1>9 DEF Loop
  <1>10. CASE HandleMessage
    BY <1>10 DEF HandleMessage, PopMessage
  <1>11. CASE StopDriver
    BY <1>11 DEF StopDriver, StopFlag
  <1>12. CASE JoinDriver
    BY <1>12 DEF JoinDriver, Join
  <1>13. CASE LizardModeLock /\ UNCHANGED daemonVars
    BY <1>13 DEF LizardModeLock
  <1>14. CASE LizardModeOn /\ UNCHANGED daemonVars
    BY <1>14 DEF LizardModeOn
  <1>15. CASE DeleteDriver
    BY <1>15 DEF DeleteDriver, Delete, DestroyUinputDevs, Close
  <1>16. CASE Return
    BY <1>16 DEF Return, StopFlag
  <1>17. CASE RunInit /\ UNCHANGED daemonVars
    BY <1>17 DEF RunInit, SetRunning
  <1>18. CASE RunSpawn /\ UNCHANGED daemonVars
    BY <1>18 DEF RunSpawn
  <1>19. CASE RunLoop /\ UNCHANGED daemonVars
    BY <1>19 DEF RunLoop
  <1>20. CASE PollLock /\ UNCHANGED daemonVars
    BY <1>20 DEF PollLock
  <1>21. CASE PollHidLock /\ UNCHANGED daemonVars
    BY <1>21 DEF PollHidLock, LockForRead
  <1>22. CASE PollRead /\ UNCHANGED daemonVars
    BY <1>22 DEF PollRead, ReadReport, ReadTimesOut, ReadBlocks, ReadFails
  <1>23. CASE Translate /\ UNCHANGED daemonVars
    BY <1>23 DEF Translate, RequestProfile, PushMessage
  <1>24. CASE Flush /\ UNCHANGED daemonVars
    BY <1>24 DEF Flush
  <1>25. CASE PollFF /\ UNCHANGED daemonVars
    BY <1>25 DEF PollFF
  <1>26. CASE RunJoin /\ UNCHANGED daemonVars
    BY <1>26 DEF RunJoin
  <1>27. CASE LizardLoop /\ UNCHANGED daemonVars
    BY <1>27 DEF LizardLoop
  <1>28. CASE LizardCheck /\ UNCHANGED daemonVars
    BY <1>28 DEF LizardCheck
  <1>29. CASE LizardWrite /\ UNCHANGED daemonVars
    BY <1>29 DEF LizardWrite
  <1>30. CASE Signal
    BY <1>30 DEF Signal
  <1>31. CASE SwitchDelayElapses /\ UNCHANGED daemonVars
    BY <1>31 DEF SwitchDelayElapses
  <1>32. CASE DeviceUnplugged
    BY <1>32 DEF DeviceUnplugged, Unplug
  <1>33. CASE FirmwareResumes
    BY <1>33 DEF FirmwareResumes, KeyboardReturns
  <1>34. CASE Ended
    BY <1>34 DEF Ended
  <1>35. CASE UNCHANGED vars
    BY <1>35
  <1> QED
    BY <1>1, <1>2, <1>3, <1>4, <1>5, <1>6, <1>7, <1>8, <1>9, <1>10, <1>11, <1>12, <1>13, <1>14, <1>15, <1>16, <1>17, <1>18, <1>19, <1>20, <1>21, <1>22, <1>23, <1>24, <1>25, <1>26, <1>27, <1>28, <1>29, <1>30, <1>31, <1>32, <1>33, <1>34, <1>35
    DEF Next, MainThread, PollThread, LizardThread

\* Every step keeps a frame under way within Translate and Flush and under
\* the bindings that filled it (driver.cpp:123-172).
LEMMA FrameStep == Inv /\ [Next]_vars => FrameInv'
  <1> SUFFICES ASSUME Inv, [Next]_vars PROVE FrameInv'
    OBVIOUS
  <1> USE DEF DevNames, Threads, MainLabels, PollLabels, LizardLabels
  <1>a. /\ pc \in [Threads -> MainLabels \cup PollLabels \cup LizardLabels]
        /\ pc["main"] \in MainLabels
        /\ pc["poll"] \in PollLabels
        /\ pc["lizard"] \in LizardLabels
    BY DEF Inv, TypeOK, DrvTypeOK
  <1> USE <1>a DEF Inv, FrameInv, PollMutexInv, PollInside, MainInside
  <1>1. CASE Startup
    BY <1>1 DEF Startup
  <1>2. CASE CreateDriver
    BY <1>2 DEF CreateDriver, Construct, Open, OpenBlocks
  <1>3. CASE LoadProfile
    BY <1>3 DEF LoadProfile
  <1>4. CASE SetProfileLock /\ UNCHANGED daemonVars
    BY <1>4 DEF SetProfileLock
  <1>5. CASE SetProfileDestroy /\ UNCHANGED daemonVars
    BY <1>5 DEF SetProfileDestroy, DestroyUinputDevs
  <1>6. ASSUME NEW d \in DevNames, SetProfileCreate(d) /\ UNCHANGED daemonVars
       PROVE FrameInv'
    BY <1>6 DEF SetProfileCreate, After
  <1>7. CASE SetProfileBind /\ UNCHANGED daemonVars
    BY <1>7 DEF SetProfileBind
  <1>8. CASE StartDriver
    BY <1>8 DEF StartDriver, Start, LifecycleInv
  <1>9. CASE Loop
    BY <1>9 DEF Loop
  <1>10. CASE HandleMessage
    BY <1>10 DEF HandleMessage, PopMessage
  <1>11. CASE StopDriver
    BY <1>11 DEF StopDriver, StopFlag
  <1>12. CASE JoinDriver
    BY <1>12 DEF JoinDriver, Join
  <1>13. CASE LizardModeLock /\ UNCHANGED daemonVars
    BY <1>13 DEF LizardModeLock
  <1>14. CASE LizardModeOn /\ UNCHANGED daemonVars
    BY <1>14 DEF LizardModeOn
  <1>15. CASE DeleteDriver
    BY <1>15 DEF DeleteDriver, Delete, DestroyUinputDevs, Close
  <1>16. CASE Return
    BY <1>16 DEF Return, StopFlag
  <1>17. CASE RunInit /\ UNCHANGED daemonVars
    BY <1>17 DEF RunInit, SetRunning
  <1>18. CASE RunSpawn /\ UNCHANGED daemonVars
    BY <1>18 DEF RunSpawn
  <1>19. CASE RunLoop /\ UNCHANGED daemonVars
    BY <1>19 DEF RunLoop
  <1>20. CASE PollLock /\ UNCHANGED daemonVars
    BY <1>20 DEF PollLock
  <1>21. CASE PollHidLock /\ UNCHANGED daemonVars
    BY <1>21 DEF PollHidLock, LockForRead
  <1>22. CASE PollRead /\ UNCHANGED daemonVars
    BY <1>22 DEF PollRead, ReadReport, ReadTimesOut, ReadBlocks, ReadFails
  <1>23. CASE Translate /\ UNCHANGED daemonVars
    BY <1>23 DEF Translate, RequestProfile, PushMessage
  <1>24. CASE Flush /\ UNCHANGED daemonVars
    BY <1>24 DEF Flush
  <1>25. CASE PollFF /\ UNCHANGED daemonVars
    BY <1>25 DEF PollFF
  <1>26. CASE RunJoin /\ UNCHANGED daemonVars
    BY <1>26 DEF RunJoin
  <1>27. CASE LizardLoop /\ UNCHANGED daemonVars
    BY <1>27 DEF LizardLoop
  <1>28. CASE LizardCheck /\ UNCHANGED daemonVars
    BY <1>28 DEF LizardCheck
  <1>29. CASE LizardWrite /\ UNCHANGED daemonVars
    BY <1>29 DEF LizardWrite
  <1>30. CASE Signal
    BY <1>30 DEF Signal
  <1>31. CASE SwitchDelayElapses /\ UNCHANGED daemonVars
    BY <1>31 DEF SwitchDelayElapses
  <1>32. CASE DeviceUnplugged
    BY <1>32 DEF DeviceUnplugged, Unplug
  <1>33. CASE FirmwareResumes
    BY <1>33 DEF FirmwareResumes, KeyboardReturns
  <1>34. CASE Ended
    BY <1>34 DEF Ended
  <1>35. CASE UNCHANGED vars
    BY <1>35
  <1> QED
    BY <1>1, <1>2, <1>3, <1>4, <1>5, <1>6, <1>7, <1>8, <1>9, <1>10, <1>11, <1>12, <1>13, <1>14, <1>15, <1>16, <1>17, <1>18, <1>19, <1>20, <1>21, <1>22, <1>23, <1>24, <1>25, <1>26, <1>27, <1>28, <1>29, <1>30, <1>31, <1>32, <1>33, <1>34, <1>35
    DEF Next, MainThread, PollThread, LizardThread

\* Every step keeps the uinput devices those of the bindings in force, or, in
\* SetProfile, those that have been made so far (driver.cpp:767-861).
LEMMA DeviceStep == Inv /\ [Next]_vars => DeviceInv'
  <1> SUFFICES ASSUME Inv, [Next]_vars PROVE DeviceInv'
    OBVIOUS
  <1> USE DEF DevNames, Threads, MainLabels, PollLabels, LizardLabels
  <1>a. /\ pc \in [Threads -> MainLabels \cup PollLabels \cup LizardLabels]
        /\ pc["main"] \in MainLabels
        /\ pc["poll"] \in PollLabels
        /\ pc["lizard"] \in LizardLabels
    BY DEF Inv, TypeOK, DrvTypeOK
  <1>b. mpDev \in [DevNames -> Profiles \cup {NoProfile}]
    BY DEF Inv, TypeOK, DrvTypeOK
  <1>c. \A i \in DOMAIN mMsgQueue : mMsgQueue[i] \in Profiles
    BY DEF Inv, TypeOK, DrvBaseTypeOK
  <1>d. mThread \in {"none", "joinable", "joined"}
    BY DEF Inv, TypeOK, DrvBaseTypeOK
  <1> USE <1>a, <1>b, FeaturesAssumption, NoProfileAssumption
      DEF Inv, DeviceInv, NoDevices, Complete, DevicesOf, LifecycleInv
  <1>1. CASE Startup
    BY <1>1 DEF Startup
  <1>2. CASE CreateDriver
    BY <1>2 DEF CreateDriver, Construct, Open, OpenBlocks
  <1>3. CASE LoadProfile
    <2>1. /\ UNCHANGED <<mpDev, mMap, mThread>>
          /\ profile' \in Profiles \cup {NoProfile}
          /\ At("main", "load")
      BY <1>3 DEF LoadProfile, Inv, TypeOK, DrvTypeOK
    <2>2. CASE pc' = [pc EXCEPT !["main"] = "lock"] /\ profile' \in Profiles
      BY <2>1, <2>2
    <2>3. CASE pc' = [pc EXCEPT !["main"] = IF mThread = "none" THEN "return" ELSE "loop"]
      <3>1. CASE mThread = "none"
        BY <2>1, <2>3, <3>1
      <3>2. CASE mThread # "none"
        BY <2>1, <2>3, <3>2, <1>d
      <3> QED
        BY <3>1, <3>2
    <2> QED
      BY <1>3, <2>2, <2>3 DEF LoadProfile, Inv, TypeOK, DrvTypeOK
  <1>4. CASE SetProfileLock /\ UNCHANGED daemonVars
    BY <1>4 DEF SetProfileLock
  <1>5. CASE SetProfileDestroy /\ UNCHANGED daemonVars
    BY <1>5 DEF SetProfileDestroy, DestroyUinputDevs
  <1>6. ASSUME NEW d \in DevNames, SetProfileCreate(d) /\ UNCHANGED daemonVars
       PROVE DeviceInv'
    BY <1>6 DEF SetProfileCreate, After
  <1>7. CASE SetProfileBind /\ UNCHANGED daemonVars
    BY <1>7 DEF SetProfileBind
  <1>8. CASE StartDriver
    BY <1>8 DEF StartDriver, Start
  <1>9. CASE Loop
    BY <1>9 DEF Loop
  <1>10. CASE HandleMessage
    BY <1>10 DEF HandleMessage, PopMessage
  <1>11. CASE StopDriver
    BY <1>11 DEF StopDriver, StopFlag
  <1>12. CASE JoinDriver
    BY <1>12 DEF JoinDriver, Join
  <1>13. CASE LizardModeLock /\ UNCHANGED daemonVars
    BY <1>13 DEF LizardModeLock
  <1>14. CASE LizardModeOn /\ UNCHANGED daemonVars
    BY <1>14 DEF LizardModeOn
  <1>15. CASE DeleteDriver
    BY <1>15 DEF DeleteDriver, Delete, DestroyUinputDevs, Close
  <1>16. CASE Return
    BY <1>16 DEF Return, StopFlag
  <1>17. CASE RunInit /\ UNCHANGED daemonVars
    BY <1>17 DEF RunInit, SetRunning
  <1>18. CASE RunSpawn /\ UNCHANGED daemonVars
    BY <1>18 DEF RunSpawn
  <1>19. CASE RunLoop /\ UNCHANGED daemonVars
    BY <1>19 DEF RunLoop
  <1>20. CASE PollLock /\ UNCHANGED daemonVars
    BY <1>20 DEF PollLock
  <1>21. CASE PollHidLock /\ UNCHANGED daemonVars
    BY <1>21 DEF PollHidLock, LockForRead
  <1>22. CASE PollRead /\ UNCHANGED daemonVars
    BY <1>22 DEF PollRead, ReadReport, ReadTimesOut, ReadBlocks, ReadFails
  <1>23. CASE Translate /\ UNCHANGED daemonVars
    BY <1>23 DEF Translate, RequestProfile, PushMessage
  <1>24. CASE Flush /\ UNCHANGED daemonVars
    BY <1>24 DEF Flush
  <1>25. CASE PollFF /\ UNCHANGED daemonVars
    BY <1>25 DEF PollFF
  <1>26. CASE RunJoin /\ UNCHANGED daemonVars
    BY <1>26 DEF RunJoin
  <1>27. CASE LizardLoop /\ UNCHANGED daemonVars
    BY <1>27 DEF LizardLoop
  <1>28. CASE LizardCheck /\ UNCHANGED daemonVars
    BY <1>28 DEF LizardCheck
  <1>29. CASE LizardWrite /\ UNCHANGED daemonVars
    BY <1>29 DEF LizardWrite
  <1>30. CASE Signal
    BY <1>30 DEF Signal
  <1>31. CASE SwitchDelayElapses /\ UNCHANGED daemonVars
    BY <1>31 DEF SwitchDelayElapses
  <1>32. CASE DeviceUnplugged
    BY <1>32 DEF DeviceUnplugged, Unplug
  <1>33. CASE FirmwareResumes
    BY <1>33 DEF FirmwareResumes, KeyboardReturns
  <1>34. CASE Ended
    BY <1>34 DEF Ended
  <1>35. CASE UNCHANGED vars
    BY <1>35
  <1> QED
    BY <1>1, <1>2, <1>3, <1>4, <1>5, <1>6, <1>7, <1>8, <1>9, <1>10, <1>11, <1>12, <1>13, <1>14, <1>15, <1>16, <1>17, <1>18, <1>19, <1>20, <1>21, <1>22, <1>23, <1>24, <1>25, <1>26, <1>27, <1>28, <1>29, <1>30, <1>31, <1>32, <1>33, <1>34, <1>35
    DEF Next, MainThread, PollThread, LizardThread

\* Every step keeps track of the profile being loaded, and of there being no
\* devices before the first one is (daemon.cpp:50-87).
LEMMA LoadStep == Inv /\ [Next]_vars => LoadInv'
  <1> SUFFICES ASSUME Inv, [Next]_vars PROVE LoadInv'
    OBVIOUS
  <1> USE DEF DevNames, Threads, MainLabels, PollLabels, LizardLabels
  <1>a. /\ pc \in [Threads -> MainLabels \cup PollLabels \cup LizardLabels]
        /\ pc["main"] \in MainLabels
        /\ pc["poll"] \in PollLabels
        /\ pc["lizard"] \in LizardLabels
    BY DEF Inv, TypeOK, DrvTypeOK
  <1>b. mpDev \in [DevNames -> Profiles \cup {NoProfile}]
    BY DEF Inv, TypeOK, DrvTypeOK
  <1>c. mThread \in {"none", "joinable", "joined"} /\ mMsgQueue \in Seq(Profiles)
    BY DEF Inv, TypeOK, DrvBaseTypeOK
  <1> USE <1>a, <1>b, NoProfileAssumption DEF Inv, LoadInv, NoDevices, LifecycleInv
  <1>1. CASE Startup
    BY <1>1 DEF Startup
  <1>2. CASE CreateDriver
    BY <1>2 DEF CreateDriver, Construct, Open, OpenBlocks
  <1>3. CASE LoadProfile
    BY <1>3 DEF LoadProfile
  <1>4. CASE SetProfileLock /\ UNCHANGED daemonVars
    BY <1>4 DEF SetProfileLock
  <1>5. CASE SetProfileDestroy /\ UNCHANGED daemonVars
    BY <1>5 DEF SetProfileDestroy, DestroyUinputDevs
  <1>6. ASSUME NEW d \in DevNames, SetProfileCreate(d) /\ UNCHANGED daemonVars
       PROVE LoadInv'
    BY <1>6 DEF SetProfileCreate, After
  <1>7. CASE SetProfileBind /\ UNCHANGED daemonVars
    BY <1>7 DEF SetProfileBind
  <1>8. CASE StartDriver
    BY <1>8 DEF StartDriver, Start
  <1>9. CASE Loop
    BY <1>9 DEF Loop
  <1>10. CASE HandleMessage
    BY <1>10, <1>c, HeadTailProperties DEF HandleMessage, HasMessage, PopMessage
  <1>11. CASE StopDriver
    BY <1>11 DEF StopDriver, StopFlag
  <1>12. CASE JoinDriver
    BY <1>12 DEF JoinDriver, Join
  <1>13. CASE LizardModeLock /\ UNCHANGED daemonVars
    BY <1>13 DEF LizardModeLock
  <1>14. CASE LizardModeOn /\ UNCHANGED daemonVars
    BY <1>14 DEF LizardModeOn
  <1>15. CASE DeleteDriver
    BY <1>15 DEF DeleteDriver, Delete, DestroyUinputDevs, Close
  <1>16. CASE Return
    BY <1>16 DEF Return, StopFlag
  <1>17. CASE RunInit /\ UNCHANGED daemonVars
    BY <1>17 DEF RunInit, SetRunning
  <1>18. CASE RunSpawn /\ UNCHANGED daemonVars
    BY <1>18 DEF RunSpawn
  <1>19. CASE RunLoop /\ UNCHANGED daemonVars
    BY <1>19 DEF RunLoop
  <1>20. CASE PollLock /\ UNCHANGED daemonVars
    BY <1>20 DEF PollLock
  <1>21. CASE PollHidLock /\ UNCHANGED daemonVars
    BY <1>21 DEF PollHidLock, LockForRead
  <1>22. CASE PollRead /\ UNCHANGED daemonVars
    BY <1>22 DEF PollRead, ReadReport, ReadTimesOut, ReadBlocks, ReadFails
  <1>23. CASE Translate /\ UNCHANGED daemonVars
    BY <1>23 DEF Translate, RequestProfile, PushMessage
  <1>24. CASE Flush /\ UNCHANGED daemonVars
    BY <1>24 DEF Flush
  <1>25. CASE PollFF /\ UNCHANGED daemonVars
    BY <1>25 DEF PollFF
  <1>26. CASE RunJoin /\ UNCHANGED daemonVars
    BY <1>26 DEF RunJoin
  <1>27. CASE LizardLoop /\ UNCHANGED daemonVars
    BY <1>27 DEF LizardLoop
  <1>28. CASE LizardCheck /\ UNCHANGED daemonVars
    BY <1>28 DEF LizardCheck
  <1>29. CASE LizardWrite /\ UNCHANGED daemonVars
    BY <1>29 DEF LizardWrite
  <1>30. CASE Signal
    BY <1>30 DEF Signal
  <1>31. CASE SwitchDelayElapses /\ UNCHANGED daemonVars
    BY <1>31 DEF SwitchDelayElapses
  <1>32. CASE DeviceUnplugged
    BY <1>32 DEF DeviceUnplugged, Unplug
  <1>33. CASE FirmwareResumes
    BY <1>33 DEF FirmwareResumes, KeyboardReturns
  <1>34. CASE Ended
    BY <1>34 DEF Ended
  <1>35. CASE UNCHANGED vars
    BY <1>35
  <1> QED
    BY <1>1, <1>2, <1>3, <1>4, <1>5, <1>6, <1>7, <1>8, <1>9, <1>10, <1>11, <1>12, <1>13, <1>14, <1>15, <1>16, <1>17, <1>18, <1>19, <1>20, <1>21, <1>22, <1>23, <1>24, <1>25, <1>26, <1>27, <1>28, <1>29, <1>30, <1>31, <1>32, <1>33, <1>34, <1>35
    DEF Next, MainThread, PollThread, LizardThread

\* Every step keeps the whole inductive invariant.
LEMMA InvStep == Inv /\ [Next]_vars => Inv'
  BY TypeOKStep, PollMutexStep, LifecycleStep, DeviceStep, LoadStep, FrameStep, TimeoutStep DEF Inv

\* Inv holds in every reachable state of the running system: the mutex, the
\* threads' lives, the devices, the load, the frame and the timeouts fit together.
THEOREM InductiveInvariant == Spec => []Inv
  BY InitInv, InvStep, PTL DEF Spec

\* In a state of the invariant a frame is written to the devices it was
\* translated for.
LEMMA InvImpliesFrameMatchesDevices == Inv => FrameMatchesDevices
  <1> SUFFICES ASSUME Inv, frame # NoProfile PROVE Complete(mMap) /\ frame = mMap
    BY DEF FrameMatchesDevices, Complete
  <1>1. At("poll", "flush") /\ frame = mMap /\ mPollMutex = "poll"
    BY DEF Inv, FrameInv, PollMutexInv, PollInside
  <1>2. mThread = "joinable"
    BY <1>1 DEF Inv, LifecycleInv, TypeOK, DrvBaseTypeOK
  <1>3. \/ pc["main"] \in {"load", "lock", "loop", "message", "stop", "join"}
        \/ At("main", "end") /\ profile = NoProfile
    BY <1>1, <1>2 DEF Inv, LifecycleInv, PollMutexInv, MainInside, TypeOK, DrvTypeOK, MainLabels
  <1> QED
    BY <1>1, <1>2, <1>3 DEF Inv, DeviceInv

\* In a state of the invariant the force-feedback half of Poll finds its device.
LEMMA InvImpliesPollHasGamepad == Inv => PollHasGamepad
  <1> SUFFICES ASSUME Inv, At("poll", "ff") PROVE mpDev["gamepad"] # NoProfile
    BY DEF PollHasGamepad
  <1>1. mPollMutex = "poll"
    BY DEF Inv, PollMutexInv, PollInside
  <1>2. mThread = "joinable"
    BY DEF Inv, LifecycleInv, TypeOK, DrvBaseTypeOK
  <1>3. \/ pc["main"] \in {"load", "lock", "loop", "message", "stop", "join"}
        \/ At("main", "end") /\ profile = NoProfile
    BY <1>1, <1>2 DEF Inv, LifecycleInv, PollMutexInv, MainInside, TypeOK, DrvTypeOK, MainLabels
  <1>4. Complete(mMap)
    BY <1>2, <1>3 DEF Inv, DeviceInv
  <1> QED
    BY <1>4, NoProfileAssumption DEF Complete, DevicesOf, DevNames

\* In a state of the invariant no thread outlives the driver object.
LEMMA InvImpliesDriverOutlivesThreads == Inv => DriverOutlivesThreads
  <1> SUFFICES ASSUME Inv, pc["main"] \in {"lizard_lock", "lizard_on", "delete"} \/ ~mpGpDrv
               PROVE  \A t \in {"poll", "lizard"} : pc[t] \in {"unborn", "end"}
    BY DEF DriverOutlivesThreads
  <1>1. mThread \in {"none", "joined"}
    BY DEF Inv, LifecycleInv, TypeOK, DrvBaseTypeOK
  <1> QED
    BY <1>1 DEF Inv, LifecycleInv

\* Every variable keeps its type; with it, the message queue keeps its limit
\* (driver_base.hpp:63).
THEOREM TypeCorrect == Spec => []TypeOK
  BY InductiveInvariant, PTL DEF Inv

\* No frame mixes two profiles: Translate and Flush run under the bindings and
\* devices of one profile whatever SetProfile does (driver.cpp:123-172, 767-861).
THEOREM FramesMatchDevices == Spec => []FrameMatchesDevices
  BY InductiveInvariant, InvImpliesFrameMatchesDevices, PTL

\* The unchecked mpGamepad of Poll is never null (driver.cpp:912).
THEOREM GamepadThere == Spec => []PollHasGamepad
  BY InductiveInvariant, InvImpliesPollHasGamepad, PTL

\* The destructor of the driver never runs while one of its threads can still
\* use the object (driver_base.hpp:78, driver.cpp:1051).
THEOREM DriverOutlives == Spec => []DriverOutlivesThreads
  BY InductiveInvariant, InvImpliesDriverOutlivesThreads, PTL

\* Every step of the system is a step of the profile service or leaves it
\* alone.
LEMMA RefinementStep == Inv /\ [Next]_vars => [PS!PSNext]_(PS!psVars)
  <1> SUFFICES ASSUME Inv, [Next]_vars PROVE [PS!PSNext]_(PS!psVars)
    OBVIOUS
  <1> USE NoProfileAssumption, CapacityAssumption DEF PS!psVars, Threads
  <1>a. /\ pc \in [Threads -> MainLabels \cup PollLabels \cup LizardLabels]
        /\ mpDev \in [DevNames -> Profiles \cup {NoProfile}]
        /\ frame \in Profiles \cup {NoProfile}
        /\ profile \in Profiles \cup {NoProfile}
    BY DEF Inv, TypeOK, DrvTypeOK
  <1> USE <1>a
\* A step that leaves main's label, the devices and the bindings alone leaves
\* the profile in service alone.
  <1>b. ASSUME pc'["main"] = pc["main"], UNCHANGED <<mpDev, mMap, profile, process>>
        PROVE  ServingProfile' = ServingProfile
    BY <1>b DEF ServingProfile, InService
\* A thread inside Poll works under the profile in service.
  <1>c. ASSUME At("poll", "translate") PROVE ServingProfile = mMap /\ mMap # NoProfile
    <2>1. mPollMutex = "poll"
      BY <1>c DEF Inv, PollMutexInv, PollInside
    <2>2. mThread = "joinable"
      BY <1>c DEF Inv, LifecycleInv, TypeOK, DrvBaseTypeOK
    <2>3. \/ pc["main"] \in {"load", "lock", "loop", "message", "stop", "join"}
          \/ At("main", "end") /\ profile = NoProfile
      BY <2>1, <2>2 DEF Inv, LifecycleInv, PollMutexInv, MainInside, TypeOK, DrvTypeOK, MainLabels
    <2>4. Complete(mMap)
      BY <2>2, <2>3 DEF Inv, DeviceInv
    <2>5. process = "aborted" => profile = NoProfile
      BY <2>3 DEF Inv, EndInv
    <2> QED
      BY <2>3, <2>4, <2>5 DEF Complete, DevicesOf, DevNames, ServingProfile, InService
\* Without devices no profile is in service.
  <1>d. NoDevices => ServingProfile = NoProfile
    BY DEF NoDevices, DevNames, ServingProfile, InService
  <1>e. NoDevices' => ServingProfile' = NoProfile
    BY DEF NoDevices, DevNames, ServingProfile, InService
  <1>1. CASE Startup
    <2>1. NoDevices /\ UNCHANGED <<mpDev, frame, profile, mMsgQueue>>
      BY <1>1 DEF Startup, Inv, LoadInv, LifecycleInv
    <2> QED
      BY <2>1, <1>d, <1>e DEF NoDevices
  <1>2. CASE CreateDriver
    <2>1. NoDevices /\ UNCHANGED <<mpDev, frame, profile, mMsgQueue>>
      BY <1>2 DEF CreateDriver, Construct, Inv, LoadInv, LifecycleInv
    <2> QED
      BY <2>1, <1>d, <1>e DEF NoDevices
  <1>3. CASE LoadProfile
    <2>1. UNCHANGED <<mpDev, mMap, frame, mMsgQueue>>
      BY <1>3 DEF LoadProfile
    <2>2. /\ At("main", "load") /\ process = "running"
          /\ pc'["main"] \in {"lock", "return", "loop", "end"}
          /\ process' = "aborted" => profile' = NoProfile
      BY <1>3 DEF LoadProfile
    <2>3. ServingProfile' = ServingProfile
      BY <2>1, <2>2 DEF ServingProfile, InService
    <2>4. CASE profile = NoProfile
      <3>1. profile' \in Profiles \/ profile' = profile
        BY <1>3, <2>4 DEF LoadProfile
      <3>2. ServingProfile = NoProfile
        BY <1>d, <2>2, <2>4 DEF Inv, LoadInv
      <3> QED
        BY <2>1, <2>3, <2>4, <3>1, <3>2 DEF PS!PSNext, PS!Configure
    <2>5. CASE profile # NoProfile
      <3>1. profile' = profile \/ profile' = NoProfile
        BY <1>3, <2>5 DEF LoadProfile
      <3> QED
        BY <2>1, <2>3, <2>5, <3>1 DEF PS!PSNext, PS!Reject
    <2> QED
      BY <2>4, <2>5
  <1>4. CASE SetProfileLock /\ UNCHANGED daemonVars
    BY <1>4 DEF ServingProfile, InService, DevNames, SetProfileLock
  <1>5. CASE SetProfileDestroy /\ UNCHANGED daemonVars
    <2>1. /\ NoDevices'
          /\ UNCHANGED <<frame, profile, mMsgQueue>>
      BY <1>5 DEF SetProfileDestroy, DestroyUinputDevs, NoDevices
    <2>2. frame = NoProfile
      BY <1>5 DEF SetProfileDestroy, Inv, FrameInv, PollMutexInv, PollInside, MainInside
    <2> QED
      BY <2>1, <2>2, <1>e DEF PS!PSNext, PS!Withdraw
  <1>6. ASSUME NEW d \in DevNames, SetProfileCreate(d) /\ UNCHANGED daemonVars
       PROVE [PS!PSNext]_(PS!psVars)
    <2>1. profile # NoProfile /\ UNCHANGED <<frame, profile, mMsgQueue>>
      BY <1>6 DEF SetProfileCreate, Inv, DeviceInv, DevNames
    <2>2. ServingProfile = NoProfile
      BY <1>6 DEF SetProfileCreate, ServingProfile, InService, DevNames
    <2>3. ServingProfile' = NoProfile
      BY <1>6, <2>1 DEF SetProfileCreate, After, ServingProfile, InService, DevNames
    <2> QED
      BY <2>1, <2>2, <2>3
  <1>7. CASE SetProfileBind /\ UNCHANGED daemonVars
    <2>1. ServingProfile = NoProfile /\ frame = NoProfile /\ profile \in Profiles
      BY <1>7 DEF SetProfileBind, Inv, FrameInv, PollMutexInv, PollInside, MainInside, DeviceInv,
                  ServingProfile, InService
    <2>2. /\ mMap' = profile /\ profile' = NoProfile
          /\ UNCHANGED <<mpDev, process, frame, mMsgQueue>>
          /\ pc'["main"] \in {"start", "loop"}
      BY <1>7 DEF SetProfileBind
    <2>3. mpDev["gamepad"] = profile /\ process = "running"
      BY <1>7 DEF SetProfileBind, Inv, DeviceInv, Complete, DevicesOf, DevNames
    <2>4. ServingProfile' = profile
      BY <2>1, <2>2, <2>3 DEF ServingProfile, InService
    <2> QED
      BY <2>1, <2>2, <2>4 DEF PS!PSNext, PS!Activate
  <1>8. CASE StartDriver
    BY <1>8 DEF ServingProfile, InService, DevNames, StartDriver, Start
  <1>9. CASE Loop
    BY <1>9 DEF ServingProfile, InService, DevNames, Loop
  <1>10. CASE HandleMessage
    <2>1. /\ UNCHANGED <<mpDev, mMap, process, frame>> /\ process = "running"
          /\ At("main", "message") /\ pc'["main"] \in {"load", "loop"}
      BY <1>10 DEF HandleMessage
    <2>2. ServingProfile' = ServingProfile
      BY <2>1 DEF ServingProfile, InService
    <2>3. profile = NoProfile
      BY <2>1 DEF Inv, LoadInv, MainLabels
    <2> QED
      BY <1>10, <2>1, <2>2, <2>3 DEF HandleMessage, HasMessage, PopMessage, PS!PSNext, PS!Take
  <1>11. CASE StopDriver
    BY <1>11 DEF ServingProfile, InService, DevNames, StopDriver, StopFlag
  <1>12. CASE JoinDriver
    BY <1>12 DEF ServingProfile, InService, DevNames, JoinDriver, Join
  <1>13. CASE LizardModeLock /\ UNCHANGED daemonVars
    BY <1>13 DEF ServingProfile, InService, DevNames, LizardModeLock
  <1>14. CASE LizardModeOn /\ UNCHANGED daemonVars
    BY <1>14 DEF ServingProfile, InService, DevNames, LizardModeOn
  <1>15. CASE DeleteDriver
    <2>1. /\ NoDevices'
          /\ UNCHANGED <<frame, profile, mMsgQueue>>
      BY <1>15 DEF DeleteDriver, Delete, DestroyUinputDevs, NoDevices
    <2>2. frame = NoProfile
      BY <1>15 DEF DeleteDriver, Delete, Inv, FrameInv, LifecycleInv
    <2> QED
      BY <2>1, <2>2, <1>e DEF PS!PSNext, PS!Withdraw
  <1>16. CASE Return
    <2>1. NoDevices /\ UNCHANGED <<mpDev, frame, profile, mMsgQueue>>
      BY <1>16 DEF Return, StopFlag, Inv, LoadInv
    <2> QED
      BY <2>1, <1>d, <1>e DEF NoDevices
  <1>17. CASE RunInit /\ UNCHANGED daemonVars
    BY <1>17 DEF ServingProfile, InService, DevNames, RunInit, SetRunning
  <1>18. CASE RunSpawn /\ UNCHANGED daemonVars
    BY <1>18 DEF ServingProfile, InService, DevNames, RunSpawn
  <1>19. CASE RunLoop /\ UNCHANGED daemonVars
    BY <1>19 DEF ServingProfile, InService, DevNames, RunLoop
  <1>20. CASE PollLock /\ UNCHANGED daemonVars
    BY <1>20 DEF ServingProfile, InService, DevNames, PollLock
  <1>21. CASE PollHidLock /\ UNCHANGED daemonVars
    BY <1>21 DEF ServingProfile, InService, DevNames, PollHidLock, LockForRead
  <1>22. CASE PollRead /\ UNCHANGED daemonVars
    BY <1>22 DEF ServingProfile, InService, DevNames, PollRead, ReadReport, ReadTimesOut, ReadBlocks, ReadFails
  <1>23. CASE Translate /\ UNCHANGED daemonVars
    <2>1. ServingProfile' = ServingProfile
      BY <1>b, <1>23 DEF Translate
    <2>2. CASE UNCHANGED <<frame, mMsgQueue>>
      BY <1>23, <2>1, <2>2 DEF Translate
    <2>3. CASE frame' = mMap /\ RequestProfile
      <3>1. frame = NoProfile
        BY <1>23 DEF Translate, Inv, FrameInv
      <3>2. mMsgQueue' = mMsgQueue
              \/ /\ Len(mMsgQueue) < MAX_DRIVER_MESSAGES
                 /\ \E p \in Profiles : mMsgQueue' = Append(mMsgQueue, p)
        BY <2>3, CapacityAssumption DEF RequestProfile, PushMessage, Inv, TypeOK, DrvBaseTypeOK
      <3> QED
        BY <1>23, <1>c, <2>1, <2>3, <3>1, <3>2 DEF Translate, PS!PSNext, PS!BeginFrame
    <2> QED
      BY <1>23, <2>2, <2>3 DEF Translate
  <1>24. CASE Flush /\ UNCHANGED daemonVars
    <2>1. ServingProfile' = ServingProfile
      BY <1>b, <1>24 DEF Flush
    <2>2. frame' = NoProfile /\ UNCHANGED <<profile, mMsgQueue>>
      BY <1>24 DEF Flush
    <2> QED
      BY <2>1, <2>2 DEF PS!PSNext, PS!EndFrame
  <1>25. CASE PollFF /\ UNCHANGED daemonVars
    BY <1>25 DEF ServingProfile, InService, DevNames, PollFF
  <1>26. CASE RunJoin /\ UNCHANGED daemonVars
    BY <1>26 DEF ServingProfile, InService, DevNames, RunJoin
  <1>27. CASE LizardLoop /\ UNCHANGED daemonVars
    BY <1>27 DEF ServingProfile, InService, DevNames, LizardLoop
  <1>28. CASE LizardCheck /\ UNCHANGED daemonVars
    BY <1>28 DEF ServingProfile, InService, DevNames, LizardCheck
  <1>29. CASE LizardWrite /\ UNCHANGED daemonVars
    BY <1>29 DEF ServingProfile, InService, DevNames, LizardWrite
  <1>30. CASE Signal
    BY <1>30 DEF ServingProfile, InService, DevNames, Signal
  <1>31. CASE SwitchDelayElapses /\ UNCHANGED daemonVars
    BY <1>31 DEF ServingProfile, InService, DevNames, SwitchDelayElapses
  <1>32. CASE DeviceUnplugged
    BY <1>32 DEF ServingProfile, InService, DevNames, DeviceUnplugged, Unplug
  <1>33. CASE FirmwareResumes
    BY <1>33 DEF ServingProfile, InService, DevNames, FirmwareResumes, KeyboardReturns
  <1>34. CASE Ended
    BY <1>34 DEF ServingProfile, InService, DevNames, Ended
  <1>35. CASE UNCHANGED vars
    BY <1>35 DEF ServingProfile, InService
  <1> QED
    BY <1>1, <1>2, <1>3, <1>4, <1>5, <1>6, <1>7, <1>8, <1>9, <1>10, <1>11, <1>12, <1>13, <1>14, <1>15, <1>16, <1>17, <1>18, <1>19, <1>20, <1>21, <1>22, <1>23, <1>24, <1>25, <1>26, <1>27, <1>28, <1>29, <1>30, <1>31, <1>32, <1>33, <1>34, <1>35
    DEF Next, MainThread, PollThread, LizardThread

\* The daemon and its driver implement the profile service: requests are served
\* in order, and profiles change only between frames (daemon.cpp:172-202).
THEOREM Refinement == Spec => SwitchesProfiles
  <1>1. Init => PS!PSInit
    BY DEF Init, HidInit, DrvBaseInit, DrvInit, PS!PSInit, ServingProfile, InService, DevNames
  <1> QED
    BY <1>1, RefinementStep, InductiveInvariant, PTL DEF Spec, SwitchesProfiles, PS!PSSpec

-----------------------------------------------------------------------------
(* The emulation at the exit.                                              *)

\* From the end of the constructor to the destructor's last statement the
\* descriptor is open: where Read would close it, Read blocks instead.
DescriptorOpen ==
    pc["main"] \in MainLabels \ {"startup", "construct", "hung", "return", "end"} => mFd

\* Once the destructor has sent its reports, the emulation stays on.
EmulationRestored ==
    pc["main"] \in {"delete", "return", "end"} /\ mThread = "joined" /\ plugged =>
        emulation = {"keyboard", "mouse"}

\* When no write is lost on the way to the device, every step keeps the
\* descriptor open until it is closed for good, and the emulation on after it
\* was switched on: the lizard thread, which could switch it off again, has
\* ended by then (driver.cpp:990-1027, 1099-1115).
LEMMA EmulationStep ==
    ASSUME "write" \notin Faults, Inv, DescriptorOpen, EmulationRestored, [Next]_vars
    PROVE  (DescriptorOpen /\ EmulationRestored)'
  <1> USE DEF DevNames, Threads, MainLabels, PollLabels, LizardLabels
  <1>a. /\ pc \in [Threads -> MainLabels \cup PollLabels \cup LizardLabels]
        /\ pc["main"] \in MainLabels
        /\ emulation \in SUBSET {"keyboard", "mouse"}
    BY DEF Inv, TypeOK, DrvTypeOK, HidTypeOK
  <1>b. LifecycleInv
    BY DEF Inv
  <1> USE <1>a, <1>b DEF DescriptorOpen, EmulationRestored, LifecycleInv
  <1>1. CASE Startup
    BY <1>1 DEF Startup
  <1>2. CASE CreateDriver
    BY <1>2 DEF CreateDriver, Construct, Open, OpenBlocks
  <1>3. CASE LoadProfile
    BY <1>3 DEF LoadProfile
  <1>4. CASE SetProfileLock /\ UNCHANGED daemonVars
    BY <1>4 DEF SetProfileLock
  <1>5. CASE SetProfileDestroy /\ UNCHANGED daemonVars
    BY <1>5 DEF SetProfileDestroy
  <1>6. ASSUME NEW d \in DevNames, SetProfileCreate(d) /\ UNCHANGED daemonVars
       PROVE (DescriptorOpen /\ EmulationRestored)'
    BY <1>6 DEF SetProfileCreate, After
  <1>7. CASE SetProfileBind /\ UNCHANGED daemonVars
    BY <1>7 DEF SetProfileBind
  <1>8. CASE StartDriver
    BY <1>8 DEF StartDriver, Start
  <1>9. CASE Loop
    BY <1>9 DEF Loop
  <1>10. CASE HandleMessage
    BY <1>10 DEF HandleMessage, PopMessage
  <1>11. CASE StopDriver
    BY <1>11 DEF StopDriver, StopFlag
  <1>12. CASE JoinDriver
    BY <1>12 DEF JoinDriver, Join
  <1>13. CASE LizardModeLock /\ UNCHANGED daemonVars
    BY <1>13 DEF LizardModeLock, IsOpen
  <1>14. CASE LizardModeOn /\ UNCHANGED daemonVars
    BY <1>14 DEF LizardModeOn, WriteEnable, Delivered
  <1>15. CASE DeleteDriver
    BY <1>15 DEF DeleteDriver, Delete, Close
  <1>16. CASE Return
    BY <1>16 DEF Return, StopFlag
  <1>17. CASE RunInit /\ UNCHANGED daemonVars
    BY <1>17 DEF RunInit, SetRunning
  <1>18. CASE RunSpawn /\ UNCHANGED daemonVars
    BY <1>18 DEF RunSpawn
  <1>19. CASE RunLoop /\ UNCHANGED daemonVars
    BY <1>19 DEF RunLoop
  <1>20. CASE PollLock /\ UNCHANGED daemonVars
    BY <1>20 DEF PollLock
  <1>21. CASE PollHidLock /\ UNCHANGED daemonVars
    BY <1>21 DEF PollHidLock, LockForRead
  <1>22. CASE PollRead /\ UNCHANGED daemonVars
    BY <1>22 DEF PollRead, ReadReport, ReadTimesOut, ReadBlocks, ReadFails
  <1>23. CASE Translate /\ UNCHANGED daemonVars
    BY <1>23 DEF Translate, RequestProfile, PushMessage
  <1>24. CASE Flush /\ UNCHANGED daemonVars
    BY <1>24 DEF Flush
  <1>25. CASE PollFF /\ UNCHANGED daemonVars
    BY <1>25 DEF PollFF
  <1>26. CASE RunJoin /\ UNCHANGED daemonVars
    BY <1>26 DEF RunJoin
  <1>27. CASE LizardLoop /\ UNCHANGED daemonVars
    BY <1>27 DEF LizardLoop
  <1>28. CASE LizardCheck /\ UNCHANGED daemonVars
    BY <1>28 DEF LizardCheck
  <1>29. CASE LizardWrite /\ UNCHANGED daemonVars
    BY <1>29 DEF LizardWrite
  <1>30. CASE Signal
    BY <1>30 DEF Signal
  <1>31. CASE SwitchDelayElapses /\ UNCHANGED daemonVars
    BY <1>31 DEF SwitchDelayElapses
  <1>32. CASE DeviceUnplugged
    BY <1>32 DEF DeviceUnplugged, Unplug
  <1>33. CASE FirmwareResumes
    BY <1>33 DEF FirmwareResumes, KeyboardReturns
  <1>34. CASE Ended
    BY <1>34 DEF Ended
  <1>35. CASE UNCHANGED vars
    BY <1>35
  <1> QED
    BY <1>1, <1>2, <1>3, <1>4, <1>5, <1>6, <1>7, <1>8, <1>9, <1>10, <1>11, <1>12, <1>13, <1>14, <1>15, <1>16, <1>17, <1>18, <1>19, <1>20, <1>21, <1>22, <1>23, <1>24, <1>25, <1>26, <1>27, <1>28, <1>29, <1>30, <1>31, <1>32, <1>33, <1>34, <1>35
    DEF Next, MainThread, PollThread, LizardThread

\* After an orderly exit the firmware emulates keyboard and mouse again,
\* whatever fails except the writes of the destructor (driver.cpp:1099-1115).
THEOREM ExitRestores ==
    ASSUME "write" \notin Faults
    PROVE  Spec => []ExitRestoresLizardMode
<1>1. Init => DescriptorOpen /\ EmulationRestored
  BY DEF Init, HidInit, DrvBaseInit, DrvInit, DescriptorOpen, EmulationRestored, Threads
<1>2. Inv /\ DescriptorOpen /\ EmulationRestored /\ [Next]_vars => (DescriptorOpen /\ EmulationRestored)'
  BY EmulationStep
<1>3. Inv /\ EmulationRestored => ExitRestoresLizardMode
  BY DEF Inv, EndInv, EmulationRestored, ExitRestoresLizardMode
<1> QED
  BY <1>1, <1>2, <1>3, InductiveInvariant, PTL DEF Spec
=============================================================================
