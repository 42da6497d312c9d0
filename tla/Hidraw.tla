------------------------------- MODULE Hidraw -------------------------------
(***************************************************************************)
(* The hidraw device of the gamepad (src/opensdd/hidraw.cpp) together with *)
(* the part of the world behind it: the cable and the keyboard and mouse   *)
(* emulation ("Lizard Mode") that the controller's firmware performs.      *)
(*                                                                         *)
(* The module has state and operations but no next-state relation: the     *)
(* threads that call the operations are in GamepadDriver, which conjoins   *)
(* each operation with the caller's program counter.                       *)
(*                                                                         *)
(* Granularity.  std::mutex mMutex guards the descriptor.  A Write is one  *)
(* step, because it locks, writes and unlocks without waiting for anything *)
(* in between.  A Read is several steps: it keeps the mutex for as long as *)
(* poll() waits, up to a second.                                           *)
(***************************************************************************)
EXTENDS Naturals

CONSTANTS
    MaxTimeouts,    \* mMaxTimeouts, 5 in the code
    Faults          \* what may go wrong in this instance

FaultKinds ==
    { "unplug",     \* the device disappears while it is open
      "timeout",    \* no report arrives within mReadTimeout
      "read",       \* poll() or read() fails, or read() is short
      "write",      \* a single write() fails
      "nodevice",   \* no hidraw node matches a known device
      "open",       \* open() of the matching node fails
      "uinput",     \* a uinput device cannot be opened or created
      "profile",    \* a profile is not found, or does not parse
      "config",     \* the file manager or config.ini fails at start-up
      "throw" }     \* std::filesystem throws at start-up or in LoadProfile

ASSUME MaxTimeoutsAssumption == MaxTimeouts \in Nat
ASSUME FaultsAssumption == Faults \subseteq FaultKinds

Threads == {"main", "poll", "lizard"}
Nobody  == "nobody"                     \* the owner of a free mutex

VARIABLES
    mFd,            \* the descriptor is open
    mMutex,         \* the thread that holds Hidraw::mMutex
    mTimeoutCount,  \* consecutive reads that timed out
    plugged,        \* the device answers (external)
    emulation       \* what the firmware emulates now (external)

hidVars == <<mFd, mMutex, mTimeoutCount, plugged, emulation>>

HidTypeOK ==
    /\ mFd \in BOOLEAN
    /\ mMutex \in Threads \cup {Nobody}
    /\ mTimeoutCount \in 0 .. MaxTimeouts + 1
    /\ plugged \in BOOLEAN
    /\ emulation \in SUBSET {"keyboard", "mouse"}

\* The firmware starts in Lizard Mode; the constructor leaves mFd at -1.
HidInit ==
    /\ mFd = FALSE
    /\ mMutex = Nobody
    /\ mTimeoutCount = 0
    /\ plugged = TRUE
    /\ emulation = {"keyboard", "mouse"}

-----------------------------------------------------------------------------
IsOpen == mFd

Open ==
    /\ ~IsOpen
    /\ mMutex = Nobody
    /\ mFd' = TRUE
    /\ UNCHANGED <<mMutex, mTimeoutCount, plugged>>

\* open() fails: Open calls Close, which locks the mutex Open is holding.
\* std::mutex is not recursive, so the caller t keeps it and never returns.
OpenBlocks(t) ==
    /\ "open" \in Faults
    /\ ~IsOpen
    /\ mMutex = Nobody
    /\ mMutex' = t
    /\ UNCHANGED <<mFd, mTimeoutCount, plugged, emulation>>

Close ==
    /\ mMutex = Nobody
    /\ mFd' = FALSE
    /\ UNCHANGED <<mMutex, mTimeoutCount, plugged, emulation>>

LockForRead(t) ==
    /\ mMutex = Nobody
    /\ mMutex' = t
    /\ UNCHANGED <<mFd, mTimeoutCount, plugged, emulation>>

ReadReport ==
    /\ plugged
    /\ mTimeoutCount' = 0
    /\ mMutex' = Nobody
    /\ UNCHANGED <<mFd, plugged, emulation>>

\* A timeout below the limit is not an error: Read returns OK and no bytes.
ReadTimesOut ==
    /\ "timeout" \in Faults /\ plugged
    /\ mTimeoutCount < MaxTimeouts
    /\ mTimeoutCount' = mTimeoutCount + 1
    /\ mMutex' = Nobody
    /\ UNCHANGED <<mFd, plugged, emulation>>

\* One timeout too many: Read calls Close, which locks the mutex that Read
\* is holding.  The mutex stays with the caller, which never returns.
ReadBlocks ==
    /\ "timeout" \in Faults /\ plugged
    /\ mTimeoutCount >= MaxTimeouts
    /\ mTimeoutCount' = mTimeoutCount + 1
    /\ UNCHANGED <<mFd, mMutex, plugged, emulation>>

\* poll() itself fails and the count stays, or the device is reported ready
\* (a vanished device is) and read() fails or is short.
ReadFails ==
    /\ \/ "read" \in Faults /\ UNCHANGED mTimeoutCount
       \/ ("read" \in Faults \/ ~plugged) /\ mTimeoutCount' = 0
    /\ mMutex' = Nobody
    /\ UNCHANGED <<mFd, plugged, emulation>>

\* Which of a series of reports, named by the emulation each one switches,
\* get through to the firmware.
Delivered(reports) ==
    IF ~plugged THEN {{}}
    ELSE IF "write" \in Faults THEN SUBSET reports
    ELSE {reports}

\* CLEAR_MAPPINGS switches the keyboard emulation off, RPAD_MODE the mouse.
WriteDisable(reports) ==
    \E w \in Delivered(reports) : emulation' = emulation \ w

\* DEFAULT_MAPPINGS switches the keyboard emulation on, DEFAULT_MOUSE the mouse.
WriteEnable(reports) ==
    \E w \in Delivered(reports) : emulation' = emulation \cup w

-----------------------------------------------------------------------------
(* External events.                                                        *)

Unplug ==
    /\ "unplug" \in Faults
    /\ plugged
    /\ plugged' = FALSE
    /\ UNCHANGED <<mFd, mMutex, mTimeoutCount, emulation>>

\* "only does so for a few seconds": the firmware takes the keyboard
\* emulation up again, some time after the last CLEAR_MAPPINGS.
KeyboardReturns ==
    /\ plugged
    /\ "keyboard" \notin emulation
    /\ emulation' = emulation \cup {"keyboard"}
    /\ UNCHANGED <<mFd, mMutex, mTimeoutCount, plugged>>
=============================================================================
