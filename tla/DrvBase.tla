------------------------------ MODULE DrvBase -------------------------------
(***************************************************************************)
(* The threaded driver base class (src/opensdd/drivers/driver_base.hpp): a *)
(* thread, its running flag and a bounded queue of messages to the daemon. *)
(* Like Hidraw it has operations and no next-state relation.  Each queue   *)
(* operation holds mMsgMutex from its first to its last statement and      *)
(* waits for nothing inside, so it is one step and the mutex needs no      *)
(* variable.                                                               *)
(***************************************************************************)
EXTENDS Naturals, Sequences

CONSTANTS
    Profiles,               \* the profile names messages may carry
    MAX_DRIVER_MESSAGES

ASSUME CapacityAssumption == MAX_DRIVER_MESSAGES \in Nat \ {0}

VARIABLES
    mMsgQueue,      \* the profile names of the queued PROFILE messages
    mRunning,
    mThread         \* "none", "joinable" or "joined"

drvBaseVars == <<mMsgQueue, mRunning, mThread>>

DrvBaseTypeOK ==
    /\ mMsgQueue \in Seq(Profiles)
    /\ Len(mMsgQueue) <= MAX_DRIVER_MESSAGES
    /\ mRunning \in BOOLEAN
    /\ mThread \in {"none", "joinable", "joined"}

DrvBaseInit ==
    /\ mMsgQueue = <<>>
    /\ mRunning = FALSE
    /\ mThread = "none"

HasMessage == mMsgQueue # <<>>

\* Mutant: the capacity test lets one message too many in.
PushMessageOffByOne(msg) ==
    /\ mMsgQueue' = IF Len(mMsgQueue) > MAX_DRIVER_MESSAGES
                    THEN mMsgQueue ELSE Append(mMsgQueue, msg)
    /\ UNCHANGED <<mRunning, mThread>>

\* A message that finds the queue full is dropped.
PushMessage(msg) ==
    /\ mMsgQueue' = IF Len(mMsgQueue) >= MAX_DRIVER_MESSAGES
                    THEN mMsgQueue ELSE Append(mMsgQueue, msg)
    /\ UNCHANGED <<mRunning, mThread>>

\* Mutant: the front is read but never removed.
PopMessageKeepsFront ==
    /\ HasMessage
    /\ UNCHANGED <<mMsgQueue, mRunning, mThread>>

\* Mutant: the queue gives up its newest message instead of its oldest.
PopMessageDropsLast ==
    /\ HasMessage
    /\ mMsgQueue' = SubSeq(mMsgQueue, 1, Len(mMsgQueue) - 1)
    /\ UNCHANGED <<mRunning, mThread>>

PopMessage ==
    /\ HasMessage
    /\ mMsgQueue' = Tail(mMsgQueue)
    /\ UNCHANGED <<mRunning, mThread>>

Start ==
    /\ mThread = "none"
    /\ mThread' = "joinable"
    /\ UNCHANGED <<mMsgQueue, mRunning>>

\* The first half of Stop; the second is the join.
StopFlag ==
    /\ mRunning' = FALSE
    /\ UNCHANGED <<mMsgQueue, mThread>>

Join ==
    /\ mThread = "joinable"
    /\ mThread' = "joined"
    /\ UNCHANGED <<mMsgQueue, mRunning>>

\* The first statement of the thread's Run.
SetRunning ==
    /\ mRunning' = TRUE
    /\ UNCHANGED <<mMsgQueue, mThread>>
=============================================================================
