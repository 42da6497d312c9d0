-------------------------------- MODULE Runner --------------------------------
(***************************************************************************)
(* The command runner (src/opensdd/runner.cpp) and the command bindings    *)
(* that call it.  The poll thread translates a pressed command binding     *)
(* into a call of Exec, which forks a shell; the reaper (Runner::Daemon)   *)
(* looks every 100 ms whether a child is done; main stops both, and waits  *)
(* for every child that is left.  Loading a profile gives each binding a   *)
(* new id and forgets its timer.                                           *)
(*                                                                         *)
(* Time is the number of ticks left until a binding's timestamp.  Exec     *)
(* runs under mCmdMutex and waits for nothing inside it, so it is one step *)
(* that waits for the mutex; the reaper holds it for a whole scan, of one  *)
(* step per waitpid.                                                       *)
(***************************************************************************)
EXTENDS Naturals, FiniteSets, SequencesExt

CONSTANTS
    NBindings,          \* how many command bindings the profile has
    WaitForExit,        \* those with wait_for_exit = true
    Delay,              \* their repeat_delay_ms, in ticks
    Pids,               \* how many processes the system lets the user have
    SigchldIgnored,     \* whether the daemon may be started with SIGCHLD ignored
    MaxEntries,         \* bound: entries of mProcList; more forks fail
    MaxLoads            \* bound: profile loads

Bindings == 1 .. NBindings

ASSUME BindingsAssumption ==
    /\ NBindings \in Nat \ {0}
    /\ WaitForExit \subseteq Bindings
    /\ Delay \in [Bindings -> Nat]
ASSUME EnvironmentAssumption ==
    /\ IsFiniteSet(Pids)
    /\ SigchldIgnored \in BOOLEAN
    /\ MaxEntries \in Nat
    /\ MaxLoads \in Nat \ {0}

VARIABLES
    pc,             \* where main, poll and reaper are
    mIsRunning,
    mCmdMutex,      \* the reaper holds it
    mProcList,
    cursor,         \* the entry the reaper, or later main, looks at
    pressed,        \* the binding whose command poll is about to run
    bind,           \* id and time left of every binding of mMap
    uid,            \* the next id GetCommandBinding hands out
    child,          \* of each pid: its state and the id it was started under
    ignored         \* SIGCHLD is ignored: no child becomes a zombie

vars == <<pc, mIsRunning, mCmdMutex, mProcList, cursor, pressed, bind, uid, child, ignored>>

NoChild == [state |-> "none", bid |-> 0]

\* GetCommandBinding, for each binding in the order of the profile.
Loaded(first) ==
    [b \in Bindings |->
        [ id |-> IF b \in WaitForExit
                 THEN first + Cardinality({c \in WaitForExit : c < b}) ELSE 0,
          left |-> 0 ]]

Init ==
    /\ pc = [main |-> "running", poll |-> "idle", reaper |-> "loop"]
    /\ mIsRunning = TRUE
    /\ mCmdMutex = FALSE
    /\ mProcList = <<>>
    /\ cursor = 1
    /\ pressed = 1
    /\ bind = Loaded(1)
    /\ uid = 1 + Cardinality(WaitForExit)
    /\ child = [p \in Pids |-> NoChild]
    /\ ignored \in {FALSE, SigchldIgnored}

At(t, label) == pc[t] = label
Goto(t, label) == pc' = [pc EXCEPT ![t] = label]

IsAlive(p) == child[p].state = "running"
Listed(id) == \E i \in DOMAIN mProcList : mProcList[i].bid = id

-----------------------------------------------------------------------------
(* Poll: TransEvent of a command binding, and Exec.                        *)

\* A binding whose timer still runs is ignored; else the timer starts and
\* Exec is called.
Press(b) ==
    /\ At("poll", "idle")
    /\ bind[b].left = 0
    /\ bind' = [bind EXCEPT ![b].left = Delay[b]]
    /\ pressed' = b
    /\ Goto("poll", "exec")
    /\ UNCHANGED <<mIsRunning, mCmdMutex, mProcList, cursor, uid, child, ignored>>

Fork(p, id) ==
    /\ child[p] = NoChild
    /\ Len(mProcList) < MaxEntries
    /\ child' = [child EXCEPT ![p] = [state |-> "running", bid |-> id]]
    /\ mProcList' = Append(mProcList, [pid |-> p, bid |-> id])

\* Mutant: the child of a binding without an id is not put on the list.
ExecForgets ==
    /\ At("poll", "exec")
    /\ ~mCmdMutex
    /\ Goto("poll", "idle")
    /\ \/ \E p \in Pids :
            /\ ~ (bind[pressed].id # 0 /\ Listed(bind[pressed].id))
            /\ child[p] = NoChild
            /\ child' = [child EXCEPT ![p] = [state |-> "running", bid |-> bind[pressed].id]]
            /\ mProcList' = IF bind[pressed].id = 0 THEN mProcList
                            ELSE Append(mProcList, [pid |-> p, bid |-> bind[pressed].id])
       \/ UNCHANGED <<mProcList, child>>
    /\ UNCHANGED <<mIsRunning, mCmdMutex, cursor, pressed, bind, uid, ignored>>

\* No shell starts when an entry has the binding's id, or when fork fails.
Exec ==
    /\ At("poll", "exec")
    /\ ~mCmdMutex
    /\ Goto("poll", "idle")
    /\ \/ /\ ~ (bind[pressed].id # 0 /\ Listed(bind[pressed].id))
          /\ \E p \in Pids : Fork(p, bind[pressed].id)
       \/ UNCHANGED <<mProcList, child>>
    /\ UNCHANGED <<mIsRunning, mCmdMutex, cursor, pressed, bind, uid, ignored>>

-----------------------------------------------------------------------------
(* The reaper: Runner::Daemon.                                             *)

ReaperLoop ==
    /\ At("reaper", "loop")
    /\ Goto("reaper", IF mIsRunning THEN "lock" ELSE "end")
    /\ UNCHANGED <<mIsRunning, mCmdMutex, mProcList, cursor, pressed, bind, uid, child, ignored>>

\* After the 100 ms sleep.
ReaperLock ==
    /\ At("reaper", "lock")
    /\ ~mCmdMutex
    /\ mCmdMutex' = TRUE
    /\ cursor' = 1
    /\ Goto("reaper", "scan")
    /\ UNCHANGED <<mIsRunning, mProcList, pressed, bind, uid, child, ignored>>

\* Mutant: the entry of a child that still runs is erased.
ReaperScanErasesRunning ==
    /\ At("reaper", "scan")
    /\ cursor \in DOMAIN mProcList
    /\ LET p == mProcList[cursor].pid IN
           /\ mProcList' = RemoveAt(mProcList, cursor)
           /\ child' = IF child[p].state = "zombie"
                       THEN [child EXCEPT ![p] = NoChild] ELSE child
           /\ UNCHANGED cursor
    /\ UNCHANGED <<pc, mIsRunning, mCmdMutex, pressed, bind, uid, ignored>>

\* Mutant: the loop goes on after an erased entry as after any other.
ReaperScanAdvances ==
    /\ At("reaper", "scan")
    /\ cursor \in DOMAIN mProcList
    /\ cursor' = cursor + 1
    /\ LET p == mProcList[cursor].pid IN
           IF child[p].state = "zombie"
           THEN /\ child' = [child EXCEPT ![p] = NoChild]
                /\ mProcList' = RemoveAt(mProcList, cursor)
           ELSE UNCHANGED <<mProcList, child>>
    /\ UNCHANGED <<pc, mIsRunning, mCmdMutex, pressed, bind, uid, ignored>>

\* Mutant: the scan does not go on to the entry after a running child's.
ReaperScanStays ==
    /\ At("reaper", "scan")
    /\ cursor \in DOMAIN mProcList
    /\ LET p == mProcList[cursor].pid IN
           IF child[p].state = "zombie"
           THEN /\ child' = [child EXCEPT ![p] = NoChild]
                /\ mProcList' = RemoveAt(mProcList, cursor)
           ELSE UNCHANGED <<mProcList, child>>
    /\ UNCHANGED <<pc, mIsRunning, mCmdMutex, cursor, pressed, bind, uid, ignored>>

\* Mutant: the first entry is passed over.
ReaperScanSkipsFirst ==
    /\ At("reaper", "scan")
    /\ cursor \in DOMAIN mProcList
    /\ LET p == mProcList[cursor].pid IN
           IF cursor > 1 /\ child[p].state = "zombie"
           THEN /\ child' = [child EXCEPT ![p] = NoChild]
                /\ mProcList' = RemoveAt(mProcList, cursor)
                /\ UNCHANGED cursor
           ELSE /\ cursor' = cursor + 1
                /\ UNCHANGED <<mProcList, child>>
    /\ UNCHANGED <<pc, mIsRunning, mCmdMutex, pressed, bind, uid, ignored>>

\* waitpid(pid, WNOHANG): zero for a running child; its pid for a zombie,
\* which is then gone and its entry erased; -1 for a pid that is no child,
\* and the loop comes back to the same entry.
ReaperScan ==
    /\ At("reaper", "scan")
    /\ cursor \in DOMAIN mProcList
    /\ LET p == mProcList[cursor].pid IN
           \/ /\ child[p].state = "running"
              /\ cursor' = cursor + 1
              /\ UNCHANGED <<mProcList, child>>
           \/ /\ child[p].state = "zombie"
              /\ child' = [child EXCEPT ![p] = NoChild]
              /\ mProcList' = RemoveAt(mProcList, cursor)
              /\ UNCHANGED cursor
           \/ /\ child[p].state = "none"
              /\ UNCHANGED <<cursor, mProcList, child>>
    /\ UNCHANGED <<pc, mIsRunning, mCmdMutex, pressed, bind, uid, ignored>>

ReaperUnlock ==
    /\ At("reaper", "scan")
    /\ cursor > Len(mProcList)
    /\ mCmdMutex' = FALSE
    /\ Goto("reaper", "loop")
    /\ UNCHANGED <<mIsRunning, mProcList, cursor, pressed, bind, uid, child, ignored>>

-----------------------------------------------------------------------------
(* Main: a profile load, and ~Runner at exit.                              *)

\* GetCommandBinding for every binding, and the assignment to mMap, which
\* waits under mPollMutex until poll is between two reports.
LoadBindings ==
    /\ At("main", "running")
    /\ At("poll", "idle")
    /\ uid < 1 + MaxLoads * Cardinality(WaitForExit)
    /\ bind' = Loaded(uid)
    /\ uid' = uid + Cardinality(WaitForExit)
    /\ UNCHANGED <<pc, mIsRunning, mCmdMutex, mProcList, cursor, pressed, child, ignored>>

\* ~Daemon has joined poll before ~Runner runs.
Stop ==
    /\ At("main", "running")
    /\ At("poll", "idle")
    /\ pc' = [pc EXCEPT !["main"] = "join", !["poll"] = "end"]
    /\ mIsRunning' = FALSE
    /\ UNCHANGED <<mCmdMutex, mProcList, cursor, pressed, bind, uid, child, ignored>>

\* Mutant: main does not wait for the children.
JoinReaperOnly ==
    /\ At("main", "join")
    /\ At("reaper", "end")
    /\ Goto("main", "end")
    /\ UNCHANGED <<mIsRunning, mCmdMutex, mProcList, cursor, pressed, bind, uid, child, ignored>>

JoinReaper ==
    /\ At("main", "join")
    /\ At("reaper", "end")
    /\ cursor' = 1
    /\ Goto("main", "wait")
    /\ UNCHANGED <<mIsRunning, mCmdMutex, mProcList, pressed, bind, uid, child, ignored>>

\* waitpid(pid, 0) of one entry: waits for a running child.
WaitChild ==
    /\ At("main", "wait")
    /\ cursor \in DOMAIN mProcList
    /\ ~IsAlive(mProcList[cursor].pid)
    /\ child' = [child EXCEPT ![mProcList[cursor].pid] = NoChild]
    /\ cursor' = cursor + 1
    /\ UNCHANGED <<pc, mIsRunning, mCmdMutex, mProcList, pressed, bind, uid, ignored>>

Exit ==
    /\ At("main", "wait")
    /\ cursor > Len(mProcList)
    /\ Goto("main", "end")
    /\ UNCHANGED <<mIsRunning, mCmdMutex, mProcList, cursor, pressed, bind, uid, child, ignored>>

-----------------------------------------------------------------------------
(* The environment.                                                        *)

\* A child whose parent ignores SIGCHLD leaves no zombie.
ChildExits(p) ==
    /\ IsAlive(p)
    /\ child' = IF ignored THEN [child EXCEPT ![p] = NoChild]
                ELSE [child EXCEPT ![p].state = "zombie"]
    /\ UNCHANGED <<pc, mIsRunning, mCmdMutex, mProcList, cursor, pressed, bind, uid, ignored>>

Tick ==
    /\ \E b \in Bindings : bind[b].left > 0
    /\ bind' = [b \in Bindings |->
                    [bind[b] EXCEPT !.left = IF @ > 0 THEN @ - 1 ELSE 0]]
    /\ UNCHANGED <<pc, mIsRunning, mCmdMutex, mProcList, cursor, pressed, uid, child, ignored>>

PollThread == Exec \/ \E b \in Bindings : Press(b)
Reaper == ReaperLoop \/ ReaperLock \/ ReaperScan \/ ReaperUnlock
MainThread == LoadBindings \/ Stop \/ JoinReaper \/ WaitChild \/ Exit
Ended == At("main", "end") /\ UNCHANGED vars

Next ==
    \/ PollThread \/ Reaper \/ MainThread
    \/ \E p \in Pids : ChildExits(p)
    \/ Tick
    \/ Ended

Spec == Init /\ [][Next]_vars

\* The reaper runs whenever it can.  Exec gets the mutex in one of the
\* reaper's sleeps of 100 ms, for which a thread that waits is strongly
\* fair.  Nothing makes a child exit, a user press or the daemon stop.
Fairness ==
    /\ WF_vars(Reaper)
    /\ SF_vars(Exec)

FairSpec == Spec /\ Fairness

-----------------------------------------------------------------------------
TypeOK ==
    /\ pc \in [main : {"running", "join", "wait", "end"},
               poll : {"idle", "exec", "end"},
               reaper : {"loop", "lock", "scan", "end"}]
    /\ mIsRunning \in BOOLEAN
    /\ mCmdMutex \in BOOLEAN
    /\ mProcList \in Seq([pid : Pids, bid : Nat])
    /\ cursor \in 1 .. Len(mProcList) + 1
    /\ pressed \in Bindings
    /\ bind \in [Bindings -> [id : Nat, left : Nat]]
    /\ uid \in Nat
    /\ ignored \in BOOLEAN
    /\ child \in [Pids -> [state : {"none", "running", "zombie"}, bid : Nat]]

\* Each child the kernel still knows has an entry on the list, with the id it
\* was started under, until ~Runner waits for it: the reaper never loses a
\* child that Exec adds between its scans, and erases no other's entry.  No
\* pid is listed twice, except where stale entries stay on the list because
\* waitpid fails.
EveryChildListed ==
    mIsRunning =>
        \A p \in Pids : child[p] # NoChild =>
            \E i \in DOMAIN mProcList :
                /\ mProcList[i] = [pid |-> p, bid |-> child[p].bid]
                /\ \A j \in DOMAIN mProcList : mProcList[j].pid = p => j = i \/ ignored

\* Of two shells that run at one time no two have the same nonzero id,
\* whatever the reaper has taken off the list in between.
OneShellPerId ==
    \A p, q \in Pids :
        IsAlive(p) /\ IsAlive(q) /\ child[p].bid = child[q].bid /\ child[p].bid # 0 => p = q

\* When ~Runner is done no child is left: neither a running shell without a
\* parent nor a zombie.
ExitLeavesNoChild == At("main", "end") => \A p \in Pids : child[p] = NoChild

\* A zombie is reaped in the end, unless the daemon is asked to stop: the
\* process table does not fill up with finished commands.
ZombiesReaped ==
    \A p \in Pids :
        child[p].state = "zombie" ~> child[p].state # "zombie" \/ ~mIsRunning

\* "Run command from separate thread to avoid packet loss or stopping
\* driver" (driver.cpp:469): the poll thread comes back from Exec.  This
\* needs zombies: without them waitpid fails for a child that has exited, the
\* reaper tries it again for ever and Exec waits for its mutex.
ExecReturns == At("poll", "exec") ~> At("poll", "idle") \/ ignored
=============================================================================
