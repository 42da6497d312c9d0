----------------------------- MODULE RunnerProofs -----------------------------
(***************************************************************************)
(* Theorems about Runner for every number of bindings, every set of        *)
(* processes and every bound, with the proofs that TLAPS checks.  No child *)
(* is lost between Exec and the reaper, no id has two shells, and none of  *)
(* the daemon's children outlives it.                                      *)
(***************************************************************************)
EXTENDS Runner, FiniteSetTheorems, SequenceTheorems, TLAPS

USE DEF At, Goto, Bindings, NoChild, IsAlive

\* Taking an entry off a list shifts the later ones by one place.
LEMMA Removed ==
    ASSUME NEW S, NEW s \in Seq(S), NEW i \in 1 .. Len(s)
    PROVE  /\ RemoveAt(s, i) \in Seq(S)
           /\ Len(RemoveAt(s, i)) = Len(s) - 1
           /\ \A j \in 1 .. Len(s) - 1 : RemoveAt(s, i)[j] = IF j < i THEN s[j] ELSE s[j + 1]
<1> DEFINE a == SubSeq(s, 1, i - 1)
           b == SubSeq(s, i + 1, Len(s))
<1>1. Len(s) \in Nat
  OBVIOUS
<1>2. /\ a \in Seq(S) /\ Len(a) = i - 1
      /\ \A j \in 1 .. i - 1 : a[j] = s[j]
  BY <1>1
<1>3. /\ b \in Seq(S) /\ Len(b) = Len(s) - i
      /\ \A j \in 1 .. Len(s) - i : b[j] = s[i + j]
  BY <1>1
<1> HIDE DEF a, b
<1>4. /\ a \o b \in Seq(S) /\ Len(a \o b) = Len(a) + Len(b)
      /\ \A k \in 1 .. Len(a) + Len(b) :
            (a \o b)[k] = IF k <= Len(a) THEN a[k] ELSE b[k - Len(a)]
  BY <1>2, <1>3, ConcatProperties
<1>5. RemoveAt(s, i) = a \o b
  BY DEF RemoveAt, a, b
<1>6. Len(a \o b) = Len(s) - 1
  BY <1>1, <1>2, <1>3, <1>4
<1>7. ASSUME NEW k \in 1 .. Len(s) - 1
      PROVE  (a \o b)[k] = IF k < i THEN s[k] ELSE s[k + 1]
  <2>1. CASE k < i
    BY <1>1, <1>2, <1>3, <1>4, <2>1
  <2>2. CASE ~(k < i)
    <3>1. (a \o b)[k] = b[k - Len(a)]
      BY <1>1, <1>2, <1>3, <1>4, <2>2
    <3>2. k - Len(a) \in 1 .. Len(s) - i /\ i + (k - Len(a)) = k + 1
      BY <1>1, <1>2, <2>2
    <3>3. b[k - Len(a)] = s[k + 1]
      BY <1>3, <3>2
    <3> QED
      BY <2>2, <3>1, <3>3
  <2> QED
    BY <2>1, <2>2
<1> QED
  BY <1>4, <1>5, <1>6, <1>7

\* The ids of a load and the next free one are numbers.
LEMMA LoadedType ==
    ASSUME NEW first \in Nat
    PROVE  /\ Loaded(first) \in [Bindings -> [id : Nat, left : Nat]]
           /\ first + Cardinality(WaitForExit) \in Nat
<1>1. \A S \in SUBSET WaitForExit : Cardinality(S) \in Nat
  <2>1. IsFiniteSet(Bindings)
    BY FS_Interval, BindingsAssumption
  <2> QED
    BY <2>1, FS_Subset, FS_CardinalityType, BindingsAssumption
<1> QED
  BY <1>1 DEF Loaded

-----------------------------------------------------------------------------
(* Types.                                                                  *)

\* What the types say of an entry.
LEMMA EntryTypes ==
    ASSUME TypeOK
    PROVE  /\ mProcList \in Seq([pid : Pids, bid : Nat])
           /\ Len(mProcList) \in Nat /\ DOMAIN mProcList = 1 .. Len(mProcList)
           /\ \A i \in DOMAIN mProcList : mProcList[i].pid \in Pids
<1>1. mProcList \in Seq([pid : Pids, bid : Nat])
  BY DEF TypeOK
<1>2. \A i \in 1 .. Len(mProcList) : mProcList[i] \in [pid : Pids, bid : Nat]
  BY <1>1, ElementOfSeq
<1>3. Len(mProcList) \in Nat /\ DOMAIN mProcList = 1 .. Len(mProcList)
  BY <1>1, LenProperties
<1> QED
  BY <1>1, <1>2, <1>3

LEMMA InitType == ASSUME Init PROVE TypeOK
<1>1. bind \in [Bindings -> [id : Nat, left : Nat]] /\ uid \in Nat
  BY LoadedType DEF Init
<1>2. mProcList \in Seq([pid : Pids, bid : Nat]) /\ Len(mProcList) = 0
  BY EmptySeq DEF Init
<1>3. child \in [Pids -> [state : {"none", "running", "zombie"}, bid : Nat]]
  BY DEF Init
<1>4. ignored \in BOOLEAN
  BY EnvironmentAssumption, Zenon DEF Init
<1>7. pressed \in Bindings
  BY BindingsAssumption DEF Init
<1>6. cursor \in 1 .. Len(mProcList) + 1
  BY <1>2 DEF Init
<1>5. pc \in [main : {"running", "join", "wait", "end"},
             poll : {"idle", "exec", "end"},
             reaper : {"loop", "lock", "scan", "end"}]
  BY DEF Init
<1> QED
  BY <1>1, <1>2, <1>3, <1>4, <1>5, <1>6, <1>7 DEF Init, TypeOK

\* Poll's steps keep the types.
LEMMA PollType == ASSUME TypeOK, PollThread PROVE TypeOK'
<1>1. ASSUME NEW b \in Bindings, Press(b) PROVE TypeOK'
  <2>1. bind' \in [Bindings -> [id : Nat, left : Nat]]
    BY <1>1, BindingsAssumption DEF Press, TypeOK
  <2> QED
    BY <1>1, <2>1 DEF Press, TypeOK
<1>2. CASE Exec
  <2>1. CASE UNCHANGED <<mProcList, child>>
    BY <1>2, <2>1 DEF Exec, TypeOK
  <2>2. ASSUME NEW p \in Pids, Fork(p, bind[pressed].id) PROVE TypeOK'
    <3>1. bind[pressed].id \in Nat
      BY DEF TypeOK
    <3>2. mProcList' \in Seq([pid : Pids, bid : Nat]) /\ Len(mProcList') = Len(mProcList) + 1
      BY <2>2, <3>1 DEF Fork, TypeOK
    <3>3. child' \in [Pids -> [state : {"none", "running", "zombie"}, bid : Nat]]
      BY <2>2, <3>1 DEF Fork, TypeOK
    <3>4. cursor' \in 1 .. Len(mProcList') + 1
      BY <1>2, <3>2 DEF Exec, TypeOK
    <3> QED
      BY <1>2, <3>2, <3>3, <3>4 DEF Exec, TypeOK
  <2> QED
    BY <1>2, <2>1, <2>2 DEF Exec
<1> QED
  BY <1>1, <1>2 DEF PollThread

\* The reaper's steps keep them, the scan of an entry that is erased too.
LEMMA ReaperType == ASSUME TypeOK, Reaper PROVE TypeOK'
<1>1. CASE ReaperLoop
  BY <1>1 DEF ReaperLoop, TypeOK
<1>2. CASE ReaperLock
  <2>1. cursor' \in 1 .. Len(mProcList') + 1
    BY <1>2 DEF ReaperLock, TypeOK
  <2> QED
    BY <1>2, <2>1 DEF ReaperLock, TypeOK
<1>3. CASE ReaperScan
  <2>0. cursor \in 1 .. Len(mProcList) /\ Len(mProcList) \in Nat
    BY <1>3 DEF ReaperScan, TypeOK
  <2> DEFINE p == mProcList[cursor].pid
  <2>1. CASE child[p].state = "running"
    <3>1. cursor' \in 1 .. Len(mProcList') + 1
      BY <1>3, <2>0, <2>1 DEF ReaperScan, TypeOK
    <3> QED
      BY <1>3, <2>1, <3>1 DEF ReaperScan, TypeOK
  <2>2. CASE child[p].state = "zombie"
    <3>1. mProcList' = RemoveAt(mProcList, cursor) /\ child' = [child EXCEPT ![p] = NoChild] /\ cursor' = cursor
      BY <1>3, <2>2 DEF ReaperScan
    <3>2. mProcList' \in Seq([pid : Pids, bid : Nat]) /\ Len(mProcList') = Len(mProcList) - 1
      BY <2>0, <3>1, Removed DEF TypeOK
    <3>3. cursor' \in 1 .. Len(mProcList') + 1
      BY <2>0, <3>1, <3>2
    <3>4. child' \in [Pids -> [state : {"none", "running", "zombie"}, bid : Nat]]
      BY <3>1 DEF TypeOK
    <3> QED
      BY <1>3, <3>2, <3>3, <3>4 DEF ReaperScan, TypeOK
  <2>3. CASE child[p].state = "none"
    BY <1>3, <2>3 DEF ReaperScan, TypeOK
  <2> QED
    BY <1>3, <2>1, <2>2, <2>3 DEF ReaperScan
<1>4. CASE ReaperUnlock
  BY <1>4 DEF ReaperUnlock, TypeOK
<1> QED
  BY <1>1, <1>2, <1>3, <1>4 DEF Reaper

\* So do main's and the environment's.
LEMMA OtherType == ASSUME TypeOK, [Next]_vars, ~PollThread, ~Reaper PROVE TypeOK'
<1>1. CASE LoadBindings
  BY <1>1, LoadedType DEF LoadBindings, TypeOK
<1>2. CASE Stop
  BY <1>2 DEF Stop, TypeOK
<1>3. CASE JoinReaper
  <2>1. cursor' \in 1 .. Len(mProcList') + 1
    BY <1>3 DEF JoinReaper, TypeOK
  <2> QED
    BY <1>3, <2>1 DEF JoinReaper, TypeOK
<1>4. CASE WaitChild
  <2>1. cursor' \in 1 .. Len(mProcList') + 1
    BY <1>4 DEF WaitChild, TypeOK
  <2>2. child' \in [Pids -> [state : {"none", "running", "zombie"}, bid : Nat]]
    BY <1>4 DEF WaitChild, TypeOK
  <2> QED
    BY <1>4, <2>1, <2>2 DEF WaitChild, TypeOK
<1>5. CASE Exit
  BY <1>5 DEF Exit, TypeOK
<1>6. ASSUME NEW p \in Pids, ChildExits(p) PROVE TypeOK'
  <2>1. child' \in [Pids -> [state : {"none", "running", "zombie"}, bid : Nat]]
    BY <1>6 DEF ChildExits, TypeOK
  <2> QED
    BY <1>6, <2>1 DEF ChildExits, TypeOK
<1>7. CASE Tick
  <2>1. ASSUME NEW b \in Bindings
        PROVE  [bind[b] EXCEPT !.left = IF @ > 0 THEN @ - 1 ELSE 0] \in [id : Nat, left : Nat]
    <3>1. bind[b] \in [id : Nat, left : Nat]
      BY DEF TypeOK
    <3>2. (IF bind[b].left > 0 THEN bind[b].left - 1 ELSE 0) \in Nat
      BY <3>1
    <3> QED
      BY <3>1, <3>2
  <2>2. bind' \in [Bindings -> [id : Nat, left : Nat]]
    BY <1>7, <2>1 DEF Tick
  <2> QED
    BY <1>7, <2>2 DEF Tick, TypeOK
<1>8. CASE UNCHANGED vars
  BY <1>8 DEF vars, TypeOK
<1> QED
  BY <1>1, <1>2, <1>3, <1>4, <1>5, <1>6, <1>7, <1>8 DEF Next, MainThread, Ended

-----------------------------------------------------------------------------
(* The invariants.                                                         *)

\* The first entry that main has not waited for.
Pending == IF pc["main"] \in {"wait", "end"} THEN cursor ELSE 1

\* Every child has an entry that main has not waited for.
AllListed ==
    \A p \in Pids : child[p] # NoChild =>
        \E i \in DOMAIN mProcList : i >= Pending /\ mProcList[i] = [pid |-> p, bid |-> child[p].bid]

\* Until main waits no entry is stale and none has another's pid, unless
\* children leave no zombie.
NoneStale ==
    ~ignored /\ pc["main"] \in {"running", "join"} =>
        \A i \in DOMAIN mProcList :
            /\ child[mProcList[i].pid] # NoChild
            /\ \A j \in DOMAIN mProcList : mProcList[i].pid = mProcList[j].pid => i = j

\* The stages of the exit, and the reaper's mutex.
Stages ==
    /\ mIsRunning <=> pc["main"] = "running"
    /\ pc["main"] # "running" => pc["poll"] = "end"
    /\ pc["main"] \in {"wait", "end"} => pc["reaper"] = "end"
    /\ pc["main"] = "end" => cursor > Len(mProcList)

\* The inductive invariant.
IInv == TypeOK /\ Stages /\ AllListed /\ NoneStale /\ OneShellPerId

LEMMA InitIInv == ASSUME Init PROVE IInv
<1>1. TypeOK
  BY InitType
<1>2. \A p \in Pids : child[p] = NoChild
  BY DEF Init
<1>3. mProcList = <<>> /\ pc["main"] = "running" /\ mIsRunning
  BY DEF Init
<1> QED
  BY <1>1, <1>2, <1>3 DEF IInv, Stages, AllListed, NoneStale, OneShellPerId

\* A step that only moves threads, neither main nor the list nor children,
\* keeps what the invariant says of them.
LEMMA Unmoved ==
    ASSUME IInv, UNCHANGED <<mProcList, child, ignored>>, pc'["main"] = pc["main"], cursor' = cursor
           \/ pc["main"] \notin {"wait", "end"}
    PROVE  AllListed' /\ NoneStale' /\ OneShellPerId'
BY DEF IInv, AllListed, NoneStale, OneShellPerId, Pending

LEMMA PollIInv == ASSUME IInv, PollThread PROVE AllListed' /\ NoneStale' /\ OneShellPerId' /\ Stages'
<1>0. pc["main"] = "running" /\ pc'["main"] = "running"
  BY DEF IInv, Stages, TypeOK, PollThread, Exec, Press
<1>1. Stages'
  BY <1>0 DEF IInv, Stages, PollThread, Exec, Press
<1>2. CASE UNCHANGED <<mProcList, child>>
  BY <1>0, <1>1, <1>2, Unmoved DEF PollThread, Exec, Press
<1>3. ASSUME NEW p \in Pids, Exec, ~(bind[pressed].id # 0 /\ Listed(bind[pressed].id)),
             Fork(p, bind[pressed].id)
      PROVE  AllListed' /\ NoneStale' /\ OneShellPerId'
  <2> DEFINE id == bind[pressed].id
             n == Len(mProcList)
  <2>1. id \in Nat /\ n \in Nat /\ DOMAIN mProcList = 1 .. n
    BY DEF IInv, TypeOK
  <2>2. /\ DOMAIN mProcList' = 1 .. n + 1
        /\ mProcList'[n + 1] = [pid |-> p, bid |-> id]
        /\ \A i \in 1 .. n : mProcList'[i] = mProcList[i]
    BY <1>3, <2>1 DEF Fork, IInv, TypeOK
  <2>3. /\ child[p] = NoChild
        /\ child' = [child EXCEPT ![p] = [state |-> "running", bid |-> id]]
        /\ ignored' = ignored
    BY <1>3 DEF Fork, Exec
  <2>4. \A q \in Pids : child'[q] = IF q = p THEN [state |-> "running", bid |-> id] ELSE child[q]
    BY <2>3 DEF IInv, TypeOK
  <2> HIDE DEF id, n
  <2>5. AllListed'
    <3>1. SUFFICES ASSUME NEW q \in Pids, child'[q] # NoChild
                   PROVE  \E i \in DOMAIN mProcList' :
                              i >= 1 /\ mProcList'[i] = [pid |-> q, bid |-> child'[q].bid]
      BY <1>0 DEF AllListed, Pending
    <3>2. CASE q = p
      BY <2>1, <2>2, <2>4, <3>2
    <3>3. CASE q # p
      <4>1. PICK i \in 1 .. n : mProcList[i] = [pid |-> q, bid |-> child[q].bid]
        BY <2>1, <2>4, <3>1, <3>3 DEF IInv, AllListed
      <4> QED
        BY <2>1, <2>2, <2>4, <3>3, <4>1
    <3> QED
      BY <3>2, <3>3
  <2>6. NoneStale'
    <3>1. SUFFICES ASSUME ~ignored, NEW i \in 1 .. n + 1
                   PROVE  /\ child'[mProcList'[i].pid] # NoChild
                          /\ \A j \in 1 .. n + 1 : mProcList'[i].pid = mProcList'[j].pid => i = j
      BY <2>2, <2>3 DEF NoneStale
    <3>2. \A k \in 1 .. n : mProcList[k].pid \in Pids /\ child[mProcList[k].pid] # NoChild
      BY <1>0, <2>1, <3>1, EntryTypes DEF IInv, NoneStale
    <3>3. \A k \in 1 .. n : mProcList[k].pid # p
      BY <2>3, <3>2
    <3>4. \A k, j \in 1 .. n : mProcList[k].pid = mProcList[j].pid => k = j
      BY <1>0, <2>1, <3>1 DEF IInv, NoneStale
    <3>5. CASE i = n + 1
      <4>1. mProcList'[i].pid = p
        BY <2>2, <3>5
      <4>2. \A j \in 1 .. n : mProcList'[j].pid # p
        BY <2>2, <3>3
      <4> QED
        BY <2>1, <2>4, <3>5, <4>1, <4>2
    <3>6. CASE i \in 1 .. n
      <4>1. mProcList'[n + 1].pid = p
        BY <2>2
      <4>2. mProcList'[i].pid = mProcList[i].pid
        BY <2>2, <3>6
      <4>3. \A j \in 1 .. n : mProcList'[j].pid = mProcList[j].pid
        BY <2>2
      <4> QED
        BY <2>1, <2>4, <3>2, <3>3, <3>4, <3>6, <4>1, <4>2, <4>3
    <3> QED
      BY <2>1, <3>5, <3>6
  <2>7. OneShellPerId'
    <3>1. ASSUME NEW q \in Pids, child[q] # NoChild, child[q].bid = id PROVE id = 0
      <4>1. Listed(id)
        BY <3>1 DEF IInv, AllListed, Listed
      <4> QED
        BY <1>3, <4>1 DEF id
    <3>2. \A q \in Pids : child[q].state = "running" /\ child[q].bid = id => id = 0
      BY <3>1
    <3> QED
      BY <2>4, <3>2 DEF IInv, OneShellPerId
  <2> QED
    BY <2>5, <2>6, <2>7
<1> QED
  BY <1>1, <1>2, <1>3 DEF PollThread, Exec, Press

\* The reaper takes off the list the entry of a child that it has reaped, and
\* no other: pids are not listed twice as long as there are zombies to reap.
LEMMA ReaperIInv == ASSUME IInv, Reaper PROVE AllListed' /\ NoneStale' /\ OneShellPerId' /\ Stages'
<1>0. pc["main"] \in {"running", "join"} /\ pc'["main"] = pc["main"] /\ ignored' = ignored
  BY DEF IInv, Stages, TypeOK, Reaper, ReaperLoop, ReaperLock, ReaperScan, ReaperUnlock
<1>1. Stages'
  BY <1>0 DEF IInv, Stages, TypeOK, Reaper, ReaperLoop, ReaperLock, ReaperScan, ReaperUnlock
<1>2. CASE UNCHANGED <<mProcList, child>>
  BY <1>0, <1>1, <1>2, Unmoved
<1>3. CASE ReaperScan /\ ~UNCHANGED <<mProcList, child>>
  <2> DEFINE p == mProcList[cursor].pid
             n == Len(mProcList)
  <2>1. /\ cursor \in 1 .. n /\ n \in Nat /\ DOMAIN mProcList = 1 .. n
        /\ child[p].state = "zombie" /\ p \in Pids
        /\ child' = [child EXCEPT ![p] = NoChild]
        /\ mProcList' = RemoveAt(mProcList, cursor)
    BY <1>3, EntryTypes DEF ReaperScan, IInv
  <2>2. /\ DOMAIN mProcList' = 1 .. n - 1
        /\ \A j \in 1 .. n - 1 : mProcList'[j] = IF j < cursor THEN mProcList[j] ELSE mProcList[j + 1]
    <3>1. /\ mProcList' \in Seq([pid : Pids, bid : Nat]) /\ Len(mProcList') = n - 1
          /\ \A j \in 1 .. n - 1 : mProcList'[j] = IF j < cursor THEN mProcList[j] ELSE mProcList[j + 1]
      BY <2>1, EntryTypes, Removed DEF IInv
    <3> QED
      BY <3>1, LenProperties
  <2>3. \A q \in Pids : child'[q] = IF q = p THEN NoChild ELSE child[q]
    BY <2>1 DEF IInv, TypeOK
  <2>4. AllListed'
    <3>1. SUFFICES ASSUME NEW q \in Pids, child'[q] # NoChild
                   PROVE  \E j \in 1 .. n - 1 : mProcList'[j] = [pid |-> q, bid |-> child'[q].bid]
      <4>1. Pending' = 1
        BY <1>0 DEF Pending
      <4>2. \A j \in 1 .. n - 1 : j >= 1
        BY <2>1
      <4> QED
        BY <2>2, <4>1, <4>2 DEF AllListed
    <3>2. q # p /\ child'[q] = child[q]
      BY <2>3, <3>1
    <3>3. PICK i \in 1 .. n : mProcList[i] = [pid |-> q, bid |-> child[q].bid]
      BY <2>1, <3>1, <3>2 DEF IInv, AllListed
    <3>4. i # cursor
      BY <3>2, <3>3
    <3>5. CASE i < cursor
      <4>1. i \in 1 .. n - 1 /\ mProcList'[i] = mProcList[i]
        BY <2>1, <2>2, <3>5
      <4> QED
        BY <3>2, <3>3, <4>1
    <3>6. CASE i > cursor
      <4>1. i - 1 \in 1 .. n - 1 /\ ~(i - 1 < cursor) /\ (i - 1) + 1 = i
        BY <2>1, <3>6
      <4>2. mProcList'[i - 1] = mProcList[i]
        BY <2>2, <4>1
      <4> QED
        BY <3>2, <3>3, <4>1, <4>2
    <3> QED
      BY <2>1, <3>4, <3>5, <3>6
  <2>5. NoneStale'
    <3>1. SUFFICES ASSUME ~ignored, NEW i \in 1 .. n - 1
                   PROVE  /\ child'[mProcList'[i].pid] # NoChild
                          /\ \A j \in 1 .. n - 1 : mProcList'[i].pid = mProcList'[j].pid => i = j
      BY <1>0, <2>2 DEF NoneStale
    <3> DEFINE Old(j) == IF j < cursor THEN j ELSE j + 1
    <3>2. \A j \in 1 .. n - 1 : Old(j) \in 1 .. n /\ Old(j) # cursor /\ mProcList'[j] = mProcList[Old(j)]
      BY <2>1, <2>2
    <3>3. \A k, j \in 1 .. n : mProcList[k].pid = mProcList[j].pid => k = j
      BY <1>0, <2>1, <3>1 DEF IInv, NoneStale
    <3>4. \A k \in 1 .. n : mProcList[k].pid \in Pids /\ child[mProcList[k].pid] # NoChild
      BY <1>0, <2>1, <3>1, EntryTypes DEF IInv, NoneStale
    <3>5. \A k, j \in 1 .. n - 1 : Old(k) = Old(j) => k = j
      BY <2>1
    <3> HIDE DEF Old
    <3>6. mProcList'[i].pid # p
      BY <2>1, <3>2, <3>3
    <3> QED
      BY <2>3, <3>2, <3>3, <3>4, <3>5, <3>6
  <2>6. OneShellPerId'
    <3>1. \A q \in Pids : child'[q].state = "running" => child'[q] = child[q]
      BY <2>3
    <3> QED
      BY <3>1 DEF IInv, OneShellPerId
  <2> QED
    BY <1>1, <2>4, <2>5, <2>6
<1> QED
  BY <1>1, <1>2, <1>3 DEF Reaper, ReaperLoop, ReaperLock, ReaperUnlock

LEMMA OtherIInv == ASSUME IInv, [Next]_vars, ~PollThread, ~Reaper
                   PROVE AllListed' /\ NoneStale' /\ OneShellPerId' /\ Stages'
<1>1. CASE LoadBindings \/ Tick \/ UNCHANGED vars
  <2>1. UNCHANGED <<pc, mIsRunning, mProcList, cursor, child, ignored>>
    BY <1>1 DEF LoadBindings, Tick, vars
  <2> QED
    BY <2>1, Unmoved DEF IInv, Stages
<1>2. CASE Stop
  <2>1. Stages'
    BY <1>2 DEF Stop, IInv, Stages, TypeOK
  <2>2. pc'["main"] = "join" /\ pc["main"] = "running" /\ UNCHANGED <<mProcList, cursor, child, ignored>>
    BY <1>2 DEF Stop, IInv, TypeOK
  <2> QED
    BY <2>1, <2>2 DEF IInv, AllListed, NoneStale, OneShellPerId, Pending
<1>3. CASE JoinReaper
  <2>1. Stages'
    BY <1>3 DEF JoinReaper, IInv, Stages, TypeOK
  <2>2. /\ pc'["main"] = "wait" /\ pc["main"] = "join" /\ cursor' = 1
        /\ UNCHANGED <<mProcList, child, ignored>>
    BY <1>3 DEF JoinReaper, IInv, TypeOK
  <2> QED
    BY <2>1, <2>2 DEF IInv, AllListed, NoneStale, OneShellPerId, Pending
<1>4. CASE WaitChild
  <2> DEFINE p == mProcList[cursor].pid
  <2>1. /\ pc["main"] = "wait" /\ cursor' = cursor + 1 /\ cursor \in 1 .. Len(mProcList) /\ p \in Pids
        /\ UNCHANGED <<pc, mIsRunning, mProcList, ignored>>
        /\ child' = [child EXCEPT ![p] = NoChild]
    BY <1>4, EntryTypes DEF WaitChild, IInv
  <2>2. \A q \in Pids : child'[q] = IF q = p THEN NoChild ELSE child[q]
    BY <2>1 DEF IInv, TypeOK
  <2>3. Stages'
    BY <2>1 DEF IInv, Stages
  <2>4. AllListed'
    <3>1. SUFFICES ASSUME NEW q \in Pids, child'[q] # NoChild
                   PROVE  \E i \in DOMAIN mProcList :
                              i >= cursor + 1 /\ mProcList[i] = [pid |-> q, bid |-> child'[q].bid]
      BY <2>1 DEF AllListed, Pending
    <3>2. q # p /\ child'[q] = child[q]
      BY <2>2, <3>1
    <3>3. PICK i \in DOMAIN mProcList : i >= cursor /\ mProcList[i] = [pid |-> q, bid |-> child[q].bid]
      BY <2>1, <3>1, <3>2 DEF IInv, AllListed, Pending
    <3>4. i # cursor /\ DOMAIN mProcList = 1 .. Len(mProcList) /\ Len(mProcList) \in Nat
      BY <3>2, <3>3 DEF IInv, TypeOK
    <3>5. i >= cursor + 1
      BY <2>1, <3>3, <3>4
    <3> QED
      BY <3>2, <3>3, <3>5
  <2>5. NoneStale'
    BY <2>1 DEF NoneStale
  <2>6. OneShellPerId'
    <3>1. \A q \in Pids : child'[q].state = "running" => child'[q] = child[q]
      BY <2>2
    <3> QED
      BY <3>1 DEF IInv, OneShellPerId
  <2> QED
    BY <2>3, <2>4, <2>5, <2>6
<1>5. CASE Exit
  <2>1. /\ pc["main"] = "wait" /\ pc'["main"] = "end" /\ cursor > Len(mProcList)
        /\ UNCHANGED <<mIsRunning, mProcList, cursor, child, ignored>>
        /\ pc'["poll"] = pc["poll"] /\ pc'["reaper"] = pc["reaper"]
    BY <1>5 DEF Exit, IInv, TypeOK
  <2>2. Stages'
    BY <2>1 DEF IInv, Stages
  <2> QED
    BY <2>1, <2>2 DEF IInv, AllListed, NoneStale, OneShellPerId, Pending
<1>6. ASSUME NEW p \in Pids, ChildExits(p)
      PROVE  AllListed' /\ NoneStale' /\ OneShellPerId' /\ Stages'
  <2>1. /\ UNCHANGED <<pc, mIsRunning, mProcList, cursor, ignored>>
        /\ child[p].state = "running"
    BY <1>6 DEF ChildExits
  <2>2. child'[p] = NoChild \/ (child'[p].state = "zombie" /\ child'[p].bid = child[p].bid)
    BY <1>6 DEF ChildExits, IInv, TypeOK
  <2>3. ~ignored => child'[p].state = "zombie"
    BY <1>6 DEF ChildExits, IInv, TypeOK
  <2>4. \A q \in Pids : q # p => child'[q] = child[q]
    BY <1>6 DEF ChildExits, IInv, TypeOK
  <2>5. Stages'
    BY <2>1 DEF IInv, Stages
  <2>6. \A q \in Pids : child'[q] # NoChild => child[q] # NoChild /\ child'[q].bid = child[q].bid
    BY <2>1, <2>2, <2>4
  <2>7. AllListed'
    BY <2>1, <2>6 DEF IInv, AllListed, Pending
  <2>8. NoneStale'
    <3>1. \A q \in Pids : ~ignored /\ child[q] # NoChild => child'[q] # NoChild
      BY <2>3, <2>4
    <3>2. \A i \in DOMAIN mProcList : mProcList[i].pid \in Pids
      BY EntryTypes DEF IInv
    <3> QED
      BY <2>1, <3>1, <3>2 DEF IInv, NoneStale
  <2>9. OneShellPerId'
    BY <2>2, <2>4 DEF IInv, OneShellPerId
  <2> QED
    BY <2>5, <2>7, <2>8, <2>9
<1> QED
  BY <1>1, <1>2, <1>3, <1>4, <1>5, <1>6 DEF Next, MainThread, Ended

\* The invariant holds in every state.
THEOREM InductiveInvariant == Spec => []IInv
<1>1. IInv /\ [Next]_vars => IInv'
  <2> SUFFICES ASSUME IInv, [Next]_vars PROVE IInv'
    OBVIOUS
  <2>1. TypeOK'
    BY PollType, ReaperType, OtherType DEF IInv
  <2> QED
    BY <2>1, PollIInv, ReaperIInv, OtherIInv DEF IInv
<1> QED
  BY InitIInv, <1>1, PTL DEF Spec

\* The list, its cursor, the ids and the children keep to what the program
\* declares: the cursor of the reaper, and later of main, never leaves the list.
THEOREM TypeCorrect == Spec => []TypeOK
<1>1. IInv => TypeOK
  BY DEF IInv
<1> QED
  BY InductiveInvariant, <1>1, PTL

\* The reaper and Exec lose no child between them: until the daemon stops each
\* one has its entry, and only one while children leave zombies.
THEOREM ChildrenListed == Spec => []EveryChildListed
<1>1. ASSUME IInv PROVE EveryChildListed
  <2>1. SUFFICES ASSUME mIsRunning, NEW p \in Pids, child[p] # NoChild
                 PROVE  \E i \in DOMAIN mProcList :
                            /\ mProcList[i] = [pid |-> p, bid |-> child[p].bid]
                            /\ \A j \in DOMAIN mProcList : mProcList[j].pid = p => j = i \/ ignored
    BY DEF EveryChildListed
  <2>2. PICK i \in DOMAIN mProcList : mProcList[i] = [pid |-> p, bid |-> child[p].bid]
    BY <1>1, <2>1 DEF IInv, AllListed
  <2>3. \A j \in DOMAIN mProcList : mProcList[j].pid = p => j = i \/ ignored
    BY <1>1, <2>1, <2>2 DEF IInv, NoneStale, Stages
  <2> QED
    BY <2>2, <2>3
<1> QED
  BY InductiveInvariant, <1>1, PTL

\* No two shells that run have the same nonzero id.
THEOREM OneShell == Spec => []OneShellPerId
<1>1. IInv => OneShellPerId
  BY DEF IInv
<1> QED
  BY InductiveInvariant, <1>1, PTL

\* When the daemon has ended none of its children is left.
THEOREM NoChildLeft == Spec => []ExitLeavesNoChild
<1>1. ASSUME IInv PROVE ExitLeavesNoChild
  <2>1. SUFFICES ASSUME pc["main"] = "end", NEW p \in Pids, child[p] # NoChild PROVE FALSE
    BY DEF ExitLeavesNoChild
  <2>2. PICK i \in DOMAIN mProcList : i >= cursor
    BY <1>1, <2>1 DEF IInv, AllListed, Pending
  <2>3. cursor > Len(mProcList) /\ i \in 1 .. Len(mProcList) /\ Len(mProcList) \in Nat /\ cursor \in Nat
    BY <1>1, <2>1 DEF IInv, Stages, TypeOK
  <2> QED
    BY <2>2, <2>3
<1> QED
  BY InductiveInvariant, <1>1, PTL
===============================================================================
