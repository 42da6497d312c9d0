# OpenSD: specifications, checks and proofs

OpenSD is a userspace driver for the Steam Deck's built-in gamepad. A daemon
reads the gamepad's HID reports from a `hidraw` node, translates them through
the bindings of a *profile* into events of up to three `uinput` devices, runs
commands bound to inputs, switches profiles on request, and keeps the
firmware's own keyboard and mouse emulation ("Lizard Mode") off while it runs.

This directory specifies that program in TLA+, checks the specifications with
TLC and proves the core's safety with TLAPS. Paths below are relative to the
repository; `PROJECT.json` lists every run, mutant, source line and theorem.

## The system

| Part | Source | State | Operations | Talks to |
|---|---|---|---|---|
| Main thread | `src/opensdd/daemon.cpp` | `gDaemonRunning`, `mpGpDrv` | `Startup`, `LoadProfile`, `Run`, `Shutdown` | calls the driver, takes its messages; signals clear the flag |
| Driver base | `drivers/driver_base.hpp` | `mThread`, `mRunning`, `mMsgQueue` | `Start`, `Stop`, `PushMessage`, `HasMessage`, `PopMessage` | queue from the poll thread to main |
| Gamepad driver | `drivers/gamepad/driver.cpp` | `mPollMutex`, three device pointers, `mMap`, `mLizardMode`, the switch timer | `Run`, `Poll`, `SetProfile`, `SetLizardMode`, the lizard thread | hidraw, uinput, runner |
| Hidraw | `hidraw.cpp` | `mFd`, `mMutex`, `mTimeoutCount` | `Open`, `Close`, `Read`, `Write` | the device |
| Uinput device | `uinput.cpp` | descriptor, event buffers by code | constructor, `Update*`, `Flush` | the kernel |
| Runner | `runner.cpp` | `mIsRunning`, `mCmdMutex`, `mProcList` | `Exec`, the reaper, the destructor | child processes |
| Profile parser | `profile_ini.cpp` | `mIni`, `mProf`, the static id counter | `Load` with a `Get*` for each kind of line | ini files, event names, the driver's `SetProfile` |
| File manager, configuration | `filemgr.cpp`, `config.cpp` | the directories in use; the user's files on disk | `Init`, `GetProfileFilePath`, `Config::Load` | the file system, main |
| Ini files | `common/ini.cpp` | sections and keys | `LoadFile`, `SaveFile`, `GetVal`, `GetKeyList`, `SetVal` | the parsers |
| Event names | `common/input_event_names.cpp` | tables | `GetEvType`, `GetEvCode` | the profile parser |
| Log, arguments, backlight | the rest | none that matters | | |

Three threads share the driver: **main**, **poll** (started by `Start`) and
**lizard** (started by poll). A fourth, the runner's **reaper**, shares the
process list with poll. What is hard:

- main replaces devices and bindings while poll translates with them; one
  mutex, `mPollMutex`, separates them, and poll holds it most of the time;
- the lizard thread tests a flag and a descriptor, then writes, while main
  switches the emulation back on and deletes the driver;
- start and stop race: `mRunning` is written by both sides;
- every failure path: a device that falls silent, goes away or cannot be made,
  a profile that does not load, a first one that does not;
- a start that is killed, or throws, half way through copying the user's files,
  and the next start on what it left;
- commands that outlive a profile, the process list and the daemon;
- event buffers that accumulate over a frame and over failed writes;
- one parser object for every load, one counter of ids for all of them, and a
  file whose sections may stand in any order, twice, or cut off.

What makes the parts correct: *main and driver* — no frame mixes two
profiles, no thread uses what is gone, requests are served in order and in the
end, a stop ends everything, Lizard Mode is back on at exit; *hidraw* — a lost
device is given up; *uinput* — a reader sees what the last report asked for;
*runner* — no child is lost, doubled or left behind and poll never waits for
one; *profile parser and ini* — what is loaded is what the file says; *file
manager* — a user's file is never replaced and every missing one is copied.

## Modules

```
ProfileSwitching            what the daemon and its driver promise
      ^ implemented by
   Daemon                   main thread; all threads, signals, device composed
      |  EXTENDS
   GamepadDriver            poll and lizard thread, SetProfile, destructor
      |  EXTENDS    \
   Hidraw          DrvBase
   DaemonProofs             theorems about Daemon
   Runner                   Exec, reaper, ~Runner, children, command bindings
   RunnerProofs             theorems about Runner
   UinputDevice             one device, one frame after the other
   UinputProofs             theorems about UinputDevice
   FileMgr                  Init over the user's files, and the starts that repeat it
   FileMgrProofs            theorems about FileMgr
   Ini                      ini files: text to data, lookups, changes, data to text
      ^ EXTENDS
   ProfileIni               a user's edits and the daemon's loads of a profile
   IniProofs                lemmas about loads and lookups
      ^ EXTENDS
   IniSaveProofs            lemmas about changes and saves
      ^ EXTENDS
   ProfileIniProofs         theorems about ProfileIni
   MCDaemon, MCRunner, MCUinputDevice, MCFileMgr, MCProfileIni    instances for TLC
```

**Hidraw** has the descriptor, its mutex and the timeout count, and behind
them the cable and what the firmware emulates. `Write` is one step (it locks
and unlocks without waiting); `Read` is several, because it waits in `poll()`
with the mutex locked. `ReadBlocks` and `OpenBlocks` are the two places where a
method calls `Close` with the mutex locked that `Close` locks. Which failures
can happen is the constant `Faults`.

**DrvBase** has the queue, the flag and the thread. Each queue operation holds
`mMsgMutex` from first to last statement, so it is one step. A message is the
profile name it carries.

**GamepadDriver** gives each thread a program counter, `pc`. A step is what a
thread does between two points where another thread's step could matter. A
report is abstracted to whether it presses a profile binding; a device to the
profile it was made for. `process` becomes `"aborted"` where the code reaches
`std::terminate`: the bare `throw;` of two constructors, and an exception that
leaves `FileMgr::Init` or a load of a profile and that no caller catches.

**Daemon** adds the main thread's own steps and composes everything except the
runner. Its actions are those of `Daemon::Startup`, `LoadProfile`, `Run`,
`Shutdown` and the destructor, in program order; `Return` covers the second
`Shutdown` from `~Daemon`.

**ProfileSwitching** has neither threads nor locks: a profile in service, a
frame, a profile being loaded and a queue. `Daemon!SwitchesProfiles` says that
`Daemon` implements it, where the profile in service is `mMap` except while
`SetProfile` works on the devices.

**Runner** has the process list, its mutex, the reaper's position in the list,
every child and the bindings that start them. `Exec` waits for the mutex and
is one step; the reaper's scan is one step per `waitpid`. It is not composed
with `Daemon`: poll appears as the caller of `Exec`, main as the one that loads
bindings between two frames (it holds `mPollMutex`) and that ends the runner
after poll has been joined.

**UinputDevice** has the buffers of one device with what `Update*` and `Flush`
do to them, and the state a reader of the device sees. `TransEvent` translates
the inputs in the order of `Translate`; the states of axes are counted in
halves. The kernel is modelled from the use: it shows a new state at every
`SYN_REPORT`. `Flush` ends in one of three ways: `writev` takes all, fails and
leaves the buffer as it is, or takes the first part (`WritePart`), which the
code takes for success, so that the values that were not written are cleared too.

**FileMgr** has the disk, which outlives the process, and one process at a
time. `Init` of the code is one step for each thing it tests or creates and two
for each file it copies, because the process may be killed, or the copy fail,
in between. A file is abstracted to who wrote it: `"shipped"`, `"edited"` by the
user, `"partial"` after a copy that was cut off, `"other"` for something that is
not a file. `dst` is the local variable of `CopyUserProfileFiles` with the
value the code gives it. A regular file in place of a directory of the user's
ends in an exception, because the paths end in a slash and `create_directory`
meets the file. `LoadConfig` may fail on a file that was cut off or edited. The user edits, removes and blocks files, the package
manager adds profiles, and both leave the files alone while a start is under
way. In `Daemon`, the same `Init` is one step that goes well, fails or throws.

**Ini** has no state of its own: `IniFile::mData` is a parameter. A text is a
sequence of pieces, where blanks, quotes, comment signs and brackets are pieces
and so is every run of other characters between them; `VectoriseLine` folds
over the pieces with the flags the code has. The pieces are a constant: those of
an instance are the ones its files are made of, and the proofs take any set that
has the signs and the pieces of names. What `GetKeyList` lists and `GetVal`
searches are places, a section and a key by number, in the order the loops of
the code visit them. `LoadFile` gives the data and
whether a bad header ended the load, `SaveFile` the lines and the data, which a
save changes too.

**ProfileIni** has the file a user edits, the one parser with its ini data and
the profile it fills, the static counter of ids and the profile in use. A
`Load` is one step, since only the main thread loads. What the code does key by
key is a function over the keys: `ReadBinding` is the binding of one, `Waiting`
tells which of the keys before it took an id. Lists that the code searches
before it appends are sets, or functions from a code to what the first entry for
it says. Whether `std::stoi` and its like convert a text, and to what, is given
by constants; the texts that `std::stod` takes for no number convert to `NaN`. The devices that `SetProfile` asks for a profile are
`DeviceCodes` and `DevicesOf`; a wish the kernel refuses is in `UinputDevice`.

## What the runs show

| Run | Bounds | Shows |
|---|---|---|
| `daemon_faults` | 2 profiles (one with every feature, one with none), queue of 2, 1 timeout, every fault | type invariant, `Inv`, `FrameMatchesDevices`, `PollHasGamepad`, `DriverOutlivesThreads`, refinement |
| `daemon_live` | same, faults that a thread survives; fair | `ExitRestoresLizardMode`; requests served, swaps complete, stop ends, emulation suppressed; no deadlock |
| `runner` | 2 bindings (one waits for exit, one has a delay of 2), 2 processes, 2 loads, 3 list entries, `SIGCHLD` ignored or not; fair | no child lost, doubled or left; zombies reaped; `Exec` returns |
| `uinput` | 8 inputs on 2 keys, 1 axis with the code of a key, 1 relative axis, 1 unmapped code; writes that fail or break off anywhere | after a write that goes through keys and axes follow the reports, frames are atomic, the first relative value wins |
| `profiles` | 17 blocks of lines, 2 of them in a file in any order, any number of loads, 5 ids; 5 keys, 2 of them regions of the pads | the profile in use is what the file says, but for the pads' regions, which are what the code makes of two lines; inputs reach the devices whose sections name their codes; ids are unique; a load of a save gives back what was saved, but for blank lines |
| `filemgr` | 3 profiles, as many as are shipped; 4 changes by user, package or kills, any number of starts; fair | no start touches a file that is there; a start that returns leaves nothing missing; starts reach a running daemon at last, unless `config.ini` or the default profile was cut off or edited |

`daemon_faults` allows the system to stop (`CHECK_DEADLOCK FALSE`), because two
of the faults really do stop it: a thread that locks a mutex it holds. So does
`daemon_lost_device`, whose subject is that stop. The other passing runs check
for deadlock.

The bounds are enough to bring every action about: two profiles are needed for
a mix-up, two queue places for an order and one more request than places for
the limit; one timeout below and one at the limit take both branches of
`Read`; two processes let the reaper erase the entry at its position with and
without one behind it; a queue, a list or a set of devices larger than this adds no new
kind of step. What the bounds leave open for the core is what the proofs are
for. In `profiles` two blocks are enough for every pair of lines that meet: two
lines for a key, a key and the axis it needs in either order, a header that cuts
a file off after what was read; a load between two edits shows what the parser
keeps. A block has several lines where three must come together. The bounds
named in modules are `MaxEdits` (edits of a file), `MaxId` (ids of commands),
`MaxLoads` (loads of a profile), `MaxChanges`
(what user, packages and kills do between starts) and `MaxEntries` (entries of the process list, which has no bound of its own when
`waitpid` fails).

### Disagreements with the documentation and comments

Each has a run in which TLC finds the claim violated; the quotes are in
`PROJECT.json`.

| Run | Claim | What the code does |
|---|---|---|
| `daemon_lost_device` | a lost device terminates the driver | `Read` calls `Close` under the mutex `Close` locks (`hidraw.cpp:235`) and hangs with `mPollMutex` |
| `daemon_early_signal` | the loop runs until a signal | a stop before `mRunning = true` (`driver.cpp:1034`) is overwritten; main joins for ever |
| `daemon_failed_start` | Lizard Mode is re-enabled on exit | after a failed start-up `~Daemon` joins a thread never started and terminates |
| `daemon_failed_switch` | the profile in use remains | a bare `throw;` (`uinput.cpp:829`) terminates the process after the old devices are gone |
| `uinput_first_abs` | the first value for an axis wins | the test looks among the keys; the last wins |
| `filemgr_upgrade` | missing profiles are copied at start-up | `dst` becomes the file just copied (`filemgr.cpp:265`); the next profile that exists ends the start in an exception, as after an upgrade that adds one |

More are read from the code and have no run, since one statement decides
each. 
- `features.lizard` is never read, so `LizardMode = true` in a profile has no
  effect.
- When `SIGCHLD` is ignored the reaper repeats a failing `waitpid` under the
  mutex of `Exec` (`ExecReturns` is claimed only when it is not ignored).
- The repeat timer of a command starts before `Exec` is called and so runs even
  when no command starts.
- A reload gives a binding a new id (`profile_ini.cpp:472`), so a command that
  waits for its exit starts again while the first still runs
  (`doc/users_manual.html:1655`). `CommandIdsUnique` and `OneShellPerId` say what
  holds: never two of one id, never one id for two bindings.
- The presses of the right pad's regions go to the slots of the left one
  (`profile_ini.cpp:772` to `792`), over what the left one's lines say; the right
  one's have no binding, whatever `doc/users_manual.html:2220` says.
  `BindingsAsWritten` states this for every region as what the code does.
- A deadzone of `nan` passes both tests of the clamp (`profile_ini.cpp:257`),
  though deadzones are capped (`data/profiles/default.profile:104`). `TypeOK`
  has it as the exception.
- An axis is made for a name of its code, in the case of the tables: that of a
  key with the same code makes one (`default.profile:120` wants the axis listed),
  and `abs_x` makes none, unlike names everywhere else
  (`doc/users_manual.html:624`). The range, though, is looked up in any case, so
  that `abs_x = 5 6` before `ABS_X = 0 10` makes an axis from 5 to 6. An axis
  whose range is missing or one point is made all the same, from 0 to 0
  (`default.profile:119` says it is not). `AxesReachDevices` and
  `AxesAsWritten` say what the code does of all this.
- A start that is killed while it copies `config.ini` or the default profile
  leaves a part of it, which no later start replaces, so that the daemon may
  fail at every start from then on (`config.cpp:58`); and without `~/.config`
  every start throws. `doc/users_manual.html:600` says that the directory is
  created and populated. `StartsConverge` claims nothing of either.
- A `writev` that is cut short counts as success (`uinput.cpp:683`): what it did
  not write is cleared with the rest and never sent.
- `SetProfile` clears the relative axes of the gamepad, so one that is bound to
  it is never reported; its bindings stay and meet `UpdateRel`'s test each time.
- `UpdateAbs` leaves an entry of type and code 0 among the keys, a `SYN_REPORT`
  that may split a frame; `AtomicFrames` is claimed without absolute axes.
- Every save puts `# ` before each comment, and a blank line after each section.

## Fairness

`Daemon!FairSpec`: each thread is scheduled, `poll()` returns within its
timeout and every other call returns (weak fairness of each thread). Two steps
wait for a mutex that another thread takes again and again: `SetProfile` for
`mPollMutex`, a lizard write for `Hidraw::mMutex`. The poll thread sleeps for
250 microseconds between polls with both free; that the waiter gets in during
one of these pauses is assumed as strong fairness of these two steps. Nothing
is assumed of signals, reports, failures, the clock, the user.

`Runner!FairSpec`: the reaper is scheduled (weak), and `Exec` gets the mutex in
one of the reaper's sleeps of 100 ms (strong). No command need ever end.

`FileMgr!FairSpec`: a process that runs goes on, and the service is started
again after it has ended (weak) — by the next login, since
`systemd/opensd.service` asks for no restart of its own. `StartsConverge` needs
no more: a start that ends in the exception above has copied one file at least.
It is claimed where the disk lets a start succeed (`CanStart`: there is a
`~/.config`, nothing is in the way) and the configuration and the default
profile are the package's or still to be copied (`FilesAsShipped`): a disk that
stays like that has a running daemon again and again, since a start in which
only another profile is cut off, or that throws, is made up for by later ones.

Liveness of a stop (`StopEnds`) is claimed only once poll has read the flag as
set: before that the stop can be lost, which is one of the findings.

## What is proved

`DaemonProofs` proves, for every set of profiles, every choice of features,
every queue capacity, timeout limit and set of faults (under the assumptions
`CapacityAssumption`, `MaxTimeoutsAssumption`, `FeaturesAssumption`,
`NoProfileAssumption`, `FaultsAssumption`):

- `InductiveInvariant`: `Spec => []Inv`;
- `TypeCorrect`, `FramesMatchDevices`, `GamepadThere`, `DriverOutlives`: the
  safety properties of `daemon_faults`;
- `Refinement`: `Spec` implements `ProfileSwitching`;
- `ExitRestores`: `ExitRestoresLizardMode`, for every set of faults without
  `"write"` (a report of the destructor that is lost leaves an emulation off).

`FileMgrProofs` proves, for every set of profiles and any number of starts
(`FilesAssumption`, `MaxChangesAssumption`):

- `InductiveInvariant`: `Spec => []Inv`, where `Inv` says what a start has made
  or found when it is at a step, and that every profile already listed is there;
- `ReadyComplete` and `FilesKept`: the two safety properties of `filemgr`.

`RunnerProofs` proves, for every list of bindings, set of processes, bound on
loads and list length, with `SIGCHLD` ignored or not:

- `InductiveInvariant`: `Spec => []IInv`;
- `TypeCorrect`, `ChildrenListed`, `OneShell`, `NoChildLeft`: the safety
  properties of `runner`.

`UinputProofs` proves, for every list of inputs, every finite set of codes and
every range of the axes, over any number of writes that fail or break off
(`InputsAssumption`, `CodesAssumption`):

- `InductiveInvariant`: `Spec => []IInv`;
- `TypeCorrect`, `KeysFollow`, `AxesFollow`, `FramesAtomic`, `FirstRelSent`: the
  safety properties of `uinput`.

`ProfileIniProofs` proves, for every list of keys, every table of names and
numbers, every file and any number of edits and loads (`KeysAssumption`,
`NumbersAssumption`, `PercentAssumption`, `CodesAssumption`, `TablesAssumption`,
`RegionsAssumption`, `NamesAssumption`, `EditsAssumption`, `BoundsAssumption`, and
`PiecesAssumption` of `Ini`):

- `TypeCorrect`: among others every id in use is below the counter, every
  deadzone within its bounds or `NaN`;
- `IdsUnique`: no two commands share an id;
- `KeysEnabled`: what is bound is enabled;
- `BindingsFromText`: every input does what the first line for it says, and
  nothing is left of earlier loads; a region of the right pad does nothing, one
  of the left pad what the right one's line says wherever there is one;
- `AxesEnabled`, `AxesFromText`: the axes of a device are those of whose code its
  section has a name that is in a table, each with the range that the first line
  with that name, in whatever case, gives it, or 0 to 0;
- `SaveReadBack`: saving loses nothing that lasts.

These rest on `IniProofs!LookupSaid` (a lookup answers what the first line for
the key says, in a file of any text) and `IniSaveProofs!FileBack` (what
`SaveFile` writes of the data of any load is read back).

None of the daemon's properties is inductive by itself: that the devices match a frame
depends on who holds the mutex, which depends on where the threads are, which
depends on their lives inside each other and inside the object's. `Daemon!Inv` states
these parts one by one: `PollMutexInv` (whoever is inside owns the mutex),
`LifecycleInv` (lizard within poll within driver), `DeviceInv` (the devices are
those of the bindings, or as far as `SetProfile` has come), `LoadInv` (when a
profile is being loaded, and when there are no devices yet), `FrameInv`,
`TimeoutInv`, `EndInv`. There is one lemma per part; each splits on the
disjuncts of `Next`. The properties follow from `Inv` without looking at steps,
and the refinement needs `Inv` to know, for instance, that no frame is under
way when `SetProfile` takes the devices down.

For `ExitRestores`, `Inv` is joined by two facts: the descriptor is open from the
constructor to the end of the destructor (`DescriptorOpen`), so that the
destructor's reports are sent, and once they are sent the emulation is on
(`EmulationRestored`). The second needs `LifecycleInv`: the lizard thread, whose
write would undo them, has ended.

`RunnerProofs!IInv` adds to the properties what makes them inductive: every
child has an entry that the destructor has not passed (`AllListed`), until then
no entry is stale and no two have one process (`NoneStale`, unless `SIGCHLD` is
ignored, when a number may be given away while its entry is still there), and
the stages of the exit (`Stages`): the reaper has ended before the destructor
waits, poll before that. What erasing an entry does to the others
(`RunnerProofs!Removed`) is the one fact about sequences.

`UinputProofs!IInv` says what the properties leave out, the time between two
writes: every entry of the buffer has the value of what the inputs asked for
since the last write that counted as a success (`Holds`), whatever `UpdateAbs`
made of a key with the code of an axis. A write that fails changes neither side,
one that succeeds clears the buffer and starts a new history, and what was asked
for then is what a reader sees now; one that breaks off clears and starts anew
as well, but of what a reader sees nothing is claimed until the next. That a write reaches every entry, in whatever order
the hash map has them, is the lemma `OrderCovers`.

The ids of a load are the counter plus the number of commands that wait among
the keys before; that this number grows by one at each of them
(`WaitingGrows`) and that the counter moves past all of them makes ids differ
within a load, and since a load replaces the whole map nothing else is needed
between loads.

What a profile has to do with the text it was loaded from is a matter of two
folds: `LoadFile` folds over lines, and `VectoriseLine` over the pieces of a
line. `IniProofs` turns a fold into a `Run`, a function from how far it has
come to the state it is in, by induction on the numbers up to a length
(`Induction`: a set that has 0, and with each number the next, misses none,
since the numbers are well-founded and there would be a least). What passes from each
state of a run to the next holds at its end. For a load this is `Corresponds`:
each line of a key has a place in the data, each place that is no comment is
that of a line, the order of the lines is that of the places, and the name, the
values and the section of a place are those its line has. So the first key in
the data is the first line of the file. `FromText` is the invariant that
connects it with the state: the profile in use was read, on top of the
template, from the data of `from`, which had no bad header.

A save is read back in the other direction. A value that is written is pieces
that lead the scan from the end of the word before it to the end of its own
(`ReadQuoted`), and `Lasting` says which values are: a quote would end the
quotes around it, a comment sign without a blank would swallow the next value.
Runs one after the other are one (`RunBoth`, `RunAll`), which makes words of
pieces (`KeyLineRead`), keys of lines (`KeysBack`), sections of keys
(`SectionBack`) and a file of sections (`FileBack`). For that the data must be
`Sound`: the default section is the first and the only one of its name, names
are made of pieces of names, no key is without values. `LoadSound` proves this
of every load, one that a bad header cut off too, and `IniLoaded` is the
invariant that says so of `mIni`. `SetVal` keeps data sound, and puts the value
where a lookup comes first (`SetFound`), which comments and blank lines do not
change (`StillFirst`).

The constants of these theorems are as free as the code leaves them:
`TablesAssumption` that names in a table begin as names of its type do,
`CodesAssumption` that every code fits in the 16 bits of an axis,
`RegionsAssumption` that a region of the right pad is read after that of the
left one, as the keys stand in `Load`.
`PiecesAssumption` keeps signs and pieces of names apart, `NamesAssumption`
says that the names of sections in `Load` are such pieces, `EditsAssumption`
that a user adds lines of pieces.

## Only model-checked

Liveness and deadlock, which are beyond the prover: `RequestsServed`,
`SwapsComplete`, `StopEnds` and `KeyboardSuppressed` of `daemon_live`,
`ZombiesReaped` and `ExecReturns` of `runner`, `StartsConverge` of `filemgr`.
Every invariant and every action property of the passing runs is proved.

## Not modelled

- The arithmetic of `UpdateState` and of the axis filters: floating-point
  formulas without state.
- Force feedback: the code reads effects and logs them.
- Wall-clock jumps: a delay is the time left of it.
- The child between `fork` and `execl`, and the order of static construction
  and destruction of `gRunner` and `gLog`.
- The names and descriptions of profiles, which nothing uses; the tables of
  event names (constants of `ProfileIni`); how a text becomes a number.
- Of ini files the typed variants of `SetVal`, `GetSectionList`, `DoesKeyExist`,
  which nothing that runs calls, and errors of the file system. `SaveFile` is modelled though the daemon never calls it.
- Logging, arguments, XDG paths; the backlight driver, which is a stub.

## Plan

Done: the core (`Hidraw`, `DrvBase`, `GamepadDriver`, `Daemon`,
`ProfileSwitching`), `Runner`, `UinputDevice`, `FileMgr`, `Ini` and `ProfileIni`
with their proofs.

Next, in this order:

1. `UpdateState` of the driver: the relative motion of a trackpad over touches
   and releases, and the pad regions as buttons, with `UinputDevice` behind it.
2. The devices' force feedback and the child between `fork` and `execl`.
