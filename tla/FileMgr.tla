-------------------------------- MODULE FileMgr --------------------------------
(***************************************************************************)
(* The file manager (src/opensdd/filemgr.cpp): FileMgr::Init finds the     *)
(* data files of the package, the user's configuration directory, and      *)
(* copies what is missing there; Daemon::Startup then loads the            *)
(* configuration and its profile.                                          *)
(*                                                                         *)
(* The disk outlives the process.  Init is one step per call that changes  *)
(* it, and two per copied file, for a process that dies in between.  What  *)
(* a file holds is abstracted to who wrote it.  The order in which a       *)
(* directory lists its files is not known.                                 *)
(***************************************************************************)
EXTENDS Naturals

CONSTANTS
    Profiles,       \* file names of profiles
    Default,        \* DEFAULT_PROFILE_FILENAME
    Config,         \* DEFAULT_CONFIG_FILENAME
    NoFile,
    MaxChanges      \* bound: changes by the user, upgrades, kills

ASSUME FilesAssumption ==
    /\ Default \in Profiles
    /\ Config \notin Profiles
    /\ NoFile \notin Profiles \cup {Config}
ASSUME MaxChangesAssumption == MaxChanges \in Nat

Files == Profiles \cup {Config}
DataDirs == {"installed", "build"}
UserDirs == {"config", "profiles"}

VARIABLES
    \* The disk.
    home,           \* $HOME is a directory
    configHome,     \* so is ~/.config, or $XDG_CONFIG_HOME
    system,         \* /etc/opensd is complete
    data,           \* the files in each directory a package or a build fills
    dirs,           \* the user's two directories
    file,           \* the user's files: who wrote them
    \* The process.
    pc,
    mDataDir,
    mConfigDir,     \* whose directories are used; "" before that is known
    todo,           \* profiles the directory iterator has still to list
    dst,            \* the local of CopyUserProfileFiles: NoFile is the directory
    copying,        \* the file a copy is under way of
    changes

disk == <<home, configHome, system, data, dirs, file>>
fixed == <<home, configHome, system, data>>
vars == <<home, configHome, system, data, dirs, file,
          pc, mDataDir, mConfigDir, todo, dst, copying, changes>>

\* IsInstalled and IsLocalBuild.
Complete(d) == {Config, Default} \subseteq data[d]

FoundDataDir ==
    IF Complete("installed") THEN "installed"
    ELSE IF Complete("build") THEN "build" ELSE ""

\* A package that was never started: the user has no files yet.
Init ==
    /\ home \in BOOLEAN /\ configHome \in BOOLEAN /\ system \in BOOLEAN
    /\ data \in [DataDirs -> {{}, {Config, Default}}]
    /\ dirs = [d \in UserDirs |-> "missing"]
    /\ file = [f \in Files |-> "missing"]
    /\ pc = "stopped"
    /\ mDataDir = "" /\ mConfigDir = ""
    /\ todo = {} /\ dst = NoFile /\ copying = NoFile
    /\ changes = 0

Ended == {"stopped", "failed", "threw", "killed"}
InitSteps == {"find", "configdir", "configfile", "profiledir", "profiles"}
InInit == pc \in InitSteps

-----------------------------------------------------------------------------
(* FileMgr::Init.  "failed" is an error it returns, which ends the daemon;  *)
(* "threw" an exception of std::filesystem, which nobody catches.          *)

Start ==
    /\ pc \in Ended
    /\ pc' = "find"
    /\ mDataDir' = "" /\ mConfigDir' = ""
    /\ todo' = {} /\ dst' = NoFile /\ copying' = NoFile
    /\ UNCHANGED <<disk, changes>>

Goto(label) ==
    /\ pc' = label
    /\ UNCHANGED <<fixed, mDataDir, mConfigDir, dst, changes>>

HasUserHome == home
HasSystemConfig == system

FindUserDirs ==
    /\ pc = "find"
    /\ mDataDir' = FoundDataDir
    /\ \/ FoundDataDir = "" /\ pc' = "failed" /\ mConfigDir' = ""
       \/ FoundDataDir # "" /\ HasUserHome /\ pc' = "configdir" /\ mConfigDir' = "user"
    /\ UNCHANGED <<disk, todo, dst, copying, changes>>

\* Without a home the system's directories are used, if there, and not written.
FindSystemDirs ==
    /\ pc = "find" /\ FoundDataDir # "" /\ ~HasUserHome
    /\ mDataDir' = FoundDataDir
    /\ \/ HasSystemConfig /\ pc' = "ok" /\ mConfigDir' = "system"
       \/ ~HasSystemConfig /\ pc' = "failed" /\ mConfigDir' = ""
    /\ UNCHANGED <<disk, todo, dst, copying, changes>>

\* A path that ends with a slash does not exist when a file has its name.  So
\* this is tried whenever there is no directory, and create_directory throws at
\* the file, as it does without a parent: it makes one level.
CreateUserConfigDir ==
    /\ pc = "configdir" /\ dirs.config # "dir"
    /\ \/ /\ dirs.config = "missing" /\ configHome
          /\ dirs' = [dirs EXCEPT !.config = "dir"] /\ Goto("configfile")
       \/ /\ dirs.config = "file" \/ ~configHome
          /\ dirs' = dirs /\ Goto("threw")
    /\ UNCHANGED <<file, todo, copying>>

\* What exists under such a path is a directory: the test for it never fails.
CheckConfigDir ==
    /\ pc = "configdir" /\ dirs.config = "dir"
    /\ Goto("configfile")
    /\ UNCHANGED <<dirs, file, todo, copying>>

BeginCopy(f) ==
    /\ file' = [file EXCEPT ![f] = "partial"]
    /\ copying' = f

CopyUserConfigFile ==
    /\ pc = "configfile" /\ file[Config] = "missing"
    /\ BeginCopy(Config)
    /\ Goto("configfile")
    /\ UNCHANGED <<dirs, todo>>

CheckConfigFile ==
    /\ pc = "configfile" /\ file[Config] # "missing" /\ copying = NoFile
    /\ Goto(IF file[Config] = "other" THEN "failed" ELSE "profiledir")
    /\ UNCHANGED <<dirs, file, todo, copying>>

CreateUserProfileDir == dirs' = [dirs EXCEPT !.profiles = "dir"]

\* Mutant: the iterator goes through the data directory itself.
EnterProfileDirListsAllData ==
    /\ pc = "profiledir" /\ dirs.profiles # "file"
    /\ CreateUserProfileDir
    /\ todo' = data[mDataDir]
    /\ Goto("profiles")
    /\ UNCHANGED <<file, copying>>

\* The profile directory is made unless it is there, and the iterator set up; a
\* file in its place makes create_directory throw.
EnterProfileDir ==
    /\ pc = "profiledir"
    /\ \/ /\ dirs.profiles # "file"
          /\ CreateUserProfileDir
          /\ todo' = data[mDataDir] \cap Profiles
          /\ Goto("profiles")
       \/ /\ dirs.profiles = "file"
          /\ Goto("threw")
          /\ UNCHANGED <<dirs, todo>>
    /\ UNCHANGED <<file, copying>>

\* Mutant: after a copy the test finds the file just copied.
ExistsInDstFindsLast(p) == dst # NoFile \/ file[p] # "missing"

\* Mutant: there is no test, and copy_file throws at every file that exists.
ExistsInDstMissing(p) == FALSE

\* The test of CopyUserProfileFiles.  dst is the directory until a first file
\* has been copied; from then on it is that file, which has nothing in it.
ExistsInDst(p) == dst = NoFile /\ file[p] # "missing"

\* Mutant: copy_file is told to overwrite.
CopyUserProfileFileOverwrites(p) ==
    /\ pc = "profiles" /\ copying = NoFile
    /\ p \in todo
    /\ todo' = todo \ {p}
    /\ \/ ExistsInDst(p) /\ UNCHANGED <<dst, file, copying>>
       \/ ~ExistsInDst(p) /\ dst' = p /\ BeginCopy(p)
    /\ UNCHANGED <<fixed, dirs, pc, mDataDir, mConfigDir, changes>>

CopyUserProfileFile(p) ==
    /\ pc = "profiles" /\ copying = NoFile
    /\ p \in todo
    /\ todo' = todo \ {p}
    /\ \/ ExistsInDst(p) /\ pc' = pc /\ UNCHANGED <<dst, file, copying>>
       \/ /\ ~ExistsInDst(p)
          /\ dst' = p
          /\ \/ file[p] = "missing" /\ BeginCopy(p) /\ pc' = pc
             \/ file[p] # "missing" /\ pc' = "threw" /\ UNCHANGED <<file, copying>>
    /\ UNCHANGED <<fixed, dirs, mDataDir, mConfigDir, changes>>

EndCopy ==
    /\ InInit /\ copying # NoFile
    /\ file' = [file EXCEPT ![copying] = "shipped"]
    /\ copying' = NoFile
    /\ Goto(pc)
    /\ UNCHANGED <<dirs, todo>>

InitReturns ==
    /\ pc = "profiles" /\ todo = {} /\ copying = NoFile
    /\ Goto("ok")
    /\ UNCHANGED <<dirs, file, todo, copying>>

-----------------------------------------------------------------------------
(* The rest of Daemon::Startup: Config::Load and LoadProfile.              *)

\* GetProfileFilePath returns a path.
ProfileFound(p) == mConfigDir = "user" => file[p] \notin {"missing", "other"}

\* The shipped configuration names the default profile; a user's any profile.
\* One that a copy left cut off, empty most likely, may have no [Daemon] section.
LoadConfig ==
    LET intact == mConfigDir = "user" /\ file[Config] = "shipped"
    IN  /\ pc = "ok"
        /\ \/ /\ \E p \in Profiles : ProfileFound(p) /\ (intact => p = Default)
              /\ Goto("running")
           \/ /\ ~(intact /\ file[Default] = "shipped")
              /\ Goto("failed")
        /\ UNCHANGED <<dirs, file, todo, copying>>

Stop ==
    /\ pc = "running"
    /\ Goto("stopped")
    /\ UNCHANGED <<dirs, file, todo, copying>>

-----------------------------------------------------------------------------
(* The user, who leaves the files alone while the daemon starts, the        *)
(* package, and what kills a process or fails a copy half way.              *)

Change ==
    /\ changes < MaxChanges
    /\ changes' = changes + 1
    /\ UNCHANGED <<home, configHome, system, mDataDir, mConfigDir, todo, dst, copying>>

Outside == pc \in Ended \cup {"running"}

DirOf(f) == IF f = Config THEN dirs.config ELSE dirs.profiles

UserChanges(f, k) ==
    /\ Outside /\ DirOf(f) = "dir" /\ file[f] # k
    /\ Change
    /\ file' = [file EXCEPT ![f] = k]
    /\ UNCHANGED <<data, dirs, pc>>

\* The profile directory goes, or the configuration directory with it; a file
\* may take its place.
UserRemoves(d, k) ==
    /\ Outside /\ dirs[d] = "dir"
    /\ Change
    /\ dirs' = [e \in UserDirs |->
                   IF e = d THEN k ELSE IF d = "config" THEN "missing" ELSE dirs[e]]
    /\ file' = [f \in Files |->
                   IF f = Config /\ d = "profiles" THEN file[f] ELSE "missing"]
    /\ UNCHANGED <<data, pc>>

Upgrade(p) ==
    /\ Outside /\ p \notin data["installed"]
    /\ Change
    /\ data' = [data EXCEPT !["installed"] = @ \cup {Config, Default, p}]
    /\ UNCHANGED <<dirs, file, pc>>

Killed ==
    /\ InInit
    /\ Change
    /\ pc' = "killed"
    /\ UNCHANGED <<data, dirs, file>>

-----------------------------------------------------------------------------
InitStep ==
    \/ FindUserDirs \/ FindSystemDirs \/ CreateUserConfigDir \/ CheckConfigDir
    \/ CopyUserConfigFile \/ CheckConfigFile \/ EnterProfileDir
    \/ \E p \in Profiles : CopyUserProfileFile(p)
    \/ EndCopy \/ InitReturns

Next ==
    \/ Start \/ InitStep \/ LoadConfig \/ Stop \/ Killed
    \/ \E f \in Files, k \in {"missing", "edited", "other"} : UserChanges(f, k)
    \/ \E d \in UserDirs, k \in {"missing", "file"} : UserRemoves(d, k)
    \/ \E p \in Profiles : Upgrade(p)

Spec == Init /\ [][Next]_vars

\* A process runs, and the service is started again when it has ended.
FairSpec == Spec /\ WF_vars(Start) /\ WF_vars(InitStep) /\ WF_vars(LoadConfig)

-----------------------------------------------------------------------------
(* Properties.                                                             *)

\* The variables hold what the code can put there.
TypeOK ==
    /\ home \in BOOLEAN /\ configHome \in BOOLEAN /\ system \in BOOLEAN
    /\ data \in [DataDirs -> SUBSET Files]
    /\ dirs \in [UserDirs -> {"missing", "dir", "file"}]
    /\ file \in [Files -> {"missing", "partial", "shipped", "edited", "other"}]
    /\ pc \in Ended \cup InitSteps \cup {"ok", "running"}
    /\ mDataDir \in DataDirs \cup {""}
    /\ mConfigDir \in {"", "user", "system"}
    /\ todo \subseteq Profiles
    /\ dst \in Profiles \cup {NoFile}
    /\ copying \in Files \cup {NoFile}
    /\ changes \in 0 .. MaxChanges

\* "Does not replace old / modified files" (Init, filemgr.cpp:393): no step of
\* a start, after whatever history of edits, upgrades and broken starts, changes
\* a file that was there before that start came to it.
UserFilesKept ==
    [][InInit => \A f \in Files \ {copying} : file[f] # "missing" => file'[f] = file[f]]_vars

\* When Init has returned Err::OK for a user, the configuration is a file and
\* GetProfileFilePath finds every profile of the package, except where the
\* user has put something else under its name.
ReadyMeansComplete ==
    pc = "ok" /\ mConfigDir = "user" =>
        /\ dirs.config = "dir" /\ dirs.profiles = "dir"
        /\ file[Config] \notin {"missing", "other"}
        /\ \A p \in data[mDataDir] \cap Profiles : ProfileFound(p) \/ file[p] = "other"

\* The inductive invariant behind ReadyMeansComplete: what Init has made or
\* found by the time it is at a step, and the profiles listed so far.
Inv ==
    /\ TypeOK
    /\ pc \in InitSteps \ {"find"} => mDataDir \in DataDirs
    /\ pc \in {"configfile", "profiledir", "profiles"} => dirs.config = "dir"
    /\ pc \in {"profiledir", "profiles"} => file[Config] \notin {"missing", "other"}
    /\ pc = "profiles" =>
          /\ dirs.profiles = "dir"
          /\ \A p \in (data[mDataDir] \cap Profiles) \ todo : file[p] # "missing"
    /\ ReadyMeansComplete

\* What Init asks of the disk: there is a ~/.config, and nothing is in the way of
\* what it creates.
CanStart ==
    /\ home /\ configHome /\ FoundDataDir # ""
    /\ dirs.config # "file" /\ dirs.profiles # "file"
    /\ file[Config] # "other"

\* The configuration and the profile it names are the package's, or to be copied.
FilesAsShipped == {file[Config], file[Default]} \subseteq {"missing", "shipped"}

\* Starts that are killed between two copies or in the copy of another profile,
\* or that end in the exception on a file that was there, do not keep the daemon
\* from running for ever: later starts come to the end, as each copies a file at
\* least before it throws, and the profile loads.  Not so a start killed while
\* it copies config.ini or the default profile: what is left of the file is
\* never copied again, and Config::Load (config.cpp:58) or the load of the
\* profile may fail ever after.  Nor does a daemon without ~/.config get over
\* that, whatever users_manual.html:600 says of a directory that is missing.
StartsConverge == []<>(CanStart /\ FilesAsShipped => pc = "running")

\* "Missing default / standard profiles are copied to user profile directory
\* on startup" (CHANGELOG.md:78): a start that nothing is in the way of does
\* not end in an exception.
StartCopiesMissing == pc = "threw" => ~CanStart
=============================================================================
