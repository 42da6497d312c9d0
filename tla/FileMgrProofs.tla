----------------------------- MODULE FileMgrProofs -----------------------------
(***************************************************************************)
(* Theorems about FileMgr for every set of profiles, with the proofs that  *)
(* TLAPS checks.  No step of a start touches a file that is there, and a   *)
(* start that returns without error leaves nothing missing.                *)
(***************************************************************************)
EXTENDS FileMgr, TLAPS

USE DEF DataDirs, UserDirs, Files, Ended, InitSteps, InInit, disk, fixed, Goto, BeginCopy,
        ProfileFound, Outside, Change, CreateUserProfileDir, HasUserHome, HasSystemConfig

\* The bound on changes is kept.
LEMMA Counted == ASSUME changes \in 0 .. MaxChanges, Change PROVE changes' \in 0 .. MaxChanges
BY MaxChangesAssumption

\* The first state has nothing to show yet.
LEMMA InitInv == ASSUME Init PROVE Inv
<1>1. data \in [DataDirs -> SUBSET Files]
  BY FilesAssumption DEF Init
<1>2. dirs \in [UserDirs -> {"missing", "dir", "file"}]
  BY DEF Init
<1>3. file \in [Files -> {"missing", "partial", "shipped", "edited", "other"}]
  BY DEF Init
<1>4. changes \in 0 .. MaxChanges
  <2>1. changes = 0
    BY DEF Init
  <2> QED
    BY <2>1, MaxChangesAssumption
<1>5. TypeOK
  BY <1>1, <1>2, <1>3, <1>4 DEF Init, TypeOK
<1> QED
  BY <1>5 DEF Init, Inv, ReadyMeansComplete

\* Every step of a start keeps the types.
LEMMA InitStepType == ASSUME TypeOK, InitStep PROVE TypeOK'
<1>1. CASE FindUserDirs \/ FindSystemDirs
  BY <1>1, FilesAssumption DEF FindUserDirs, FindSystemDirs, TypeOK, FoundDataDir
<1>2. CASE CreateUserConfigDir
  BY <1>2, FilesAssumption DEF CreateUserConfigDir, TypeOK
<1>3. CASE CheckConfigDir
  BY <1>3, FilesAssumption DEF CheckConfigDir, TypeOK
<1>4. CASE CopyUserConfigFile
  BY <1>4, FilesAssumption DEF CopyUserConfigFile, TypeOK
<1>5. CASE CheckConfigFile
  BY <1>5, FilesAssumption DEF CheckConfigFile, TypeOK
<1>6. CASE EnterProfileDir
  BY <1>6, FilesAssumption DEF EnterProfileDir, TypeOK
<1>7. ASSUME NEW p \in Profiles, CopyUserProfileFile(p) PROVE TypeOK'
  BY <1>7, FilesAssumption DEF CopyUserProfileFile, TypeOK
<1>8. CASE EndCopy
  BY <1>8, FilesAssumption DEF EndCopy, TypeOK
<1>9. CASE InitReturns
  BY <1>9, FilesAssumption DEF InitReturns, TypeOK
<1> QED
  BY <1>1, <1>2, <1>3, <1>4, <1>5, <1>6, <1>7, <1>8, <1>9 DEF InitStep

\* So does every other step.
LEMMA OtherStepType == ASSUME TypeOK, [Next]_vars, ~InitStep PROVE TypeOK'
<1> USE FilesAssumption
<1>1. CASE Start
  BY <1>1 DEF Start, TypeOK
<1>2. CASE LoadConfig
  BY <1>2 DEF LoadConfig, TypeOK
<1>3. CASE Stop
  BY <1>3 DEF Stop, TypeOK
<1>4. CASE Killed
  <2>1. changes' \in 0 .. MaxChanges
    BY <1>4, Counted DEF Killed, TypeOK
  <2> QED
    BY <1>4, <2>1 DEF Killed, TypeOK
<1>5. ASSUME NEW f \in Files, NEW k \in {"missing", "edited", "other"}, UserChanges(f, k)
      PROVE  TypeOK'
  <2>1. changes' \in 0 .. MaxChanges
    BY <1>5, Counted DEF UserChanges, TypeOK
  <2>2. file' \in [Files -> {"missing", "partial", "shipped", "edited", "other"}]
    BY <1>5 DEF UserChanges, TypeOK
  <2> QED
    BY <1>5, <2>1, <2>2 DEF UserChanges, TypeOK
<1>6. ASSUME NEW d \in UserDirs, NEW k \in {"missing", "file"}, UserRemoves(d, k)
      PROVE  TypeOK'
  <2>1. changes' \in 0 .. MaxChanges
    BY <1>6, Counted DEF UserRemoves, TypeOK
  <2>2. file' \in [Files -> {"missing", "partial", "shipped", "edited", "other"}]
    BY <1>6 DEF UserRemoves, TypeOK
  <2>3. dirs' \in [UserDirs -> {"missing", "dir", "file"}]
    BY <1>6 DEF UserRemoves, TypeOK
  <2> QED
    BY <1>6, <2>1, <2>2, <2>3 DEF UserRemoves, TypeOK
<1>7. ASSUME NEW p \in Profiles, Upgrade(p) PROVE TypeOK'
  <2>1. data' \in [DataDirs -> SUBSET Files]
    BY <1>7 DEF Upgrade, TypeOK
  <2>2. changes' \in 0 .. MaxChanges
    BY <1>7, Counted DEF Upgrade, TypeOK
  <2> QED
    BY <1>7, <2>1, <2>2 DEF Upgrade, TypeOK
<1>8. CASE UNCHANGED vars
  BY <1>8, ZenonT(60) DEF vars, TypeOK
<1> QED
  BY <1>1, <1>2, <1>3, <1>4, <1>5, <1>6, <1>7, <1>8 DEF Next

\* A start goes on with what it has made or found, and comes to its end only
\* when every profile has been listed.
LEMMA InitStepInv == ASSUME Inv, InitStep PROVE Inv'
<1>0. TypeOK /\ TypeOK'
  BY InitStepType DEF Inv
<1>1. CASE FindUserDirs \/ FindSystemDirs
  BY <1>0, <1>1 DEF FindUserDirs, FindSystemDirs, FoundDataDir, Inv, ReadyMeansComplete
<1>2. CASE CreateUserConfigDir
  BY <1>0, <1>2 DEF CreateUserConfigDir, Inv, TypeOK, ReadyMeansComplete
<1>3. CASE CheckConfigDir
  BY <1>0, <1>3 DEF CheckConfigDir, Inv, ReadyMeansComplete
<1>4. CASE CopyUserConfigFile
  BY <1>0, <1>4 DEF CopyUserConfigFile, Inv, ReadyMeansComplete
<1>5. CASE CheckConfigFile
  BY <1>0, <1>5 DEF CheckConfigFile, Inv, ReadyMeansComplete
<1>6. CASE EnterProfileDir
  BY <1>0, <1>6 DEF EnterProfileDir, Inv, TypeOK, ReadyMeansComplete
<1>7. ASSUME NEW p \in Profiles, CopyUserProfileFile(p) PROVE Inv'
  BY <1>0, <1>7, FilesAssumption DEF CopyUserProfileFile, ExistsInDst, Inv, TypeOK, ReadyMeansComplete
<1>8. CASE EndCopy
  BY <1>0, <1>8 DEF EndCopy, Inv, TypeOK, ReadyMeansComplete
<1>9. CASE InitReturns
  BY <1>0, <1>9 DEF InitReturns, Inv, ReadyMeansComplete
<1> QED
  BY <1>1, <1>2, <1>3, <1>4, <1>5, <1>6, <1>7, <1>8, <1>9 DEF InitStep

\* Outside of a start there is nothing to keep but the types.
LEMMA OtherStepInv == ASSUME Inv, [Next]_vars, ~InitStep PROVE Inv'
<1>0. TypeOK /\ TypeOK'
  BY OtherStepType DEF Inv
<1>1. CASE UNCHANGED vars
  BY <1>0, <1>1 DEF vars, Inv, ReadyMeansComplete
<1>2. CASE ~UNCHANGED vars
  <2>1. pc' \notin (InitSteps \ {"find"}) \cup {"ok"}
    BY <1>2 DEF Next, Start, LoadConfig, Stop, Killed, UserChanges, UserRemoves, Upgrade
  <2> QED
    BY <1>0, <2>1 DEF Inv, ReadyMeansComplete
<1> QED
  BY <1>1, <1>2

\* Inv holds in every state.
THEOREM InductiveInvariant == Spec => []Inv
<1>1. Inv /\ [Next]_vars => Inv'
  BY InitStepInv, OtherStepInv
<1> QED
  BY InitInv, <1>1, PTL DEF Spec

\* Whatever the user, the package and broken starts do to the disk, the
\* process and the disk keep to the states the program knows.
THEOREM TypeCorrect == Spec => []TypeOK
<1>1. Inv => TypeOK
  BY DEF Inv
<1> QED
  BY InductiveInvariant, <1>1, PTL

\* When Init returns without error, the configuration and every profile of the
\* package are in the user's directories, however many there are and whatever
\* earlier starts left behind.
THEOREM ReadyComplete == Spec => []ReadyMeansComplete
<1>1. Inv => ReadyMeansComplete
  BY DEF Inv
<1> QED
  BY InductiveInvariant, <1>1, PTL

\* No step of a start changes a file that was there before.
THEOREM FilesKept == Spec => UserFilesKept
<1> DEFINE Kept == InInit => \A f \in Files \ {copying} : file[f] # "missing" => file'[f] = file[f]
<1>1. ASSUME TypeOK, [Next]_vars PROVE [Kept]_vars
  <2> SUFFICES ASSUME InInit, NEW f \in Files \ {copying}, file[f] # "missing"
               PROVE  file'[f] = file[f]
    OBVIOUS
  <2>1. CASE UNCHANGED vars
    BY <2>1 DEF vars
  <2>2. CASE InitStep
    <3>1. CASE CopyUserConfigFile
      BY <1>1, <3>1 DEF CopyUserConfigFile, TypeOK
    <3>2. ASSUME NEW p \in Profiles, CopyUserProfileFile(p) PROVE file'[f] = file[f]
      BY <1>1, <3>2 DEF CopyUserProfileFile, TypeOK
    <3>3. CASE EndCopy
      BY <1>1, <3>3 DEF EndCopy, TypeOK
    <3>4. CASE FindUserDirs \/ FindSystemDirs \/ CreateUserConfigDir \/ CheckConfigDir 
                 \/ CheckConfigFile \/ EnterProfileDir \/ InitReturns
      BY <3>4 DEF FindUserDirs, FindSystemDirs, CreateUserConfigDir, CheckConfigDir, CheckConfigFile,
                  EnterProfileDir, InitReturns
    <3> QED
      BY <2>2, <3>1, <3>2, <3>3, <3>4 DEF InitStep
  <2>3. CASE Killed
    BY <2>3 DEF Killed
  <2> QED
    BY <1>1, <2>1, <2>2, <2>3
       DEF Next, Start, LoadConfig, Stop, UserChanges, UserRemoves, Upgrade
<1>2. Inv => TypeOK
  BY DEF Inv
<1> QED
  BY InductiveInvariant, <1>1, <1>2, PTL DEF Spec, UserFilesKept
=============================================================================
