--------------------------- MODULE EmasStateProofs ---------------------------
(* Theorems about EmasState, for any number of shells and of families. *)
EXTENDS EmasState, TLAPS

\* Zenon proves a leaf that names no other prover.
USE Zenon

\* mkdir -p stays inside the paths EMAS uses.
LEMMA MkdirPaths ==
  /\ \A dir \in BaseDirs : MkdirP(dir) \subseteq Paths
  /\ \A f \in Families : MkdirP(FamilyDir(f)) \subseteq Paths
  /\ \A f \in Families : MkdirP(InstanceDir(f)) \subseteq Paths
  /\ \A f \in Families : DiskImage(f) \in Paths
<1>1. \A dir \in BaseDirs : MkdirP(dir) \subseteq Paths
  BY SMT DEF MkdirP, BaseDirs, Work, DiskImages, Output, Paths
<1>2. \A f \in Families : MkdirP(FamilyDir(f)) \subseteq Paths
  BY SMT DEF MkdirP, BaseDirs, Work, DiskImages, Output, Paths, FamilyDir
<1>3. \A f \in Families : MkdirP(InstanceDir(f)) \subseteq Paths
  BY SMT DEF MkdirP, BaseDirs, Work, DiskImages, Output, Paths, FamilyDir, InstanceDir
<1>4. \A f \in Families : DiskImage(f) \in Paths
  BY DEF Paths
<1> QED BY <1>1, <1>2, <1>3, <1>4

\* The stages of update_state calls, and those among them that end a build.
BuildUpdates == {"done", "family", "binary"}
Updates == BuildUpdates \cup {"configure", "unconfigure"}

\* What sed writes is a state file, and one with variables when it has read one.
LEMMA AssignType ==
  ASSUME NEW content \in StateFiles, NEW what \in Updates, NEW f \in Families \cup {NoFamily},
         what \in BuildUpdates => f \in Families
  PROVE  /\ Assign(content, what, f) \in StateFiles
         /\ content \in Contents => Assign(content, what, f) \in Contents
<1>1. CASE content \notin Contents
  BY <1>1 DEF Assign
<1>2. CASE content \in Contents
  BY <1>2 DEF Assign, StateFiles, Contents, Binaries, Updates, BuildUpdates
<1> QED BY <1>1, <1>2

-----------------------------------------------------------------------------
\* Type correctness

\* Before its command touches the state a shell performs no update; one that resets the state
\* does so to create or to configure it; in update_state it performs an update; where it uses
\* its target family, and while it records a build, it has resolved one.
Control ==
  \A p \in Procs :
    /\ pc[p] \in CommandLabels \cup {"idle", "check_config", "source", "verify", "compare",
                                     "check_dirs", "offer", "config"} => stage[p] = "none"
    /\ pc[p] \in {"truncate", "write"} => stage[p] \in {"create", "configure"}
    /\ pc[p] \in {"work_dirs", "build_scripts"} => stage[p] = "configure"
    /\ pc[p] \in {"update", "sed", "rename"} => stage[p] \in Updates
    /\ pc[p] \in {"build_dir", "scons", "run_dir", "run_script", "run_disk"}
         => target[p] \in Families
    /\ stage[p] \in BuildUpdates => target[p] \in Families

TypeInv == TypeOK /\ Control

\* The shells start idle, and every value is of its type.
LEMMA InitType == Init => TypeInv
BY SMT DEF Init, TypeInv, TypeOK, Control, StateFiles, Labels, Commands, Stages, Updates,
       BuildUpdates

\* A shell that exits leaves its variables in their types.
LEMMA ExitType ==
  ASSUME TypeInv, NEW p \in Procs, Exit(p)
  PROVE  /\ pc' \in [Procs -> Labels] /\ cmd' \in [Procs -> Commands]
         /\ target' \in [Procs -> Families \cup {NoFamily}] /\ stage' \in [Procs -> Stages]
         /\ env' \in [Procs -> StateFiles] /\ seen' \in [Procs -> StateFiles]
         /\ Control'
BY SMT DEF Exit, TypeInv, TypeOK, Control, StateFiles, Labels, Commands, Stages, Updates,
       BuildUpdates

\* One line of a command keeps the types.
LEMMA StepType ==
  ASSUME TypeInv, NEW p \in Procs, Step(p)
  PROVE  TypeInv'
<1> USE DEF TypeInv, TypeOK, Control, Goto, files, locals, Labels, CommandLabels, Stages,
           Updates, BuildUpdates
<1>1. CASE CheckStateFile(p)
  BY <1>1, SMT DEF CheckStateFile
<1>2. CASE Source(p)
  BY <1>2, ExitType, SMT DEF Source, StateFiles
<1>3. CASE VerifyHash(p)
  BY <1>3, ZenonT(30) DEF VerifyHash
<1>4. CASE VerifyCompare(p)
  BY <1>4, ZenonT(30) DEF VerifyCompare, Forget, StateFiles
<1>5. CASE CheckDirs(p)
  BY <1>5, ZenonT(30) DEF CheckDirs
<1>6. CASE Offer(p)
  BY <1>6, ExitType, SMT DEF Offer
<1>7. CASE Config(p)
  BY <1>7, ExitType, SMT DEF Config
<1>8. CASE Truncate(p)
  BY <1>8, ZenonT(30) DEF Truncate, StateFiles
<1>9. CASE Write(p)
  BY <1>9, SMT DEF Write, StateFiles, Default, Contents
<1>10. CASE MakeWorkDirs(p)
  BY <1>10, MkdirPaths, ExitType, SMT DEF MakeWorkDirs, FirstMissingDir, BaseDirs
<1>11. CASE MakeBuildScripts(p)
  BY <1>11, ExitType, SMT DEF MakeBuildScripts, CopyDefaultScript
<1>12. CASE UpdateGrep(p)
  BY <1>12, ExitType, SMT DEF UpdateGrep
<1>13. CASE SedRead(p)
  BY <1>13, ZenonT(30) DEF SedRead
<1>14. CASE SedRename(p)
  <2>1. /\ Assign(seen[p], stage[p], target[p]) \in StateFiles
        /\ Assign(env[p], stage[p], target[p]) \in StateFiles
    BY <1>14, AssignType DEF SedRename
  <2> QED BY <1>14, <2>1, ZenonT(30) DEF SedRename, Forget, StateFiles
<1>15. CASE LockTruncate(p)
  BY <1>15 DEF LockTruncate
<1>16. CASE LockHash(p)
  BY <1>16, ZenonT(30) DEF LockHash
<1>17. CASE LockWrite(p)
  BY <1>17, ExitType, SMT DEF LockWrite, Forget, StateFiles, Hashes
<1>18. CASE CommandUnconfig(p)
  BY <1>18, SMT DEF CommandUnconfig
<1>19. CASE CommandConfig(p)
  BY <1>19, ZenonT(30) DEF CommandConfig
<1>20. CASE CommandOther(p)
  BY <1>20, ExitType DEF CommandOther
<1>21. CASE CommandBuild(p)
  BY <1>21, ExitType, SMTT(30) DEF CommandBuild
<1>22. CASE BuildDir(p)
  BY <1>22, MkdirPaths, ExitType, SMT DEF BuildDir, WithDir
<1>23. CASE Scons(p)
  BY <1>23, ExitType, SMT DEF Scons
<1>24. CASE CommandRun(p)
  BY <1>24, ExitType, SMT DEF CommandRun, RunTarget
<1>25. CASE RunDir(p)
  BY <1>25, MkdirPaths, ExitType, SMT DEF RunDir, WithDir
<1>26. CASE RunScript(p)
  BY <1>26, ExitType, SMT DEF RunScript
<1>27. CASE RunDisk(p)
  BY <1>27, MkdirPaths, ExitType, SMTT(30) DEF RunDisk
<1> QED
  BY ZenonT(30), <1>1, <1>2, <1>3, <1>4, <1>5, <1>6, <1>7, <1>8, <1>9, <1>10, <1>11, <1>12,
     <1>13, <1>14, <1>15, <1>16, <1>17, <1>18, <1>19, <1>20, <1>21, <1>22, <1>23, <1>24,
     <1>25, <1>26, <1>27
  DEF Step

\* So does every step, a kill or an edit by hand included.
LEMMA NextType ==
  ASSUME TypeInv, [Next]_vars
  PROVE  TypeInv'
<1> USE DEF TypeInv, TypeOK, Control, Goto, files, locals, Labels, CommandLabels, Stages,
           Updates, BuildUpdates
<1>1. ASSUME NEW p \in Procs, NEW c \in Commands, NEW f \in Families \cup {NoFamily},
             Invoke(p, c, f)
      PROVE  TypeInv'
  BY <1>1, SMT DEF Invoke
<1>2. ASSUME NEW p \in Procs, Step(p) PROVE TypeInv'
  BY <1>2, StepType
<1>3. ASSUME NEW p \in Procs, Crash(p) PROVE TypeInv'
  BY <1>3, ExitType DEF Crash
<1>4. CASE Environment
  <2>1. ASSUME NEW content \in Contents \cup {Missing}, UserEditsState(content)
        PROVE  TypeInv'
    BY <2>1 DEF UserEditsState, StateFiles
  <2>2. ASSUME NEW path \in Paths, UserRemoves(path) PROVE TypeInv'
    BY <2>2 DEF UserRemoves
  <2>3. ASSUME NEW f \in Families, UserScripts(f) PROVE TypeInv'
    BY <2>3 DEF UserScripts
  <2> QED BY <1>4, <2>1, <2>2, <2>3 DEF Environment
<1>5. CASE UNCHANGED vars
  BY <1>5 DEF vars
<1> QED BY <1>1, <1>2, <1>3, <1>4, <1>5 DEF Next

\* Every variable keeps its type.
THEOREM TypeCorrect == Spec => []TypeOK
<1>1. Spec => []TypeInv
  BY InitType, NextType, PTL DEF Spec
<1>2. TypeInv => TypeOK
  BY DEF TypeInv
<1> QED BY <1>1, <1>2, PTL

-----------------------------------------------------------------------------
\* Builds

\* Truncated and fresh state files record no build.
LEMMA GenuineConstants ==
  \A built : Genuine(Empty, built) /\ Genuine(Missing, built) /\ Genuine(Default, built)
BY ConstantsDiffer DEF Genuine, Default

\* An update keeps a record genuine if the family it records has been compiled.
LEMMA GenuineAssign ==
  ASSUME NEW content \in StateFiles, NEW what \in Updates, NEW f \in Families \cup {NoFamily},
         NEW built \in SUBSET Families, Genuine(content, built),
         what \in BuildUpdates => f \in built
  PROVE  Genuine(Assign(content, what, f), built)
<1>1. CASE content \notin Contents
  BY <1>1 DEF Assign
<1>2. CASE content \in Contents
  <2>1. Assign(content, what, f) \in Contents
    BY <1>2, AssignType
  <2> QED BY <1>2, <2>1 DEF Assign, Genuine, Contents, Updates, BuildUpdates
<1> QED BY <1>1, <1>2

\* More builds keep a record genuine.
LEMMA GenuineMonotone ==
  ASSUME NEW content, NEW built, NEW more, built \subseteq more, Genuine(content, built)
  PROVE  Genuine(content, more)
BY DEF Genuine

\* What a shell has read is genuine too, and the family it records has been compiled.
BuildInv ==
  /\ NoPhantomBuild
  /\ \A p \in Procs : Genuine(seen[p], compiled)
  /\ \A p \in Procs : stage[p] \in BuildUpdates => target[p] \in compiled

\* A shell that exits forgets what it read, which records no build.
LEMMA ExitBuild ==
  ASSUME TypeInv, BuildInv, NEW p \in Procs, Exit(p), compiled' = compiled
  PROVE  /\ \A q \in Procs : Genuine(env[q], compiled)' /\ Genuine(seen[q], compiled)'
         /\ \A q \in Procs : stage'[q] \in BuildUpdates => target'[q] \in compiled'
BY GenuineConstants DEF Exit, TypeInv, TypeOK, BuildInv, NoPhantomBuild, BuildUpdates

\* One line of a command records no family that has not been compiled.
LEMMA StepBuild ==
  ASSUME TypeInv, BuildInv, NEW p \in Procs, Step(p)
  PROVE  BuildInv'
<1> USE GenuineConstants
    DEF TypeInv, TypeOK, Control, Goto, files, locals, Updates, BuildUpdates, CommandLabels,
        BuildInv, NoPhantomBuild
<1>1. CASE CheckStateFile(p)
  BY <1>1, ZenonT(30) DEF CheckStateFile
<1>2. CASE Source(p)
  BY <1>2, ExitBuild, ZenonT(30) DEF Source
<1>3. CASE VerifyHash(p)
  BY <1>3 DEF VerifyHash
<1>4. CASE VerifyCompare(p)
  BY <1>4 DEF VerifyCompare, Forget
<1>5. CASE CheckDirs(p)
  BY <1>5 DEF CheckDirs
<1>6. CASE Offer(p)
  BY <1>6, ExitBuild DEF Offer
<1>7. CASE Config(p)
  BY <1>7, ExitBuild, ZenonT(30) DEF Config
<1>8. CASE Truncate(p)
  BY <1>8 DEF Truncate
<1>9. CASE Write(p)
  BY <1>9 DEF Write
<1>10. CASE MakeWorkDirs(p)
  BY <1>10, ExitBuild DEF MakeWorkDirs
<1>11. CASE MakeBuildScripts(p)
  BY <1>11, ExitBuild DEF MakeBuildScripts
<1>12. CASE UpdateGrep(p)
  BY <1>12, ExitBuild DEF UpdateGrep
<1>13. CASE SedRead(p)
  BY <1>13 DEF SedRead
<1>14. CASE SedRename(p)
  <2>1. /\ Genuine(Assign(seen[p], stage[p], target[p]), compiled)
        /\ Genuine(Assign(env[p], stage[p], target[p]), compiled)
    BY <1>14, GenuineAssign, SMTT(30) DEF SedRename
  <2> QED BY <1>14, <2>1 DEF SedRename, Forget
<1>15. CASE LockTruncate(p)
  BY <1>15 DEF LockTruncate
<1>16. CASE LockHash(p)
  BY <1>16 DEF LockHash
<1>17. CASE LockWrite(p)
  BY <1>17, ExitBuild, SMT DEF LockWrite, Forget
<1>18. CASE CommandUnconfig(p)
  BY <1>18 DEF CommandUnconfig
<1>19. CASE CommandConfig(p)
  BY <1>19 DEF CommandConfig
<1>20. CASE CommandOther(p)
  BY <1>20, ExitBuild DEF CommandOther
<1>21. CASE CommandBuild(p)
  BY <1>21, ExitBuild DEF CommandBuild
<1>22. CASE BuildDir(p)
  BY <1>22, ExitBuild DEF BuildDir, WithDir
<1>23. CASE Scons(p)
  BY <1>23, ExitBuild, GenuineMonotone, SMT DEF Scons
<1>24. CASE CommandRun(p)
  BY <1>24, ExitBuild DEF CommandRun, RunTarget
<1>25. CASE RunDir(p)
  BY <1>25, ExitBuild DEF RunDir, WithDir
<1>26. CASE RunScript(p)
  BY <1>26, ExitBuild DEF RunScript
<1>27. CASE RunDisk(p)
  BY <1>27, ExitBuild DEF RunDisk
<1> QED
  BY ZenonT(30), <1>1, <1>2, <1>3, <1>4, <1>5, <1>6, <1>7, <1>8, <1>9, <1>10, <1>11, <1>12,
     <1>13, <1>14, <1>15, <1>16, <1>17, <1>18, <1>19, <1>20, <1>21, <1>22, <1>23, <1>24,
     <1>25, <1>26, <1>27
  DEF Step

\* Nor does any step, as long as nobody edits the state file by hand.
LEMMA NextBuild ==
  ASSUME ~ Edits, TypeInv, BuildInv, [Next]_vars
  PROVE  BuildInv'
<1> USE DEF TypeInv, TypeOK, Control, Goto, files, locals, BuildUpdates, BuildInv,
            NoPhantomBuild
<1>1. ASSUME NEW p \in Procs, NEW c \in Commands, NEW f \in Families \cup {NoFamily},
             Invoke(p, c, f)
      PROVE  BuildInv'
  BY <1>1 DEF Invoke
<1>2. ASSUME NEW p \in Procs, Step(p) PROVE BuildInv'
  BY <1>2, StepBuild
<1>3. ASSUME NEW p \in Procs, Crash(p) PROVE BuildInv'
  BY <1>3, ExitBuild DEF Crash
<1>4. ~ Environment
  BY DEF Environment, UserEditsState, UserRemoves, UserScripts
<1>5. CASE UNCHANGED vars
  BY <1>5 DEF vars
<1> QED BY <1>1, <1>2, <1>3, <1>4, <1>5 DEF Next

\* While nobody edits the state file by hand, it never records a build that scons has not
\* finished: for any number of overlapping invocations, killed at any point.
THEOREM BuildsAreGenuine ==
  ASSUME ~ Edits
  PROVE  Spec => []NoPhantomBuild
<1>1. Init => BuildInv
  BY GenuineConstants, SMT DEF Init, BuildInv, NoPhantomBuild, BuildUpdates
<1>2. Spec => [](TypeInv /\ BuildInv)
  BY <1>1, InitType, NextType, NextBuild, PTL DEF Spec
<1>3. BuildInv => NoPhantomBuild
  BY DEF BuildInv
<1> QED BY <1>2, <1>3, PTL

-----------------------------------------------------------------------------
\* One invocation at a time

OneShell == \A p, q \in Procs : pc[p] # "idle" /\ pc[q] # "idle" => p = q

\* What the only running shell knows of the files, by where it is: each check adds to it,
\* and no one else can undo it.
Knows(p) ==
  /\ pc[p] \in {"verify", "compare", "check_dirs"} \cup CommandLabels
       => Configured /\ env[p] = state
  /\ pc[p] \in {"compare", "rename"} => seen[p] = state
  /\ pc[p] \in {"check_dirs"} \cup CommandLabels => Locked
  /\ pc[p] \in CommandLabels
       => BaseDirs \subseteq work /\ \A f \in Families : "build" \in scripts[f]

GateInv == OneShell /\ \A p \in Procs : Knows(p)

\* The gate holds before the first command.
LEMMA InitGate == Init => GateInv
BY SMTT(30) DEF Init, GateInv, OneShell, Knows, CommandLabels

\* A shell that takes a step is running, moves no other shell, and at sed's rename has no
\* other step.
LEMMA StepMoves ==
  ASSUME pc \in [Procs -> Labels], NEW p \in Procs, Step(p)
  PROVE  /\ pc[p] # "idle"
         /\ \A q \in Procs : q # p => pc'[q] = pc[q]
         /\ pc[p] = "rename" => SedRename(p)
BY DEF Step, Goto, Exit, CheckStateFile, Source, VerifyHash, VerifyCompare, CheckDirs, Offer,
       Config, Truncate, Write, MakeWorkDirs, MakeBuildScripts, UpdateGrep, SedRead,
       SedRename, LockTruncate, LockHash, LockWrite, CommandUnconfig, CommandConfig,
       CommandOther, CommandBuild, BuildDir, WithDir, Scons, CommandRun, RunDir, RunScript,
       RunDisk

\* So the others stay idle, and only the shell that steps needs a look.
LEMMA StepAlone ==
  ASSUME TypeInv, OneShell, NEW p \in Procs, Step(p)
  PROVE  OneShell' /\ \A q \in Procs : q # p => pc'[q] = "idle"
BY StepMoves DEF TypeInv, TypeOK, OneShell

\* A shell that exits is idle and has no update under way.
LEMMA ExitIdle ==
  ASSUME TypeInv, NEW p \in Procs, Exit(p)
  PROVE  pc'[p] = "idle" /\ stage'[p] = "none"
BY DEF TypeInv, TypeOK, Exit

\* After each of its lines a shell knows what GateInv says of the line it has reached.
LEMMA StepKnows ==
  ASSUME TypeInv, GateInv, NEW p \in Procs, Step(p)
  PROVE  Knows(p)'
<1> USE DEF TypeInv, TypeOK, Goto, files, locals, CommandLabels, Knows, Configured, Locked
<1>0. Knows(p)
  BY DEF GateInv
<1>1. CASE CheckStateFile(p)
  BY <1>0, <1>1, ZenonT(30) DEF CheckStateFile
<1>2. CASE Source(p)
  BY <1>0, <1>2, ExitIdle, SMT DEF Source
<1>3. CASE VerifyHash(p)
  BY <1>0, <1>3 DEF VerifyHash
<1>4. CASE VerifyCompare(p)
  BY <1>0, <1>4 DEF VerifyCompare, Forget
<1>5. CASE CheckDirs(p)
  BY <1>0, <1>5 DEF CheckDirs
<1>6. CASE Offer(p)
  BY <1>0, <1>6, ExitIdle DEF Offer
<1>7. CASE Config(p)
  BY <1>0, <1>7, ExitIdle, ZenonT(30) DEF Config
<1>8. CASE Truncate(p)
  BY <1>0, <1>8 DEF Truncate
<1>9. CASE Write(p)
  BY <1>0, <1>9 DEF Write
<1>10. CASE MakeWorkDirs(p)
  BY ZenonT(30), <1>0, <1>10, ExitIdle DEF MakeWorkDirs
<1>11. CASE MakeBuildScripts(p)
  BY <1>0, <1>11, ExitIdle, SMTT(30) DEF MakeBuildScripts
<1>12. CASE UpdateGrep(p)
  BY <1>0, <1>12, ExitIdle DEF UpdateGrep
<1>13. CASE SedRead(p)
  BY <1>0, <1>13 DEF SedRead
<1>14. CASE SedRename(p)
  BY <1>0, <1>14 DEF SedRename, Forget
<1>15. CASE LockTruncate(p)
  BY <1>0, <1>15 DEF LockTruncate
<1>16. CASE LockHash(p)
  BY <1>0, <1>16 DEF LockHash
<1>17. CASE LockWrite(p)
  BY <1>0, <1>17, ExitIdle, SMT DEF LockWrite, Forget
<1>18. CASE CommandUnconfig(p)
  BY <1>0, <1>18 DEF CommandUnconfig
<1>19. CASE CommandConfig(p)
  BY <1>0, <1>19 DEF CommandConfig
<1>20. CASE CommandOther(p)
  BY <1>0, <1>20, ExitIdle DEF CommandOther
<1>21. CASE CommandBuild(p)
  BY <1>0, <1>21, ExitIdle DEF CommandBuild
<1>22. CASE BuildDir(p)
  BY <1>0, <1>22, ExitIdle DEF BuildDir, WithDir
<1>23. CASE Scons(p)
  BY <1>0, <1>23, ExitIdle DEF Scons
<1>24. CASE CommandRun(p)
  BY <1>0, <1>24, ExitIdle DEF CommandRun, RunTarget
<1>25. CASE RunDir(p)
  BY <1>0, <1>25, ExitIdle DEF RunDir, WithDir
<1>26. CASE RunScript(p)
  BY <1>0, <1>26, ExitIdle DEF RunScript
<1>27. CASE RunDisk(p)
  BY <1>0, <1>27, ExitIdle DEF RunDisk
<1> QED
  BY ZenonT(30), <1>1, <1>2, <1>3, <1>4, <1>5, <1>6, <1>7, <1>8, <1>9, <1>10, <1>11, <1>12,
     <1>13, <1>14, <1>15, <1>16, <1>17, <1>18, <1>19, <1>20, <1>21, <1>22, <1>23, <1>24,
     <1>25, <1>26, <1>27
  DEF Step

\* One invocation at a time, every step keeps the gate.
LEMMA NextGate ==
  ASSUME Exclusive, TypeInv, GateInv, [Next]_vars
  PROVE  GateInv'
<1> USE DEF GateInv
<1>1. ASSUME NEW p \in Procs, NEW c \in Commands, NEW f \in Families \cup {NoFamily},
             Invoke(p, c, f)
      PROVE  GateInv'
  <2>1. pc' = [pc EXCEPT ![p] = "check_config"] /\ \A q \in Procs : pc[q] = "idle"
    BY <1>1 DEF Invoke, Goto, Quiescent
  <2> QED BY <2>1 DEF OneShell, Knows, CommandLabels, TypeInv, TypeOK
<1>2. ASSUME NEW p \in Procs, Step(p) PROVE GateInv'
  <2>1. OneShell' /\ \A q \in Procs : q # p => pc'[q] = "idle"
    BY <1>2, StepAlone
  <2>2. Knows(p)'
    BY <1>2, StepKnows
  <2>3. ASSUME NEW q \in Procs, q # p PROVE Knows(q)'
    BY <2>1, <2>3 DEF Knows, CommandLabels
  <2> QED BY <2>1, <2>2, <2>3
<1>3. ASSUME NEW p \in Procs, Crash(p) PROVE GateInv'
  <2>1. \A q \in Procs : pc'[q] = "idle"
    BY <1>3, ExitIdle DEF Crash, Exit, OneShell, TypeInv, TypeOK
  <2> QED BY <2>1 DEF OneShell, Knows, CommandLabels
<1>4. CASE Environment
  <2>1. \A q \in Procs : pc'[q] = "idle"
    BY <1>4 DEF Environment, UserEditsState, UserRemoves, UserScripts, Quiescent
  <2> QED BY <2>1 DEF OneShell, Knows, CommandLabels
<1>5. CASE UNCHANGED vars
  BY <1>5 DEF vars, OneShell, Knows, Configured, Locked
<1> QED BY <1>1, <1>2, <1>3, <1>4, <1>5 DEF Next

\* So the gate always holds.
LEMMA GateAlways ==
  ASSUME Exclusive
  PROVE  Spec => [](TypeInv /\ GateInv)
BY InitType, NextType, InitGate, NextGate, PTL DEF Spec

\* One invocation at a time, and whatever was killed or edited before, a command runs only
\* on a configured EMAS: check_config's checks still hold when the command acts on them.
THEOREM CommandsAreGated ==
  ASSUME Exclusive
  PROVE  Spec => []Gate
<1>1. GateInv => Gate
  BY DEF GateInv, Knows, Gate
<1> QED BY <1>1, GateAlways, PTL

\* One invocation at a time, update_state loses no other change to the state file.
THEOREM UpdatesAreNotLost ==
  ASSUME Exclusive
  PROVE  Spec => NoLostUpdate
<1>1. ASSUME TypeInv, GateInv, [Next]_vars
      PROVE  [\A p \in Procs : pc[p] = "rename" /\ pc'[p] = "lock" =>
                state' = Assign(state, stage[p], target[p])]_vars
  <2> SUFFICES ASSUME NEW p \in Procs, pc[p] = "rename", pc'[p] = "lock"
               PROVE  state' = Assign(state, stage[p], target[p])
    OBVIOUS
  <2> USE <1>1 DEF TypeInv, TypeOK, GateInv, OneShell
  <2>1. ASSUME NEW q \in Procs, Step(q) PROVE q = p
    BY <2>1, StepMoves
  <2>2. ~ Environment
    BY DEF Environment, UserEditsState, UserRemoves, UserScripts, Quiescent
  <2>3. ASSUME NEW q \in Procs, NEW c \in Commands, NEW f \in Families \cup {NoFamily}
        PROVE  ~ Invoke(q, c, f)
    BY DEF Invoke, Quiescent
  <2>4. ASSUME NEW q \in Procs PROVE ~ Crash(q)
    BY DEF Crash, Exit
  <2>5. Step(p)
    BY <2>1, <2>2, <2>3, <2>4 DEF Next, vars
  <2>6. SedRename(p)
    BY <2>5, StepMoves
  <2> QED BY <2>6 DEF SedRename, Knows
<1> QED BY <1>1, GateAlways, PTL DEF Spec, NoLostUpdate

-----------------------------------------------------------------------------
\* What the lock vouches for

LockGenuine == \A content \in StateFiles : lock = Hash(content) => Genuine(content, compiled)

\* What the only running shell writes: a finished build, and state files with a genuine
\* record, although a user may have edited the file before.
Writes(p) ==
  /\ stage[p] \in BuildUpdates => target[p] \in compiled
  /\ pc[p] = "write" => p \in open
  /\ pc[p] \in {"work_dirs", "build_scripts", "update", "sed", "rename", "lock", "hash",
                "lock_write"} => Genuine(state, compiled)
  /\ pc[p] \in {"rename", "lock_write"} => Genuine(seen[p], compiled)

TrustInv == LockGenuine /\ \A p \in Procs : Writes(p)

\* A shell whose step ends it writes nothing.
LEMMA ExitWrites ==
  ASSUME TypeInv, NEW p \in Procs, Exit(p)
  PROVE  Writes(p)'
BY ExitIdle DEF Writes, BuildUpdates

\* Steps that leave the lock alone, and only add builds, keep it genuine.
LEMMA LockFrame ==
  ASSUME LockGenuine, lock' = lock, compiled \subseteq compiled'
  PROVE  LockGenuine'
BY GenuineMonotone DEF LockGenuine

\* One line of a command hashes only a genuine state file into the lock.
LEMMA StepTrust ==
  ASSUME TypeInv, GateInv, TrustInv, NEW p \in Procs, Step(p)
  PROVE  LockGenuine' /\ Writes(p)'
<1> USE DEF TypeInv, TypeOK, Control, Goto, files, locals, Updates, BuildUpdates,
            CommandLabels
<1>0. LockGenuine /\ Writes(p)
  BY DEF TrustInv
<1>a. pc[p] \in CommandLabels => Genuine(state, compiled)
  BY <1>0 DEF GateInv, Knows, Locked, LockGenuine
<1>1. CASE CheckStateFile(p)
  BY <1>0, <1>1, LockFrame, SMTT(30) DEF CheckStateFile, Writes
<1>2. CASE Source(p)
  BY <1>0, <1>2, LockFrame, ExitWrites, ZenonT(30) DEF Source, Writes
<1>3. CASE VerifyHash(p)
  BY <1>0, <1>3, LockFrame DEF VerifyHash, Writes
<1>4. CASE VerifyCompare(p)
  BY <1>0, <1>4, LockFrame DEF VerifyCompare, Forget, Writes
<1>5. CASE CheckDirs(p)
  BY <1>0, <1>5, LockFrame DEF CheckDirs, Writes
<1>6. CASE Offer(p)
  BY <1>0, <1>6, LockFrame, ExitWrites, ZenonT(30) DEF Offer, Writes
<1>7. CASE Config(p)
  BY <1>0, <1>7, LockFrame, ExitWrites, SMTT(30) DEF Config, Writes
<1>8. CASE Truncate(p)
  BY <1>0, <1>8, LockFrame DEF Truncate, Writes
<1>9. CASE Write(p)
  BY <1>0, <1>9, LockFrame, GenuineConstants DEF Write, Writes
<1>10. CASE MakeWorkDirs(p)
  BY <1>0, <1>10, LockFrame, ExitWrites DEF MakeWorkDirs, Writes
<1>11. CASE MakeBuildScripts(p)
  BY <1>0, <1>11, LockFrame, ExitWrites DEF MakeBuildScripts, Writes
<1>12. CASE UpdateGrep(p)
  BY <1>0, <1>12, LockFrame, ExitWrites DEF UpdateGrep, Writes
<1>13. CASE SedRead(p)
  BY <1>0, <1>13, LockFrame DEF SedRead, Writes
<1>14. CASE SedRename(p)
  <2>1. Genuine(Assign(seen[p], stage[p], target[p]), compiled)
    BY <1>0, <1>14, GenuineAssign, SMTT(30) DEF SedRename, Writes
  <2> QED BY <1>0, <1>14, <2>1, LockFrame DEF SedRename, Forget, Writes
<1>15. CASE LockTruncate(p)
  <2>1. \A content \in StateFiles : Empty # Hash(content)
    BY ConstantsDiffer, SMTT(30) DEF Hashes
  <2> QED BY <1>0, <1>15, <2>1, ZenonT(30) DEF LockTruncate, LockGenuine, Writes
<1>16. CASE LockHash(p)
  BY <1>0, <1>16, LockFrame DEF LockHash, Writes
<1>17. CASE LockWrite(p)
  <2>1. \A content \in StateFiles : lock' = Hash(content) => Genuine(content, compiled)
    BY <1>0, <1>17 DEF LockWrite, Hash, Writes
  <2>2. LockGenuine'
    BY ZenonT(30), <1>17, <2>1 DEF LockWrite, LockGenuine
  <2>3. Writes(p)'
    BY <1>0, <1>17, ExitWrites, SMTT(30) DEF LockWrite, Forget, Writes
  <2> QED BY <2>2, <2>3
<1>18. CASE CommandUnconfig(p)
  BY <1>0, <1>18, <1>a, LockFrame DEF CommandUnconfig, Writes
<1>19. CASE CommandConfig(p)
  BY <1>0, <1>19, LockFrame DEF CommandConfig, Writes
<1>20. CASE CommandOther(p)
  BY <1>0, <1>20, LockFrame, ExitWrites, ZenonT(30) DEF CommandOther, Writes
<1>21. CASE CommandBuild(p)
  BY <1>0, <1>21, LockFrame, ExitWrites DEF CommandBuild, Writes
<1>22. CASE BuildDir(p)
  BY <1>0, <1>22, LockFrame, ExitWrites DEF BuildDir, WithDir, Writes
<1>23. CASE Scons(p)
  <2>1. compiled \subseteq compiled' /\ lock' = lock
    BY <1>23 DEF Scons
  <2>2. LockGenuine'
    BY <1>0, <2>1, LockFrame
  <2>3. Genuine(state, compiled)'
    BY <1>a, <1>23, <2>1, GenuineMonotone DEF Scons
  <2>4. Writes(p)'
    BY <1>0, <1>23, <2>3, ExitWrites DEF Scons, Writes
  <2> QED BY <2>2, <2>4, SMT
<1>24. CASE CommandRun(p)
  BY ZenonT(30), <1>0, <1>24, LockFrame, ExitWrites DEF CommandRun, RunTarget, Writes
<1>25. CASE RunDir(p)
  BY <1>0, <1>25, LockFrame, ExitWrites DEF RunDir, WithDir, Writes
<1>26. CASE RunScript(p)
  BY <1>0, <1>26, LockFrame, ExitWrites DEF RunScript, Writes
<1>27. CASE RunDisk(p)
  BY <1>0, <1>27, LockFrame, ExitWrites DEF RunDisk, Writes
<1> QED
  BY ZenonT(30), <1>1, <1>2, <1>3, <1>4, <1>5, <1>6, <1>7, <1>8, <1>9, <1>10, <1>11, <1>12,
     <1>13, <1>14, <1>15, <1>16, <1>17, <1>18, <1>19, <1>20, <1>21, <1>22, <1>23, <1>24,
     <1>25, <1>26, <1>27
  DEF Step

\* One invocation at a time, every step keeps the lock genuine.
LEMMA NextTrust ==
  ASSUME Exclusive, TypeInv, GateInv, TrustInv, [Next]_vars
  PROVE  TrustInv'
<1> USE DEF TrustInv
<1>0. TypeInv'
  BY NextType
<1>1. ASSUME NEW p \in Procs, NEW c \in Commands, NEW f \in Families \cup {NoFamily},
             Invoke(p, c, f)
      PROVE  TrustInv'
  <2>1. LockGenuine'
    BY <1>1, LockFrame DEF Invoke, files
  <2>2. ASSUME NEW q \in Procs PROVE Writes(q)'
    BY <1>1, <1>0, ZenonT(30) DEF Invoke, Goto, files, Quiescent, TypeInv, TypeOK, Control, Writes, BuildUpdates
  <2> QED BY <2>1, <2>2
<1>2. ASSUME NEW p \in Procs, Step(p) PROVE TrustInv'
  <2>1. LockGenuine' /\ Writes(p)'
    BY <1>2, StepTrust
  <2>2. \A q \in Procs : q # p => pc'[q] = "idle"
    BY <1>2, StepAlone DEF GateInv
  <2>3. ASSUME NEW q \in Procs, q # p PROVE Writes(q)'
    BY <1>0, <2>2, <2>3 DEF TypeInv, Control, Writes, BuildUpdates
  <2> QED BY <2>1, <2>3
<1>3. ASSUME NEW p \in Procs, Crash(p) PROVE TrustInv'
  <2>1. \A q \in Procs : pc'[q] = "idle"
    BY <1>3 DEF Crash, Exit, GateInv, OneShell, TypeInv, TypeOK
  <2>2. LockGenuine'
    BY <1>3, LockFrame DEF Crash
  <2>3. ASSUME NEW q \in Procs PROVE Writes(q)'
    BY <1>0, <2>1 DEF TypeInv, Control, Writes, BuildUpdates
  <2> QED BY <2>2, <2>3
<1>4. CASE Environment
  <2>1. (\A q \in Procs : pc'[q] = "idle") /\ lock' = lock /\ compiled' = compiled
    BY <1>4 DEF Environment, UserEditsState, UserRemoves, UserScripts, Quiescent
  <2>2. LockGenuine'
    BY <2>1, LockFrame
  <2>3. ASSUME NEW q \in Procs PROVE Writes(q)'
    BY <1>0, <2>1 DEF TypeInv, Control, Writes, BuildUpdates
  <2> QED BY <2>2, <2>3
<1>5. CASE UNCHANGED vars
  BY <1>5 DEF vars, LockGenuine, Writes
<1> QED BY <1>1, <1>2, <1>3, <1>4, <1>5 DEF Next

\* One invocation at a time, a command never acts on a build record that was typed into the
\* state file: the lock vouches only for records that finished builds left there.
THEOREM ForgedBuildsAreRefused ==
  ASSUME Exclusive
  PROVE  Spec => []CommandsTrustBuilds
<1>1. Init => TrustInv
  BY ConstantsDiffer, SMT DEF Init, TrustInv, LockGenuine, Writes, BuildUpdates, Hashes
<1>2. Spec => [](TypeInv /\ GateInv /\ TrustInv)
  BY <1>1, InitType, NextType, InitGate, NextGate, NextTrust, PTL DEF Spec
<1>3. TypeInv /\ GateInv /\ TrustInv => CommandsTrustBuilds
  BY DEF TypeInv, TypeOK, GateInv, Knows, TrustInv, LockGenuine, CommandsTrustBuilds, Locked
<1> QED BY <1>2, <1>3, PTL

-----------------------------------------------------------------------------
\* Undisturbed invocations: one at a time, none killed, no file edited by hand

Locking == {"lock", "hash", "lock_write"}

\* What holds of the files by where the only running shell is.  A configured state matches
\* its lock except between sed's rename and the end of lock_state.  Of the three updates of
\* a build, the first makes `done` true, the second makes the family agree with the shell's
\* target, and the third makes the record whole again.
Undisturbed(p) ==
  /\ pc[p] = "write" => p \in open
  /\ pc[p] \in {"work_dirs", "build_scripts", "update", "sed", "rename"} \cup Locking
       => state \in Contents
  /\ pc[p] = "lock_write" => seen[p] = state
  /\ pc[p] \notin Locking => (Configured => Locked)
  /\ stage[p] \notin BuildUpdates \/ (stage[p] = "done" /\ pc[p] \notin Locking)
       => (state \in Contents => Coherent(state))
  /\ stage[p] \in {"family", "binary"} \/ (stage[p] = "done" /\ pc[p] \in Locking)
       => state.done
  /\ stage[p] = "binary" \/ (stage[p] = "family" /\ pc[p] \in Locking)
       => state.family = target[p]
  /\ stage[p] = "binary" /\ pc[p] \in Locking => Coherent(state)

Others(p) == \A q \in Procs : q # p => pc[q] = "idle"

UndisturbedInv == \A p \in Procs : Others(p) => Undisturbed(p)

\* A shell that ends outside lock_state leaves a whole record behind, and a state that
\* matches its lock if it is configured.
LEMMA ExitUndisturbed ==
  ASSUME TypeInv, NEW p \in Procs, Exit(p), state' = state,
         (Configured => Locked)', state \in Contents => Coherent(state)
  PROVE  Undisturbed(p)'
BY ExitIdle DEF Undisturbed, Locking, BuildUpdates

\* The steps that only look at the state file.
Looks(p) ==
  \/ CheckStateFile(p) \/ Source(p) \/ VerifyHash(p) \/ VerifyCompare(p) \/ CheckDirs(p)
  \/ Offer(p) \/ Config(p) \/ CommandConfig(p) \/ CommandOther(p) \/ CommandBuild(p)
  \/ BuildDir(p) \/ CommandRun(p) \/ RunDir(p) \/ RunScript(p) \/ RunDisk(p)

\* They leave it, its lock and its record as they are.
LEMMA LooksUndisturbed ==
  ASSUME TypeInv, NEW p \in Procs, Undisturbed(p), Looks(p)
  PROVE  Undisturbed(p)'
<1>1. /\ state' = state /\ lock' = lock
      /\ pc[p] \notin Locking /\ stage[p] = "none"
  BY DEF Looks, Goto, files, CheckStateFile, Source, VerifyHash, VerifyCompare, CheckDirs,
         Offer, Config, CommandConfig, CommandOther, CommandBuild, BuildDir, WithDir,
         CommandRun, RunDir, RunScript, RunDisk, Locking, TypeInv, Control, CommandLabels
<1>2. /\ pc'[p] \in CommandLabels \cup {"idle", "source", "verify", "compare", "check_dirs",
                                        "offer", "config", "truncate"}
      /\ stage'[p] \in {"none", "create", "configure"}
  BY ExitIdle, <1>1, SMTT(30)
  DEF Looks, Goto, files, locals, CheckStateFile, Source, VerifyHash, VerifyCompare, CheckDirs,
      Offer, Config, CommandConfig, CommandOther, CommandBuild, BuildDir, WithDir,
      CommandRun, RunDir, RunScript, RunDisk, TypeInv, TypeOK, CommandLabels
<1>3. (Configured => Locked)' /\ (state \in Contents => Coherent(state))'
  BY <1>1 DEF Undisturbed, BuildUpdates, Configured, Locked, Coherent
<1> QED BY <1>2, <1>3, ZenonT(30) DEF Undisturbed, Locking, CommandLabels, BuildUpdates

\* sed changes the variable of the update, in what the state file holds.
LEMMA SedUndisturbed ==
  ASSUME TypeInv, GateInv, NEW p \in Procs, Undisturbed(p), SedRename(p)
  PROVE  Undisturbed(p)'
<1>1. /\ state \in Contents /\ stage[p] \in Updates
      /\ stage'[p] = stage[p] /\ target'[p] = target[p] /\ pc'[p] = "lock"
      /\ state' = Assign(state, stage[p], target[p])
      /\ stage[p] \in BuildUpdates => target[p] \in Families
  BY DEF SedRename, Goto, Undisturbed, GateInv, Knows, TypeInv, TypeOK, Control
<1>2. state' \in Contents
  BY <1>1, AssignType DEF StateFiles, TypeInv, TypeOK
<1>3. CASE stage[p] \in {"configure", "unconfigure"}
  <2>1. Coherent(state)
    BY <1>1, <1>3 DEF Undisturbed, BuildUpdates
  <2>2. state'.done = state.done /\ state'.family = state.family /\ state'.binary = state.binary
    BY <1>1, <1>3 DEF Assign, Contents
  <2> QED BY <1>1, <1>2, <1>3, <2>1, <2>2 DEF Undisturbed, Coherent, Locking, BuildUpdates
<1>4. CASE stage[p] = "done"
  <2>1. state'.done
    BY <1>1, <1>4 DEF Assign, Contents
  <2> QED BY <1>1, <1>2, <1>4, <2>1 DEF Undisturbed, Locking, BuildUpdates
<1>5. CASE stage[p] = "family"
  <2>1. state.done
    BY <1>5 DEF Undisturbed
  <2>2. state'.done /\ state'.family = target[p]
    BY <1>1, <1>5, <2>1 DEF Assign, Contents
  <2> QED BY <1>1, <1>2, <1>5, <2>2 DEF Undisturbed, Locking, BuildUpdates
<1>6. CASE stage[p] = "binary"
  <2>1. state.done /\ state.family = target[p]
    BY <1>6 DEF Undisturbed
  <2>2. state'.done /\ state'.family = target[p] /\ state'.binary = BinaryOf[target[p]]
    BY <1>1, <1>6, <2>1 DEF Assign, Contents
  <2>3. Coherent(state)'
    BY <1>1, <1>2, <1>6, <2>2, ConstantsDiffer, ZenonT(30) DEF Coherent, Contents, BuildUpdates
  <2> QED BY <1>1, <1>2, <1>6, <2>2, <2>3 DEF Undisturbed, Locking, BuildUpdates
<1> QED BY <1>1, <1>3, <1>4, <1>5, <1>6 DEF Updates, BuildUpdates

\* A line of the only running shell.
LEMMA StepUndisturbed ==
  ASSUME TypeInv, GateInv, NEW p \in Procs, Undisturbed(p), Step(p)
  PROVE  Undisturbed(p)'
<1> USE DEF TypeInv, TypeOK, Goto, files, locals, BuildUpdates, Locking
<1>1. CASE Looks(p)
  BY <1>1, LooksUndisturbed
<1>2. CASE Truncate(p)
  BY <1>2, ConstantsDiffer DEF Truncate, Undisturbed, Control, Configured
<1>3. CASE Write(p)
  <2>1. state' = Default /\ Default \in Contents /\ ~ Default.configured /\ Coherent(Default)
    BY <1>3 DEF Write, Undisturbed, Default, Contents, Coherent
  <2> QED BY <1>3, <2>1 DEF Write, Undisturbed, Control, Configured
<1>4. CASE MakeWorkDirs(p)
  BY <1>4, ExitUndisturbed DEF MakeWorkDirs, Undisturbed, Control, Configured, Locked
<1>5. CASE MakeBuildScripts(p)
  BY <1>5, ExitUndisturbed DEF MakeBuildScripts, Undisturbed, Control, Configured, Locked
<1>6. CASE UpdateGrep(p)
  BY <1>6 DEF UpdateGrep, Undisturbed, Configured, Locked
<1>7. CASE SedRead(p)
  BY <1>7 DEF SedRead, Undisturbed, Configured, Locked
<1>8. CASE SedRename(p)
  BY <1>8, SedUndisturbed
<1>9. CASE LockTruncate(p)
  BY <1>9 DEF LockTruncate, Undisturbed
<1>10. CASE LockHash(p)
  BY <1>10 DEF LockHash, Undisturbed
<1>11. CASE LockWrite(p)
  <2>1. lock' = Hash(state) /\ state' = state /\ state \in Contents
    BY <1>11 DEF LockWrite, Undisturbed
  <2>2. CASE stage[p] \in {"configure", "unconfigure", "binary"} /\ Exit(p)
    BY <1>11, <2>1, <2>2, ExitUndisturbed DEF LockWrite, Undisturbed, Locked
  <2>3. CASE stage[p] = "create"
    BY <1>11, <2>1, <2>3 DEF LockWrite, Forget, Undisturbed, Locked
  <2>4. CASE stage[p] \in {"done", "family"}
    BY <1>11, <2>1, <2>4, ZenonT(30) DEF LockWrite, Forget, Undisturbed, Locked
  <2> QED BY <1>11, <2>2, <2>3, <2>4 DEF LockWrite
<1>12. CASE CommandUnconfig(p)
  BY <1>12 DEF CommandUnconfig, Undisturbed, Control, GateInv, Knows, CommandLabels,
               Configured, Locked
<1>13. CASE Scons(p)
  BY <1>13, ExitUndisturbed, SMT
  DEF Scons, Undisturbed, Control, GateInv, Knows, CommandLabels, Configured, Locked
<1> QED
  BY <1>1, <1>2, <1>3, <1>4, <1>5, <1>6, <1>7, <1>8, <1>9, <1>10, <1>11, <1>12, <1>13
  DEF Step, Looks

\* Undisturbed invocations keep the invariant; what an ended one leaves behind is what the
\* next one finds.
LEMMA NextUndisturbed ==
  ASSUME Exclusive, ~ Crashes, ~ Edits, TypeInv, GateInv, UndisturbedInv, [Next]_vars
  PROVE  UndisturbedInv'
<1> USE DEF UndisturbedInv
<1>0. TypeInv' /\ GateInv'
  BY NextType, NextGate
<1>1. ASSUME NEW p \in Procs, NEW c \in Commands, NEW f \in Families \cup {NoFamily},
             Invoke(p, c, f)
      PROVE  UndisturbedInv'
  <2>1. /\ \A q \in Procs : pc[q] = "idle" /\ stage'[q] = "none"
        /\ pc' = [pc EXCEPT ![p] = "check_config"]
        /\ state' = state /\ lock' = lock
    BY <1>1 DEF Invoke, Goto, Quiescent, files, TypeInv, Control
  <2>2. /\ Configured => Locked
        /\ state \in Contents => Coherent(state)
    BY <2>1, <1>1 DEF Others, Undisturbed, Locking, BuildUpdates, TypeInv, Control
  <2>3. \A q \in Procs : pc'[q] \in {"idle", "check_config"}
    BY <2>1 DEF TypeInv, TypeOK
  <2> QED BY <2>1, <2>2, <2>3 DEF Undisturbed, Locking, BuildUpdates, Configured, Locked
<1>2. ASSUME NEW p \in Procs, Step(p) PROVE UndisturbedInv'
  <2>1. Others(p)
    BY <1>2, StepMoves DEF GateInv, OneShell, Others, TypeInv, TypeOK
  <2>2. Undisturbed(p)'
    BY <1>2, <2>1, StepUndisturbed
  <2>3. ASSUME NEW q \in Procs, q # p, Others(q)' PROVE Undisturbed(q)'
    <3>1. pc'[p] = "idle" /\ pc'[q] = "idle" /\ stage'[p] = "none" /\ stage'[q] = "none"
      BY <1>0, <1>2, <2>3, StepAlone DEF Others, GateInv, TypeInv, Control
    <3> QED BY <2>2, <3>1, ZenonT(30) DEF Undisturbed, Locking, BuildUpdates
  <2> QED BY <2>2, <2>3
<1>3. ASSUME NEW p \in Procs PROVE ~ Crash(p)
  BY DEF Crash
<1>4. ~ Environment
  BY DEF Environment, UserEditsState, UserRemoves, UserScripts
<1>5. CASE UNCHANGED vars
  BY <1>5 DEF vars, Others, Undisturbed, Configured, Locked
<1> QED BY <1>1, <1>2, <1>3, <1>4, <1>5 DEF Next

\* The invariant holds of the first invocation.
LEMMA UndisturbedAlways ==
  ASSUME Exclusive, ~ Crashes, ~ Edits
  PROVE  Spec => [](TypeInv /\ GateInv /\ UndisturbedInv)
<1>1. Init => UndisturbedInv
  BY ConstantsDiffer, ZenonT(30) DEF Init, UndisturbedInv, Undisturbed, Locking, BuildUpdates, Configured
<1> QED BY <1>1, InitType, NextType, InitGate, NextGate, NextUndisturbed, PTL DEF Spec

\* Undisturbed invocations are never told that their state is corrupted, however many
\* families there are: EMAS_config resets the state file without locking it, but to an
\* unconfigured one, which check_config does not compare with the lock.
THEOREM NoFalseAlarms ==
  ASSUME Exclusive, ~ Crashes, ~ Edits
  PROVE  Spec => []NoFalseAlarm
<1>1. GateInv /\ UndisturbedInv => NoFalseAlarm
  BY ZenonT(30) DEF GateInv, OneShell, Knows, UndisturbedInv, Others, Undisturbed, Locking, Locked,
         NoFalseAlarm
<1> QED BY <1>1, UndisturbedAlways, PTL

\* Undisturbed invocations leave a build record whose three variables name one build.
THEOREM RecordsAreCoherent ==
  ASSUME Exclusive, ~ Crashes, ~ Edits, Procs # {}
  PROVE  Spec => []CoherentRecord
<1>1. TypeInv /\ UndisturbedInv => CoherentRecord
  BY SMT DEF TypeInv, Control, UndisturbedInv, Others, Undisturbed, BuildUpdates, Quiescent,
         CoherentRecord
<1> QED BY <1>1, UndisturbedAlways, PTL
=============================================================================
