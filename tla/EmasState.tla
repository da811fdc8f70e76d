------------------------------ MODULE EmasState ------------------------------
(***************************************************************************)
(* Invocations of EMAS.sh over the files they share: the state file, its   *)
(* lock (a file that holds the sha1sum of the state file), the Work tree   *)
(* and the build scripts of the scenario families.                         *)
(*                                                                         *)
(* One action is one access to a shared file or one answer of the user;    *)
(* shell code between two such points only reads the shell's own           *)
(* variables and belongs to the action before it.  `cat default > state`   *)
(* is a truncation followed by a write, `sed -i` a read followed by a      *)
(* rename, and `sha1sum state > lock` a truncation, a read and a write.    *)
(***************************************************************************)
EXTENDS Naturals, Sequences, FiniteSets

CONSTANTS
  Procs,      \* shells that run EMAS.sh
  Families,   \* scenario families: the subdirectories of Scenarios/
  Runnable,   \* families whose instance script sets FS_SIMULATION and GEM5_DISK_IMG
  BinaryOf,   \* BinaryOf[f]: Work/build/<platform>/gem5.<mode> of f's build script
  NoFamily,   \* the empty string, as a family
  NoBinary,   \* the empty string, as a path
  Missing,    \* a file that does not exist
  Empty,      \* a file that has been truncated
  Exclusive,  \* TRUE: a user waits for an invocation to end before the next
  Crashes,    \* TRUE: an invocation may be killed or interrupted (SIGINT)
  Edits       \* TRUE: between invocations the user changes files by hand

Binaries == {BinaryOf[f] : f \in Families}

\* The variables the state file exports.
Contents == [configured : BOOLEAN, done : BOOLEAN,
             family : Families \cup {NoFamily}, binary : Binaries \cup {NoBinary}]

\* state.default
Default == [configured |-> FALSE, done |-> FALSE,
            family |-> NoFamily, binary |-> NoBinary]

\* sha1sum, taken to be injective; it differs from an empty or absent lock.
Hash(content) == [sha1 |-> content]

StateFiles == Contents \cup {Missing, Empty}
Hashes == {Hash(c) : c \in StateFiles}

ASSUME ConstantsDiffer ==
  /\ NoFamily \notin Families
  /\ NoBinary \notin Binaries
  /\ Missing # Empty
  /\ {Missing, Empty} \cap (Contents \cup Hashes) = {}
ASSUME SubsetsAndFlags ==
  /\ Runnable \subseteq Families
  /\ {Exclusive, Crashes, Edits} \subseteq BOOLEAN

Work == <<"Work">>
DiskImages == <<"Work", "disk-images">>
Output == <<"Work", "Scenarios">>
FamilyDir(f) == <<"Work", "Scenarios", f>>
InstanceDir(f) == <<"Work", "Scenarios", f, "0">>
DiskImage(f) == <<"Work", "disk-images", f>>
BaseDirs == {Work, DiskImages, Output}

\* mkdir -p creates the directory and those above it.
MkdirP(path) == {SubSeq(path, 1, n) : n \in 1 .. Len(path)}

Paths == BaseDirs \cup UNION {{FamilyDir(f), InstanceDir(f), DiskImage(f)} : f \in Families}

Commands == {"build", "run", "config", "unconfig", "other"}

\* What an update_state or lock_state call is part of: creating the state file,
\* configure, unconfigure, or one of the three updates that end a build.
Stages == {"none", "create", "configure", "unconfigure", "done", "family", "binary"}

\* The labels from check_config's return to the command's first update of the state.
CommandLabels == {"command", "build_dir", "scons", "run_dir", "run_script", "run_disk"}
Labels == CommandLabels \cup
  {"idle", "check_config", "truncate", "write", "lock", "hash", "lock_write", "source",
   "offer", "verify", "compare", "check_dirs", "config", "work_dirs", "build_scripts",
   "update", "sed", "rename"}

VARIABLES
  state,     \* the file bd/state
  open,      \* shells that hold it open for writing; sed's rename detaches them
  lock,      \* the file bd/state.lock
  work,      \* existing paths below Work
  scripts,   \* scripts[f]: which of build and build.default exist in Scenarios/f
  compiled,  \* history: families whose gem5 binary scons has finished
  pc,        \* where each shell is
  cmd,       \* the command it was given
  target,    \* the family it was given, or has resolved; NoFamily when none
  stage,     \* the update it performs
  env,       \* the variables it sourced from the state file
  seen       \* what its sed or sha1sum has read from the state file

files == <<state, open, lock, work, scripts, compiled>>
locals == <<cmd, target, stage, env, seen>>
vars == <<state, open, lock, work, scripts, compiled, pc, cmd, target, stage, env, seen>>

Quiescent == \A p \in Procs : pc[p] = "idle"
Configured == state \in Contents /\ state.configured
Locked == lock = Hash(state)

Init ==
  /\ state = Missing
  /\ open = {}
  /\ lock = Missing
  /\ work = {}
  /\ scripts \in [Families -> {{}, {"build"}}]
  /\ compiled = {}
  /\ pc = [p \in Procs |-> "idle"]
  /\ cmd = [p \in Procs |-> "other"]
  /\ target = [p \in Procs |-> NoFamily]
  /\ stage = [p \in Procs |-> "none"]
  /\ env = [p \in Procs |-> Empty]
  /\ seen = [p \in Procs |-> Empty]

-----------------------------------------------------------------------------
\* Control of one shell.

Goto(p, from, to) ==
  /\ pc[p] = from
  /\ pc' = [pc EXCEPT ![p] = to]

\* The shell ends: exit_EMAS, or an abort by set -e or set -u.
Exit(p) ==
  /\ pc' = [pc EXCEPT ![p] = "idle"]
  /\ cmd' = [cmd EXCEPT ![p] = "other"]
  /\ target' = [target EXCEPT ![p] = NoFamily]
  /\ stage' = [stage EXCEPT ![p] = "none"]
  /\ env' = [env EXCEPT ![p] = Empty]
  /\ seen' = [seen EXCEPT ![p] = Empty]

\* sed or sha1sum ends, and with it what it has read.
Forget(p) == seen' = [seen EXCEPT ![p] = Empty]

\* EMAS.sh <c> <f>; f is NoFamily when the command has no usable argument.
Invoke(p, c, f) ==
  /\ Exclusive => Quiescent
  /\ Goto(p, "idle", "check_config")
  /\ cmd' = [cmd EXCEPT ![p] = c]
  /\ target' = [target EXCEPT ![p] = f]
  /\ UNCHANGED <<files, stage, env, seen>>

-----------------------------------------------------------------------------
\* check_config and verify_config

\* Without a state file, one is created from state.default and locked.
CheckStateFile(p) ==
  /\ \/ state = Missing /\ Goto(p, "check_config", "truncate") /\ stage' = [stage EXCEPT ![p] = "create"]
     \/ state # Missing /\ Goto(p, "check_config", "source") /\ UNCHANGED stage
  /\ UNCHANGED <<files, cmd, target, env, seen>>

\* Sourcing a truncated file leaves __EMAS_IS_CONFIGURED unset, and set -u aborts.
Source(p) ==
  /\ pc[p] = "source"
  /\ \/ state \notin Contents /\ Exit(p)
     \/ /\ state \in Contents
        /\ env' = [env EXCEPT ![p] = state]
        /\ Goto(p, "source", IF state.configured THEN "verify" ELSE "offer")
        /\ UNCHANGED <<cmd, target, stage, seen>>
  /\ UNCHANGED files

\* check_state_consistent reads the state file, then the lock.
VerifyHash(p) ==
  /\ Goto(p, "verify", "compare")
  /\ seen' = [seen EXCEPT ![p] = state]
  /\ UNCHANGED <<files, cmd, target, stage, env>>

\* Changed: a mismatch is repaired by locking the state again.
VerifyCompareRelocks(p) ==
  /\ \/ lock = Hash(seen[p]) /\ Goto(p, "compare", "check_dirs") /\ UNCHANGED stage
     \/ /\ lock # Hash(seen[p])
        /\ Goto(p, "compare", "lock")
        /\ stage' = [stage EXCEPT ![p] = "create"]
  /\ Forget(p)
  /\ UNCHANGED <<files, cmd, target, env>>

\* Changed: a mismatch is taken for an update under way, and the shell reads again.
VerifyCompareRetries(p) ==
  /\ Goto(p, "compare", IF lock = Hash(seen[p]) THEN "check_dirs" ELSE "source")
  /\ Forget(p)
  /\ UNCHANGED <<files, cmd, target, stage, env>>

VerifyCompare(p) ==
  /\ Goto(p, "compare", IF lock = Hash(seen[p]) THEN "check_dirs" ELSE "offer")
  /\ Forget(p)
  /\ UNCHANGED <<files, cmd, target, stage, env>>

\* Changed: the scenario directory is not checked.
CheckWorkDirOnly(p) ==
  /\ Goto(p, "check_dirs", IF BaseDirs \subseteq work THEN "command" ELSE "offer")
  /\ UNCHANGED <<files, locals>>

\* The passive checks of the work directory and of the scenario directory.
CheckDirs(p) ==
  /\ Goto(p, "check_dirs",
          IF BaseDirs \subseteq work /\ \A f \in Families : "build" \in scripts[f]
          THEN "command" ELSE "offer")
  /\ UNCHANGED <<files, locals>>

\* "Would you like to configure EMAS?"  Declining ends the shell.
Offer(p) ==
  /\ pc[p] = "offer"
  /\ \/ Goto(p, "offer", "config") /\ UNCHANGED locals
     \/ Exit(p)
  /\ UNCHANGED files

-----------------------------------------------------------------------------
\* EMAS_config

\* A configured EMAS asks before it resets the state file.
Config(p) ==
  /\ pc[p] = "config"
  /\ \/ /\ Goto(p, "config", "truncate")
        /\ stage' = [stage EXCEPT ![p] = "configure"]
        /\ UNCHANGED <<cmd, target, env, seen>>
     \/ env[p].configured /\ Exit(p)
  /\ UNCHANGED files

\* cat state.default > state: the shell truncates, cat writes.
Truncate(p) ==
  /\ Goto(p, "truncate", "write")
  /\ state' = Empty
  /\ open' = open \cup {p}
  /\ UNCHANGED <<lock, work, scripts, compiled, locals>>

\* check_config locks the state it created; EMAS_config does not.  A cat whose file sed
\* has replaced since writes to a file without a name.
Write(p) ==
  /\ Goto(p, "write", IF stage[p] = "create" THEN "lock" ELSE "work_dirs")
  /\ state' = IF p \in open THEN Default ELSE state
  /\ open' = open \ {p}
  /\ UNCHANGED <<lock, work, scripts, compiled, locals>>

\* The directory check_work_directory asks about next.
FirstMissingDir ==
  IF Work \notin work THEN Work ELSE IF DiskImages \notin work THEN DiskImages ELSE Output

MakeWorkDirs(p) ==
  /\ pc[p] = "work_dirs"
  /\ \/ /\ ~ BaseDirs \subseteq work
        /\ work' = work \cup MkdirP(FirstMissingDir)
        /\ UNCHANGED <<pc, locals>>
     \/ /\ ~ BaseDirs \subseteq work
        /\ Exit(p)
        /\ UNCHANGED work
     \/ /\ BaseDirs \subseteq work
        /\ Goto(p, "work_dirs", "build_scripts")
        /\ UNCHANGED <<work, locals>>
  /\ UNCHANGED <<state, open, lock, scripts, compiled>>

\* cp ../build.default . in each family without a build script; the copy keeps its name.
CopyDefaultScript(agreed) ==
  scripts' = [f \in Families |-> scripts[f] \cup (IF f \in agreed THEN {"build.default"} ELSE {})]

\* The user agrees for some of the families that lack a build script, or for all of them.
MakeBuildScripts(p) ==
  LET lacking == {f \in Families : "build" \notin scripts[f]} IN
  /\ pc[p] = "build_scripts"
  /\ \E agreed \in SUBSET lacking :
       /\ CopyDefaultScript(agreed)
       /\ \/ agreed = lacking /\ Goto(p, "build_scripts", "update") /\ UNCHANGED locals
          \/ agreed # lacking /\ Exit(p)
  /\ UNCHANGED <<state, open, lock, work, compiled>>

-----------------------------------------------------------------------------
\* update_state and lock_state

\* grep -q: without the variable in the file the shell reports an internal error and ends.
UpdateGrep(p) ==
  /\ pc[p] = "update"
  /\ \/ state \in Contents /\ Goto(p, "update", "sed") /\ UNCHANGED locals
     \/ state \notin Contents /\ Exit(p)
  /\ UNCHANGED files

\* sed -i reads the file into a temporary one ...
SedRead(p) ==
  /\ Goto(p, "sed", "rename")
  /\ seen' = [seen EXCEPT ![p] = state]
  /\ UNCHANGED <<files, cmd, target, stage, env>>

\* The line sed rewrites, by the update the shell performs; a file without lines stays so.
Assign(content, what, f) ==
  CASE content \notin Contents -> content
    [] content \in Contents /\ what = "configure"   -> [content EXCEPT !.configured = TRUE]
    [] content \in Contents /\ what = "unconfigure" -> [content EXCEPT !.configured = FALSE]
    [] content \in Contents /\ what = "done"        -> [content EXCEPT !.done = TRUE]
    [] content \in Contents /\ what = "family"      -> [content EXCEPT !.family = f]
    [] OTHER                                        -> [content EXCEPT !.binary = BinaryOf[f]]

\* Changed: the file is rewritten from the variables the shell has sourced.
SedRenameFromEnv(p) ==
  /\ Goto(p, "rename", "lock")
  /\ state' = Assign(env[p], stage[p], target[p])
  /\ open' = {}
  /\ env' = [env EXCEPT ![p] = Assign(env[p], stage[p], target[p])]
  /\ Forget(p)
  /\ UNCHANGED <<lock, work, scripts, compiled, cmd, target, stage>>

\* Changed: lock_state hashes the file before sed has replaced it.
SedRenameAfterHash(p) ==
  /\ Goto(p, "rename", "lock_write")
  /\ state' = Assign(seen[p], stage[p], target[p])
  /\ open' = {}
  /\ env' = [env EXCEPT ![p] = Assign(env[p], stage[p], target[p])]
  /\ UNCHANGED <<lock, work, scripts, compiled, cmd, target, stage, seen>>

\* ... and renames it over the state file.
SedRename(p) ==
  /\ Goto(p, "rename", "lock")
  /\ state' = Assign(seen[p], stage[p], target[p])
  /\ open' = {}
  /\ env' = [env EXCEPT ![p] = Assign(env[p], stage[p], target[p])]
  /\ Forget(p)
  /\ UNCHANGED <<lock, work, scripts, compiled, cmd, target, stage>>

LockTruncate(p) ==
  /\ Goto(p, "lock", "hash")
  /\ lock' = Empty
  /\ UNCHANGED <<state, open, work, scripts, compiled, locals>>

LockHash(p) ==
  /\ Goto(p, "hash", "lock_write")
  /\ seen' = [seen EXCEPT ![p] = state]
  /\ UNCHANGED <<files, cmd, target, stage, env>>

\* Changed: a build records that it is done and its family, and not its binary.
LockWriteEndsEarly(p) ==
  /\ pc[p] = "lock_write"
  /\ lock' = Hash(seen[p])
  /\ \/ stage[p] = "create" /\ Goto(p, "lock_write", "source") /\ UNCHANGED locals
     \/ /\ stage[p] = "done"
        /\ Goto(p, "lock_write", "update")
        /\ stage' = [stage EXCEPT ![p] = "family"]
        /\ UNCHANGED <<cmd, target, env, seen>>
     \/ stage[p] \in {"configure", "unconfigure", "family"} /\ Exit(p)
  /\ UNCHANGED <<state, open, work, scripts, compiled>>

\* After the lock: the next update of a build, the end of the command, or check_config.
LockWrite(p) ==
  /\ pc[p] = "lock_write"
  /\ lock' = Hash(seen[p])
  /\ \/ /\ stage[p] = "create"
        /\ Goto(p, "lock_write", "source")
        /\ stage' = [stage EXCEPT ![p] = "none"]
        /\ Forget(p)
        /\ UNCHANGED <<cmd, target, env>>
     \/ /\ stage[p] \in {"done", "family"}
        /\ Goto(p, "lock_write", "update")
        /\ stage' = [stage EXCEPT ![p] = IF stage[p] = "done" THEN "family" ELSE "binary"]
        /\ Forget(p)
        /\ UNCHANGED <<cmd, target, env>>
     \/ stage[p] \in {"configure", "unconfigure", "binary"} /\ Exit(p)
  /\ UNCHANGED <<state, open, work, scripts, compiled>>

-----------------------------------------------------------------------------
\* The commands

CommandUnconfig(p) ==
  /\ cmd[p] = "unconfig"
  /\ Goto(p, "command", "update")
  /\ stage' = [stage EXCEPT ![p] = "unconfigure"]
  /\ UNCHANGED <<files, cmd, target, env, seen>>

CommandConfig(p) ==
  /\ cmd[p] = "config"
  /\ Goto(p, "command", "config")
  /\ UNCHANGED <<files, locals>>

\* No command, an unknown one, list and help leave every file alone.
CommandOther(p) ==
  /\ pc[p] = "command"
  /\ cmd[p] = "other"
  /\ Exit(p)
  /\ UNCHANGED files

\* EMAS_build ends when target_scenario_family does not resolve its argument.
CommandBuild(p) ==
  /\ pc[p] = "command"
  /\ cmd[p] = "build"
  /\ \/ target[p] \in Families /\ Goto(p, "command", "build_dir") /\ UNCHANGED locals
     \/ target[p] = NoFamily /\ Exit(p)
  /\ UNCHANGED files

\* check_target_*_work_directory: use the directory, create it, or decline and end.
WithDir(p, dir, from, to) ==
  /\ pc[p] = from
  /\ \/ Goto(p, from, to) /\ work' = work \cup MkdirP(dir) /\ UNCHANGED locals
     \/ dir \notin work /\ Exit(p) /\ UNCHANGED work
  /\ UNCHANGED <<state, open, lock, scripts, compiled>>

BuildDir(p) == WithDir(p, FamilyDir(target[p]), "build_dir", "scons")

\* Changed: a failed scons does not abort the shell.
SconsIgnoresFailure(p) ==
  /\ Goto(p, "scons", "update")
  /\ compiled' \in {compiled, compiled \cup {target[p]}}
  /\ stage' = [stage EXCEPT ![p] = "done"]
  /\ UNCHANGED <<state, open, lock, work, scripts, cmd, target, env, seen>>

\* scons finishes and the three updates follow, or it fails and set -e aborts.
Scons(p) ==
  /\ pc[p] = "scons"
  /\ \/ /\ Goto(p, "scons", "update")
        /\ compiled' = compiled \cup {target[p]}
        /\ stage' = [stage EXCEPT ![p] = "done"]
        /\ UNCHANGED <<cmd, target, env, seen>>
     \/ Exit(p) /\ UNCHANGED compiled
  /\ UNCHANGED <<state, open, lock, work, scripts>>

\* The family EMAS_run targets: its argument, else the one the sourced state names.
RunTarget(p) == IF target[p] \in Families THEN target[p] ELSE env[p].family

\* Changed: the built family is used although the state names none.
CommandRunUnresolved(p) ==
  /\ cmd[p] = "run"
  /\ Goto(p, "command", "run_dir")
  /\ target' = [target EXCEPT ![p] = RunTarget(p)]
  /\ UNCHANGED <<files, cmd, stage, env, seen>>

\* EMAS_run ends without a build, or when its target names no instance; with neither an
\* argument nor a built family, is_number has no $1 and set -u aborts.
CommandRun(p) ==
  /\ pc[p] = "command"
  /\ cmd[p] = "run"
  /\ \/ /\ env[p].done
        /\ RunTarget(p) \in Families
        /\ Goto(p, "command", "run_dir")
        /\ target' = [target EXCEPT ![p] = RunTarget(p)]
        /\ UNCHANGED <<cmd, stage, env, seen>>
     \/ Exit(p)
  /\ UNCHANGED files

RunDir(p) == WithDir(p, InstanceDir(target[p]), "run_dir", "run_script")

\* A family other than the built one is reported and the shell goes on.  The instance
\* script is sourced; without FS_SIMULATION set -u aborts.
RunScript(p) ==
  /\ pc[p] = "run_script"
  /\ \/ target[p] \in Runnable /\ Goto(p, "run_script", "run_disk") /\ UNCHANGED locals
     \/ target[p] \notin Runnable /\ Exit(p)
  /\ UNCHANGED files

\* check_target_disk_image; declining to create the image is reported, and the shell ends
\* either way because nothing follows.
RunDisk(p) ==
  /\ pc[p] = "run_disk"
  /\ Exit(p)
  /\ work' \in {work, work \cup {DiskImage(target[p])}}
  /\ UNCHANGED <<state, open, lock, scripts, compiled>>

-----------------------------------------------------------------------------
\* The environment

Crash(p) ==
  /\ Crashes
  /\ pc[p] # "idle"
  /\ Exit(p)
  /\ open' = open \ {p}
  /\ UNCHANGED <<state, lock, work, scripts, compiled>>

\* The user changes or deletes the state file ...
UserEditsState(content) ==
  /\ Edits /\ Quiescent
  /\ state' = content
  /\ UNCHANGED <<open, lock, work, scripts, compiled, pc, locals>>

\* ... removes a path of the Work tree and what is below it ...
UserRemoves(path) ==
  /\ Edits /\ Quiescent
  /\ work' = {w \in work : Len(w) < Len(path) \/ SubSeq(w, 1, Len(path)) # path}
  /\ UNCHANGED <<state, open, lock, scripts, compiled, pc, locals>>

\* ... adds or deletes a build script.
UserScripts(f) ==
  /\ Edits /\ Quiescent
  /\ scripts' = [scripts EXCEPT ![f] = IF "build" \in @ THEN @ \ {"build"} ELSE @ \cup {"build"}]
  /\ UNCHANGED <<state, open, lock, work, compiled, pc, locals>>

Environment ==
  \/ \E content \in Contents \cup {Missing} : UserEditsState(content)
  \/ \E path \in Paths : UserRemoves(path)
  \/ \E f \in Families : UserScripts(f)

Step(p) ==
  \/ CheckStateFile(p) \/ Source(p) \/ VerifyHash(p) \/ VerifyCompare(p)
  \/ CheckDirs(p) \/ Offer(p)
  \/ Config(p) \/ Truncate(p) \/ Write(p) \/ MakeWorkDirs(p) \/ MakeBuildScripts(p)
  \/ UpdateGrep(p) \/ SedRead(p) \/ SedRename(p)
  \/ LockTruncate(p) \/ LockHash(p) \/ LockWrite(p)
  \/ CommandUnconfig(p) \/ CommandConfig(p) \/ CommandOther(p)
  \/ CommandBuild(p) \/ BuildDir(p) \/ Scons(p)
  \/ CommandRun(p) \/ RunDir(p) \/ RunScript(p) \/ RunDisk(p)

Next ==
  \/ \E p \in Procs :
       \/ \E c \in Commands, f \in Families \cup {NoFamily} : Invoke(p, c, f)
       \/ Step(p)
       \/ Crash(p)
  \/ Environment

Spec == Init /\ [][Next]_vars

\* The operating system runs every shell, and the user answers its prompts.
FairSpec == Spec /\ \A p \in Procs : WF_vars(Step(p))

-----------------------------------------------------------------------------
\* Properties

TypeOK ==
  /\ state \in StateFiles
  /\ open \in SUBSET Procs
  /\ lock \in Hashes \cup {Missing, Empty}
  /\ work \in SUBSET Paths
  /\ scripts \in [Families -> SUBSET {"build", "build.default"}]
  /\ compiled \in SUBSET Families
  /\ pc \in [Procs -> Labels]
  /\ cmd \in [Procs -> Commands]
  /\ target \in [Procs -> Families \cup {NoFamily}]
  /\ stage \in [Procs -> Stages]
  /\ env \in [Procs -> StateFiles]
  /\ seen \in [Procs -> StateFiles]

\* The build record of a state file speaks of families among those built.
Genuine(content, built) ==
  content \in Contents =>
    /\ content.done => built # {}
    /\ content.family \in built \cup {NoFamily}
    /\ content.binary \in {BinaryOf[f] : f \in built} \cup {NoBinary}

\* The three variables of a build record name one build, or none.
Coherent(content) ==
  /\ content.done = (content.family # NoFamily)
  /\ content.binary = IF content.done THEN BinaryOf[content.family] ELSE NoBinary

\* Whatever the interleaving of invocations and wherever they are killed, neither the
\* state file nor a shell that sourced it names a family or a binary whose build has not
\* finished: EMAS_build updates the state only after scons, and sed carries the rest over.
NoPhantomBuild == Genuine(state, compiled) /\ \A p \in Procs : Genuine(env[p], compiled)

\* "No EMAS_x command will be executed if the Simulator is not configured correctly": one
\* invocation at a time, a command that runs after check_config does so on the state it
\* sourced, configured and matching the lock, with every directory and build script there,
\* also after kills and after changes made by hand.
Gate ==
  \A p \in Procs : pc[p] \in CommandLabels =>
    /\ Configured /\ env[p] = state /\ Locked
    /\ BaseDirs \subseteq work
    /\ \A f \in Families : "build" \in scripts[f]

\* The lock keeps forged records out: one invocation at a time, a command never acts on a
\* build record that the user typed into the state file (check_state_consistent).
CommandsTrustBuilds == \A p \in Procs : pc[p] \in CommandLabels => Genuine(env[p], compiled)

\* One invocation at a time, update_state changes its own variable in what the state file
\* holds at that moment and loses no other change (sed reads and renames in two steps).
NoLostUpdate ==
  [][\A p \in Procs : pc[p] = "rename" /\ pc'[p] = "lock" =>
       state' = Assign(state, stage[p], target[p])]_vars

\* With neither kills, changes by hand nor overlap, check_state_consistent never reports a
\* corrupted state, although EMAS_config resets the state file without locking it.
NoFalseAlarm == \A p \in Procs : pc[p] = "compare" => lock = Hash(seen[p])

\* With neither kills, changes by hand nor overlap, a finished build is recorded whole: the
\* three variables that EMAS_build sets one by one agree once the invocation is over.
CoherentRecord == Quiescent /\ state \in Contents => Coherent(state)

\* No invocation waits for another: each one ends, when its user answers the prompts.
InvocationEnds == \A p \in Procs : pc[p] # "idle" ~> pc[p] = "idle"
=============================================================================
