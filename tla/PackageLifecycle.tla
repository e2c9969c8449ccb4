--------------------------- MODULE PackageLifecycle ---------------------------
(***************************************************************************)
(* skil install, update and uninstall (internal/cli/cli.go) over the lock  *)
(* file (internal/lockfile) and the directories of the installed packages  *)
(* (packagecheck.Install): two pieces of state that no system call changes *)
(* together.  A command moves the old directory aside, renames the new one *)
(* into place, replaces the lock file, and undoes what it did when a step  *)
(* fails.  Commands of several processes interleave, for nothing is locked *)
(* between them, and a process may stop anywhere.                          *)
(*                                                                         *)
(* A package stands for its content; the lock file is replaced by a rename *)
(* and never seen half written.  A directory is removed file by file.      *)
(***************************************************************************)
EXTENDS Naturals, FiniteSets

CONSTANTS
    Process,     \* running skil commands
    Package,     \* the packages somebody tries to install
    NameOf, VersionOf,
    Allowed,     \* those the policy decides to ALLOW
    NoPackage,
    Remnant      \* what is left of a directory that could not be removed as a whole

ASSUME LifecycleAssumption ==
    /\ Allowed \subseteq Package
    /\ NoPackage \notin Package /\ Remnant \notin Package \cup {NoPackage}

Name == {NameOf[k] : k \in Package}
Target == {<<NameOf[k], VersionOf[k]>> : k \in Package}
TargetOf(k) == <<NameOf[k], VersionOf[k]>>

VARIABLES
    dir,       \* the content of each installation target
    lock,      \* the lock file: the package each name is locked to
    cmd,       \* the command each process runs
    left,      \* the content of such directories nobody will clean up
    overlap,   \* history: two commands ran at the same time
    broken     \* history: the names a command stopped half way on, or could not undo
               \* its steps on

history == <<overlap, broken>>
lifecycleVars == <<dir, lock, cmd, left, overlap, broken>>

Entry == Package \cup {NoPackage}
Content == Entry \cup {Remnant}
Place == {"idle", "verify", "stage", "place", "write", "discard", "restore", "clean"}

\* A command: where it is, what it does to which package, the lock file as it
\* loaded it, and what it moved to its backup or quarantine directory.
Command == [at : Place, op : {"none", "install", "update", "uninstall"}, pkg : Entry,
            view : [Name -> Entry], aside : Content]

Idle == [at |-> "idle", op |-> "none", pkg |-> NoPackage,
         view |-> [n \in Name |-> NoPackage], aside |-> NoPackage]

Init ==
    /\ dir = [t \in Target |-> NoPackage]
    /\ lock = [n \in Name |-> NoPackage]
    /\ cmd = [p \in Process |-> Idle]
    /\ left = {}
    /\ overlap = FALSE /\ broken = {}

At(p) == cmd[p].at
Op(p) == cmd[p].op
Pkg(p) == cmd[p].pkg
Aside(p) == cmd[p].aside
Old(p) == cmd[p].view[NameOf[Pkg(p)]]     \* lockfile.Find in the loaded lock
Busy == {p \in Process : At(p) # "idle"}

Goto(p, place) ==
    cmd' = [cmd EXCEPT ![p] = IF place = "idle" THEN Idle ELSE [@ EXCEPT !.at = place]]

\* Where a command that failed goes from here: back to the old directory, if it
\* had moved one aside.
GiveUp(p) == Goto(p, IF Aside(p) = NoPackage THEN "idle" ELSE "restore")

\* The gates of install and update, then lockfile.Load and Find.
Start(p, o, k) ==
    /\ p \notin Busy
    /\ IF o = "uninstall" THEN lock[NameOf[k]] = k ELSE k \in Allowed
    /\ o = "install" => lock[NameOf[k]] = NoPackage
    /\ cmd' = [cmd EXCEPT ![p] =
           [at |-> IF lock[NameOf[k]] = NoPackage THEN "place" ELSE "verify",
            op |-> o, pkg |-> k, view |-> lock, aside |-> NoPackage]]
    /\ overlap' = (overlap \/ Busy # {})
    /\ UNCHANGED <<dir, lock, left, broken>>

VerifyNothing(p) ==     \* mutant: the installed content is not compared
    /\ At(p) = "verify"
    /\ Goto(p, "stage")
    /\ UNCHANGED <<dir, lock, left, history>>

\* verifyInstalledTarget: the directory is read before it is moved.
Verify(p) ==
    /\ At(p) = "verify"
    /\ Goto(p, IF dir[TargetOf(Old(p))] = Old(p) THEN "stage" ELSE "idle")
    /\ UNCHANGED <<dir, lock, left, history>>

\* The rename to the backup or quarantine path ...
Stage(p) ==
    /\ At(p) = "stage"
    /\ LET t == TargetOf(Old(p)) IN
       /\ dir[t] # NoPackage
       /\ dir' = [dir EXCEPT ![t] = NoPackage]
       /\ cmd' = [cmd EXCEPT ![p].aside = dir[t],
                             ![p].at = IF Op(p) = "uninstall" THEN "write" ELSE "place"]
    /\ UNCHANGED <<lock, left, history>>

\* ... which fails when the target is gone, or for a reason of its own.
StageFails(p) ==
    /\ At(p) = "stage"
    /\ Goto(p, "idle")
    /\ UNCHANGED <<dir, lock, left, history>>

\* packagecheck.Install: Lstat, a staging directory, and a rename that does
\* not replace a directory that is not empty.
Installs(p) ==
    /\ At(p) = "place"
    /\ dir[TargetOf(Pkg(p))] = NoPackage
    /\ dir' = [dir EXCEPT ![TargetOf(Pkg(p))] = Pkg(p)]
    /\ Goto(p, "write")
    /\ UNCHANGED <<lock, left, history>>

InstallFails(p) ==
    /\ At(p) = "place"
    /\ GiveUp(p)
    /\ UNCHANGED <<dir, lock, left, history>>

WrittenOnce(p) ==      \* mutant: Put keeps the entry of a name that has one
    [cmd[p].view EXCEPT ![NameOf[Pkg(p)]] =
        IF Op(p) = "uninstall" THEN NoPackage ELSE IF Old(p) = NoPackage THEN Pkg(p) ELSE Old(p)]

Written(p) ==      \* lockfile.Put or Remove, on the loaded lock
    [cmd[p].view EXCEPT ![NameOf[Pkg(p)]] = IF Op(p) = "uninstall" THEN NoPackage ELSE Pkg(p)]

\* lockfile.Write: a temporary file, fsync, rename.
WriteLock(p) ==
    /\ At(p) = "write"
    /\ lock' = Written(p)
    /\ Goto(p, IF Aside(p) = NoPackage THEN "idle" ELSE "clean")
    /\ UNCHANGED <<dir, left, history>>

WriteFailsKeeps(p) ==     \* mutant: the new directory stays when the lock is not written
    /\ At(p) = "write"
    /\ GiveUp(p)
    /\ UNCHANGED <<dir, lock, left, history>>

WriteFails(p) ==
    /\ At(p) = "write"
    /\ Goto(p, IF Op(p) = "uninstall" THEN "restore" ELSE "discard")
    /\ UNCHANGED <<dir, lock, left, history>>

\* os.RemoveAll: what it may leave of a directory.
AfterRemoveAll(content) ==
    {NoPackage} \cup IF content = NoPackage THEN {} ELSE {content, Remnant}

Breaks(p) == broken' = broken \cup {NameOf[Pkg(p)]}

\* The rollback: RemoveAll of the new directory, whose failure is ignored ...
Discard(p) ==
    /\ At(p) = "discard"
    /\ LET t == TargetOf(Pkg(p)) IN
       \E rest \in AfterRemoveAll(dir[t]) :
          /\ dir' = [dir EXCEPT ![t] = rest]
          /\ IF rest = NoPackage THEN UNCHANGED broken ELSE Breaks(p)
    /\ GiveUp(p)
    /\ UNCHANGED <<lock, left, overlap>>

\* ... and the old one renamed back, which replaces an empty directory at most and
\* whose failure, for whatever reason, is ignored as well.
Restore(p) ==
    /\ At(p) = "restore"
    /\ LET t == TargetOf(Old(p)) IN
       \/ /\ dir[t] \in {NoPackage, Remnant}
          /\ dir' = [dir EXCEPT ![t] = Aside(p)]
          /\ UNCHANGED <<left, broken>>
       \/ left' = left \cup {Aside(p)} /\ Breaks(p) /\ UNCHANGED dir
    /\ Goto(p, "idle")
    /\ UNCHANGED <<lock, overlap>>

\* RemoveAll of the backup; when it fails, the command says so and leaves it.
Clean(p) ==
    /\ At(p) = "clean"
    /\ \E rest \in AfterRemoveAll(Aside(p)) : left' = left \cup ({rest} \ {NoPackage})
    /\ Goto(p, "idle")
    /\ UNCHANGED <<dir, lock, history>>

\* The process stops between two system calls.
Crash(p) ==
    /\ p \in Busy
    /\ left' = left \cup ({Aside(p)} \ {NoPackage})
    /\ Goto(p, "idle")
    /\ Breaks(p)
    /\ UNCHANGED <<dir, lock, overlap>>

Step(p) ==
    \/ Verify(p) \/ Stage(p) \/ StageFails(p) \/ Installs(p) \/ InstallFails(p)
    \/ WriteLock(p) \/ WriteFails(p) \/ Discard(p) \/ Restore(p) \/ Clean(p)

Next == \E p \in Process :
    \/ \E o \in {"install", "update", "uninstall"}, k \in Package : Start(p, o, k)
    \/ Step(p)
    \/ Crash(p)

Spec == Init /\ [][Next]_lifecycleVars

-----------------------------------------------------------------------------
LifecycleTypeOK ==
    /\ dir \in [Target -> Content] /\ lock \in [Name -> Entry]
    /\ cmd \in [Process -> Command]
    /\ left \subseteq Content \ {NoPackage} /\ overlap \in BOOLEAN /\ broken \subseteq Name

Alone == ~overlap

\* A package lies under a target or lock entry of its own name and version.
WellNamed ==
    /\ \A t \in Target : dir[t] \in Package => TargetOf(dir[t]) = t
    /\ \A n \in Name : lock[n] # NoPackage => NameOf[lock[n]] = n

\* A command knows its package and the old one that it looks for, and one that
\* is to restore or to clean up has a directory of its own to do it with.
Located(p) ==
    /\ At(p) # "idle" => Pkg(p) # NoPackage
    /\ At(p) \in {"verify", "stage"} => Old(p) # NoPackage
    /\ At(p) \in {"place", "discard"} => Op(p) # "uninstall"
    /\ At(p) \in {"restore", "clean"} => Aside(p) # NoPackage
    /\ At(p) = "write" /\ Op(p) = "uninstall" => Aside(p) # NoPackage

\* What the step a command has reached says of the files, as long as no other
\* command ran at the same time.
Reached(p) ==
    LET a == At(p) IN
    /\ a \notin {"idle", "clean"} => cmd[p].view = lock
    /\ a \in {"idle", "verify", "stage"} => Aside(p) = NoPackage
    /\ a = "stage" => dir[TargetOf(Old(p))] = Old(p)
    /\ a \in {"place", "write", "discard", "restore"} => Aside(p) = Old(p)
    /\ a \in {"write", "discard", "clean"} /\ Op(p) # "uninstall" => dir[TargetOf(Pkg(p))] = Pkg(p)
    /\ a = "clean" =>
          /\ NameOf[Aside(p)] = NameOf[Pkg(p)]
          /\ lock[NameOf[Pkg(p)]] = IF Op(p) = "uninstall" THEN NoPackage ELSE Pkg(p)

CommandsInv ==
    /\ LifecycleTypeOK
    /\ \A p \in Process : Located(p)
    /\ Alone => WellNamed /\ (\A p, q \in Busy : p = q) /\ \A p \in Process : Reached(p)

Harmless == Allowed \cup {NoPackage, Remnant}

\* Whatever overlaps, fails or stops: what is installed, locked, moved aside or left
\* behind is a package the policy allowed once, under its own name and version, or a part
\* of one; a rollback brings back nothing else (cli.go:1060-1075, packagecheck.Install).
OnlyAllowed ==
    /\ WellNamed
    /\ \A t \in Target : dir[t] \in Harmless
    /\ \A n \in Name : lock[n] \in Allowed \cup {NoPackage}
    /\ \A p \in Process : Aside(p) \in Harmless
    /\ left \subseteq Harmless

LifecycleInv == CommandsInv /\ OnlyAllowed

\* As long as commands run one after the other, the package a name is locked to
\* still exists: under its target, or in a directory it was moved to.  This
\* holds wherever a command stops, and whichever of its steps fails, those of its
\* rollback included.
LockedSurvives ==
    Alone => \A n \in Name : lock[n] # NoPackage =>
        \/ dir[TargetOf(lock[n])] = lock[n]
        \/ lock[n] \in left
        \/ \E p \in Process : Aside(p) = lock[n]

AsLocked(t) ==
    IF lock[t[1]] # NoPackage /\ TargetOf(lock[t[1]]) = t THEN lock[t[1]] ELSE NoPackage

\* "installation rolled back", "uninstall rolled back" (cli.go:1099, 1147): as long as
\* commands run one after the other, the directories of a name nobody works on are what
\* the lock file says, whichever steps failed before: but for names on which a command
\* was stopped or a step of the rollback itself failed, whose error the code ignores.
RolledBackTogether ==
    Alone => \A t \in Target :
        (t[1] \notin broken /\ \A p \in Busy : NameOf[Pkg(p)] # t[1]) => dir[t] = AsLocked(t)

\* Every step of a command takes it nearer to its end and moves no other: none waits for
\* another, and none goes back to a step it has done, also while it undoes what it did.
StepsLeft == [verify |-> 7, stage |-> 6, place |-> 5, write |-> 4, discard |-> 3, restore |-> 2,
              clean |-> 1, idle |-> 0]
NoWayBack ==
    [][\A p \in Process : Step(p) =>
          /\ StepsLeft[At(p)'] < StepsLeft[At(p)]
          /\ \A q \in Process \ {p} : cmd'[q] = cmd[q]]_lifecycleVars

===============================================================================
