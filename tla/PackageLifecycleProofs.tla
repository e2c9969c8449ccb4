------------------------ MODULE PackageLifecycleProofs ------------------------
(***************************************************************************)
(* Theorems of PackageLifecycle: a package a name is locked to survives    *)
(* every crash and failure, and a rollback whose steps succeed restores    *)
(* the directories and the lock file together, for commands that run one   *)
(* after the other; and whatever overlaps, only what was allowed is        *)
(* installed, and no command goes back to a step it has done.              *)
(***************************************************************************)
EXTENDS PackageLifecycle, TLAPS

\* Away from the name a command works on, the directories are what the lock
\* file says; at that name they are what its step says.
DirOf(p, t) ==
    LET a == At(p) IN
    IF a \in {"verify", "stage"} THEN AsLocked(t)
    ELSE IF a \in {"place", "restore"} \/ (a = "write" /\ Op(p) = "uninstall") THEN NoPackage
    ELSE IF a \in {"write", "discard"} THEN IF t = TargetOf(Pkg(p)) THEN Pkg(p) ELSE NoPackage
    ELSE AsLocked(t)

InStep ==
    Alone => \A t \in Target : t[1] \notin broken =>
        /\ Busy = {} => dir[t] = AsLocked(t)
        /\ \A p \in Busy : dir[t] = IF t[1] = NameOf[Pkg(p)] THEN DirOf(p, t) ELSE AsLocked(t)

Inv == CommandsInv /\ LockedSurvives /\ InStep

LEMMA IdleIsCommand == Idle \in Command
    BY DEF Idle, Command, Place, Entry, Content

LEMMA InitInv == Init => Inv
<1> SUFFICES ASSUME Init PROVE Inv
    OBVIOUS
<1> USE DEF Init
<1>1. \A p \in Process : cmd[p] = Idle /\ At(p) = "idle" /\ Aside(p) = NoPackage
    BY DEF Idle, At, Aside
<1>2. LifecycleTypeOK
    BY IdleIsCommand DEF LifecycleTypeOK, Entry, Content
<1>3. Busy = {}
    BY <1>1 DEF Busy
<1>4. \A p \in Process : Located(p) /\ Reached(p)
    BY <1>1 DEF Located, Reached
<1>5. WellNamed
    BY LifecycleAssumption DEF WellNamed
<1>6. CommandsInv
    BY <1>2, <1>3, <1>4, <1>5 DEF CommandsInv
<1>7. LockedSurvives
    BY DEF LockedSurvives
<1>8. InStep
  <2>1. \A t \in Target : t[1] \in Name
      BY DEF Target, Name
  <2>2. \A t \in Target : dir[t] = AsLocked(t)
      BY <2>1 DEF AsLocked
  <2> QED BY <1>3, <2>2 DEF InStep
<1> QED BY <1>6, <1>7, <1>8 DEF Inv

\* What Goto does to the commands.
LEMMA GotoMoves ==
    ASSUME LifecycleTypeOK, NEW p \in Process, NEW place \in Place, Goto(p, place)
    PROVE  /\ cmd' \in [Process -> Command]
           /\ \A q \in Process : q # p => cmd'[q] = cmd[q]
           /\ place = "idle" => cmd'[p] = Idle
           /\ place # "idle" => /\ cmd'[p].at = place /\ cmd'[p].op = cmd[p].op
                               /\ cmd'[p].pkg = cmd[p].pkg /\ cmd'[p].view = cmd[p].view
                               /\ cmd'[p].aside = cmd[p].aside
<1>1. cmd \in [Process -> Command] /\ cmd[p] \in Command
    BY DEF LifecycleTypeOK
<1>2. [cmd[p] EXCEPT !.at = place] \in Command
    BY <1>1 DEF Command
<1>3. cmd' = [cmd EXCEPT ![p] = IF place = "idle" THEN Idle ELSE [cmd[p] EXCEPT !.at = place]]
    BY DEF Goto
<1>4. cmd' \in [Process -> Command]
    BY <1>1, <1>2, <1>3, IdleIsCommand
<1>5. \A q \in Process : q # p => cmd'[q] = cmd[q]
    BY <1>1, <1>3
<1>6. cmd'[p] = IF place = "idle" THEN Idle ELSE [cmd[p] EXCEPT !.at = place]
    BY <1>1, <1>3
<1>7. place # "idle" => /\ cmd'[p].at = place /\ cmd'[p].op = cmd[p].op
                        /\ cmd'[p].pkg = cmd[p].pkg /\ cmd'[p].view = cmd[p].view
                        /\ cmd'[p].aside = cmd[p].aside
    BY <1>1, <1>6 DEF Command
<1> QED BY <1>4, <1>5, <1>6, <1>7

LEMMA BusyName ==
    ASSUME Inv, NEW p \in Process, At(p) # "idle"
    PROVE  Pkg(p) \in Package /\ NameOf[Pkg(p)] \in Name /\ TargetOf(Pkg(p)) \in Target
<1>1. Pkg(p) \in Entry /\ Pkg(p) # NoPackage
    BY DEF Inv, CommandsInv, LifecycleTypeOK, Command, Pkg, Located
<1> QED BY <1>1 DEF Entry, Name, Target, TargetOf

\* The facts of a command that is alone, before its step.
LEMMA AloneFacts ==
    ASSUME Inv, NEW p \in Process, At(p) # "idle", Alone
    PROVE  /\ LifecycleTypeOK /\ WellNamed /\ Reached(p) /\ Located(p)
           /\ \A q \in Process : q # p => At(q) = "idle" /\ Aside(q) = NoPackage
           /\ Pkg(p) \in Package /\ NameOf[Pkg(p)] \in Name /\ TargetOf(Pkg(p)) \in Target
           /\ Busy = {p}
<1>1. LifecycleTypeOK /\ WellNamed /\ Located(p) /\ \A q \in Process : Reached(q)
    BY DEF Inv, CommandsInv
<1>2. \A q \in Process : q # p => At(q) = "idle"
    BY DEF Inv, CommandsInv, Busy
<1>3. \A q \in Process : q # p => Aside(q) = NoPackage
    BY <1>1, <1>2 DEF Reached, Located
<1>4. Pkg(p) \in Package
    BY <1>1 DEF Located, LifecycleTypeOK, Command, Pkg, Entry
<1>5. NameOf[Pkg(p)] \in Name /\ TargetOf(Pkg(p)) \in Target
    BY <1>4 DEF Name, Target, TargetOf
<1>6. Busy = {p}
    BY <1>2 DEF Busy
<1> QED BY <1>1, <1>2, <1>3, <1>4, <1>5, <1>6

\* The old package, at the steps before the lock file is written.
LEMMA OldFacts ==
    ASSUME Inv, NEW p \in Process, At(p) \notin {"idle", "clean"}, Alone
    PROVE  /\ Old(p) = lock[NameOf[Pkg(p)]] /\ Old(p) \in Entry
           /\ Old(p) # NoPackage => /\ NameOf[Old(p)] = NameOf[Pkg(p)]
                                    /\ TargetOf(Old(p)) \in Target
                                    /\ TargetOf(Old(p))[1] = NameOf[Pkg(p)]
<1>1. LifecycleTypeOK /\ WellNamed /\ Reached(p) /\ NameOf[Pkg(p)] \in Name
    BY AloneFacts
<1>2. Old(p) = lock[NameOf[Pkg(p)]]
    BY <1>1 DEF Reached, Old
<1>3. Old(p) \in Entry
    BY <1>1, <1>2 DEF LifecycleTypeOK
<1>4. Old(p) # NoPackage => NameOf[Old(p)] = NameOf[Pkg(p)]
    BY <1>1, <1>2 DEF WellNamed
<1>5. Old(p) # NoPackage => TargetOf(Old(p)) \in Target
    BY <1>3 DEF Entry, Target, TargetOf
<1> QED BY <1>2, <1>3, <1>4, <1>5 DEF TargetOf

\* A step of a busy command keeps the invariant if it keeps the types and, when
\* the command is alone, what is said of its step and of the files.
LEMMA Assemble ==
    ASSUME Inv, NEW p \in Process, At(p) # "idle", overlap' = overlap, LifecycleTypeOK',
           \A q \in Process : q # p => cmd'[q] = cmd[q],
           Located(p)', Alone => WellNamed' /\ Reached(p)'
    PROVE  /\ CommandsInv'
           /\ Alone => /\ Alone' /\ Busy' \subseteq {p}
                       /\ \A q \in Process : q # p => Aside(q) = NoPackage /\ Aside(q)' = NoPackage
<1>1. ASSUME NEW q \in Process PROVE Located(q)'
  <2>1. CASE q = p
      BY <2>1
  <2>2. CASE q # p
    <3>1. Located(q) /\ cmd'[q] = cmd[q]
        BY <2>2 DEF Inv, CommandsInv
    <3> QED BY <3>1 DEF Located, At, Op, Pkg, Old, Aside
  <2> QED BY <2>1, <2>2
<1>2. Alone' <=> Alone
    BY DEF Alone
<1>3. ASSUME Alone PROVE \A q \in Process : q # p => At(q)' = "idle" /\ Aside(q) = NoPackage /\ Aside(q)' = NoPackage
    BY <1>3, AloneFacts DEF At, Aside
<1>4. ASSUME Alone PROVE Busy' \subseteq {p}
    BY <1>3, <1>4 DEF Busy
<1>5. ASSUME Alone, NEW q \in Process PROVE Reached(q)'
  <2>1. CASE q = p
      BY <2>1, <1>5
  <2>2. CASE q # p
    <3>1. At(q)' = "idle" /\ Aside(q)' = NoPackage
        BY <1>3, <1>5, <2>2
    <3> QED BY <3>1 DEF Reached, Located
  <2> QED BY <2>1, <2>2
<1>6. CommandsInv'
    BY <1>1, <1>2, <1>4, <1>5 DEF CommandsInv
<1> QED BY <1>2, <1>3, <1>4, <1>6

LEMMA GotoFacts ==
    ASSUME LifecycleTypeOK, NEW p \in Process, NEW place \in Place, Goto(p, place)
    PROVE  /\ At(p)' = place
           /\ place = "idle" => Aside(p)' = NoPackage
           /\ place # "idle" => /\ Op(p)' = Op(p) /\ Pkg(p)' = Pkg(p) /\ Aside(p)' = Aside(p)
                               /\ cmd'[p].view = cmd[p].view /\ Old(p)' = Old(p)
<1>1. cmd'[p] = Idle => At(p)' = "idle" /\ Aside(p)' = NoPackage
    BY DEF Idle, At, Aside
<1> QED BY GotoMoves, <1>1 DEF At, Op, Pkg, Aside, Old

\* The directories at a step of a command that is alone, and none stopped.
LEMMA FilesOf ==
    ASSUME Inv, NEW p \in Process, At(p) # "idle", Alone, NEW t \in Target, t[1] \notin broken
    PROVE  dir[t] = IF t[1] = NameOf[Pkg(p)] THEN DirOf(p, t) ELSE AsLocked(t)
<1>1. p \in Busy
    BY DEF Busy
<1> QED BY <1>1 DEF Inv, InStep

\* What is left to show of a step of a busy command, for the files.
LEMMA Settle ==
    ASSUME NEW p \in Process, overlap' = overlap,
           Alone => Busy' \subseteq {p},
           Alone /\ At(p)' = "idle" => \A t \in Target :
               t[1] \notin broken' => dir'[t] = AsLocked(t)',
           Alone /\ At(p)' # "idle" => \A t \in Target : t[1] \notin broken' =>
               dir'[t] = IF t[1] = NameOf[Pkg(p)'] THEN DirOf(p, t)' ELSE AsLocked(t)'
    PROVE  InStep'
<1>1. Alone' <=> Alone
    BY DEF Alone
<1>2. Busy' = {} => At(p)' = "idle"
    BY DEF Busy
<1>3. ASSUME Alone, NEW q \in Busy' PROVE q = p /\ At(p)' # "idle"
    BY <1>3 DEF Busy
<1> QED BY <1>1, <1>2, <1>3 DEF InStep

\* The lock file's entries survive a step that leaves the lock file alone, when
\* what it takes from a directory or from the command's own side is elsewhere.
LEMMA Survive ==
    ASSUME Inv, NEW p \in Process, At(p) # "idle", overlap' = overlap, lock' = lock,
           left \subseteq left',
           Alone => \A n \in Name : lock[n] # NoPackage =>
               /\ dir[TargetOf(lock[n])] = lock[n] =>
                     \/ dir'[TargetOf(lock[n])] = lock[n] \/ Aside(p)' = lock[n]
               /\ Aside(p) = lock[n] =>
                     \/ dir'[TargetOf(lock[n])] = lock[n]
                     \/ Aside(p)' = lock[n] \/ lock[n] \in left'
    PROVE  LockedSurvives'
<1> SUFFICES ASSUME Alone', NEW n \in Name, lock'[n] # NoPackage
             PROVE  \/ dir'[TargetOf(lock'[n])] = lock'[n] \/ lock'[n] \in left'
                    \/ \E q \in Process : Aside(q)' = lock'[n]
    BY DEF LockedSurvives
<1>1. Alone /\ lock'[n] = lock[n] /\ lock[n] # NoPackage
    BY DEF Alone
<1>2. \A q \in Process : q # p => Aside(q) = NoPackage
    BY <1>1, AloneFacts
<1>3. \/ dir[TargetOf(lock[n])] = lock[n] \/ lock[n] \in left \/ Aside(p) = lock[n]
    BY <1>1, <1>2 DEF Inv, LockedSurvives
<1> QED BY <1>1, <1>3

LEMMA VerifyStep ==
    ASSUME Inv, NEW p \in Process, Verify(p)
    PROVE  Inv'
<1> DEFINE place == IF dir[TargetOf(Old(p))] = Old(p) THEN "stage" ELSE "idle"
<1>1. At(p) = "verify" /\ Goto(p, place) /\ UNCHANGED <<dir, lock, left, overlap, broken>>
    BY DEF Verify, history
<1>2. LifecycleTypeOK /\ Located(p)
    BY DEF Inv, CommandsInv
<1>3. place \in Place /\ place # "verify"
    BY DEF Place
<1> HIDE DEF place
<1>4. LifecycleTypeOK'
    BY <1>1, <1>2, <1>3, GotoMoves DEF LifecycleTypeOK
<1>5. /\ At(p)' = place
      /\ place = "idle" => Aside(p)' = NoPackage
      /\ place # "idle" => /\ Op(p)' = Op(p) /\ Pkg(p)' = Pkg(p) /\ Aside(p)' = Aside(p)
                          /\ cmd'[p].view = cmd[p].view /\ Old(p)' = Old(p)
    BY <1>1, <1>2, <1>3, GotoFacts
<1>6. place \in {"idle", "stage"} /\ (place = "stage" => dir[TargetOf(Old(p))] = Old(p))
    BY DEF place
<1>7. Located(p)'
    BY <1>1, <1>2, <1>5, <1>6 DEF Located
<1>8. ASSUME Alone PROVE WellNamed' /\ Reached(p)'
  <2>1. WellNamed /\ Reached(p)
      BY <1>1, <1>8, AloneFacts
  <2>2. WellNamed'
      BY <2>1, <1>1 DEF WellNamed
  <2>3. Reached(p)'
      BY <2>1, <1>1, <1>5, <1>6 DEF Reached, Located
  <2> QED BY <2>2, <2>3
<1>9. /\ CommandsInv'
      /\ Alone => /\ Alone' /\ Busy' \subseteq {p}
                  /\ \A q \in Process : q # p => Aside(q) = NoPackage /\ Aside(q)' = NoPackage
    BY <1>1, <1>2, <1>3, <1>4, <1>7, <1>8, GotoMoves, Assemble
<1>10. LockedSurvives'
  <2>1. Alone => Aside(p) = NoPackage
      BY <1>1, AloneFacts DEF Reached, Located
  <2> QED BY <1>1, <2>1, Survive
<1>11. InStep'
  <2>1. ASSUME Alone, NEW t \in Target, t[1] \notin broken PROVE dir'[t] = AsLocked(t)' /\ (place = "stage" => DirOf(p, t)' = AsLocked(t)')
    <3>1. dir[t] = AsLocked(t)
        BY <2>1, <1>1, FilesOf DEF DirOf
    <3>2. AsLocked(t)' = AsLocked(t)
        BY <1>1 DEF AsLocked
    <3>3. place = "stage" => DirOf(p, t)' = AsLocked(t)'
        BY <1>5 DEF DirOf
    <3> QED BY <3>1, <3>2, <3>3, <1>1
  <2> QED BY <2>1, <1>1, <1>5, <1>6, <1>9, Settle
<1> QED BY <1>9, <1>10, <1>11 DEF Inv

\* The steps that only move a command and leave every file alone.
LEMMA StageFailsStep ==
    ASSUME Inv, NEW p \in Process, StageFails(p)
    PROVE  Inv'
<1>1. At(p) = "stage" /\ Goto(p, "idle") /\ UNCHANGED <<dir, lock, left, overlap, broken>>
    BY DEF StageFails, history
<1>2. LifecycleTypeOK /\ Located(p) /\ "idle" \in Place
    BY DEF Inv, CommandsInv, Place
<1>3. LifecycleTypeOK'
    BY <1>1, <1>2, GotoMoves DEF LifecycleTypeOK
<1>4. At(p)' = "idle" /\ Aside(p)' = NoPackage
    BY <1>1, <1>2, GotoFacts
<1>5. Located(p)'
    BY <1>4 DEF Located
<1>6. ASSUME Alone PROVE WellNamed' /\ Reached(p)'
  <2>1. WellNamed
      BY <1>1, <1>6, AloneFacts
  <2> QED BY <2>1, <1>1, <1>4 DEF WellNamed, Reached, Located
<1>7. /\ CommandsInv'
      /\ Alone => Alone' /\ Busy' \subseteq {p}
    BY <1>1, <1>2, <1>3, <1>5, <1>6, GotoMoves, Assemble
<1>8. LockedSurvives'
  <2>1. Alone => Aside(p) = NoPackage
      BY <1>1, AloneFacts DEF Reached, Located
  <2> QED BY <1>1, <2>1, Survive
<1>9. ASSUME Alone, NEW t \in Target, t[1] \notin broken PROVE dir'[t] = AsLocked(t)'
  <2>1. dir[t] = AsLocked(t)
      BY <1>9, <1>1, FilesOf DEF DirOf
  <2> QED BY <2>1, <1>1 DEF AsLocked
<1>10. InStep'
    BY <1>9, <1>1, <1>4, <1>7, Settle
<1> QED BY <1>7, <1>8, <1>10 DEF Inv

LEMMA InstallFailsStep ==
    ASSUME Inv, NEW p \in Process, InstallFails(p)
    PROVE  Inv'
<1> DEFINE place == IF Aside(p) = NoPackage THEN "idle" ELSE "restore"
<1>1. At(p) = "place" /\ Goto(p, place) /\ UNCHANGED <<dir, lock, left, overlap, broken>>
    BY DEF InstallFails, GiveUp, history
<1>2. LifecycleTypeOK /\ Located(p)
    BY DEF Inv, CommandsInv
<1>3. place \in Place /\ place \in {"idle", "restore"} /\ (place = "idle" <=> Aside(p) = NoPackage)
    BY DEF Place
<1> HIDE DEF place
<1>4. LifecycleTypeOK'
    BY <1>1, <1>2, <1>3, GotoMoves DEF LifecycleTypeOK
<1>5. /\ At(p)' = place /\ Aside(p)' = Aside(p)
      /\ place # "idle" => /\ Op(p)' = Op(p) /\ Pkg(p)' = Pkg(p)
                          /\ cmd'[p].view = cmd[p].view /\ Old(p)' = Old(p)
    BY <1>1, <1>2, <1>3, GotoFacts
<1>6. Located(p)'
    BY <1>1, <1>2, <1>3, <1>5 DEF Located
<1>7. ASSUME Alone PROVE WellNamed' /\ Reached(p)'
  <2>1. WellNamed /\ Reached(p)
      BY <1>1, <1>7, AloneFacts
  <2> QED BY <2>1, <1>1, <1>3, <1>5 DEF WellNamed, Reached, Located
<1>8. /\ CommandsInv'
      /\ Alone => Alone' /\ Busy' \subseteq {p}
    BY <1>1, <1>2, <1>3, <1>4, <1>6, <1>7, GotoMoves, Assemble
<1>9. LockedSurvives'
    BY <1>1, <1>5, Survive
<1>10. ASSUME Alone, NEW t \in Target, t[1] \notin broken
       PROVE  /\ place = "idle" => dir'[t] = AsLocked(t)'
              /\ place = "restore" =>
                    dir'[t] = IF t[1] = NameOf[Pkg(p)'] THEN DirOf(p, t)' ELSE AsLocked(t)'
  <2>1. dir[t] = IF t[1] = NameOf[Pkg(p)] THEN NoPackage ELSE AsLocked(t)
      BY <1>10, <1>1, FilesOf DEF DirOf
  <2>2. AsLocked(t)' = AsLocked(t)
      BY <1>1 DEF AsLocked
  <2>3. place = "restore" => DirOf(p, t)' = NoPackage /\ Pkg(p)' = Pkg(p)
      BY <1>5 DEF DirOf
  <2>4. place = "idle" => lock[NameOf[Pkg(p)]] = NoPackage
      BY <1>1, <1>3, <1>10, AloneFacts, OldFacts DEF Reached, Located
  <2>5. place = "idle" /\ t[1] = NameOf[Pkg(p)] => AsLocked(t) = NoPackage
      BY <2>4 DEF AsLocked
  <2> QED BY <2>1, <2>2, <2>3, <2>5, <1>1
<1>11. InStep'
    BY <1>10, <1>1, <1>3, <1>5, <1>8, Settle
<1> QED BY <1>8, <1>9, <1>11 DEF Inv

LEMMA WriteFailsStep ==
    ASSUME Inv, NEW p \in Process, WriteFails(p)
    PROVE  Inv'
<1> DEFINE place == IF Op(p) = "uninstall" THEN "restore" ELSE "discard"
<1>1. At(p) = "write" /\ Goto(p, place) /\ UNCHANGED <<dir, lock, left, overlap, broken>>
    BY DEF WriteFails, history
<1>2. LifecycleTypeOK /\ Located(p)
    BY DEF Inv, CommandsInv
<1>3. place \in Place /\ place \in {"restore", "discard"} /\ (place = "restore" <=> Op(p) = "uninstall")
    BY DEF Place
<1> HIDE DEF place
<1>4. LifecycleTypeOK'
    BY <1>1, <1>2, <1>3, GotoMoves DEF LifecycleTypeOK
<1>5. /\ At(p)' = place /\ Aside(p)' = Aside(p) /\ Op(p)' = Op(p) /\ Pkg(p)' = Pkg(p)
      /\ cmd'[p].view = cmd[p].view /\ Old(p)' = Old(p)
    BY <1>1, <1>2, <1>3, GotoFacts
<1>6. Located(p)'
    BY <1>1, <1>2, <1>3, <1>5 DEF Located
<1>7. ASSUME Alone PROVE WellNamed' /\ Reached(p)'
  <2>1. WellNamed /\ Reached(p)
      BY <1>1, <1>7, AloneFacts
  <2>2. WellNamed'
      BY <2>1, <1>1 DEF WellNamed
  <2>3. CASE place = "discard"
      BY <2>1, <2>2, <2>3, <1>1, <1>3, <1>5 DEF Reached, Located
  <2>4. CASE place = "restore"
    <3>1. Aside(p) # NoPackage
        BY <2>4, <1>1, <1>2, <1>3 DEF Located
    <3> QED BY <3>1, <2>1, <2>2, <2>4, <1>1, <1>3, <1>5 DEF Reached, Located
  <2> QED BY <2>2, <2>3, <2>4, <1>3
<1>8. /\ CommandsInv'
      /\ Alone => Alone' /\ Busy' \subseteq {p}
    BY <1>1, <1>2, <1>3, <1>4, <1>6, <1>7, GotoMoves, Assemble
<1>9. LockedSurvives'
    BY <1>1, <1>5, Survive
<1>10. ASSUME Alone, NEW t \in Target, t[1] \notin broken
       PROVE  dir'[t] = IF t[1] = NameOf[Pkg(p)'] THEN DirOf(p, t)' ELSE AsLocked(t)'
  <2>1. dir[t] = IF t[1] = NameOf[Pkg(p)] THEN DirOf(p, t) ELSE AsLocked(t)
      BY <1>10, <1>1, FilesOf
  <2>2. AsLocked(t)' = AsLocked(t)
      BY <1>1 DEF AsLocked
  <2>3. DirOf(p, t)' = DirOf(p, t)
      BY <1>1, <1>3, <1>5 DEF DirOf
  <2> QED BY <2>1, <2>2, <2>3, <1>1, <1>5
<1>11. InStep'
    BY <1>10, <1>1, <1>3, <1>5, <1>8, Settle
<1> QED BY <1>8, <1>9, <1>11 DEF Inv

LEMMA StageStep ==
    ASSUME Inv, NEW p \in Process, Stage(p)
    PROVE  Inv'
<1> DEFINE place == IF Op(p) = "uninstall" THEN "write" ELSE "place"
           o == TargetOf(Old(p))
<1>1. /\ At(p) = "stage" /\ dir[o] # NoPackage
      /\ dir' = [dir EXCEPT ![o] = NoPackage]
      /\ cmd' = [cmd EXCEPT ![p].aside = dir[o], ![p].at = place]
      /\ UNCHANGED <<lock, left, overlap, broken>>
    BY DEF Stage, history
<1>2. LifecycleTypeOK /\ Located(p) /\ cmd[p] \in Command /\ cmd \in [Process -> Command]
    BY DEF Inv, CommandsInv, LifecycleTypeOK
<1>3. o \in Target
  <2>1. Old(p) # NoPackage /\ Pkg(p) # NoPackage
      BY <1>1, <1>2 DEF Located
  <2>2. NameOf[Pkg(p)] \in Name
      BY <2>1, <1>2 DEF Command, Entry, Pkg, Name
  <2>3. Old(p) \in Package
      BY <2>1, <2>2, <1>2 DEF Old, Command, Entry
  <2> QED BY <2>3 DEF Target, TargetOf
<1>4. dir[o] \in Content /\ place \in Place /\ place \in {"write", "place"} /\ (place = "write" <=> Op(p) = "uninstall")
    BY <1>2, <1>3 DEF LifecycleTypeOK, Place
<1> HIDE DEF place, o
<1>5. cmd'[p] = [cmd[p] EXCEPT !.aside = dir[o], !.at = place] /\ \A q \in Process : q # p => cmd'[q] = cmd[q]
    BY <1>1, <1>2
<1>6. cmd'[p] \in Command /\ cmd' \in [Process -> Command]
    BY <1>1, <1>2, <1>4, <1>5 DEF Command
<1>7. LifecycleTypeOK'
    BY <1>1, <1>2, <1>6 DEF LifecycleTypeOK, Entry, Content
<1>8. /\ At(p)' = place /\ Aside(p)' = dir[o] /\ Op(p)' = Op(p) /\ Pkg(p)' = Pkg(p)
      /\ cmd'[p].view = cmd[p].view /\ Old(p)' = Old(p)
    BY <1>2, <1>5 DEF Command, At, Aside, Op, Pkg, Old
<1>9. Located(p)'
    BY <1>1, <1>2, <1>4, <1>8 DEF Located
<1>10. ASSUME Alone PROVE WellNamed' /\ Reached(p)'
  <2>1. WellNamed /\ Reached(p) /\ dir[o] = Old(p)
      BY <1>1, <1>10, AloneFacts DEF Reached, o
  <2>2. WellNamed'
    <3>1. ASSUME NEW t \in Target, dir'[t] \in Package PROVE dir'[t] = dir[t]
        BY <3>1, <1>1, <1>2, LifecycleAssumption DEF LifecycleTypeOK
    <3> QED BY <3>1, <2>1, <1>1 DEF WellNamed
  <2>3. Reached(p)'
      BY <2>1, <1>1, <1>4, <1>8 DEF Reached, Located
  <2> QED BY <2>2, <2>3
<1>11. /\ CommandsInv'
       /\ Alone => Alone' /\ Busy' \subseteq {p}
    BY <1>1, <1>2, <1>5, <1>7, <1>9, <1>10, Assemble
<1>12. LockedSurvives'
  <2>1. ASSUME Alone, NEW n \in Name, lock[n] # NoPackage
        PROVE  /\ Aside(p) = NoPackage
               /\ dir[TargetOf(lock[n])] = lock[n] =>
                     dir'[TargetOf(lock[n])] = lock[n] \/ Aside(p)' = lock[n]
    <3>1. Aside(p) = NoPackage
        BY <1>1, <2>1, AloneFacts DEF Reached, Located
    <3>2. TargetOf(lock[n]) \in Target
        BY <2>1, <1>2 DEF LifecycleTypeOK, Entry, Target, TargetOf
    <3> QED BY <3>1, <3>2, <1>1, <1>2, <1>8 DEF LifecycleTypeOK
  <2> QED BY <2>1, <1>1, Survive
<1>13. ASSUME Alone, NEW t \in Target, t[1] \notin broken
       PROVE  dir'[t] = IF t[1] = NameOf[Pkg(p)'] THEN DirOf(p, t)' ELSE AsLocked(t)'
  <2>1. dir[t] = AsLocked(t)
      BY <1>13, <1>1, FilesOf DEF DirOf
  <2>2. AsLocked(t)' = AsLocked(t)
      BY <1>1 DEF AsLocked
  <2>3. DirOf(p, t)' = NoPackage
      BY <1>4, <1>8 DEF DirOf
  <2>4. Old(p) = lock[NameOf[Pkg(p)]] /\ o[1] = NameOf[Pkg(p)] /\ lock[NameOf[Pkg(p)]] # NoPackage
      BY <1>1, <1>2, <1>13, OldFacts DEF Located, o
  <2>5. t[1] = NameOf[Pkg(p)] /\ t # o => AsLocked(t) = NoPackage
      BY <2>4 DEF AsLocked, o
  <2> QED BY <2>1, <2>2, <2>3, <2>4, <2>5, <1>1, <1>2, <1>8 DEF LifecycleTypeOK
<1>14. InStep'
    BY <1>13, <1>1, <1>4, <1>8, <1>11, Settle
<1> QED BY <1>11, <1>12, <1>14 DEF Inv

LEMMA InstallsStep ==
    ASSUME Inv, NEW p \in Process, Installs(p)
    PROVE  Inv'
<1> DEFINE o == TargetOf(Pkg(p))
<1>1. /\ At(p) = "place" /\ dir[o] = NoPackage /\ dir' = [dir EXCEPT ![o] = Pkg(p)]
      /\ Goto(p, "write") /\ UNCHANGED <<lock, left, overlap, broken>>
    BY DEF Installs, history
<1>2. LifecycleTypeOK /\ Located(p) /\ "write" \in Place
    BY DEF Inv, CommandsInv, Place
<1>3. Pkg(p) \in Package /\ o \in Target
  <2>1. Pkg(p) \in Entry /\ Pkg(p) # NoPackage
      BY <1>1, <1>2 DEF LifecycleTypeOK, Command, Pkg, Located
  <2> QED BY <2>1 DEF Entry, Target, TargetOf
<1>4. LifecycleTypeOK'
    BY <1>1, <1>2, <1>3, GotoMoves DEF LifecycleTypeOK, Entry, Content
<1>5. /\ At(p)' = "write" /\ Aside(p)' = Aside(p) /\ Op(p)' = Op(p) /\ Pkg(p)' = Pkg(p)
      /\ cmd'[p].view = cmd[p].view /\ Old(p)' = Old(p)
    BY <1>1, <1>2, GotoFacts
<1>6. Located(p)'
    BY <1>1, <1>2, <1>5 DEF Located
<1>7. ASSUME Alone PROVE WellNamed' /\ Reached(p)'
  <2>1. WellNamed /\ Reached(p)
      BY <1>1, <1>7, AloneFacts
  <2>2. WellNamed'
      BY <2>1, <1>1, <1>2, <1>3 DEF WellNamed, LifecycleTypeOK
  <2>3. dir'[o] = Pkg(p)
      BY <1>1, <1>2, <1>3 DEF LifecycleTypeOK
  <2>4. Reached(p)'
      BY <2>1, <2>3, <1>1, <1>5 DEF Reached, Located
  <2> QED BY <2>2, <2>4
<1>8. /\ CommandsInv'
      /\ Alone => Alone' /\ Busy' \subseteq {p}
    BY <1>1, <1>2, <1>4, <1>6, <1>7, GotoMoves, Assemble
<1>9. LockedSurvives'
  <2>1. ASSUME NEW n \in Name, lock[n] # NoPackage, dir[TargetOf(lock[n])] = lock[n]
        PROVE  dir'[TargetOf(lock[n])] = lock[n]
    <3>1. TargetOf(lock[n]) \in Target
        BY <2>1, <1>2 DEF LifecycleTypeOK, Entry, Target, TargetOf
    <3> QED BY <3>1, <2>1, <1>1, <1>2 DEF LifecycleTypeOK
  <2> QED BY <2>1, <1>1, <1>5, Survive
<1>10. ASSUME Alone, NEW t \in Target, t[1] \notin broken
       PROVE  dir'[t] = IF t[1] = NameOf[Pkg(p)'] THEN DirOf(p, t)' ELSE AsLocked(t)'
  <2>1. dir[t] = IF t[1] = NameOf[Pkg(p)] THEN NoPackage ELSE AsLocked(t)
      BY <1>10, <1>1, FilesOf DEF DirOf
  <2>2. AsLocked(t)' = AsLocked(t)
      BY <1>1 DEF AsLocked
  <2>3. Op(p) # "uninstall" /\ o[1] = NameOf[Pkg(p)]
      BY <1>1, <1>10, AloneFacts DEF Reached, Located, TargetOf
  <2>4. DirOf(p, t)' = IF t = o THEN Pkg(p) ELSE NoPackage
      BY <1>5, <2>3 DEF DirOf
  <2> QED BY <2>1, <2>2, <2>3, <2>4, <1>1, <1>2, <1>5 DEF LifecycleTypeOK
<1>11. InStep'
    BY <1>10, <1>1, <1>5, <1>8, Settle
<1> QED BY <1>8, <1>9, <1>11 DEF Inv

LEMMA DiscardStep ==
    ASSUME Inv, NEW p \in Process, Discard(p)
    PROVE  Inv'
<1> DEFINE place == IF Aside(p) = NoPackage THEN "idle" ELSE "restore"
           o == TargetOf(Pkg(p))
<1>1. /\ At(p) = "discard" /\ Goto(p, place) /\ UNCHANGED <<lock, left, overlap>>
      /\ \E rest \in AfterRemoveAll(dir[o]) :
            /\ dir' = [dir EXCEPT ![o] = rest]
            /\ rest # NoPackage => broken' = broken \cup {NameOf[Pkg(p)]}
            /\ rest = NoPackage => broken' = broken
    BY DEF Discard, GiveUp, Breaks
<1>2. /\ LifecycleTypeOK /\ Located(p) /\ Pkg(p) \in Package /\ NameOf[Pkg(p)] \in Name
      /\ o \in Target
    BY <1>1, BusyName DEF Inv, CommandsInv
<1>a. PICK rest \in {NoPackage, Remnant, dir[o]} :
            /\ dir' = [dir EXCEPT ![o] = rest]
            /\ rest # NoPackage => broken' = broken \cup {NameOf[Pkg(p)]}
            /\ rest = NoPackage => broken' = broken
    BY <1>1 DEF AfterRemoveAll
<1>b. /\ rest \in Content /\ broken' \subseteq Name /\ broken \subseteq broken'
      /\ dir'[o] = rest /\ \A t \in Target : t # o => dir'[t] = dir[t]
    BY <1>2, <1>a DEF LifecycleTypeOK, Content, Entry
<1>3. place \in Place /\ place \in {"idle", "restore"} /\ (place = "idle" <=> Aside(p) = NoPackage)
    BY DEF Place
<1> HIDE DEF place
<1>4. LifecycleTypeOK'
    BY <1>1, <1>2, <1>3, <1>a, <1>b, GotoMoves DEF LifecycleTypeOK
<1>5. /\ At(p)' = place /\ Aside(p)' = Aside(p)
      /\ place # "idle" => /\ Op(p)' = Op(p) /\ Pkg(p)' = Pkg(p)
                          /\ cmd'[p].view = cmd[p].view /\ Old(p)' = Old(p)
    BY <1>1, <1>2, <1>3, GotoFacts
<1>6. Located(p)'
    BY <1>1, <1>2, <1>3, <1>5 DEF Located
<1>7. ASSUME Alone PROVE WellNamed' /\ Reached(p)'
  <2>1. WellNamed /\ Reached(p)
      BY <1>1, <1>7, AloneFacts
  <2>2. WellNamed'
    <3>1. ASSUME NEW t \in Target, dir'[t] \in Package PROVE dir'[t] = dir[t]
        BY <3>1, <1>2, <1>a, <1>b, LifecycleAssumption
    <3> QED BY <3>1, <2>1, <1>1 DEF WellNamed
  <2>3. Reached(p)'
      BY <2>1, <1>1, <1>3, <1>5 DEF Reached, Located
  <2> QED BY <2>2, <2>3
<1>8. /\ CommandsInv'
      /\ Alone => Alone' /\ Busy' \subseteq {p}
    BY <1>1, <1>2, <1>3, <1>4, <1>6, <1>7, GotoMoves, Assemble
<1>9. LockedSurvives'
  <2>1. ASSUME Alone, NEW n \in Name, lock[n] # NoPackage, dir[TargetOf(lock[n])] = lock[n]
        PROVE  dir'[TargetOf(lock[n])] = lock[n] \/ Aside(p) = lock[n]
    <3>1. TargetOf(lock[n]) \in Target
        BY <2>1, <1>2 DEF LifecycleTypeOK, Entry, Target, TargetOf
    <3>2. CASE TargetOf(lock[n]) # o
        BY <3>1, <3>2, <2>1, <1>b
    <3>3. CASE TargetOf(lock[n]) = o
      <4>1. NameOf[lock[n]] = n /\ NameOf[lock[n]] = NameOf[Pkg(p)]
          BY <3>3, <2>1, <1>1, AloneFacts DEF WellNamed, TargetOf
      <4>2. Aside(p) = lock[NameOf[Pkg(p)]]
          BY <2>1, <1>1, AloneFacts, OldFacts DEF Reached, Located
      <4> QED BY <4>1, <4>2
    <3> QED BY <3>2, <3>3
  <2> QED BY <2>1, <1>1, <1>5, Survive
<1>10. ASSUME Alone, NEW t \in Target, t[1] \notin broken'
       PROVE  /\ place = "idle" => dir'[t] = AsLocked(t)'
              /\ place = "restore" =>
                    dir'[t] = IF t[1] = NameOf[Pkg(p)'] THEN DirOf(p, t)' ELSE AsLocked(t)'
  <2>1. dir[t] = IF t[1] = NameOf[Pkg(p)]
                 THEN IF t = o THEN Pkg(p) ELSE NoPackage ELSE AsLocked(t)
      BY <1>10, <1>1, <1>b, FilesOf DEF DirOf
  <2>2. AsLocked(t)' = AsLocked(t) /\ o[1] = NameOf[Pkg(p)]
      BY <1>1 DEF AsLocked, TargetOf
  <2>3. place = "restore" => DirOf(p, t)' = NoPackage /\ Pkg(p)' = Pkg(p)
      BY <1>5 DEF DirOf
  <2>4. place = "idle" => lock[NameOf[Pkg(p)]] = NoPackage
      BY <1>1, <1>3, <1>10, AloneFacts, OldFacts DEF Reached, Located
  <2>5. place = "idle" /\ t[1] = NameOf[Pkg(p)] => AsLocked(t) = NoPackage
      BY <2>4 DEF AsLocked
  <2>6. dir'[t] = IF t[1] = NameOf[Pkg(p)] THEN NoPackage ELSE AsLocked(t)
    <3>1. CASE t[1] = NameOf[Pkg(p)]
      <4>1. rest = NoPackage
          BY <3>1, <1>10, <1>a
      <4> QED BY <4>1, <3>1, <2>1, <1>b
    <3>2. CASE t[1] # NameOf[Pkg(p)]
        BY <3>2, <2>1, <2>2, <1>b
    <3> QED BY <3>1, <3>2
  <2> QED BY <2>2, <2>3, <2>5, <2>6
<1>11. InStep'
    BY <1>10, <1>1, <1>3, <1>5, <1>8, Settle
<1> QED BY <1>8, <1>9, <1>11 DEF Inv

LEMMA CleanStep ==
    ASSUME Inv, NEW p \in Process, Clean(p)
    PROVE  Inv'
<1>1. /\ At(p) = "clean" /\ Goto(p, "idle")
      /\ left \subseteq left' /\ left' \subseteq left \cup ({Aside(p), Remnant} \ {NoPackage})
      /\ UNCHANGED <<dir, lock, overlap, broken>>
    BY DEF Clean, history, AfterRemoveAll
<1>2. LifecycleTypeOK /\ Located(p) /\ "idle" \in Place
    BY DEF Inv, CommandsInv, Place
<1>3. At(p)' = "idle" /\ Aside(p)' = NoPackage
    BY <1>1, <1>2, GotoFacts
<1>4. left' \subseteq Content \ {NoPackage}
  <2>1. Aside(p) \in Content /\ Remnant \in Content
      BY <1>2 DEF LifecycleTypeOK, Command, Aside, Content
  <2>2. Remnant # NoPackage
      BY LifecycleAssumption
  <2> QED BY <2>1, <2>2, <1>1, <1>2 DEF LifecycleTypeOK
<1>5. LifecycleTypeOK'
    BY <1>1, <1>2, <1>4, GotoMoves DEF LifecycleTypeOK
<1>6. Located(p)'
    BY <1>3 DEF Located
<1>7. ASSUME Alone PROVE WellNamed' /\ Reached(p)'
  <2>1. WellNamed
      BY <1>1, <1>7, AloneFacts
  <2> QED BY <2>1, <1>1, <1>3 DEF WellNamed, Reached
<1>8. /\ CommandsInv'
      /\ Alone => Alone' /\ Busy' \subseteq {p}
    BY <1>1, <1>2, <1>5, <1>6, <1>7, GotoMoves, Assemble
<1>9. LockedSurvives'
  <2>1. ASSUME Alone, NEW n \in Name, lock[n] # NoPackage, Aside(p) = lock[n]
        PROVE  dir[TargetOf(lock[n])] = lock[n]
    <3>1. Reached(p) /\ NameOf[lock[n]] = n
        BY <2>1, <1>1, AloneFacts DEF WellNamed
    <3>2. n = NameOf[Pkg(p)]
        BY <3>1, <2>1, <1>1 DEF Reached
    <3> QED BY <3>1, <3>2, <2>1, <1>1 DEF Reached
  <2> QED BY <2>1, <1>1, Survive
<1>10. ASSUME Alone, NEW t \in Target, t[1] \notin broken PROVE dir'[t] = AsLocked(t)'
  <2>1. dir[t] = AsLocked(t)
      BY <1>10, <1>1, FilesOf DEF DirOf
  <2> QED BY <2>1, <1>1 DEF AsLocked
<1>11. InStep'
    BY <1>10, <1>1, <1>3, <1>8, Settle
<1> QED BY <1>8, <1>9, <1>11 DEF Inv

LEMMA RestoreStep ==
    ASSUME Inv, NEW p \in Process, Restore(p)
    PROVE  Inv'
<1> DEFINE o == TargetOf(Old(p))
<1>1. /\ At(p) = "restore" /\ Goto(p, "idle") /\ UNCHANGED <<lock, overlap>>
      /\ \/ /\ dir[o] \in {NoPackage, Remnant} /\ dir' = [dir EXCEPT ![o] = Aside(p)]
            /\ left' = left /\ broken' = broken
         \/ /\ dir' = dir /\ left' = left \cup {Aside(p)}
            /\ broken' = broken \cup {NameOf[Pkg(p)]}
    BY DEF Restore, Breaks
<1>2. LifecycleTypeOK /\ Located(p) /\ "idle" \in Place /\ NameOf[Pkg(p)] \in Name
    BY <1>1, BusyName DEF Inv, CommandsInv, Place
<1>3. At(p)' = "idle" /\ Aside(p)' = NoPackage
    BY <1>1, <1>2, GotoFacts
<1>4. Aside(p) \in Content \ {NoPackage}
    BY <1>1, <1>2 DEF LifecycleTypeOK, Command, Aside, Located
<1>5. /\ dir' \in [Target -> Content] /\ left \subseteq left' /\ left' \subseteq Content \ {NoPackage}
      /\ broken' \subseteq Name /\ broken \subseteq broken'
    BY <1>1, <1>2, <1>4 DEF LifecycleTypeOK
<1>6. LifecycleTypeOK'
    BY <1>1, <1>2, <1>5, GotoMoves DEF LifecycleTypeOK
<1>7. Located(p)'
    BY <1>3 DEF Located
<1>8. ASSUME Alone
      PROVE  /\ WellNamed /\ Reached(p) /\ Aside(p) = Old(p) /\ o \in Target /\ Aside(p) \in Package
             /\ Aside(p) = lock[NameOf[Pkg(p)]] /\ NameOf[Aside(p)] = NameOf[Pkg(p)]
  <2>1. WellNamed /\ Reached(p) /\ Aside(p) = Old(p) /\ Aside(p) # NoPackage
      BY <1>1, <1>2, <1>8, AloneFacts DEF Reached, Located
  <2>2. /\ Old(p) = lock[NameOf[Pkg(p)]] /\ NameOf[Old(p)] = NameOf[Pkg(p)] /\ o \in Target
        /\ Old(p) \in Package
      BY <2>1, <1>1, <1>8, OldFacts DEF Entry
  <2> QED BY <2>1, <2>2
<1>9. ASSUME Alone PROVE WellNamed' /\ Reached(p)'
  <2>1. WellNamed'
      BY <1>1, <1>2, <1>8, <1>9 DEF WellNamed, LifecycleTypeOK
  <2> QED BY <2>1, <1>3 DEF Reached
<1>10. /\ CommandsInv'
       /\ Alone => Alone' /\ Busy' \subseteq {p}
    BY <1>1, <1>2, <1>6, <1>7, <1>9, GotoMoves, Assemble
<1>11. LockedSurvives'
  <2>1. ASSUME Alone, NEW n \in Name, lock[n] # NoPackage
        PROVE  /\ dir[TargetOf(lock[n])] = lock[n] => dir'[TargetOf(lock[n])] = lock[n]
               /\ Aside(p) = lock[n] =>
                     dir'[TargetOf(lock[n])] = lock[n] \/ lock[n] \in left'
    <3>1. TargetOf(lock[n]) \in Target
        BY <2>1, <1>2 DEF LifecycleTypeOK, Entry, Target, TargetOf
    <3>a. lock[n] \in Package /\ lock[n] \notin {NoPackage, Remnant}
        BY <2>1, <1>2, LifecycleAssumption DEF LifecycleTypeOK, Entry
    <3>2. dir[TargetOf(lock[n])] = lock[n] => dir'[TargetOf(lock[n])] = lock[n]
        BY <3>1, <3>a, <1>1, <1>2 DEF LifecycleTypeOK
    <3>3. Aside(p) = lock[n] => dir'[TargetOf(lock[n])] = lock[n] \/ lock[n] \in left'
        BY <3>1, <2>1, <1>1, <1>2, <1>8 DEF LifecycleTypeOK
    <3> QED BY <3>2, <3>3
  <2> QED BY <2>1, <1>1, <1>5, Survive
<1>12. ASSUME Alone, NEW t \in Target, t[1] \notin broken' PROVE dir'[t] = AsLocked(t)'
  <2>1. dir[t] = IF t[1] = NameOf[Pkg(p)] THEN NoPackage ELSE AsLocked(t)
      BY <1>12, <1>1, <1>5, FilesOf DEF DirOf
  <2>2. AsLocked(t)' = AsLocked(t) /\ o[1] = NameOf[Pkg(p)] /\ o \in Target
      BY <1>1, <1>8, <1>12 DEF TargetOf, AsLocked
  <2>3. CASE t[1] # NameOf[Pkg(p)]
    <3>1. t # o
        BY <2>2, <2>3
    <3>2. dir'[t] = dir[t]
        BY <3>1, <1>1, <1>2 DEF LifecycleTypeOK
    <3> QED BY <3>2, <2>1, <2>2, <2>3
  <2>4. CASE t[1] = NameOf[Pkg(p)]
    <3>1. dir' = [dir EXCEPT ![o] = Aside(p)]
        BY <2>4, <1>1, <1>12
    <3>2. dir'[t] = IF t = o THEN Aside(p) ELSE NoPackage
        BY <3>1, <2>1, <2>2, <2>4, <1>2 DEF LifecycleTypeOK
    <3>3. AsLocked(t) = IF t = o THEN Aside(p) ELSE NoPackage
        BY <1>4, <1>8, <1>12, <2>2, <2>4, LifecycleAssumption DEF AsLocked
    <3> QED BY <3>2, <3>3, <2>2
  <2> QED BY <2>3, <2>4
<1>13. InStep'
    BY <1>12, <1>1, <1>3, <1>10, Settle
<1> QED BY <1>10, <1>11, <1>13 DEF Inv

LEMMA WriteLockStep ==
    ASSUME Inv, NEW p \in Process, WriteLock(p)
    PROVE  Inv'
<1> DEFINE place == IF Aside(p) = NoPackage THEN "idle" ELSE "clean"
           n == NameOf[Pkg(p)]
           entry == IF Op(p) = "uninstall" THEN NoPackage ELSE Pkg(p)
<1>1. /\ At(p) = "write" /\ lock' = [cmd[p].view EXCEPT ![n] = entry]
      /\ Goto(p, place) /\ UNCHANGED <<dir, left, overlap, broken>>
    BY DEF WriteLock, Written, history
<1>2. LifecycleTypeOK /\ Located(p) /\ cmd[p] \in Command
    BY DEF Inv, CommandsInv, LifecycleTypeOK
<1>3. place \in Place /\ place \in {"idle", "clean"} /\ (place = "idle" <=> Aside(p) = NoPackage)
    BY DEF Place
<1>4. entry \in Entry /\ Pkg(p) \in Entry
    BY <1>2 DEF Command, Entry, Pkg
<1> HIDE DEF place, entry
<1>5. LifecycleTypeOK'
  <2>1. cmd[p].view \in [Name -> Entry]
      BY <1>2 DEF Command
  <2>2. lock' \in [Name -> Entry]
      BY <2>1, <1>1, <1>4
  <2> QED BY <2>2, <1>1, <1>2, <1>3, GotoMoves DEF LifecycleTypeOK
<1>6. /\ At(p)' = place /\ Aside(p)' = Aside(p)
      /\ place # "idle" => /\ Op(p)' = Op(p) /\ Pkg(p)' = Pkg(p)
                          /\ cmd'[p].view = cmd[p].view /\ Old(p)' = Old(p)
    BY <1>1, <1>2, <1>3, GotoFacts
<1>7. Located(p)'
    BY <1>1, <1>2, <1>3, <1>6 DEF Located
<1>8. ASSUME Alone
      PROVE  /\ WellNamed /\ Reached(p) /\ n \in Name /\ Pkg(p) \in Package
             /\ lock' = [lock EXCEPT ![n] = entry]
             /\ Aside(p) = lock[n] /\ (Aside(p) # NoPackage => NameOf[Aside(p)] = n)
  <2>1. WellNamed /\ Reached(p) /\ n \in Name /\ Pkg(p) \in Package
      BY <1>1, <1>8, AloneFacts
  <2>2. cmd[p].view = lock /\ Aside(p) = Old(p)
      BY <2>1, <1>1 DEF Reached
  <2> QED BY <2>1, <2>2, <1>1, <1>8, OldFacts
<1>9. ASSUME Alone PROVE lock'[n] = entry /\ \A k \in Name : k # n => lock'[k] = lock[k]
    BY <1>8, <1>9, <1>2 DEF LifecycleTypeOK
<1>10. entry = IF Op(p) = "uninstall" THEN NoPackage ELSE Pkg(p)
    BY DEF entry
<1>11. ASSUME Alone PROVE WellNamed' /\ Reached(p)'
  <2>1. WellNamed'
      BY <1>1, <1>8, <1>9, <1>10, <1>11 DEF WellNamed
  <2>2. Reached(p)'
    <3>1. CASE place = "idle"
        BY <3>1, <1>3, <1>6 DEF Reached
    <3>2. CASE place = "clean"
        BY <3>2, <1>1, <1>3, <1>6, <1>8, <1>9, <1>10, <1>11 DEF Reached
    <3> QED BY <3>1, <3>2, <1>3
  <2> QED BY <2>1, <2>2
<1>12. /\ CommandsInv'
       /\ Alone => /\ Alone' /\ Busy' \subseteq {p}
                   /\ \A q \in Process : q # p => Aside(q) = NoPackage /\ Aside(q)' = NoPackage
    BY <1>1, <1>2, <1>3, <1>5, <1>7, <1>11, GotoMoves, Assemble
<1>13. LockedSurvives'
  <2> SUFFICES ASSUME Alone', NEW k \in Name, lock'[k] # NoPackage
               PROVE  \/ dir'[TargetOf(lock'[k])] = lock'[k] \/ lock'[k] \in left'
                      \/ \E q \in Process : Aside(q)' = lock'[k]
      BY DEF LockedSurvives
  <2>1. Alone
      BY <1>1 DEF Alone
  <2>2. CASE k = n
    <3>1. Op(p) # "uninstall" /\ lock'[k] = Pkg(p)
        BY <2>1, <2>2, <1>9, <1>10
    <3>2. dir[TargetOf(Pkg(p))] = Pkg(p)
        BY <3>1, <2>1, <1>1, <1>8 DEF Reached
    <3> QED BY <3>1, <3>2, <1>1
  <2>3. CASE k # n
    <3>1. lock'[k] = lock[k] /\ lock[k] # NoPackage /\ NameOf[lock[k]] = k
        BY <2>1, <2>3, <1>8, <1>9 DEF WellNamed
    <3>2. Aside(p) # lock[k]
        BY <3>1, <2>1, <2>3, <1>8
    <3>3. \A q \in Process : Aside(q) # lock[k]
        BY <3>1, <3>2, <2>1, <1>12
    <3>4. dir[TargetOf(lock[k])] = lock[k] \/ lock[k] \in left
        BY <3>1, <3>3, <2>1 DEF Inv, LockedSurvives
    <3> QED BY <3>1, <3>4, <1>1
  <2> QED BY <2>2, <2>3
<1>14. ASSUME Alone, NEW t \in Target, t[1] \notin broken PROVE dir'[t] = AsLocked(t)'
  <2>1. t[1] \in Name
      BY DEF Target, Name
  <2>2. CASE t[1] # n
    <3>1. dir[t] = AsLocked(t)
        BY <2>2, <1>14, <1>1, FilesOf
    <3>2. lock'[t[1]] = lock[t[1]]
        BY <2>1, <2>2, <1>9, <1>14
    <3> QED BY <3>1, <3>2, <1>1 DEF AsLocked
  <2>3. CASE t[1] = n
    <3>1. dir[t] = DirOf(p, t)
        BY <2>3, <1>14, <1>1, FilesOf
    <3>2. lock'[t[1]] = entry
        BY <2>3, <1>9, <1>14
    <3>3. CASE Op(p) = "uninstall"
        BY <3>1, <3>2, <3>3, <1>1, <1>10 DEF DirOf, AsLocked
    <3>4. CASE Op(p) # "uninstall"
      <4>1. Pkg(p) # NoPackage
          BY <1>8, <1>14, LifecycleAssumption
      <4> QED BY <3>1, <3>2, <3>4, <4>1, <1>1, <1>10 DEF DirOf, AsLocked
    <3> QED BY <3>3, <3>4
  <2> QED BY <2>2, <2>3
<1>15. ASSUME Alone, NEW t \in Target, t[1] \notin broken, place = "clean"
       PROVE  dir'[t] = IF t[1] = NameOf[Pkg(p)'] THEN DirOf(p, t)' ELSE AsLocked(t)'
    BY <1>6, <1>14, <1>15 DEF DirOf
<1>16. InStep'
    BY <1>14, <1>15, <1>1, <1>3, <1>6, <1>12, Settle
<1> QED BY <1>12, <1>13, <1>16 DEF Inv

LEMMA CrashStep ==
    ASSUME Inv, NEW p \in Process, Crash(p)
    PROVE  Inv'
<1>1. /\ At(p) # "idle" /\ Goto(p, "idle") /\ left' = left \cup ({Aside(p)} \ {NoPackage})
      /\ UNCHANGED <<dir, lock, overlap>> /\ broken' = broken \cup {NameOf[Pkg(p)]}
    BY DEF Crash, Busy, Breaks
<1>2. LifecycleTypeOK /\ "idle" \in Place /\ NameOf[Pkg(p)] \in Name
    BY <1>1, BusyName DEF Inv, CommandsInv, Place
<1>3. At(p)' = "idle" /\ Aside(p)' = NoPackage
    BY <1>1, <1>2, GotoFacts
<1>4. Aside(p) \in Content
    BY <1>2 DEF LifecycleTypeOK, Command, Aside
<1>5. left' \subseteq Content \ {NoPackage} /\ left \subseteq left' /\ broken' \subseteq Name
    BY <1>1, <1>2, <1>4 DEF LifecycleTypeOK
<1>6. LifecycleTypeOK'
    BY <1>1, <1>2, <1>5, GotoMoves DEF LifecycleTypeOK
<1>7. Located(p)'
    BY <1>3 DEF Located
<1>8. ASSUME Alone PROVE WellNamed' /\ Reached(p)'
  <2>1. WellNamed
      BY <1>1, <1>8, AloneFacts
  <2> QED BY <2>1, <1>1, <1>3 DEF WellNamed, Reached
<1>9. /\ CommandsInv'
      /\ Alone => Alone' /\ Busy' \subseteq {p}
    BY <1>1, <1>2, <1>6, <1>7, <1>8, GotoMoves, Assemble
<1>10. LockedSurvives'
    BY <1>1, <1>5, Survive
<1>11. ASSUME Alone, NEW t \in Target, t[1] \notin broken'
       PROVE  dir'[t] = AsLocked(t)'
  <2>1. t[1] \notin broken /\ t[1] # NameOf[Pkg(p)]
      BY <1>1, <1>11
  <2>2. dir[t] = AsLocked(t)
      BY <2>1, <1>1, <1>11, FilesOf
  <2> QED BY <2>2, <1>1 DEF AsLocked
<1>12. InStep'
    BY <1>1, <1>3, <1>9, <1>11, Settle
<1> QED BY <1>9, <1>10, <1>12 DEF Inv

LEMMA StartStep ==
    ASSUME Inv, NEW p \in Process, NEW o \in {"install", "update", "uninstall"},
           NEW k \in Package, Start(p, o, k)
    PROVE  Inv'
<1> DEFINE n == NameOf[k]
           place == IF lock[n] = NoPackage THEN "place" ELSE "verify"
           c == [at |-> place, op |-> o, pkg |-> k, view |-> lock, aside |-> NoPackage]
<1>1. /\ At(p) = "idle" /\ (o = "uninstall" => lock[n] = k)
      /\ cmd' = [cmd EXCEPT ![p] = c]
      /\ overlap' = (overlap \/ Busy # {})
      /\ UNCHANGED <<dir, lock, left, broken>>
    BY DEF Start, Busy
<1>2. LifecycleTypeOK /\ n \in Name /\ k # NoPackage
    BY LifecycleAssumption DEF Inv, CommandsInv, Name
<1>3. c \in Command
    BY <1>2 DEF LifecycleTypeOK, Command, Place, Entry, Content
<1>4. cmd' \in [Process -> Command] /\ cmd'[p] = c /\ \A q \in Process : q # p => cmd'[q] = cmd[q]
    BY <1>1, <1>2, <1>3 DEF LifecycleTypeOK
<1>5. overlap' \in BOOLEAN /\ (Alone' => Alone /\ Busy = {})
    BY <1>1 DEF Alone
<1>6. LifecycleTypeOK'
    BY <1>1, <1>2, <1>4, <1>5 DEF LifecycleTypeOK
<1>7. /\ At(p)' = place /\ Op(p)' = o /\ Pkg(p)' = k /\ Aside(p)' = NoPackage
      /\ cmd'[p].view = lock /\ Old(p)' = lock[n]
    BY <1>4 DEF At, Op, Pkg, Aside, Old
<1>8. /\ place \in {"place", "verify"} /\ (place = "place" <=> lock[n] = NoPackage)
      /\ (o = "uninstall" => place = "verify")
    BY <1>1, <1>2
<1> HIDE DEF place, c
<1>9. \A q \in Process : Located(q)'
  <2>1. Located(p)'
      BY <1>2, <1>7, <1>8 DEF Located
  <2>2. ASSUME NEW q \in Process, q # p PROVE Located(q)'
    <3>1. Located(q) /\ cmd'[q] = cmd[q]
        BY <2>2, <1>4 DEF Inv, CommandsInv
    <3> QED BY <3>1 DEF Located, At, Op, Pkg, Old, Aside
  <2> QED BY <2>1, <2>2
<1>10. ASSUME Alone'
       PROVE  /\ Alone /\ WellNamed /\ Busy' = {p}
              /\ \A q \in Process : /\ q # p => At(q)' = "idle" /\ Aside(q)' = NoPackage
                                    /\ Aside(q) = NoPackage
  <2>1. Alone /\ Busy = {}
      BY <1>5, <1>10
  <2>2. WellNamed /\ \A q \in Process : Reached(q) /\ At(q) = "idle"
      BY <2>1 DEF Inv, CommandsInv, Busy
  <2>3. \A q \in Process : Aside(q) = NoPackage
      BY <2>2 DEF Reached
  <2>4. \A q \in Process : q # p => At(q)' = "idle" /\ Aside(q)' = NoPackage
      BY <2>2, <2>3, <1>4 DEF At, Aside
  <2>5. Busy' = {p}
      BY <2>4, <1>7, <1>8 DEF Busy
  <2> QED BY <2>1, <2>2, <2>3, <2>4, <2>5
<1>11. ASSUME Alone', NEW q \in Process PROVE Reached(q)'
  <2>1. CASE q = p
      BY <2>1, <1>1, <1>7, <1>8 DEF Reached
  <2>2. CASE q # p
    <3>1. At(q)' = "idle" /\ Aside(q)' = NoPackage
        BY <2>2, <1>10, <1>11
    <3> QED BY <3>1 DEF Reached
  <2> QED BY <2>1, <2>2
<1>12. CommandsInv'
  <2>1. Alone' => WellNamed'
      BY <1>1, <1>10 DEF WellNamed
  <2> QED BY <2>1, <1>6, <1>9, <1>10, <1>11 DEF CommandsInv
<1>13. LockedSurvives'
  <2> SUFFICES ASSUME Alone', NEW m \in Name, lock'[m] # NoPackage
               PROVE  \/ dir'[TargetOf(lock'[m])] = lock'[m] \/ lock'[m] \in left'
      BY DEF LockedSurvives
  <2>1. Alone /\ lock[m] # NoPackage /\ \A q \in Process : Aside(q) = NoPackage
      BY <1>1, <1>10
  <2>2. dir[TargetOf(lock[m])] = lock[m] \/ lock[m] \in left
      BY <2>1 DEF Inv, LockedSurvives
  <2> QED BY <2>2, <1>1
<1>14. InStep'
  <2> SUFFICES ASSUME Alone', NEW t \in Target, t[1] \notin broken'
               PROVE  dir'[t] = IF t[1] = NameOf[Pkg(p)'] THEN DirOf(p, t)' ELSE AsLocked(t)'
      BY <1>10 DEF InStep
  <2>1. Alone /\ t[1] \notin broken /\ Busy = {}
      BY <1>1, <1>5
  <2>2. dir[t] = AsLocked(t)
      BY <2>1 DEF Inv, InStep
  <2>3. AsLocked(t)' = AsLocked(t)
      BY <1>1 DEF AsLocked
  <2>4. CASE place = "verify"
    <3>1. DirOf(p, t)' = AsLocked(t)'
        BY <2>4, <1>7 DEF DirOf
    <3> QED BY <3>1, <2>2, <2>3, <1>1
  <2>5. CASE place = "place"
    <3>1. DirOf(p, t)' = NoPackage /\ (t[1] = n => AsLocked(t) = NoPackage)
        BY <2>5, <1>7, <1>8 DEF DirOf, AsLocked
    <3> QED BY <3>1, <2>2, <2>3, <1>1, <1>7
  <2> QED BY <2>4, <2>5, <1>8
<1> QED BY <1>12, <1>13, <1>14 DEF Inv

LEMMA NextInv ==
    ASSUME Inv, [Next]_lifecycleVars
    PROVE  Inv'
<1>1. ASSUME NEW p \in Process, Step(p) PROVE Inv'
    BY <1>1, VerifyStep, StageStep, StageFailsStep, InstallsStep, InstallFailsStep,
       WriteLockStep, WriteFailsStep, DiscardStep, RestoreStep, CleanStep DEF Step
<1>2. ASSUME NEW p \in Process, Crash(p) PROVE Inv'
    BY <1>2, CrashStep
<1>3. ASSUME NEW p \in Process, NEW o \in {"install", "update", "uninstall"},
             NEW k \in Package, Start(p, o, k)
      PROVE Inv'
    BY <1>3, StartStep
<1>4. CASE UNCHANGED lifecycleVars
    BY <1>4 DEF lifecycleVars, Inv, CommandsInv, LockedSurvives, InStep, LifecycleTypeOK, Located,
       Reached, WellNamed, Alone, Busy, At, Op, Pkg, Aside, Old, DirOf, AsLocked
<1> QED BY <1>1, <1>2, <1>3, <1>4 DEF Next

\* What is said of one command's step and of the files, for every set of
\* packages, of names and of processes.
THEOREM Invariance == Spec => []Inv
<1>1. Init => Inv
    BY InitInv
<1>2. Inv /\ [Next]_lifecycleVars => Inv'
    BY NextInv
<1> QED BY <1>1, <1>2, PTL DEF Spec

\* The package a name is locked to is somewhere on the disk, wherever a command
\* stops and whichever of its steps fails (cli.go:1065-1107, 1150-1181).
THEOREM LockedPackagesSurvive == Spec => []LockedSurvives
<1>1. Inv => LockedSurvives
    BY DEF Inv
<1> QED BY <1>1, Invariance, PTL

\* A rollback whose own steps succeed leaves the directories as the lock file says, and
\* one that fails harms no other name (cli.go:1082-1099, 1145-1147).
THEOREM RollbackRestoresBoth == Spec => []RolledBackTogether
<1>1. Inv => RolledBackTogether
  <2> SUFFICES ASSUME Inv, Alone, NEW t \in Target, t[1] \notin broken,
                      \A p \in Busy : NameOf[Pkg(p)] # t[1]
               PROVE  dir[t] = AsLocked(t)
      BY DEF RolledBackTogether
  <2>1. /\ Busy = {} => dir[t] = AsLocked(t)
        /\ \A p \in Busy : dir[t] = AsLocked(t)
      BY DEF Inv, InStep
  <2> QED BY <2>1
<1> QED BY <1>1, Invariance, PTL
-----------------------------------------------------------------------------
(* What holds whatever commands overlap. *)

\* What a command carries from step to step: the package the policy allowed, the
\* entries it loaded, and a directory of the old package's own target.
Carries(p) ==
    /\ At(p) # "idle" => Pkg(p) \in Allowed
    /\ \A n \in Name : cmd[p].view[n] # NoPackage =>
           NameOf[cmd[p].view[n]] = n /\ cmd[p].view[n] \in Allowed
    /\ Aside(p) \in Package => TargetOf(Aside(p)) = TargetOf(Old(p))

AllowedInv == OnlyAllowed /\ \A p \in Process : Carries(p)

Fits(t) == dir[t] \in Harmless /\ (dir[t] \in Package => TargetOf(dir[t]) = t)

LEMMA IdleCarries ==
    ASSUME NEW p \in Process, cmd'[p] = Idle
    PROVE  Carries(p)' /\ Aside(p)' = NoPackage
<1>1. At(p)' = "idle" /\ Aside(p)' = NoPackage
    BY DEF Idle, At, Aside
<1>2. \A n \in Name : cmd'[p].view[n] = NoPackage
    BY DEF Idle
<1> QED BY <1>1, <1>2, LifecycleAssumption DEF Carries

\* Moving on changes nothing a command carries.
LEMMA GotoCarries ==
    ASSUME Inv, AllowedInv, NEW p \in Process, NEW place \in Place, At(p) # "idle", Goto(p, place)
    PROVE  \A q \in Process : Carries(q)' /\ Aside(q)' \in Harmless
<1> SUFFICES ASSUME NEW q \in Process
             PROVE  Carries(q)' /\ Aside(q)' \in Harmless
    OBVIOUS
<1>1. LifecycleTypeOK /\ Carries(q) /\ Aside(q) \in Harmless
    BY DEF Inv, CommandsInv, AllowedInv, OnlyAllowed
<1>2. CASE q # p
  <2>1. cmd'[q] = cmd[q]
      BY <1>1, <1>2, GotoMoves
  <2> QED BY <2>1, <1>1 DEF Carries, At, Pkg, Aside, Old
<1>3. CASE q = p /\ place = "idle"
    BY <1>1, <1>3, GotoMoves, IdleCarries DEF Harmless
<1>4. CASE q = p /\ place # "idle"
  <2>1. /\ cmd'[p].pkg = cmd[p].pkg /\ cmd'[p].view = cmd[p].view
        /\ cmd'[p].aside = cmd[p].aside
      BY <1>1, <1>4, GotoMoves
  <2> QED BY <2>1, <1>1, <1>4 DEF Carries, At, Pkg, Aside, Old
<1> QED BY <1>2, <1>3, <1>4

\* The files a step leaves behind, when the command only moves on besides.
LEMMA MovesOnAllowed ==
    ASSUME Inv, AllowedInv, NEW p \in Process, NEW place \in Place, At(p) # "idle", Goto(p, place),
           \A t \in Target : Fits(t)',
           \A n \in Name : lock'[n] # NoPackage => NameOf[lock'[n]] = n /\ lock'[n] \in Allowed,
           left' \subseteq left \cup {Aside(p), Remnant}
    PROVE  AllowedInv'
<1>1. \A q \in Process : Carries(q)' /\ Aside(q)' \in Harmless
    BY GotoCarries
<1>2. left' \subseteq Harmless
  <2>1. left \subseteq Harmless /\ Aside(p) \in Harmless /\ Remnant \in Harmless
      BY DEF AllowedInv, OnlyAllowed, Harmless
  <2> QED BY <2>1
<1>3. WellNamed' /\ \A t \in Target : dir'[t] \in Harmless
    BY DEF WellNamed, Fits
<1>4. \A n \in Name : lock'[n] \in Allowed \cup {NoPackage}
    OBVIOUS
<1> QED BY <1>1, <1>2, <1>3, <1>4 DEF AllowedInv, OnlyAllowed

\* The files as they are, in the form the lemma above asks for.
LEMMA FilesAllowed ==
    ASSUME AllowedInv
    PROVE  /\ \A t \in Target : Fits(t)
           /\ \A n \in Name : lock[n] # NoPackage => NameOf[lock[n]] = n /\ lock[n] \in Allowed
           /\ \A t \in Target : dir'[t] \in {dir[t], NoPackage, Remnant} => Fits(t)'
           /\ dir' = dir => \A t \in Target : Fits(t)'
BY LifecycleAssumption DEF AllowedInv, OnlyAllowed, WellNamed, Fits, Harmless

LEMMA StepAllowed ==
    ASSUME Inv, AllowedInv, NEW p \in Process, Step(p)
    PROVE  AllowedInv'
<1>1. /\ LifecycleTypeOK /\ Located(p) /\ Carries(p) /\ cmd \in [Process -> Command]
      /\ cmd[p] \in Command /\ Aside(p) \in Harmless
    BY DEF Inv, CommandsInv, LifecycleTypeOK, AllowedInv, OnlyAllowed
<1>2. {"idle", "verify", "stage", "place", "write", "discard", "restore", "clean"} = Place
    BY DEF Place
<1>3. CASE Verify(p)
  <2>1. /\ At(p) # "idle" /\ UNCHANGED <<dir, lock, left>>
        /\ Goto(p, IF dir[TargetOf(Old(p))] = Old(p) THEN "stage" ELSE "idle")
      BY <1>3 DEF Verify
  <2>2. (IF dir[TargetOf(Old(p))] = Old(p) THEN "stage" ELSE "idle") \in Place
      BY DEF Place
  <2> QED BY <2>1, <2>2, FilesAllowed, MovesOnAllowed
<1>4. CASE Stage(p)
  <2> DEFINE t == TargetOf(Old(p))
             next == IF Op(p) = "uninstall" THEN "write" ELSE "place"
  <2>1. /\ At(p) = "stage" /\ dir[t] # NoPackage /\ dir' = [dir EXCEPT ![t] = NoPackage]
        /\ cmd' = [cmd EXCEPT ![p].aside = dir[t], ![p].at = next]
        /\ UNCHANGED <<lock, left>>
      BY <1>4 DEF Stage
  <2>2. Old(p) \in Package
    <3>1. Pkg(p) \in Package /\ Old(p) # NoPackage /\ cmd[p].view \in [Name -> Entry]
        BY <1>1, <2>1 DEF Located, Command, Pkg, Entry
    <3>2. NameOf[Pkg(p)] \in Name
        BY <3>1 DEF Name
    <3> QED BY <3>1, <3>2 DEF Old, Entry
  <2>3. t \in Target
      BY <2>2 DEF Target, TargetOf
  <2>4. Fits(t)
      BY <2>3, FilesAllowed
  <2>5. /\ cmd'[p].at = next /\ cmd'[p].aside = dir[t] /\ cmd'[p].op = cmd[p].op
        /\ cmd'[p].pkg = cmd[p].pkg /\ cmd'[p].view = cmd[p].view
        /\ \A q \in Process : q # p => cmd'[q] = cmd[q]
    <3> HIDE DEF t, next
    <3> QED BY <1>1, <2>1 DEF Command
  <2>6. Carries(p)' /\ Aside(p)' \in Harmless
    <3>1. Aside(p)' = dir[t] /\ Old(p)' = Old(p) /\ Pkg(p)' = Pkg(p)
        BY <2>5 DEF Aside, Old, Pkg
    <3>2. Pkg(p) \in Allowed
        BY <1>1, <2>1 DEF Carries
    <3> QED BY <3>1, <3>2, <2>4, <2>5, <1>1 DEF Carries, Fits
  <2>7. \A q \in Process : q # p => Carries(q)' /\ Aside(q)' \in Harmless
    <3> SUFFICES ASSUME NEW q \in Process, q # p
                 PROVE  Carries(q)' /\ Aside(q)' \in Harmless
        OBVIOUS
    <3>1. cmd'[q] = cmd[q] /\ Carries(q) /\ Aside(q) \in Harmless
        BY <2>5 DEF AllowedInv, OnlyAllowed
    <3> QED BY <3>1 DEF Carries, At, Pkg, Aside, Old
  <2>8. \A u \in Target : Fits(u)'
      BY <2>1, <1>1, FilesAllowed DEF LifecycleTypeOK
  <2>9. WellNamed' /\ \A u \in Target : dir'[u] \in Harmless
      BY <2>1, <2>8, FilesAllowed DEF WellNamed, Fits
  <2>10. /\ \A n \in Name : lock'[n] \in Allowed \cup {NoPackage}
         /\ left' \subseteq Harmless
      BY <2>1 DEF AllowedInv, OnlyAllowed
  <2>11. \A q \in Process : Carries(q)' /\ Aside(q)' \in Harmless
      BY <2>6, <2>7
  <2> QED BY <2>9, <2>10, <2>11 DEF AllowedInv, OnlyAllowed
<1>5. CASE StageFails(p)
  <2>1. At(p) # "idle" /\ Goto(p, "idle") /\ UNCHANGED <<dir, lock, left>>
      BY <1>5 DEF StageFails
  <2> QED BY <2>1, <1>2, FilesAllowed, MovesOnAllowed
<1>6. CASE Installs(p)
  <2>1. /\ At(p) # "idle" /\ Goto(p, "write") /\ UNCHANGED <<lock, left>>
        /\ dir' = [dir EXCEPT ![TargetOf(Pkg(p))] = Pkg(p)]
      BY <1>6 DEF Installs
  <2>2. Pkg(p) \in Allowed
      BY <2>1, <1>1 DEF Carries
  <2>3. \A t \in Target : dir'[t] # dir[t] => t = TargetOf(Pkg(p)) /\ dir'[t] = Pkg(p)
      BY <2>1, <1>1 DEF LifecycleTypeOK
  <2>4. \A t \in Target : Fits(t)'
    <3> SUFFICES ASSUME NEW t \in Target PROVE Fits(t)'
        OBVIOUS
    <3>1. CASE dir'[t] = dir[t]
        BY <3>1, FilesAllowed
    <3>2. CASE dir'[t] # dir[t]
        BY <3>2, <2>2, <2>3 DEF Fits, Harmless
    <3> QED BY <3>1, <3>2
  <2> QED BY <2>1, <2>4, <1>2, FilesAllowed, MovesOnAllowed
<1>7. CASE InstallFails(p)
  <2>1. /\ At(p) # "idle" /\ UNCHANGED <<dir, lock, left>>
        /\ Goto(p, IF Aside(p) = NoPackage THEN "idle" ELSE "restore")
      BY <1>7 DEF InstallFails, GiveUp
  <2>2. (IF Aside(p) = NoPackage THEN "idle" ELSE "restore") \in Place
      BY DEF Place
  <2> QED BY <2>1, <2>2, FilesAllowed, MovesOnAllowed
<1>8. CASE WriteLock(p)
  <2> DEFINE entry == IF Op(p) = "uninstall" THEN NoPackage ELSE Pkg(p)
  <2>1. /\ At(p) # "idle" /\ UNCHANGED <<dir, left>>
        /\ lock' = [cmd[p].view EXCEPT ![NameOf[Pkg(p)]] = entry]
        /\ Goto(p, IF Aside(p) = NoPackage THEN "idle" ELSE "clean")
      BY <1>8 DEF WriteLock, Written
  <2>2. (IF Aside(p) = NoPackage THEN "idle" ELSE "clean") \in Place
      BY DEF Place
  <2>3. Pkg(p) \in Allowed /\ entry \in {NoPackage, Pkg(p)}
      BY <2>1, <1>1 DEF Carries
  <2>4. cmd[p].view \in [Name -> Entry]
      BY <1>1 DEF Command
  <2> HIDE DEF entry
  <2>5. ASSUME NEW n \in Name, lock'[n] # NoPackage
        PROVE  NameOf[lock'[n]] = n /\ lock'[n] \in Allowed
    <3>1. CASE n = NameOf[Pkg(p)]
        BY <2>1, <2>3, <2>4, <2>5, <3>1
    <3>2. CASE n # NameOf[Pkg(p)]
      <4>1. lock'[n] = cmd[p].view[n]
          BY <2>1, <2>4, <3>2
      <4> QED BY <4>1, <2>5, <1>1 DEF Carries
    <3> QED BY <3>1, <3>2
  <2> QED BY <2>1, <2>2, <2>5, FilesAllowed, MovesOnAllowed
<1>9. CASE WriteFails(p)
  <2>1. /\ At(p) # "idle" /\ UNCHANGED <<dir, lock, left>>
        /\ Goto(p, IF Op(p) = "uninstall" THEN "restore" ELSE "discard")
      BY <1>9 DEF WriteFails
  <2>2. (IF Op(p) = "uninstall" THEN "restore" ELSE "discard") \in Place
      BY DEF Place
  <2> QED BY <2>1, <2>2, FilesAllowed, MovesOnAllowed
<1>10. CASE Discard(p)
  <2> DEFINE o == TargetOf(Pkg(p))
  <2>1. /\ At(p) # "idle" /\ UNCHANGED <<lock, left>>
        /\ \E rest \in {NoPackage, dir[o], Remnant} : dir' = [dir EXCEPT ![o] = rest]
        /\ Goto(p, IF Aside(p) = NoPackage THEN "idle" ELSE "restore")
      BY <1>10 DEF Discard, GiveUp, AfterRemoveAll
  <2>2. (IF Aside(p) = NoPackage THEN "idle" ELSE "restore") \in Place
      BY DEF Place
  <2> HIDE DEF o
  <2>3. \A t \in Target : dir'[t] \in {dir[t], NoPackage, Remnant}
      BY <2>1, <1>1 DEF LifecycleTypeOK
  <2>4. \A t \in Target : Fits(t)'
      BY <2>3, FilesAllowed
  <2> QED BY <2>1, <2>2, <2>4, FilesAllowed, MovesOnAllowed
<1>11. CASE Restore(p)
  <2> DEFINE o == TargetOf(Old(p))
  <2>1. /\ At(p) = "restore" /\ Goto(p, "idle") /\ UNCHANGED lock
        /\ \/ dir' = [dir EXCEPT ![o] = Aside(p)] /\ left' = left
           \/ dir' = dir /\ left' = left \cup {Aside(p)}
      BY <1>11 DEF Restore
  <2>2. Aside(p) \in Harmless /\ (Aside(p) \in Package => TargetOf(Aside(p)) = o)
      BY <1>1 DEF Carries
  <2> HIDE DEF o
  <2>3. \A t \in Target : dir'[t] # dir[t] => t = o /\ dir'[t] = Aside(p)
      BY <2>1, <1>1 DEF LifecycleTypeOK
  <2>4. \A t \in Target : Fits(t)'
    <3> SUFFICES ASSUME NEW t \in Target PROVE Fits(t)'
        OBVIOUS
    <3>1. CASE dir'[t] = dir[t]
        BY <3>1, FilesAllowed
    <3>2. CASE dir'[t] # dir[t]
        BY <3>2, <2>2, <2>3 DEF Fits
    <3> QED BY <3>1, <3>2
  <2>5. left' \subseteq left \cup {Aside(p), Remnant}
      BY <2>1
  <2> QED BY <2>1, <2>4, <2>5, <1>2, FilesAllowed, MovesOnAllowed
<1>12. CASE Clean(p)
  <2>1. /\ At(p) = "clean" /\ Goto(p, "idle") /\ UNCHANGED <<dir, lock>>
        /\ left' \subseteq left \cup {Aside(p), Remnant}
      BY <1>12 DEF Clean, AfterRemoveAll
  <2> QED BY <2>1, <1>2, FilesAllowed, MovesOnAllowed
<1> QED BY <1>3, <1>4, <1>5, <1>6, <1>7, <1>8, <1>9, <1>10, <1>11, <1>12 DEF Step

LEMMA CrashAllowed ==
    ASSUME Inv, AllowedInv, NEW p \in Process, Crash(p)
    PROVE  AllowedInv'
<1>1. /\ At(p) # "idle" /\ Goto(p, "idle") /\ UNCHANGED <<dir, lock>>
      /\ left' = left \cup ({Aside(p)} \ {NoPackage}) /\ "idle" \in Place
    BY DEF Crash, Busy, Place
<1> QED BY <1>1, FilesAllowed, MovesOnAllowed

LEMMA StartAllowed ==
    ASSUME Inv, AllowedInv, NEW p \in Process, NEW o \in {"install", "update", "uninstall"},
           NEW k \in Package, Start(p, o, k)
    PROVE  AllowedInv'
<1> DEFINE place == IF lock[NameOf[k]] = NoPackage THEN "place" ELSE "verify"
           c == [at |-> place, op |-> o, pkg |-> k, view |-> lock, aside |-> NoPackage]
<1>1. /\ cmd' = [cmd EXCEPT ![p] = c] /\ UNCHANGED <<dir, lock, left>>
      /\ IF o = "uninstall" THEN lock[NameOf[k]] = k ELSE k \in Allowed
    BY DEF Start
<1>2. NameOf[k] \in Name /\ k # NoPackage /\ cmd \in [Process -> Command]
    BY LifecycleAssumption DEF Name, Inv, CommandsInv, LifecycleTypeOK
<1>3. k \in Allowed
    BY <1>1, <1>2, FilesAllowed
<1>4. cmd'[p] = c /\ \A q \in Process : q # p => cmd'[q] = cmd[q]
    BY <1>1, <1>2
<1>5. cmd'[p].pkg = k /\ cmd'[p].view = lock /\ cmd'[p].aside = NoPackage
    BY <1>4
<1>6. Carries(p)' /\ Aside(p)' = NoPackage
    BY <1>3, <1>5, FilesAllowed, LifecycleAssumption DEF Carries, Pkg, Aside
<1>7. ASSUME NEW q \in Process, q # p
      PROVE  Carries(q)' /\ Aside(q)' \in Harmless
  <2>1. cmd'[q] = cmd[q] /\ Carries(q) /\ Aside(q) \in Harmless
      BY <1>4, <1>7 DEF AllowedInv, OnlyAllowed
  <2> QED BY <2>1 DEF Carries, At, Pkg, Aside, Old
<1>8. WellNamed'
    BY <1>1 DEF AllowedInv, OnlyAllowed, WellNamed
<1>9. \A q \in Process : Carries(q)' /\ Aside(q)' \in Harmless
    BY <1>6, <1>7 DEF Harmless
<1> QED BY <1>1, <1>8, <1>9 DEF AllowedInv, OnlyAllowed

\* Whatever commands overlap, fail or stop, nothing but a package the policy allowed is
\* installed, locked, kept aside or left behind, under its own name and version: a
\* rollback brings back nothing else (cli.go:1060-1107, packagecheck.Install).
THEOREM OnlyAllowedIsInstalled == Spec => []OnlyAllowed
<1>1. Init => AllowedInv
  <2> SUFFICES ASSUME Init PROVE AllowedInv
      OBVIOUS
  <2>1. \A p \in Process : cmd[p] = Idle
      BY DEF Init
  <2>2. \A p \in Process : Carries(p) /\ Aside(p) = NoPackage
    <3>1. \A p \in Process : At(p) = "idle" /\ Aside(p) = NoPackage
        BY <2>1 DEF Idle, At, Aside
    <3>2. \A p \in Process : \A n \in Name : cmd[p].view[n] = NoPackage
        BY <2>1 DEF Idle
    <3> QED BY <3>1, <3>2, LifecycleAssumption DEF Carries
  <2>3. WellNamed /\ left = {}
      BY LifecycleAssumption DEF Init, WellNamed
  <2>4. /\ \A t \in Target : dir[t] = NoPackage
        /\ \A n \in Name : lock[n] = NoPackage
      BY DEF Init
  <2> QED BY <2>2, <2>3, <2>4 DEF AllowedInv, OnlyAllowed, Harmless
<1>2. Inv /\ AllowedInv /\ [Next]_lifecycleVars => AllowedInv'
  <2> SUFFICES ASSUME Inv, AllowedInv, [Next]_lifecycleVars PROVE AllowedInv'
      OBVIOUS
  <2>1. ASSUME NEW p \in Process, Step(p) PROVE AllowedInv'
      BY <2>1, StepAllowed
  <2>2. ASSUME NEW p \in Process, Crash(p) PROVE AllowedInv'
      BY <2>2, CrashAllowed
  <2>3. ASSUME NEW p \in Process, NEW o \in {"install", "update", "uninstall"},
               NEW k \in Package, Start(p, o, k)
        PROVE  AllowedInv'
      BY <2>3, StartAllowed
  <2>4. CASE UNCHANGED lifecycleVars
      BY <2>4 DEF lifecycleVars, AllowedInv, OnlyAllowed, Carries, WellNamed, At, Pkg, Aside, Old
  <2> QED BY <2>1, <2>2, <2>3, <2>4 DEF Next
<1>3. AllowedInv => OnlyAllowed
    BY DEF AllowedInv
<1> QED BY <1>1, <1>2, <1>3, Invariance, PTL DEF Spec

\* The types, what each step of a command that is alone finds, and what was allowed
\* (cli.go:969-1187).
THEOREM LifecycleInvariant == Spec => []LifecycleInv
<1>1. Inv /\ OnlyAllowed => LifecycleInv
    BY DEF Inv, LifecycleInv
<1> QED BY <1>1, Invariance, OnlyAllowedIsInstalled, PTL

LEMMA StepGoesForward ==
    ASSUME Inv, NEW p \in Process, Step(p)
    PROVE  /\ StepsLeft[At(p)'] < StepsLeft[At(p)]
           /\ \A q \in Process \ {p} : cmd'[q] = cmd[q]
<1>1. LifecycleTypeOK /\ cmd \in [Process -> Command] /\ cmd[p] \in Command
    BY DEF Inv, CommandsInv, LifecycleTypeOK
<1>2. /\ StepsLeft["verify"] = 7 /\ StepsLeft["stage"] = 6 /\ StepsLeft["place"] = 5
      /\ StepsLeft["write"] = 4 /\ StepsLeft["discard"] = 3 /\ StepsLeft["restore"] = 2
      /\ StepsLeft["clean"] = 1 /\ StepsLeft["idle"] = 0
    BY DEF StepsLeft
<1>3. ASSUME NEW place \in Place, Goto(p, place), StepsLeft[place] < StepsLeft[At(p)]
      PROVE  /\ StepsLeft[At(p)'] < StepsLeft[At(p)]
             /\ \A q \in Process \ {p} : cmd'[q] = cmd[q]
    BY <1>1, <1>3, GotoMoves, GotoFacts
<1>4. CASE Stage(p)
  <2> DEFINE old == dir[TargetOf(Old(p))]
             next == IF Op(p) = "uninstall" THEN "write" ELSE "place"
  <2>1. At(p) = "stage" /\ cmd' = [cmd EXCEPT ![p].aside = old, ![p].at = next]
      BY <1>4 DEF Stage
  <2>2. next \in {"write", "place"}
      OBVIOUS
  <2> HIDE DEF old, next
  <2>3. cmd'[p].at = next /\ \A q \in Process \ {p} : cmd'[q] = cmd[q]
      BY <2>1, <1>1 DEF Command
  <2>4. At(p)' = next
      BY <2>3 DEF At
  <2>5. StepsLeft[next] < StepsLeft[At(p)]
      BY <2>1, <2>2, <1>2
  <2> QED BY <2>3, <2>4, <2>5
<1>5. ASSUME NEW a \in Place, NEW b \in Place, NEW choice \in BOOLEAN,
             Goto(p, IF choice THEN a ELSE b),
             StepsLeft[a] < StepsLeft[At(p)], StepsLeft[b] < StepsLeft[At(p)]
      PROVE  \E place \in Place : Goto(p, place) /\ StepsLeft[place] < StepsLeft[At(p)]
    BY <1>5
<1>6. Place = {"idle", "verify", "stage", "place", "write", "discard", "restore", "clean"}
    BY DEF Place
<1>7. CASE Verify(p)
  <2>1. At(p) = "verify" /\ Goto(p, IF dir[TargetOf(Old(p))] = Old(p) THEN "stage" ELSE "idle")
      BY <1>7 DEF Verify
  <2> QED BY <2>1, <1>2, <1>3, <1>5, <1>6
<1>8. CASE InstallFails(p) \/ Discard(p)
  <2>1. At(p) \in {"place", "discard"} /\ Goto(p, IF Aside(p) = NoPackage THEN "idle" ELSE "restore")
      BY <1>8 DEF InstallFails, Discard, GiveUp
  <2> QED BY <2>1, <1>2, <1>3, <1>5, <1>6
<1>9. CASE WriteLock(p)
  <2>1. At(p) = "write" /\ Goto(p, IF Aside(p) = NoPackage THEN "idle" ELSE "clean")
      BY <1>9 DEF WriteLock
  <2> QED BY <2>1, <1>2, <1>3, <1>5, <1>6
<1>10. CASE WriteFails(p)
  <2>1. At(p) = "write" /\ Goto(p, IF Op(p) = "uninstall" THEN "restore" ELSE "discard")
      BY <1>10 DEF WriteFails
  <2> QED BY <2>1, <1>2, <1>3, <1>5, <1>6
<1>11. CASE StageFails(p) \/ Restore(p) \/ Clean(p)
  <2>1. At(p) \in {"stage", "restore", "clean"} /\ Goto(p, "idle")
      BY <1>11 DEF StageFails, Restore, Clean
  <2> QED BY <2>1, <1>2, <1>3, <1>6
<1>12. CASE Installs(p)
  <2>1. At(p) = "place" /\ Goto(p, "write")
      BY <1>12 DEF Installs
  <2> QED BY <2>1, <1>2, <1>3, <1>6
<1> QED BY <1>4, <1>7, <1>8, <1>9, <1>10, <1>11, <1>12 DEF Step

\* Every step brings a command nearer to its end, a rollback too, and moves no other
\* command: however many overlap, none sends another back (cli.go:1053-1187).
THEOREM CommandsOnlyGoForward == Spec => NoWayBack
<1>1. ASSUME Inv
      PROVE  \A p \in Process : Step(p) =>
                 /\ StepsLeft[At(p)'] < StepsLeft[At(p)]
                 /\ \A q \in Process \ {p} : cmd'[q] = cmd[q]
    BY <1>1, StepGoesForward
<1> QED BY <1>1, Invariance, PTL DEF Spec, NoWayBack
===============================================================================
