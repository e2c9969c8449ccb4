------------------------------ MODULE StateFiles ------------------------------
(***************************************************************************)
(* The state files the commands of skil load, change and save: the         *)
(* revocation registry (internal/revocation), the skill catalog            *)
(* (internal/registry/catalog.go) and the state of skil continuous check   *)
(* (internal/continuous/state.go).  The first two are written in place,    *)
(* which other processes can watch; the third is replaced by a rename.     *)
(* Nothing locks a file between the load and the save of a command, and a  *)
(* process may stop between two system calls.                              *)
(*                                                                         *)
(* A registry is the set of its digests, a catalog the set of its          *)
(* entries, whose identifiers differ, by fingerprint; reasons, times and   *)
(* embeddings are left out.  A command adds one of them.                   *)
(***************************************************************************)
EXTENDS FiniteSets

CONSTANTS
    Process,
    Digest,      \* digests that are revoked or asked about
    Skill,       \* catalog entries
    Subject,     \* artifact and closure digests a continuous check computes
    NoState      \* there is no continuous state yet

ASSUME FilesAssumption == NoState \notin [subject : Subject, pinned : {"valid", "invalid"}]

VARIABLES
    file,        \* the content of the registry and of the catalog
    kept,        \* the content of the continuous state file
    job,         \* what each process is doing
    raced,       \* history: the processes another command on their file overlapped with
    settled,     \* history: additions acknowledged by commands nothing overlapped with
    alarmed,     \* history: the processes whose check saw drift or a denial
    drifted,     \* history: such a check was saved
    checksRaced  \* history: two continuous checks overlapped

checkHistory == <<alarmed, drifted, checksRaced>>
filesVars == <<file, kept, job, raced, settled, checkHistory>>

InPlace == {"revocations", "catalog"}
Items(s) == IF s = "revocations" THEN Digest ELSE Skill
Item == Digest \cup Skill
State == [subject : Subject, pinned : {"valid", "invalid"}]

\* What is in a file: a registry, nothing (it was truncated), or bytes that do
\* not parse.
Whole(items) == [form |-> "whole", items |-> items]
Empty == [form |-> "empty", items |-> {}]
Torn == [form |-> "torn", items |-> {}]
Content == {Whole(items) : items \in SUBSET Item} \cup {Empty, Torn}

\* A command: where it is, the file it works on, what it adds, and what it is
\* about to save: the items of a registry, or a continuous state.
Job == [at : {"idle", "truncate", "fill", "replace"}, on : InPlace \cup {"none", "continuous"},
        adds : SUBSET Item, items : SUBSET Item, state : State \cup {NoState}]
Idle == [at |-> "idle", on |-> "none", adds |-> {}, items |-> {}, state |-> NoState]
SavingOnly(s, i, items) ==     \* mutant: the new entry replaces the old ones
    [at |-> "truncate", on |-> s, adds |-> {i}, items |-> {i}, state |-> NoState]

Saving(s, i, items) ==
    [at |-> "truncate", on |-> s, adds |-> {i}, items |-> items, state |-> NoState]

\* No file exists at first; a continuous state may, with a pin that holds.
FilesInit ==
    /\ file = [s \in InPlace |-> Whole({})]
    /\ kept \in {NoState} \cup State
    /\ job = [p \in Process |-> Idle]
    /\ raced = {} /\ settled = {}
    /\ alarmed = {} /\ drifted = FALSE /\ checksRaced = FALSE

On(s) == {p \in Process : job[p].on = s}

LoadsAnything(s) == TRUE     \* mutant: what does not parse is taken for empty

\* LoadRegistry, load: a missing file is an empty registry, one that does not
\* parse is an error and ends the command.
Loads(s) == file[s].form = "whole"

\* RevokeDigest and registry index: load, then change the copy.
Add(p, s, i) ==
    /\ job[p] = Idle
    /\ Loads(s)
    /\ ~(s = "revocations" /\ i \in file[s].items)
    /\ job' = [job EXCEPT ![p] = Saving(s, i, file[s].items \cup {i})]
    /\ raced' = IF On(s) = {} THEN raced \ {p} ELSE raced \cup On(s) \cup {p}
    /\ UNCHANGED <<file, kept, settled, checkHistory>>

\* RevokeDigest of a digest the loaded registry has: there is nothing to save.
RevokedAlready(p, i) ==
    /\ job[p] = Idle
    /\ Loads("revocations") /\ i \in file["revocations"].items
    /\ settled' = IF On("revocations") = {} THEN settled \cup {<<"revocations", i>>} ELSE settled
    /\ UNCHANGED <<file, kept, job, raced, checkHistory>>

\* os.WriteFile: O_TRUNC first ...
Truncate(p) ==
    /\ job[p].at = "truncate"
    /\ file' = [file EXCEPT ![job[p].on] = Empty]
    /\ job' = [job EXCEPT ![p].at = "fill"]
    /\ UNCHANGED <<kept, raced, settled, checkHistory>>

\* ... then the bytes, from the start of the file.  On top of what another
\* process wrote after the truncation they cover it or leave its tail.
Overwritten(old, new) ==
    IF old \in {Empty, new} THEN {new} ELSE {new, Torn}

Fill(p) ==
    LET s == job[p].on IN
    /\ job[p].at = "fill"
    /\ \E content \in Overwritten(file[s], Whole(job[p].items)) : file' = [file EXCEPT ![s] = content]
    /\ settled' = IF p \in raced THEN settled ELSE settled \cup {<<s, i>> : i \in job[p].adds}
    /\ job' = [job EXCEPT ![p] = Idle]
    /\ UNCHANGED <<kept, raced, checkHistory>>

\* The write fails half way, and the command reports it.
FillFails(p) ==
    /\ job[p].at = "fill"
    /\ file' = [file EXCEPT ![job[p].on] = Torn]
    /\ job' = [job EXCEPT ![p] = Idle]
    /\ UNCHANGED <<kept, raced, settled, checkHistory>>

EvaluateLater(old, subject, allowed) ==     \* mutant: a denial is not taken into account
    [subject |-> subject,
     pinned |-> IF old # NoState /\ old.subject = subject THEN old.pinned ELSE "invalid"]

\* Evaluate: the state that follows the previous one.
Evaluate(old, subject, allowed) ==
    [subject |-> subject,
     pinned |-> IF old # NoState /\ old.subject = subject /\ allowed THEN old.pinned ELSE "invalid"]

\* skil continuous check: the scan and the decision, then the load of the
\* previous state ...
Check(p, subject, allowed) ==
    /\ job[p] = Idle
    /\ job' = [job EXCEPT ![p] =
           [at |-> "replace", on |-> "continuous", adds |-> {}, items |-> {},
            state |-> Evaluate(kept, subject, allowed)]]
    /\ alarmed' = IF allowed /\ kept # NoState /\ kept.subject = subject
                  THEN alarmed \ {p} ELSE alarmed \cup {p}
    /\ checksRaced' = (checksRaced \/ On("continuous") # {})
    /\ UNCHANGED <<file, kept, raced, settled, drifted>>

\* ... and Save: a temporary file renamed over the state file.
Replace(p) ==
    /\ job[p].at = "replace"
    /\ kept' = job[p].state
    /\ job' = [job EXCEPT ![p] = Idle]
    /\ drifted' = (drifted \/ p \in alarmed)
    /\ UNCHANGED <<file, raced, settled, alarmed, checksRaced>>

\* The process stops, or gives up with an error before it changed a file.
Stop(p) ==
    /\ job[p] # Idle
    /\ job' = [job EXCEPT ![p] = Idle]
    /\ UNCHANGED <<file, kept, raced, settled, checkHistory>>

FilesNext == \E p \in Process :
    \/ \E s \in InPlace : \E i \in Items(s) : Add(p, s, i)
    \/ \E i \in Digest : RevokedAlready(p, i)
    \/ \E subject \in Subject, allowed \in BOOLEAN : Check(p, subject, allowed)
    \/ Truncate(p) \/ Fill(p) \/ FillFails(p) \/ Replace(p) \/ Stop(p)

FilesSpec == FilesInit /\ [][FilesNext]_filesVars

-----------------------------------------------------------------------------
\* What skil revoke check and registry check answer (IsRevoked, FindExact).
Answer(s, i) ==
    IF ~Loads(s) THEN "error" ELSE IF i \in file[s].items THEN "found" ELSE "absent"

FilesTypeOK ==
    /\ file \in [InPlace -> Content]
    /\ kept \in {NoState} \cup State
    /\ job \in [Process -> Job]
    /\ raced \subseteq Process /\ alarmed \subseteq Process
    /\ settled \subseteq InPlace \X Item
    /\ drifted \in BOOLEAN /\ checksRaced \in BOOLEAN

\* A command that is about to write has everything that was settled, and one
\* nothing overlaps with is alone.
CopyIsCurrent(p) ==
    /\ job[p].at \in {"truncate", "fill"} =>
          /\ job[p].on \in InPlace
          /\ job[p].adds \subseteq job[p].items
          /\ \A i \in Items(job[p].on) : <<job[p].on, i>> \in settled => i \in job[p].items
          /\ p \notin raced => On(job[p].on) = {p}
    /\ job[p].at = "replace" => job[p].on = "continuous" /\ job[p].state \in State
    /\ job[p].at = "idle" => job[p] = Idle

\* A check that is about to save keeps a pin only if neither it nor a check
\* before it saw drift or a denial.
CheckIsCurrent(p) == job[p].at = "replace" =>
    /\ p \in alarmed => job[p].state.pinned = "invalid"
    /\ ~checksRaced => On("continuous") = {p}
    /\ ~checksRaced /\ drifted => job[p].state.pinned = "invalid"

FilesInv == FilesTypeOK /\ \A p \in Process : CopyIsCurrent(p) /\ CheckIsCurrent(p)

\* An addition that was acknowledged, and that no other command on the file
\* overlapped with, is found by every later look-up that gets an answer:
\* whichever later commands race, fail or stop half way, a revoked digest is
\* never again reported as valid.
SettledStands ==
    \A s \in InPlace : \A i \in Items(s) : <<s, i>> \in settled => Answer(s, i) # "absent"

\* As long as checks run one after the other, a runtime pin that drift or a
\* denial invalidated is not valid again.
PinNeverReturns ==
    drifted /\ ~checksRaced => kept # NoState /\ kept.pinned = "invalid"

===============================================================================
