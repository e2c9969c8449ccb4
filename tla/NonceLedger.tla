----------------------------- MODULE NonceLedger -----------------------------
(***************************************************************************)
(* NonceLedger of internal/receipt/authorization.go: the replay protection *)
(* of single-use execution authorizations.  Every process owns one ledger: *)
(* a mutex, the map of the keys it has seen and, for a durable ledger, a   *)
(* directory shared with the other processes, in which O_CREATE|O_EXCL     *)
(* makes one entry file per key.  Consume runs under the mutex, but other  *)
(* processes interleave with its system calls, any of which may fail, and  *)
(* a process may stop between two of them.                                 *)
(*                                                                         *)
(* A key stands for the pair (authorization ID, nonce); the time written   *)
(* in an entry file only words the replay message and is left out.         *)
(***************************************************************************)
EXTENDS Naturals, FiniteSets

CONSTANTS
    Key,              \* pairs (authorization ID, nonce)
    Caller,           \* goroutines that call Consume
    Process,          \* operating-system processes on the host
    Runs,             \* the process each caller runs in
    DurableProcess,   \* the processes whose ledger has a durableDir
    NoCaller          \* the mutex is free

ASSUME LedgerAssumption ==
    /\ Runs \in [Caller -> Process]
    /\ DurableProcess \subseteq Process
    /\ NoCaller \notin Caller

VARIABLES
    mu,       \* NonceLedger.mu: the caller that holds it
    seen,     \* NonceLedger.seen: its keys
    entries,  \* the keys with an entry file in the shared directory
    at,       \* where each caller is in Consume
    key,      \* the key of the caller's current or last call
    result,   \* what the last call returned: nil, a replay error, another error
    total,    \* history: how often durable ledgers accepted each key, ever
    life      \* history: how often each process accepted each key since it started

ledgerVars == <<mu, seen, entries, at, key, result, total, life>>

Place == {"idle", "lock", "check", "open", "write", "unlink", "record"}
Locked == {"check", "open", "write", "unlink", "record"}
Holding == {"write", "unlink", "record"}
Result == {"none", "ok", "replay", "error"}

Durable(c) == Runs[c] \in DurableProcess
DurableCaller == {c \in Caller : Durable(c)}

\* NewNonceLedger, NewDurableNonceLedger: a new process starts with an empty
\* map; the directory starts empty.
LedgerInit ==
    /\ mu = [p \in Process |-> NoCaller]
    /\ seen = [p \in Process |-> {}]
    /\ entries = {}
    /\ at = [c \in Caller |-> "idle"]
    /\ key \in [Caller -> Key]
    /\ result = [c \in Caller |-> "none"]
    /\ total = [k \in Key |-> 0]
    /\ life = [p \in Process |-> [k \in Key |-> 0]]

-----------------------------------------------------------------------------
(* Consume, up to the mutex. *)

Call(c, k) ==
    /\ at[c] = "idle"
    /\ at' = [at EXCEPT ![c] = "lock"]
    /\ key' = [key EXCEPT ![c] = k]
    /\ result' = [result EXCEPT ![c] = "none"]
    /\ UNCHANGED <<mu, seen, entries, total, life>>

\* No ledger, or a blank authorization ID or nonce: refused before the mutex.
CallBlank(c) ==
    /\ at[c] = "idle"
    /\ result' = [result EXCEPT ![c] = "error"]
    /\ UNCHANGED <<mu, seen, entries, at, key, total, life>>

LockWithoutWaiting(c) ==    \* mutant: the mutex is not waited for
    /\ at[c] = "lock"
    /\ mu' = [mu EXCEPT ![Runs[c]] = c]
    /\ at' = [at EXCEPT ![c] = "check"]
    /\ UNCHANGED <<seen, entries, key, result, total, life>>

Lock(c) ==
    /\ at[c] = "lock"
    /\ mu[Runs[c]] = NoCaller
    /\ mu' = [mu EXCEPT ![Runs[c]] = c]
    /\ at' = [at EXCEPT ![c] = "check"]
    /\ UNCHANGED <<seen, entries, key, result, total, life>>

-----------------------------------------------------------------------------
(* Consume, under the mutex.  Return is the deferred Unlock and the return. *)

Goto(c, place) ==
    /\ at' = [at EXCEPT ![c] = place]
    /\ UNCHANGED <<mu, result>>

ReturnLocked(c, r) ==       \* mutant: an early return that keeps the mutex
    /\ at' = [at EXCEPT ![c] = "idle"]
    /\ result' = [result EXCEPT ![c] = r]
    /\ mu' = [mu EXCEPT ![Runs[c]] = IF r = "ok" THEN NoCaller ELSE @]

Return(c, r) ==
    /\ at' = [at EXCEPT ![c] = "idle"]
    /\ result' = [result EXCEPT ![c] = r]
    /\ mu' = [mu EXCEPT ![Runs[c]] = NoCaller]

CheckLock(c) ==             \* mutant: the map is not looked at
    /\ at[c] = "check"
    /\ Goto(c, IF Durable(c) THEN "open" ELSE "record")
    /\ UNCHANGED <<seen, entries, key, total, life>>

CheckSeen(c) ==
    /\ at[c] = "check"
    /\ \/ key[c] \in seen[Runs[c]] /\ Return(c, "replay")
       \/ /\ key[c] \notin seen[Runs[c]]
          /\ Goto(c, IF Durable(c) THEN "open" ELSE "record")
    /\ UNCHANGED <<seen, entries, key, total, life>>

OpenShared(c) ==            \* mutant: O_CREATE without O_EXCL
    /\ at[c] = "open"
    /\ entries' = entries \cup {key[c]}
    /\ Goto(c, "write")
    /\ UNCHANGED <<seen, key, total, life>>

OpenAndCleanUp(c) ==        \* mutant: the entry is removed on every error
    /\ at[c] = "open"
    /\ IF key[c] \in entries
       THEN Goto(c, "unlink") /\ UNCHANGED entries
       ELSE Goto(c, "write") /\ entries' = entries \cup {key[c]}
    /\ UNCHANGED <<seen, key, total, life>>

OpenExclusive(c) ==
    /\ at[c] = "open"
    /\ \/ /\ key[c] \in entries            \* os.ErrExist
          /\ Return(c, "replay")
          /\ UNCHANGED entries
       \/ /\ key[c] \notin entries
          /\ entries' = entries \cup {key[c]}
          /\ Goto(c, "write")
       \/ Return(c, "error") /\ UNCHANGED entries
    /\ UNCHANGED <<seen, key, total, life>>

\* WriteString, Sync and Close: their errors are looked at together.
WriteEntry(c) ==
    /\ at[c] = "write"
    /\ \E failed \in BOOLEAN : Goto(c, IF failed THEN "unlink" ELSE "record")
    /\ UNCHANGED <<seen, entries, key, total, life>>

\* os.Remove after a failed write: its own error is ignored.
RemoveEntry(c) ==
    /\ at[c] = "unlink"
    /\ \E removed \in BOOLEAN :
          entries' = IF removed THEN entries \ {key[c]} ELSE entries
    /\ Return(c, "error")
    /\ UNCHANGED <<seen, key, total, life>>

Record(c) ==
    /\ at[c] = "record"
    /\ seen' = [seen EXCEPT ![Runs[c]] = @ \cup {key[c]}]
    /\ life' = [life EXCEPT ![Runs[c]][key[c]] = @ + 1]
    /\ total' = IF Durable(c) THEN [total EXCEPT ![key[c]] = @ + 1] ELSE total
    /\ Return(c, "ok")
    /\ UNCHANGED <<entries, key>>

-----------------------------------------------------------------------------
(* A process stops between any two steps and is started again: its memory  *)
(* is gone, the directory is not.                                           *)
RestartWithNewDir(p) ==     \* mutant: the directory belongs to one run
    /\ mu' = [mu EXCEPT ![p] = NoCaller]
    /\ seen' = [seen EXCEPT ![p] = {}]
    /\ entries' = {}
    /\ at' = [c \in Caller |-> IF Runs[c] = p THEN "idle" ELSE at[c]]
    /\ result' = [c \in Caller |-> IF Runs[c] = p THEN "none" ELSE result[c]]
    /\ life' = [life EXCEPT ![p] = [k \in Key |-> 0]]
    /\ UNCHANGED <<key, total>>

Restart(p) ==
    /\ mu' = [mu EXCEPT ![p] = NoCaller]
    /\ seen' = [seen EXCEPT ![p] = {}]
    /\ at' = [c \in Caller |-> IF Runs[c] = p THEN "idle" ELSE at[c]]
    /\ result' = [c \in Caller |-> IF Runs[c] = p THEN "none" ELSE result[c]]
    /\ life' = [life EXCEPT ![p] = [k \in Key |-> 0]]
    /\ UNCHANGED <<entries, key, total>>

Step(c) ==
    \/ CheckSeen(c)
    \/ OpenExclusive(c)
    \/ WriteEntry(c)
    \/ RemoveEntry(c)
    \/ Record(c)

LedgerNext ==
    \/ \E c \in Caller, k \in Key : Call(c, k)
    \/ \E c \in Caller : CallBlank(c) \/ Lock(c) \/ Step(c)
    \/ \E p \in Process : Restart(p)

LedgerSpec == LedgerInit /\ [][LedgerNext]_ledgerVars

\* A system call returns and a runnable goroutine runs: weak fairness.  A
\* sync.Mutex in starvation mode hands itself to the longest waiter, so one that
\* keeps becoming free reaches everybody: strong fairness for Lock.
LedgerFairness == \A c \in Caller :
    WF_ledgerVars(Step(c)) /\ SF_ledgerVars(Lock(c))

LedgerLiveSpec == LedgerSpec /\ LedgerFairness

-----------------------------------------------------------------------------
(* Properties *)

\* Types of the ledgers and of the calls in flight.
LedgerTypeOK ==
    /\ mu \in [Process -> Caller \cup {NoCaller}]
    /\ seen \in [Process -> SUBSET Key]
    /\ entries \in SUBSET Key
    /\ at \in [Caller -> Place]
    /\ key \in [Caller -> Key]
    /\ result \in [Caller -> Result]
    /\ total \in [Key -> Nat]
    /\ life \in [Process -> [Key -> Nat]]

\* Replay protection across restarts and processes (docs/changes/0017): over the
\* whole history, the durable ledgers together accept a key at most once, however
\* their Consume calls interleave, fail or are cut off by a restart.
AcceptedAtMostOnce == \A k \in Key : total[k] <= 1

\* Replay protection of a process-local ledger: between two starts, one process
\* accepts a key at most once, although its goroutines call Consume concurrently.
AcceptedOncePerLife == \A p \in Process, k \in Key : life[p][k] <= 1

\* Clean-up never frees a consumed key: once a durable ledger has accepted a key,
\* its entry file stays, so no later Consume of any process can create it.
AcceptedStaysOnDisk == [][\A k \in Key :
    total[k] > 0 => k \in entries /\ k \in entries']_ledgerVars

\* Every Consume comes back, unless its process stops: the deferred Unlock runs on
\* each return path, so no caller waits for the mutex for ever.
ConsumeReturns == \A c \in Caller : at[c] = "lock" ~> at[c] = "idle"

\* The abstract replay guard, seen by the callers of durable ledgers.
Guard == INSTANCE ReplayGuard WITH
    Caller <- DurableCaller,
    consumed <- {k \in Key : total[k] > 0},
    asked <- [c \in DurableCaller |-> IF at[c] = "idle" THEN {} ELSE {key[c]}],
    answer <- [c \in DurableCaller |-> result[c]]

\* The durable ledgers implement the replay guard.
ImplementsReplayGuard == Guard!Spec

-----------------------------------------------------------------------------
(* The inductive invariant behind AcceptedAtMostOnce and AcceptedOncePerLife. *)

\* The mutex of a process is held by the one caller inside its Consume.
MutexInv ==
    /\ \A c \in Caller : at[c] \in Locked <=> mu[Runs[c]] = c
    /\ \A p \in Process : mu[p] # NoCaller => Runs[mu[p]] = p

\* Whoever has created an entry file is the only caller at work on its key, and
\* the key has not been accepted.
EntryInv ==
    /\ \A k \in Key : total[k] > 0 => k \in entries
    /\ \A c \in Caller : at[c] \in Holding /\ Durable(c) =>
          /\ key[c] \in entries
          /\ total[key[c]] = 0
    /\ \A c, d \in Caller :
          /\ at[c] \in Holding /\ Durable(c)
          /\ at[d] \in Holding /\ Durable(d)
          /\ key[c] = key[d]
          => c = d
    /\ \A c \in Caller : at[c] \in {"open", "write", "unlink"} => Durable(c)

\* The map of a process holds what it has accepted since it started.
SeenInv ==
    /\ \A p \in Process, k \in Key : life[p][k] > 0 => k \in seen[p]
    /\ \A c \in Caller : at[c] \in {"open", "write", "record"} =>
          key[c] \notin seen[Runs[c]]

LedgerInv ==
    /\ LedgerTypeOK
    /\ MutexInv
    /\ EntryInv
    /\ SeenInv
    /\ AcceptedAtMostOnce
    /\ AcceptedOncePerLife
==============================================================================
