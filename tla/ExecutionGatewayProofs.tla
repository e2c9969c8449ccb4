------------------------ MODULE ExecutionGatewayProofs ------------------------
(***************************************************************************)
(* What the ledgers and the gateways guarantee for any number of keys,     *)
(* authorizations, goroutines and processes, with any of the ledgers       *)
(* durable.  LedgerInv is inductive: the exclusive creation of the entry   *)
(* file makes its creator the only caller at work on the key, and the file *)
(* outlives the process.  A gateway moves its ledger only by ledger steps, *)
(* so that invariant carries over; on top of it, one accepted key entitles *)
(* one caller to one run.                                                  *)
(***************************************************************************)
EXTENDS ExecutionGateway, TLAPS

\* The two goroutine-local moves every step under the mutex ends with.
LEMMA GotoFacts ==
    ASSUME LedgerTypeOK, NEW c \in Caller, NEW place \in Place, Goto(c, place)
    PROVE  /\ at' \in [Caller -> Place] /\ at'[c] = place
           /\ \A d \in Caller : d # c => at'[d] = at[d]
           /\ mu' = mu /\ result' = result
BY DEF LedgerTypeOK, Goto

LEMMA ReturnFacts ==
    ASSUME LedgerTypeOK, NEW c \in Caller, NEW r \in Result, Return(c, r)
    PROVE  /\ at' \in [Caller -> Place] /\ at'[c] = "idle"
           /\ \A d \in Caller : d # c => at'[d] = at[d]
           /\ result' \in [Caller -> Result]
           /\ mu' = [mu EXCEPT ![Runs[c]] = NoCaller]
           /\ mu' \in [Process -> Caller \cup {NoCaller}]
BY LedgerAssumption DEF LedgerTypeOK, Return, Place

\* Consume goes on under the mutex: who holds what does not change.
LEMMA MutexOnGoto ==
    ASSUME LedgerInv, NEW c \in Caller, at[c] \in Locked,
           NEW place \in Locked, Goto(c, place)
    PROVE  MutexInv'
<1>1. /\ \A d \in Caller : at'[d] \in Locked <=> at[d] \in Locked
      /\ mu' = mu
  BY DEF LedgerInv, LedgerTypeOK, Goto
<1>2. QED
  BY <1>1 DEF LedgerInv, MutexInv

\* The deferred Unlock frees the mutex of the caller that held it, and no other.
LEMMA MutexOnReturn ==
    ASSUME LedgerInv, NEW c \in Caller, at[c] \in Locked,
           NEW r \in Result, Return(c, r)
    PROVE  MutexInv'
<1>1. /\ mu \in [Process -> Caller \cup {NoCaller}]
      /\ mu[Runs[c]] = c
      /\ mu' = [mu EXCEPT ![Runs[c]] = NoCaller]
      /\ at'[c] = "idle"
      /\ \A d \in Caller : d # c => at'[d] = at[d]
  BY DEF LedgerInv, LedgerTypeOK, MutexInv, Return
<1>2. ASSUME NEW d \in Caller PROVE at'[d] \in Locked <=> mu'[Runs[d]] = d
  <2>1. CASE d = c
    BY <1>1, <2>1, LedgerAssumption DEF Locked
  <2>2. CASE d # c
    BY <1>1, <2>2, LedgerAssumption DEF LedgerInv, MutexInv
  <2>3. QED
    BY <2>1, <2>2
<1>3. ASSUME NEW p \in Process, mu'[p] # NoCaller PROVE Runs[mu'[p]] = p
  BY <1>1, <1>3, LedgerAssumption DEF LedgerInv, MutexInv
<1>4. QED
  BY <1>2, <1>3 DEF MutexInv

\* LedgerInit: an empty directory, nothing accepted, nobody in Consume.
LEMMA InitInv == LedgerInit => LedgerInv
BY LedgerAssumption DEF LedgerInit, LedgerInv, LedgerTypeOK, MutexInv, EntryInv, SeenInv,
   AcceptedAtMostOnce, AcceptedOncePerLife, Place, Result, Locked, Holding, Durable

LEMMA CallStepInv ==
    ASSUME LedgerInv, NEW c \in Caller, NEW k \in Key, Call(c, k)
    PROVE  LedgerInv'
BY LedgerAssumption DEF LedgerInv, LedgerTypeOK, MutexInv, EntryInv, SeenInv, Call,
   AcceptedAtMostOnce, AcceptedOncePerLife, Place, Result, Locked, Holding, Durable

LEMMA CallBlankInv ==
    ASSUME LedgerInv, NEW c \in Caller, CallBlank(c)
    PROVE  LedgerInv'
BY LedgerAssumption DEF LedgerInv, LedgerTypeOK, MutexInv, EntryInv, SeenInv, CallBlank,
   AcceptedAtMostOnce, AcceptedOncePerLife, Place, Result, Locked, Holding, Durable

\* Lock: only the place of one caller and its mutex change.
LEMMA LockInv ==
    ASSUME LedgerInv, NEW c \in Caller, Lock(c)
    PROVE  LedgerInv'
<1>1. LedgerTypeOK'
  BY LedgerAssumption DEF LedgerInv, LedgerTypeOK, Place, Result, Lock
<1>2. MutexInv'
  <2>1. /\ mu \in [Process -> Caller \cup {NoCaller}]
        /\ mu[Runs[c]] = NoCaller
        /\ mu' = [mu EXCEPT ![Runs[c]] = c]
        /\ at[c] = "lock" /\ at'[c] = "check"
        /\ \A d \in Caller : d # c => at'[d] = at[d]
    BY DEF LedgerInv, LedgerTypeOK, Lock
  <2>2. ASSUME NEW d \in Caller PROVE at'[d] \in Locked <=> mu'[Runs[d]] = d
    BY <2>1, LedgerAssumption DEF LedgerInv, MutexInv, Locked
  <2>3. ASSUME NEW p \in Process, mu'[p] # NoCaller PROVE Runs[mu'[p]] = p
    BY <2>1, <2>3, LedgerAssumption DEF LedgerInv, MutexInv
  <2>4. QED
    BY <2>2, <2>3 DEF MutexInv
<1>3. EntryInv'
  BY LedgerAssumption DEF LedgerInv, LedgerTypeOK, EntryInv, Holding, Durable, Place, Lock
<1>4. SeenInv'
  BY LedgerAssumption DEF LedgerInv, LedgerTypeOK, SeenInv, Place, Lock
<1>5. AcceptedAtMostOnce' /\ AcceptedOncePerLife'
  BY LedgerAssumption DEF LedgerInv, LedgerTypeOK, AcceptedAtMostOnce, AcceptedOncePerLife, Lock
<1>6. QED
  BY <1>1, <1>2, <1>3, <1>4, <1>5 DEF LedgerInv

\* CheckSeen: the caller leaves the mutex, or goes on with a key its process has not seen.
LEMMA CheckSeenInv ==
    ASSUME LedgerInv, NEW c \in Caller, CheckSeen(c)
    PROVE  LedgerInv'
<1>1. LedgerTypeOK'
  BY LedgerAssumption DEF LedgerInv, LedgerTypeOK, Place, Result, CheckSeen, Goto, Return
<1>2. MutexInv'
  <2>1. CASE Return(c, "replay")
    BY <2>1, MutexOnReturn DEF CheckSeen, Locked, Result
  <2>2. CASE Goto(c, IF Durable(c) THEN "open" ELSE "record")
    BY <2>2, MutexOnGoto DEF CheckSeen, Locked
  <2>3. QED
    BY <2>1, <2>2 DEF CheckSeen
<1>3. EntryInv'
  BY LedgerAssumption DEF LedgerInv, LedgerTypeOK, EntryInv, Holding, Durable, Place, CheckSeen, Goto, Return
<1>4. SeenInv'
  BY LedgerAssumption DEF LedgerInv, LedgerTypeOK, SeenInv, Place, CheckSeen, Goto, Return
<1>5. AcceptedAtMostOnce' /\ AcceptedOncePerLife'
  BY LedgerAssumption DEF LedgerInv, LedgerTypeOK, AcceptedAtMostOnce, AcceptedOncePerLife, CheckSeen, Goto, Return
<1>6. QED
  BY <1>1, <1>2, <1>3, <1>4, <1>5 DEF LedgerInv

\* OpenExclusive: the file did not exist, so nobody else holds it and nobody accepted the key.
LEMMA OpenExclusiveInv ==
    ASSUME LedgerInv, NEW c \in Caller, OpenExclusive(c)
    PROVE  LedgerInv'
<1>1. LedgerTypeOK'
  <2>1. ASSUME NEW r \in {"replay", "error"}, Return(c, r), UNCHANGED entries
        PROVE  LedgerTypeOK'
    BY <2>1, ReturnFacts DEF LedgerInv, LedgerTypeOK, OpenExclusive, Result
  <2>2. CASE Goto(c, "write") /\ entries' = entries \cup {key[c]}
    BY <2>2, GotoFacts DEF LedgerInv, LedgerTypeOK, OpenExclusive, Place
  <2>3. QED
    BY <2>1, <2>2 DEF OpenExclusive
<1>2. MutexInv'
  <2>1. ASSUME NEW r \in {"replay", "error"}, Return(c, r) PROVE MutexInv'
    BY <2>1, MutexOnReturn DEF OpenExclusive, Locked, Result
  <2>2. CASE Goto(c, "write")
    BY <2>2, MutexOnGoto DEF OpenExclusive, Locked
  <2>3. QED
    BY <2>1, <2>2 DEF OpenExclusive
<1>3. EntryInv'
  BY LedgerAssumption DEF LedgerInv, LedgerTypeOK, EntryInv, Holding, Durable, Place, OpenExclusive, Goto, Return
<1>4. SeenInv'
  BY LedgerAssumption DEF LedgerInv, LedgerTypeOK, SeenInv, Place, OpenExclusive, Goto, Return
<1>5. AcceptedAtMostOnce' /\ AcceptedOncePerLife'
  BY LedgerAssumption DEF LedgerInv, LedgerTypeOK, AcceptedAtMostOnce, AcceptedOncePerLife, OpenExclusive, Goto, Return
<1>6. QED
  BY <1>1, <1>2, <1>3, <1>4, <1>5 DEF LedgerInv

\* WriteEntry: the entry stays where it is.
LEMMA WriteEntryInv ==
    ASSUME LedgerInv, NEW c \in Caller, WriteEntry(c)
    PROVE  LedgerInv'
<1>1. LedgerTypeOK'
  BY LedgerAssumption DEF LedgerInv, LedgerTypeOK, Place, Result, WriteEntry, Goto
<1>2. MutexInv'
  BY LedgerAssumption DEF LedgerInv, LedgerTypeOK, MutexInv, Locked, Place, WriteEntry, Goto
<1>3. EntryInv'
  BY LedgerAssumption DEF LedgerInv, LedgerTypeOK, EntryInv, Holding, Durable, Place, WriteEntry, Goto
<1>4. SeenInv'
  BY LedgerAssumption DEF LedgerInv, LedgerTypeOK, SeenInv, Place, WriteEntry, Goto
<1>5. AcceptedAtMostOnce' /\ AcceptedOncePerLife'
  BY LedgerAssumption DEF LedgerInv, LedgerTypeOK, AcceptedAtMostOnce, AcceptedOncePerLife, WriteEntry, Goto
<1>6. QED
  BY <1>1, <1>2, <1>3, <1>4, <1>5 DEF LedgerInv

\* RemoveEntry: the file removed is the caller's own, of a key not accepted.
LEMMA RemoveEntryInv ==
    ASSUME LedgerInv, NEW c \in Caller, RemoveEntry(c)
    PROVE  LedgerInv'
<1>1. LedgerTypeOK'
  BY LedgerAssumption DEF LedgerInv, LedgerTypeOK, Place, Result, RemoveEntry, Return
<1>2. MutexInv'
  BY LedgerAssumption DEF LedgerInv, LedgerTypeOK, MutexInv, Locked, Place, RemoveEntry, Return
<1>3. EntryInv'
  BY LedgerAssumption DEF LedgerInv, LedgerTypeOK, EntryInv, Holding, Durable, Place, RemoveEntry, Return
<1>4. SeenInv'
  BY LedgerAssumption DEF LedgerInv, LedgerTypeOK, SeenInv, Place, RemoveEntry, Return
<1>5. AcceptedAtMostOnce' /\ AcceptedOncePerLife'
  BY LedgerAssumption DEF LedgerInv, LedgerTypeOK, AcceptedAtMostOnce, AcceptedOncePerLife, RemoveEntry, Return
<1>6. QED
  BY <1>1, <1>2, <1>3, <1>4, <1>5 DEF LedgerInv

\* Record: the key had not been accepted, by this process or durably.
LEMMA RecordInv ==
    ASSUME LedgerInv, NEW c \in Caller, Record(c)
    PROVE  LedgerInv'
<1>1. LedgerTypeOK'
  <2>1. /\ at' \in [Caller -> Place] /\ result' \in [Caller -> Result]
        /\ mu' \in [Process -> Caller \cup {NoCaller}]
    BY ReturnFacts DEF LedgerInv, Record, Result
  <2>2. seen' \in [Process -> SUBSET Key] /\ total' \in [Key -> Nat]
    BY LedgerAssumption DEF LedgerInv, LedgerTypeOK, Record
  <2>3. life' \in [Process -> [Key -> Nat]]
    <3>1. Runs[c] \in Process /\ key[c] \in Key
      BY LedgerAssumption DEF LedgerInv, LedgerTypeOK
    <3>2. [life[Runs[c]] EXCEPT ![key[c]] = @ + 1] \in [Key -> Nat]
      BY <3>1 DEF LedgerInv, LedgerTypeOK
    <3>3. QED
      BY <3>1, <3>2 DEF LedgerInv, LedgerTypeOK, Record
  <2>4. QED
    BY <2>1, <2>2, <2>3 DEF LedgerInv, LedgerTypeOK, Record
<1>2. MutexInv'
  BY LedgerAssumption DEF LedgerInv, LedgerTypeOK, MutexInv, Locked, Place, Record, Return
<1>3. EntryInv'
  BY LedgerAssumption DEF LedgerInv, LedgerTypeOK, EntryInv, Holding, Durable, Place, Record, Return
<1>4. SeenInv'
  <2> DEFINE p == Runs[c]
             k == key[c]
  <2>1. /\ p \in Process /\ k \in Key
        /\ seen' = [seen EXCEPT ![p] = @ \cup {k}]
        /\ life' = [life EXCEPT ![p][k] = @ + 1]
        /\ seen \in [Process -> SUBSET Key] /\ life \in [Process -> [Key -> Nat]]
        /\ at'[c] = "idle" /\ \A d \in Caller : d # c => at'[d] = at[d]
        /\ mu[p] = c /\ key' = key
    BY LedgerAssumption DEF LedgerInv, LedgerTypeOK, MutexInv, Locked, Record, Return
  <2>2. ASSUME NEW q \in Process, NEW l \in Key, life'[q][l] > 0 PROVE l \in seen'[q]
    BY <2>1, <2>2 DEF LedgerInv, SeenInv
  <2>3. ASSUME NEW d \in Caller, at'[d] \in {"open", "write", "record"}
        PROVE  key'[d] \notin seen'[Runs[d]]
    <3>1. d # c /\ at[d] \in Locked /\ mu[Runs[d]] = d
      BY <2>1, <2>3 DEF LedgerInv, MutexInv, Locked
    <3>2. Runs[d] # p
      BY <2>1, <3>1
    <3>3. QED
      BY <2>1, <2>3, <3>1, <3>2, LedgerAssumption DEF LedgerInv, SeenInv
  <2>4. QED
    BY <2>2, <2>3 DEF SeenInv
<1>5. AcceptedAtMostOnce' /\ AcceptedOncePerLife'
  <2>1. /\ Runs[c] \in Process /\ key[c] \in Key
        /\ life \in [Process -> [Key -> Nat]] /\ total \in [Key -> Nat]
        /\ life[Runs[c]][key[c]] = 0
        /\ Durable(c) => total[key[c]] = 0
    BY LedgerAssumption DEF LedgerInv, LedgerTypeOK, SeenInv, EntryInv, Holding, Record
  <2>2. AcceptedAtMostOnce'
    BY <2>1 DEF LedgerInv, AcceptedAtMostOnce, Record
  <2>3. AcceptedOncePerLife'
    BY <2>1 DEF LedgerInv, AcceptedOncePerLife, Record
  <2>4. QED
    BY <2>2, <2>3
<1>6. QED
  BY <1>1, <1>2, <1>3, <1>4, <1>5 DEF LedgerInv

\* Restart: the calls of one process end, the directory is left alone.
LEMMA RestartInv ==
    ASSUME LedgerInv, NEW p \in Process, Restart(p)
    PROVE  LedgerInv'
<1>1. LedgerTypeOK'
  BY LedgerAssumption DEF LedgerInv, LedgerTypeOK, Place, Result, Restart
<1>2. MutexInv'
  BY LedgerAssumption DEF LedgerInv, LedgerTypeOK, MutexInv, Locked, Place, Restart
<1>3. EntryInv'
  BY LedgerAssumption DEF LedgerInv, LedgerTypeOK, EntryInv, Holding, Durable, Place, Restart
<1>4. SeenInv'
  BY LedgerAssumption DEF LedgerInv, LedgerTypeOK, SeenInv, Place, Restart
<1>5. AcceptedAtMostOnce' /\ AcceptedOncePerLife'
  BY LedgerAssumption DEF LedgerInv, LedgerTypeOK, AcceptedAtMostOnce, AcceptedOncePerLife, Restart
<1>6. QED
  BY <1>1, <1>2, <1>3, <1>4, <1>5 DEF LedgerInv

-----------------------------------------------------------------------------
(* The theorems. *)

\* Every step of the ledgers, the crash of a process included, keeps LedgerInv.
LEMMA NextInv == LedgerInv /\ [LedgerNext]_ledgerVars => LedgerInv'
<1> SUFFICES ASSUME LedgerInv, [LedgerNext]_ledgerVars PROVE LedgerInv'
  OBVIOUS
<1>1. CASE \E c \in Caller, k \in Key : Call(c, k)
  BY <1>1, CallStepInv
<1>2. ASSUME NEW c \in Caller, CallBlank(c) \/ Lock(c) PROVE LedgerInv'
  BY <1>2, CallBlankInv, LockInv
<1>3. ASSUME NEW c \in Caller, Step(c) PROVE LedgerInv'
  BY <1>3, CheckSeenInv, OpenExclusiveInv, WriteEntryInv, RemoveEntryInv, RecordInv DEF Step
<1>4. CASE \E p \in Process : Restart(p)
  BY <1>4, RestartInv
<1>5. CASE UNCHANGED ledgerVars
  BY <1>5 DEF ledgerVars, LedgerInv, LedgerTypeOK, MutexInv, EntryInv, SeenInv,
     AcceptedAtMostOnce, AcceptedOncePerLife, Durable
<1>6. QED
  BY <1>1, <1>2, <1>3, <1>4, <1>5 DEF LedgerNext

\* The inductive invariant holds in every reachable state.
THEOREM LedgerInvariant == LedgerSpec => []LedgerInv
BY InitInv, NextInv, PTL DEF LedgerSpec

\* Consume (authorization.go:416): durable ledgers that share a directory accept
\* a key at most once, across processes, failed writes and restarts.
THEOREM DurableReplayProtection == LedgerSpec => []AcceptedAtMostOnce
<1>1. LedgerInv => AcceptedAtMostOnce
  BY DEF LedgerInv
<1>2. QED
  BY <1>1, LedgerInvariant, PTL

\* Consume (authorization.go:416): a process accepts a key at most once between
\* two starts, with or without a durable directory.
THEOREM LocalReplayProtection == LedgerSpec => []AcceptedOncePerLife
<1>1. LedgerInv => AcceptedOncePerLife
  BY DEF LedgerInv
<1>2. QED
  BY <1>1, LedgerInvariant, PTL

\* os.Remove after a failed write never frees the entry of an accepted key.
THEOREM AcceptedEntryStays == LedgerSpec => AcceptedStaysOnDisk
<1>1. LedgerInv /\ [LedgerNext]_ledgerVars =>
        [\A k \in Key : total[k] > 0 => k \in entries /\ k \in entries']_ledgerVars
  <2> SUFFICES ASSUME LedgerInv, LedgerNext, NEW k \in Key, total[k] > 0
               PROVE  k \in entries /\ k \in entries'
    OBVIOUS
  <2>1. total \in [Key -> Nat] /\ k \in entries
    BY DEF LedgerInv, LedgerTypeOK, EntryInv
  <2>2. CASE \E c \in Caller : RemoveEntry(c)
    BY <2>1, <2>2 DEF LedgerInv, EntryInv, Holding, RemoveEntry
  <2>3. CASE ~ \E c \in Caller : RemoveEntry(c)
    BY <2>1, <2>3 DEF LedgerNext, Step, Call, CallBlank, Lock, CheckSeen, OpenExclusive,
       WriteEntry, Record, Restart
  <2>4. QED
    BY <2>1, <2>2, <2>3
<1>2. QED
  BY <1>1, LedgerInvariant, PTL DEF LedgerSpec, AcceptedStaysOnDisk

-----------------------------------------------------------------------------
(* The durable ledgers implement the replay guard.  Consumption happens at  *)
(* Record; every other step of Consume is a refusal or a stutter.           *)

askedOf == [c \in DurableCaller |-> IF at[c] = "idle" THEN {} ELSE {key[c]}]
answerOf == [c \in DurableCaller |-> result[c]]
consumedOf == {k \in Key : total[k] > 0}

\* A step that leaves the calls of durable ledgers where they are is a stutter.
LEMMA GuardStutters ==
    ASSUME total' = total, key' = key,
           \A d \in DurableCaller : result'[d] = result[d] /\ (at'[d] = "idle" <=> at[d] = "idle")
    PROVE  UNCHANGED <<consumedOf, askedOf, answerOf>>
<1>1. DurableCaller' = DurableCaller
  BY DEF DurableCaller, Durable
<1>2. askedOf' = askedOf /\ answerOf' = answerOf
  BY <1>1 DEF askedOf, answerOf
<1>3. QED
  BY <1>2 DEF consumedOf

\* Consume returns an error to a caller of a durable ledger: a refusal.
LEMMA GuardRefuses ==
    ASSUME LedgerInv, NEW c \in DurableCaller, NEW why \in {"replay", "error"},
           Return(c, why), total' = total, key' = key
    PROVE  Guard!Refuse(c, why)
<1>1. DurableCaller' = DurableCaller /\ c \in Caller /\ DurableCaller \subseteq Caller
  BY DEF DurableCaller, Durable
<1>2. askedOf' = [askedOf EXCEPT ![c] = {}]
  BY <1>1 DEF askedOf, Return, LedgerInv, LedgerTypeOK
<1>3. answerOf' = [answerOf EXCEPT ![c] = why]
  BY <1>1 DEF answerOf, Return, LedgerInv, LedgerTypeOK
<1>4. consumedOf' = consumedOf
  BY DEF consumedOf
<1>5. QED
  BY <1>2, <1>3, <1>4 DEF Guard!Refuse, askedOf, answerOf, consumedOf

\* A step by a caller of a ledger that is not durable is a stutter.
LEMMA LocalStutters ==
    ASSUME LedgerInv, NEW c \in Caller, ~Durable(c), total' = total,
           \A d \in Caller : d # c => at'[d] = at[d] /\ key'[d] = key[d] /\ result'[d] = result[d]
    PROVE  UNCHANGED <<consumedOf, askedOf, answerOf>>
<1>1. DurableCaller' = DurableCaller /\ \A d \in DurableCaller : d \in Caller /\ d # c
  BY DEF DurableCaller, Durable
<1>2. askedOf' = askedOf /\ answerOf' = answerOf
  BY <1>1 DEF askedOf, answerOf
<1>3. QED
  BY <1>2 DEF consumedOf

\* A step of a durable caller's Consume.
LEMMA DurableStep ==
    ASSUME LedgerInv, NEW c \in Caller, Durable(c), Lock(c) \/ Step(c)
    PROVE  Guard!Next \/ UNCHANGED <<consumedOf, askedOf, answerOf>>
<1>0. c \in DurableCaller /\ DurableCaller \subseteq Caller /\ DurableCaller' = DurableCaller
  BY DEF DurableCaller, Durable
<1>1. ASSUME NEW why \in {"replay", "error"}, Return(c, why), total' = total, key' = key
      PROVE  Guard!Next
  BY <1>0, <1>1, GuardRefuses DEF Guard!Next
<1>2. ASSUME NEW place \in Place \ {"idle"}, Goto(c, place), at[c] # "idle",
             total' = total, key' = key
      PROVE  UNCHANGED <<consumedOf, askedOf, answerOf>>
  BY <1>0, <1>2, GuardStutters DEF Goto, LedgerInv, LedgerTypeOK
<1>3. CASE Lock(c)
  BY <1>0, <1>3, GuardStutters DEF Lock, LedgerInv, LedgerTypeOK
<1>4. CASE CheckSeen(c)
  BY <1>1, <1>2, <1>4 DEF CheckSeen, Place
<1>5. CASE OpenExclusive(c)
  BY <1>1, <1>2, <1>5 DEF OpenExclusive, Place
<1>6. CASE WriteEntry(c)
  BY <1>2, <1>6 DEF WriteEntry, Place
<1>7. CASE RemoveEntry(c)
  BY <1>1, <1>7 DEF RemoveEntry
<1>8. CASE Record(c)
  <2>0. PICK k \in Key : k = key[c]
    BY DEF LedgerInv, LedgerTypeOK
  <2>1. total \in [Key -> Nat] /\ total[k] = 0 /\ at[c] = "record"
    BY <1>8, <2>0 DEF Record, LedgerInv, LedgerTypeOK, EntryInv, Holding
  <2>2. consumedOf' = consumedOf \cup {k}
    BY <1>8, <2>0, <2>1 DEF Record, consumedOf
  <2>3. askedOf[c] = {k} /\ askedOf' = [askedOf EXCEPT ![c] = {}]
    BY <1>0, <1>8, <2>0, <2>1 DEF Record, Return, askedOf, LedgerInv, LedgerTypeOK
  <2>4. answerOf' = [answerOf EXCEPT ![c] = "ok"]
    BY <1>0, <1>8 DEF Record, Return, answerOf, LedgerInv, LedgerTypeOK
  <2>5. k \notin consumedOf
    BY <2>1 DEF consumedOf
  <2>6. Guard!Accept(c, k)
    BY <2>2, <2>3, <2>4, <2>5 DEF Guard!Accept, askedOf, answerOf, consumedOf
  <2>7. QED
    BY <1>0, <2>6 DEF Guard!Next
<1>9. QED
  BY <1>3, <1>4, <1>5, <1>6, <1>7, <1>8 DEF Step

\* Entering Consume, with a key or a blank one, and the restart of a process.
LEMMA OtherSteps ==
    ASSUME LedgerInv,
           \/ \E c \in Caller, k \in Key : Call(c, k)
           \/ \E c \in Caller : CallBlank(c)
           \/ \E p \in Process : Restart(p)
    PROVE  Guard!Next \/ UNCHANGED <<consumedOf, askedOf, answerOf>>
<1>0. DurableCaller \subseteq Caller /\ DurableCaller' = DurableCaller
  BY DEF DurableCaller, Durable
<1>1. ASSUME NEW c \in Caller, NEW k \in Key, Call(c, k)
      PROVE  Guard!Next \/ UNCHANGED <<consumedOf, askedOf, answerOf>>
  <2>1. CASE Durable(c)
    <3>1. c \in DurableCaller
      BY <2>1 DEF DurableCaller
    <3>2. askedOf[c] = {} /\ askedOf' = [askedOf EXCEPT ![c] = {k}]
      BY <1>0, <1>1, <3>1 DEF Call, askedOf, LedgerInv, LedgerTypeOK
    <3>3. answerOf' = [answerOf EXCEPT ![c] = "none"] /\ consumedOf' = consumedOf
      BY <1>0, <1>1, <3>1 DEF Call, answerOf, consumedOf, LedgerInv, LedgerTypeOK
    <3>4. Guard!Ask(c, k)
      BY <3>2, <3>3 DEF Guard!Ask, askedOf, answerOf, consumedOf
    <3>5. QED
      BY <3>1, <3>4 DEF Guard!Next
  <2>2. CASE ~Durable(c)
    BY <1>1, <2>2, LocalStutters DEF Call, LedgerInv, LedgerTypeOK
  <2>3. QED
    BY <2>1, <2>2
<1>2. ASSUME NEW c \in Caller, CallBlank(c)
      PROVE  Guard!Next \/ UNCHANGED <<consumedOf, askedOf, answerOf>>
  <2>1. CASE Durable(c)
    <3>1. c \in DurableCaller
      BY <2>1 DEF DurableCaller
    <3>2. askedOf' = [askedOf EXCEPT ![c] = {}]
      BY <1>0, <1>2, <3>1 DEF CallBlank, askedOf, LedgerInv, LedgerTypeOK
    <3>3. answerOf' = [answerOf EXCEPT ![c] = "error"] /\ consumedOf' = consumedOf
      BY <1>0, <1>2, <3>1 DEF CallBlank, answerOf, consumedOf, LedgerInv, LedgerTypeOK
    <3>4. Guard!Refuse(c, "error")
      BY <3>2, <3>3 DEF Guard!Refuse, askedOf, answerOf, consumedOf
    <3>5. QED
      BY <3>1, <3>4 DEF Guard!Next
  <2>2. CASE ~Durable(c)
    BY <1>2, <2>2, LocalStutters DEF CallBlank, LedgerInv, LedgerTypeOK
  <2>3. QED
    BY <2>1, <2>2
<1>3. ASSUME NEW p \in Process, Restart(p)
      PROVE  Guard!Next \/ UNCHANGED <<consumedOf, askedOf, answerOf>>
  <2> DEFINE gone == {c \in DurableCaller : Runs[c] = p}
  <2>1. askedOf' = [c \in DurableCaller |-> IF c \in gone THEN {} ELSE askedOf[c]]
    BY <1>0, <1>3 DEF Restart, askedOf
  <2>2. answerOf' = [c \in DurableCaller |-> IF c \in gone THEN "none" ELSE answerOf[c]]
    BY <1>0, <1>3 DEF Restart, answerOf
  <2>3. Guard!Vanish(gone)
    BY <1>3, <2>1, <2>2 DEF Guard!Vanish, Restart, askedOf, answerOf, consumedOf
  <2>4. QED
    BY <2>3 DEF Guard!Next
<1>4. QED
  BY <1>1, <1>2, <1>3

\* The concurrent, crash-prone Consume of durable ledgers (authorization.go:416)
\* behaves like one shared atomic at-most-once register of keys.
THEOREM LedgerImplementsGuard == LedgerSpec => ImplementsReplayGuard
<1>1. LedgerInit => Guard!Init
  <2> SUFFICES ASSUME LedgerInit PROVE Guard!Init
    OBVIOUS
  <2>1. DurableCaller \subseteq Caller
    BY DEF DurableCaller
  <2>2. consumedOf = {} /\ askedOf = [c \in DurableCaller |-> {}]
        /\ answerOf = [c \in DurableCaller |-> "none"]
    BY <2>1 DEF LedgerInit, consumedOf, askedOf, answerOf
  <2>3. QED
    BY <2>2 DEF Guard!Init, consumedOf, askedOf, answerOf
<1>2. LedgerInv /\ [LedgerNext]_ledgerVars => [Guard!Next]_(Guard!guardVars)
  <2> SUFFICES ASSUME LedgerInv, [LedgerNext]_ledgerVars
               PROVE  Guard!Next \/ UNCHANGED <<consumedOf, askedOf, answerOf>>
    BY DEF Guard!guardVars, consumedOf, askedOf, answerOf
  <2>1. ASSUME NEW c \in Caller, Lock(c) \/ Step(c)
        PROVE  Guard!Next \/ UNCHANGED <<consumedOf, askedOf, answerOf>>
    <3>1. CASE Durable(c)
      BY <2>1, <3>1, DurableStep
    <3>2. CASE ~Durable(c)
      BY <2>1, <3>2, LocalStutters DEF Lock, Step, CheckSeen, OpenExclusive, WriteEntry,
         RemoveEntry, Record, Goto, Return, LedgerInv, LedgerTypeOK
    <3>3. QED
      BY <3>1, <3>2
  <2>2. CASE UNCHANGED ledgerVars
    BY <2>2, GuardStutters DEF ledgerVars
  <2>3. QED
    BY <2>1, <2>2, OtherSteps DEF LedgerNext
<1>3. QED
  BY <1>1, <1>2, LedgerInvariant, PTL DEF LedgerSpec, ImplementsReplayGuard, Guard!Spec

-----------------------------------------------------------------------------
\* The gateways on top of their ledgers.

\* Init: nobody is in a call and nothing has run.
LEMMA GatewayInitInv == Init => GatewayInv
<1> SUFFICES ASSUME Init PROVE GatewayInv
  OBVIOUS
<1>1. LedgerInv
  BY InitInv DEF Init
<1>2. TypeOK
  BY <1>1, GatewayAssumption DEF Init, TypeOK, LedgerInv, Oracle!Init, GatewayPlace, Outcome,
     Effect, Fact
<1>3. GrantInv
  BY DEF Init, LedgerInit, GrantInv, Entitled, Counted
<1>4. CallInv /\ DenialSpendsNothing /\ ReceiptsAreTruthful
  BY DEF Init, LedgerInit, CallInv, PastRevocation, PastOracle, PastBinding,
         DenialSpendsNothing, ReceiptsAreTruthful
<1>5. QED
  BY <1>1, <1>2, <1>3, <1>4 DEF GatewayInv

\* Observe adds what holds now to what has held.
LEMMA ObserveFacts ==
    ASSUME TypeOK, Observe
    PROVE  held' \in [Caller -> SUBSET Fact]
<1>1. \A c \in Caller : Holds(auth[c])' \in SUBSET Fact
  BY DEF Holds, Fact
<1>2. QED
  BY <1>1 DEF Observe, TypeOK

\* What a step of Consume means to the gateway.
LEMMA LedgerStepFacts ==
    ASSUME LedgerInv, NEW c \in Caller, Lock(c) \/ Step(c)
    PROVE  /\ at[c] # "idle" /\ key' = key
           /\ \A d \in Caller : d # c => at'[d] = at[d]
           /\ \/ at'[c] # "idle" /\ total' = total
              \/ at'[c] = "idle" /\ result'[c] \in {"replay", "error"} /\ total' = total
              \/ /\ at'[c] = "idle" /\ result'[c] = "ok" /\ Durable(c)
                 /\ total[key[c]] = 0 /\ total' = [total EXCEPT ![key[c]] = @ + 1]
              \/ /\ at'[c] = "idle" /\ result'[c] = "ok" /\ ~Durable(c) /\ total' = total
<1>1. at \in [Caller -> Place] /\ result \in [Caller -> Result]
  BY DEF LedgerInv, LedgerTypeOK
<1>2. CASE Lock(c)
  BY <1>1, <1>2 DEF Lock
<1>3. CASE CheckSeen(c)
  BY <1>1, <1>3 DEF CheckSeen, Goto, Return
<1>4. CASE OpenExclusive(c)
  BY <1>1, <1>4 DEF OpenExclusive, Goto, Return
<1>5. CASE WriteEntry(c)
  BY <1>1, <1>5 DEF WriteEntry, Goto
<1>6. CASE RemoveEntry(c)
  BY <1>1, <1>6 DEF RemoveEntry, Return
<1>7. CASE Record(c)
  BY <1>1, <1>7 DEF Record, Return, LedgerInv, EntryInv, Holding
<1>8. QED
  BY <1>2, <1>3, <1>4, <1>5, <1>6, <1>7 DEF Step

\* StandingChanges: only what has held is extended.
LEMMA StandingInv ==
    ASSUME GatewayInv, StandingChanges
    PROVE  GatewayInv'
<1>1. LedgerInv'
  BY NextInv DEF GatewayInv, StandingChanges, Observe, Oracle!Next, Oracle!Register, Oracle!Withdraw, ledgerVars
<1>2. TypeOK'
  <2>1. LedgerTypeOK'
    BY <1>1 DEF LedgerInv
  <2>2. held' \in [Caller -> SUBSET Fact]
    BY ObserveFacts DEF StandingChanges, GatewayInv
  <2>3. standing' \in [Subject -> {"none", "good", "withdrawn"}]
    BY DEF GatewayInv, TypeOK, StandingChanges, Oracle!Next, Oracle!Register, Oracle!Withdraw
  <2>4. QED
    BY <2>1, <2>2, <2>3 DEF GatewayInv, TypeOK, StandingChanges
<1>3. GrantInv'
  BY GatewayAssumption DEF GatewayInv, TypeOK, GrantInv, Entitled, Counted, Durable,
     GatewayPlace, ledgerVars, StandingChanges, Observe, Oracle!Next, Oracle!Register, Oracle!Withdraw
<1>4. CallInv'
  BY GatewayAssumption, LedgerAssumption DEF GatewayInv, TypeOK, CallInv, PastRevocation, PastOracle, PastBinding, Holds,
     GatewayPlace, oracleVars, StandingChanges, Observe, Oracle!Next, Oracle!Register, Oracle!Withdraw
<1>5. DenialSpendsNothing' /\ ReceiptsAreTruthful'
  BY DEF GatewayInv, TypeOK, CallInv, DenialSpendsNothing, ReceiptsAreTruthful, GatewayPlace,
     ledgerVars,
     StandingChanges, Observe, Oracle!Next, Oracle!Register, Oracle!Withdraw
<1>6. QED
  BY <1>1, <1>2, <1>3, <1>4, <1>5 DEF GatewayInv

\* BindingChanges: likewise.
LEMMA BindingInv ==
    ASSUME GatewayInv, BindingChanges
    PROVE  GatewayInv'
<1>1. LedgerInv'
  BY NextInv DEF GatewayInv, BindingChanges, Observe, ledgerVars
<1>2. TypeOK'
  <2>1. LedgerTypeOK'
    BY <1>1 DEF LedgerInv
  <2>2. held' \in [Caller -> SUBSET Fact]
    BY ObserveFacts DEF BindingChanges, GatewayInv
  <2>3. QED
    BY <2>1, <2>2 DEF GatewayInv, TypeOK, BindingChanges
<1>3. GrantInv'
  BY GatewayAssumption DEF GatewayInv, TypeOK, GrantInv, Entitled, Counted, Durable,
     GatewayPlace, ledgerVars, BindingChanges, Observe
<1>4. CallInv'
  BY GatewayAssumption, LedgerAssumption DEF GatewayInv, TypeOK, CallInv, PastRevocation, PastOracle, PastBinding, Holds,
     GatewayPlace, oracleVars, BindingChanges, Observe
<1>5. DenialSpendsNothing' /\ ReceiptsAreTruthful'
  BY DEF GatewayInv, TypeOK, CallInv, DenialSpendsNothing, ReceiptsAreTruthful, GatewayPlace,
     ledgerVars,
     BindingChanges, Observe
<1>6. QED
  BY <1>1, <1>2, <1>3, <1>4, <1>5 DEF GatewayInv

\* Revoke: a gateway's revocations only grow while it runs.
LEMMA RevokeInv ==
    ASSUME GatewayInv, NEW p \in Process, NEW x \in Revocable, Revoke(p, x)
    PROVE  GatewayInv'
<1>1. LedgerInv'
  BY NextInv DEF GatewayInv, Revoke, callVars, ledgerVars
<1>2. TypeOK'
  <2>1. LedgerTypeOK'
    BY <1>1 DEF LedgerInv
  <2>2. QED
    BY <2>1, GatewayAssumption, LedgerAssumption DEF GatewayInv, TypeOK, GatewayPlace,
       Outcome, Effect, Fact, oracleVars, Revoke, callVars
<1>3. GrantInv'
  BY GatewayAssumption DEF GatewayInv, TypeOK, GrantInv, Entitled, Counted, Durable,
     GatewayPlace, ledgerVars, Revoke, callVars
<1>4. CallInv'
  BY GatewayAssumption, LedgerAssumption DEF GatewayInv, TypeOK, CallInv, PastRevocation, PastOracle, PastBinding, Holds,
     GatewayPlace, oracleVars, Revoke, callVars
<1>5. DenialSpendsNothing' /\ ReceiptsAreTruthful'
  BY DEF GatewayInv, TypeOK, CallInv, DenialSpendsNothing, ReceiptsAreTruthful, GatewayPlace,
     ledgerVars,
     Revoke, callVars
<1>6. QED
  BY <1>1, <1>2, <1>3, <1>4, <1>5 DEF GatewayInv

\* Submit: a new call starts with nothing settled.
LEMMA SubmitInv ==
    ASSUME GatewayInv, NEW c \in Caller, NEW a \in Auth, NEW passes \in BOOLEAN, Submit(c, a, passes)
    PROVE  GatewayInv'
<1>1. LedgerInv'
  BY NextInv DEF GatewayInv, Submit, Issue, ledgerVars
<1>2. TypeOK'
  <2>1. LedgerTypeOK'
    BY <1>1 DEF LedgerInv
  <2>2. /\ gw' \in [Caller -> GatewayPlace] /\ receipt' \in [Caller -> Outcome]
        /\ before' \in [Caller -> SUBSET Revocable] /\ held' \in [Caller -> SUBSET Fact]
    <3>1. revoked[Runs[c]] \in SUBSET Revocable /\ Holds(a) \in SUBSET Fact
      BY LedgerAssumption DEF GatewayInv, TypeOK, Holds, Fact
    <3>2. CASE passes
      BY <3>1, <3>2 DEF GatewayInv, TypeOK, Submit, GatewayPlace, Outcome
    <3>3. CASE ~passes
      BY <3>3 DEF GatewayInv, TypeOK, Submit, Issue, GatewayPlace, Outcome
    <3>4. QED
      BY <3>2, <3>3
  <2>3. QED
    BY <2>1, <2>2 DEF GatewayInv, TypeOK, Submit, oracleVars, Effect
<1>3. GrantInv'
  BY GatewayAssumption DEF GatewayInv, TypeOK, GrantInv, Entitled, Counted, Durable,
     GatewayPlace, ledgerVars, Submit, Issue
<1>4. CallInv'
  BY GatewayAssumption, LedgerAssumption DEF GatewayInv, TypeOK, CallInv, PastRevocation, PastOracle, PastBinding, Holds,
     GatewayPlace, oracleVars, Submit, Issue
<1>5. DenialSpendsNothing' /\ ReceiptsAreTruthful'
  BY DEF GatewayInv, TypeOK, CallInv, DenialSpendsNothing, ReceiptsAreTruthful, GatewayPlace,
     ledgerVars,
     Submit, Issue
<1>6. QED
  BY <1>1, <1>2, <1>3, <1>4, <1>5 DEF GatewayInv

\* CheckRevocation: what was revoked before the call is in the maps still.
LEMMA CheckRevocationInv ==
    ASSUME GatewayInv, NEW c \in Caller, CheckRevocation(c)
    PROVE  GatewayInv'
<1>1. LedgerInv'
  BY NextInv DEF GatewayInv, CheckRevocation, Enter, Issue, ledgerVars
<1>2. TypeOK'
  <2>1. LedgerTypeOK'
    BY <1>1 DEF LedgerInv
  <2>2. QED
    BY <2>1, GatewayAssumption, LedgerAssumption DEF GatewayInv, TypeOK, GatewayPlace,
       Outcome, Effect, Fact, oracleVars, CheckRevocation, Enter, Issue
<1>3. GrantInv'
  BY GatewayAssumption DEF GatewayInv, TypeOK, GrantInv, Entitled, Counted, Durable,
     GatewayPlace, ledgerVars, CheckRevocation, Enter, Issue
<1>4. CallInv'
  BY GatewayAssumption, LedgerAssumption DEF GatewayInv, TypeOK, CallInv, PastRevocation, PastOracle, PastBinding, Holds,
     GatewayPlace, oracleVars, CheckRevocation, Enter, Issue
<1>5. DenialSpendsNothing' /\ ReceiptsAreTruthful'
  BY DEF GatewayInv, TypeOK, CallInv, DenialSpendsNothing, ReceiptsAreTruthful, GatewayPlace,
     ledgerVars,
     CheckRevocation, Enter, Issue
<1>6. QED
  BY <1>1, <1>2, <1>3, <1>4, <1>5 DEF GatewayInv

\* AskOracle: a positive answer is an observation of good standing.
LEMMA AskOracleInv ==
    ASSUME GatewayInv, NEW c \in Caller, AskOracle(c)
    PROVE  GatewayInv'
<1>1. LedgerInv'
  BY NextInv DEF GatewayInv, AskOracle, Enter, Issue, ledgerVars
<1>2. TypeOK'
  <2>1. LedgerTypeOK'
    BY <1>1 DEF LedgerInv
  <2>2. QED
    BY <2>1, GatewayAssumption, LedgerAssumption DEF GatewayInv, TypeOK, GatewayPlace,
       Outcome, Effect, Fact, oracleVars, AskOracle, Enter, Issue
<1>3. GrantInv'
  BY GatewayAssumption DEF GatewayInv, TypeOK, GrantInv, Entitled, Counted, Durable,
     GatewayPlace, ledgerVars, AskOracle, Enter, Issue
<1>4. CallInv'
  BY GatewayAssumption, LedgerAssumption DEF GatewayInv, TypeOK, CallInv, PastRevocation, PastOracle, PastBinding, Holds,
     GatewayPlace, oracleVars, AskOracle, Enter, Issue
<1>5. DenialSpendsNothing' /\ ReceiptsAreTruthful'
  BY DEF GatewayInv, TypeOK, CallInv, DenialSpendsNothing, ReceiptsAreTruthful, GatewayPlace,
     ledgerVars,
     AskOracle, Enter, Issue
<1>6. QED
  BY <1>1, <1>2, <1>3, <1>4, <1>5 DEF GatewayInv

\* CheckBinding: likewise for the binding; an authorization that is not single-use counts for nothing.
LEMMA CheckBindingInv ==
    ASSUME GatewayInv, NEW c \in Caller, CheckBinding(c)
    PROVE  GatewayInv'
<1>1. LedgerInv'
  BY NextInv DEF GatewayInv, CheckBinding, Enter, Issue, ledgerVars
<1>2. TypeOK'
  <2>1. LedgerTypeOK'
    BY <1>1 DEF LedgerInv
  <2>2. QED
    BY <2>1, GatewayAssumption, LedgerAssumption DEF GatewayInv, TypeOK, GatewayPlace,
       Outcome, Effect, Fact, oracleVars, CheckBinding, Enter, Issue
<1>3. GrantInv'
  BY GatewayAssumption DEF GatewayInv, TypeOK, GrantInv, Entitled, Counted, Durable,
     GatewayPlace, ledgerVars, CheckBinding, Enter, Issue
<1>4. CallInv'
  BY GatewayAssumption, LedgerAssumption DEF GatewayInv, TypeOK, CallInv, PastRevocation, PastOracle, PastBinding, Holds,
     GatewayPlace, oracleVars, CheckBinding, Enter, Issue
<1>5. DenialSpendsNothing' /\ ReceiptsAreTruthful'
  BY DEF GatewayInv, TypeOK, CallInv, DenialSpendsNothing, ReceiptsAreTruthful, GatewayPlace,
     ledgerVars,
     CheckBinding, Enter, Issue
<1>6. QED
  BY <1>1, <1>2, <1>3, <1>4, <1>5 DEF GatewayInv

\* AuthorizeOnly: the entitlement lapses.
LEMMA AuthorizeOnlyInv ==
    ASSUME GatewayInv, NEW c \in Caller, AuthorizeOnly(c)
    PROVE  GatewayInv'
<1>1. LedgerInv'
  BY NextInv DEF GatewayInv, AuthorizeOnly, Enter, Issue, ledgerVars
<1>2. TypeOK'
  <2>1. LedgerTypeOK'
    BY <1>1 DEF LedgerInv
  <2>2. QED
    BY <2>1, GatewayAssumption, LedgerAssumption DEF GatewayInv, TypeOK, GatewayPlace,
       Outcome, Effect, Fact, oracleVars, AuthorizeOnly, Enter, Issue
<1>3. GrantInv'
  BY GatewayAssumption DEF GatewayInv, TypeOK, GrantInv, Entitled, Counted, Durable,
     GatewayPlace, ledgerVars, AuthorizeOnly, Enter, Issue
<1>4. CallInv'
  BY GatewayAssumption, LedgerAssumption DEF GatewayInv, TypeOK, CallInv, PastRevocation, PastOracle, PastBinding, Holds,
     GatewayPlace, oracleVars, AuthorizeOnly, Enter, Issue
<1>5. DenialSpendsNothing' /\ ReceiptsAreTruthful'
  BY DEF GatewayInv, TypeOK, CallInv, DenialSpendsNothing, ReceiptsAreTruthful, GatewayPlace,
     ledgerVars,
     AuthorizeOnly, Enter, Issue
<1>6. QED
  BY <1>1, <1>2, <1>3, <1>4, <1>5 DEF GatewayInv

\* StartOperation: the one run the key entitles to.
LEMMA StartOperationInv ==
    ASSUME GatewayInv, NEW c \in Caller, StartOperation(c)
    PROVE  GatewayInv'
<1>1. LedgerInv'
  BY NextInv DEF GatewayInv, StartOperation, Enter, Issue, ledgerVars
<1>2. TypeOK'
  <2>1. LedgerTypeOK'
    BY <1>1 DEF LedgerInv
  <2>2. QED
    BY <2>1, GatewayAssumption, LedgerAssumption DEF GatewayInv, TypeOK, GatewayPlace,
       Outcome, Effect, Fact, oracleVars, StartOperation, Enter, Issue
<1>3. GrantInv'
  BY GatewayAssumption DEF GatewayInv, TypeOK, GrantInv, Entitled, Counted, Durable,
     GatewayPlace, ledgerVars, StartOperation, Enter, Issue
<1>4. CallInv'
  BY GatewayAssumption, LedgerAssumption DEF GatewayInv, TypeOK, CallInv, PastRevocation, PastOracle, PastBinding, Holds,
     GatewayPlace, oracleVars, StartOperation, Enter, Issue
<1>5. DenialSpendsNothing' /\ ReceiptsAreTruthful'
  BY DEF GatewayInv, TypeOK, CallInv, DenialSpendsNothing, ReceiptsAreTruthful, GatewayPlace,
     ledgerVars,
     StartOperation, Enter, Issue
<1>6. QED
  BY <1>1, <1>2, <1>3, <1>4, <1>5 DEF GatewayInv

\* EndOperation: the one proof of the one run.
LEMMA EndOperationInv ==
    ASSUME GatewayInv, NEW c \in Caller, NEW timedOut \in BOOLEAN, NEW failed \in BOOLEAN,
           NEW accepted \in BOOLEAN, NEW enforced \in BOOLEAN,
           EndOperation(c, timedOut, failed, accepted, enforced)
    PROVE  GatewayInv'
<1>1. LedgerInv'
  BY NextInv DEF GatewayInv, EndOperation, OutcomeOf, Enter, Issue, ledgerVars
<1>2. TypeOK'
  <2>1. LedgerTypeOK'
    BY <1>1 DEF LedgerInv
  <2>2. QED
    BY <2>1, GatewayAssumption, LedgerAssumption DEF GatewayInv, TypeOK, GatewayPlace,
       Outcome, Effect, Fact, oracleVars, EndOperation, OutcomeOf, Enter, Issue
<1>3. GrantInv'
  BY GatewayAssumption DEF GatewayInv, TypeOK, GrantInv, Entitled, Counted, Durable,
     GatewayPlace, ledgerVars, EndOperation, OutcomeOf, Enter, Issue
<1>4. CallInv'
  BY GatewayAssumption, LedgerAssumption DEF GatewayInv, TypeOK, CallInv, PastRevocation, PastOracle, PastBinding, Holds,
     GatewayPlace, oracleVars, EndOperation, OutcomeOf, Enter, Issue
<1>5. DenialSpendsNothing' /\ ReceiptsAreTruthful'
  BY DEF GatewayInv, TypeOK, CallInv, DenialSpendsNothing, ReceiptsAreTruthful, GatewayPlace,
     ledgerVars,
     EndOperation, OutcomeOf, Enter, Issue
<1>6. QED
  BY <1>1, <1>2, <1>3, <1>4, <1>5 DEF GatewayInv

\* CallConsume: the ledger is handed the key of the authorization.
LEMMA CallConsumeInv ==
    ASSUME GatewayInv, NEW c \in Caller, CallConsume(c)
    PROVE  GatewayInv'
<1>1. LedgerInv'
  <2>1. KeyOf[auth[c]] \in Key
    BY GatewayAssumption DEF GatewayInv, TypeOK
  <2>2. LedgerNext
    BY <2>1 DEF CallConsume, LedgerNext
  <2>3. QED
    BY <2>2, NextInv DEF GatewayInv
<1>2. TypeOK'
  <2>1. LedgerTypeOK'
    BY <1>1 DEF LedgerInv
  <2>2. QED
    BY <2>1, GatewayAssumption, LedgerAssumption DEF GatewayInv, TypeOK, GatewayPlace,
       Outcome, Effect, Fact, oracleVars, CallConsume, Call, callVars
<1>3. GrantInv'
  <2>1. /\ at' = [at EXCEPT ![c] = "lock"] /\ key' = [key EXCEPT ![c] = KeyOf[auth[c]]]
        /\ at \in [Caller -> Place] /\ key \in [Caller -> Key]
        /\ gw' = gw /\ auth' = auth /\ runs' = runs /\ proofs' = proofs /\ total' = total
        /\ gw[c] = "consume"
    BY DEF GatewayInv, LedgerInv, LedgerTypeOK, CallConsume, Call, callVars
  <2>2. auth[c] \in SingleUse
    BY <2>1 DEF GatewayInv, CallInv
  <2>3. \A d \in Caller : at'[d] # "idle" =>
          gw'[d] = "consume" /\ key'[d] = KeyOf[auth'[d]] /\ auth'[d] \in SingleUse
    BY <2>1, <2>2 DEF GatewayInv, GrantInv
  <2>4. QED
    BY <2>1, <2>3 DEF GatewayInv, GrantInv, Entitled, Counted, Durable
<1>4. CallInv'
  BY GatewayAssumption, LedgerAssumption DEF GatewayInv, TypeOK, CallInv, PastRevocation, PastOracle, PastBinding, Holds,
     GatewayPlace, oracleVars, CallConsume, Call, callVars
<1>5. DenialSpendsNothing' /\ ReceiptsAreTruthful'
  BY DEF GatewayInv, TypeOK, LedgerTypeOK, CallInv, DenialSpendsNothing, ReceiptsAreTruthful,
     GatewayPlace, Holding, CallConsume, Call, callVars
<1>6. QED
  BY <1>1, <1>2, <1>3, <1>4, <1>5 DEF GatewayInv

\* LedgerStep: a key is taken by a call at work on it, which frees it again, is granted
\* it, or leaves it behind because the entry cannot be removed.
LEMMA StepSpends ==
    ASSUME LedgerInv, DenialSpendsNothing, warranted \subseteq Key,
           gw \in [Caller -> GatewayPlace], NEW c \in Caller, LedgerStep(c)
    PROVE  DenialSpendsNothing'
<1>1. /\ at \in [Caller -> Place] /\ seen \in [Process -> SUBSET Key]
      /\ result \in [Caller -> Result] /\ entries \subseteq Key
      /\ Runs[c] \in Process
      /\ at[c] \in {"open", "write", "unlink"} => Durable(c)
  BY LedgerAssumption DEF LedgerInv, LedgerTypeOK, EntryInv
<1>2. warranted \subseteq warranted' /\ (EntryStays(c) => key[c] \in warranted')
  BY DEF LedgerStep
<1>3. CASE Lock(c)
  BY <1>1, <1>2, <1>3 DEF Lock, DenialSpendsNothing, DurableCaller, Holding
<1>4. CASE CheckSeen(c)
  BY <1>1, <1>2, <1>4 DEF CheckSeen, Goto, Return, DenialSpendsNothing, DurableCaller, Holding
<1>5. CASE OpenExclusive(c)
  <2>1. ASSUME NEW k \in entries', k # key[c]
        PROVE  k \in warranted' \/ \E d \in DurableCaller : at'[d] \in Holding /\ key'[d] = k
    BY <1>1, <1>2, <1>5, <2>1
       DEF OpenExclusive, Goto, Return, DenialSpendsNothing, DurableCaller, Holding
  <2>2. ASSUME key[c] \in entries'
        PROVE  key[c] \in warranted'
                  \/ \E d \in DurableCaller : at'[d] \in Holding /\ key'[d] = key[c]
    <3>1. CASE key[c] \in entries
      BY <1>1, <1>2, <1>5, <3>1
         DEF OpenExclusive, Goto, Return, DenialSpendsNothing, DurableCaller, Holding
    <3>2. CASE key[c] \notin entries
      BY <1>1, <1>5, <2>2, <3>2 DEF OpenExclusive, Goto, Return, DurableCaller, Holding
    <3>3. QED
      BY <3>1, <3>2
  <2>3. QED
    BY <1>2, <1>5, <2>1, <2>2 DEF OpenExclusive, DenialSpendsNothing
<1>6. CASE WriteEntry(c)
  BY <1>1, <1>2, <1>6 DEF WriteEntry, Goto, DenialSpendsNothing, DurableCaller, Holding
<1>7. CASE RemoveEntry(c)
  BY <1>1, <1>2, <1>7
     DEF RemoveEntry, Return, EntryStays, DenialSpendsNothing, DurableCaller, Holding
<1>8. CASE Record(c)
  <2>1. at'[c] = "idle" /\ result'[c] = "ok"
    BY <1>1, <1>8 DEF Record, Return
  <2>2. gw'[c] = "authorized"
    BY <2>1 DEF LedgerStep, Verdict, Enter
  <2>3. key[c] \in warranted'
    BY <2>2 DEF LedgerStep
  <2>4. QED
    BY <1>1, <1>2, <1>8, <2>3
       DEF Record, Return, DenialSpendsNothing, DurableCaller, Holding
<1>9. QED
  BY <1>3, <1>4, <1>5, <1>6, <1>7, <1>8 DEF LedgerStep, Step

\* LedgerStep: an accepted key had not been accepted before, so nobody else is entitled by it.
LEMMA LedgerStepInv ==
    ASSUME GatewayInv, NEW c \in Caller, LedgerStep(c)
    PROVE  GatewayInv'
<1>1. LedgerInv'
  <2>1. LedgerNext
    BY DEF LedgerStep, LedgerNext
  <2>2. QED
    BY <2>1, NextInv DEF GatewayInv
<1>2. TypeOK'
  <2>1. LedgerTypeOK'
    BY <1>1 DEF LedgerInv
  <2>2. warranted' \subseteq Key
    <3>1. key[c] \in Key /\ warranted \subseteq Key
      BY DEF GatewayInv, TypeOK, LedgerTypeOK
    <3>2. QED
      BY <3>1 DEF LedgerStep
  <2>3. UNCHANGED <<oracleVars, revoked, auth, ran, runs, proofs>>
        /\ (Verdict(c) \/ UNCHANGED <<gw, receipt, before, held>>)
    BY DEF LedgerStep
  <2>4. QED
    BY <2>1, <2>2, <2>3 DEF GatewayInv, TypeOK, GatewayPlace,
       Outcome, Effect, Fact, oracleVars, Verdict, Enter, Issue
<1>3. /\ at[c] # "idle" /\ key' = key
      /\ \A d \in Caller : d # c => at'[d] = at[d]
      /\ at' \in [Caller -> Place] /\ total \in [Key -> Nat] /\ key[c] \in Key
  BY <1>1, LedgerStepFacts DEF GatewayInv, LedgerStep, LedgerInv, LedgerTypeOK
<1>4. /\ gw[c] = "consume" /\ key[c] = KeyOf[auth[c]] /\ auth[c] \in SingleUse
      /\ receipt[c] = "none" /\ ran[c] = "no"
  BY <1>3 DEF GatewayInv, GrantInv, CallInv
<1>5. /\ auth' = auth /\ runs' = runs /\ proofs' = proofs /\ ran' = ran
      /\ revoked' = revoked /\ standing' = standing /\ intact' = intact
      /\ gw \in [Caller -> GatewayPlace] /\ receipt \in [Caller -> Outcome]
      /\ before \in [Caller -> SUBSET Revocable]
      /\ held \in [Caller -> SUBSET Fact]
  BY DEF LedgerStep, oracleVars, GatewayInv, TypeOK
<1>6. DenialSpendsNothing'
  <2>1. LedgerInv /\ DenialSpendsNothing /\ warranted \subseteq Key
        /\ gw \in [Caller -> GatewayPlace]
    BY DEF GatewayInv, TypeOK
  <2>2. QED
    BY <2>1, StepSpends
<1>7. CASE /\ at'[c] # "idle" /\ total' = total
           /\ UNCHANGED <<gw, receipt, before, held>>
  <2>1. GrantInv'
    BY <1>3, <1>4, <1>5, <1>7 DEF GatewayInv, GrantInv, Entitled, Counted, Durable
  <2>2. CallInv'
    BY <1>5, <1>7 DEF GatewayInv, CallInv, Holds
  <2>3. ReceiptsAreTruthful'
    BY <1>5, <1>7 DEF GatewayInv, ReceiptsAreTruthful
  <2>4. QED
    BY <1>1, <1>2, <1>6, <2>1, <2>2, <2>3 DEF GatewayInv
<1>8. CASE /\ at'[c] = "idle" /\ result'[c] \in {"replay", "error"} /\ total' = total
           /\ Issue(c, "DENIED")
  <2>1. GrantInv'
    BY <1>3, <1>4, <1>5, <1>8 DEF GatewayInv, GrantInv, Entitled, Counted, Durable, Issue
  <2>2. CallInv'
    BY <1>5, <1>8 DEF GatewayInv, CallInv, Holds, Issue, PastRevocation, PastOracle, PastBinding
  <2>3. ReceiptsAreTruthful'
    BY <1>4, <1>5, <1>8 DEF GatewayInv, ReceiptsAreTruthful, Issue
  <2>4. QED
    BY <1>1, <1>2, <1>6, <2>1, <2>2, <2>3 DEF GatewayInv
<1>9. CASE /\ at'[c] = "idle" /\ result'[c] = "ok"
           /\ Enter(c, "authorized")
           /\ IF Durable(c)
              THEN total[key[c]] = 0 /\ total' = [total EXCEPT ![key[c]] = @ + 1]
              ELSE total' = total
  <2>1. GrantInv'
    <3>1. CASE Durable(c)
      <4>1. /\ total'[key[c]] = 1
            /\ \A k \in Key : k # key[c] => total'[k] = total[k]
            /\ runs[key[c]] = 0 /\ proofs[key[c]] = 0
        BY <1>3, <1>9, <3>1 DEF GatewayInv, TypeOK, GrantInv
      <4>2. \A d \in Caller : Entitled(d) => KeyOf[auth[d]] # key[c]
        BY <1>3, <1>9, <3>1 DEF GatewayInv, GrantInv
      <4>3. \A d \in Caller : d # c => (Entitled(d)' <=> Entitled(d)) /\ gw'[d] = gw[d]
        BY <1>5, <1>9 DEF Enter, Entitled, Counted, Durable
      <4>4. \A d \in Caller : KeyOf[auth[d]] \in Key
        BY GatewayAssumption DEF GatewayInv, TypeOK
      <4>5. gw'[c] = "authorized"
        BY <1>5, <1>9 DEF Enter
      <4>6. \A d \in Caller : at'[d] # "idle" =>
              gw'[d] = "consume" /\ key'[d] = KeyOf[auth'[d]] /\ auth'[d] \in SingleUse
        BY <1>3, <1>5, <1>9, <4>3 DEF GatewayInv, GrantInv
      <4>7. \A d \in Caller : Entitled(d)' =>
              /\ total'[KeyOf[auth'[d]]] = 1
              /\ runs'[KeyOf[auth'[d]]] = IF gw'[d] = "running" THEN 1 ELSE 0
              /\ proofs'[KeyOf[auth'[d]]] = 0
        BY <1>4, <1>5, <4>1, <4>2, <4>3, <4>4, <4>5 DEF GatewayInv, GrantInv
      <4>8. \A d, e \in Caller :
              Entitled(d)' /\ Entitled(e)' /\ KeyOf[auth'[d]] = KeyOf[auth'[e]] => d = e
        BY <1>4, <1>5, <4>2, <4>3 DEF GatewayInv, GrantInv
      <4>9. \A k \in Key : proofs'[k] <= runs'[k] /\ runs'[k] <= total'[k]
        BY <1>3, <1>5, <4>1 DEF GatewayInv, TypeOK, GrantInv
      <4>10. QED
        BY <4>6, <4>7, <4>8, <4>9 DEF GrantInv
    <3>2. CASE ~Durable(c)
      BY <1>3, <1>4, <1>5, <1>9, <3>2
         DEF GatewayInv, GrantInv, Entitled, Counted, Durable, Enter
    <3>3. QED
      BY <3>1, <3>2
  <2>2. CallInv'
    BY <1>4, <1>5, <1>9 DEF GatewayInv, CallInv, Holds, Enter, PastRevocation, PastOracle, PastBinding
  <2>3. ReceiptsAreTruthful'
    BY <1>4, <1>5, <1>9 DEF GatewayInv, ReceiptsAreTruthful, Enter
  <2>4. QED
    BY <1>1, <1>2, <1>6, <2>1, <2>2, <2>3 DEF GatewayInv
<1>10. QED
  BY <1>7, <1>8, <1>9, LedgerStepFacts DEF GatewayInv, LedgerStep, Verdict

\* RestartProcess: entitlements of the process lapse with its calls.
LEMMA RestartProcessInv ==
    ASSUME GatewayInv, NEW p \in Process, RestartProcess(p)
    PROVE  GatewayInv'
<1>1. LedgerInv'
  <2>1. LedgerNext
    BY DEF RestartProcess, LedgerNext
  <2>2. QED
    BY <2>1, NextInv DEF GatewayInv
<1>2. TypeOK'
  <2>1. LedgerTypeOK'
    BY <1>1 DEF LedgerInv
  <2>2. warranted' \subseteq Key
    BY DEF GatewayInv, TypeOK, LedgerTypeOK, RestartProcess, DurableCaller
  <2>3. QED
    BY <2>1, <2>2, GatewayAssumption, LedgerAssumption DEF GatewayInv, TypeOK, GatewayPlace,
       Outcome, Effect, Fact, oracleVars, RestartProcess
<1>3. GrantInv'
  BY GatewayAssumption DEF GatewayInv, TypeOK, GrantInv, Entitled, Counted, Durable,
     GatewayPlace, ledgerVars, RestartProcess, Restart
<1>4. CallInv'
  BY GatewayAssumption, LedgerAssumption DEF GatewayInv, TypeOK, CallInv, PastRevocation, PastOracle, PastBinding, Holds,
     GatewayPlace, oracleVars, RestartProcess, Restart
<1>5. DenialSpendsNothing' /\ ReceiptsAreTruthful'
  <2>1. ReceiptsAreTruthful'
    BY DEF GatewayInv, TypeOK, CallInv, ReceiptsAreTruthful, GatewayPlace, RestartProcess, Restart
  <2>2. DenialSpendsNothing'
    BY DEF GatewayInv, LedgerInv, LedgerTypeOK, DenialSpendsNothing, DurableCaller,
       RestartProcess, Restart
  <2>3. QED
    BY <2>1, <2>2
<1>6. QED
  BY <1>1, <1>2, <1>3, <1>4, <1>5 DEF GatewayInv

-----------------------------------------------------------------------------
(* The theorems. *)

\* Every step of the gateways and of the world around them keeps GatewayInv.
LEMMA GatewayNextInv == GatewayInv /\ [Next]_vars => GatewayInv'
<1> SUFFICES ASSUME GatewayInv, [Next]_vars PROVE GatewayInv'
  OBVIOUS
<1>1. CASE StandingChanges \/ BindingChanges
  BY <1>1, StandingInv, BindingInv
<1>2. ASSUME NEW p \in Process, NEW x \in Revocable, Revoke(p, x) PROVE GatewayInv'
  BY <1>2, RevokeInv
<1>3. ASSUME NEW c \in Caller, NEW a \in Auth, NEW passes \in BOOLEAN, Submit(c, a, passes)
      PROVE  GatewayInv'
  BY <1>3, SubmitInv
<1>4. ASSUME NEW c \in Caller,
             CheckRevocation(c) \/ AskOracle(c) \/ CheckBinding(c) \/ CallConsume(c)
      PROVE  GatewayInv'
  BY <1>4, CheckRevocationInv, AskOracleInv, CheckBindingInv, CallConsumeInv
<1>5. ASSUME NEW c \in Caller, LedgerStep(c) \/ AuthorizeOnly(c) \/ StartOperation(c)
      PROVE  GatewayInv'
  BY <1>5, LedgerStepInv, AuthorizeOnlyInv, StartOperationInv
<1>6. ASSUME NEW c \in Caller, NEW timedOut \in BOOLEAN, NEW failed \in BOOLEAN,
             NEW accepted \in BOOLEAN, NEW enforced \in BOOLEAN,
             EndOperation(c, timedOut, failed, accepted, enforced)
      PROVE  GatewayInv'
  BY <1>6, EndOperationInv
<1>7. ASSUME NEW p \in Process, RestartProcess(p) PROVE GatewayInv'
  BY <1>7, RestartProcessInv
<1>8. CASE UNCHANGED vars
  <2>1. LedgerInv'
    BY <1>8, NextInv DEF vars, GatewayInv
  <2>2. TypeOK'
    BY <1>8, <2>1 DEF vars, ledgerVars, oracleVars, callVars, GatewayInv, LedgerInv, TypeOK
  <2>3. GrantInv' /\ CallInv'
    BY <1>8 DEF vars, ledgerVars, oracleVars, callVars, GatewayInv, GrantInv, CallInv,
       Entitled, Counted, Durable, Holds
  <2>4. DenialSpendsNothing' /\ ReceiptsAreTruthful'
    BY <1>8 DEF vars, ledgerVars, callVars, GatewayInv, DenialSpendsNothing, ReceiptsAreTruthful
  <2>5. QED
    BY <2>1, <2>2, <2>3, <2>4 DEF GatewayInv
<1>9. QED
  BY <1>1, <1>2, <1>3, <1>4, <1>5, <1>6, <1>7, <1>8 DEF Next

\* The inductive invariant holds in every reachable state of the composition.
THEOREM GatewayInvariant == Spec => []GatewayInv
BY GatewayInitInv, GatewayNextInv, PTL DEF Spec

\* AuthorizeAndExecute (authorization.go:876): over all processes that share a
\* durable directory, a single-use authorization runs one operation at most and
\* one receipt at most proves it.
THEOREM SingleUseRunsOnce == Spec => []ExecutedAtMostOnce
<1>1. GatewayInv => ExecutedAtMostOnce
  <2> SUFFICES ASSUME GatewayInv, NEW k \in Key PROVE proofs[k] <= runs[k] /\ runs[k] <= 1
    BY DEF ExecutedAtMostOnce
  <2>1. /\ proofs[k] <= runs[k] /\ runs[k] <= total[k] /\ total[k] <= 1
        /\ runs[k] \in Nat /\ total[k] \in Nat
    BY DEF GatewayInv, TypeOK, LedgerTypeOK, GrantInv, LedgerInv, AcceptedAtMostOnce
  <2>2. QED
    BY <2>1
<1>2. QED
  BY <1>1, GatewayInvariant, PTL

\* ValidateAuthorization (authorization.go:542) consumes the nonce last: a denial uses
\* none up, unless its entry could neither be written nor removed.
THEOREM DenialKeepsNonce == Spec => []DenialSpendsNothing
<1>1. GatewayInv => DenialSpendsNothing
  BY DEF GatewayInv
<1>2. QED
  BY <1>1, GatewayInvariant, PTL

\* ValidateAuthorization: whatever changes between its checks, no operation runs on
\* what was revoked before the call, or on assurance or a binding bad throughout.
THEOREM RunsAreJustified == Spec => []EveryRunWasJustified
<1>1. GatewayInv => EveryRunWasJustified
  BY DEF GatewayInv, TypeOK, CallInv, PastRevocation, PastOracle, PastBinding, EveryRunWasJustified, Fact
<1>2. QED
  BY <1>1, GatewayInvariant, PTL

\* AuthorizeAndExecute: the outcome on the receipt is what the operation did.
THEOREM ReceiptTruth == Spec => []ReceiptsAreTruthful
<1>1. GatewayInv => ReceiptsAreTruthful
  BY DEF GatewayInv
<1>2. QED
  BY <1>1, GatewayInvariant, PTL

(***************************************************************************)
(* The gateways with durable ledgers implement the abstract gate: a call   *)
(* is granted at Record, in the ledger, if its authorization is            *)
(* single-use, and at the check of the binding otherwise; it is denied at  *)
(* whichever check fails; the restart of a process is a Vanish.            *)
(***************************************************************************)

grantedKeys == {k \in Key : total[k] > 0}
phases == [c \in DurableCaller |-> PhaseOf(c)]
auths == [c \in DurableCaller |-> auth[c]]
receipts == [c \in DurableCaller |-> receipt[c]]

Mapped == <<grantedKeys, phases, auths, receipts>>

\* A step after which each durable call is as far as before is a stutter.
LEMMA GateStutters ==
    ASSUME total' = total,
           \A d \in DurableCaller :
              gw'[d] = gw[d] /\ auth'[d] = auth[d] /\ receipt'[d] = receipt[d]
    PROVE  UNCHANGED Mapped
<1>1. DurableCaller' = DurableCaller
  BY DEF DurableCaller, Durable
<1>2. phases' = phases /\ auths' = auths /\ receipts' = receipts
  BY <1>1 DEF phases, PhaseOf, auths, receipts
<1>3. QED
  BY <1>2 DEF Mapped, grantedKeys

\* A step of one durable call, as the gate sees it.
LEMMA GateMoves ==
    ASSUME TypeOK, NEW c \in DurableCaller,
           \A d \in Caller : d # c => gw'[d] = gw[d] /\ auth'[d] = auth[d] /\ receipt'[d] = receipt[d]
    PROVE  /\ phases' = [phases EXCEPT ![c] = PhaseOf(c)']
           /\ auths' = [auths EXCEPT ![c] = auth'[c]]
           /\ receipts' = [receipts EXCEPT ![c] = receipt'[c]]
           /\ phases[c] = PhaseOf(c) /\ auths[c] = auth[c] /\ receipts[c] = receipt[c]
<1>1. DurableCaller' = DurableCaller /\ DurableCaller \subseteq Caller
  BY DEF DurableCaller, Durable
<1>2. phases' = [phases EXCEPT ![c] = PhaseOf(c)']
  BY <1>1 DEF phases, PhaseOf
<1>3. QED
  BY <1>1, <1>2 DEF phases, auths, receipts

\* A step of a call on a gateway that is not durable is a stutter.
LEMMA LocalGateStutters ==
    ASSUME NEW c \in Caller, ~Durable(c), total' = total,
           \A d \in Caller : d # c => gw'[d] = gw[d] /\ auth'[d] = auth[d] /\ receipt'[d] = receipt[d]
    PROVE  UNCHANGED Mapped
<1>1. \A d \in DurableCaller : d \in Caller /\ d # c
  BY DEF DurableCaller
<1>2. QED
  BY <1>1, GateStutters

\* A check that fails is a denial, and leaves the other calls where they are.
LEMMA GateDenies ==
    ASSUME TypeOK, NEW c \in DurableCaller, PhaseOf(c) = "asking", Issue(c, "DENIED"),
           auth' = auth, total' = total
    PROVE  Gate!Deny(c)
<1>1. c \in Caller
  BY DEF DurableCaller
<1>2. /\ gw'[c] = "idle" /\ receipt'[c] = "DENIED"
      /\ \A d \in Caller : d # c => gw'[d] = gw[d] /\ receipt'[d] = receipt[d]
  BY <1>1 DEF TypeOK, Issue
<1>3. /\ phases' = [phases EXCEPT ![c] = "idle"] /\ phases[c] = "asking"
      /\ receipts' = [receipts EXCEPT ![c] = "DENIED"]
      /\ auths' = [auths EXCEPT ![c] = auth[c]] /\ auths[c] = auth[c]
  BY <1>2, GateMoves DEF PhaseOf
<1>4. auths' = auths /\ grantedKeys' = grantedKeys
  BY <1>1 DEF auths, grantedKeys, DurableCaller, Durable
<1>5. QED
  BY <1>3, <1>4 DEF Gate!Deny, phases, auths, receipts, grantedKeys

\* A check that passes is a stutter, unless it was the last one.
LEMMA GateGoesOn ==
    ASSUME TypeOK, NEW c \in DurableCaller, PhaseOf(c) = "asking",
           NEW place \in {"oracle", "binding", "consume"}, Enter(c, place),
           auth' = auth, total' = total
    PROVE  UNCHANGED Mapped
<1>1. DurableCaller' = DurableCaller /\ DurableCaller \subseteq Caller
  BY DEF DurableCaller, Durable
<1>2. /\ gw'[c] = place /\ receipt' = receipt
      /\ \A d \in Caller : d # c => gw'[d] = gw[d]
  BY <1>1 DEF TypeOK, Enter
<1>3. phases' = phases
  BY <1>1, <1>2 DEF phases, PhaseOf
<1>4. QED
  BY <1>1, <1>2, <1>3 DEF Mapped, auths, receipts, grantedKeys

\* The last check passes for an authorization that may be used again.
LEMMA GateGrantsReusable ==
    ASSUME TypeOK, NEW c \in DurableCaller, PhaseOf(c) = "asking", auth[c] \notin SingleUse,
           Enter(c, "authorized"), auth' = auth, total' = total
    PROVE  Gate!Grant(c)
<1>1. c \in Caller /\ DurableCaller' = DurableCaller
  BY DEF DurableCaller, Durable
<1>2. /\ gw'[c] = "authorized" /\ receipt' = receipt
      /\ \A d \in Caller : d # c => gw'[d] = gw[d]
  BY <1>1 DEF TypeOK, Enter
<1>3. /\ phases' = [phases EXCEPT ![c] = "granted"] /\ phases[c] = "asking"
      /\ auths[c] = auth[c]
  BY <1>2, GateMoves DEF PhaseOf
<1>4. auths' = auths /\ receipts' = receipts /\ grantedKeys' = grantedKeys
  BY <1>1, <1>2 DEF auths, receipts, grantedKeys
<1>5. QED
  BY <1>3, <1>4 DEF Gate!Grant, phases, auths, receipts, grantedKeys

\* CheckRevocation, AskOracle and CheckBinding on a durable gateway.
LEMMA GateChecks ==
    ASSUME TypeOK, NEW c \in DurableCaller,
           CheckRevocation(c) \/ AskOracle(c) \/ CheckBinding(c)
    PROVE  Gate!Next \/ UNCHANGED Mapped
<1>1. PhaseOf(c) = "asking" /\ auth' = auth /\ total' = total
  BY DEF CheckRevocation, AskOracle, CheckBinding, PhaseOf, ledgerVars
<1>2. CASE Issue(c, "DENIED")
  BY <1>1, <1>2, GateDenies DEF Gate!Next
<1>3. CASE \E place \in {"oracle", "binding", "consume"} : Enter(c, place)
  BY <1>1, <1>3, GateGoesOn
<1>4. CASE auth[c] \notin SingleUse /\ Enter(c, "authorized")
  BY <1>1, <1>4, GateGrantsReusable DEF Gate!Next
<1>5. CASE CheckRevocation(c)
  BY <1>2, <1>3, <1>5 DEF CheckRevocation
<1>6. CASE AskOracle(c)
  BY <1>2, <1>3, <1>6 DEF AskOracle
<1>7. CASE CheckBinding(c)
  BY <1>2, <1>3, <1>4, <1>7 DEF CheckBinding
<1>8. QED
  BY <1>5, <1>6, <1>7

\* A step of Consume grants when the ledger accepts the key, which it had not yet.
LEMMA GateLedger ==
    ASSUME GatewayInv, NEW c \in DurableCaller, LedgerStep(c)
    PROVE  Gate!Next \/ UNCHANGED Mapped
<1>1. c \in Caller /\ Durable(c) /\ DurableCaller' = DurableCaller
  BY DEF DurableCaller, Durable
<1>2. at[c] # "idle" /\ auth' = auth /\ TypeOK
  BY <1>1, LedgerStepFacts DEF GatewayInv, LedgerStep
<1>3. /\ gw[c] = "consume" /\ key[c] = KeyOf[auth[c]] /\ auth[c] \in SingleUse
      /\ PhaseOf(c) = "asking"
  BY <1>1, <1>2 DEF GatewayInv, GrantInv, PhaseOf
<1>4. CASE at'[c] # "idle" /\ total' = total /\ UNCHANGED <<gw, receipt>>
  BY <1>2, <1>4, GateStutters
<1>5. CASE at'[c] = "idle" /\ total' = total /\ Issue(c, "DENIED")
  BY <1>2, <1>3, <1>5, GateDenies DEF Gate!Next
<1>6. CASE /\ at'[c] = "idle" /\ Enter(c, "authorized")
           /\ total[key[c]] = 0 /\ total' = [total EXCEPT ![key[c]] = @ + 1]
  <2>1. /\ gw'[c] = "authorized" /\ receipt' = receipt
        /\ \A d \in Caller : d # c => gw'[d] = gw[d]
    BY <1>1, <1>2, <1>6 DEF TypeOK, Enter
  <2>2. /\ phases' = [phases EXCEPT ![c] = "granted"] /\ phases[c] = "asking"
        /\ auths[c] = auth[c]
    BY <1>2, <1>3, <2>1, GateMoves DEF PhaseOf
  <2>3. auths' = auths /\ receipts' = receipts
    BY <1>1, <1>2, <2>1 DEF auths, receipts
  <2>4. PICK k \in Key : k = KeyOf[auth[c]]
    BY <1>1, <1>2, GatewayAssumption DEF TypeOK
  <2>5. total \in [Key -> Nat]
    BY <1>2 DEF TypeOK, LedgerTypeOK
  <2>6. k \notin grantedKeys /\ grantedKeys' = grantedKeys \cup {k}
    BY <1>3, <1>6, <2>4, <2>5 DEF grantedKeys
  <2>7. Gate!Grant(c)
    BY <1>3, <2>2, <2>3, <2>4, <2>6 DEF Gate!Grant, phases, auths, receipts, grantedKeys
  <2>8. QED
    BY <2>7 DEF Gate!Next
<1>7. QED
  BY <1>1, <1>4, <1>5, <1>6, LedgerStepFacts DEF GatewayInv, LedgerStep, Verdict

\* Submit, and what AuthorizeAndExecute does once the call is authorized.
LEMMA GateCalls ==
    ASSUME TypeOK, NEW c \in DurableCaller,
           \/ \E a \in Auth, passes \in BOOLEAN : Submit(c, a, passes)
           \/ AuthorizeOnly(c)
           \/ StartOperation(c)
           \/ \E timedOut, failed, accepted, enforced \in BOOLEAN :
                 EndOperation(c, timedOut, failed, accepted, enforced)
    PROVE  Gate!Next
<1>1. c \in Caller /\ DurableCaller' = DurableCaller /\ DurableCaller \subseteq Caller
  BY DEF DurableCaller, Durable
<1>2. ASSUME NEW a \in Auth, NEW passes \in BOOLEAN, Submit(c, a, passes)
      PROVE  Gate!Next
  <2>1. /\ PhaseOf(c) = "idle" /\ PhaseOf(c)' = (IF passes THEN "asking" ELSE "idle")
        /\ auth'[c] = a /\ receipt'[c] = (IF passes THEN "none" ELSE "DENIED")
        /\ \A d \in Caller : d # c => gw'[d] = gw[d] /\ auth'[d] = auth[d] /\ receipt'[d] = receipt[d]
    BY <1>1, <1>2 DEF TypeOK, Submit, Issue, PhaseOf
  <2>2. /\ phases' = [phases EXCEPT ![c] = IF passes THEN "asking" ELSE "idle"]
        /\ phases[c] = "idle" /\ auths' = [auths EXCEPT ![c] = a]
        /\ receipts' = [receipts EXCEPT ![c] = IF passes THEN "none" ELSE "DENIED"]
    BY <2>1, GateMoves
  <2>3. grantedKeys' = grantedKeys /\ (~passes => phases' = phases)
    BY <1>2, <2>2 DEF Submit, ledgerVars, grantedKeys, phases
  <2>4. Gate!Ask(c, a) \/ Gate!AskInVain(c, a)
    BY <2>2, <2>3 DEF Gate!Ask, Gate!AskInVain, phases, auths, receipts, grantedKeys
  <2>5. QED
    BY <2>4 DEF Gate!Next
<1>3. CASE AuthorizeOnly(c)
  <2>1. /\ gw[c] = "authorized" /\ gw'[c] = "idle" /\ auth' = auth /\ receipt'[c] = "AUTHORIZED"
        /\ \A d \in Caller : d # c => gw'[d] = gw[d] /\ receipt'[d] = receipt[d]
    BY <1>1, <1>3 DEF TypeOK, AuthorizeOnly, Issue
  <2>2. /\ phases' = [phases EXCEPT ![c] = "idle"] /\ phases[c] = "granted"
        /\ receipts' = [receipts EXCEPT ![c] = "AUTHORIZED"]
    BY <2>1, GateMoves DEF PhaseOf
  <2>3. auths' = auths /\ grantedKeys' = grantedKeys
    BY <1>1, <1>3 DEF AuthorizeOnly, ledgerVars, auths, grantedKeys
  <2>4. Gate!Leave(c)
    BY <2>2, <2>3 DEF Gate!Leave, phases, auths, receipts, grantedKeys
  <2>5. QED
    BY <2>4 DEF Gate!Next
<1>4. CASE StartOperation(c)
  <2>1. /\ gw[c] = "authorized" /\ gw'[c] = "running" /\ auth' = auth /\ receipt' = receipt
        /\ \A d \in Caller : d # c => gw'[d] = gw[d]
    BY <1>1, <1>4 DEF TypeOK, StartOperation, Enter
  <2>2. phases' = [phases EXCEPT ![c] = "running"] /\ phases[c] = "granted"
    BY <2>1, GateMoves DEF PhaseOf
  <2>3. auths' = auths /\ receipts' = receipts /\ grantedKeys' = grantedKeys
    BY <1>1, <1>4, <2>1 DEF StartOperation, ledgerVars, auths, receipts, grantedKeys
  <2>4. Gate!Start(c)
    BY <2>2, <2>3 DEF Gate!Start, phases, auths, receipts, grantedKeys
  <2>5. QED
    BY <2>4 DEF Gate!Next
<1>5. ASSUME NEW timedOut \in BOOLEAN, NEW failed \in BOOLEAN, NEW accepted \in BOOLEAN,
             NEW enforced \in BOOLEAN, EndOperation(c, timedOut, failed, accepted, enforced)
      PROVE  Gate!Next
  <2>1. PICK outcome \in Gate!Ended : outcome = OutcomeOf(timedOut, failed, accepted, enforced)
    BY DEF OutcomeOf, Gate!Ended
  <2>2. /\ gw[c] = "running" /\ gw'[c] = "idle" /\ auth' = auth /\ receipt'[c] = outcome
        /\ \A d \in Caller : d # c => gw'[d] = gw[d] /\ receipt'[d] = receipt[d]
    BY <1>1, <1>5, <2>1 DEF TypeOK, EndOperation, Issue
  <2>3. /\ phases' = [phases EXCEPT ![c] = "idle"] /\ phases[c] = "running"
        /\ receipts' = [receipts EXCEPT ![c] = outcome]
    BY <2>2, GateMoves DEF PhaseOf
  <2>4. auths' = auths /\ grantedKeys' = grantedKeys
    BY <1>1, <1>5 DEF EndOperation, ledgerVars, auths, grantedKeys
  <2>5. Gate!End(c, outcome)
    BY <2>3, <2>4 DEF Gate!End, phases, auths, receipts, grantedKeys
  <2>6. QED
    BY <2>5 DEF Gate!Next
<1>6. QED
  BY <1>2, <1>3, <1>4, <1>5

\* The calls of a process that stops vanish; what was granted stays granted.
LEMMA GateRestart ==
    ASSUME TypeOK, NEW p \in Process, RestartProcess(p)
    PROVE  Gate!Next
<1> DEFINE gone == {c \in DurableCaller : Runs[c] = p}
<1>1. DurableCaller' = DurableCaller /\ DurableCaller \subseteq Caller
  BY DEF DurableCaller, Durable
<1>2. phases' = [c \in DurableCaller |-> IF c \in gone THEN "idle" ELSE phases[c]]
  BY <1>1 DEF RestartProcess, phases, PhaseOf
<1>3. receipts' = [c \in DurableCaller |-> IF c \in gone THEN "none" ELSE receipts[c]]
  BY <1>1 DEF RestartProcess, receipts
<1>4. auths' = auths /\ grantedKeys' = grantedKeys
  BY <1>1 DEF RestartProcess, Restart, auths, grantedKeys
<1>5. Gate!Vanish(gone)
  BY <1>2, <1>3, <1>4 DEF Gate!Vanish, phases, auths, receipts, grantedKeys
<1>6. QED
  BY <1>5 DEF Gate!Next

-----------------------------------------------------------------------------
(* The theorem. *)

\* Every step of the gateways is a step of the gate or a stutter.
LEMMA GateSteps == GatewayInv /\ [Next]_vars => Gate!Next \/ UNCHANGED Mapped
<1> SUFFICES ASSUME GatewayInv, [Next]_vars PROVE Gate!Next \/ UNCHANGED Mapped
  OBVIOUS
<1>1. TypeOK
  BY DEF GatewayInv
<1>2. CASE \/ StandingChanges \/ BindingChanges \/ UNCHANGED vars
           \/ \E p \in Process, x \in Revocable : Revoke(p, x)
           \/ \E c \in Caller : CallConsume(c)
  BY <1>2, GateStutters DEF StandingChanges, BindingChanges, Revoke, CallConsume, Call, callVars,
     vars, ledgerVars
<1>3. ASSUME NEW c \in Caller,
             \/ \E a \in Auth, passes \in BOOLEAN : Submit(c, a, passes)
             \/ CheckRevocation(c) \/ AskOracle(c) \/ CheckBinding(c)
             \/ LedgerStep(c) \/ AuthorizeOnly(c) \/ StartOperation(c)
             \/ \E timedOut, failed, accepted, enforced \in BOOLEAN :
                   EndOperation(c, timedOut, failed, accepted, enforced)
      PROVE  Gate!Next \/ UNCHANGED Mapped
  <2>1. CASE Durable(c)
    <3>1. c \in DurableCaller
      BY <2>1 DEF DurableCaller
    <3>2. QED
      BY <1>1, <1>3, <3>1, GateChecks, GateLedger, GateCalls
  <2>2. CASE ~Durable(c)
    <3>1. LedgerStep(c) => total' = total
      BY <2>2, LedgerStepFacts DEF GatewayInv, LedgerStep
    <3>2. /\ total' = total
          /\ \A d \in Caller : d # c => gw'[d] = gw[d] /\ auth'[d] = auth[d] /\ receipt'[d] = receipt[d]
      BY <1>1, <1>3, <3>1 DEF TypeOK, Submit, CheckRevocation, AskOracle, CheckBinding, LedgerStep,
         Verdict, AuthorizeOnly, StartOperation, EndOperation, Enter, Issue, ledgerVars
    <3>3. QED
      BY <2>2, <3>2, LocalGateStutters
  <2>3. QED
    BY <2>1, <2>2
<1>4. ASSUME NEW p \in Process, RestartProcess(p) PROVE Gate!Next
  BY <1>1, <1>4, GateRestart
<1>5. QED
  BY <1>2, <1>3, <1>4 DEF Next

\* AuthorizeAndExecute (authorization.go:876) over shared durable directories is one
\* gate: each call is denied or granted once, a single-use key is granted to one
\* call ever, and only what was granted runs.
THEOREM GatewayImplementsGate == Spec => ImplementsGate
<1>1. Init => Gate!Init
  <2> SUFFICES ASSUME Init PROVE Gate!Init
    OBVIOUS
  <2>1. DurableCaller \subseteq Caller
    BY DEF DurableCaller
  <2>2. /\ grantedKeys = {} /\ phases = [c \in DurableCaller |-> "idle"]
        /\ auths \in [DurableCaller -> Auth] /\ receipts = [c \in DurableCaller |-> "none"]
    BY <2>1 DEF Init, LedgerInit, grantedKeys, phases, PhaseOf, auths, receipts
  <2>3. QED
    BY <2>2 DEF Gate!Init, grantedKeys, phases, auths, receipts
<1>2. GatewayInv /\ [Next]_vars => [Gate!Next]_(Gate!gateVars)
  BY GateSteps DEF Gate!gateVars, Mapped, grantedKeys, phases, auths, receipts
<1>3. QED
  BY <1>1, <1>2, GatewayInvariant, PTL DEF Spec, ImplementsGate, Gate!Spec
===============================================================================
