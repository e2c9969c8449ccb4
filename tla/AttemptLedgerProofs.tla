-------------------------- MODULE AttemptLedgerProofs --------------------------
(***************************************************************************)
(* What the ledger of attempts guarantees for any identities and any       *)
(* number of retries.                                                      *)
(***************************************************************************)
EXTENDS AttemptLedger, TLAPS

\* What is recorded are identities, and the last is one of them.
LEMMA RecordedFacts ==
    ASSUME TypeOK
    PROVE  /\ Len(attempts) \in Nat /\ DOMAIN attempts = 1..Len(attempts)
           /\ Recorded \subseteq Id
           /\ attempts # <<>> => Last \in Recorded /\ Len(attempts) \in DOMAIN attempts
<1>1. Len(attempts) \in Nat /\ DOMAIN attempts = 1..Len(attempts)
  BY DEF TypeOK
<1>2. \A i \in DOMAIN attempts : attempts[i] \in Id
  BY DEF TypeOK
<1>3. attempts # <<>> => Len(attempts) > 0
  BY <1>1 DEF TypeOK
<1>4. QED
  BY <1>1, <1>2, <1>3 DEF Recorded, Last

\* The attempts after Begin: one more, with an identity of its own.
LEMMA BeginFacts ==
    ASSUME TypeOK, NEW id \in Id, Begin(id)
    PROVE  /\ attempts' \in Seq(Id) /\ Len(attempts') = Len(attempts) + 1
           /\ DOMAIN attempts' = 1..(Len(attempts) + 1)
           /\ \A i \in DOMAIN attempts : attempts'[i] = attempts[i]
           /\ attempts'[Len(attempts) + 1] = id /\ Last' = id
           /\ Recorded' = Recorded \cup {id} /\ id \notin Recorded
<1>1. /\ attempts' \in Seq(Id) /\ Len(attempts') = Len(attempts) + 1
      /\ DOMAIN attempts' = 1..(Len(attempts) + 1)
      /\ \A i \in DOMAIN attempts : attempts'[i] = attempts[i]
      /\ attempts'[Len(attempts) + 1] = id /\ id \notin Recorded
  BY DEF Begin, TypeOK
<1>2. Last' = id
  BY <1>1 DEF Last
<1>3. Recorded' = Recorded \cup {id}
  BY <1>1, RecordedFacts DEF Recorded
<1>4. QED
  BY <1>1, <1>2, <1>3

\* Begin: a second output can only come from overlapping attempts.
LEMMA BeginInv ==
    ASSUME AttemptInv, NEW id \in Id, Begin(id)
    PROVE  AttemptInv'
<1>0. TypeOK
  BY DEF AttemptInv
<1>1. /\ outcome' = outcome /\ emitted' = emitted /\ wrote' = wrote
      /\ overlapped' = (overlapped \/ Unfinished # {})
      /\ \A a \in Recorded : outcome[a] # "COMPLETE" /\ a \notin emitted
      /\ Len(attempts) <= maxRetries
  BY DEF Begin
<1>2. TypeOK'
  BY <1>0, <1>1, BeginFacts DEF TypeOK
<1>3. Len(attempts') <= maxRetries + 1
  BY <1>0, <1>1, BeginFacts, RecordedFacts, AttemptAssumption
<1>4. \A i, j \in DOMAIN attempts' : attempts'[i] = attempts'[j] => i = j
  BY <1>0, BeginFacts, RecordedFacts DEF AttemptInv, Recorded
<1>5. /\ wrote' \subseteq Recorded' /\ \A a \in Id \ Recorded' : outcome'[a] = "NONE"
      /\ outcome'[id] = "NONE" /\ id \notin wrote
  BY <1>0, <1>1, BeginFacts DEF AttemptInv
<1>6. \A a \in Recorded' : outcome'[a] # "NONE" => (a \in wrote' => a \in emitted')
  BY <1>0, <1>1, <1>5, BeginFacts DEF AttemptInv
<1>7. ~overlapped' => \A a \in Recorded : outcome[a] # "NONE" /\ a \notin wrote
  BY <1>1 DEF AttemptInv, Unfinished
<1>8. ~overlapped' => \A a \in Unfinished' : a = Last'
  BY <1>0, <1>1, <1>7, BeginFacts DEF Unfinished
<1>9. OutputFromOneAttempt'
  BY <1>0, <1>1, <1>7, BeginFacts DEF OutputFromOneAttempt
<1>10. QED
  BY <1>1, <1>2, <1>3, <1>4, <1>5, <1>6, <1>8, <1>9 DEF AttemptInv

\* Emit: without overlap, only the last attempt can.
LEMMA EmitInv ==
    ASSUME AttemptInv, NEW id \in Id, Emit(id)
    PROVE  AttemptInv'
<1>1. /\ attempts' = attempts /\ outcome' = outcome /\ emitted' = emitted
      /\ overlapped' = overlapped /\ wrote' = wrote \cup {id} /\ id \in Unfinished
  BY DEF Emit
<1>2. Recorded' = Recorded /\ Last' = Last /\ Unfinished' = Unfinished
  BY <1>1 DEF Recorded, Last, Unfinished
<1>3. id \in Recorded /\ outcome[id] = "NONE"
  BY <1>1 DEF Unfinished
<1>4. OutputFromOneAttempt'
  BY <1>1, <1>2 DEF AttemptInv, OutputFromOneAttempt
<1>5. QED
  BY <1>1, <1>2, <1>3, <1>4 DEF AttemptInv, TypeOK

\* Finish: likewise, only the last attempt can complete.
LEMMA FinishInv ==
    ASSUME AttemptInv, NEW id \in Id, NEW end \in Reported \cup {"NONE"}, Finish(id, end)
    PROVE  AttemptInv'
<1>1. /\ attempts' = attempts /\ wrote' = wrote /\ overlapped' = overlapped
      /\ outcome' = [outcome EXCEPT ![id] = end] /\ id \in Unfinished
      /\ emitted' = IF id \in wrote THEN emitted \cup {id} ELSE emitted
  BY DEF Finish, Reported, Failure
<1>2. Recorded' = Recorded /\ Last' = Last
  BY <1>1 DEF Recorded, Last
<1>3. id \in Recorded /\ outcome[id] = "NONE" /\ outcome \in [Id -> Reported \cup {"NONE"}]
  BY <1>1 DEF Unfinished, AttemptInv, TypeOK
<1>4. TypeOK'
  BY <1>1, <1>3 DEF AttemptInv, TypeOK
<1>5. \A a \in Recorded' : outcome'[a] # "NONE" => (a \in wrote' => a \in emitted')
  BY <1>1, <1>2, <1>3 DEF AttemptInv
<1>6. ~overlapped' => \A a \in Unfinished' : a = Last'
  BY <1>1, <1>2, <1>3 DEF AttemptInv, Unfinished
<1>7. OutputFromOneAttempt'
  BY <1>1, <1>2, <1>3 DEF AttemptInv, OutputFromOneAttempt
<1>8. QED
  BY <1>1, <1>2, <1>3, <1>4, <1>5, <1>6, <1>7 DEF AttemptInv

-----------------------------------------------------------------------------
(* The theorems. *)

\* The inductive invariant of Begin and Finish (terminal.go:197-233).
THEOREM AttemptInvariant == Spec => []AttemptInv
<1>1. Init => AttemptInv
  <2> SUFFICES ASSUME Init PROVE AttemptInv
    OBVIOUS
  <2>1. TypeOK
    <3>1. attempts \in Seq(Id)
      BY DEF Init
    <3>2. overlapped \in BOOLEAN
      BY DEF Init
    <3>3. outcome \in [Id -> Reported \cup {"NONE"}] /\ emitted \in SUBSET Id /\ wrote \in SUBSET Id
      BY DEF Init
    <3>4. QED
      BY <3>1, <3>2, <3>3 DEF TypeOK
  <2>2. attempts = <<>> /\ Len(attempts) = 0 /\ Recorded = {}
    BY DEF Init, Recorded
  <2>3. Unfinished = {} /\ DOMAIN attempts = {}
    BY <2>2 DEF Unfinished
  <2>4. QED
    BY <2>1, <2>2, <2>3, AttemptAssumption DEF Init, AttemptInv, OutputFromOneAttempt
<1>2. AttemptInv /\ [Next]_vars => AttemptInv'
  <2>1. AttemptInv /\ Next => AttemptInv'
    BY BeginInv, EmitInv, FinishInv DEF Next
  <2>2. AttemptInv /\ UNCHANGED vars => AttemptInv'
    BY DEF vars, AttemptInv, TypeOK, Recorded, Unfinished, Last, OutputFromOneAttempt
  <2>3. QED
    BY <2>1, <2>2
<1>3. QED
  BY <1>1, <1>2, PTL DEF Spec

\* Retry integrity (terminal.go:178): attempts made one after the other emit output
\* from one attempt only, the last.
THEOREM RetryIntegrity == Spec => []OutputFromOneAttempt
<1>1. AttemptInv => OutputFromOneAttempt
  BY DEF AttemptInv
<1>2. QED
  BY <1>1, AttemptInvariant, PTL

\* Terminal (terminal.go:238): a verdict that ends the exchange is not taken back,
\* because no attempt can begin after it and none finishes twice.
THEOREM VerdictsAreFinal == Spec => VerdictIsFinal
<1>1. AttemptInv /\ [Next]_vars =>
        (Settled => Terminal' = Terminal)
  <2> SUFFICES ASSUME AttemptInv, [Next]_vars, Settled
               PROVE  Terminal' = Terminal
    OBVIOUS
  <2>1. TypeOK
    BY DEF AttemptInv
  <2>2. /\ attempts # <<>> /\ outcome[Last] # "NONE"
        /\ outcome[Last] = "COMPLETE" \/ Len(attempts) > maxRetries
    <3>1. attempts # <<>> /\ outcome[Last] # "NONE"
      BY DEF Terminal, Settled
    <3>2. outcome[Last] \in Reported
      BY <2>1, <3>1, RecordedFacts DEF TypeOK
    <3>3. QED
      BY <3>1, <3>2 DEF Terminal, Settled, Reported, Failure
  <2>3. Last \in Recorded /\ Last \in Id
    BY <2>1, <2>2, RecordedFacts
  <2>4. ASSUME NEW id \in Id, Begin(id) PROVE FALSE
    BY <2>1, <2>2, <2>3, <2>4, RecordedFacts, AttemptAssumption DEF Begin
  <2>5. ASSUME NEW id \in Id, NEW end \in Reported \cup {"NONE"}, Finish(id, end)
        PROVE  Terminal' = Terminal
    <3>1. id # Last
      BY <2>2, <2>5 DEF Finish, Unfinished
    <3>2. attempts' = attempts /\ Last' = Last /\ outcome'[Last] = outcome[Last]
      BY <2>1, <2>3, <2>5, <3>1 DEF Finish, Last, TypeOK
    <3>3. QED
      BY <3>2 DEF Terminal
  <2>6. CASE attempts' = attempts /\ outcome' = outcome
    BY <2>6 DEF Terminal, Last
  <2>7. QED
    BY <2>4, <2>5, <2>6 DEF Next, Emit, vars
<1>2. QED
  BY <1>1, AttemptInvariant, PTL DEF Spec, VerdictIsFinal
==============================================================================
