------------------------- MODULE IsolatedRuntimeProofs -------------------------
(***************************************************************************)
(* What the enforcer guarantees for any operations and any limits, as long *)
(* as no sum of a limited budget wraps; and that the tools of an evaluation *)
(* stay within these budgets, for any tools and identities.                *)
(***************************************************************************)
EXTENDS IsolatedRuntime, TLAPS

(***************************************************************************)
(* The enforcer                                                            *)
(***************************************************************************)

\* The limits and amounts are integers, and sums that fit do not wrap.
LEMMA RoomyFacts ==
    ASSUME Roomy, NEW o \in Op, NEW b \in Budget, NEW u \in [Budget -> Int],
           Limit[b] > 0, u[b] <= Limit[b]
    PROVE  /\ Limit[b] \in Int /\ Amount[o][b] \in Int /\ MaxInt \in Int
           /\ Amount[o][b] > 0 => Wrap(u[b] + Amount[o][b]) = u[b] + Amount[o][b]
           /\ Fits(u, o, b) => Amount[o][b] >= 0 /\ u[b] + Amount[o][b] <= Limit[b]
<1>1. Limit[b] \in Int /\ Amount[o][b] \in Int /\ MaxInt \in Int /\ u[b] \in Int
  BY EnforcerAssumption
<1>2. Amount[o][b] > 0 => u[b] + Amount[o][b] <= MaxInt
  BY <1>1 DEF Roomy
<1>3. Amount[o][b] > 0 => Wrap(u[b] + Amount[o][b]) = u[b] + Amount[o][b]
  BY <1>1, <1>2 DEF Wrap
<1>4. QED
  BY <1>1, <1>3 DEF Fits, Within

\* A charge keeps a limited budget within its limit and covers what it grants; the
\* mutations are charged only together with the grant, because they come last.
LEMMA ChargeFacts ==
    ASSUME Roomy, NEW o \in Op, NEW proof \in Answer, NEW b \in Budget,
           NEW u \in [Budget -> Int], NEW g \in [Budget -> Int],
           Limit[b] > 0, u[b] <= Limit[b], 0 <= g[b], g[b] <= u[b],
           b = "mutations" => g[b] = u[b]
    PROVE  /\ u[b] <= After(u, o, proof)[b] /\ After(u, o, proof)[b] <= Limit[b]
           /\ 0 <= Granted(g, u, o, proof)[b]
           /\ Granted(g, u, o, proof)[b] <= After(u, o, proof)[b]
           /\ b = "mutations" => Granted(g, u, o, proof)[b] = After(u, o, proof)[b]
<1>1. /\ Limit[b] \in Int /\ Amount[o][b] \in Int /\ u[b] \in Int /\ g[b] \in Int
      /\ Amount[o][b] > 0 => Wrap(u[b] + Amount[o][b]) = u[b] + Amount[o][b]
      /\ Fits(u, o, b) => Amount[o][b] >= 0 /\ u[b] + Amount[o][b] <= Limit[b]
      /\ Amount[o][b] = 0 => Wrap(u[b] + Amount[o][b]) = u[b]
  <2>1. u[b] <= MaxInt /\ u[b] \in Int /\ MaxInt \in Int
    BY EnforcerAssumption
  <2>2. Amount[o][b] = 0 => Wrap(u[b] + Amount[o][b]) = u[b]
    BY <2>1 DEF Wrap
  <2>3. QED
    BY <2>2, RoomyFacts
<1>2. CASE Barred(o, proof)
  BY <1>1, <1>2 DEF After, Granted, Allows
<1>3. CASE ~Barred(o, proof)
  <2>1. After(u, o, proof)[b] = IF b \in Charged(u, o) THEN u[b] + Amount[o][b] ELSE u[b]
    <3>1. b \in Charged(u, o) => Fits(u, o, b)
      <4>1. Place[b] <= Place[b]
        BY DEF Place, Budget
      <4>2. QED
        BY <4>1 DEF Charged
    <3>2. b \in Charged(u, o) => Wrap(u[b] + Amount[o][b]) = u[b] + Amount[o][b]
      BY <1>1, <3>1
    <3>3. QED
      BY <1>3, <3>2 DEF After
  <2>2. b \in Charged(u, o) => Fits(u, o, b)
    <3>1. Place[b] <= Place[b]
      BY DEF Place, Budget
    <3>2. QED
      BY <3>1 DEF Charged
  <2>3. Allows(u, o, proof) => b \in Charged(u, o)
    BY DEF Allows, Charged
  <2>4. b = "mutations" => (Allows(u, o, proof) <=> b \in Charged(u, o))
    <3>1. \A c \in Budget : Place[c] <= Place["mutations"]
      BY DEF Place, Budget
    <3>2. QED
      BY <1>3, <3>1 DEF Allows, Charged
  <2>5. Granted(g, u, o, proof)[b] = IF Allows(u, o, proof) THEN g[b] + Amount[o][b] ELSE g[b]
    BY DEF Granted
  <2>6. b \in Charged(u, o) => Amount[o][b] >= 0 /\ u[b] + Amount[o][b] <= Limit[b]
    BY <1>1, <2>2
  <2>7. QED
    BY <1>1, <2>1, <2>3, <2>4, <2>5, <2>6
<1>4. QED
  BY <1>2, <1>3

\* What is used and what was granted, of which EnforcerInv says the same.
Sound(u, g) ==
    /\ u \in [Budget -> Int] /\ g \in [Budget -> Int]
    /\ \A b \in Budget : Limit[b] > 0 =>
        /\ u[b] <= Limit[b] /\ 0 <= g[b] /\ g[b] <= u[b]
        /\ b = "mutations" => g[b] = u[b]

\* One authorization, granted or not.
LEMMA AuthorizationFacts ==
    ASSUME Roomy, NEW o \in Op, NEW proof \in Answer, NEW u, NEW g, Sound(u, g)
    PROVE  /\ Sound(After(u, o, proof), Granted(g, u, o, proof))
           /\ \A b \in Budget : Limit[b] > 0 =>
                /\ u[b] <= After(u, o, proof)[b]
                /\ g[b] <= Granted(g, u, o, proof)[b]
                /\ Allows(u, o, proof) => Granted(g, u, o, proof)[b] = g[b] + Amount[o][b]
<1>1. u \in [Budget -> Int] /\ g \in [Budget -> Int]
  BY DEF Sound
<1>2. After(u, o, proof) \in [Budget -> Int] /\ Granted(g, u, o, proof) \in [Budget -> Int]
  BY <1>1, EnforcerAssumption DEF After, Granted, Wrap
<1>3. Sound(After(u, o, proof), Granted(g, u, o, proof))
  BY <1>1, <1>2, ChargeFacts DEF Sound
<1>4. ASSUME NEW b \in Budget, Limit[b] > 0
      PROVE  /\ u[b] <= After(u, o, proof)[b]
             /\ g[b] <= Granted(g, u, o, proof)[b]
             /\ Allows(u, o, proof) => Granted(g, u, o, proof)[b] = g[b] + Amount[o][b]
  <2>1. g[b] \in Int /\ Amount[o][b] \in Int
    BY <1>1, EnforcerAssumption
  <2>2. Allows(u, o, proof) => Amount[o][b] >= 0
    BY <1>1, <1>4, RoomyFacts DEF Allows, Sound
  <2>3. Granted(g, u, o, proof)[b] = IF Allows(u, o, proof) THEN g[b] + Amount[o][b] ELSE g[b]
    BY <1>4 DEF Granted
  <2>4. u[b] <= After(u, o, proof)[b]
    BY <1>1, <1>4, ChargeFacts DEF Sound
  <2>5. QED
    BY <2>1, <2>2, <2>3, <2>4
<1>5. QED
  BY <1>3, <1>4

-----------------------------------------------------------------------------
(* The theorems. *)

\* The inductive invariant of Authorize (enforcer.go:149-237).
THEOREM EnforcerInvariant == Roomy => (Spec => []EnforcerInv)
<1> SUFFICES ASSUME Roomy PROVE Spec => []EnforcerInv
  OBVIOUS
<1>1. Init => EnforcerInv
  <2> SUFFICES ASSUME Init PROVE EnforcerInv
    OBVIOUS
  <2>1. \A b \in Budget : used[b] = 0 /\ granted[b] = 0
    BY DEF Init
  <2>2. TypeOK
    <3>1. used \in [Budget -> Int] /\ granted \in [Budget -> Int]
      BY DEF Init
    <3>2. expired \in BOOLEAN /\ startupError \in BOOLEAN
      BY DEF Init
    <3>3. QED
      BY <3>1, <3>2 DEF TypeOK
  <2>3. \A b \in Budget : Limit[b] \in Int
    BY EnforcerAssumption
  <2>4. QED
    BY <2>1, <2>2, <2>3 DEF EnforcerInv, LedgerCovers
<1>2. EnforcerInv /\ [Next]_enforcerVars => EnforcerInv'
  <2>1. ASSUME EnforcerInv, NEW o \in Op, NEW proof \in Answer, Authorize(o, proof)
        PROVE  EnforcerInv'
    <3>1. Sound(used, granted)
      BY <2>1, EnforcerAssumption DEF EnforcerInv, TypeOK, LedgerCovers, Sound
    <3>2. Sound(used', granted')
      BY <2>1, <3>1, AuthorizationFacts DEF Authorize
    <3>3. QED
      BY <2>1, <3>2 DEF EnforcerInv, TypeOK, LedgerCovers, Sound, Authorize
  <2>2. ASSUME EnforcerInv, TimeRunsOut PROVE EnforcerInv'
    BY <2>2 DEF EnforcerInv, TypeOK, LedgerCovers, TimeRunsOut
  <2>3. ASSUME EnforcerInv, UNCHANGED enforcerVars PROVE EnforcerInv'
    BY <2>3 DEF EnforcerInv, TypeOK, LedgerCovers, enforcerVars
  <2>4. QED
    BY <2>1, <2>2, <2>3 DEF Next
<1>3. QED
  BY <1>1, <1>2, PTL DEF Spec

\* contracts.go:107: what is allowed over the enforcer's lifetime stays within the
\* limits, whatever is refused in between.
THEOREM BudgetsAreKept == Roomy => (Spec => []BudgetsHold)
<1>1. EnforcerInv => BudgetsHold
  BY EnforcerAssumption DEF EnforcerInv, TypeOK, LedgerCovers, BudgetsHold
<1>2. QED
  BY <1>1, EnforcerInvariant, PTL

\* Ledger (enforcer.go:133) covers what was allowed, and is exact for mutations.
THEOREM LedgerIsSound == Roomy => (Spec => []LedgerCovers)
<1>1. EnforcerInv => LedgerCovers
  BY DEF EnforcerInv
<1>2. QED
  BY <1>1, EnforcerInvariant, PTL

(***************************************************************************)
(* The tools of an evaluation                                              *)
(***************************************************************************)

\* What the effects take was granted.
RuntimeInv ==
    /\ Sound(used, granted) /\ expired \in BOOLEAN /\ startupError \in BOOLEAN
    /\ taken \in [Budget -> Int]
    /\ \A b \in Budget : Limit[b] > 0 => taken[b] <= granted[b]

\* A request, whatever it is authorized for.
LEMMA RequestFacts ==
    ASSUME Roomy, RuntimeInv, NEW call \in CallOp, NEW o \in Op
    PROVE  /\ Sound(Spent(call, o), Sum(call, o))
           /\ \A b \in Budget : Limit[b] > 0 =>
                /\ used[b] <= Spent(call, o)[b] /\ granted[b] <= Sum(call, o)[b]
                /\ BothAllowed(call, o) => granted[b] + Amount[o][b] <= Sum(call, o)[b]
<1>1. call \in Op /\ Sound(used, granted)
  BY RuntimeAssumption DEF RuntimeInv
<1> DEFINE u1 == After(used, call, "authorized")
           g1 == Granted(granted, used, call, "authorized")
<1>2. /\ Sound(u1, g1)
      /\ \A b \in Budget : Limit[b] > 0 =>
            /\ used[b] <= u1[b] /\ granted[b] <= g1[b]
            /\ Allows(used, call, "authorized") => g1[b] = granted[b] + Amount[call][b]
  BY <1>1, AuthorizationFacts DEF Answer
<1> HIDE DEF u1, g1
<1>3. /\ Sound(After(u1, o, "authorized"), Granted(g1, u1, o, "authorized"))
      /\ \A b \in Budget : Limit[b] > 0 =>
            /\ u1[b] <= After(u1, o, "authorized")[b] /\ g1[b] <= Granted(g1, u1, o, "authorized")[b]
            /\ Allows(u1, o, "authorized") => Granted(g1, u1, o, "authorized")[b] = g1[b] + Amount[o][b]
  BY <1>2, AuthorizationFacts DEF Answer
<1>4. CASE o = call
  <2>1. Spent(call, o) = u1 /\ Sum(call, o) = g1
    BY <1>4 DEF Spent, Sum, u1, g1
  <2>2. BothAllowed(call, o) => Allows(used, call, "authorized")
    BY DEF BothAllowed, CallAllowed
  <2>3. \A b \in Budget : granted[b] \in Int /\ g1[b] \in Int /\ Amount[o][b] \in Int
    BY <1>1, <1>2, EnforcerAssumption DEF Sound
  <2>4. QED
    BY <1>2, <1>4, <2>1, <2>2, <2>3
<1>5. CASE o # call
  <2>1. Spent(call, o) = After(u1, o, "authorized") /\ Sum(call, o) = Granted(g1, u1, o, "authorized")
    BY <1>5 DEF Spent, Sum, u1, g1
  <2>2. BothAllowed(call, o) => Allows(u1, o, "authorized")
    BY <1>5 DEF BothAllowed, u1
  <2>3. \A b \in Budget : /\ granted[b] \in Int /\ g1[b] \in Int /\ Amount[o][b] \in Int
                          /\ Granted(g1, u1, o, "authorized")[b] \in Int
                          /\ used[b] \in Int /\ u1[b] \in Int /\ After(u1, o, "authorized")[b] \in Int
    BY <1>1, <1>2, <1>3, EnforcerAssumption DEF Sound
  <2>4. QED
    BY <1>2, <1>3, <2>1, <2>2, <2>3
<1>6. QED
  BY <1>4, <1>5

\* What NothingIsGivenBack says of one step.
Kept == \A b \in Budget : Limit[b] > 0 => used[b] <= used'[b] /\ granted[b] <= granted'[b]

\* A refused request may be charged, and takes nothing.
LEMMA RefusedInv ==
    ASSUME Roomy, RuntimeInv, NEW call \in CallOp, NEW o \in Op,
           used' = Spent(call, o), granted' = Sum(call, o), taken' = taken,
           UNCHANGED <<expired, startupError>>
    PROVE  RuntimeInv' /\ Kept
<1>1. Sound(used', granted') /\ Kept
  BY RequestFacts DEF Kept
<1>2. \A b \in Budget : taken[b] \in Int /\ granted[b] \in Int /\ granted'[b] \in Int
  BY <1>1 DEF RuntimeInv, Sound
<1>3. QED
  BY <1>1, <1>2 DEF RuntimeInv, Kept

\* A tool that runs takes what was granted to its request.
LEMMA EffectInv ==
    ASSUME Roomy, RuntimeInv, NEW id, NEW call \in CallOp, NEW o \in Op,
           BothAllowed(call, o), Effect(id, o),
           used' = Spent(call, o), granted' = Sum(call, o),
           UNCHANGED <<expired, startupError>>
    PROVE  RuntimeInv' /\ Kept
<1>1. /\ Sound(used', granted') /\ Kept
      /\ \A b \in Budget : Limit[b] > 0 => granted[b] + Amount[o][b] <= granted'[b]
  BY RequestFacts DEF Kept
<1>2. \A b \in Budget : /\ taken[b] \in Int /\ granted[b] \in Int /\ granted'[b] \in Int
                        /\ Amount[o][b] \in Int
  BY <1>1, EnforcerAssumption DEF RuntimeInv, Sound
<1>3. taken' \in [Budget -> Int]
  BY <1>2 DEF Effect
<1>4. \A b \in Budget : Limit[b] > 0 => taken'[b] = taken[b] + Amount[o][b]
  BY DEF Effect
<1>5. QED
  BY <1>1, <1>2, <1>3, <1>4 DEF RuntimeInv

-----------------------------------------------------------------------------
(* The theorem. *)

\* It holds at the start ...
LEMMA RuntimeStarts == RuntimeInit => RuntimeInv
<1> SUFFICES ASSUME RuntimeInit PROVE RuntimeInv
  OBVIOUS
<1>1. \A b \in Budget : used[b] = 0 /\ granted[b] = 0 /\ taken[b] = 0
  BY DEF RuntimeInit, Init
<1>2. used \in [Budget -> Int] /\ granted \in [Budget -> Int] /\ taken \in [Budget -> Int]
  BY DEF RuntimeInit, Init
<1>3. \A b \in Budget : Limit[b] \in Int
  BY EnforcerAssumption
<1>4. expired \in BOOLEAN /\ startupError \in BOOLEAN
  BY DEF RuntimeInit, Init
<1>5. QED
  BY <1>1, <1>2, <1>3, <1>4 DEF RuntimeInv, Sound

\* A step that asks the enforcer of nothing.
LEMMA UnchargedInv ==
    ASSUME RuntimeInv, used' = used, granted' = granted, taken' = taken,
           expired' \in BOOLEAN, startupError' = startupError
    PROVE  RuntimeInv' /\ Kept
<1>1. RuntimeInv'
  BY DEF RuntimeInv, Sound
<1>2. \A b \in Budget : used[b] \in Int /\ granted[b] \in Int
  BY DEF RuntimeInv, Sound
<1>3. QED
  BY <1>1, <1>2 DEF Kept

\* ... and every step keeps it, and gives nothing back.
LEMMA RuntimeStep ==
    ASSUME Roomy, RuntimeInv, [RuntimeNext]_runtimeVars
    PROVE  RuntimeInv' /\ Kept
<1>1. ASSUME NEW id \in Id, NEW call \in CallOp, RefuseCall(id, call) PROVE RuntimeInv' /\ Kept
  <2>1. /\ call \in Op /\ taken' = taken /\ used' = Spent(call, call) /\ granted' = Sum(call, call)
        /\ UNCHANGED <<expired, startupError>>
    BY <1>1, RuntimeAssumption DEF RefuseCall, Traced
  <2>2. QED
    BY <2>1, RefusedInv
<1>2. ASSUME NEW id \in Id, NEW call \in CallOp, NEW o \in Op, NEW within \in BOOLEAN,
             RefuseOperation(id, call, o, within)
      PROVE  RuntimeInv' /\ Kept
  <2>1. call \in Op /\ taken' = taken /\ UNCHANGED <<expired, startupError>>
    BY <1>2, RuntimeAssumption DEF RefuseOperation, Traced
  <2>2. CASE within
    BY <1>2, <2>1, <2>2, RefusedInv DEF RefuseOperation
  <2>3. CASE ~within
    BY <1>2, <2>1, <2>3, RefusedInv DEF RefuseOperation
  <2>4. QED
    BY <2>2, <2>3
<1>3. ASSUME NEW id \in Id, NEW call \in CallOp, NEW o \in Op, RefuseProof(id, call, o)
      PROVE  RuntimeInv' /\ Kept
  BY <1>3, RefusedInv DEF RefuseProof, Traced
<1>4. ASSUME NEW id \in Id, NEW call \in CallOp, NEW o \in Op, RunTool(id, call, o)
      PROVE  RuntimeInv' /\ Kept
  BY <1>4, EffectInv DEF RunTool
<1>5. ASSUME NEW id \in Id, NEW call \in CallOp, NEW o \in Op, LoseResult(id, call, o)
      PROVE  RuntimeInv' /\ Kept
  BY <1>5, EffectInv DEF LoseResult
<1>6. ASSUME NEW id \in Id, RefuseTool(id) PROVE RuntimeInv' /\ Kept
  <2>1. UNCHANGED <<used, granted, taken, expired, startupError>>
    BY <1>6 DEF RefuseTool, Traced
  <2>2. QED
    BY <2>1, UnchargedInv DEF RuntimeInv
<1>7. CASE FailStep \/ Final \/ UNCHANGED runtimeVars
  <2>1. UNCHANGED <<used, granted, taken, expired, startupError>>
    BY <1>7 DEF FailStep, Final, runtimeVars
  <2>2. QED
    BY <2>1, UnchargedInv DEF RuntimeInv
<1>8. CASE RuntimeExpires
  <2>1. UNCHANGED <<used, granted, taken, startupError>> /\ expired' \in BOOLEAN
    BY <1>8 DEF RuntimeExpires, TimeRunsOut
  <2>2. QED
    BY <2>1, UnchargedInv
<1>9. QED
  BY <1>1, <1>2, <1>3, <1>4, <1>5, <1>6, <1>7, <1>8 DEF RuntimeNext, HostStep

\* The inductive invariant of an evaluation.
LEMMA RuntimeInvariance == Roomy => (RuntimeSpec => []RuntimeInv)
<1> SUFFICES ASSUME Roomy PROVE RuntimeSpec => []RuntimeInv
  OBVIOUS
<1>1. RuntimeInv /\ [RuntimeNext]_runtimeVars => RuntimeInv'
  BY RuntimeStep
<1>2. QED
  BY <1>1, RuntimeStarts, PTL DEF RuntimeSpec

\* Execute (runtime.go:75-172): what the tools have done in all stays within every
\* limit of the contract, whichever requests are refused and wherever a run ends.
THEOREM EvaluationsAreBudgeted == Roomy => (RuntimeSpec => []EffectsAreBudgeted)
<1>1. RuntimeInv => EffectsAreBudgeted
  <2> SUFFICES ASSUME RuntimeInv, NEW b \in Budget, Limit[b] > 0 PROVE taken[b] <= Limit[b]
    BY DEF EffectsAreBudgeted
  <2>1. taken[b] \in Int /\ granted[b] \in Int /\ used[b] \in Int /\ Limit[b] \in Int
    BY EnforcerAssumption DEF RuntimeInv, Sound
  <2>2. taken[b] <= granted[b] /\ granted[b] <= used[b] /\ used[b] <= Limit[b]
    BY DEF RuntimeInv, Sound
  <2>3. QED
    BY <2>1, <2>2
<1>2. QED
  BY <1>1, RuntimeInvariance, PTL

\* The enforcer's own promises (contracts.go:107, enforcer.go:133) also hold of the one
\* inside an evaluation, which is asked twice in one request.
THEOREM EvaluationsKeepTheLedger ==
    Roomy => (RuntimeSpec => [](EnforcerInv /\ BudgetsHold /\ LedgerCovers))
<1>1. RuntimeInv => EnforcerInv
  BY EnforcerAssumption DEF RuntimeInv, Sound, EnforcerInv, TypeOK, LedgerCovers
<1>2. EnforcerInv => BudgetsHold /\ LedgerCovers
  BY EnforcerAssumption DEF EnforcerInv, TypeOK, LedgerCovers, BudgetsHold
<1>3. QED
  BY <1>1, <1>2, RuntimeInvariance, PTL

\* enforcer.go:208-237: refusals and second authorizations never lower what is on the
\* ledger, so a limit once met stays met for the rest of an evaluation.
THEOREM BudgetsOnlyShrink == Roomy => (RuntimeSpec => NothingIsGivenBack)
<1> SUFFICES ASSUME Roomy PROVE RuntimeSpec => NothingIsGivenBack
  OBVIOUS
<1>1. RuntimeInv /\ [RuntimeNext]_runtimeVars => [Kept]_runtimeVars
  BY RuntimeStep
<1>2. RuntimeSpec => [][Kept]_runtimeVars
  BY <1>1, RuntimeInvariance, PTL DEF RuntimeSpec
<1>3. QED
  BY <1>2 DEF NothingIsGivenBack, Kept

(***************************************************************************)
(* The trace of an evaluation                                              *)
(***************************************************************************)

Call == [id : Id, allowed : BOOLEAN]

\* What an entry at the end leaves of a sequence.
LEMMA AppendFacts ==
    ASSUME NEW S, NEW s \in Seq(S), NEW e \in S
    PROVE  /\ Append(s, e) \in Seq(S)
           /\ Len(s) \in Nat /\ DOMAIN s = 1 .. Len(s) /\ DOMAIN Append(s, e) = 1 .. Len(s) + 1
           /\ \A i \in 1 .. Len(s) : Append(s, e)[i] = s[i]
           /\ Append(s, e)[Len(s) + 1] = e
  OBVIOUS

\* A refused request of a new identity.
LEMMA RefusedShows ==
    ASSUME NEW calls \in Seq(Call), NEW ran \in Seq(Id), Shows(calls, ran), NEW id \in Id,
           \A i \in DOMAIN calls : calls[i].id # id, \A k \in DOMAIN ran : ran[k] # id
    PROVE  Shows(Append(calls, [id |-> id, allowed |-> FALSE]), ran)
<1> DEFINE n == Len(calls)
           e == [id |-> id, allowed |-> FALSE]
           more == Append(calls, e)
<1>1. e \in Call /\ e.id = id /\ ~e.allowed
  BY DEF Call
<1>2. /\ n \in Nat /\ DOMAIN calls = 1 .. n /\ DOMAIN more = 1 .. n + 1
      /\ \A i \in 1 .. n : more[i] = calls[i]
      /\ more[n + 1] = e
  BY <1>1, AppendFacts
<1>3. \A i \in DOMAIN more : i = n + 1 \/ (i \in DOMAIN calls /\ more[i] = calls[i])
  BY <1>2
<1>4. n + 1 \in DOMAIN more /\ \A i \in DOMAIN calls : i \in DOMAIN more /\ i < n + 1
  BY <1>2
<1> HIDE DEF n, e, more
<1>5. \A i, j \in DOMAIN more : more[i].id = more[j].id => i = j
  BY <1>1, <1>2, <1>3 DEF Shows
<1>6. \A i \in DOMAIN more : more[i].allowed <=> \E k \in DOMAIN ran : ran[k] = more[i].id
  BY <1>1, <1>2, <1>3 DEF Shows
<1>7. \A k \in DOMAIN ran : \E i \in DOMAIN more : more[i].id = ran[k]
  BY <1>2, <1>4 DEF Shows
<1>8. \A i, j \in DOMAIN more, k, l \in DOMAIN ran :
          more[i].id = ran[k] /\ more[j].id = ran[l] /\ i < j => k < l
  BY <1>1, <1>2, <1>3 DEF Shows
<1>9. Shows(more, ran)
  BY <1>5, <1>6, <1>7, <1>8 DEF Shows
<1>10. QED
  BY <1>9 DEF more, e

\* A request of a new identity, whose tool runs.
LEMMA RanShows ==
    ASSUME NEW calls \in Seq(Call), NEW ran \in Seq(Id), Shows(calls, ran), NEW id \in Id,
           \A i \in DOMAIN calls : calls[i].id # id, \A k \in DOMAIN ran : ran[k] # id
    PROVE  Shows(Append(calls, [id |-> id, allowed |-> TRUE]), Append(ran, id))
<1> DEFINE n == Len(calls)
           m == Len(ran)
           e == [id |-> id, allowed |-> TRUE]
           more == Append(calls, e)
           then == Append(ran, id)
<1>1. e \in Call /\ e.id = id /\ e.allowed
  BY DEF Call
<1>2. /\ n \in Nat /\ DOMAIN calls = 1 .. n /\ DOMAIN more = 1 .. n + 1
      /\ \A i \in 1 .. n : more[i] = calls[i]
      /\ more[n + 1] = e
  BY <1>1, AppendFacts
<1>3. /\ m \in Nat /\ DOMAIN ran = 1 .. m /\ DOMAIN then = 1 .. m + 1
      /\ \A k \in 1 .. m : then[k] = ran[k]
      /\ then[m + 1] = id
  BY AppendFacts
<1>4. \A i \in DOMAIN more : i = n + 1 \/ (i \in DOMAIN calls /\ more[i] = calls[i])
  BY <1>2
<1>5. \A k \in DOMAIN then : k = m + 1 \/ (k \in DOMAIN ran /\ then[k] = ran[k])
  BY <1>3
<1>6. n + 1 \in DOMAIN more /\ \A i \in DOMAIN calls : i \in DOMAIN more /\ i < n + 1 /\ ~(n + 1 < i)
  BY <1>2
<1>7. m + 1 \in DOMAIN then /\ \A k \in DOMAIN ran : k \in DOMAIN then /\ k < m + 1
  BY <1>3
<1>8. ~(n + 1 < n + 1)
  BY <1>2
<1> HIDE DEF n, m, e, more, then
<1>9. \A i, j \in DOMAIN more : more[i].id = more[j].id => i = j
  BY <1>1, <1>2, <1>4 DEF Shows
<1>10. \A i \in DOMAIN more : more[i].allowed <=> \E k \in DOMAIN then : then[k] = more[i].id
  <2>1. ASSUME NEW i \in DOMAIN calls
        PROVE  more[i].allowed <=> \E k \in DOMAIN then : then[k] = more[i].id
    <3>1. calls[i].allowed <=> \E k \in DOMAIN ran : ran[k] = calls[i].id
      BY <2>1 DEF Shows
    <3>2. more[i] = calls[i] /\ calls[i].id # id
      BY <1>2, <2>1
    <3>3. (\E k \in DOMAIN ran : ran[k] = calls[i].id) <=> \E k \in DOMAIN then : then[k] = calls[i].id
      BY <1>3, <1>5, <1>7, <3>2
    <3>4. QED
      BY <3>1, <3>2, <3>3
  <2>2. more[n + 1].allowed /\ then[m + 1] = more[n + 1].id
    BY <1>1, <1>2, <1>3
  <2>3. QED
    BY <1>4, <1>7, <2>1, <2>2
<1>11. \A k \in DOMAIN then : \E i \in DOMAIN more : more[i].id = then[k]
  BY <1>1, <1>2, <1>3, <1>5, <1>6 DEF Shows
<1>12. ASSUME NEW i \in DOMAIN more, NEW j \in DOMAIN more, NEW k \in DOMAIN then, NEW l \in DOMAIN then,
              more[i].id = then[k], more[j].id = then[l], i < j
       PROVE  k < l
  <2>1. i \in DOMAIN calls /\ more[i] = calls[i]
    BY <1>4, <1>6, <1>8, <1>12
  <2>2. k \in DOMAIN ran /\ then[k] = ran[k]
    BY <1>3, <1>5, <1>12, <2>1
  <2>3. CASE j = n + 1
    <3>1. l = m + 1
      BY <1>1, <1>2, <1>5, <1>12, <2>3
    <3>2. QED
      BY <1>7, <2>2, <3>1
  <2>4. CASE j # n + 1
    <3>1. j \in DOMAIN calls /\ more[j] = calls[j]
      BY <1>4, <2>4
    <3>2. l \in DOMAIN ran /\ then[l] = ran[l]
      BY <1>3, <1>5, <1>12, <3>1
    <3>3. QED
      BY <1>12, <2>1, <2>2, <3>1, <3>2 DEF Shows
  <2>5. QED
    BY <2>3, <2>4
<1>13. Shows(more, then)
  BY <1>9, <1>10, <1>11, <1>12 DEF Shows
<1>14. QED
  BY <1>13 DEF more, e, then
-----------------------------------------------------------------------------
(* The theorem. *)

\* While Execute runs, what it has traced so far shows what ran; identities are new.
TraceInv ==
    /\ trusted \in Seq(Call) /\ effects \in Seq(Id)
    /\ \A i \in DOMAIN trusted : trusted[i].id \in seenIDs
    /\ \A k \in DOMAIN effects : effects[k] \in seenIDs
    /\ outcome = "none" => Shows(trusted, effects)
    /\ TraceIsExact

\* A request that is not traced as allowed.
LEMMA TracedInv ==
    ASSUME TraceInv, NEW id \in Id, Request(id), Seen(id), Traced(id)
    PROVE  TraceInv'
<1>1. /\ trusted \in Seq(Call) /\ effects \in Seq(Id) /\ Shows(trusted, effects) /\ id \notin seenIDs
      /\ trusted' = Append(trusted, [id |-> id, allowed |-> FALSE])
      /\ effects' = effects /\ trace' = trace /\ outcome' = "none" /\ seenIDs' = seenIDs \cup {id}
  BY DEF TraceInv, Request, Seen, Traced
<1>2. /\ \A i \in DOMAIN trusted : trusted[i].id \in seenIDs /\ trusted[i].id # id
      /\ \A k \in DOMAIN effects : effects[k] \in seenIDs /\ effects[k] # id
  BY <1>1 DEF TraceInv
<1>3. Shows(trusted', effects')
  BY <1>1, <1>2, RefusedShows
<1>4. trusted' \in Seq(Call) /\ \A i \in DOMAIN trusted' : trusted'[i].id \in seenIDs'
  <2>1. [id |-> id, allowed |-> FALSE] \in Call
    BY DEF Call
  <2>2. QED
    BY <1>1, <1>2, <2>1, AppendFacts
<1>5. TraceIsExact'
  BY <1>1 DEF TraceInv, TraceIsExact
<1>6. QED
  BY <1>1, <1>2, <1>3, <1>4, <1>5 DEF TraceInv

\* The identities of the tools that ran differ, and were seen.
LEMMA EffectIsNew ==
    ASSUME TraceInv, NEW id \in Id, id \notin seenIDs, NEW o, Effect(id, o), Seen(id)
    PROVE  /\ effects' = Append(effects, id) /\ effects' \in Seq(Id)
           /\ \A k \in DOMAIN effects' : effects'[k] \in seenIDs'
           /\ \A i, j \in DOMAIN effects' : effects'[i] = effects'[j] => i = j
<1>1. effects \in Seq(Id) /\ effects' = Append(effects, id) /\ seenIDs' = seenIDs \cup {id}
  BY DEF TraceInv, Effect, Seen
<1>2. /\ \A k \in DOMAIN effects : effects[k] \in seenIDs /\ effects[k] # id
      /\ \A i, j \in DOMAIN effects : effects[i] = effects[j] => i = j
  BY DEF TraceInv, TraceIsExact
<1>3. QED
  BY <1>1, <1>2, AppendFacts

\* The tool runs and is traced.
LEMMA RunToolInv ==
    ASSUME TraceInv, NEW id \in Id, NEW call, NEW o, RunTool(id, call, o)
    PROVE  TraceInv'
<1>1. /\ trusted \in Seq(Call) /\ effects \in Seq(Id) /\ Shows(trusted, effects) /\ id \notin seenIDs
      /\ trusted' = Append(trusted, [id |-> id, allowed |-> TRUE])
      /\ outcome' = "none" /\ seenIDs' = seenIDs \cup {id}
      /\ Effect(id, o) /\ Seen(id)
  BY DEF TraceInv, Request, Seen, RunTool
<1>2. /\ \A i \in DOMAIN trusted : trusted[i].id \in seenIDs /\ trusted[i].id # id
      /\ \A k \in DOMAIN effects : effects[k] \in seenIDs /\ effects[k] # id
  BY <1>1 DEF TraceInv
<1>3. /\ effects' = Append(effects, id) /\ effects' \in Seq(Id)
      /\ \A k \in DOMAIN effects' : effects'[k] \in seenIDs'
      /\ \A i, j \in DOMAIN effects' : effects'[i] = effects'[j] => i = j
  BY <1>1, EffectIsNew
<1>4. Shows(trusted', effects')
  BY <1>1, <1>2, <1>3, RanShows
<1>5. trusted' \in Seq(Call) /\ \A i \in DOMAIN trusted' : trusted'[i].id \in seenIDs'
  <2>1. [id |-> id, allowed |-> TRUE] \in Call
    BY DEF Call
  <2>2. QED
    BY <1>1, <1>2, <2>1, AppendFacts
<1>6. TraceIsExact'
  BY <1>1, <1>3 DEF TraceIsExact
<1>7. QED
  BY <1>1, <1>3, <1>4, <1>5, <1>6 DEF TraceInv

\* The tool runs, and its result is lost with the run.
LEMMA LoseResultInv ==
    ASSUME TraceInv, NEW id \in Id, NEW call, NEW o, LoseResult(id, call, o)
    PROVE  TraceInv'
<1>1. /\ id \notin seenIDs /\ trusted' = trusted /\ outcome' = "error" /\ seenIDs' = seenIDs \cup {id}
      /\ Effect(id, o) /\ Seen(id)
  BY DEF Request, Seen, LoseResult
<1>2. /\ effects' \in Seq(Id)
      /\ \A k \in DOMAIN effects' : effects'[k] \in seenIDs'
      /\ \A i, j \in DOMAIN effects' : effects'[i] = effects'[j] => i = j
  BY <1>1, EffectIsNew
<1>3. TraceIsExact'
  BY <1>1, <1>2 DEF TraceIsExact
<1>4. QED
  BY <1>1, <1>2, <1>3 DEF TraceInv

\* runtime.go:71-74: a trace that Execute returns shows as allowed exactly the tools
\* that ran, in their order and each once, whatever the adapter asked for and repeated.
THEOREM TracesAreExact == RuntimeSpec => []TraceIsExact
<1>1. RuntimeInit => TraceInv
  BY DEF RuntimeInit, TraceInv, TraceIsExact, Shows
<1>2. TraceInv /\ [RuntimeNext]_runtimeVars => TraceInv'
  <2> SUFFICES ASSUME TraceInv, [RuntimeNext]_runtimeVars PROVE TraceInv'
    OBVIOUS
  <2>1. ASSUME NEW id \in Id, RefuseTool(id) PROVE TraceInv'
    BY <2>1, TracedInv DEF RefuseTool
  <2>2. ASSUME NEW id \in Id, NEW call \in CallOp, RefuseCall(id, call) PROVE TraceInv'
    BY <2>2, TracedInv DEF RefuseCall
  <2>3. ASSUME NEW id \in Id, NEW call \in CallOp, NEW o \in Op, NEW within \in BOOLEAN,
               RefuseOperation(id, call, o, within)
        PROVE  TraceInv'
    BY <2>3, TracedInv DEF RefuseOperation
  <2>4. ASSUME NEW id \in Id, NEW call \in CallOp, NEW o \in Op, RefuseProof(id, call, o)
        PROVE  TraceInv'
    BY <2>4, TracedInv DEF RefuseProof
  <2>5. ASSUME NEW id \in Id, NEW call \in CallOp, NEW o \in Op, RunTool(id, call, o)
        PROVE  TraceInv'
    BY <2>5, RunToolInv
  <2>6. ASSUME NEW id \in Id, NEW call \in CallOp, NEW o \in Op, LoseResult(id, call, o)
        PROVE  TraceInv'
    BY <2>6, LoseResultInv
  <2>7. CASE FailStep
    BY <2>7 DEF FailStep, TraceInv, TraceIsExact
  <2>8. CASE Final
    BY <2>8 DEF Final, TraceInv, TraceIsExact
  <2>9. CASE RuntimeExpires \/ UNCHANGED runtimeVars
    BY <2>9 DEF RuntimeExpires, TraceInv, TraceIsExact, runtimeVars
  <2>10. QED
    BY <2>1, <2>2, <2>3, <2>4, <2>5, <2>6, <2>7, <2>8, <2>9 DEF RuntimeNext, HostStep
<1>3. QED
  BY <1>1, <1>2, PTL DEF RuntimeSpec, TraceInv
================================================================================
