------------------------- MODULE AssuranceEngineProofs -------------------------
(***************************************************************************)
(* What the engine guarantees for any set of skills, facets, controls,     *)
(* intervals and snapshots.  EngineInv is inductive.  Behind the bound on  *)
(* staleness: a difference that lasts shows in every snapshot that was     *)
(* taken after it began and reports the item, so a reconciliation that     *)
(* finds nothing was made from a snapshot older than the difference.       *)
(***************************************************************************)
EXTENDS AssuranceEngine, TLAPS

-----------------------------------------------------------------------------
(* What a record becomes. *)

LEMMA InvalidatedFacts ==
    ASSUME NEW r \in Record, NEW state \in {"STALE", "INVALIDATED"}
    PROVE  LET q == Invalidated(r, state)
           IN  /\ q \in Record
               /\ q.subject = r.subject /\ q.id = r.id /\ q.expect = r.expect
               /\ q.sound = r.sound /\ q.complete = r.complete /\ q.last = r.last
               /\ q.state = state /\ q.allowed = {} /\ q.reverify
BY DEF Invalidated, Record, State

LEMMA RefreshedFacts ==
    ASSUME NEW r \in Record, NEW t \in Nat
    PROVE  LET q == [r EXCEPT !.last = t]
           IN  /\ q \in Record
               /\ q.subject = r.subject /\ q.id = r.id /\ q.expect = r.expect
               /\ q.sound = r.sound /\ q.complete = r.complete /\ q.last = t
               /\ q.state = r.state /\ q.allowed = r.allowed /\ q.reverify = r.reverify
BY DEF Record

\* Only subject, ID and expectation decide whether a record has drifted.
LEMMA DriftOfSame ==
    ASSUME NEW r, NEW q, q.subject = r.subject, q.id = r.id, q.expect = r.expect,
           NEW snap, NEW i
    PROVE  Differs(q, i, snap) <=> Differs(r, i, snap)
BY DEF Differs

\* q is what r has become by an event, a reconciliation or a query.
Becomes(r, q) ==
    /\ q \in Record
    /\ q.subject = r.subject /\ q.id = r.id /\ q.expect = r.expect
    /\ q.sound = r.sound /\ q.complete = r.complete
    /\ q.last \in {r.last, now}
    /\ \/ q.state = r.state /\ q.allowed = r.allowed /\ q.reverify = r.reverify
       \/ q.state # "VALID" /\ q.allowed = {} /\ q.reverify
    /\ q.state = "VALID" => \A i \in vouched'[r.subject] :
                              q.last <= differs[r.subject][i] + SnapshotDelay

\* A step that changes no more than records, each in one of these ways, and what
\* their heartbeats rest on.
Maintained ==
    /\ UNCHANGED <<now, world, content, cache, differs>>
    /\ vouched' \in [Content -> SUBSET Item]
    /\ snapshots' \subseteq snapshots
    /\ \A q \in records' : \E r \in records : Becomes(r, q)
    /\ \A r \in records : \E q \in records' : Becomes(r, q)
    /\ \A q1, q2 \in records' : q1.subject = q2.subject => q1 = q2

LEMMA MaintainedInv ==
    ASSUME EngineInv, Maintained
    PROVE  EngineInv'
<1>1. TypeOK'
  BY DEF EngineInv, TypeOK, Maintained, Becomes
<1>2. DecisionsFollowState'
  <2>1. SUFFICES ASSUME NEW q \in records'
                 PROVE  /\ q.allowed = IF q.state = "VALID" THEN Decision ELSE {}
                        /\ q.reverify <=> q.state # "VALID"
                        /\ q.state = "VALID" => q.sound
    BY DEF DecisionsFollowState
  <2>2. PICK r \in records : Becomes(r, q)
    BY DEF Maintained
  <2>3. QED
    BY <2>2 DEF EngineInv, DecisionsFollowState, Becomes
<1>3. WatchInv'
  <2>1. SUFFICES ASSUME NEW s \in Content, NEW i \in Item
                 PROVE  (\E r \in records : r.subject = s
                            /\ Differs(r, i, Everything(world, content)))
                        <=> (\E q \in records' : q.subject = s
                            /\ Differs(q, i, Everything(world, content)))
    BY DEF EngineInv, WatchInv, Maintained, Everything, RecordsOf
  <2>2. QED
    BY DriftOfSame DEF Maintained, Becomes
<1>4. HeartbeatInv'
  <2>1. \A snap \in snapshots' : snap.taken <= now'
    BY DEF EngineInv, HeartbeatInv, Maintained
  <2>2. ASSUME NEW snap \in snapshots', NEW q \in records', NEW i \in Item,
               differs'[q.subject][i] < snap.taken, Reports(snap, q.id, i)
        PROVE  Differs(q, i, snap)
    <3>1. PICK r \in records : Becomes(r, q)
      BY DEF Maintained
    <3>2. Differs(r, i, snap)
      BY <2>2, <3>1 DEF EngineInv, HeartbeatInv, Maintained, Becomes
    <3>3. QED
      BY <3>1, <3>2, DriftOfSame DEF Becomes
  <2>3. ASSUME NEW q \in records'
        PROVE  /\ q.last <= now'
               /\ q.state = "VALID" => \A i \in vouched'[q.subject] :
                                        q.last <= differs'[q.subject][i] + SnapshotDelay
    <3>1. PICK r \in records : Becomes(r, q)
      BY DEF Maintained
    <3>2. now \in Nat /\ r.last <= now
      BY DEF EngineInv, HeartbeatInv, TypeOK
    <3>3. QED
      BY <3>1, <3>2 DEF Maintained, Becomes
  <2>4. QED
    BY <2>1, <2>2, <2>3 DEF HeartbeatInv
<1>5. CacheInv'
  <2>1. SUFFICES ASSUME NEW q \in records', NEW p \in cache,
                        q.sound /\ p.subject = q.subject /\ p.id = q.id
                            /\ p.control \in q.complete
                 PROVE  p.expect = q.expect
    BY DEF CacheInv, Maintained
  <2>2. PICK r \in records : Becomes(r, q)
    BY DEF Maintained
  <2>3. QED
    BY <2>1, <2>2 DEF EngineInv, CacheInv, Becomes
<1>6. QED
  BY <1>1, <1>2, <1>3, <1>4, <1>5 DEF EngineInv

-----------------------------------------------------------------------------
(* Events, reconciliations and queries maintain the records. *)

\* Whatever the state of a record was, it is invalidated as a whole.
LEMMA InvalidatedBecomes ==
    ASSUME EngineInv, NEW r \in records, NEW state \in {"STALE", "INVALIDATED"}
    PROVE  Becomes(r, Invalidated(r, state))
BY InvalidatedFacts DEF EngineInv, TypeOK, Becomes

LEMMA UnchangedBecomes ==
    ASSUME EngineInv, NEW r \in records, vouched' = vouched
    PROVE  Becomes(r, r)
BY DEF EngineInv, TypeOK, HeartbeatInv, Becomes

\* A record that a recent snapshot agrees with gets its heartbeat: had it differed
\* on a reported item before the snapshot was taken, the snapshot would not agree.
LEMMA RefreshedBecomes ==
    ASSUME EngineInv, NEW r \in records, NEW snap \in snapshots,
           now <= snap.taken + SnapshotDelay, vouched' = VouchedBy(snap),
           ~DriftedFrom(r, snap)
    PROVE  Becomes(r, [r EXCEPT !.last = now])
<1>1. now \in Nat /\ snap.taken \in Nat /\ SnapshotDelay \in Nat
  BY EngineAssumption DEF EngineInv, TypeOK, Snapshot
<1>2. r \in Record /\ r.subject \in Content /\ differs \in [Content -> [Item -> Nat]]
  BY DEF EngineInv, TypeOK, Record
<1>3. ASSUME NEW i \in vouched'[r.subject]
      PROVE  now <= differs[r.subject][i] + SnapshotDelay
  <2>1. i \in Item /\ Reports(snap, r.id, i)
    BY <1>2 DEF VouchedBy, RecordsOf
  <2>2. ~Differs(r, i, snap)
    BY <2>1 DEF DriftedFrom
  <2>3. ~(differs[r.subject][i] < snap.taken)
    BY <2>1, <2>2 DEF EngineInv, HeartbeatInv
  <2>4. differs[r.subject][i] \in Nat
    BY <1>2, <2>1
  <2>5. QED
    BY <1>1, <2>3, <2>4
<1>4. QED
  BY <1>1, <1>2, <1>3, RefreshedFacts DEF Becomes

LEMMA IngestMaintains ==
    ASSUME EngineInv, NEW ev, IngestDriftEvent(ev)
    PROVE  Maintained
<1>1. \A r \in records : /\ Becomes(r, Invalidated(r, "INVALIDATED"))
                         /\ Becomes(r, r)
  BY InvalidatedBecomes, UnchangedBecomes DEF IngestDriftEvent, historyVars
<1>2. /\ \A r, q \in records : r.subject = q.subject => r = q
      /\ vouched \in [Content -> SUBSET Item]
  BY DEF EngineInv, TypeOK
<1>3. QED
  BY <1>1, <1>2 DEF IngestDriftEvent, Maintained, Becomes, historyVars

LEMMA ReconcileMaintains ==
    ASSUME EngineInv, NEW snap, Reconcile(snap)
    PROVE  Maintained
<1>1. \A r \in records :
          IF DriftedFrom(r, snap)
          THEN Becomes(r, Invalidated(r, "INVALIDATED"))
          ELSE Becomes(r, [r EXCEPT !.last = now])
  BY InvalidatedBecomes, RefreshedBecomes DEF Reconcile
<1>2. /\ \A r, q \in records : r.subject = q.subject => r = q
      /\ VouchedBy(snap) \in [Content -> SUBSET Item]
  BY DEF EngineInv, TypeOK, VouchedBy
<1> DEFINE New(r) == IF DriftedFrom(r, snap)
                     THEN Invalidated(r, "INVALIDATED") ELSE [r EXCEPT !.last = now]
<1>3. records' = {New(r) : r \in records}
  BY DEF Reconcile
<1>4. \A r \in records : Becomes(r, New(r)) /\ New(r).subject = r.subject
  BY <1>1 DEF Becomes
<1> HIDE DEF New
<1>5. QED
  BY <1>2, <1>3, <1>4 DEF Reconcile, Maintained

LEMMA QueryMaintains ==
    ASSUME EngineInv, NEW s, IsAssuranceValid(s)
    PROVE  Maintained
<1>1. \A r \in records : /\ Becomes(r, Invalidated(r, "STALE"))
                         /\ Becomes(r, r)
  BY InvalidatedBecomes, UnchangedBecomes DEF IsAssuranceValid, historyVars
<1>2. /\ \A r, q \in records : r.subject = q.subject => r = q
      /\ vouched \in [Content -> SUBSET Item]
  BY DEF EngineInv, TypeOK
<1>3. QED
  BY <1>1, <1>2 DEF IsAssuranceValid, Maintained, Becomes, historyVars

LEMMA DropMaintains ==
    ASSUME EngineInv, NEW snap, DropSnapshot(snap)
    PROVE  Maintained
<1>1. /\ \A r, q \in records : r.subject = q.subject => r = q
      /\ vouched \in [Content -> SUBSET Item]
  BY DEF EngineInv, TypeOK
<1>2. QED
  BY <1>1, UnchangedBecomes DEF DropSnapshot, Maintained, historyVars

-----------------------------------------------------------------------------
(* The world: the records stay, what they are compared with moves. *)

\* A snapshot shows every difference on an item that it reports.
LEMMA SnapshotShows ==
    ASSUME EngineInv, NEW r \in records, NEW domain \in SnapshotDomain, NEW i \in Item,
           NEW snap,
           snap = [taken |-> now, content |-> [id \in domain.named |-> content[id]],
                   listed |-> domain.listed,
                   facets |-> [f \in Facet |-> IF f \in domain.facets THEN world[f]
                                              ELSE Absent]],
           Reports(snap, r.id, i),
           Differs(r, i, Everything(world, content))
    PROVE  Differs(r, i, snap)
<1>1. CASE i = "content"
  <2>1. i \notin Facet
    BY <1>1, EngineAssumption DEF StrictFacet, LenientFacet, OptionalFacet, OtherFacet
  <2>2. r.id \in domain.named
    BY <1>1, <2>1 DEF Reports, StrictFacet
  <2>3. content[r.id] # r.subject
    BY <1>1 DEF Differs, Everything, StrictFacet, LenientFacet, OptionalFacet
  <2>4. r.id \in DOMAIN snap.content /\ snap.content[r.id] = content[r.id]
    BY <2>2
  <2>5. QED
    BY <1>1, <2>3, <2>4 DEF Differs
<1>2. CASE i # "content"
  <2>1. i \in Facet
    BY <1>2 DEF Item
  <2>2. snap.facets[i] \in {world[i], Absent}
    BY <2>1
  <2>3. CASE i = "dependency"
    BY <2>2, <2>3 DEF Differs, Reports, Everything, StrictFacet, LenientFacet, OptionalFacet
  <2>4. CASE i \in StrictFacet
    BY <2>2, <2>4 DEF Differs, Everything, StrictFacet, LenientFacet, OptionalFacet
  <2>5. CASE i # "dependency" /\ i \notin StrictFacet
    <3>1. snap.facets[i] = world[i]
      BY <1>2, <2>1, <2>2, <2>5 DEF Reports
    <3>2. QED
      BY <1>2, <2>1, <2>5, <3>1 DEF Differs, Everything
  <2>6. QED
    BY <2>3, <2>4, <2>5
<1>3. QED
  BY <1>1, <1>2

\* The watch over a changed world: old differences are remembered, new ones start
\* now, and now is not before any snapshot or reconciliation.
LEMMA WatchKeeps ==
    ASSUME EngineInv, NEW facets, NEW contents,
           differs' = Watch(facets, contents),
           facets = world', contents = content',
           UNCHANGED <<now, snapshots, records, cache, vouched>>
    PROVE  WatchInv' /\ HeartbeatInv' /\ differs' \in [Content -> [Item -> Nat]]
<1>1. /\ now \in Nat /\ MaxTime \in Nat /\ now <= MaxTime
      /\ SnapshotDelay \in Nat
      /\ differs \in [Content -> [Item -> Nat]]
      /\ vouched \in [Content -> SUBSET Item]
      /\ \A r \in records : r \in Record /\ r.subject \in Content /\ r.last \in Nat
      /\ \A snap \in snapshots : snap.taken \in Nat /\ snap.taken <= now
  BY EngineAssumption DEF EngineInv, TypeOK, HeartbeatInv, Snapshot, Record
<1> DEFINE Shows(s, i) == \E r \in RecordsOf(s) : Differs(r, i, Everything(facets, contents))
<1>2. ASSUME NEW s \in Content, NEW i \in Item
      PROVE  /\ differs'[s][i] \in {differs[s][i], now, Never}
             /\ differs'[s][i] = Never <=> ~Shows(s, i)
             /\ differs'[s][i] = differs[s][i] \/ now <= differs'[s][i]
             /\ differs'[s][i] # Never => differs'[s][i] <= now
             /\ differs'[s][i] \in Nat
  <2>1. differs'[s][i] = IF Shows(s, i)
                         THEN IF differs[s][i] = Never THEN now ELSE differs[s][i]
                         ELSE Never
    BY DEF Watch
  <2>2. differs[s][i] \in Nat /\ (differs[s][i] # Never => differs[s][i] <= now)
    BY <1>1 DEF EngineInv, WatchInv
  <2> HIDE DEF Shows
  <2>3. QED
    BY <1>1, <2>1, <2>2 DEF Never
<1>3. WatchInv'
  BY <1>2 DEF WatchInv, Everything, RecordsOf
<1> HIDE DEF Shows
<1>4. ASSUME NEW snap \in snapshots, NEW r \in records, NEW i \in Item,
             differs'[r.subject][i] < snap.taken, Reports(snap, r.id, i)
      PROVE  Differs(r, i, snap)
  <2>1. r.subject \in Content /\ differs'[r.subject][i] = differs[r.subject][i]
    BY <1>1, <1>2, <1>4
  <2>2. QED
    BY <1>4, <2>1 DEF EngineInv, HeartbeatInv
<1>5. ASSUME NEW r \in records
      PROVE  /\ r.last <= now
             /\ r.state = "VALID" => \A i \in vouched[r.subject] :
                                      r.last <= differs'[r.subject][i] + SnapshotDelay
  <2>1. r.last <= now
    BY DEF EngineInv, HeartbeatInv
  <2>2. ASSUME r.state = "VALID", NEW i \in vouched[r.subject]
        PROVE  r.last <= differs'[r.subject][i] + SnapshotDelay
    <3>1. /\ i \in Item /\ r.subject \in Content
          /\ r.last <= differs[r.subject][i] + SnapshotDelay
      BY <1>1, <2>2 DEF EngineInv, HeartbeatInv
    <3>2. /\ differs'[r.subject][i] \in Nat
          /\ differs'[r.subject][i] = differs[r.subject][i] \/ now <= differs'[r.subject][i]
      BY <1>2, <3>1
    <3>3. QED
      BY <1>1, <2>1, <3>1, <3>2
  <2>3. QED
    BY <2>1, <2>2
<1>6. differs' \in [Content -> [Item -> Nat]]
  BY <1>2 DEF Watch
<1>7. QED
  BY <1>1, <1>3, <1>4, <1>5, <1>6 DEF HeartbeatInv

-----------------------------------------------------------------------------
(* Registration. *)

\* The record a registration stores.
Registered(s, id, expect, complete, sound) ==
    [subject |-> s, id |-> id,
     state |-> IF sound THEN "VALID" ELSE "UNKNOWN",
     expect |-> expect, sound |-> sound, complete |-> complete,
     allowed |-> IF sound THEN Decision ELSE {},
     reverify |-> ~sound,
     expires |-> now + Lifetime, last |-> now]

LEMMA RegisterKeeps ==
    ASSUME EngineInv,
           NEW s \in Content, NEW id \in Skill, NEW expect \in Expectation,
           NEW complete \in SUBSET Control, NEW sound \in BOOLEAN,
           RegisterAssurance(s, id, expect, complete, sound)
    PROVE  EngineInv'
<1> DEFINE rec == Registered(s, id, expect, complete, sound)
<1>1. /\ now \in Nat /\ MaxTime \in Nat /\ Lifetime \in Nat /\ SnapshotDelay \in Nat
      /\ now <= MaxTime
      /\ \A snap \in snapshots : snap.taken \in Nat /\ snap.taken <= now
      /\ \A r \in records : r \in Record
      /\ differs \in [Content -> [Item -> Nat]]
      /\ vouched \in [Content -> SUBSET Item]
  BY EngineAssumption DEF EngineInv, TypeOK, HeartbeatInv, Snapshot
<1> DEFINE since == [i \in Item |->
                       IF Differs(rec, i, Everything(world, content)) THEN now ELSE Never]
<1>2. /\ rec \in Record
      /\ rec.subject = s /\ rec.id = id /\ rec.expect = expect
      /\ rec.sound = sound /\ rec.complete = complete /\ rec.last = now
      /\ rec.state = IF sound THEN "VALID" ELSE "UNKNOWN"
      /\ rec.allowed = IF sound THEN Decision ELSE {}
      /\ rec.reverify = ~sound
  BY <1>1 DEF Registered, Record, State
<1>3. /\ records' = {r \in records : r.subject # s} \cup {rec}
      /\ cache' = IF sound THEN CacheComplete(rec) ELSE cache
      /\ differs' = [differs EXCEPT ![s] = since]
      /\ vouched' = [vouched EXCEPT ![s] = Item]
      /\ UNCHANGED envVars
  BY DEF RegisterAssurance, Registered, Store, RecordsOf
<1>0. /\ since \in [Item -> Nat]
      /\ \A i \in Item : /\ since[i] \in {now, Never}
                         /\ since[i] # Never <=> Differs(rec, i, Everything(world, content))
                         /\ since[i] >= now
  BY <1>1 DEF Never
<1> HIDE DEF rec, since
<1>4. TypeOK'
  <2>1. cache' \subseteq CachedProof
    BY <1>2, <1>3 DEF CacheComplete, CachedProof, EngineInv, TypeOK
  <2>2. differs' \in [Content -> [Item -> Nat]] /\ vouched' \in [Content -> SUBSET Item]
    BY <1>0, <1>1, <1>3
  <2>3. \A r, q \in records' : r.subject = q.subject => r = q
    BY <1>2, <1>3 DEF EngineInv, TypeOK
  <2>4. QED
    BY <1>2, <1>3, <2>1, <2>2, <2>3 DEF EngineInv, TypeOK, envVars
<1>5. DecisionsFollowState'
  BY <1>2, <1>3 DEF DecisionsFollowState, EngineInv
<1>6. WatchInv'
  <2>1. SUFFICES ASSUME NEW t \in Content, NEW i \in Item
                 PROVE  /\ differs'[t][i] # Never => differs'[t][i] <= now
                        /\ differs'[t][i] # Never <=> \E r \in records' : r.subject = t
                              /\ Differs(r, i, Everything(world, content))
    BY <1>3 DEF WatchInv, envVars, Everything, RecordsOf
  <2>2. CASE t = s
    <3>1. differs'[t][i] = since[i]
      BY <1>1, <1>3, <2>2
    <3>2. \A r \in records' : r.subject = t <=> r = rec
      BY <1>2, <1>3, <2>2
    <3>3. rec \in records'
      BY <1>3
    <3>4. QED
      BY <1>0, <1>1, <3>1, <3>2, <3>3
  <2>3. CASE t # s
    <3>1. differs'[t] = differs[t]
      BY <1>1, <1>3, <2>3
    <3>2. \A r : r.subject = t => (r \in records' <=> r \in records)
      BY <1>2, <1>3, <2>3
    <3>3. QED
      BY <3>1, <3>2 DEF EngineInv, WatchInv, RecordsOf
  <2>4. QED
    BY <2>2, <2>3
<1>7. HeartbeatInv'
  <2>1. \A snap \in snapshots' : snap.taken <= now'
    BY <1>1, <1>3 DEF envVars
  <2>2. ASSUME NEW snap \in snapshots', NEW r \in records', NEW i \in Item,
               differs'[r.subject][i] < snap.taken, Reports(snap, r.id, i)
        PROVE  Differs(r, i, snap)
    <3>1. r # rec
      <4>1. differs'[s][i] = since[i]
        BY <1>1, <1>3
      <4>2. since[i] \in Nat /\ since[i] >= now /\ snap.taken \in Nat /\ snap.taken <= now
        BY <1>0, <1>1, <1>3 DEF envVars
      <4>3. QED
        BY <1>1, <1>2, <2>2, <4>1, <4>2
    <3>2. r \in records /\ differs'[r.subject] = differs[r.subject]
      BY <1>1, <1>3, <3>1
    <3>3. QED
      BY <1>3, <2>2, <3>2 DEF EngineInv, HeartbeatInv, envVars
  <2>3. ASSUME NEW r \in records'
        PROVE  /\ r.last <= now'
               /\ r.state = "VALID" => \A i \in vouched'[r.subject] :
                                        r.last <= differs'[r.subject][i] + SnapshotDelay
    <3>1. CASE r = rec
      <4>1. differs'[r.subject] = since /\ vouched'[r.subject] = Item
        BY <1>1, <1>2, <1>3, <3>1
      <4>2. r.last = now /\ now' = now
        BY <1>2, <1>3, <3>1 DEF envVars
      <4>3. QED
        BY <1>0, <1>1, <4>1, <4>2
    <3>2. CASE r # rec
      <4>1. /\ r \in records
            /\ differs'[r.subject] = differs[r.subject]
            /\ vouched'[r.subject] = vouched[r.subject]
        BY <1>1, <1>3, <3>2
      <4>2. QED
        BY <1>3, <4>1 DEF EngineInv, HeartbeatInv, envVars
    <3>3. QED
      BY <3>1, <3>2
  <2>4. QED
    BY <2>1, <2>2, <2>3 DEF HeartbeatInv
<1>8. CacheInv'
  <2>1. SUFFICES ASSUME NEW r \in records', NEW p \in cache',
                        r.sound /\ p.subject = r.subject /\ p.id = r.id
                            /\ p.control \in r.complete
                 PROVE  p.expect = r.expect
    BY DEF CacheInv
  <2>2. CASE r = rec
    BY <1>2, <1>3, <2>1, <2>2 DEF CacheComplete
  <2>3. CASE r # rec
    <3>1. r \in records /\ r.subject # s
      BY <1>3, <2>3
    <3>2. p \in cache
      BY <1>2, <1>3, <2>1, <3>1 DEF CacheComplete
    <3>3. QED
      BY <2>1, <3>1, <3>2 DEF EngineInv, CacheInv
  <2>4. QED
    BY <2>2, <2>3
<1>9. QED
  BY <1>4, <1>5, <1>6, <1>7, <1>8 DEF EngineInv

-----------------------------------------------------------------------------
(* The theorems. *)

LEMMA InitInv == Init => EngineInv
<1>1. SUFFICES ASSUME Init PROVE EngineInv
  OBVIOUS
<1>2. 0 \in 0 .. MaxTime /\ Never \in Nat
  BY EngineAssumption DEF Never
<1>3. TypeOK
  BY <1>1, <1>2 DEF Init, TypeOK
<1>4. WatchInv
  BY <1>1 DEF Init, WatchInv, RecordsOf
<1>5. QED
  BY <1>1, <1>3, <1>4 DEF Init, EngineInv, DecisionsFollowState, HeartbeatInv, CacheInv

LEMMA StepInv == EngineInv /\ [Next]_engineVars => EngineInv'
<1>1. SUFFICES ASSUME EngineInv, [Next]_engineVars PROVE EngineInv'
  OBVIOUS
<1> USE DEF EngineInv
<1>2. CASE Tick
  <2>1. /\ now \in Nat /\ MaxTime \in Nat /\ now' = now + 1 /\ now' <= MaxTime
        /\ UNCHANGED <<world, content, snapshots, records, cache, differs, vouched>>
        /\ \A snap \in snapshots : snap.taken \in Nat
        /\ \A r \in records : r.last \in Nat
        /\ \A s \in Content, i \in Item : differs[s][i] \in Nat
    BY <1>1, <1>2, EngineAssumption DEF Tick, TypeOK, Snapshot, Record, historyVars
  <2>2. TypeOK'
    BY <1>1, <2>1 DEF TypeOK
  <2>3. WatchInv'
    BY <1>1, <2>1 DEF WatchInv, Everything, RecordsOf
  <2>4. HeartbeatInv'
    BY <1>1, <2>1 DEF HeartbeatInv
  <2>5. QED
    BY <1>1, <2>1, <2>2, <2>3, <2>4 DEF DecisionsFollowState, CacheInv
<1>3. CASE \E f \in Facet, d \in Digest : Drift(f, d)
  <2>1. PICK f \in Facet, d \in Digest : Drift(f, d)
    BY <1>3
  <2>2. WatchInv' /\ HeartbeatInv' /\ differs' \in [Content -> [Item -> Nat]]
    BY <1>1, <2>1, WatchKeeps DEF Drift
  <2>3. TypeOK'
    BY <1>1, <2>1, <2>2 DEF Drift, TypeOK
  <2>4. QED
    BY <1>1, <2>1, <2>2, <2>3 DEF Drift, DecisionsFollowState, CacheInv
<1>4. CASE \E id \in Skill, s \in Content : Edit(id, s)
  <2>1. PICK id \in Skill, s \in Content : Edit(id, s)
    BY <1>4
  <2>2. WatchInv' /\ HeartbeatInv' /\ differs' \in [Content -> [Item -> Nat]]
    BY <1>1, <2>1, WatchKeeps DEF Edit
  <2>3. TypeOK'
    BY <1>1, <2>1, <2>2 DEF Edit, TypeOK
  <2>4. QED
    BY <1>1, <2>1, <2>2, <2>3 DEF Edit, DecisionsFollowState, CacheInv
<1>5. CASE \E domain \in SnapshotDomain : TakeSnapshot(domain)
  <2>1. PICK domain \in SnapshotDomain : TakeSnapshot(domain)
    BY <1>5
  <2> DEFINE told == [id \in domain.named |-> content[id]]
             shown == [f \in Facet |-> IF f \in domain.facets THEN world[f] ELSE Absent]
             snap == [taken |-> now, content |-> told, listed |-> domain.listed,
                      facets |-> shown]
  <2>2. /\ snapshots' = {snap}
        /\ UNCHANGED <<now, world, content, records, cache, differs, vouched>>
        /\ now \in Nat
    BY <1>1, <2>1 DEF TakeSnapshot, TypeOK, historyVars
  <2>3. TypeOK'
    <3>1. domain.named \in SUBSET Skill /\ domain.listed \in SUBSET Skill
      BY EngineAssumption
    <3>2. told \in [domain.named -> Content] /\ shown \in [Facet -> Reading]
      BY <1>1, <3>1 DEF TypeOK, Reading
    <3>3. snap \in Snapshot
      <4>1. told \in UNION {[ids -> Content] : ids \in SUBSET Skill}
        BY <3>1, <3>2
      <4> HIDE DEF told, shown
      <4>2. QED
        BY <2>2, <3>1, <3>2, <4>1 DEF Snapshot
    <3>4. QED
      BY <1>1, <2>2, <3>3 DEF TypeOK
  <2>4. ASSUME NEW r \in records, NEW i \in Item, differs[r.subject][i] < now,
               Reports(snap, r.id, i)
        PROVE  Differs(r, i, snap)
    <3>1. r.subject \in Content /\ now <= MaxTime /\ MaxTime \in Nat
      BY <1>1, EngineAssumption DEF TypeOK, Record
    <3>2. differs[r.subject][i] # Never
      BY <1>1, <2>2, <2>4, <3>1 DEF Never
    <3>3. PICK q \in records : q.subject = r.subject
                               /\ Differs(q, i, Everything(world, content))
      BY <1>1, <3>1, <3>2 DEF WatchInv, RecordsOf
    <3>4. q = r
      BY <1>1, <3>3 DEF TypeOK
    <3>5. QED
      BY <1>1, <2>4, <3>3, <3>4, SnapshotShows
  <2>5. HeartbeatInv'
    <3>1. snap.taken = now
      OBVIOUS
    <3> HIDE DEF snap
    <3>2. QED
      BY <1>1, <2>2, <2>4, <3>1 DEF HeartbeatInv
  <2>6. QED
    BY <1>1, <2>2, <2>3, <2>5 DEF DecisionsFollowState, WatchInv, CacheInv, Everything,
                                  RecordsOf
<1>6. CASE \E s \in Content, id \in Skill, expect \in Expectation, complete \in SUBSET Control,
              sound \in BOOLEAN :
                 RegisterAssurance(s, id, expect, complete, sound)
  BY <1>1, <1>6, RegisterKeeps
<1>7. CASE \E ev \in Event : IngestDriftEvent(ev)
  BY <1>1, <1>7, IngestMaintains, MaintainedInv
<1>8. CASE \E snap \in snapshots : Reconcile(snap) \/ DropSnapshot(snap)
  BY <1>1, <1>8, ReconcileMaintains, DropMaintains, MaintainedInv
<1>9. CASE \E s \in Content : IsAssuranceValid(s)
  BY <1>1, <1>9, QueryMaintains, MaintainedInv
<1>10. CASE UNCHANGED engineVars
  BY <1>1, <1>10 DEF engineVars, historyVars, TypeOK, DecisionsFollowState, WatchInv,
                     HeartbeatInv, CacheInv, Everything, RecordsOf
<1>11. QED
  BY <1>1, <1>2, <1>3, <1>4, <1>5, <1>6, <1>7, <1>8, <1>9, <1>10 DEF Next

\* The inductive invariant of the engine, its types included.
THEOREM EngineInvariant == Spec => []EngineInv
<1>1. Init => EngineInv
  BY InitInv
<1>2. EngineInv /\ [Next]_engineVars => EngineInv'
  BY StepInv
<1>3. QED
  BY <1>1, <1>2, PTL DEF Spec

\* A record that is not VALID allows no decision and asks for re-verification,
\* whichever of the methods left it so (IngestDriftEvent, engine.go:420).
THEOREM DecisionsAreRevoked == Spec => []DecisionsFollowState
<1>1. EngineInv => DecisionsFollowState
  BY DEF EngineInv
<1>2. QED
  BY <1>1, EngineInvariant, PTL

\* A difference on an item that the last heartbeat's snapshot reported is granted
\* for at most the heartbeat interval and the age of a snapshot, although every
\* drift event may be lost.
THEOREM BoundedStaleness == Spec => []StalenessIsBounded
<1>1. EngineInv => StalenessIsBounded
  <2>1. SUFFICES ASSUME EngineInv, NEW s \in Content, NEW d \in Decision,
                        NEW i \in vouched[s], Interval > 0, Grants(s, d)
                 PROVE  now <= differs[s][i] + Interval + SnapshotDelay
    BY DEF StalenessIsBounded
  <2>2. PICK r \in RecordsOf(s) : ~HeartbeatMissed(r) /\ r.state = "VALID"
    BY <2>1 DEF Grants
  <2>3. r \in records /\ r.subject = s /\ r \in Record /\ i \in Item
    BY <2>1, <2>2 DEF RecordsOf, EngineInv, TypeOK
  <2>4. /\ now \in Nat /\ Interval \in Nat /\ SnapshotDelay \in Nat
        /\ r.last \in Nat /\ differs[s][i] \in Nat
    BY <2>1, <2>3, EngineAssumption DEF EngineInv, TypeOK, Record
  <2>5. now <= r.last + Interval
    BY <2>1, <2>2, <2>4 DEF HeartbeatMissed
  <2>6. r.last <= differs[s][i] + SnapshotDelay
    BY <2>1, <2>2, <2>3 DEF EngineInv, HeartbeatInv
  <2>7. QED
    BY <2>4, <2>5, <2>6
<1>2. QED
  BY <1>1, EngineInvariant, PTL

\* A plan reuses no proof made under another dependency digest than the observed
\* one, for the controls the last registration of the content completed.
THEOREM SoundReuse == Spec => []ReusedProofIsCurrent
<1>1. EngineInv => ReusedProofIsCurrent
  <2>1. SUFFICES ASSUME EngineInv, NEW r \in records, NEW cand \in Candidate,
                        NEW observed \in Digest, NEW p \in ReusedProofs(r, cand, observed),
                        r.sound, p.control \in r.complete, "dependency" \in Facet,
                        p.control \in (IF Scope = {} THEN Control ELSE Scope)
                 PROVE  p.expect["dependency"] \in {Absent, observed}
    BY DEF ReusedProofIsCurrent
  <2>2. /\ p \in cache
        /\ p.subject = r.subject /\ p.id = r.id
        /\ p.control \notin DriftedControls(r, observed)
    BY <2>1 DEF ReusedProofs, Incompatible, Compatible
  <2>3. r.expect["dependency"] \in {Absent, observed}
    BY <2>1, <2>2 DEF DriftedControls
  <2>4. p.expect = r.expect
    BY <2>1, <2>2 DEF EngineInv, CacheInv
  <2>5. QED
    BY <2>3, <2>4
<1>2. QED
  BY <1>1, EngineInvariant, PTL

-----------------------------------------------------------------------------
(* The engine implements the oracle the gateway is told to trust. *)

LEMMA StandingFacts ==
    ASSUME NEW s \in Content
    PROVE  standingOf[s] = IF RecordsOf(s) = {} THEN "none"
                           ELSE IF \E r \in RecordsOf(s) : r.state = "VALID"
                           THEN "good" ELSE "withdrawn"
BY DEF standingOf

\* Maintained records lose their standing or keep it.
LEMMA MaintainedWithdraws ==
    ASSUME EngineInv, Maintained
    PROVE  Oracle!Next
<1> DEFINE affected == {s \in Content : standingOf[s] # "none" /\ standingOf'[s] = "withdrawn"}
<1>1. ASSUME NEW s \in Content
      PROVE  /\ standingOf[s] = "none" <=> standingOf'[s] = "none"
             /\ standingOf'[s] = "good" => standingOf[s] = "good"
             /\ standingOf'[s] \in {"none", "good", "withdrawn"}
  <2>1. /\ standingOf[s] = IF \A r \in records : r.subject # s THEN "none"
                           ELSE IF \E r \in records : r.subject = s /\ r.state = "VALID"
                           THEN "good" ELSE "withdrawn"
        /\ standingOf'[s] = IF \A r \in records' : r.subject # s THEN "none"
                           ELSE IF \E r \in records' : r.subject = s /\ r.state = "VALID"
                           THEN "good" ELSE "withdrawn"
    BY DEF standingOf, RecordsOf
  <2>2. /\ (\A r \in records : r.subject # s) <=> (\A r \in records' : r.subject # s)
        /\ (\E r \in records' : r.subject = s /\ r.state = "VALID")
              => \E r \in records : r.subject = s /\ r.state = "VALID"
    BY DEF Maintained, Becomes
  <2>3. QED
    BY <2>1, <2>2
<1>2. standingOf' = [s \in Content |-> IF s \in affected THEN "withdrawn" ELSE standingOf[s]]
  <2>1. standingOf' = [s \in Content |-> standingOf'[s]]
    BY DEF standingOf
  <2>2. \A s \in Content :
            standingOf'[s] = IF s \in affected THEN "withdrawn" ELSE standingOf[s]
    BY <1>1, StandingFacts
  <2>3. QED
    BY <2>1, <2>2
<1>3. Oracle!Withdraw(affected)
  BY <1>2 DEF Oracle!Withdraw
<1>4. QED
  BY <1>3 DEF Oracle!Next

LEMMA RegisterGrants ==
    ASSUME EngineInv,
           NEW s \in Content, NEW id \in Skill, NEW expect \in Expectation,
           NEW complete \in SUBSET Control, NEW sound \in BOOLEAN,
           RegisterAssurance(s, id, expect, complete, sound)
    PROVE  Oracle!Next
<1> DEFINE rec == Registered(s, id, expect, complete, sound)
<1>1. /\ records' = {r \in records : r.subject # s} \cup {rec}
      /\ rec.subject = s
      /\ rec.state = IF sound THEN "VALID" ELSE "UNKNOWN"
  BY DEF RegisterAssurance, Registered, Store, RecordsOf
<1> HIDE DEF rec
<1>2. standingOf'[s] = IF sound THEN "good" ELSE "withdrawn"
  <2>1. RecordsOf(s)' = {rec}
    BY <1>1 DEF RecordsOf
  <2>2. QED
    BY <1>1, <2>1 DEF standingOf
<1>3. ASSUME NEW t \in Content, t # s PROVE standingOf'[t] = standingOf[t]
  <2>1. RecordsOf(t)' = RecordsOf(t)
    BY <1>1, <1>3 DEF RecordsOf
  <2>2. QED
    BY <2>1 DEF standingOf
<1>4. standingOf' = [standingOf EXCEPT ![s] = IF sound THEN "good" ELSE "withdrawn"]
  BY <1>2, <1>3 DEF standingOf
<1>5. QED
  BY <1>4 DEF Oracle!Next, Oracle!Register

\* Events, snapshots and queries only ever withdraw standing, in whatever order
\* they come: nothing but a registration makes a subject's record VALID.
THEOREM EngineImplementsOracle == Spec => ImplementsStanding
<1>1. Init => Oracle!Init
  BY DEF Init, Oracle!Init, standingOf, RecordsOf
<1>2. EngineInv /\ [Next]_engineVars => [Oracle!Next]_standingOf
  <2>1. SUFFICES ASSUME EngineInv, [Next]_engineVars PROVE [Oracle!Next]_standingOf
    OBVIOUS
  <2>2. CASE records' = records
    BY <2>2 DEF standingOf, RecordsOf
  <2>3. CASE \E s \in Content, id \in Skill, expect \in Expectation,
                complete \in SUBSET Control, sound \in BOOLEAN :
                   RegisterAssurance(s, id, expect, complete, sound)
    BY <2>1, <2>3, RegisterGrants
  <2>4. CASE Maintained
    BY <2>1, <2>4, MaintainedWithdraws
  <2>5. CASE \/ Tick
             \/ \E f \in Facet, d \in Digest : Drift(f, d)
             \/ \E id \in Skill, s \in Content : Edit(id, s)
             \/ \E domain \in SnapshotDomain : TakeSnapshot(domain)
             \/ UNCHANGED engineVars
    BY <2>2, <2>5 DEF Tick, Drift, Edit, TakeSnapshot, engineVars
  <2>6. CASE \/ \E ev \in Event : IngestDriftEvent(ev)
             \/ \E snap \in snapshots : Reconcile(snap) \/ DropSnapshot(snap)
             \/ \E s \in Content : IsAssuranceValid(s)
    BY <2>1, <2>4, <2>6, IngestMaintains, ReconcileMaintains, DropMaintains, QueryMaintains
  <2>7. QED
    BY <2>1, <2>3, <2>5, <2>6 DEF Next
<1>3. QED
  BY <1>1, <1>2, EngineInvariant, PTL DEF Spec, ImplementsStanding, Oracle!Spec
===============================================================================
