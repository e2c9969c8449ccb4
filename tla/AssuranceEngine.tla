---------------------------- MODULE AssuranceEngine ----------------------------
(***************************************************************************)
(* Engine of internal/continuous/engine.go: the records of continuous      *)
(* assurance, invalidated by drift events and by reconciliation against    *)
(* snapshots, asked by the execution gateway, and planned from for the     *)
(* next assessment.  Every method runs under Engine.mu and is one step     *)
(* here; what interleaves is the world, the clock, events that are lost,   *)
(* repeated or late, and snapshots that are old when they are reconciled.  *)
(*                                                                         *)
(* An assurance depends on the content of its skill and on facets of the   *)
(* world, one per kind of dependency that the code tells apart; a digest   *)
(* is a model value and Absent is the empty string or a missing map entry. *)
(***************************************************************************)
EXTENDS Naturals, FiniteSets

CONSTANTS
    Content,         \* SubjectDigest of a skill: the key of Engine.records
    Skill,           \* SubjectID
    Facet,           \* the facets in use
    Digest,
    Absent,
    Expectation,     \* the validity conditions assessments are registered with
    Within,          \* pairs of capabilities, the first within the second
    SnapshotDomain,  \* what a snapshot may report
    Control,
    Scope,           \* the controls the dependency names; {} for all of them
    Decision,        \* the decision IDs every registration names
    Interval,        \* MaxReconciliationInterval
    Lifetime,        \* ExpiresAt - IssuedAt
    SnapshotDelay,   \* bound: how old a snapshot is at most when reconciled
    MaxTime          \* bound on the clock

\* Snapshot and record must both name these for a difference to count.
OptionalFacet == {"provider_config", "model"}
\* A snapshot that does not name these differs.
StrictFacet == {"tool_schema"}
\* A snapshot that does not name these agrees.
LenientFacet == {"policy", "provider", "environment"}
\* Compared in a way of their own, see Differs.
OtherFacet == {"capabilities", "dependency"}
\* The configuration a cached control proof is bound to.
CacheFacet == {"policy", "provider", "provider_config", "environment", "tool_schema"}

Reading == Digest \cup {Absent}
Item == Facet \cup {"content"}
Never == MaxTime + 1

ASSUME EngineAssumption ==
    /\ Facet \subseteq OptionalFacet \cup StrictFacet \cup LenientFacet \cup OtherFacet
    /\ Absent \notin Digest
    /\ Expectation \subseteq [Facet -> Reading]
    /\ Within \subseteq Reading \X Reading
    /\ SnapshotDomain \subseteq
           [named : SUBSET Skill, listed : SUBSET Skill, facets : SUBSET Facet]
    /\ Scope \subseteq Control
    /\ {Interval, Lifetime, SnapshotDelay, MaxTime} \subseteq Nat

VARIABLES
    now,        \* Engine.now
    world,      \* the digest of each facet, as it is
    content,    \* the SubjectDigest of each skill, as it is
    snapshots,  \* the snapshots taken and not yet reconciled
    records,    \* Engine.records: a set of at most one record per content
    cache,      \* Engine.cache: the expectation each control was proven under
    differs,    \* history: since when each record differs from the world, by item
    vouched     \* history: the items that each record's last heartbeat rests on

historyVars == <<differs, vouched>>
engineVars == <<now, world, content, snapshots, records, cache, historyVars>>
envVars == <<now, world, content, snapshots>>

State == {"VALID", "STALE", "INVALIDATED", "UNKNOWN"}

Record == [subject : Content, id : Skill, state : State, expect : Expectation,
           sound : BOOLEAN, complete : SUBSET Control,
           allowed : SUBSET Decision, reverify : BOOLEAN,
           expires : Nat, last : Nat]

Event == [facet : Facet, digest : Digest] \cup [skill : Skill, digest : Content]

\* content is the map SubjectDigests, listed the keys of ObservedDependencies.
Snapshot == [taken : Nat, content : UNION {[ids -> Content] : ids \in SUBSET Skill},
             listed : SUBSET Skill, facets : [Facet -> Reading]]

CachedProof == [subject : Content, id : Skill, control : Control, expect : Expectation]

RecordsOf(s) == {r \in records : r.subject = s}

\* Reconcile's comparison of one item.  A subject that SubjectDigests or
\* ObservedDependencies has no entry for is not compared; a dependency that its
\* subject's entry leaves out differs.
Differs(r, i, snap) ==
    \/ i = "content" /\ r.id \in DOMAIN snap.content /\ snap.content[r.id] # r.subject
    \/ i \in LenientFacet /\ snap.facets[i] \notin {Absent, r.expect[i]}
    \/ i \in OptionalFacet /\ r.expect[i] # Absent
                           /\ snap.facets[i] \notin {Absent, r.expect[i]}
    \/ i \in StrictFacet /\ r.expect[i] \notin {Absent, snap.facets[i]}
    \/ i = "capabilities" /\ snap.facets[i] # Absent
                          /\ <<snap.facets[i], r.expect[i]>> \notin Within
    \/ i = "dependency" /\ r.id \in snap.listed
                        /\ r.expect[i] \notin {Absent, snap.facets[i]}

DriftedFrom(r, snap) == \E i \in Item : Differs(r, i, snap)

\* What a snapshot of everything would say.
Everything(facets, contents) ==
    [content |-> contents, listed |-> Skill, facets |-> facets]

\* A difference on these items shows in the snapshot.
Reports(snap, id, i) ==
    \/ i = "content" /\ id \in DOMAIN snap.content
    \/ i = "dependency" /\ id \in snap.listed
    \/ i \in StrictFacet
    \/ i \in Facet \ {"dependency"} /\ snap.facets[i] # Absent

\* Since when each record differs, after the world has become this one.
Watch(facets, contents) ==
    [s \in Content |-> [i \in Item |->
        IF \E r \in RecordsOf(s) : Differs(r, i, Everything(facets, contents))
        THEN IF differs[s][i] = Never THEN now ELSE differs[s][i]
        ELSE Never]]

Init ==
    /\ now = 0
    /\ world \in [Facet -> Digest]
    /\ content \in [Skill -> Content]
    /\ snapshots = {}
    /\ records = {}
    /\ cache = {}
    /\ differs = [s \in Content |-> [i \in Item |-> Never]]
    /\ vouched = [s \in Content |-> Item]

-----------------------------------------------------------------------------
(* The environment. *)

Tick ==
    /\ now < MaxTime
    /\ now' = now + 1
    /\ UNCHANGED <<world, content, snapshots, records, cache, historyVars>>

Drift(f, d) ==
    /\ d # world[f]
    /\ world' = [world EXCEPT ![f] = d]
    /\ differs' = Watch(world', content)
    /\ UNCHANGED <<now, content, snapshots, records, cache, vouched>>

Edit(id, s) ==
    /\ s # content[id]
    /\ content' = [content EXCEPT ![id] = s]
    /\ differs' = Watch(world, content')
    /\ UNCHANGED <<now, world, snapshots, records, cache, vouched>>

TakeSnapshot(domain) ==
    /\ snapshots = {}
    /\ snapshots' = {[taken |-> now, content |-> [id \in domain.named |-> content[id]],
                      listed |-> domain.listed,
                      facets |-> [f \in Facet |->
                                     IF f \in domain.facets THEN world[f] ELSE Absent]]}
    /\ UNCHANGED <<now, world, content, records, cache, historyVars>>

-----------------------------------------------------------------------------
(* The methods of Engine. *)

StoreAppending(rec) == records \cup {rec}    \* mutant: records is a list

\* records[SubjectDigest] = rec
Store(rec) == (records \ RecordsOf(rec.subject)) \cup {rec}

CacheFirst(rec) ==          \* mutant: an entry that exists is kept
    cache \cup {[subject |-> rec.subject, id |-> rec.id, control |-> c, expect |-> rec.expect] :
                   c \in {x \in rec.complete : \A p \in cache :
                            ~(p.subject = rec.subject /\ p.id = rec.id /\ p.control = x)}}

\* cache[key] = the proof of each complete control; other entries stay.
CacheComplete(rec) ==
    {p \in cache : ~(p.subject = rec.subject /\ p.id = rec.id /\ p.control \in rec.complete)}
    \cup {[subject |-> rec.subject, id |-> rec.id, control |-> c, expect |-> rec.expect] :
              c \in rec.complete}

\* RegisterAssurance.  sound: the conditions and the proofs of the required
\* controls validate.  complete: the controls whose proof is marked Complete.
RegisterAssurance(s, id, expect, complete, sound) ==
    LET rec == [subject |-> s, id |-> id,
                state |-> IF sound THEN "VALID" ELSE "UNKNOWN",
                expect |-> expect, sound |-> sound, complete |-> complete,
                allowed |-> IF sound THEN Decision ELSE {},
                reverify |-> ~sound,
                expires |-> now + Lifetime, last |-> now]
    IN  /\ records' = Store(rec)
        /\ cache' = IF sound THEN CacheComplete(rec) ELSE cache
        /\ differs' = [differs EXCEPT ![s] = [i \in Item |->
                          IF Differs(rec, i, Everything(world, content)) THEN now ELSE Never]]
        /\ vouched' = [vouched EXCEPT ![s] = Item]
        /\ UNCHANGED envVars

InvalidatedQuietly(r, state) ==    \* mutant: the decisions are left as they are
    [r EXCEPT !.state = state, !.reverify = TRUE]

\* invalidateRecordLocked, whatever the state of the record was.
Invalidated(r, state) ==
    [r EXCEPT !.state = state, !.reverify = TRUE, !.allowed = {}]

\* evaluateEventAgainstRecord: an undeclared dependency has nothing to drift from.
EventDrifts(r, ev) ==
    IF "skill" \in DOMAIN ev
    THEN ev.skill = r.id /\ ev.digest # r.subject
    ELSE LET expected == r.expect[ev.facet]
         IN  IF ev.facet = "capabilities" THEN <<ev.digest, expected>> \notin Within
             ELSE /\ ev.digest # expected
                  /\ ev.facet = "dependency" => expected # Absent

\* An event announces what it likes, whenever it comes: a change that is there,
\* one that was taken back, one announced before.  A lost event is none.
IngestDriftEvent(ev) ==
    /\ records' = {IF EventDrifts(r, ev) THEN Invalidated(r, "INVALIDATED") ELSE r :
                      r \in records}
    /\ UNCHANGED <<now, world, content, snapshots, cache, historyVars>>

\* What the heartbeats of a reconciliation rest on.
VouchedBy(snap) ==
    [s \in Content |-> {i \in Item : \A r \in RecordsOf(s) : Reports(snap, r.id, i)}]

ReconcileAndRestore(snap) ==    \* mutant: agreement makes a stale record valid
    /\ snap \in snapshots
    /\ now <= snap.taken + SnapshotDelay
    /\ snapshots' = snapshots \ {snap}
    /\ records' = {IF DriftedFrom(r, snap)
                   THEN Invalidated(r, "INVALIDATED")
                   ELSE IF r.state = "STALE"
                   THEN [r EXCEPT !.last = now, !.state = "VALID",
                                  !.reverify = FALSE, !.allowed = Decision]
                   ELSE [r EXCEPT !.last = now] : r \in records}
    /\ vouched' = VouchedBy(snap)
    /\ UNCHANGED <<now, world, content, cache, differs>>

Reconcile(snap) ==
    /\ snap \in snapshots
    /\ now <= snap.taken + SnapshotDelay
    /\ snapshots' = snapshots \ {snap}
    /\ records' = {IF DriftedFrom(r, snap)
                   THEN Invalidated(r, "INVALIDATED")
                   ELSE [r EXCEPT !.last = now] : r \in records}
    /\ vouched' = VouchedBy(snap)
    /\ UNCHANGED <<now, world, content, cache, differs>>

\* A snapshot nobody reconciles in time is dropped by its caller.
DropSnapshot(snap) ==
    /\ snap \in snapshots
    /\ snapshots' = snapshots \ {snap}
    /\ UNCHANGED <<now, world, content, records, cache, historyVars>>

Expired(r) == now >= r.expires
HeartbeatMissed(r) == Interval > 0 /\ now > r.last + Interval

\* mutant: a query counts as a heartbeat
AskAndRefresh(s) ==
    /\ records' = {IF r.subject # s THEN r
                   ELSE IF r.state = "VALID" /\ (Expired(r) \/ HeartbeatMissed(r))
                   THEN Invalidated(r, "STALE") ELSE [r EXCEPT !.last = now] : r \in records}
    /\ UNCHANGED <<now, world, content, snapshots, cache, historyVars>>

\* IsAssuranceValid makes a VALID record STALE when it finds it out of date; it
\* looks no further than the digests when these are not the record's.
IsAssuranceValid(s) ==
    /\ records' = {IF r.subject = s /\ r.state = "VALID" /\ (Expired(r) \/ HeartbeatMissed(r))
                   THEN Invalidated(r, "STALE") ELSE r : r \in records}
    /\ UNCHANGED <<now, world, content, snapshots, cache, historyVars>>

\* What IsAssuranceValid answers to the evidence and policy digests of the record.
Grants(s, d) ==
    \E r \in RecordsOf(s) :
        /\ ~Expired(r)
        /\ ~HeartbeatMissed(r)
        /\ r.state = "VALID"
        /\ d \in r.allowed

-----------------------------------------------------------------------------
(* PlanSelectiveReAssurance: it reads the state and changes nothing. *)

\* The baseline forbids any reuse for this candidate.
Incompatible(r, cand) ==
    \/ r.id # cand.id
    \/ r.subject # cand.subject
    \/ \E f \in CacheFacet \cap Facet : r.expect[f] # cand.expect[f]

\* The controls of the baseline that the observed dependency affects.
DriftedControls(r, observed) ==
    IF "dependency" \in Facet /\ r.expect["dependency"] \notin {Absent, observed}
    THEN IF Scope = {} THEN Control ELSE Scope
    ELSE {}

Compatible(p, cand) ==
    /\ p.id = cand.id
    /\ p.subject = cand.subject
    /\ \A f \in CacheFacet \cap Facet : p.expect[f] = cand.expect[f]

\* The cached proofs the plan reuses, one per reusable control.
ReusedProofs(r, cand, observed) ==
    IF Incompatible(r, cand) THEN {}
    ELSE {p \in cache : Compatible(p, cand) /\ p.control \notin DriftedControls(r, observed)}

Candidate == [subject : Content, id : Skill, expect : Expectation]

-----------------------------------------------------------------------------
Next ==
    \/ Tick
    \/ \E f \in Facet, d \in Digest : Drift(f, d)
    \/ \E id \in Skill, s \in Content : Edit(id, s)
    \/ \E domain \in SnapshotDomain : TakeSnapshot(domain)
    \/ \E s \in Content, id \in Skill, expect \in Expectation, complete \in SUBSET Control,
          sound \in BOOLEAN :
             RegisterAssurance(s, id, expect, complete, sound)
    \/ \E ev \in Event : IngestDriftEvent(ev)
    \/ \E snap \in snapshots : Reconcile(snap) \/ DropSnapshot(snap)
    \/ \E s \in Content : IsAssuranceValid(s)

Spec == Init /\ [][Next]_engineVars

-----------------------------------------------------------------------------
(* Properties *)

\* Types, and Engine.records is a map.
TypeOK ==
    /\ now \in 0 .. MaxTime
    /\ world \in [Facet -> Digest]
    /\ content \in [Skill -> Content]
    /\ snapshots \subseteq Snapshot
    /\ records \subseteq Record
    /\ cache \subseteq CachedProof
    /\ differs \in [Content -> [Item -> Nat]]
    /\ vouched \in [Content -> SUBSET Item]
    /\ \A r, q \in records : r.subject = q.subject => r = q

\* "invalidates affected assurance records and dependent policy decisions"
\* (engine.go:420): a record that is not VALID allows no decision and asks for
\* re-verification, whichever way it got there; a VALID one allows all its own.
DecisionsFollowState == \A r \in records :
    /\ r.allowed = IF r.state = "VALID" THEN Decision ELSE {}
    /\ r.reverify <=> r.state # "VALID"
    /\ r.state = "VALID" => r.sound

\* Missed events do not leave stale assurance valid for long (Reconcile, the
\* heartbeat in IsAssuranceValid), as far as snapshots are complete: once a record
\* has differed from the world for longer than the heartbeat interval and the age
\* of a snapshot together, on an item that its last heartbeat's snapshot reported,
\* the oracle no longer grants it, although every drift event may have been lost.
StalenessIsBounded == \A s \in Content, d \in Decision : \A i \in vouched[s] :
    (Interval > 0 /\ Grants(s, d) /\ differs[s][i] # Never) =>
        now <= differs[s][i] + Interval + SnapshotDelay

\* Selective re-assurance after a sound registration: a proof that a plan reuses
\* for a control the registration completed was made under the dependency digest
\* that is observed now, if the dependency concerns that control.
ReusedProofIsCurrent ==
    \A r \in records, cand \in Candidate, observed \in Digest :
        \A p \in ReusedProofs(r, cand, observed) :
            (r.sound /\ p.control \in r.complete /\ "dependency" \in Facet
                /\ p.control \in (IF Scope = {} THEN Control ELSE Scope)) =>
                    p.expect["dependency"] \in {Absent, observed}

\* "CachedControlEvidence binds a cached ControlProof to its exact validity
\* context" (engine.go:264): whatever is registered, a plan reuses no proof of a
\* dependency digest other than the observed one.
ReuseIsBoundToContext ==
    \A r \in records, cand \in Candidate, observed \in Digest :
        \A p \in ReusedProofs(r, cand, observed) :
            ("dependency" \in Facet /\ p.control \in (IF Scope = {} THEN Control ELSE Scope)) =>
                p.expect["dependency"] \in {Absent, observed}

\* The oracle as the gateway sees it.
standingOf == [s \in Content |->
    IF RecordsOf(s) = {} THEN "none"
    ELSE IF \E r \in RecordsOf(s) : r.state = "VALID" THEN "good" ELSE "withdrawn"]

Oracle == INSTANCE Standing WITH Subject <- Content, standing <- standingOf

\* Events, snapshots and queries only ever withdraw standing: after drift nothing
\* but a registration makes a record VALID, in whatever order they come.
ImplementsStanding == Oracle!Spec

-----------------------------------------------------------------------------
(* The inductive invariant. *)

\* What differs remembers is a difference that is there now.
WatchInv == \A s \in Content, i \in Item :
    /\ differs[s][i] # Never => differs[s][i] <= now
    /\ differs[s][i] # Never <=>
          \E r \in RecordsOf(s) : Differs(r, i, Everything(world, content))

\* A difference older than a snapshot shows in it if the snapshot reports the
\* item, and one older than the last heartbeat by more than the age of its
\* snapshot has been found if that snapshot reported it.
HeartbeatInv ==
    /\ \A snap \in snapshots : snap.taken <= now
    /\ \A snap \in snapshots, r \in records, i \in Item :
          (differs[r.subject][i] < snap.taken /\ Reports(snap, r.id, i)) =>
              Differs(r, i, snap)
    /\ \A r \in records :
          /\ r.last <= now
          /\ r.state = "VALID" => \A i \in vouched[r.subject] :
                                    r.last <= differs[r.subject][i] + SnapshotDelay

\* A sound registration refreshed the cached proofs of what it completed.
CacheInv == \A r \in records, p \in cache :
    (r.sound /\ p.subject = r.subject /\ p.id = r.id /\ p.control \in r.complete) =>
        p.expect = r.expect

EngineInv ==
    /\ TypeOK
    /\ DecisionsFollowState
    /\ WatchInv
    /\ HeartbeatInv
    /\ CacheInv
==============================================================================
