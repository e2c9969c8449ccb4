# A verification of skil in TLA+

skil ("Skill Inspector and Linter") is a Go program that inspects the skills
of AI agents, decides whether they may be used, attests the decision, and
enforces it when an agent runs. This directory holds TLA+ specifications of
what has to be right while other things happen at the same time, fail, run out
or come in another order, TLC configurations that check them on small instances,
and proofs that TLAPS checks for every instance.

    tlc -config NonceLedger.cfg MCNonceLedger.tla        # likewise the other .cfg files
    tlapm ExecutionGatewayProofs.tla                     # likewise the other *Proofs.tla

## The system

skil works in five stages: detect, verify, decide, attest, enforce. The first
four read a set of files and compute a document: there the hard part is that a
result must say what was *not* looked at, whichever limit, deadline or failure cut
the work short. The last one is a long-running guard, where concurrency, failure and
time matter. Between them lie files that several commands load, change and save.

| Component | Source | State it keeps | Operations | What is hard | Model |
|---|---|---|---|---|---|
| nonce ledger | internal/receipt/authorization.go | map of used nonces, directory of entry files | Consume | goroutines, processes, failing system calls, restarts | `NonceLedger` |
| execution gateway | internal/receipt/authorization.go | maps of revocations, a ledger, an oracle | ValidateAuthorization, AuthorizeAndExecute, Revoke* | sources that change between two checks, replay, truthful receipts | `ExecutionGateway` |
| continuous assurance engine | internal/continuous/engine.go | records by digest, cache of control proofs, log | RegisterAssurance, IngestDriftEvent, Reconcile, IsAssuranceValid, PlanSelectiveReAssurance | lost and late events, old snapshots, expiry, stale cache | `AssuranceEngine` |
| continuous monitor state | internal/continuous/state.go, internal/cli/continuous.go | state file | Evaluate, Load, Save | crash between runs, overlapping checks | `StateFiles` |
| runtime proxy | internal/runtimeproxy/proxy.go | a sequence number | EnforceAndExecute | redaction against bound arguments, what BLOCK means | `RuntimeProxy` |
| MCP interceptor | internal/mcpinterceptor/interceptor.go | a sequence number, the surface lock | InspectMessage, RunStream | forwarding fails after the nonce is used | `MCPInterceptor` |
| contract enforcer | pkg/enforcement/enforcer.go | budgets, log of decisions | Authorize, Ledger, Decisions | partial effects of a denial, overflow | `Enforcer` |
| isolated evaluation | internal/eval/runtime.go, isolation.go | a child process and a pipe | run, serve operations | timeouts, a child that dies | `IsolatedRuntime` |
| semantic providers | internal/provider/semantic | ledger of attempts | Begin, Finish, Terminal | late answers, retries | `AttemptLedger` |
| revocation registry, catalog | internal/revocation, internal/registry | a JSON file each | load, change, save | several processes, crash while writing | `StateFiles` |
| lock file and installed packages | internal/cli/cli.go, internal/lockfile, internal/packagecheck | lock file, one directory per package | install, update, uninstall | two states without a common commit, rollback, crash | `PackageLifecycle` |
| analyzer pipeline | internal/analyzer/registry.go, internal/derived | limits, inspection ledger, coverage | Scan, Risk, Verdict | limits, deadlines and failures that must show in the result | `ScanPipeline` |
| transitive resolution | internal/transitive/transitive.go | set of seen addresses, the walk | Run, BuildAssuranceClosureFromScan | cycles, depth limit against a shared set | `ReferenceWalk` |
| assurance closure | internal/assurance/closure.go | none | Finalize | order in which nodes set the state | `ReferenceWalk` |
| baseline, contract verification, policy | internal/baseline, verification, policy | none | judge a scan | recomputed results that lose an earlier warning | `ScanPipeline`, `ScanCommand` |
| scanning engine of the public API | pkg/engine | a cache of results | Scan, Lookup, Store | one incomplete result answers later scans | `ScanPipeline` |
| command line | internal/cli | none | scan, policy check, install, ... | order of the steps and their errors | `ScanCommand`, `PackageLifecycle` |
| HTTP resilience | internal/provider/resilience/http.go | none between calls | Do | retries and deadlines | none |
| workspace watcher | internal/discover/watch.go | digests of the last poll | poll | stale entries | none |
| prerequisite and completeness ledgers | internal/assurance, internal/completeness | what one scan declared and did | register, complete, derive | completeness claimed too early | none |
| analyzers, lint, evidence, reports, ... | the rest of internal/ and pkg/ | none | functions of a document | data processing | none |

How the modelled parts interact: an *issuer* signs an authorization for one
operation; a *gateway* is handed it with a request, compares the two, asks its
revocations, asks the *engine* through the interface `AssuranceValidityOracle`,
compares the file or the tool schema with what was bound, consumes the nonce in
its *ledger*, and only then calls the operation. The engine learns of change
through events (`IngestDriftEvent`) and through snapshots (`Reconcile`). A *proxy*
in front of an agent's tools and an *interceptor* on a stream of MCP messages present
authorizations to gateways that share a ledger. An *enforcer* charges the operations
an adapter asks for in an *isolated evaluation*. A *scan* runs the analyzers over an
artifact and its derived views; its result goes to a policy, to the cache of the
public API, or to the *walk* of the artifact's references, each of which is scanned
in turn, and to the *closure* over all of them. The commands of the *package
lifecycle* install what a policy allows and keep the lock file and the directories
in step; others keep the registry, the catalog and the state of continuous checks.

What makes each part correct: a nonce is accepted once, whoever asks and whatever fails;
an operation runs only when every check held during its call, and at most once if the
authorization is single-use; a receipt claims only what happened; an assurance record that
no longer holds is not granted for long even if all events are lost, as far as snapshots
are complete, and never comes back to life without a registration; a plan reuses only
proofs of what is there now; a tool runs with the arguments that were authorized, and what
was granted is delivered; what was acknowledged in a state file is never denied later; a
locked package is never lost, and a failed command leaves lock file and directories as
they were if its rollback succeeds; a scan says PASS, CLEAR or ALLOW only if everything
was looked at. `PROJECT.json` lists, under `hazards`, the lines where these could go
wrong.

## Modules

| Module | Role |
|---|---|
| `ReplayGuard` | abstract: callers ask for keys, a key is accepted at most once, ever |
| `NonceLedger` | `NonceLedger.Consume` step by step, for any number of processes and goroutines |
| `Standing` | abstract: an oracle whose subjects lose their standing by withdrawal and regain it by registration only |
| `AssuranceEngine` | the engine, the world it watches, and the clock |
| `AuthorizationGate` | abstract: a call is asked for, denied or granted, and runs only if granted; a single-use key is granted to one call ever |
| `ExecutionGateway` | EXTENDS `NonceLedger` and takes its oracle from `Standing`: the composition of gateway, ledger and oracle |
| `AttemptLedger` | the attempts of one exchange with a provider |
| `Enforcer` | the contract enforcer: budgets over a lifetime, charges of refused operations, fixed-width sums |
| `IsolatedRuntime` | EXTENDS `Enforcer`: the evaluation of an adapter in an isolated process, step by step |
| `RuntimeProxy` | EXTENDS `AuthorizationGate`: the guardrail, the redaction and the gate of a proxied tool call |
| `MCPInterceptor` | EXTENDS `AuthorizationGate`: one stream of MCP messages |
| `EnforcementPoints` | EXTENDS both: proxies and streams in front of the same gateways |
| `StateFiles` | the revocation registry, the catalog and the state of continuous checks under commands that overlap and stop |
| `PackageLifecycle` | install, update and uninstall over the lock file and the package directories |
| `ScanPipeline` | one scan: analyzers, views, limits, deadline, judgement |
| `ReferenceWalk` | the walk of the references of an artifact, and their closure |
| `ScanCommand` | EXTENDS both: a command from the scan to its result |
| `MC...` and the `.cfg` files | the instances TLC checks |
| `...Proofs` | the theorems about the module they are named after |

### NonceLedger

`mu` is the mutex of each process, `seen` its map, `entries` the shared
directory. `at` is the place of a caller in `Consume`: one action per step
between which another process may act. `CheckSeen` is the look-up,
`OpenExclusive` the `O_CREATE|O_EXCL` open with its three results, `WriteEntry`
the write, sync and close whose errors are looked at together, `RemoveEntry` the
clean-up whose own error is ignored, `Record` the assignment to the map. `Return`
is the deferred `Unlock`. `Restart` stops a process between any two of these and
empties its memory. `total` and `life` count acceptances and are history only.
The time of use, which only words the error message, is left out, and so is the
reading of an existing entry for that message.

### AssuranceEngine

`records` and `cache` are the maps of `Engine`; the log `transitions`, the map
`bySubjectID` and the evidence graph are not read by any decision and are left
out. Every method holds `Engine.mu` throughout and is one action. What
interleaves is around them: `Drift` and `Edit` change the world; `IngestDriftEvent`
may be called with any event at any time, so an event that is late, repeated or out of
order is one that comes then, and a lost one is none; `TakeSnapshot` reads the world,
and `Reconcile` may use the snapshot up to `SnapshotDelay` later; `Tick` is the clock.

What `Reconcile` compares are *items*: the content of the skill and the *facets* of its
validity conditions. `Differs` is the comparison of one item, and a value that the
snapshot does not have is treated differently from item to item, as in the code: a
content digest that is not among `SubjectDigests` agrees, and so does a subject
without an entry in `ObservedDependencies`, while an entry that lacks the dependency
differs; policy, provider name and environment agree (`LenientFacet`), tool schemas
differ (`StrictFacet`), provider configuration and model are compared when both sides
name them (`OptionalFacet`); capabilities are a subset test (`Within`). What a snapshot may
leave out is the constant `SnapshotDomain`. The validation of conditions and required
proofs is the input `sound`. `PlanSelectiveReAssurance` changes nothing and is an
operator, `ReusedProofs`. Two variables are history: `differs`, since when a record
disagrees with the world on each item, and `vouched`, the items that the snapshot
behind the last heartbeat reported.

### ExecutionGateway

`gw` is the place of a caller in `AuthorizeAndExecute`: one action per source that
is read. The comparisons of authorization, request, keys and time at the start
depend on nothing that changes and are the input `passes` of `Submit`.
`LedgerStep` joins the steps of the ledger, and `Verdict` is what the gateway
makes of the ledger's answer. `StandingChanges` and `BindingChanges` move the
oracle and the bound file between any two steps; `Revoke` is the pair of methods
of that name. `EndOperation` is the switch over error, deadline and result.
`before`, `held`, `ran`, `warranted`, `runs` and `proofs` are history; `warranted` has the
keys that there was a reason to spend: a grant, or a ledger that could neither write
its entry nor remove it. Only operations in `Bound` have something the code compares
again before they run, a file or a tool schema. A signing
error after the operation, which only changes the error returned with the same
receipt, is left out. The oracle is the abstract `Standing`, and it may refuse a
subject in good standing: `AssuranceEngine` is shown to implement it.

### AttemptLedger

`attempts`, `outcome` and `emitted` are the list of `Attempt`s with the fields
that decide. Each method holds the mutex and is one action; a refused call changes
nothing and is left out. The ledger does not run the attempts: `wrote` is what
they have emitted, and the ledger learns of it when `Finish` reports it, possibly
after another attempt began. `Finish` takes any outcome, the empty one and
RETRY_EXHAUSTED included, as the code does. `Settled` is when the exchange is over.
`overlapped` is history: whether one attempt ever began before another had finished.

### Enforcer

`used` holds the four counters and `granted` is what the log of decisions says was
allowed, summed up per limited budget. `Authorize` holds the mutex and is one action;
its body is written as functions of the counters, because another module asks twice
in one step. `Charged` is the point of the code that is easy to get wrong: the
counters are raised one after the other, in the order `Place`, so an operation that
the third refuses has already raised the first two. `Wrap` is the addition of Go. The
checks of an operation against the contract alone are the constant `InContract`; the
elapsed time is `expired`.

### IsolatedRuntime

`ProcessRuntime.Execute` is a loop of one goroutine with an enforcer of its own, so
the interleaving is with the adapter: each step it may ask for anything, repeat an
identity, say nothing, die or end. One action is one outcome of a step: five ways
of `executeGatewayTool` (`RefuseTool`, `RefuseCall`, `RefuseOperation`,
`RefuseProof`, `RunTool`), `LoseResult` when the tool has run and its result cannot
be passed on, `FailStep` for every other error of a step, `Final`. `trusted` is
`trustedCalls`; the operations with their authorizations grow along with it and are
not kept apart. `effects` and `taken` are history: what really ran. The expiry of the
enforcer's time between the two authorizations of a request gives the same state as
a target outside the boundary and then the expiry.

### RuntimeProxy, MCPInterceptor, EnforcementPoints

Both guards see of a gateway what `AuthorizationGate` promises: `GatewayImplementsGate`
shows that `ExecutionGateway` keeps the promise, so the two do not carry the gateway's
state. In `RuntimeProxy` a caller is a call slot; `Fate` is the sequence of early
returns of `EnforceAndExecute` after the guardrail, and an action is one call that
can fail or take time: `Renew` the reauthorizer, `AskGateway`, `GatewayDenies`,
`GatewayGrants`, `Execute` and `Finish` the stages of `AuthorizeAndExecute` under the
proxy, `RunDirectly` the call without authorization. `approved` is `Authorized` of the
response, `ran` is history: with which arguments `execFn` was called, or `NoFunction` if
its turn came and there was none (`Perform`), which the code takes for a success. In
`MCPInterceptor` a caller is a run of `RunStream`; `Route` is `InspectMessage` as far
as it does not need the gateway, `Forward` is the hook, `Deliver` and `Reject` are the
writes, which fail and end the stream. `seen` is history: who has seen what of the
message at hand. `EnforcementPoints` puts them side by side, lets any set of them stop
at once, and counts in `uses` how often a single-use key was used by anybody.

### StateFiles

`file` is what is on disk: a whole registry or catalog, an empty file, or bytes that
do not parse. `os.WriteFile` is two actions, `Truncate` and `Fill`, because another
process can read between them; what a write leaves on top of a concurrent one is
`Overwritten`. The state of `skil continuous check` is replaced by a rename and is one
action, `Replace`. `job` is the command of each process with the copy it has loaded.
`Stop` ends a process anywhere; `FillFails` is a failing write. `raced`, `settled`,
`alarmed`, `drifted` and `checksRaced` are history.

### PackageLifecycle

One action per system call that changes something: the rename of the old directory to a
backup or quarantine path (`Stage`), the rename of the new one into place (`Installs`),
the lock file (`WriteLock`), and the undoing (`Discard`, `Restore`, `Clean`). Each has a
failure, and `Crash` ends a command between any two. `view` is the lock file as the
command loaded it: `Put` and `Remove` work on that copy. The steps of a rollback may fail
too, at any time, and their errors are ignored as in the code: `Discard` may leave the
directory whole or a part of it (`Remnant`), `Restore` may leave the old directory where
it was put aside (`left`), or has to when the target is occupied, and `Clean` may leave a
part of what was put aside. `broken` is history: the names on which a command stopped half
way or such a step failed. The gates before (policy, attestation, structure of the
archive) are `Allowed`; nothing locks the files, so commands of several processes
interleave, and `overlap` remembers that they did.

### ScanPipeline

`at` is the place in `Registry.Scan`: the checks at the head of the loop over analyzers in
their order (`OverBudget`, `PassOver`, `Begin`), the analyzer itself with its three ways
to end (`Invoke`, `TimesOut`, `Fails`), the loop over derived views (`PassView`,
`LookAtView`, `DropViews`), and the end (`Finish`). `items` is the inspection ledger with
the entries that are made *before* the work, as in the code; `inspected` is history, what
was really looked at, and `thorough` compares the two at the end. `TimePasses` and
`Cancel` are the two ways the context ends, at any moment. A limit of 0 is no limit
(`Over`), and a rule that is not published fails the scan whatever the deadline (`Fails`).
`Judge` is what the command makes of the scan: contract findings, baseline suppressions,
`Risk`, `Verdict`, the closure of the artifact's own files and the two flags that demand
completeness; `Store` is what the public API makes of it. A finding is a kind with the
weight and rank of its severity.

### ReferenceWalk and ScanCommand

The recursion of `transitive.Run` is the variable `stack`: a frame is a page and the
references still to be visited, in sorted order, so an address is a number. `Known`,
`Skip`, `ScanFails`, `Follow` and `Back` are the ways one reference goes. What a
fetched page holds (`Content`) and how its scan ends (`Child`) are any choice. Whether a
node of the closure was analyzed is decided in two ways, as in the code: for the artifact
itself from its scan and its files (transitive.go:455), for a page from the status of its
scan alone (transitive.go:324), the field `completed`.
`Finalize` is a loop over sorted nodes that sets a state again and again; it is
written as what the loop leaves, `ClosureState`, with `ConflictAfter` for the one
assignment that does not look at the state it overwrites. `ScanCommand` runs the
pipeline, then the policy (`Decide`) or the walk and the outcome of its closure
(`CloseWalk`). What else the policy looks at can only deny, and is a choice.

## What the runs check

| Run | Instance | Questions |
|---|---|---|
| `nonce_ledger` | two durable processes, one with two goroutines, one in-memory process with two goroutines, one key; 63,000 states | accepted at most once for ever and per life; the entry of an accepted key stays; `Consume` returns; refinement of `ReplayGuard` |
| `engine_life` | one skill, two contents, one dependency, clock 0..3, interval 1, snapshots up to 1 old, which report both, one of them, or the dependency as missing; 1.34 million states | bounded staleness, refinement of `Standing` |
| `engine_plan` | one content, two facets of two digests, two controls of which the dependency names one, clock 0..1, expiry at 1; 9,900 states | what a plan reuses after any sequence of registrations; decisions withdrawn with the state, by an event or by expiry |
| `engine_reuse` | the same, with a clock that stands still | a violation, see below |
| `execution_gateway` | two processes with one goroutine each, one key, one authorization that is single-use and bound to a file and one reusable one that is bound to none; 870,000 states | at most one run and one proof, no nonce is spent without a reason, runs are justified, receipts are truthful; refinement of `AuthorizationGate` |
| `attempt_ledger` | four identities, two retries; 137,000 states | output from one attempt, final verdicts |
| `isolated_runtime` | seven operations, of which three take from several budgets, one has a negative amount and one is outside the contract; limits 3, 4, 3 and 1; four identities; 2,200 states | what was allowed and what really ran fits the budgets, the ledger covers it, a returned trace is exact |
| `enforcement_points` | one proxy, one client's stream, one key, one single-use and one reusable authorization bound to different arguments, three argument maps, six messages; 70,000 states | arguments as bound, answers that agree with what ran, granted calls delivered, one use per single-use key |
| `state_files` | two processes, two digests, one catalog entry, two subjects; 114,000 states | what was settled is never denied; an invalidated pin does not come back |
| `package_lifecycle` | two processes, one name in two versions, the first in two builds, another name whose package is denied; 2.24 million states | locked packages survive, rollbacks of which no step fails restore lock file and directories together, nothing but allowed packages is installed |
| `scan_command` | eleven requests, three analyzers, two files, up to three views, four addresses, of whose pages one has an opaque file; 373,000 states | PASS, CLEAR, ALLOW and a cached result are earned; no reference is lost; a blocked page fails the scan up to the last hop; each step leaves less to do |
| `unsafe_dominates` | the same without policy, three addresses, depth 1 | a violation, see below |

Why these bounds are enough to meet the interesting cases. Two processes, one of
them with two goroutines, race for the file and for the mutex, and a third process
has no file; a key takes no part in the treatment of another key, so one key is
replayed by all five callers. In `engine_life` the clock runs long enough for a
registration, a difference, an old snapshot and a missed heartbeat in
one behaviour, one step past the bound of `StalenessIsBounded`; the lifetime is longer
than the clock, so that no expiry hides a missed heartbeat, and expiry is met in
`engine_plan`. The bounds on the clock and the age of snapshots are `MaxTime` and
`SnapshotDelay`. In `execution_gateway` no counter needs a bound: `runs` and
`proofs` never pass 1, and `total` and `life` stop with them. In `isolated_runtime`
every limit but that of tokens is met exactly, and each is passed; the counters are
bounded by the limits, and an evaluation by its identities and `StepCap`. In
`enforcement_points` the proxy redacts, can renew, and is asked with and without
authorization; the stream has every guard switched on; `uses` stays at 1, and two
callers are enough to race for a key. In `state_files` and `package_lifecycle` a
third process would only repeat what the second does, overlapping the first at any of
its steps. Two builds of one version are needed for an update that moves a directory
aside and puts another under the same name, two versions for one that does not.

In `scan_command` the first analyzer applies to both files, the second to one, and the
third asks a provider, reports its coverage and is not run over views. With
`MaxFindings` 1 and `MaxEvents` 8 each limit is met and passed, and met first by
either; three views do not fit the events, one does. The requests switch on contract,
baseline, policy, the public API, an oversized artifact, an unreadable file, and the
two demands for completeness, alone and in the pairs that act on the same value.
`Depth` 2, four addresses of which one is denied, `MaxTargets` 2 and pages that refer
to themselves, to each other and to denied addresses reach every branch of the walk:
cycles, references known before, the depth limit and the limit on targets. The
program has no loop but those over analyzers, views, files and references, and each
is run more than once.

`engine_life`, `engine_plan`, `isolated_runtime`, `state_files` and
`package_lifecycle` use symmetry, over contents, digests, identities, processes and
subjects, which no definition tells apart; none of them checks a liveness property.

Deadlock is checked in every run but those of `AttemptLedger`, whose exchange ends
when its attempts are spent (three of the four identities; the last one is refused),
of `IsolatedRuntime`, where `Execute` returns, and of `ScanCommand`, where the command
ends.

### The violations

`engine_reuse` checks what engine.go:264 says of `CachedControlEvidence`: it
"binds a cached ControlProof to its exact validity context". The dependency
digests are stored with the proof and never compared. When a subject is
registered again under another dependency digest and the control is not
completed, or the registration does not validate, the older entry stays in the
cache and `PlanSelectiveReAssurance` offers it, because the new record's own
dependency has not drifted. `ReusedProofIsCurrent` states what does hold: for
the controls that the last registration completed, if it validated.

`unsafe_dominates` checks what docs/assurance-closure.md:35 says of UNSAFE, "Unsafe
dominates unknown state", and docs/transitive-scanning.md:81, "Unsafe children
propagate `UNSAFE`". `Finalize` sets the state to UNKNOWN at two nodes of one address
that differ (closure.go:58-60) without a look at what it was, unlike the other two
places that lower it (lines 73 and 88); and the walk makes such nodes at the depth
limit. The artifact refers to 1 and 3; page 1 is blocked and refers to 3; 3 comes after
1 in the order, and the scan ends with WARN. `ClearIsEarned` holds all the same: an
UNKNOWN closure does not pass. And this is the only way it happens: as long as no page
at the last hop refers on, a blocked page does fail the scan
(`UnsafeDominatesWithinReach`, a part of `ScanInv`, proved).

### Known divergences

These were met while modelling and are not runs of their own; the models show them and
the properties are stated so that they say what does hold.

- The enforcer compares a sum after Go has wrapped it (enforcer.go:214), so an amount that
  takes a counter past the largest integer is allowed, although contracts.go:107 makes the
  limits cumulative. `BudgetsHold` is stated and proved for limits and amounts whose sums
  do not wrap (`Roomy`).
- `Terminal` says COMPLETE "only if the final attempt completed with no unfinished
  attempt" (terminal.go:235), but reads the last attempt only, and `Begin` does not ask
  for an earlier one that is unfinished. `OutputFromOneAttempt` is stated for attempts
  that did not overlap.
- `Run` reports of an evaluation without operations in its trace that the "containment
  enforcement boundary was not exercised" (runtime.go:564), but `Execute` returns an empty
  trace with every error (runtime.go:128), also after tools have run. `TraceIsExact` is
  stated for runs that end with a final message.
- A proxied operation that ran and failed is answered with BLOCK (proxy.go:316), as if it
  had not run; the receipt in the response tells the two apart. `AnswersAreTrue`, a part
  of `PointsInv`, states what the two say together: ALLOW and REDACT that it ran, and
  BLOCK that it did not unless the receipt says FAILED or TIMED_OUT.
- Of two revocations at the same time one can be lost though both are reported as done
  (revocation.go:54), and so can a catalog entry; `SettledStands` says that no *other*
  addition is harmed. The same holds of two overlapping continuous checks
  (continuous.go:53), after which an invalidated pin can be valid again, and of two
  package commands that work on the lock file of one directory (cli.go:1071). Of these,
  `OnlyAllowed` and `NoWayBack` hold all the same.
- `Reconcile` compares records with a snapshot "so missed events cannot leave stale
  assurance valid" (engine.go:484), but a content digest, a subject's dependencies or a
  facet that the snapshot does not have counts as agreement (`ok &&` and the tests for
  emptiness at 504-534), and the heartbeat is renewed (546). With such snapshots a record
  whose event was lost is granted until it expires. `StalenessIsBounded` is stated for the
  items that the last heartbeat's snapshot reported.
- A nonce is "consumed only after all validation checks pass" (authorization.go:711), but
  when the write of its entry fails and the removal of the entry fails as well
  (authorization.go:450, whose error is ignored), the call is denied and the nonce is used
  up: each later presentation is a replay. `DenialSpendsNothing` names that exception.
- A failed command says "installation rolled back" or "uninstall rolled back"
  (cli.go:1099, 1147) whether or not the rollback's own renames and removal succeeded
  (cli.go:1084, 1095, 1097, 1146). When one of them failed, the lock file may name a
  package that is not in its place; `RolledBackTogether` is stated for names on which none
  did. `LockedSurvives` holds all the same: the package is still where it was put aside.
- "Unresolved or incompletely analyzed children propagate `UNKNOWN`", and the root "cannot
  remain `CLEAR`" (docs/transitive-scanning.md:81-84), but a page enters the closure by
  the status of its scan alone (transitive.go:324): one with an opaque file, whose verdict
  is REVIEW, counts as analyzed, and the root stays PASS and CLEAR. `ClearIsEarned` asks
  of the artifact that everything in it was looked at, and of a page that its scan was
  completed and did not block.
- An attempt may report RETRY_EXHAUSTED as its own outcome (terminal.go:220-228), and
  another attempt may begin after it. `VerdictIsFinal` counts it as final when no attempt
  is left.
- A continuous state with a valid pin is never made by `Evaluate`, only carried on; the
  first one comes from outside, and `FilesInit` allows it.
- The watcher never forgets an entry that disappeared (watch.go:93-107): the removal is
  reported at each later poll, and an unchanged return not at all. It is one goroutine and
  is not modelled.
- `cacheable` of the public API does not look at coverage that is "not_available"
  (engine.go:117). No analyzer of the repository reports that of itself without being
  degraded, and in the model `CachedIsWhole` holds.

## Fairness

One property needs any. `ConsumeReturns`: a caller that holds the mutex goes on (weak
fairness of `Step`): system calls return and a runnable goroutine runs. A caller
that waits gets the mutex if it becomes free again and again (strong fairness of
`Lock`): Go's `sync.Mutex` hands itself over to a waiter that has been starved for
a millisecond. Restarts and calls are not fair. That a scan ends is not stated as
liveness: what can be wrong there is a step that leaves as much to do as before, and
`EveryStepCounts` says that none does, without fairness.

## What is proved

All theorems hold for every value of the constants under the assumptions named in the
modules (`LedgerAssumption`, `GatewayAssumption`, `EngineAssumption`,
`AttemptAssumption`, `EnforcerAssumption`, `RuntimeAssumption`, `ProxyAssumption`,
`InterceptorAssumption`, `PointsAssumption`, `FilesAssumption`, `LifecycleAssumption`,
`PipelineAssumption`, `WalkAssumption`, `PolicyAssumption`), which say what the
functions between the constant sets are, that times, retries and limits are natural
numbers, and that values which stand for "none" are no values. `PolicyAssumption`
says that the policy requires some analysis, as the one that skil writes does
(cli.go:1384).

*Ledgers* (the first part of `ExecutionGatewayProofs`). `AcceptedAtMostOnce` is not
inductive: one has to know that nobody else is about to accept the key. `LedgerInv` adds
that whoever is between the creation of an entry and the record in the map is the only one
there with that key and the key has not been accepted (`EntryInv`), that the mutex is held
by the one caller inside (`MutexInv`), and that a map holds what its process has accepted
(`SeenInv`). From it follow `DurableReplayProtection`, `LocalReplayProtection`,
`AcceptedEntryStays` and the refinement `LedgerImplementsGuard`, in which `Record` maps to
`Accept`, an error or a replay to `Refuse`, and a restart to `Vanish`.

*Gateway* (`ExecutionGatewayProofs`). `GatewayInv` builds on `LedgerInv`: an
accepted key entitles exactly one caller to one run (`GrantInv`), and the place
of a caller tells which checks it has passed (`CallInv`). The lemma that a caller
inside `Consume` with a durable ledger has not been accepted is taken from the
ledger's invariant, so `SingleUseRunsOnce` rests on the exclusive creation of the
file and on nothing else. `DenialKeepsNonce` follows an entry back to the caller that made
it: an entry on disk is accepted, in the hands of a caller, left by a process that
stopped, or one that could be neither written nor removed. `GatewayImplementsGate` is the
refinement: an authorization that is single-use is granted at `Record`, another
one at the check of its binding, a failed check maps to `Deny` wherever it is, and
a restart to `Vanish`. The guards in front of an agent's tools are composed with
`AuthorizationGate` instead of the whole gateway.

*Engine* (`AssuranceEngineProofs`). `BoundedStaleness` needs to know that a
reconciliation which finds nothing was made from a snapshot older than the
difference, or from one that does not report the item: `HeartbeatInv` says that a
difference older than a snapshot shows in it if the snapshot reports the item, and that a
VALID record's heartbeat is at most `SnapshotDelay` after the beginning of a difference
on an item in `vouched`; `WatchInv` says that `differs` is what its name says. The lemma
`MaintainedInv` treats events, reconciliations and queries together, because all
they do to a record is to refresh it or to withdraw it as a whole.
`EngineImplementsOracle` shows that the engine is an oracle as the gateway's
model assumes one.

*Attempts* (`AttemptLedgerProofs`). `AttemptInv` adds to `OutputFromOneAttempt`
that a finished attempt has reported what it emitted and that, without overlap, only
the last attempt is unfinished. `VerdictsAreFinal` follows because an attempt that is
COMPLETE, or the last one of the budget, bars every `Begin` (`Settled`).

*Enforcer* and *evaluation* (`IsolatedRuntimeProofs`). Limits alone
are not inductive: `EnforcerInv` says that every counter is within its limit and not
below what was granted. `ChargeFacts` shows this for one budget of one authorization;
for mutations it needs that they have the last place, so that they are charged with
the grant or not at all. `EvaluationsAreBudgeted` composes two authorizations per request
(`RequestFacts`) and adds that what the tools took was granted;
`EvaluationsKeepTheLedger` carries the enforcer's own properties into an evaluation, and
`BudgetsOnlyShrink` shows that no refusal and no second authorization lowers a counter.
These six theorems assume `Roomy`, `TracesAreExact` does not. It is about a filtered
sequence, and a filter is defined by recursion, so `Shows` says the same of the entries
and their places: each tool that ran has one allowed entry, in the order of the runs, and
no other entry is allowed. `TraceInv` adds that the identities that ran are among those
the runtime has seen, so that the entry of a new call is new.

*Guards* (`EnforcementPointsProofs`). `UsedOnce` needs to know who may still use a key:
`UseInv` says that whoever is `Entitled` to one, a proxy that was granted and has not
started, a stream that was granted and has shown nothing, is alone with it and that it
has not been used. `ProxyInv` and `StreamInv` tie the place of a guard to the phase of
its call at the gate. The properties are proved together, because each step disturbs
parts of all of them. `ProxiesAnswerTruthfully` takes what the gate has granted and the
receipt it wrote from `ProxyInv`. `GuardsKeepToTheGate` is the refinement under the
identity: every step of a proxy or a stream is a step of `AuthorizationGate` or leaves
it alone, so that `GatewayImplementsGate` and this theorem meet in the same module.

*State files* (`StateFilesProofs`). A copy that is about to be written has everything
that was settled (`CopyIsCurrent`): whoever loads a file sees all settled additions,
and an addition is settled only if nobody else was working on the file, so no other
copy lacks it. A check that is about to save keeps a pin only if no check that was saved
saw drift (`CheckIsCurrent`).

*Packages* (`PackageLifecycleProofs`). `Reached` says of every place in a command what
the directories, the lock file and the command's own copy are there; `LifecycleInv`
joins it with what holds even when commands overlap (`Located`). `RolledBackTogether` is
about idle moments only and is not inductive; `InStep`, in the proofs, says that every
target of a name that is not in `broken` is as the lock file says if no command is working
on it, and as the place of its command says otherwise. Two theorems do without the
assumption that commands are alone. `OnlyAllowedIsInstalled`: what a command carries from
step to step is allowed and stays under the target it came from (`Carries`), so that
even a rollback over the files of another command puts back nothing else.
`CommandsOnlyGoForward`: each step lowers `StepsLeft` of its own command and moves no
other, so no overlap makes a command repeat a step.

*Scans* (`ScanCommandProofs`). The idea of `CommandInv` is that silence must mean work:
as long as nothing is on record, no limit exceeded, no coverage degraded, no entry
skipped or failed and no deadline passed, every analyzer before the current one has
looked at all its files and views (`LookedInv`). `PlaceInv` and `ItemsInv` say where
the loop is and which entries that place implies, `LateShows` that a deadline which
passed will be on record at the end. `ResultInv` carries this through the judgement, in
which PASS and CLEAR can be lost and only a closure that is SAFE keeps them, and
`PhaseInv` through the walk. `WalkInv` says that a reference of a page which was read is
a node, an edge or still on the stack, that there is one node for each fetched page, and
that the stack is a path of such nodes. `UnsafeDominatesUpToTheLimit` adds `NodesOnce`:
an address up to the last hop is one node, hence no conflict, and nothing can overwrite
UNSAFE. `FindingsOnlyWeigh` is about the judgement as a function: with more findings of
any kind neither status nor verdict nor severity is better; it holds through `Risk`,
`Verdict`, the closure and the flags, though a score, a maximum and a coverage decide
together.

That a command ends rests on `CommandsRunDown`, the theorem for `EveryStepCounts`: every
step of the program lowers `Remaining`, four natural numbers in lexicographic order
(phases; analyzers or targets; the place at an analyzer or the height of the stack; views
or references), and the deadline and a cancellation leave it alone. That an analyzer, a
fetch and the scan of a fetched page return, which their contexts and the limits on bytes
see to, is taken for granted.

Only model-checked: `ConsumeReturns`, since liveness under fairness is out of reach of
the prover here, and the two violations. Two action properties are proved and are in no
listed run: `NothingIsGivenBack` (`IsolatedRuntime`) and `NoWayBack`
(`PackageLifecycle`). They hold on the instances of their modules' runs, where a
`PROPERTY` line checks them.

## The plan

Written in this order: the ledgers, the engine, the gateway that joins them, the
attempts of a provider, the enforcer and the evaluation on top of it; then the guards
over the abstract gate, the state files, the packages, and the scan with its walk and
its policy; and the proofs about all of them. Runs that asked a part of what another
run asks were merged into it (the refinement of the gate into `execution_gateway`, the
enforcer alone into `isolated_runtime`).

What a next stage could add, in order of importance: an instance of the scan in which
the fetched pages are scanned by the pipeline itself instead of any result; the
watcher, as soon as it is said what it should report; signing and verifying of
receipts as a chain of records; a crash of the machine under the nonce directory.

## What is not modelled

Analyzers, lint rules, reports, encodings, evidence formats and the vendor clients are
functions from one document to another, and make up most of the code: a state model
says nothing about them, and a translation of their text processing would be another
program. They take part as what they may answer. HTTP retries, the consensus of
providers, and the ledgers of prerequisites and of completeness are loops and records
within one call of one goroutine, whose state no other step sees; the watcher is
discussed above. Signatures and digests are taken to be perfect: a digest is a model
value, and an authorization either passes the comparison with its keys or does not.
The file system's entries survive a crash of the process; a crash of the machine,
after which an entry that was synced may be missing because its directory was not, is
not modelled.

Three hazards have no property, because the code does not keep what one would ask: a
restart forgets the revocations of a gateway (authorization.go:521); overlapping
continuous checks bring a pin back (continuous.go:53); a page counts for the closure
without its files (transitive.go:324). The models contain all three. A receipt that cannot
be signed is not modelled: with the key the gateway was given, signing does not fail. Each
component with its status and reason is listed in `PROJECT.json`.
