# TikDD: TLA+ models, model checking and proofs

This directory models the parts of TikDD where processes meet: the public page, the API, the resolver
workers and the providers they call, the delivery gateway, the scheduled services, the owner's control
plane and the scripts that run all of it, around one PostgreSQL database, one Redis and one BullMQ
queue. `PROJECT.json` maps every definition to the lines it stands for, and lists the components, the
hazards, the runs, a bug each property detects, and the theorems.

## 1. Inventory

| Component | State it keeps | What is hard | What makes it correct |
| --- | --- | --- | --- |
| Resolve API and task admission (`apps/api`, `persistence/task-admission.ts`) | `resolve_tasks`, `active_source_admissions`, `resolve_task_idempotency` | races for a source and a key; expiry, crash and lost replies in between | ADR-0007, 4 and 5: one key is one task, a source has one active task |
| Resolver worker and task repository (`apps/worker`, `persistence/index.ts`) | task rows, the BullMQ job | redelivery, stalls, the post-provider boundary of ADR-0015 | every job ends, and its end tells the truth of its task |
| Anonymous admission (`admission-control`) | permits, references and counters in Redis | replays share a permit, crashes leak references, clocks expire | limits hold; a permit ends with its last reference or its TTL |
| Delivery tickets and gateway (`persistence/index.ts`, `apps/delivery`) | candidates, tickets, outcomes; a relay's connections | double redemption, expiry during redemption, cascades, redirects, ends too early | one redemption, at most one verdict, reviewed addresses only |
| Routing health (`routing-health`) | circuits and probe leases in Redis | stale snapshots, late results, overlapping refreshes | the circuit's diagram; one probe at a time |
| Provider router and adapters (`providers`) | attempts of a route, request slots | deadlines, aborts at any stage, fallback against retry | bounded calls; slots match calls; a final failure is final |
| Rollout control (`rollout-control`, `pilot-control.ts`) | rules, heads; snapshots in Redis and in workers | stale caches, reordered publications, deny against grant | a denial reaches every decision inside the stale bound |
| Route policies and ranking (`admin-route-policy.ts`, `route-policy`) | policies, revisions; the order a job tries | concurrent publications, resent commands | what was seen is published; the plan shown is the order tried by the tasks its grants admit |
| Content and presentation (`admin-content-publication.ts`, `admin-platform-presentation.ts`) | pages, snapshots, listings | crash between commit and completion, late completions | no draft is served; a listing was ready |
| Scheduled services (`cleanup`, `canary`, `evidence-evaluator`) | Redis leases, status rows | a run outliving its lease | one run works under a valid lease; a complete cleanup is complete |
| Pilot evidence, calibration and guards | daily evidence, proposals, policies, reviews, guards | late rows, overlapping cycles, stale readings, first commands that lock nothing | only an operator raises a guard; what a policy cites stays until it is deleted |
| Public page (`apps/web`) | a form, its key, its polls and downloads | lost answers, edits while a request is out | one task for a submission; buttons come back |
| Platform detection (`platform-detection`) | none | many spellings of one link | spellings served alike are one page |
| Internal runtime, production release, local stack (`scripts`, `tools`, `packages/*preflight*`) | attestations, locks, environment files, processes | kills between two steps, stale files, second invocations | what starts was reviewed; data that is migrated was let pass by its hook; stopped is stopped |

Accounts of the administration, its read models and console, contracts, the provider catalogue, the
yt-dlp runner and the provider lab are not modelled; section 7 says why.

The worker calls the router, which asks rollout control, route policies and routing health and runs
adapters; the API and the worker share a quota permit; the gateway redeems tickets of candidates the
worker stored; cleanup deletes under all of them; the control plane changes what the worker reads.

## 2. Modules

| Module | Models | Checked in | Proofs |
| --- | --- | --- | --- |
| `AdmissionPromise` | what ADR-0007 promises a client: abstract specification | `MCTaskLifecycle` | |
| `TaskLifecycle` | API handler, admission transaction, worker, BullMQ, cleanup of tasks | `MCTaskLifecycle` | `TaskLifecycle_proofs` |
| `AdmissionPermits` | the quota scripts and every call of them by the API and the worker | `MCEdge` | `AdmissionPermits_proofs` |
| `OneUseTicket` | what ADR-0005 and ADR-0009 promise of a ticket: abstract specification | `MCEdge` | |
| `DeliveryTickets` | tickets, redemption, the GET handler, recompletion and cleanup of one task | `MCEdge` | `DeliveryTickets_proofs` |
| `CircuitHealth` | one circuit: ranking, probes, refreshes | `MCCircuitHealth` | `CircuitHealth_proofs` |
| `ProviderAdapters`, `ProviderRoute` | the request programs of nineteen adapters; the router, its fallback, the queue's retry | `MCJobAndPage` | `JobAndPage_proofs` |
| `DeliveryGateway`, `ResolvePage` | from a ticket to the bytes; the visitor's form around them | `MCJobAndPage` | `JobAndPage_proofs` |
| `RolloutControl` | rules, publishers, the projection in Redis, workers' decisions | `MCRolloutControl`, `MCControlPlane` | `RolloutControl_proofs` |
| `RoutePolicyPublication`, `RouteRanking` | publication of provider orders; the order a job tries and the plan the owner sees | `MCControlPlane` | `ControlPlane_proofs` |
| `ContentPublication`, `PlatformPresentation` | snapshots of the site; listings of platforms | `MCControlPlane` | `ControlPlane_proofs` |
| `ScheduledOperations` | cleanup, canary and evidence runs under their leases | `MCOperations` | `Operations_proofs` |
| `PilotCalibration`, `PilotGuard` | evidence, proposals, policies, reviews; guards and the cycles that write them | `MCOperations` | `Operations_proofs` |
| `ProductionRelease`, `LocalStack`, `InternalRuntime` | the release script; the development stack; the internal window | `MCOperations` | `Operations_proofs` |
| `PlatformDetection` | links and the platforms they belong to | `MCOperations` | |

An `MC` module that joins several components joins parts that share no state: a behaviour moves one
part, the others keep the value they start with. This keeps the number of runs small and hides nothing,
since a step of one part is enabled by that part alone. Definitions whose comment says *Deviation* or
*A fault* are not part of a specification: they are plausible bugs that show what a property detects.

### TaskLifecycle

A task is named by the request that creates it (its id is random). `status`, `error`, `result`,
`ledger`, `activeRow` and `idem` are columns and tables; `lapsed` and `expired` say which rows are
past their `expires_at`, so time is only an order of events; `job`, `holder`, `attemptsMade`,
`stalls` and `failedEvents` are the BullMQ job; `run` is what a worker slot awaits. `outcome`,
`provided`, `faults` and `faulted` are history. One action is one statement, transaction or queue
call: `admit` runs under advisory locks on the source and the key, so it is one step, and
`completeWithResolution` locks the row. BullMQ is modelled from how `worker.ts` and `server.ts` use
it (external in the map): a job whose lock is lost is redelivered, at most `MaxStalls` times; a
result reported without the lock is ignored; the failed event is raised once, in memory.

Candidates and tickets are left to delivery, quotas to admission control, the router to one step with
three outcomes. PostgreSQL's `NOW()` is the start of the transaction; the model judges expiry at the
step, so a transaction that waits for a lock across an expiry is the same step taken just before it.
`detecting` is never written by the code and is not a status here.

### AdmissionPermits

`identity` and `references` are the hash and the reference set of a permit, `clientActive` and
`globalActive` the sorted sets, `clientRate` and `globalRate` the counters of the running windows. A
permit counts for the client that opened it. Each Lua script is one atomic action; `at` places a
request between the steps of its handler and of the worker that releases for it. A score may pass `now`
one step before the keys expire (`overdue`), the millisecond in which Redis still has both. A command
whose answer is lost may be sent again by ioredis (external), so a script may run twice for one
request. `cut` and `leaked` are history: references the TTL took, and references a fault left behind.
`retryAfter` arithmetic is left out, and of the admission transaction only the winner of a key is seen.

### DeliveryTickets

`stored` names the candidate by the completion that stored it; `row`, `ticketExpiry`, `validated` and
`handedOff` are columns of `delivery_tickets`; `outcomes` lists the anonymous outcome rows by the ticket
they stem from, a link only the model has. `now` is `NOW()`, a small clock, and expiries are computed as
the code computes them. Each transaction is one step, judged where it takes its row lock. Between
redemption and the recorded outcome the handler holds no lock, and completion, expiry, cleanup and
faults interleave there. The refinement maps `row` to the phase of the abstract ticket, the visit that
redeemed it to the winner and `outcomes` to the reports; one abstract `Close` stands for a cascade that
removes several tickets at once.

### CircuitHealth

`snapshot` is the circuit's key in Redis, `probeLease` and `aggregation` the two leases, `attempts` what
the health query selects (the latest attempt of each task), `call` the worker of a task between ranking
and the persisted attempt, `refresh` a loop between its two reads and its write. Each Lua script is one
step. `granted` and `overlapped` are history. A revision is only ever compared with the one a refresh
listed, so `current` says whether the snapshot is still that one; a new key starts its revisions again,
so the abstraction asks that a refresh ends before the key it listed can expire (`MaxRefresh <
SnapshotTtl`, seconds against 15 minutes). Rates, latencies and reasons only order the ranking and are
left out. A circuit that has just closed is judged by the whole window again (`aggregate.ts:300`), and a
non-probe call that ends after the move into half-open counts as a recovery: both are modelled.

### ProviderRoute with ProviderAdapters

An adapter is a table: for every stage, the code between two requests, the set of outcomes its parsing
can reach (the next stage, a resolution, or a failure with the two decisions `retryable` and
`fallbackAllowed` the code gives it), and what an abort and a broken exchange become. The router runs
these stages for several jobs at once: ranking (rollout and health leave any subset), the loop with its
leases, timeouts that may fire at any stage, slots that adapters share, the end of a route and the
queue's decision to run the job again. `calls` and `made` count a job's calls and are history. Nothing
is assumed of what a provider answers, or that it answers.

### ResolvePage with DeliveryGateway

The page is the state machine of `resolve-form.tsx` and its hooks: submissions with their key, lost
answers and retries, polling, edits, formats, downloads and combined plans. The gateway follows a
candidate's policy: host review at every hop, DNS, redirects up to `HopLimit`, ranges, declared and
actual lengths, timeouts. Bytes are counted in units of which a policy allows `ByteLimit`. A request the
page gives up has reached the API by then, or never will.

### The control plane

`RolloutControl`: rows with an audit sequence in PostgreSQL, writers as transactions that commit in any
order, snapshots as values copied to Redis and to workers with their TTL and stale bound. The bucket of a
task and the pilot guard can only turn an allowed call into a refused one and stay open here. A tick of the
clock is a stale interval. `MaxStale <= WorkerTtl` is what the worker's configuration enforces
(`worker/src/rollout.ts:86`); `MaxStale <= ProjectionTtl` is assumed (15 s against 60 s).

`RoutePolicyPublication`: drafts and published revisions by platform, a projection read by two queries on
two connections, resends, and workers that keep the last good order. `ContentPublication`: drafts, snapshots, the active pointer, commands with
receipts, revalidation, crashes between the commit and its completion. `PlatformPresentation`: a listing
and the readiness the service looks at before its transaction, which compares revisions only.

`RouteRanking`: the score with all its terms (priority, cost, success rate, p95 latency, friction, a place
in the preferred order), counted in two-hundredths of a point, so that the half basis points of a rate, and
their rounding on one side only, stay visible. A task is a function from providers to cohort buckets of
`Full`: the router admits a provider when the task's bucket is below the grant's allocation (or the guard's
cap), and its traffic bucket, of `Buckets`, then chooses among the shares. A hash is any bucket,
independently for each provider; two grants that are one rule give a task one bucket for both, so the
cohorts checked include those that occur. The plan of the administration is worked out beside it, as its
code does, from the same facts: it counts any positive allocation as allowed, rounds the rate, and uses
rates and latencies of few or outdated samples, which the router takes for none.

### Operations

`ScheduledOperations`: timers and operators start runs under a deployment lock; a run writes its status
row, takes a lease, works through stages or canaries, and writes again; `rows` are what a cleanup is
about and `owed` (history) what had expired when it began. `PilotGuard`: evidence
cycles that overlap when a lease lapses, and the guard row they contend for. `LocalStack`:
launchers, one stop command, three shared files. `InternalRuntime`: preflight, attestation, start and the
window's end, with edits in between. `MCOperations` extends all of these, so that the properties of its
run are the ones the theorems are about; a part that does not move keeps a state it can start in.
`PlatformDetection`: hosts as sequences of labels, the catalogue's
rules, tracking parameters, and the second detection by the worker.

`PilotCalibration`: `evidence` has the summary of each day, which a cleanup may delete after `Retention`
days; `proposals` has all that were made, also while others are open or locked, each with the days, the
revisions and the samples its owner saw; `found` are the days a policy was locked on. A command is checked
by the service on what it reads and committed in a later step. A command that expects no row may commit
whatever is there by then: `SELECT ... FOR UPDATE` locks nothing while there is no row, and the insert
overwrites (`Passed`). The evidence check of a lock is taken with its commit, for such a first command
too. A policy's version is taken to be the number of its proposal, in the order they are made. Canary and
guard answers, which could only refuse a review, are left out: any of them may come at any time.
A policy ends by its date; rows of proposals and policies are not deleted here, for they outlast the days
they cite, and an idempotent resend changes nothing. `PilotControlRepository.lockPolicy` is left out: only
verification scripts call it.

`ProductionRelease`: each command of the script is a sequence of steps, worked off one by one beside
other invocations, kills, backups and the operator's copying; `data` counts writes, so that `holds` says
how much of it a backup and the copy off the host have. Only the newest backup is copied, and a copy
replaces the last. The backup hook is the verifier next to the script, or any other command. A step's
container ends with its step, also when the script is killed. Steps that look at containers and inputs, or
start services that nothing here depends on, may fail and change nothing (`Quiet`); what a failing step
undoes besides Admin (temporary inputs, Cobalt) is left out, and so is the decision of the provider
preflight, which `InternalRuntime` has.

## 3. Runs

| Run | Instance | Shows |
| --- | --- | --- |
| `task_admission` | 3 requests for one source, two with one key; 1 worker, 1 attempt, no fault | answers are faithful to their key; the history is one of `AdmissionPromise`'s |
| `task_conflict` | one key for two sources; 2 attempts, 1 stall, 1 fault | sources are held as long as they should be and no longer; a reused key is refused |
| `task_retries` | 1 job, 2 workers, 3 attempts, 1 stall, 3 faults, fair | the post-provider boundary, truthful ends, every job ends |
| `task_overwrite` | 1 job, 1 worker, 1 attempt, 1 stall, 1 fault | finding: a redelivery overwrites a success |
| `edge` | 3 requests of 2 clients for 2 permits, limits 2, 3, 1 and 2, 1 fault; 2 tickets, 2 visits, 2 completions, task expiry 3, ticket life 2 | permits are exact and limits hold; tickets are one-use, current and recorded |
| `circuit_safety` | 2 tasks, 2 refresh loops, 3 calls, times 0 to 3; window 1, snapshot life 2, cooldown 1 to 2, leases 1 | the diagram; one live probe |
| `circuit_probe_fault` | 1 task, 1 loop, 3 calls, a refresh begun in every probe lease | finding: a probe's fault may never reopen the circuit |
| `circuit_recovery` | 2 tasks, 1 loop, a recovery count of 2 | finding: successes of successive probes do not add up |
| `job_and_page` | one job on each platform with every provider enabled, two jobs that share two providers; a page with two downloads | slots, budgets and final failures; one task a submission; bounded, reviewed downloads; waiting ends |
| `control_plane` | 3 rules, 1 worker, 2 content commands, 2 publications, 3 ranked providers in all their cohorts | denials, revisions, snapshots, listings, what the plan shown says of a task |
| `rollout_deny` | a tuple with a staged grant | finding: its emergency deny is refused |
| `operations` | 2 or 3 runs, evaluators, launchers or script invocations each | releases, calibration, leases, stops, the internal window, guards, links |

*Bounds.* Three requests are the fewest in which a replay, a duplicate and a fresh admission coexist; two
workers are what a lost lock needs; three attempts and one stall are the code's own. `MaxFaults` bounds
crashes and lost calls, three let a job meet one in each attempt. In `edge` two requests share a permit
while a third competes for its client's limit; the global active limit does not bind there, and is
covered by the theorem, which holds for all limits. Two tickets separate what a cascade does to several
from what happens to one; a task expiry of 3 and a ticket life of 2 make each expiry the earliest in some
behaviour. Three calls open a circuit and leave two for a probe and its rival; three instants are the
fewest in which a cooldown, a lease and a snapshot can each run out during a refresh. In `job_and_page`
one quota token, two attempts, two runs and one poll let a job meet every refusal, fallback and retry;
two jobs compete for a slot. In `control_plane` one stale interval, two audited changes and one worker are
enough for a stale snapshot to overtake a fresh one; larger instances (three changes, 15 million states)
were checked once while the proof was built. In `operations` two of every actor overlap, and each may die
once or twice; the script is asked to deploy and to start and stop Admin (the proofs cover every command),
with and without a hook, and one write separates the data from a copy taken before it. Its calibration
begins on day 5 with four days summarised and ends on day 7, by when day 1, whose summary lasts 6 days here
(401 in the code), is over and may be deleted; two proposals cite the window of days 1 to 4, and two
administrators send first commands at once. Deadlock checking is off: when every request is answered and every command used, nothing
is left to do.

*Fairness.* `task_retries`: a worker that does not crash takes its next step (Node runs ready callbacks);
BullMQ hands a waiting job to a free worker, runs its stalled check and calls the failed listener.
`job_and_page`: the worker runs its own code, its timers fire and an aborted request rejects; the page's
requests are answered or lost, its polling interval passes, and a client's download times out (the page's
own `fetch` calls have no timeout). Nothing is assumed of clients, providers, faults, time or cleanup.

*Symmetry* is used where every property is a safety property and names no member of the permuted set.

### Findings

`task_overwrite`: a worker dies, or loses its lock, after its task has committed as succeeded and before
BullMQ is told. The job is delivered again, and `markResolving`, which has no guard on the status, turns
the task back into resolving. If the second run meets only retryable provider failures, the exhaustion
handler finds a task that is not terminal and stores a failure over the success, which ADR-0015 excludes.

`circuit_probe_fault` and `circuit_recovery` share a cause: `acquireProbe` moves `lastTransitionAt` on
every grant, not only on the transition into half-open, and aggregation ignores what finished before it.
A probe fails, its attempt is persisted after a refresh has read the attempts, the lease runs out and the
next worker is granted a probe: the failure now lies before the transition and is never counted. For the
same reason a recovery count above one asks for successes that can hardly accumulate. The production
policy (ADR-0043) asks for one success and meets only the first of the two.

`rollout_deny`: the deny an administrator's pause inserts has an id of its own, and the selector is
unique, so that a grant staged for exactly that tuple makes the insert fail.

### Where the code does not do what one would expect

These came up while modelling. They are modelled as the code is, and are no runs of their own.

- `OneLiveProbe` needs a proviso: refreshes do not overlap. The code takes an aggregation lease (30 s in
  production) and never compares a refresh's duration with it; with an overlap, an old refresh may publish
  over a fresh circuit and a second probe is granted beside the first (four calls suffice).
- `NotReplayed` (`ProviderRoute`): a provider that is not to be called again by the queue may be, since
  the queue asks about the last provider of the route only (`resolve-job-processor.ts:163` against
  `retry-policy.ts:4`). `FrictionMovesBehind` (`RouteRanking`): a penalty for access friction can leave a
  provider where it was (`providers/index.ts:543` against ADR-0031:37).
- Rollout: a replayed command takes the *current* audit id for its own, and a command superseded while it
  propagates is answered "propagated" although another row is in force; `PropagatedMeansDenied` excludes
  both. The TTL of the key in Redis has to cover the stale bound: the worker checks that,
  `apply-rollout-rule.ts:37` and the administration's projection do not.
- Route policies: when two platforms are published at once the projection's revision can go back, and a
  snapshot's two queries are not one reading; a resend takes the current durable revision (ADR-0010:150).
- Content: a crash between the transaction and its completion leaves a snapshot `propagating` for ever,
  with publishing blocked and retry refused (ADR-0010:205-206); the pointer moves after the revalidation,
  not before it (ADR-0010:198-202); an older completion after a newer rollback moves the pointer back; a
  draft made ready between the view and the transaction is marked published though no snapshot has it; a
  page that is not required vanishes from the next snapshot while it has an unfinished draft.
- Presentation: a draft without a page is judged by the published revision's page (line 78 against
  `docs/work-item-12-5-implementation.md:29-38`); readiness may be stale at the commit; the retry of a
  completed publication ends in an error.
- Scheduled services: `MaxBatches` below the number of stages never reaches the later ones; a stage that
  keeps failing starves them too; a dead run's row stays "running"; an error while taking the lease is told
  as `lease_unavailable`; a canary run cut by its deadline is told as completed.
- Pilot: the absolute stop is always FALSE in a rebuilt day (`pilot-evidence.ts:190,198`); with four
  rebuilt days each day has one day to be sealed in, with three none ever is; locking a policy on a tuple
  that was never reviewed makes it internal; a review may rest on a readiness that is no longer true.
  First commands for a tuple are not serialised (`admin-qualification.ts:150`): revision 1 may be used twice
  and the later command overwrites the stage, so that a hold as `candidate` undoes a lock's `internal`, and
  an approval of `fixture-ready` does too, although "Approval may advance exactly one qualification stage"
  (`qualification-service.ts:96`). A proposal may be made while another is open or locked
  (`pilot-evidence.ts:256`), and the view compares its revisions with those of the days, not the days
  (`qualification-service.ts:59`). Summaries go after 400 days (`cleanup.ts:111`), whatever cites them.
- Plan: the owner is shown one plan, but with a staged grant of 1, 10 or 50 % most tasks do not try its
  primary (`decision.ts:97` against `console-model.ts:240`), and traffic shares hold among the tasks of one
  cohort only. The administration rounds rates and ranks by few or outdated samples, so routes may stand in
  another order than the router's (`read-service.ts:371`).
- Release: the verifier does not look how old a copy is or what it holds
  (`verify-postgres-backup.sh:27-35`), where `docs/work-item-16-deployment-design.md:340` asks for a current
  restore point: TLC reaches migrations of data that the copy holds less of, or none. Any command may be the
  hook. With a hook the confirmation of an empty database is not read, without one only an empty directory
  passes, as `docs/production-deployment.md:217-237` asks. `admin-start` without a stage-gate command leaves
  Admin running: `exit` inside `run_stage_gate` (line 462) passes by the cleanup of line 710, against
  `docs/production-deployment.md:297`, "startup or on-demand gate failure cleans up the Admin pair".
- Internal runtime: providers missing from `loadInternalRuntime`'s list (LocoLoader, 9xBuddy, GetXHamster,
  Cobalt, yt-dlp) are not seen by the check of the exact provider set; a public process given an internal
  queue is not refused (ADR-0018); a job left queued at the window's end is taken by the next window.
- Stack: a start that is refused removes `stop.requested`, so that a stop can time out; a launcher killed
  between spawning and recording leaves an orphan; a stop may remove a new launcher's files.
- Page: a retry with its key after the task has expired makes a new task; a stale task may be shown under
  an edited link; two policies of the gateway end a mismatch without a verdict.
- Detection: `www.` and a trailing dot are not normalised; a query is spelled anew only when a parameter
  was deleted. Adapters: 9xBuddy's `/cancel` is not sent on a timeout. `RESOLVER_CONCURRENCY` and its
  neighbours are parsed without a check.

## 4. Theorems

The theorems hold for every value of the constants that meets the `ASSUME` of the module: bounds are
naturals, `None` is no member of the sets it stands beside, a rule's requests are requests. Where several
modules meet in one run, each names what its theorems assume, and the theorems have it as a hypothesis:
`PolicyWorkload` (a command publishes or rolls back one platform and is not the editor),
`ContentWorkload` (the homepage is a page), `PresentationWorkload` (no command is the editor),
`PageWorkload` (bounds are naturals, no link is called none, the table of host policies is coherent),
`GuardWorkload` (the share a rollback leaves is an allocation, what an evaluator finds is a verdict),
`CalibrationWorkload` (days are numbered from 1, one review at least, summaries are kept longer than cycles go
back), `StackWorkload` (an application at
least, no launcher is called none), `RuntimeWorkload` (each role has its own environments, a day lasts
a tick at least) and `ReleaseWorkload` (what a run is bound to is an environment file). `MCControlPlane`,
`MCJobAndPage` and `MCOperations` assume them of their constants, so TLC evaluates them. Nothing is
assumed about sizes, and no theorem assumes that faults, crashes, stalls or clients are few. Every
inductive invariant was first checked by TLC on an instance of its module.

| Module | Theorem | Says |
| --- | --- | --- |
| `TaskLifecycle_proofs` | `TypeCorrect`, `AdmissionInvariant`, `JobInvariant` | typing; the two inductive invariants |
| | `FreshTaskOwnsItsSource`, `TerminalTaskReleasesSource` | a source is held exactly as long as its first task is unfinished |
| | `RepliesAreFaithful`, `AdmissionRefinement` | answers name a task of their key and source; `TaskLifecycle` implements `AdmissionPromise` |
| | `JobsTellTheTruth`, `SuccessIsNeverRetried` | a job's end is true of its task; a provider's success is not asked for again |
| `AdmissionPermits_proofs` | `PermitTypeCorrect`, `PermitInvariant` | typing; the inductive invariant |
| | `PermitsCountedExactly`, `ReferencesReleased`, `PermitsStayExact` | sets and permits agree; only a fault leaks |
| | `WorkStaysWithinLimits`, `ReplayIsNotRefused` | the limits count tasks at work, and never a replay |
| `DeliveryTickets_proofs` | `DeliveryInvariant` | the inductive invariant |
| | `ExpiriesAreNested`, `EveryHandoffIsRecorded`, `VisitsReceiveCurrentCandidates` | no ticket outlives its candidate, no handoff its record, no candidate its completion |
| | `TicketsAreOneUse` | `DeliveryTickets` implements `OneUseTicket` |
| `CircuitHealth_proofs` | `CircuitInvariant`, `CircuitFollowsDiagram` | the inductive invariant; every step is one of the diagram |
| | `OneProbeLivesAtATime`, `RefreshesTakeTurns` | one live probe while refreshes do not overlap; they do not where they end before their lease |
| `JobAndPage_proofs` | `AdaptersArePrograms` | what every adapter, on every platform, keeps to |
| | `RouteInvariant`, `SlotsAndCallsAreBounded`, `FinalWordsEndJobs` | the inductive invariant; slots match calls, calls stay within their budget; a final failure ends its job |
| | `PageInvariant`, `RetriesStayOneTask`, `SavedFilesAreBounded` | the inductive invariant; a link as entered has one live task the page does not know of; what is saved passed, within the client's limit |
| | `DeliveriesAreReviewed` | only reviewed addresses are reached, and what is recorded as passed was whole |
| `RolloutControl_proofs` | `RolloutInvariant`, `DenialTakesEffect`, `WorkersGoForward` | the inductive invariant; a denial binds in time and at once where that was told; no worker goes back |
| `ControlPlane_proofs` | `PolicyInvariant`, `PublicationsAreAsSeen`, `WorkersNeverGoBack` | the inductive invariant; a publication copies what its administrator saw, once; no worker goes back to an older projection |
| | `ContentInvariant`, `SnapshotsStaySound` | the inductive invariant; no unfinished draft in a snapshot, a homepage in the active one, one snapshot for a command |
| | `PresentationInvariant`, `ListingsWereReady` | the inductive invariant; what is listed had a ready page and a route while its command ran |
| `Operations_proofs` | `ScheduledTypeCorrect`, `ScheduledRunsKeepTheirWord` | typing; one run works under a valid lease, and a complete cleanup is complete |
| | `GuardInvariant`, `OnlyOperatorsRaiseGuards` | the inductive invariant; no evaluator raises a guard that exists |
| | `CalibrationInvariant`, `CalibrationIsKept` | the inductive invariant; what is cited stays as it was until it is deleted, policies are locked as proposed, and public traffic has one |
| | `StackInvariant`, `StopsAreComplete` | the inductive invariant; a successful stop leaves no application of the stack it read |
| | `RuntimeInvariant`, `WorkersStayInWindow`, `ProcessesStartAsReviewed` | the inductive invariant; no job is taken after the window; a service starts as its last ready review found it |
| | `ReleaseInvariant`, `ReleasesStayChecked` | the inductive invariant; migrated data was let pass by its hook, an open administration was checked |

*Admission of tasks.* Whether a finished task frees its source depends on which task the active row
names, whether an answer is faithful on what the key record said when it was read. `AdmissionInv` adds
those links: the active row and the key records name existing tasks of that source and key, and a request
that waits for its queue call owns its task. A lemma (`Effect`) sums up what any worker step may do to
the tables, so that the preservation proof has one case for the worker. The refinement uses the same
invariant: worker and cleanup steps map to abstract steps or stutter.

*Jobs.* `JobInv` is about each task on its own. `Followed` says for a task no fault has touched where its
job, the run on it and its row may stand together: unstarted, underway in exactly one run that holds the
lock, or settled, with results that the row shows. The proof has three kinds of cases: runs of other
tasks leave a task's view as it is (`SameTaskFollowed`), the single run on it moves it along
(`RunMoves`, `RunEnds`, `RunGoesOn`, `RunIsOver`), and queue, API and cleanup steps start, settle or
delete it. A task that met a crash, a lost call or a stalled live holder is left out: `task_overwrite`
shows that nothing could be said of it. `SuccessIsNeverRetried` has no such restriction.

*Permits.* `PermitInv` is `CountedExactly`, `NoStrayReference` and three strengthenings: the active sets
are within their limits, the work of a request holds a reference of its permit, and a key has one winner.
`WorkWithinLimits` follows by counting: mapping each task at work to its permit is injective and lands in
the active set, whose size is bounded (`FiniteSetTheorems`).

*Tickets.* `DeliveryInv` is typing, `ExpiryIsNested`, `VisitInv` (a used ticket has one visit, and that
visit stands where the ticket's columns say) and `OutcomeInv` (the outcomes of a ticket are what its
columns and its visit tell, also after the row is gone). The refinement mapping is `Phase` and `Winner`
with the outcomes as reports; a recompletion and each cleanup stage map to one `Close`.

*Circuits.* `CircuitInv` says that nothing carries a time to come, that a refresh has seen nothing newer
than what is stored, and that it publishes only over the circuit it has listed; the diagram (`Along`)
follows step by step. For the probes, a live probe is either held by the lease and the half-open circuit
(`Held`), or the circuit has left half-open and stays shut for as long as the lease would have lasted,
with every refresh under way begun after the grant (`Kept`). `Kept` is where the cooldown has to be no
shorter than the lease and where overlapping refreshes break it.

*Routes.* `Program` is all that the router's proof knows of an adapter: its stages lead to stages, only
its gate leads past itself, a failure that may be tried again does not forbid a fallback. It is shown for
each of the nineteen adapters from two lemmas, for adapters with and without a gate, whatever the
platform and whatever modes Cobalt is given. `JobInv` then ties a job's status to its stage, its slot, its
last attempt, and to the calls of its earlier runs and of this one: a provider still ahead in the loop was
called in earlier runs only, and the calls so far are `MaxAttempts` for each earlier run and the attempts
of this one. `MaxAttempts * run` bounds them at every end of a run, which starts the next one.

*Rollout.* A snapshot exists in many places: in Redis, in workers' memory, read by a decision or a
publisher and not yet used. `Around` is the set of all of them, `Known` adds what PostgreSQL would give
now, and a step only ever copies a known snapshot, drops one, or adds the durable one. `RolloutInv` says
of all of them at once that none is of the future, that none grants what was denied before it
(`Dated`), that revisions and times agree (`Ordered`), that a change that committed out of order is in no
snapshot of its number (`InOrder`), and that snapshots older than a told denial are too old to be taken
or will be when the Redis key that could be refused for them ends (`Outlived`).

*Route policies.* A command reads the draft when it locks the head row of its platform and copies it two
steps later. `PolicyInv` says that one command at a time holds a head (`OneHolder`), that what a holder may
copy it still may (`HeldStands`), that a draft is the newest revision (`DraftIsNewest`), so that nothing
lies between it and its copy, and that a command before its commit is in no history (`NotYet`): no crash
takes it back there, since a resent command finds its receipt. The projection's sequence is as long as the
set of commands that drew a number. For the workers, what is kept is whole or blank (`KeepsWhole`), so that
the comparison of revisions before each use is enough, although the two queries of a snapshot may see
different publications.

*Content.* `SnapshotsAreSound` is about what has been published, so `ContentInv` says it of all that a
snapshot may still come from: the pages a command holds and those of every snapshot are revisions that
exist and are no unfinished draft (`Sound`), although the pages go on being edited between a command's look
and its commit; an edit adds a revision and rewrites none. An acknowledgement is of pages that have the
homepage (`AcknowledgedHome`), so that what it makes active has it. Every snapshot's command has its
receipt, which the same command finds when it is sent again: it makes one snapshot.

*Listings.* `since` collects what has been true since a command began. `PresentationInv` says that what is
true now is in `since` of every busy command, that the revision it copies exists, that what its checks found
(a route, a page that was ready) is in its `since` (`LookedAt`), and that a command has made no
revision before it is done. Checks are made one after the other, so at the commit none of it need still be
true: `ListedWasReady` is what remains.

*The page.* `SubmissionInv` ties the form, the submission under way and the tasks. Keys and entries are
drawn in order (`InOrderOf`); a key has one live task, and tasks of the present entry that the page does
not know of are of the key the form holds (`KeysTell`); a submission under way has that key unless the link
was edited since, and what it is answered with is its key's one live task (`SubmissionTells`). With these,
no entry has two unknown live tasks (`OneUnseen`). `GatewayInv` says what each visit has reached, sent and
recorded (`Delivered`); `Transferred` that a download reads only what a visit handed over that ended as
passed, so that no later step of the gateway changes it, and that its total is within the limit.

*Scheduled services.* `HolderInv`: a run at work whose lease has not lapsed is the one the lease names.
`SweptInv`: what a cleanup owes had expired, and while a pass has removed nothing, what is still there
belongs to stages ahead of it; a batch that removes fewer rows than its size has left no lockable one
(`BatchRemoves`, by cardinality).

*Guards.* A cycle judges the guard it read and writes in a transaction that locks the row, possibly after
its lease is another's. `GuardInv` says that a judgement is one revision past the guard it judged
(`Judged`), and that one about to be written, which the transaction has compared with the row, is no raise
of the row it holds, or is the first guard of its tuple (`Writes`). The second case is real: nothing is
locked before there is a row, so `OnlyOperatorsRaise` excepts a first guard.

*Calibration.* `CalibrationHolds` is about every proposal ever made, and about all that may become of the
days it cites. `DaysGoOn` says of any step: a day that is over stays over, a sealed summary keeps its
revision and its samples or is deleted when the day is over, and such a day gets no new summary. The last
needs `Retention > RebuildDays`, which is why it is assumed: a cycle goes back less far than summaries are
kept, also one that began yesterday. `RestsOnDays` follows for each proposal. A policy is locked on what is
in the window then (`found`): three days. If none of the days cited is over, they are all there and are
three as well, so they are the same (`FoundDays`); one that is over may be hidden or deleted, and a day of
the window that was summarised late may have taken its place with the same revision. `CalibrationInv` adds
that a checked approval of limited traffic or more has a locked policy, whatever comes before its commit; a
first command approves the first stage only, so that the lost race takes no tuple to traffic.

*Stack.* A stop waits for the lock file to go, and what it may conclude depends on who removed it.
`StackInv` says that until a stop has ended the lock belongs to the launcher whose steps hold it, that the
recorded launcher is one that has had the lock, and that a live application is one its launcher spawned
and has not ended, or a killed launcher's (`LiveIsSpawned`). A stop that is done without a kill has
therefore waited for a launcher that ended, and such a launcher has left nothing live. After the stop the
lock says less: a stop may remove a newer launcher's files.

*Internal runtime.* An attestation file is what the last ready review of its role wrote (`Attests`), so
the comparison at start ties the process to that review although the environment may have been edited.
`InWindow`: while an internal process starts or serves, its timer is armed for the end of its window and
the clock has not passed it, since a due timer is taken before time goes on; a job in hand was therefore
taken within the window (`HeldBy`), also if its worker is closing and long past it.

*Release.* Each command of the script is a sequence of steps, and what makes it correct is an order.
`Orderly` says of a remaining sequence that the lock comes first or not at all, that it migrates at most
once, and that opening the administration is followed by its two checks and nothing else; `Before` that
the judgement comes before the migration. Both are shown for every command, whatever the environment
file, and kept as the steps are taken. `ReleaseInv` says of a running script that it has not locked
yet, or has the lock alone and has found what is no longer ahead of it (`LetPass`): a hook's word, a whole
copy of a state this database had, or a database without a schema, which only the migration that
follows under the same lock can give it. No backup and no copy holds more than the database
(`DataIsHeld`), since nothing but writes changes `data`, upwards. An unchecked administration is open only
under a script with nothing but its checks ahead, or after one that left it. Between runs the lock is free,
so neither is so. That a copy is recent is no theorem, for it need not be.

## 5. Only model-checked

- Liveness (`JobSettles` twice, `QueuedTaskDecided`, `WorkingEnds`): neither fairness nor `ENABLED` is in
  the prover's reach.
- What a fold or a recursive function computes for all inputs (`RankingIsAsPlanned` of `RouteRanking`,
  `SharedLinksAreOnePage` of `PlatformDetection`): induction over data is not either. The count of a job's
  calls is a variable of its own, `made`, for this reason.

Every other invariant and action property of the passing runs is a theorem. `OperationsTypeOK`, the types of all
parts of `MCOperations`, is in no run: every part's invariant but that of `PlatformDetection` has its types,
and TLC found it to hold once.

## 6. Plan

Every modelled component has its theorems. What may follow is breadth: the parts listed below, where one
of them comes to keep state of its own.

## 7. Not modelled

The administration's accounts (single-row writes behind one lock), its read models and console (queries
over state other components write; the one computation others rely on, the plan shown to the owner, is in
`RouteRanking`), contracts and seed content, the provider catalogue and the qualification of free
providers (data; there are 13 reasons against a `.max(12)` in `free-provider-qualification.ts:76`), the
yt-dlp runner (one call of an external binary), the beta report, the provider lab and the build. Within
modelled components: the restore drill, `admin-stack.mjs`, encryption of candidates, derivation of client
addresses, scores and texts, validation of plan fields, SEO checks, and the Vidomon adapter, which is
never constructed.

## 8. Running

`tlc -config <run>.cfg MC<Module>.tla` for each run of `PROJECT.json`; `tlapm <Module>_proofs.tla` for the
proofs. The largest, `operations`, has 1,609,350 distinct states; every run ends within three
minutes on two cores.
