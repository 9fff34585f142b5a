---------------------------- MODULE InternalRuntime ----------------------------
(***************************************************************************)
(* The internal calibration runtime: the preflight that reviews a          *)
(* deployment's environment, the short-lived attestation it writes, the    *)
(* startup of the API and the Worker that demand it, and the end of the    *)
(* three-day window, which closes both.  Between any two of these steps    *)
(* the operator may edit an environment, the measured signals may age, the *)
(* window may end, and a process may be stopped or killed.                 *)
(*                                                                         *)
(* A tick is the lifetime of an attestation (fifteen minutes at most); a   *)
(* preflight, which reads the clock twice, is one step.  The HMAC is       *)
(* modelled by what it does: an attestation in a file is one a preflight   *)
(* wrote.  Terms, secrets and other switches that the code only tests      *)
(* together are one member of the environment each.                        *)
(***************************************************************************)
EXTENDS Integers, FiniteSets

CONSTANTS
  EnvironmentOf,  \* the environments an operator may give each service
  Plan,           \* config/x-internal-preflight.json: deployment, region, providers, proxied
  KnownProviders, \* the providers loadInternalRuntime knows
  Manifest,       \* the manifests the preflight loads: enabled, regions, verified
  Day,            \* ticks of a day
  SignalBound,    \* ticks the cleanup and evidence signals stay fresh
  EditBound,      \* bound on the operator's edits of an environment
  Tasks,          \* the tasks a client submits
  LastTick        \* bound on the clock

VARIABLES
  now,            \* the clock
  environment,    \* each service's environment, as the operator left it
  edits,          \* how often the operator has edited one
  signals,        \* the operational signals the operator last wrote down
  file,           \* each service's attestation file, or {}
  process,        \* each service's process
  task,           \* where each task is
  reviewed        \* history: each service's last ready review, or {}

runtimeVars == <<now, environment, edits, signals, file, process, task, reviewed>>

Roles == {"api", "worker"}

Environments ==
  [role : STRING, class : STRING, stage : STRING, production : BOOLEAN, authorized : BOOLEAN,
   queue : STRING, from : Nat, to : Nat, deployment : STRING, region : STRING,
   providers : SUBSET STRING, controls : BOOLEAN, secrets : SUBSET STRING, proxied : BOOLEAN]

\* What the properties need of the constants.
RuntimeWorkload ==
  /\ \A s \in Roles : EnvironmentOf[s] \subseteq Environments
  /\ Day \in Nat \ {0} /\ LastTick \in Nat /\ SignalBound \in Nat /\ EditBound \in Nat

NoQueue == "none"
NoRuntime == [queue |-> NoQueue]
ServiceProcess(phase, kind, runtime, providers, end) ==
  [phase |-> phase, kind |-> kind, runtime |-> runtime, providers |-> providers, end |-> end]
Down == ServiceProcess("down", "none", NoRuntime, {}, -1)
Task(at, queue, takenAt) == [at |-> at, queue |-> queue, takenAt |-> takenAt]
Plainly(at) == Task(at, NoQueue, 0)

Processes == [phase : {"down", "starting", "serving", "closing"}, kind : {"none", "public", "internal"},
              runtime : Environments \cup {NoRuntime}, providers : SUBSET STRING, end : Nat \cup {-1}]
TaskStates == [at : {"new", "received", "lost", "queued", "active", "done"}, queue : STRING \cup {NoQueue}, takenAt : Nat]
Attestations == [runtime : Environments, issuedAt : Nat, expiresAt : Nat]
Reviewed == [runtime : Environments, at : Nat]

RuntimeTypeOK ==
  /\ now \in 0..LastTick
  /\ environment \in [Roles -> Environments]
  /\ edits \in 0..EditBound
  /\ signals \in [at : Nat \cup {-1}, healthy : BOOLEAN]
  /\ file \in [Roles -> SUBSET Attestations] /\ reviewed \in [Roles -> SUBSET Reviewed]
  /\ process \in [Roles -> Processes]
  /\ task \in [Tasks -> TaskStates]

-----------------------------------------------------------------------------
(* What the preflight and the startup read of an environment.              *)

\* The providers it does not list are not part of the runtime.
LoadInternalRuntime(e) == [e EXCEPT !.providers = @ \cap KnownProviders]

IsIsolated(r) == r.role \in Roles /\ r.authorized /\ r.queue # "resolve"

IsCurrentWindow(r, t) ==
  /\ r.from % Day = 0
  /\ r.from <= t /\ t < r.to
  /\ r.to - r.from = 3 * Day

WindowEndOfStage(e) == IF e.stage = "internal" THEN -1 ELSE e.to

\* The moment a process must close, or -1 for a public one.
WindowEnd(e) == IF e.class # "internal" /\ e.stage # "internal" THEN -1 ELSE e.to

\* The secrets each role must have.
RoleSecrets(role) ==
  (IF role = "worker" THEN {} ELSE {"admission", "diagnostics"})
  \cup (IF role = "api" THEN {} ELSE {"delivery", "rollout"})

\* providerCapabilityReason: a provider's manifest admits a region.
Admits(p, region) ==
  /\ p \in DOMAIN Manifest
  /\ Manifest[p].enabled /\ Manifest[p].verified
  /\ {"*", region} \cap Manifest[p].regions # {}

ExactScope(r) ==
  /\ r.deployment = Plan.deployment /\ r.region = Plan.region
  /\ r.stage = "internal" /\ r.class = "internal"
  /\ r.providers = Plan.providers

RuntimeSafe(r) == r.production /\ r.controls /\ RoleSecrets(r.role) \subseteq r.secrets

Fresh(at) == at >= 0 /\ at <= now /\ now - at <= SignalBound

\* evaluateInternalPreflight: every check passes.
Ready(r) ==
  /\ Plan.ready
  /\ ExactScope(r)
  /\ \A p \in Plan.providers : Admits(p, Plan.region)
  /\ RuntimeSafe(r)
  /\ IsIsolated(r)
  /\ IsCurrentWindow(r, now)
  /\ r.proxied = Plan.proxied
  /\ signals.healthy /\ Fresh(signals.at)

\* The attestation matches a runtime when the digest of all of it does.
MatchesRole(a, r) == a.runtime.role = r.role /\ a.runtime.queue = r.queue
Matches(a, r) == a.runtime = r

\* assertInternalStartup: what the service may be started as, or "refused".
StartsAs(s, e) ==
  LET r == LoadInternalRuntime(e) IN
  IF r.class # "internal" /\ r.stage # "internal" THEN "public"
  ELSE IF /\ r.class = "internal" /\ r.stage = "internal" /\ r.production
          /\ IsIsolated(r) /\ r.role = s
          /\ IsCurrentWindow(r, now)
          /\ \E a \in file[s] : /\ a.issuedAt <= now /\ now < a.expiresAt
                                /\ Matches(a, r)
  THEN "internal" ELSE "refused"

\* A Worker builds every provider its environment enables, the ones the
\* preflight does not list too.
WorkerProviders(e) == e.providers

-----------------------------------------------------------------------------
RuntimeInit ==
  /\ now = 0
  /\ environment \in {f \in [Roles -> UNION {EnvironmentOf[s] : s \in Roles}] :
                     \A s \in Roles : f[s] \in EnvironmentOf[s]}
  /\ edits = 0
  /\ signals = [at |-> -1, healthy |-> FALSE]
  /\ file = [s \in Roles |-> {}]
  /\ process = [s \in Roles |-> Down]
  /\ task = [t \in Tasks |-> Plainly("new")]
  /\ reviewed = [s \in Roles |-> {}]

\* The operator edits a service's environment, or writes down new signals.
EditEnvironment(s) ==
  /\ edits < EditBound
  /\ edits' = edits + 1
  /\ \E e \in EnvironmentOf[s] : environment' = [environment EXCEPT ![s] = e]
  /\ UNCHANGED <<now, signals, file, process, task, reviewed>>

Measure ==
  /\ \E h \in BOOLEAN : signals' = [at |-> now, healthy |-> h]
  /\ UNCHANGED <<now, environment, edits, file, process, task, reviewed>>

\* pnpm preflight:internal for one role.  A ready report writes the
\* attestation, unless the file is there already.
Preflight(s) ==
  LET r == LoadInternalRuntime(environment[s]) IN
  /\ Ready(r)
  /\ file[s] = {}
  /\ file' = [file EXCEPT ![s] = {[runtime |-> r, issuedAt |-> now, expiresAt |-> now + 1]}]
  /\ reviewed' = [reviewed EXCEPT ![s] = {[runtime |-> r, at |-> now]}]
  /\ UNCHANGED <<now, environment, edits, signals, process, task>>

RemoveFile(s) ==
  /\ file[s] # {}
  /\ file' = [file EXCEPT ![s] = {}]
  /\ UNCHANGED <<now, environment, edits, signals, process, task, reviewed>>

\* A service starts: the startup check, then the awaits before it serves.
StartProcess(s) ==
  LET e == environment[s] kind == StartsAs(s, e) IN
  /\ process[s].phase = "down"
  /\ kind # "refused"
  /\ process' = [process EXCEPT ![s] =
       ServiceProcess("starting", kind, LoadInternalRuntime(e), WorkerProviders(e), WindowEnd(e))]
  /\ UNCHANGED <<now, environment, edits, signals, file, task, reviewed>>

ProcessGoes(s, phase) ==
  process' = [process EXCEPT ![s] = ServiceProcess(phase, process[s].kind, process[s].runtime,
                                                   process[s].providers, process[s].end)]

\* It serves, with the timer of the window's end armed.
Serve(s) ==
  /\ process[s].phase = "starting"
  /\ ProcessGoes(s, "serving")
  /\ UNCHANGED <<now, environment, edits, signals, file, task, reviewed>>

\* The timer of the window's end, or a signal, closes the process.
TimerDue(s) ==
  /\ process[s].phase \in {"starting", "serving"}
  /\ process[s].end >= 0 /\ process[s].end <= now

Close(s) ==
  /\ process[s].phase = "serving"
  /\ ProcessGoes(s, "closing")
  /\ UNCHANGED <<now, environment, edits, signals, file, task, reviewed>>

\* A closing process ends when what it has in hand is done.
InHand(s) == {t \in Tasks : task[t].at = IF s = "api" THEN "received" ELSE "active"}

EndProcess(s) ==
  /\ process[s].phase = "closing"
  /\ InHand(s) = {}
  /\ process' = [process EXCEPT ![s] = Down]
  /\ UNCHANGED <<now, environment, edits, signals, file, task, reviewed>>

\* A killed process loses the requests it had; a job it was working on goes
\* back to its queue.
KillProcess(s) ==
  /\ process[s].phase # "down"
  /\ process' = [process EXCEPT ![s] = Down]
  /\ task' = [t \in Tasks |->
       IF t \notin InHand(s) THEN task[t]
       ELSE IF s = "api" THEN Plainly("lost") ELSE Task("queued", task[t].queue, 0)]
  /\ UNCHANGED <<now, environment, edits, signals, file, reviewed>>

\* POST /v1/resolve-tasks: refused once the window has ended; the admission
\* that follows takes time, and the task is queued after it.
Receive(t) ==
  LET api == process["api"] IN
  /\ task[t].at = "new"
  /\ api.phase = "serving"
  /\ api.end < 0 \/ now < api.end
  /\ task' = [task EXCEPT ![t] = Plainly("received")]
  /\ UNCHANGED <<now, environment, edits, signals, file, process, reviewed>>

Enqueue(t) ==
  /\ task[t].at = "received"
  /\ task' = [task EXCEPT ![t] = Task("queued", process["api"].runtime.queue, 0)]
  /\ UNCHANGED <<now, environment, edits, signals, file, process, reviewed>>

\* The admission refuses it, or the queue does.
Refuse(t) ==
  /\ task[t].at = "received"
  /\ task' = [task EXCEPT ![t] = Plainly("lost")]
  /\ UNCHANGED <<now, environment, edits, signals, file, process, reviewed>>

\* A Worker takes a job of its queue; nothing of the window is read here.
Take(t) ==
  LET worker == process["worker"] IN
  /\ worker.phase = "serving"
  /\ task[t].at = "queued" /\ task[t].queue = worker.runtime.queue
  /\ task' = [task EXCEPT ![t] = Task("active", task[t].queue, now)]
  /\ UNCHANGED <<now, environment, edits, signals, file, process, reviewed>>

FinishTask(t) ==
  /\ task[t].at = "active"
  /\ task' = [task EXCEPT ![t] = Plainly("done")]
  /\ UNCHANGED <<now, environment, edits, signals, file, process, reviewed>>

\* Timers fire within a tick, and a start takes less than one.
Tick ==
  /\ now < LastTick
  /\ \A s \in Roles : ~TimerDue(s) /\ process[s].phase # "starting"
  /\ now' = now + 1
  /\ UNCHANGED <<environment, edits, signals, file, process, task, reviewed>>

RuntimeNext ==
  \/ \E s \in Roles :
       EditEnvironment(s) \/ Preflight(s) \/ RemoveFile(s) \/ StartProcess(s) \/ Serve(s)
         \/ Close(s) \/ EndProcess(s) \/ KillProcess(s)
  \/ \E t \in Tasks : Receive(t) \/ Enqueue(t) \/ Refuse(t) \/ Take(t) \/ FinishTask(t)
  \/ Measure
  \/ Tick

RuntimeSpec == RuntimeInit /\ [][RuntimeNext]_runtimeVars

-----------------------------------------------------------------------------
\* A process starts as internal only with exactly the runtime that the last
\* ready preflight of its role reviewed, less than the life of one attestation
\* before, and inside its window: whatever the operator edited, and however
\* the signals and the window aged, in between.  Of the providers it builds,
\* those the preflight lists are the plan's; the others nobody reviewed.
StartsAsReviewed ==
  \A s \in Roles :
    process[s].phase = "down" /\ process'[s].phase = "starting"
      /\ process'[s].kind = "internal" =>
    LET p == process'[s] IN
    /\ p.runtime.role = s
    /\ p.providers \cap KnownProviders = Plan.providers
    /\ IsCurrentWindow(p.runtime, now)
    /\ \E v \in reviewed[s] : v.runtime = p.runtime /\ v.at <= now /\ now <= v.at + 1

StartedAsReviewed == [][StartsAsReviewed]_runtimeVars

\* An internal Worker takes no job once its window is over (but for the moment
\* its timer needs), though it may still be at work on one.
WorkStaysInWindow ==
  \A t \in Tasks : task[t].at = "active" /\ process["worker"].kind = "internal" =>
    task[t].takenAt <= process["worker"].runtime.to
=============================================================================
