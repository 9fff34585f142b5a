---------------------------- MODULE TaskLifecycle ----------------------------
(***************************************************************************)
(* The life of a resolve task, from the POST that asks for it to the       *)
(* cleanup that deletes it.  Three kinds of process share one PostgreSQL   *)
(* database and one BullMQ queue:                                          *)
(*                                                                         *)
(*   - the API handler of apps/api/src/server.ts, one per request: it      *)
(*     admits the request in one transaction, then adds the job;           *)
(*   - the resolver workers of apps/worker: markResolving, route,          *)
(*     complete or fail, one statement or transaction per step;            *)
(*   - the cleanup service, which removes what has expired.                *)
(*                                                                         *)
(* A task id is generated per request, so a task is named by the request   *)
(* that created it.  Time is abstract: "lapsed" and "expired" hold the     *)
(* tasks whose active-source row, or whose own row, is past expires_at.    *)
(* Faults (a crash, a lost connection, a lost queue lock) are counted and  *)
(* bounded by MaxFaults; "faulted" remembers the tasks they touched.       *)
(***************************************************************************)
EXTENDS Naturals, FiniteSets

CONSTANTS
  Requests,     \* POST /v1/resolve-tasks requests, and the tasks they may create
  Sources,      \* canonical sources (observation class, platform and URL)
  Keys,         \* Idempotency-Key values
  Workers,      \* resolver worker slots
  SourceOf,     \* the canonical source each request asks for
  KeyOf,        \* the key each request carries, or None
  None,         \* SQL NULL, no row, no lock owner
  MaxAttempts,  \* resolveJobAttemptsForPlatform: 1 or 3 in the code
  MaxStalls,    \* BullMQ maxStalledCount
  MaxFaults     \* bound on crashes and failed calls

ASSUME ConstantsAssumption ==
  /\ SourceOf \in [Requests -> Sources]
  /\ KeyOf \in [Requests -> Keys \cup {None}]
  /\ None \notin Requests /\ None \notin Keys /\ None \notin Workers
  /\ MaxAttempts \in Nat \ {0} /\ MaxStalls \in Nat /\ MaxFaults \in Nat

VARIABLES
  status,       \* resolve_tasks.status; "none" before the INSERT, "deleted" after the DELETE
  error,        \* resolve_tasks.error: exhaustion, or any other code
  result,       \* tasks whose result column is not NULL
  ledger,       \* tasks with a succeeded row in provider_attempts
  activeRow,    \* active_source_admissions: the task that occupies a source
  idem,         \* resolve_task_idempotency: the task a key is bound to
  lapsed,       \* tasks whose active-source expiry has passed
  expired,      \* tasks whose own expiry has passed
  api,          \* where the handler of each request is
  replyTask,    \* the task a request was answered 202 with
  job,          \* state of the BullMQ job of a task
  holder,       \* worker that owns the job's lock
  attemptsMade, \* job.attemptsMade
  stalls,       \* stalled counter of the job
  failedEvents, \* jobs whose final "failed" event is still to be handled
  run,          \* what each worker slot is doing
  outcome,      \* history: the first terminal status of a task
  provided,     \* history: tasks for which a provider returned a resolution
  faults,       \* history: number of faults so far
  faulted       \* history: tasks a fault has touched

dbVars      == <<status, error, result, ledger, activeRow, idem>>
clockVars   == <<lapsed, expired>>
apiVars     == <<api, replyTask>>
queueVars   == <<job, holder, attemptsMade, stalls, failedEvents>>
faultVars   == <<faults, faulted>>
vars == <<dbVars, clockVars, apiVars, queueVars, run, outcome, provided, faultVars>>

Live      == {"queued", "resolving"}
Terminal  == {"succeeded", "failed", "expired"}
Statuses  == Live \cup Terminal \cup {"none", "deleted"}
ErrorCodes == {"none", "PROVIDER_UNAVAILABLE", "OTHER"}
ApiSteps  == {"new", "enqueue", "queueFailed", "accepted", "rejected", "crashed"}
JobStates == {"none", "waiting", "active", "completed", "failed"}
RunSteps  == {"idle", "mark", "route", "fail", "complete", "post",
              "completed", "retry", "unrecoverable"}

Idle == [job |-> None, at |-> "idle", resolved |-> FALSE]

DatabaseTypeOK ==
  /\ status \in [Requests -> Statuses]
  /\ error \in [Requests -> ErrorCodes]
  /\ result \subseteq Requests
  /\ ledger \subseteq Requests
  /\ activeRow \in [Sources -> Requests \cup {None}]
  /\ idem \in [Keys -> Requests \cup {None}]
  /\ outcome \in [Requests -> {"none", "succeeded", "failed"}]

ClockTypeOK ==
  /\ lapsed \subseteq Requests
  /\ expired \subseteq lapsed

ApiTypeOK ==
  /\ api \in [Requests -> ApiSteps]
  /\ replyTask \in [Requests -> Requests \cup {None}]

QueueTypeOK ==
  /\ job \in [Requests -> JobStates]
  /\ holder \in [Requests -> Workers \cup {None}]
  /\ attemptsMade \in [Requests -> Nat]
  /\ stalls \in [Requests -> Nat]
  /\ failedEvents \subseteq Requests

RunTypeOK ==
  /\ run \in [Workers -> [job : Requests \cup {None}, at : RunSteps, resolved : BOOLEAN]]
  /\ \A w \in Workers : run[w].at # "idle" => run[w].job \in Requests

HistoryTypeOK ==
  /\ provided \subseteq Requests
  /\ faults \in Nat
  /\ faulted \subseteq Requests

TypeOK ==
  DatabaseTypeOK /\ ClockTypeOK /\ ApiTypeOK /\ QueueTypeOK /\ RunTypeOK /\ HistoryTypeOK

Init ==
  /\ status = [t \in Requests |-> "none"]
  /\ error = [t \in Requests |-> "none"]
  /\ result = {} /\ ledger = {}
  /\ activeRow = [s \in Sources |-> None]
  /\ idem = [k \in Keys |-> None]
  /\ lapsed = {} /\ expired = {}
  /\ api = [r \in Requests |-> "new"]
  /\ replyTask = [r \in Requests |-> None]
  /\ job = [t \in Requests |-> "none"]
  /\ holder = [t \in Requests |-> None]
  /\ attemptsMade = [t \in Requests |-> 0]
  /\ stalls = [t \in Requests |-> 0]
  /\ failedEvents = {}
  /\ run = [w \in Workers |-> Idle]
  /\ outcome = [t \in Requests |-> "none"]
  /\ provided = {}
  /\ faults = 0 /\ faulted = {}

(* A fault that touches the tasks of T. *)
Fault(T) ==
  /\ faults < MaxFaults
  /\ faults' = faults + 1
  /\ faulted' = faulted \cup T

-----------------------------------------------------------------------------
(* Statements of TaskRepository.                                           *)

(* A row that "WHERE id = $1 AND expires_at > NOW()" finds. *)
Readable(t) == status[t] \notin {"none", "deleted"} /\ t \notin expired

(* DELETE FROM active_source_admissions WHERE task_id = t *)
ReleaseSource(t) == [s \in Sources |-> IF activeRow[s] = t THEN None ELSE activeRow[s]]

FirstOutcome(t, o) == [outcome EXCEPT ![t] = IF @ = "none" THEN o ELSE @]

(* TaskRepository.fail: the UPDATE has no guard on the status, and does    *)
(* not touch the result column.                                            *)
fail(t, code) ==
  IF Readable(t)
  THEN /\ status' = [status EXCEPT ![t] = "failed"]
       /\ error' = [error EXCEPT ![t] = code]
       /\ activeRow' = ReleaseSource(t)
       /\ outcome' = FirstOutcome(t, "failed")
       /\ UNCHANGED <<result, ledger, idem>>
  ELSE UNCHANGED <<dbVars, outcome>>

(* Deviation: the exhausted task keeps its admission row.                  *)
failWithoutRelease(t, code) ==
  IF Readable(t) /\ status[t] \in Live
  THEN /\ status' = [status EXCEPT ![t] = "failed"]
       /\ error' = [error EXCEPT ![t] = code]
       /\ result' = result \ {t}
       /\ outcome' = FirstOutcome(t, "failed")
       /\ UNCHANGED <<ledger, activeRow, idem>>
  ELSE UNCHANGED <<dbVars, outcome>>

(* TaskRepository.failIfNonTerminal. *)
failIfNonTerminal(t, code) ==
  IF Readable(t) /\ status[t] \in Live
  THEN /\ status' = [status EXCEPT ![t] = "failed"]
       /\ error' = [error EXCEPT ![t] = code]
       /\ result' = result \ {t}
       /\ activeRow' = ReleaseSource(t)
       /\ outcome' = FirstOutcome(t, "failed")
       /\ UNCHANGED <<ledger, idem>>
  ELSE UNCHANGED <<dbVars, outcome>>

(* TaskRepository.failAfterProviderResolution: missing and terminal rows   *)
(* are left alone, otherwise the returned attempts are kept as well.       *)
failAfterProviderResolution(t) ==
  IF Readable(t) /\ status[t] \notin Terminal
  THEN /\ status' = [status EXCEPT ![t] = "failed"]
       /\ error' = [error EXCEPT ![t] = "OTHER"]
       /\ result' = result \ {t}
       /\ ledger' = ledger \cup {t}
       /\ activeRow' = ReleaseSource(t)
       /\ outcome' = FirstOutcome(t, "failed")
       /\ UNCHANGED idem
  ELSE UNCHANGED <<dbVars, outcome>>

(* TaskRepository.completeWithResolution, when it commits. *)
completeWithResolution(t) ==
  /\ Readable(t)
  /\ status' = [status EXCEPT ![t] = "succeeded"]
  /\ error' = [error EXCEPT ![t] = "none"]
  /\ result' = result \cup {t}
  /\ ledger' = ledger \cup {t}
  /\ activeRow' = ReleaseSource(t)
  /\ outcome' = FirstOutcome(t, "succeeded")
  /\ UNCHANGED idem

(* TaskRepository.markResolving: any unexpired row, whatever its status.   *)
markResolving(t) ==
  IF Readable(t)
  THEN /\ status' = [status EXCEPT ![t] = "resolving"]
       /\ error' = [error EXCEPT ![t] = "none"]
       /\ UNCHANGED <<result, ledger, activeRow, idem>>
  ELSE UNCHANGED dbVars

-----------------------------------------------------------------------------
(* The API handler.  TaskAdmissionRepository.admit is one transaction      *)
(* under advisory locks on the source and the key, hence one step.         *)

Replays(r) ==
  KeyOf[r] # None /\ idem[KeyOf[r]] # None /\ idem[KeyOf[r]] \notin expired

(* The row that survives the DELETE of lapsed and terminal rows. *)
SourceBusy(s) ==
  /\ activeRow[s] # None
  /\ activeRow[s] \notin lapsed
  /\ status[activeRow[s]] \notin Terminal

(* The DELETE of the expired idempotency row of r's key. *)
PurgedIdem(r) ==
  [k \in Keys |-> IF k = KeyOf[r] /\ idem[k] \in expired THEN None ELSE idem[k]]

(* Deviation: the request fingerprint is not compared.                     *)
AdmitReplayedByKeyAlone(r) ==
  /\ api[r] = "new"
  /\ Replays(r)
  /\ api' = [api EXCEPT ![r] = "accepted"]
  /\ replyTask' = [replyTask EXCEPT ![r] = idem[KeyOf[r]]]
  /\ UNCHANGED <<dbVars, clockVars, queueVars, run, outcome, faultVars, provided>>

AdmitReplayed(r) ==
  /\ api[r] = "new"
  /\ Replays(r)
  /\ SourceOf[idem[KeyOf[r]]] = SourceOf[r]
  /\ api' = [api EXCEPT ![r] = "accepted"]
  /\ replyTask' = [replyTask EXCEPT ![r] = idem[KeyOf[r]]]
  /\ UNCHANGED <<dbVars, clockVars, queueVars, run, outcome, faultVars, provided>>

AdmitConflict(r) ==
  /\ api[r] = "new"
  /\ Replays(r)
  /\ SourceOf[idem[KeyOf[r]]] # SourceOf[r]
  /\ api' = [api EXCEPT ![r] = "rejected"]
  /\ UNCHANGED <<dbVars, clockVars, replyTask, queueVars, run, outcome, faultVars, provided>>

AdmitDuplicate(r) ==
  /\ api[r] = "new"
  /\ ~Replays(r)
  /\ SourceBusy(SourceOf[r])
  /\ idem' = PurgedIdem(r)
  /\ api' = [api EXCEPT ![r] = "rejected"]
  /\ UNCHANGED <<status, error, result, ledger, activeRow, clockVars, replyTask,
                 queueVars, run, outcome, faultVars, provided>>

(* Deviation: the active source is not looked at.                          *)
InsertTaskUnchecked(r) ==
  /\ api[r] = "new"
  /\ ~Replays(r)
  /\ status' = [status EXCEPT ![r] = "queued"]
  /\ activeRow' = [activeRow EXCEPT ![SourceOf[r]] = r]
  /\ idem' = [k \in Keys |-> IF k = KeyOf[r] THEN r ELSE idem[k]]
  /\ UNCHANGED <<error, result, ledger, clockVars, replyTask, queueVars, run, outcome, provided>>

InsertTask(r) ==
  /\ api[r] = "new"
  /\ ~Replays(r)
  /\ ~SourceBusy(SourceOf[r])
  /\ status' = [status EXCEPT ![r] = "queued"]
  /\ activeRow' = [activeRow EXCEPT ![SourceOf[r]] = r]
  /\ idem' = [k \in Keys |-> IF k = KeyOf[r] THEN r ELSE idem[k]]
  /\ UNCHANGED <<error, result, ledger, clockVars, replyTask, queueVars, run, outcome, provided>>

AdmitCreated(r) ==
  /\ InsertTask(r)
  /\ api' = [api EXCEPT ![r] = "enqueue"]
  /\ UNCHANGED faultVars

(* The COMMIT took effect but its acknowledgement was lost: 503. *)
AdmitUnseen(r) ==
  /\ InsertTask(r)
  /\ api' = [api EXCEPT ![r] = "rejected"]
  /\ Fault({r})

(* The transaction failed and rolled back: 503. *)
AdmitFailed(r) ==
  /\ api[r] = "new"
  /\ Fault({})
  /\ api' = [api EXCEPT ![r] = "rejected"]
  /\ UNCHANGED <<dbVars, clockVars, replyTask, queueVars, run, outcome, provided>>

(* resolveQueue.add with jobId = task id. *)
AddJob(r) == job' = [job EXCEPT ![r] = "waiting"]

Enqueue(r) ==
  /\ api[r] = "enqueue"
  /\ AddJob(r)
  /\ api' = [api EXCEPT ![r] = "accepted"]
  /\ replyTask' = [replyTask EXCEPT ![r] = r]
  /\ UNCHANGED <<dbVars, clockVars, holder, attemptsMade, stalls, failedEvents, run,
                 outcome, faultVars, provided>>

(* add() rejected: the job may or may not have reached Redis. *)
EnqueueFailed(r) ==
  /\ api[r] = "enqueue"
  /\ Fault({r})
  /\ AddJob(r) \/ UNCHANGED job
  /\ api' = [api EXCEPT ![r] = "queueFailed"]
  /\ UNCHANGED <<dbVars, clockVars, replyTask, holder, attemptsMade, stalls, failedEvents,
                 run, outcome, provided>>

FailUnqueuedTask(r) ==
  /\ api[r] = "queueFailed"
  /\ fail(r, "OTHER")
  /\ api' = [api EXCEPT ![r] = "rejected"]
  /\ UNCHANGED <<clockVars, replyTask, queueVars, run, faultVars, provided>>

(* The API process dies between two steps of the handler, or tasks.fail    *)
(* itself fails: nothing else happens for this request.                    *)
ApiCrash(r) ==
  /\ api[r] \in {"enqueue", "queueFailed"}
  /\ Fault({r})
  /\ api' = [api EXCEPT ![r] = "crashed"]
  /\ UNCHANGED <<dbVars, clockVars, replyTask, queueVars, run, outcome, provided>>

-----------------------------------------------------------------------------
(* The worker: processResolveJob, one action per awaited call.             *)

At(w, step) == run[w].at = step
GoTo(w, step) == run' = [run EXCEPT ![w].at = step]

Take(w, t) ==
  /\ At(w, "idle") /\ job[t] = "waiting"
  /\ job' = [job EXCEPT ![t] = "active"]
  /\ holder' = [holder EXCEPT ![t] = w]
  /\ run' = [run EXCEPT ![w] = [job |-> t, at |-> "mark", resolved |-> FALSE]]
  /\ UNCHANGED <<dbVars, clockVars, apiVars, attemptsMade, stalls, failedEvents, outcome,
                 faultVars, provided>>

MarkResolving(w) ==
  /\ At(w, "mark")
  /\ markResolving(run[w].job)
  /\ GoTo(w, "route")
  /\ UNCHANGED <<clockVars, apiVars, queueVars, outcome, faultVars, provided>>

(* verifyResolveJobPlatform throws ResolveJobPlatformMismatchError. *)
PlatformMismatch(w) ==
  /\ At(w, "route")
  /\ fail(run[w].job, "OTHER")
  /\ GoTo(w, "unrecoverable")
  /\ UNCHANGED <<clockVars, apiVars, queueVars, faultVars, provided>>

RouteSucceeds(w) ==
  /\ At(w, "route")
  /\ run' = [run EXCEPT ![w] = [job |-> run[w].job, at |-> "complete", resolved |-> TRUE]]
  /\ provided' = provided \cup {run[w].job}
  /\ UNCHANGED <<dbVars, clockVars, apiVars, queueVars, outcome, faultVars>>

(* A retryable ProviderRoutingError, rethrown after its attempts are kept, *)
(* or any other exception of the router.                                   *)
RouteRetryable(w) ==
  /\ At(w, "route")
  /\ GoTo(w, "retry")
  /\ UNCHANGED <<dbVars, clockVars, apiVars, queueVars, outcome, faultVars, provided>>

RouteFails(w) ==
  /\ At(w, "route")
  /\ GoTo(w, "fail")
  /\ UNCHANGED <<dbVars, clockVars, apiVars, queueVars, outcome, faultVars, provided>>

(* Deviation: a final failure is not written before the job is given up.   *)
FailTaskSilently(w) ==
  /\ At(w, "fail")
  /\ GoTo(w, "unrecoverable")
  /\ UNCHANGED <<dbVars, clockVars, apiVars, queueVars, outcome, faultVars, provided>>

FailTask(w) ==
  /\ At(w, "fail")
  /\ fail(run[w].job, "OTHER")
  /\ GoTo(w, "unrecoverable")
  /\ UNCHANGED <<clockVars, apiVars, queueVars, faultVars, provided>>

(* markResolving, recordProviderAttempts or fail throws: an ordinary job   *)
(* failure.                                                                *)
DatabaseError(w) ==
  /\ run[w].at \in {"mark", "fail"}
  /\ Fault({run[w].job})
  /\ GoTo(w, "retry")
  /\ UNCHANGED <<dbVars, clockVars, apiVars, queueVars, outcome, provided>>

Complete(w) ==
  /\ At(w, "complete")
  /\ completeWithResolution(run[w].job)
  /\ \/ GoTo(w, "completed") /\ UNCHANGED faultVars
     \/ GoTo(w, "post") /\ Fault({run[w].job})      \* committed, answer lost
  /\ UNCHANGED <<clockVars, apiVars, queueVars, provided>>

(* Deviation: a local failure after the provider succeeded is rethrown.    *)
CompletionFailureRethrown(w) ==
  /\ At(w, "complete")
  /\ GoTo(w, "retry")
  /\ UNCHANGED <<dbVars, clockVars, apiVars, queueVars, outcome, faultVars, provided>>

(* Candidate preparation throws, or the transaction rolls back: the task   *)
(* has expired, a candidate is invalid, the database is unavailable.       *)
CompletionFails(w) ==
  /\ At(w, "complete")
  /\ GoTo(w, "post")
  /\ UNCHANGED <<dbVars, clockVars, apiVars, queueVars, outcome, faultVars, provided>>

PersistPostProviderFailure(w) ==
  /\ At(w, "post")
  /\ \/ failAfterProviderResolution(run[w].job) /\ UNCHANGED faultVars
     \/ Fault({run[w].job}) /\ UNCHANGED <<dbVars, outcome>>
  /\ GoTo(w, "unrecoverable")
  /\ UNCHANGED <<clockVars, apiVars, queueVars, provided>>

-----------------------------------------------------------------------------
(* BullMQ, as the worker uses it.                                          *)

OwnsLock(w) == holder[run[w].job] = w /\ job[run[w].job] = "active"

(* moveToFailed without a retry left. *)
FailJob(t) ==
  /\ attemptsMade' = [attemptsMade EXCEPT ![t] = @ + 1]
  /\ job' = [job EXCEPT ![t] = "failed"]
  /\ holder' = [holder EXCEPT ![t] = None]
  /\ failedEvents' = failedEvents \cup {t}

SettleCompleted(w) ==
  /\ At(w, "completed") /\ OwnsLock(w)
  /\ job' = [job EXCEPT ![run[w].job] = "completed"]
  /\ holder' = [holder EXCEPT ![run[w].job] = None]
  /\ run' = [run EXCEPT ![w] = Idle]
  /\ UNCHANGED <<dbVars, clockVars, apiVars, attemptsMade, stalls, failedEvents, outcome,
                 faultVars, provided>>

(* Deviation: the attempt that failed is not counted.                      *)
SettleRetryUncounted(w) ==
  LET t == run[w].job IN
  /\ At(w, "retry") /\ OwnsLock(w)
  /\ job' = [job EXCEPT ![t] = "waiting"]
  /\ holder' = [holder EXCEPT ![t] = None]
  /\ run' = [run EXCEPT ![w] = Idle]
  /\ UNCHANGED <<dbVars, clockVars, apiVars, attemptsMade, failedEvents, stalls, outcome,
                 faultVars, provided>>

SettleRetry(w) ==
  LET t == run[w].job IN
  /\ At(w, "retry") /\ OwnsLock(w)
  /\ IF attemptsMade[t] + 1 < MaxAttempts
     THEN /\ attemptsMade' = [attemptsMade EXCEPT ![t] = @ + 1]
          /\ job' = [job EXCEPT ![t] = "waiting"]
          /\ holder' = [holder EXCEPT ![t] = None]
          /\ UNCHANGED failedEvents
     ELSE FailJob(t)
  /\ run' = [run EXCEPT ![w] = Idle]
  /\ UNCHANGED <<dbVars, clockVars, apiVars, stalls, outcome, faultVars, provided>>

SettleUnrecoverable(w) ==
  /\ At(w, "unrecoverable") /\ OwnsLock(w)
  /\ FailJob(run[w].job)
  /\ run' = [run EXCEPT ![w] = Idle]
  /\ UNCHANGED <<dbVars, clockVars, apiVars, stalls, outcome, faultVars, provided>>

(* Settling with a lost lock changes nothing and raises no failed event. *)
SettleWithoutLock(w) ==
  /\ run[w].at \in {"completed", "retry", "unrecoverable"} /\ ~OwnsLock(w)
  /\ run' = [run EXCEPT ![w] = Idle]
  /\ UNCHANGED <<dbVars, clockVars, apiVars, queueVars, outcome, faultVars, provided>>

WorkerCrash(w) ==
  /\ ~At(w, "idle")
  /\ Fault({run[w].job})
  /\ run' = [run EXCEPT ![w] = Idle]
  /\ UNCHANGED <<dbVars, clockVars, apiVars, queueVars, outcome, provided>>

(* The stalled check finds an active job without a lock: its worker is     *)
(* gone, or (a fault) alive but unable to renew the lock in time.          *)
HolderGone(t) == \A w \in Workers : ~(holder[t] = w /\ run[w].job = t)

Stall(t) ==
  /\ job[t] = "active"
  /\ \/ HolderGone(t) /\ UNCHANGED faultVars
     \/ ~HolderGone(t) /\ Fault({t})
  /\ IF stalls[t] < MaxStalls
     THEN /\ stalls' = [stalls EXCEPT ![t] = @ + 1]
          /\ job' = [job EXCEPT ![t] = "waiting"]
          /\ holder' = [holder EXCEPT ![t] = None]
          /\ UNCHANGED <<attemptsMade, failedEvents>>
     ELSE FailJob(t) /\ UNCHANGED stalls
  /\ UNCHANGED <<dbVars, clockVars, apiVars, run, outcome, provided>>

(* Deviation: exhaustion is looked for one attempt too late.               *)
HandleExhaustedLate(t) ==
  /\ t \in failedEvents
  /\ failedEvents' = failedEvents \ {t}
  /\ IF attemptsMade[t] > MaxAttempts
     THEN failIfNonTerminal(t, "PROVIDER_UNAVAILABLE")
     ELSE UNCHANGED <<dbVars, outcome>>
  /\ UNCHANGED <<clockVars, apiVars, job, holder, attemptsMade, stalls, run, faultVars, provided>>

(* worker.on("failed") -> handleExhaustedResolveJob.  The read by getById  *)
(* only returns early where the conditional write would do nothing.        *)
HandleExhausted(t) ==
  /\ t \in failedEvents
  /\ failedEvents' = failedEvents \ {t}
  /\ IF attemptsMade[t] >= MaxAttempts
     THEN failIfNonTerminal(t, "PROVIDER_UNAVAILABLE")
     ELSE UNCHANGED <<dbVars, outcome>>
  /\ UNCHANGED <<clockVars, apiVars, job, holder, attemptsMade, stalls, run, faultVars, provided>>

(* The process dies, or the database call fails, before the write. *)
LoseFailedEvent(t) ==
  /\ t \in failedEvents
  /\ Fault({t})
  /\ failedEvents' = failedEvents \ {t}
  /\ UNCHANGED <<dbVars, clockVars, apiVars, job, holder, attemptsMade, stalls, run, outcome, provided>>

-----------------------------------------------------------------------------
(* Time and the stages of the cleanup service.                             *)

LapseSource(t) ==
  /\ status[t] # "none" /\ t \notin lapsed
  /\ lapsed' = lapsed \cup {t}
  /\ UNCHANGED <<dbVars, expired, apiVars, queueVars, run, outcome, faultVars, provided>>

(* Deviation: the admission window is not capped by the task's expiry.     *)
ExpireTaskAlone(t) ==
  /\ status[t] # "none" /\ t \notin expired
  /\ expired' = expired \cup {t}
  /\ UNCHANGED <<dbVars, lapsed, apiVars, queueVars, run, outcome, faultVars, provided>>

(* activeSourceExpiresAt never exceeds the task's expiry. *)
ExpireTask(t) ==
  /\ status[t] # "none" /\ t \notin expired
  /\ expired' = expired \cup {t}
  /\ lapsed' = lapsed \cup {t}
  /\ UNCHANGED <<dbVars, apiVars, queueVars, run, outcome, faultVars, provided>>

CleanIdempotencyRecord(k) ==
  /\ idem[k] \in expired
  /\ idem' = [idem EXCEPT ![k] = None]
  /\ UNCHANGED <<status, error, result, ledger, activeRow, clockVars, apiVars, queueVars,
                 run, outcome, faultVars, provided>>

(* Deviation: the stage does not look at expires_at.                       *)
CleanAnyActiveSource(s) ==
  /\ activeRow[s] # None
  /\ activeRow' = [activeRow EXCEPT ![s] = None]
  /\ UNCHANGED <<status, error, result, ledger, idem, clockVars, apiVars, queueVars,
                 run, outcome, faultVars, provided>>

CleanActiveSource(s) ==
  /\ activeRow[s] \in lapsed
  /\ activeRow' = [activeRow EXCEPT ![s] = None]
  /\ UNCHANGED <<status, error, result, ledger, idem, clockVars, apiVars, queueVars,
                 run, outcome, faultVars, provided>>

CleanExpiredTask(t) ==
  /\ t \in expired /\ status[t] \notin {"none", "expired", "deleted"}
  /\ status' = [status EXCEPT ![t] = "expired"]
  /\ UNCHANGED <<error, result, ledger, activeRow, idem, clockVars, apiVars, queueVars,
                 run, outcome, faultVars, provided>>

(* The hard delete cascades to the rows that reference the task. *)
HardDeleteTask(t) ==
  /\ t \in expired /\ status[t] # "deleted"
  /\ status' = [status EXCEPT ![t] = "deleted"]
  /\ error' = [error EXCEPT ![t] = "none"]
  /\ result' = result \ {t}
  /\ ledger' = ledger \ {t}
  /\ activeRow' = ReleaseSource(t)
  /\ idem' = [k \in Keys |-> IF idem[k] = t THEN None ELSE idem[k]]
  /\ UNCHANGED <<clockVars, apiVars, queueVars, run, outcome, faultVars, provided>>

-----------------------------------------------------------------------------
ApiStep(r) ==
  \/ AdmitReplayed(r) \/ AdmitConflict(r) \/ AdmitDuplicate(r)
  \/ AdmitCreated(r) \/ AdmitUnseen(r) \/ AdmitFailed(r)
  \/ Enqueue(r) \/ EnqueueFailed(r) \/ FailUnqueuedTask(r) \/ ApiCrash(r)

WorkerStep(w) ==
  \/ MarkResolving(w) \/ PlatformMismatch(w) \/ RouteSucceeds(w) \/ RouteRetryable(w)
  \/ RouteFails(w) \/ FailTask(w) \/ DatabaseError(w) \/ Complete(w) \/ CompletionFails(w)
  \/ PersistPostProviderFailure(w)
  \/ SettleCompleted(w) \/ SettleRetry(w) \/ SettleUnrecoverable(w) \/ SettleWithoutLock(w)

QueueStep(t) ==
  Stall(t) \/ HandleExhausted(t) \/ LoseFailedEvent(t)

CleanupStep ==
  \/ \E t \in Requests : LapseSource(t) \/ ExpireTask(t) \/ CleanExpiredTask(t) \/ HardDeleteTask(t)
  \/ \E k \in Keys : CleanIdempotencyRecord(k)
  \/ \E s \in Sources : CleanActiveSource(s)

Next ==
  \/ \E r \in Requests : ApiStep(r)
  \/ \E w \in Workers : WorkerStep(w) \/ WorkerCrash(w)
  \/ \E w \in Workers, t \in Requests : Take(w, t)
  \/ \E t \in Requests : QueueStep(t)
  \/ CleanupStep

Spec == Init /\ [][Next]_vars

(* BullMQ hands waiting jobs to free workers and checks for stalled jobs   *)
(* for ever; a worker that does not crash takes its next step.             *)
Fairness ==
  /\ \A w \in Workers : WF_vars(WorkerStep(w))
  /\ \A t \in Requests : /\ WF_vars(\E w \in Workers : Take(w, t))
                         /\ WF_vars(HolderGone(t) /\ Stall(t))
                         /\ WF_vars(HandleExhausted(t))

FairSpec == Spec /\ Fairness

-----------------------------------------------------------------------------
(* Safety.                                                                 *)

(* A task that has never been terminal and whose admission window is open  *)
(* is the one that occupies its source.                                    *)
FreshTaskOwnsSource ==
  \A t \in Requests :
    (status[t] \in Live /\ outcome[t] = "none" /\ t \notin lapsed)
      => activeRow[SourceOf[t]] = t

(* docs/task-admission-operations.md: terminal updates delete the active   *)
(* source row in the same statement, so a finished task never blocks the   *)
(* next submission of its source.                                          *)
TerminalReleasesSource ==
  \A s \in Sources : activeRow[s] # None => status[activeRow[s]] \notin {"succeeded", "failed"}

(* Every request answered 202 under one key, while the task it was given   *)
(* has not expired, was given the one task of that key, for its source.    *)
ReplayFaithful ==
  \A r \in Requests :
    (replyTask[r] # None /\ replyTask[r] \notin expired)
      => /\ KeyOf[r] # None => idem[KeyOf[r]] = replyTask[r]
         /\ SourceOf[replyTask[r]] = SourceOf[r]

(* ADR-0015: when a job ends, and no fault touched its task, the task is   *)
(* terminal as soon as the failed event has been handled.                  *)
SettledMeansDecided ==
  \A t \in Requests :
    (job[t] \in {"completed", "failed"} /\ t \notin failedEvents
      /\ t \notin faulted /\ t \notin expired)
      => status[t] \in Terminal

(* docs/providers/ssstwitter.md: PROVIDER_UNAVAILABLE is reserved for      *)
(* exhaustion without a successful Provider resolution; as long as no      *)
(* fault touched the task.                                                 *)
ExhaustionMeansNoSuccess ==
  \A t \in Requests :
    (error[t] = "PROVIDER_UNAVAILABLE" /\ t \notin faulted)
      => t \notin provided

(* completeWithResolution is all or nothing: unless a fault touched the    *)
(* task, a result is shown, and a succeeded attempt is in the ledger, only *)
(* when the task has been decided.                                         *)
ResultMeansSuccess ==
  \A t \in Requests :
    t \notin faulted => /\ t \in result => status[t] \in {"succeeded", "expired"}
                        /\ t \in ledger => status[t] \in Terminal

(* What a job's end, its error and its result tell of the task can be      *)
(* relied on: the three promises together.                                 *)
JobsMatchTasks == SettledMeansDecided /\ ExhaustionMeansNoSuccess /\ ResultMeansSuccess

(* ADR-0015, invariant 2: a run that had a Provider success never puts its *)
(* own job back in the queue.                                              *)
PostProviderNeverRetried ==
  [][\A w \in Workers :
       (run[w].resolved /\ OwnsLock(w) /\ run'[w] = Idle)
         => job'[run[w].job] # "waiting"]_vars

(* ADR-0015, invariant 4, as written: generic exhaustion never overwrites  *)
(* a task that had succeeded.                                              *)
ExhaustionNeverOverwritesSuccess ==
  [][\A t \in Requests :
       (outcome[t] = "succeeded" /\ error'[t] = "PROVIDER_UNAVAILABLE")
         => error[t] = "PROVIDER_UNAVAILABLE"]_vars

Created  == {r \in Requests : status[r] # "none"}
Bound    == [k \in Keys |-> IF idem[k] \in expired THEN None ELSE idem[k]]
Occupant == [s \in Sources |-> IF SourceBusy(s) THEN activeRow[s] ELSE None]

Promise == INSTANCE AdmissionPromise WITH
  created <- Created, bound <- Bound, occupant <- Occupant, answer <- replyTask

(* Every admission history of the code is one ADR-0007 promises, under     *)
(* this reading of its state: a key is bound while its task is unexpired,  *)
(* a source is occupied while its row would stop a submission.             *)
ImplementsPromise == Promise!Spec

(* Liveness.  A job that entered the queue is settled, whatever crashes.   *)
JobSettles ==
  \A t \in Requests : job[t] = "waiting" ~> job[t] \in {"completed", "failed"}

(* A queued task that no fault touches is decided while it is unexpired.   *)
QueuedTaskDecided ==
  \A t \in Requests :
    job[t] = "waiting" ~> (status[t] \in Terminal \/ t \in expired \/ t \in faulted)
=============================================================================
