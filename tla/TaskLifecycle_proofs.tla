------------------------- MODULE TaskLifecycle_proofs -------------------------
(***************************************************************************)
(* Theorems about TaskLifecycle, for every set of requests, sources, keys  *)
(* and workers and every bound.  The order: types; the inductive invariant *)
(* of admission (who owns a source, whose key is whose); its consequences; *)
(* the refinement of AdmissionPromise; the inductive invariant of the jobs *)
(* (what queue, run and row can say at once) and its consequences.         *)
(***************************************************************************)
EXTENDS TaskLifecycle, TLAPS

LEMMA StatementTypes ==
  ASSUME DatabaseTypeOK, NEW t \in Requests, NEW code \in ErrorCodes,
         \/ fail(t, code)
         \/ failIfNonTerminal(t, code)
         \/ failAfterProviderResolution(t)
         \/ completeWithResolution(t)
         \/ markResolving(t) /\ UNCHANGED outcome
  PROVE  DatabaseTypeOK'
<1> USE DEF DatabaseTypeOK, ReleaseSource, FirstOutcome, Statuses, Live, Terminal,
            ErrorCodes, dbVars
<1>1. CASE fail(t, code)
  BY <1>1 DEF fail
<1>2. CASE failIfNonTerminal(t, code)
  BY <1>2 DEF failIfNonTerminal
<1>3. CASE failAfterProviderResolution(t)
  BY <1>3 DEF failAfterProviderResolution
<1>4. CASE completeWithResolution(t)
  BY <1>4 DEF completeWithResolution
<1>5. CASE markResolving(t) /\ UNCHANGED outcome
  BY <1>5 DEF markResolving
<1> QED
  BY <1>1, <1>2, <1>3, <1>4, <1>5

LEMMA GoToType ==
  ASSUME RunTypeOK, NEW w \in Workers, NEW step \in RunSteps,
         run[w].at # "idle", GoTo(w, step)
  PROVE  RunTypeOK'
BY DEF RunTypeOK, GoTo, RunSteps

LEMMA IdleType ==
  ASSUME RunTypeOK, NEW w \in Workers, run' = [run EXCEPT ![w] = Idle]
  PROVE  RunTypeOK'
BY DEF RunTypeOK, Idle, RunSteps

LEMMA FailJobType ==
  ASSUME QueueTypeOK, NEW t \in Requests, FailJob(t), UNCHANGED stalls
  PROVE  QueueTypeOK'
BY DEF QueueTypeOK, FailJob, JobStates

LEMMA FaultType ==
  ASSUME HistoryTypeOK, NEW T \in SUBSET Requests, Fault(T), UNCHANGED provided
  PROVE  HistoryTypeOK'
BY DEF HistoryTypeOK, Fault

LEMMA ApiTypes ==
  ASSUME TypeOK, NEW r \in Requests,
         \/ AdmitReplayed(r)
         \/ AdmitConflict(r)
         \/ AdmitDuplicate(r)
         \/ AdmitCreated(r)
         \/ AdmitUnseen(r)
         \/ AdmitFailed(r)
         \/ Enqueue(r)
         \/ EnqueueFailed(r)
         \/ FailUnqueuedTask(r)
         \/ ApiCrash(r)
  PROVE  TypeOK'
<1> USE ConstantsAssumption DEF TypeOK, ApiTypeOK, ClockTypeOK, QueueTypeOK, Live, Terminal, Statuses, ErrorCodes,
            ApiSteps, JobStates, RunSteps, dbVars, clockVars, apiVars, queueVars, faultVars
<1>1. CASE AdmitReplayed(r)
  BY <1>1 DEF AdmitReplayed, Replays, DatabaseTypeOK, RunTypeOK, HistoryTypeOK
<1>2. CASE AdmitConflict(r)
  BY <1>2 DEF AdmitConflict, Replays, DatabaseTypeOK, RunTypeOK, HistoryTypeOK
<1>3. CASE AdmitDuplicate(r)
  BY <1>3 DEF AdmitDuplicate, PurgedIdem, DatabaseTypeOK, RunTypeOK, HistoryTypeOK
<1>4. CASE AdmitCreated(r)
  BY <1>4 DEF AdmitCreated, InsertTask, DatabaseTypeOK, RunTypeOK, HistoryTypeOK
<1>5. CASE AdmitUnseen(r)
  BY <1>5, FaultType DEF AdmitUnseen, InsertTask, DatabaseTypeOK, RunTypeOK, HistoryTypeOK
<1>6. CASE AdmitFailed(r)
  BY <1>6, FaultType DEF AdmitFailed, DatabaseTypeOK, RunTypeOK, HistoryTypeOK
<1>7. CASE Enqueue(r)
  BY <1>7 DEF Enqueue, AddJob, DatabaseTypeOK, RunTypeOK, HistoryTypeOK
<1>8. CASE EnqueueFailed(r)
  BY <1>8, FaultType DEF EnqueueFailed, AddJob, DatabaseTypeOK, RunTypeOK, HistoryTypeOK
<1>9. CASE FailUnqueuedTask(r)
  BY <1>9, StatementTypes DEF FailUnqueuedTask, DatabaseTypeOK, RunTypeOK, HistoryTypeOK
<1>10. CASE ApiCrash(r)
  BY <1>10, FaultType DEF ApiCrash, DatabaseTypeOK, RunTypeOK, HistoryTypeOK
<1> QED
  BY <1>1, <1>2, <1>3, <1>4, <1>5, <1>6, <1>7, <1>8, <1>9, <1>10

LEMMA WorkerTypes ==
  ASSUME TypeOK, NEW w \in Workers,
         \/ MarkResolving(w)
         \/ PlatformMismatch(w)
         \/ RouteSucceeds(w)
         \/ RouteRetryable(w)
         \/ RouteFails(w)
         \/ FailTask(w)
         \/ DatabaseError(w)
         \/ Complete(w)
         \/ CompletionFails(w)
         \/ PersistPostProviderFailure(w)
         \/ SettleCompleted(w)
         \/ SettleRetry(w)
         \/ SettleUnrecoverable(w)
         \/ SettleWithoutLock(w)
         \/ WorkerCrash(w)
  PROVE  TypeOK'
<1> USE ConstantsAssumption DEF TypeOK, ApiTypeOK, ClockTypeOK, QueueTypeOK, Live, Terminal, Statuses, ErrorCodes,
            ApiSteps, JobStates, RunSteps, dbVars, clockVars, apiVars, queueVars, faultVars
<1>1. CASE MarkResolving(w)
  BY <1>1, StatementTypes, GoToType DEF MarkResolving, At, DatabaseTypeOK, RunTypeOK, HistoryTypeOK
<1>2. CASE PlatformMismatch(w)
  BY <1>2, StatementTypes, GoToType DEF PlatformMismatch, At, DatabaseTypeOK, RunTypeOK, HistoryTypeOK
<1>3. CASE RouteSucceeds(w)
  <2>1. run[w].job \in Requests
    BY <1>3 DEF RouteSucceeds, At, RunTypeOK
  <2>2. RunTypeOK'
    BY <1>3, <2>1 DEF RouteSucceeds, At, RunTypeOK
  <2> QED
    BY <1>3, <2>1, <2>2 DEF RouteSucceeds, DatabaseTypeOK, HistoryTypeOK
<1>4. CASE RouteRetryable(w)
  BY <1>4, GoToType DEF RouteRetryable, At, DatabaseTypeOK, RunTypeOK, HistoryTypeOK
<1>5. CASE RouteFails(w)
  BY <1>5, GoToType DEF RouteFails, At, DatabaseTypeOK, RunTypeOK, HistoryTypeOK
<1>6. CASE FailTask(w)
  BY <1>6, StatementTypes, GoToType DEF FailTask, At, DatabaseTypeOK, RunTypeOK, HistoryTypeOK
<1>7. CASE DatabaseError(w)
  BY <1>7, FaultType, GoToType DEF DatabaseError, DatabaseTypeOK, RunTypeOK, HistoryTypeOK
<1>8. CASE Complete(w)
  BY <1>8, StatementTypes, FaultType, GoToType DEF Complete, At, DatabaseTypeOK, RunTypeOK, HistoryTypeOK
<1>9. CASE CompletionFails(w)
  BY <1>9, GoToType DEF CompletionFails, At, DatabaseTypeOK, RunTypeOK, HistoryTypeOK
<1>10. CASE PersistPostProviderFailure(w)
  BY <1>10, StatementTypes, FaultType, GoToType DEF PersistPostProviderFailure, At, DatabaseTypeOK, RunTypeOK, HistoryTypeOK
<1>11. CASE SettleCompleted(w)
  BY <1>11, IdleType DEF SettleCompleted, At, OwnsLock, HistoryTypeOK, DatabaseTypeOK
<1>12. CASE SettleRetry(w)
  <2>1. run[w].job \in Requests
    BY <1>12 DEF SettleRetry, At, RunTypeOK
  <2>2. QueueTypeOK'
    BY <1>12, <2>1, FailJobType DEF SettleRetry
  <2>3. RunTypeOK'
    BY <1>12, IdleType DEF SettleRetry
  <2> QED
    BY <1>12, <2>2, <2>3 DEF SettleRetry, DatabaseTypeOK, HistoryTypeOK
<1>13. CASE SettleUnrecoverable(w)
  <2>1. run[w].job \in Requests
    BY <1>13 DEF SettleUnrecoverable, At, RunTypeOK
  <2>2. QueueTypeOK'
    BY <1>13, <2>1, FailJobType DEF SettleUnrecoverable
  <2>3. RunTypeOK'
    BY <1>13, IdleType DEF SettleUnrecoverable
  <2> QED
    BY <1>13, <2>2, <2>3 DEF SettleUnrecoverable, DatabaseTypeOK, HistoryTypeOK
<1>14. CASE SettleWithoutLock(w)
  BY <1>14, IdleType DEF SettleWithoutLock, HistoryTypeOK, DatabaseTypeOK
<1>15. CASE WorkerCrash(w)
  <2>1. run[w].job \in Requests
    BY <1>15 DEF WorkerCrash, At, RunTypeOK
  <2>2. HistoryTypeOK'
    BY <1>15, <2>1, FaultType DEF WorkerCrash
  <2>3. RunTypeOK'
    BY <1>15, IdleType DEF WorkerCrash
  <2> QED
    BY <1>15, <2>2, <2>3 DEF WorkerCrash, DatabaseTypeOK, HistoryTypeOK
<1> QED
  BY <1>1, <1>2, <1>3, <1>4, <1>5, <1>6, <1>7, <1>8, <1>9, <1>10, <1>11, <1>12, <1>13, <1>14, <1>15

LEMMA TaskTypes ==
  ASSUME TypeOK, NEW t \in Requests,
         \/ Stall(t)
         \/ HandleExhausted(t)
         \/ LoseFailedEvent(t)
         \/ LapseSource(t)
         \/ ExpireTask(t)
         \/ CleanExpiredTask(t)
         \/ HardDeleteTask(t)
  PROVE  TypeOK'
<1> USE ConstantsAssumption DEF TypeOK, ApiTypeOK, ClockTypeOK, QueueTypeOK, Live, Terminal, Statuses, ErrorCodes,
            ApiSteps, JobStates, RunSteps, dbVars, clockVars, apiVars, queueVars, faultVars
<1>1. CASE Stall(t)
  BY <1>1, FailJobType, FaultType DEF Stall, DatabaseTypeOK, RunTypeOK, HistoryTypeOK
<1>2. CASE HandleExhausted(t)
  <2>1. failIfNonTerminal(t, "PROVIDER_UNAVAILABLE") \/ UNCHANGED <<dbVars, outcome>>
    BY <1>2 DEF HandleExhausted
  <2>2. failIfNonTerminal(t, "PROVIDER_UNAVAILABLE") => DatabaseTypeOK'
    BY StatementTypes
  <2>3. UNCHANGED <<dbVars, outcome>> => DatabaseTypeOK'
    BY DEF DatabaseTypeOK
  <2> QED
    BY <1>2, <2>1, <2>2, <2>3 DEF HandleExhausted, RunTypeOK, HistoryTypeOK
<1>3. CASE LoseFailedEvent(t)
  BY <1>3, FaultType DEF LoseFailedEvent, DatabaseTypeOK, RunTypeOK, HistoryTypeOK
<1>4. CASE LapseSource(t)
  BY <1>4 DEF LapseSource, DatabaseTypeOK, RunTypeOK, HistoryTypeOK
<1>5. CASE ExpireTask(t)
  BY <1>5 DEF ExpireTask, DatabaseTypeOK, RunTypeOK, HistoryTypeOK
<1>6. CASE CleanExpiredTask(t)
  BY <1>6 DEF CleanExpiredTask, DatabaseTypeOK, RunTypeOK, HistoryTypeOK
<1>7. CASE HardDeleteTask(t)
  BY <1>7 DEF HardDeleteTask, ReleaseSource, DatabaseTypeOK, RunTypeOK, HistoryTypeOK
<1> QED
  BY <1>1, <1>2, <1>3, <1>4, <1>5, <1>6, <1>7

LEMMA CleanupTypes ==
  ASSUME TypeOK,
         \/ \E k \in Keys : CleanIdempotencyRecord(k)
         \/ \E s \in Sources : CleanActiveSource(s)
  PROVE  TypeOK'
BY DEF TypeOK, DatabaseTypeOK, ClockTypeOK, ApiTypeOK, QueueTypeOK, RunTypeOK, HistoryTypeOK,
       CleanIdempotencyRecord, CleanActiveSource, clockVars, apiVars, queueVars, faultVars

LEMMA TakeTypes ==
  ASSUME TypeOK, NEW w \in Workers, NEW t \in Requests, Take(w, t)
  PROVE  TypeOK'
<1>1. QueueTypeOK'
  BY DEF Take, TypeOK, QueueTypeOK, JobStates
<1>2. RunTypeOK'
  BY DEF Take, TypeOK, RunTypeOK, RunSteps
<1> QED
  BY <1>1, <1>2 DEF Take, TypeOK, DatabaseTypeOK, ClockTypeOK, ApiTypeOK, HistoryTypeOK,
                    dbVars, clockVars, apiVars, faultVars

LEMMA InitTypes == Init => TypeOK
<1> SUFFICES ASSUME Init PROVE TypeOK
  OBVIOUS
<1>1. RunTypeOK
  BY DEF Init, RunTypeOK, Idle, RunSteps
<1> QED
  BY <1>1 DEF Init, TypeOK, DatabaseTypeOK, ClockTypeOK, ApiTypeOK, QueueTypeOK, HistoryTypeOK,
              Statuses, Live, Terminal, ErrorCodes, ApiSteps, JobStates

LEMMA NextTypes == TypeOK /\ [Next]_vars => TypeOK'
<1> SUFFICES ASSUME TypeOK, [Next]_vars PROVE TypeOK'
  OBVIOUS
<1>1. ASSUME NEW r \in Requests, ApiStep(r) PROVE TypeOK'
  BY <1>1, ApiTypes DEF ApiStep
<1>2. ASSUME NEW w \in Workers, WorkerStep(w) \/ WorkerCrash(w) PROVE TypeOK'
  BY <1>2, WorkerTypes DEF WorkerStep
<1>3. ASSUME NEW w \in Workers, NEW t \in Requests, Take(w, t) PROVE TypeOK'
  BY <1>3, TakeTypes
<1>4. ASSUME NEW t \in Requests, QueueStep(t) PROVE TypeOK'
  BY <1>4, TaskTypes DEF QueueStep
<1>5. CASE CleanupStep
  BY <1>5, TaskTypes, CleanupTypes DEF CleanupStep
<1>6. CASE UNCHANGED vars
  BY <1>6 DEF vars, TypeOK, DatabaseTypeOK, ClockTypeOK, ApiTypeOK, QueueTypeOK, RunTypeOK,
              HistoryTypeOK, dbVars, clockVars, apiVars, queueVars, faultVars
<1> QED
  BY <1>1, <1>2, <1>3, <1>4, <1>5, <1>6 DEF Next

(* Every reachable state is typed: rows name tasks that may exist, a busy  *)
(* worker has a job, an expired task is past its admission window too.     *)
THEOREM TypeCorrect == Spec => []TypeOK
<1>1. Init => TypeOK
  BY InitTypes
<1>2. TypeOK /\ [Next]_vars => TypeOK'
  BY NextTypes
<1> QED
  BY <1>1, <1>2, PTL DEF Spec

-----------------------------------------------------------------------------
(* The inductive invariant of admission.                                   *)

(* A row of active_source_admissions names an existing task of its source. *)
RowsHaveTasks ==
  \A s \in Sources :
    activeRow[s] # None
      => SourceOf[activeRow[s]] = s /\ status[activeRow[s]] \notin {"none", "deleted"}

(* A row of resolve_task_idempotency names an existing task of its key. *)
KeysHaveTasks ==
  \A k \in Keys :
    idem[k] # None => KeyOf[idem[k]] = k /\ status[idem[k]] \notin {"none", "deleted"}

(* An unexpired task that was created with a key still holds it. *)
TasksHaveKeys ==
  \A t \in Requests :
    (status[t] # "none" /\ t \notin expired /\ KeyOf[t] # None) => idem[KeyOf[t]] = t

(* Time passes for existing tasks only; cleanup touches expired ones only. *)
TimesPassed ==
  \A t \in Requests :
    /\ t \in lapsed => status[t] # "none"
    /\ status[t] \in {"expired", "deleted"} => t \in expired

OutcomesKept ==
  \A t \in Requests : status[t] \in {"succeeded", "failed"} => outcome[t] # "none"

(* Where a handler is says whether its INSERT was made and answered. *)
HandlersStand ==
  \A r \in Requests :
    /\ api[r] = "new" => status[r] = "none"
    /\ api[r] \in {"enqueue", "queueFailed"} => status[r] # "none"
    /\ api[r] # "accepted" => replyTask[r] = None

(* An answer names an existing task of the request's key and source. *)
AnswersMatch ==
  \A r \in Requests :
    replyTask[r] # None
      => /\ status[replyTask[r]] # "none"
         /\ KeyOf[replyTask[r]] = KeyOf[r]
         /\ SourceOf[replyTask[r]] = SourceOf[r]

AdmissionInv ==
  /\ RowsHaveTasks /\ KeysHaveTasks /\ TasksHaveKeys /\ TimesPassed /\ OutcomesKept
  /\ HandlersStand /\ AnswersMatch
  /\ FreshTaskOwnsSource /\ TerminalReleasesSource

(* What the steps of workers, queue and database statements amount to for  *)
(* admission: nothing, a task that ends, or a task that resolves again.    *)
Quiet == UNCHANGED <<status, activeRow, idem, outcome>>

Ends(t) ==
  /\ Readable(t)
  /\ \E o \in {"succeeded", "failed"} :
       /\ status' = [status EXCEPT ![t] = o]
       /\ outcome' = FirstOutcome(t, o)
  /\ activeRow' = ReleaseSource(t)
  /\ UNCHANGED idem

Resolves(t) ==
  /\ Readable(t)
  /\ status' = [status EXCEPT ![t] = "resolving"]
  /\ UNCHANGED <<activeRow, idem, outcome>>

Effect == Quiet \/ \E t \in Requests : Ends(t) \/ Resolves(t)

LEMMA StatementEffects ==
  ASSUME NEW t \in Requests, NEW code,
         \/ fail(t, code)
         \/ failIfNonTerminal(t, code)
         \/ failAfterProviderResolution(t)
         \/ completeWithResolution(t)
         \/ markResolving(t) /\ UNCHANGED outcome
  PROVE  Effect
<1>1. CASE fail(t, code)
  BY <1>1 DEF fail, Effect, Quiet, Ends, dbVars
<1>2. CASE failIfNonTerminal(t, code)
  BY <1>2 DEF failIfNonTerminal, Effect, Quiet, Ends, dbVars
<1>3. CASE failAfterProviderResolution(t)
  BY <1>3 DEF failAfterProviderResolution, Effect, Quiet, Ends, dbVars
<1>4. CASE completeWithResolution(t)
  BY <1>4 DEF completeWithResolution, Effect, Quiet, Ends, dbVars
<1>5. CASE markResolving(t) /\ UNCHANGED outcome
  BY <1>5 DEF markResolving, Effect, Quiet, Resolves, dbVars
<1> QED
  BY <1>1, <1>2, <1>3, <1>4, <1>5

LEMMA WorkerEffects ==
  ASSUME TypeOK, NEW w \in Workers, WorkerStep(w) \/ WorkerCrash(w)
  PROVE  Effect /\ UNCHANGED <<clockVars, apiVars>>
<1> DEFINE t == run[w].job
<1>1. ASSUME run[w].at # "idle" PROVE t \in Requests
  BY <1>1 DEF TypeOK, RunTypeOK
<1>2. CASE MarkResolving(w)
  BY <1>1, <1>2, StatementEffects DEF MarkResolving, At
<1>3. CASE PlatformMismatch(w)
  BY <1>1, <1>3, StatementEffects DEF PlatformMismatch, At
<1>4. CASE FailTask(w)
  BY <1>1, <1>4, StatementEffects DEF FailTask, At
<1>5. CASE Complete(w)
  BY <1>1, <1>5, StatementEffects DEF Complete, At
<1>6. CASE PersistPostProviderFailure(w)
  BY <1>1, <1>6, StatementEffects DEF PersistPostProviderFailure, At, Effect, Quiet, dbVars
<1>7. CASE RouteSucceeds(w) \/ RouteRetryable(w) \/ RouteFails(w) \/ DatabaseError(w)
             \/ CompletionFails(w) \/ WorkerCrash(w)
  BY <1>7 DEF RouteSucceeds, RouteRetryable, RouteFails, DatabaseError, CompletionFails,
              WorkerCrash, Effect, Quiet, dbVars
<1>8. CASE SettleCompleted(w) \/ SettleRetry(w) \/ SettleUnrecoverable(w)
             \/ SettleWithoutLock(w)
  BY <1>8 DEF SettleCompleted, SettleRetry, SettleUnrecoverable, SettleWithoutLock,
              Effect, Quiet, dbVars
<1> QED
  BY <1>2, <1>3, <1>4, <1>5, <1>6, <1>7, <1>8 DEF WorkerStep

LEMMA QueueEffects ==
  ASSUME NEW t \in Requests, QueueStep(t) \/ \E w \in Workers : Take(w, t)
  PROVE  Effect /\ UNCHANGED <<clockVars, apiVars>>
<1>1. CASE Stall(t) \/ LoseFailedEvent(t) \/ \E w \in Workers : Take(w, t)
  BY <1>1 DEF Stall, LoseFailedEvent, Take, Effect, Quiet, dbVars
<1>2. CASE HandleExhausted(t)
  BY <1>2, StatementEffects DEF HandleExhausted, Effect, Quiet, dbVars
<1> QED
  BY <1>1, <1>2 DEF QueueStep

LEMMA EffectKeepsInv ==
  ASSUME TypeOK, TypeOK', AdmissionInv, Effect, UNCHANGED <<clockVars, replyTask>>,
         \/ UNCHANGED api
         \/ \E r \in Requests : api[r] = "queueFailed" /\ api' = [api EXCEPT ![r] = "rejected"]
  PROVE  AdmissionInv'
<1> USE DEF AdmissionInv, RowsHaveTasks, KeysHaveTasks, TasksHaveKeys, TimesPassed,
            OutcomesKept, HandlersStand, AnswersMatch, FreshTaskOwnsSource,
            TerminalReleasesSource, clockVars
<1>1. CASE Quiet
  BY <1>1 DEF Quiet, TypeOK, ApiTypeOK
<1>2. ASSUME NEW t \in Requests, Ends(t) PROVE AdmissionInv'
  <2>1. PICK o \in {"succeeded", "failed"} :
          /\ status' = [status EXCEPT ![t] = o]
          /\ outcome' = FirstOutcome(t, o)
    BY <1>2 DEF Ends
  <2>2. /\ status[t] \notin {"none", "deleted"} /\ t \notin expired
        /\ activeRow' = ReleaseSource(t) /\ UNCHANGED idem
    BY <1>2 DEF Ends, Readable
  <2>3. outcome'[t] # "none" /\ \A u \in Requests \ {t} : outcome'[u] = outcome[u]
    BY <2>1 DEF FirstOutcome, TypeOK, DatabaseTypeOK
  <2>4. \A s \in Sources : activeRow'[s] # None => activeRow'[s] = activeRow[s] /\ activeRow[s] # t
    BY <2>2 DEF ReleaseSource
  <2>5. RowsHaveTasks' /\ TerminalReleasesSource'
    BY <2>1, <2>4 DEF TypeOK, DatabaseTypeOK
  <2>6. FreshTaskOwnsSource'
    <3> SUFFICES ASSUME NEW u \in Requests, status'[u] \in Live, outcome'[u] = "none", u \notin lapsed
                 PROVE  activeRow'[SourceOf[u]] = u
      BY DEF FreshTaskOwnsSource
    <3>1. u # t /\ SourceOf[u] \in Sources
      BY <2>3, ConstantsAssumption
    <3>2. activeRow[SourceOf[u]] = u
      BY <2>1, <2>3, <3>1 DEF TypeOK, DatabaseTypeOK
    <3> QED
      BY <2>2, <3>1, <3>2 DEF ReleaseSource
  <2>7. KeysHaveTasks' /\ TasksHaveKeys' /\ TimesPassed' /\ HandlersStand' /\ AnswersMatch'
    BY <2>1, <2>2 DEF TypeOK, DatabaseTypeOK, ApiTypeOK
  <2>8. OutcomesKept'
    BY <2>1, <2>3 DEF TypeOK, DatabaseTypeOK
  <2> QED
    BY <2>5, <2>6, <2>7, <2>8
<1>3. ASSUME NEW t \in Requests, Resolves(t) PROVE AdmissionInv'
  <2>1. /\ status' = [status EXCEPT ![t] = "resolving"]
        /\ status[t] \notin {"none", "deleted", "expired"} /\ t \notin expired
        /\ UNCHANGED <<activeRow, idem, outcome>>
    BY <1>3 DEF Resolves, Readable
  <2>2. FreshTaskOwnsSource'
    <3>1. status[t] \in Live \/ outcome[t] # "none"
      BY <2>1 DEF TypeOK, DatabaseTypeOK, Statuses, Live, Terminal
    <3> QED
      BY <2>1, <3>1 DEF TypeOK, DatabaseTypeOK, Live
  <2>3. RowsHaveTasks' /\ KeysHaveTasks' /\ TerminalReleasesSource'
    BY <2>1 DEF TypeOK, DatabaseTypeOK
  <2>4. TasksHaveKeys' /\ TimesPassed' /\ OutcomesKept' /\ HandlersStand' /\ AnswersMatch'
    BY <2>1 DEF TypeOK, DatabaseTypeOK, ApiTypeOK
  <2> QED
    BY <2>2, <2>3, <2>4
<1> QED
  BY <1>1, <1>2, <1>3 DEF Effect

LEMMA InsertKeepsInv ==
  ASSUME TypeOK, TypeOK', AdmissionInv, NEW r \in Requests, InsertTask(r),
         NEW step \in {"enqueue", "rejected"}, api' = [api EXCEPT ![r] = step]
  PROVE  AdmissionInv'
<1>1. /\ status[r] = "none" /\ status' = [status EXCEPT ![r] = "queued"]
      /\ r \notin lapsed /\ r \notin expired
      /\ activeRow' = [activeRow EXCEPT ![SourceOf[r]] = r]
      /\ UNCHANGED <<lapsed, expired, replyTask, outcome>>
  BY DEF InsertTask, AdmissionInv, HandlersStand, TimesPassed, TypeOK, ClockTypeOK, clockVars
<1>2. SourceOf[r] \in Sources /\ None \notin Requests
  BY ConstantsAssumption
<1>3. RowsHaveTasks' /\ TerminalReleasesSource'
  BY <1>1, <1>2 DEF AdmissionInv, RowsHaveTasks, TerminalReleasesSource, TypeOK, DatabaseTypeOK
<1>4. FreshTaskOwnsSource'
  <2> SUFFICES ASSUME NEW t \in Requests, status'[t] \in Live, outcome[t] = "none", t \notin lapsed
               PROVE  activeRow'[SourceOf[t]] = t
    BY <1>1 DEF FreshTaskOwnsSource
  <2>1. CASE t = r
    BY <1>1, <1>2, <2>1 DEF TypeOK, DatabaseTypeOK
  <2>2. CASE t # r
    <3>1. status[t] \in Live /\ activeRow[SourceOf[t]] = t
      BY <1>1, <2>2 DEF AdmissionInv, FreshTaskOwnsSource, TypeOK, DatabaseTypeOK
    <3>2. SourceOf[t] # SourceOf[r]
      BY <3>1, <1>2 DEF InsertTask, SourceBusy, Live, Terminal
    <3> QED
      BY <1>1, <3>1, <3>2, ConstantsAssumption DEF TypeOK, DatabaseTypeOK
  <2> QED
    BY <2>1, <2>2
<1>5. KeysHaveTasks'
  BY <1>1 DEF InsertTask, AdmissionInv, KeysHaveTasks, TypeOK, DatabaseTypeOK
<1>6. TasksHaveKeys'
  <2> SUFFICES ASSUME NEW t \in Requests, status'[t] # "none", t \notin expired, KeyOf[t] # None
               PROVE  idem'[KeyOf[t]] = t
    BY <1>1 DEF TasksHaveKeys
  <2>1. KeyOf[t] \in Keys
    BY ConstantsAssumption
  <2>2. CASE t = r
    BY <2>1, <2>2 DEF InsertTask
  <2>3. CASE t # r
    <3>1. idem[KeyOf[t]] = t
      BY <1>1, <2>3 DEF AdmissionInv, TasksHaveKeys, TypeOK, DatabaseTypeOK
    <3>2. KeyOf[t] # KeyOf[r]
      BY <3>1, <1>2 DEF InsertTask, Replays
    <3> QED
      BY <2>1, <3>1, <3>2 DEF InsertTask
  <2> QED
    BY <2>2, <2>3
<1>7. TimesPassed' /\ OutcomesKept'
  BY <1>1 DEF AdmissionInv, TimesPassed, OutcomesKept, TypeOK, DatabaseTypeOK
<1>8. HandlersStand'
  BY <1>1 DEF InsertTask, AdmissionInv, HandlersStand, TypeOK, DatabaseTypeOK, ApiTypeOK
<1>9. AnswersMatch'
  BY <1>1 DEF AdmissionInv, AnswersMatch, TypeOK, DatabaseTypeOK, ApiTypeOK
<1> QED
  BY <1>3, <1>4, <1>5, <1>6, <1>7, <1>8, <1>9 DEF AdmissionInv

LEMMA ApiKeepsInv ==
  ASSUME TypeOK, TypeOK', AdmissionInv, NEW r \in Requests, ApiStep(r)
  PROVE  AdmissionInv'
<1> USE DEF TypeOK, ApiTypeOK, clockVars, apiVars
<1>1. CASE AdmitCreated(r) \/ AdmitUnseen(r)
  BY <1>1, InsertKeepsInv DEF AdmitCreated, AdmitUnseen
<1>2. CASE AdmitReplayed(r)
  <2>1. KeyOf[r] \in Keys /\ idem[KeyOf[r]] \in Requests
    <3>1. KeyOf[r] # None /\ idem[KeyOf[r]] # None
      BY <1>2 DEF AdmitReplayed, Replays
    <3>2. KeyOf[r] \in Keys
      BY <3>1, ConstantsAssumption
    <3> QED
      BY <3>1, <3>2 DEF DatabaseTypeOK
  <2>2. KeyOf[idem[KeyOf[r]]] = KeyOf[r] /\ status[idem[KeyOf[r]]] # "none"
    <3>1. idem[KeyOf[r]] # None
      BY <1>2 DEF AdmitReplayed, Replays
    <3> QED
      BY <2>1, <3>1 DEF AdmissionInv, KeysHaveTasks
  <2>3. HandlersStand' /\ AnswersMatch'
    BY <1>2, <2>1, <2>2 DEF AdmitReplayed, dbVars, AdmissionInv, HandlersStand, AnswersMatch
  <2> QED
    BY <1>2, <2>3 DEF AdmitReplayed, dbVars, AdmissionInv, RowsHaveTasks, KeysHaveTasks,
       TasksHaveKeys, TimesPassed, OutcomesKept, FreshTaskOwnsSource, TerminalReleasesSource
<1>3. CASE Enqueue(r)
  <2>1. HandlersStand' /\ AnswersMatch'
    BY <1>3 DEF Enqueue, dbVars, AdmissionInv, HandlersStand, AnswersMatch
  <2> QED
    BY <1>3, <2>1 DEF Enqueue, dbVars, AdmissionInv, RowsHaveTasks, KeysHaveTasks,
       TasksHaveKeys, TimesPassed, OutcomesKept, FreshTaskOwnsSource, TerminalReleasesSource
<1>4. CASE AdmitConflict(r) \/ AdmitFailed(r) \/ EnqueueFailed(r) \/ ApiCrash(r)
  BY <1>4 DEF AdmitConflict, AdmitFailed, EnqueueFailed, ApiCrash, dbVars, AdmissionInv,
     RowsHaveTasks, KeysHaveTasks, TasksHaveKeys, TimesPassed, OutcomesKept, HandlersStand,
     AnswersMatch, FreshTaskOwnsSource, TerminalReleasesSource
<1>5. CASE AdmitDuplicate(r)
  <2>1. \A k \in Keys : idem'[k] = idem[k] \/ (idem[k] \in expired /\ idem'[k] = None)
    BY <1>5 DEF AdmitDuplicate, PurgedIdem
  <2>2. KeysHaveTasks'
    BY <1>5, <2>1 DEF AdmitDuplicate, AdmissionInv, KeysHaveTasks
  <2>3. TasksHaveKeys'
    <3>1. \A t \in Requests : KeyOf[t] # None => KeyOf[t] \in Keys
      BY ConstantsAssumption
    <3>2. status' = status /\ expired' = expired
      BY <1>5 DEF AdmitDuplicate
    <3> QED
      BY <2>1, <3>1, <3>2 DEF AdmissionInv, TasksHaveKeys
  <2> QED
    BY <1>5, <2>2, <2>3 DEF AdmitDuplicate, AdmissionInv, RowsHaveTasks, TimesPassed,
       OutcomesKept, HandlersStand, AnswersMatch, FreshTaskOwnsSource, TerminalReleasesSource
<1>6. CASE FailUnqueuedTask(r)
  <2>1. Effect
    BY <1>6, StatementEffects DEF FailUnqueuedTask
  <2> QED
    BY <1>6, <2>1, EffectKeepsInv DEF FailUnqueuedTask
<1> QED
  BY <1>1, <1>2, <1>3, <1>4, <1>5, <1>6 DEF ApiStep

LEMMA CleanupKeepsInv ==
  ASSUME TypeOK, TypeOK', AdmissionInv, CleanupStep
  PROVE  AdmissionInv'
<1> USE DEF TypeOK, DatabaseTypeOK, ClockTypeOK, apiVars
<1>1. ASSUME NEW t \in Requests, LapseSource(t) \/ ExpireTask(t) PROVE AdmissionInv'
  BY <1>1 DEF LapseSource, ExpireTask, dbVars, AdmissionInv, RowsHaveTasks, KeysHaveTasks,
     TasksHaveKeys, TimesPassed, OutcomesKept, HandlersStand, AnswersMatch,
     FreshTaskOwnsSource, TerminalReleasesSource
<1>2. ASSUME NEW t \in Requests, CleanExpiredTask(t) PROVE AdmissionInv'
  <2>1. /\ t \in expired /\ status[t] \notin {"none", "deleted"}
        /\ status' = [status EXCEPT ![t] = "expired"]
        /\ UNCHANGED <<activeRow, idem, lapsed, expired, api, replyTask, outcome>>
    BY <1>2 DEF CleanExpiredTask, clockVars
  <2>2. RowsHaveTasks' /\ KeysHaveTasks' /\ TerminalReleasesSource' /\ FreshTaskOwnsSource'
    BY <2>1 DEF AdmissionInv, RowsHaveTasks, KeysHaveTasks, TerminalReleasesSource,
                FreshTaskOwnsSource, Live
  <2>3. TasksHaveKeys' /\ TimesPassed' /\ OutcomesKept' /\ HandlersStand' /\ AnswersMatch'
    BY <2>1 DEF AdmissionInv, TasksHaveKeys, TimesPassed, OutcomesKept, HandlersStand,
                AnswersMatch, ApiTypeOK
  <2> QED
    BY <2>2, <2>3 DEF AdmissionInv
<1>3. ASSUME NEW t \in Requests, HardDeleteTask(t) PROVE AdmissionInv'
  <2>1. /\ t \in expired /\ status[t] # "none"
        /\ status' = [status EXCEPT ![t] = "deleted"]
        /\ UNCHANGED <<lapsed, expired, api, replyTask, outcome>>
    BY <1>3 DEF HardDeleteTask, clockVars, AdmissionInv, TimesPassed
  <2>2. \A s \in Sources : /\ activeRow'[s] # None => activeRow'[s] = activeRow[s] /\ activeRow[s] # t
                           /\ activeRow[s] # t => activeRow'[s] = activeRow[s]
    BY <1>3 DEF HardDeleteTask, ReleaseSource
  <2>3. \A k \in Keys : /\ idem'[k] # None => idem'[k] = idem[k] /\ idem[k] # t
                        /\ idem[k] # t => idem'[k] = idem[k]
    BY <1>3 DEF HardDeleteTask
  <2>4. RowsHaveTasks' /\ TerminalReleasesSource'
    BY <2>1, <2>2 DEF AdmissionInv, RowsHaveTasks, TerminalReleasesSource
  <2>5. FreshTaskOwnsSource'
    BY <2>1, <2>2, ConstantsAssumption DEF AdmissionInv, FreshTaskOwnsSource, Live
  <2>6. KeysHaveTasks'
    BY <2>1, <2>3 DEF AdmissionInv, KeysHaveTasks
  <2>7. TasksHaveKeys'
    <3>1. \A u \in Requests : KeyOf[u] # None => KeyOf[u] \in Keys
      BY ConstantsAssumption
    <3> QED
      BY <2>1, <2>3, <3>1 DEF AdmissionInv, TasksHaveKeys
  <2>8. TimesPassed' /\ OutcomesKept' /\ HandlersStand' /\ AnswersMatch'
    BY <2>1 DEF AdmissionInv, TimesPassed, OutcomesKept, HandlersStand, AnswersMatch, ApiTypeOK
  <2> QED
    BY <2>4, <2>5, <2>6, <2>7, <2>8 DEF AdmissionInv
<1>4. ASSUME NEW k \in Keys, CleanIdempotencyRecord(k) PROVE AdmissionInv'
  <2>1. /\ idem[k] \in expired /\ idem' = [idem EXCEPT ![k] = None]
        /\ UNCHANGED <<status, activeRow, lapsed, expired, api, replyTask, outcome>>
    BY <1>4 DEF CleanIdempotencyRecord, clockVars
  <2>2. KeysHaveTasks'
    BY <2>1 DEF AdmissionInv, KeysHaveTasks
  <2>3. TasksHaveKeys'
    <3>1. \A u \in Requests : KeyOf[u] # None => KeyOf[u] \in Keys
      BY ConstantsAssumption
    <3> QED
      BY <2>1, <3>1 DEF AdmissionInv, TasksHaveKeys
  <2> QED
    BY <2>1, <2>2, <2>3 DEF AdmissionInv, RowsHaveTasks, TimesPassed, OutcomesKept,
       HandlersStand, AnswersMatch, FreshTaskOwnsSource, TerminalReleasesSource
<1>5. ASSUME NEW s \in Sources, CleanActiveSource(s) PROVE AdmissionInv'
  <2>1. /\ activeRow[s] \in lapsed /\ activeRow' = [activeRow EXCEPT ![s] = None]
        /\ UNCHANGED <<status, idem, lapsed, expired, api, replyTask, outcome>>
    BY <1>5 DEF CleanActiveSource, clockVars
  <2>2. RowsHaveTasks' /\ TerminalReleasesSource' /\ FreshTaskOwnsSource'
    BY <2>1, ConstantsAssumption DEF AdmissionInv, RowsHaveTasks, TerminalReleasesSource,
       FreshTaskOwnsSource
  <2> QED
    BY <2>1, <2>2 DEF AdmissionInv, KeysHaveTasks, TasksHaveKeys, TimesPassed, OutcomesKept,
       HandlersStand, AnswersMatch
<1> QED
  BY <1>1, <1>2, <1>3, <1>4, <1>5 DEF CleanupStep

LEMMA InitAdmission == Init => AdmissionInv
BY DEF Init, AdmissionInv, RowsHaveTasks, KeysHaveTasks, TasksHaveKeys, TimesPassed,
   OutcomesKept, HandlersStand, AnswersMatch, FreshTaskOwnsSource, TerminalReleasesSource, Live

LEMMA NextAdmission == TypeOK /\ AdmissionInv /\ [Next]_vars => AdmissionInv'
<1> SUFFICES ASSUME TypeOK, AdmissionInv, [Next]_vars PROVE AdmissionInv'
  OBVIOUS
<1>0. TypeOK'
  BY NextTypes
<1>1. ASSUME NEW r \in Requests, ApiStep(r) PROVE AdmissionInv'
  BY <1>0, <1>1, ApiKeepsInv
<1>2. ASSUME NEW w \in Workers, WorkerStep(w) \/ WorkerCrash(w) PROVE AdmissionInv'
  BY <1>0, <1>2, WorkerEffects, EffectKeepsInv DEF apiVars
<1>3. ASSUME NEW t \in Requests, QueueStep(t) \/ \E w \in Workers : Take(w, t)
      PROVE  AdmissionInv'
  BY <1>0, <1>3, QueueEffects, EffectKeepsInv DEF apiVars
<1>4. CASE CleanupStep
  BY <1>0, <1>4, CleanupKeepsInv
<1>5. CASE UNCHANGED vars
  <2>1. Effect /\ UNCHANGED <<clockVars, replyTask, api>>
    BY <1>5 DEF vars, dbVars, clockVars, apiVars, Effect, Quiet
  <2> QED
    BY <1>0, <2>1, EffectKeepsInv
<1> QED
  BY <1>1, <1>2, <1>3, <1>4, <1>5 DEF Next

(* AdmissionInv is inductive relative to the types. *)
THEOREM AdmissionInvariant == Spec => []AdmissionInv
<1>1. Init => TypeOK /\ AdmissionInv
  BY InitTypes, InitAdmission
<1>2. (TypeOK /\ AdmissionInv) /\ [Next]_vars => (TypeOK /\ AdmissionInv)'
  BY NextTypes, NextAdmission
<1> QED
  BY <1>1, <1>2, PTL DEF Spec

(* ADR-0007, section 5: whatever crashes, stalls or is redelivered, a task *)
(* that was never terminal keeps every other submission of its source out  *)
(* until its admission window closes.                                      *)
THEOREM FreshTaskOwnsItsSource == Spec => []FreshTaskOwnsSource
<1>1. AdmissionInv => FreshTaskOwnsSource
  BY DEF AdmissionInv
<1> QED
  BY <1>1, AdmissionInvariant, PTL

(* ADR-0007, section 5: a finished task never blocks its source. *)
THEOREM TerminalTaskReleasesSource == Spec => []TerminalReleasesSource
<1>1. AdmissionInv => TerminalReleasesSource
  BY DEF AdmissionInv
<1> QED
  BY <1>1, AdmissionInvariant, PTL

(* ADR-0007, section 4: two requests with one key are answered with one    *)
(* task, for one source, as long as that task is unexpired.                *)
THEOREM RepliesAreFaithful == Spec => []ReplayFaithful
<1>1. TypeOK /\ AdmissionInv => ReplayFaithful
  BY DEF TypeOK, ApiTypeOK, AdmissionInv, TasksHaveKeys, AnswersMatch, ReplayFaithful
<1> QED
  BY <1>1, TypeCorrect, AdmissionInvariant, PTL

-----------------------------------------------------------------------------
(* TaskLifecycle implements AdmissionPromise.                              *)

LEMMA EffectPromised ==
  ASSUME TypeOK, AdmissionInv, Effect, UNCHANGED <<clockVars, replyTask>>
  PROVE  [Promise!Next]_(Promise!pvars)
<1>1. CASE Quiet
  BY <1>1 DEF Quiet, clockVars, Created, Bound, Occupant, SourceBusy, Promise!pvars
<1>2. ASSUME NEW t \in Requests, Ends(t) PROVE Promise!Release(t)
  <2>1. /\ status[t] # "none" /\ status'[t] \in Terminal /\ status'[t] # "none"
        /\ \A u \in Requests \ {t} : status'[u] = status[u]
        /\ activeRow' = ReleaseSource(t) /\ UNCHANGED <<idem, lapsed, expired, replyTask>>
    BY <1>2 DEF Ends, Readable, Terminal, TypeOK, DatabaseTypeOK, clockVars
  <2>2. Created' = Created
    BY <2>1 DEF Created
  <2>3. Bound' = Bound
    BY <2>1 DEF Bound
  <2>4. Occupant' = Promise!Vacated(t)
    <3>1. ASSUME NEW s \in Sources
          PROVE  Occupant'[s] = IF Occupant[s] = t THEN None ELSE Occupant[s]
      BY <2>1, ConstantsAssumption DEF Occupant, SourceBusy, ReleaseSource, TypeOK, DatabaseTypeOK
    <3> QED
      BY <3>1 DEF Occupant, Promise!Vacated
  <2> QED
    BY <2>1, <2>2, <2>3, <2>4 DEF Promise!Release
<1>3. ASSUME NEW t \in Requests, Resolves(t) PROVE UNCHANGED Promise!pvars
  <2>1. /\ status' = [status EXCEPT ![t] = "resolving"]
        /\ status[t] \notin {"none", "deleted", "expired"}
        /\ UNCHANGED <<activeRow, idem, lapsed, expired, replyTask>>
    BY <1>3 DEF Resolves, Readable, AdmissionInv, TimesPassed, clockVars
  <2>2. Created' = Created /\ Bound' = Bound
    BY <2>1 DEF Created, Bound, TypeOK, DatabaseTypeOK
  <2>3. Occupant' = Occupant
    <3>1. ASSUME NEW s \in Sources PROVE SourceBusy(s)' = SourceBusy(s)
      BY <2>1 DEF SourceBusy, Terminal, AdmissionInv, TerminalReleasesSource, TypeOK,
                  DatabaseTypeOK
    <3> QED
      BY <2>1, <3>1 DEF Occupant
  <2> QED
    BY <2>1, <2>2, <2>3 DEF Promise!pvars
<1> QED
  BY <1>1, <1>2, <1>3 DEF Effect, Promise!Next

LEMMA InsertPromised ==
  ASSUME TypeOK, AdmissionInv, NEW r \in Requests, InsertTask(r)
  PROVE  Promise!Create(r)
<1>1. /\ status[r] = "none" /\ replyTask[r] = None /\ r \notin lapsed /\ r \notin expired
      /\ status' = [status EXCEPT ![r] = "queued"]
      /\ activeRow' = [activeRow EXCEPT ![SourceOf[r]] = r]
      /\ idem' = [k \in Keys |-> IF k = KeyOf[r] THEN r ELSE idem[k]]
      /\ UNCHANGED <<lapsed, expired, replyTask>>
  BY DEF InsertTask, AdmissionInv, HandlersStand, TimesPassed, TypeOK, ClockTypeOK, clockVars
<1>2. r \notin Created /\ Created' = Created \cup {r}
  BY <1>1 DEF Created, TypeOK, DatabaseTypeOK
<1>3. KeyOf[r] # None => Bound[KeyOf[r]] = None
  <2>1. KeyOf[r] # None => KeyOf[r] \in Keys
    BY ConstantsAssumption
  <2> QED
    BY <2>1 DEF InsertTask, Replays, Bound
<1>4. Bound' = [k \in Keys |-> IF k = KeyOf[r] THEN r ELSE Bound[k]]
  BY <1>1 DEF Bound
<1>5. Occupant[SourceOf[r]] = None
  BY ConstantsAssumption DEF InsertTask, Occupant
<1>6. Occupant' = [Occupant EXCEPT ![SourceOf[r]] = r]
  <2>1. ASSUME NEW s \in Sources
        PROVE  Occupant'[s] = IF s = SourceOf[r] THEN r ELSE Occupant[s]
    <3>1. CASE s = SourceOf[r]
      BY <1>1, <3>1, ConstantsAssumption DEF Occupant, SourceBusy, Terminal, TypeOK, DatabaseTypeOK
    <3>2. CASE s # SourceOf[r]
      <4>1. activeRow'[s] = activeRow[s] /\ (activeRow[s] # None => activeRow[s] # r)
        BY <1>1, <3>2 DEF AdmissionInv, RowsHaveTasks, TypeOK, DatabaseTypeOK
      <4>2. SourceBusy(s)' = SourceBusy(s)
        BY <1>1, <4>1 DEF SourceBusy, TypeOK, DatabaseTypeOK
      <4> QED
        BY <3>2, <4>1, <4>2 DEF Occupant
    <3> QED
      BY <3>1, <3>2
  <2> QED
    BY <2>1, ConstantsAssumption DEF Occupant
<1> QED
  BY <1>1, <1>2, <1>3, <1>4, <1>5, <1>6 DEF Promise!Create

LEMMA ApiPromised ==
  ASSUME TypeOK, AdmissionInv, NEW r \in Requests, ApiStep(r)
  PROVE  [Promise!Next]_(Promise!pvars)
<1>1. CASE AdmitCreated(r) \/ AdmitUnseen(r)
  BY <1>1, InsertPromised DEF AdmitCreated, AdmitUnseen, Promise!Next
<1>2. CASE AdmitReplayed(r)
  <2>1. /\ api[r] = "new" /\ status[r] = "none" /\ replyTask[r] = None
        /\ KeyOf[r] # None /\ idem[KeyOf[r]] # None /\ idem[KeyOf[r]] \notin expired
        /\ SourceOf[idem[KeyOf[r]]] = SourceOf[r]
        /\ replyTask' = [replyTask EXCEPT ![r] = idem[KeyOf[r]]]
        /\ UNCHANGED <<status, activeRow, idem, lapsed, expired>>
    BY <1>2 DEF AdmitReplayed, Replays, AdmissionInv, HandlersStand, dbVars, clockVars
  <2>2. Bound[KeyOf[r]] = idem[KeyOf[r]]
    BY <2>1, ConstantsAssumption DEF Bound
  <2>3. UNCHANGED <<Created, Bound, Occupant>>
    BY <2>1 DEF Created, Bound, Occupant, SourceBusy
  <2>4. Promise!Replay(r)
    BY <2>1, <2>2, <2>3 DEF Promise!Replay, Created
  <2> QED
    BY <2>4 DEF Promise!Next
<1>3. CASE Enqueue(r)
  <2>1. /\ status[r] # "none" /\ replyTask[r] = None
        /\ replyTask' = [replyTask EXCEPT ![r] = r]
        /\ UNCHANGED <<status, activeRow, idem, lapsed, expired>>
    BY <1>3 DEF Enqueue, AdmissionInv, HandlersStand, dbVars, clockVars
  <2>2. Promise!AnswerOwn(r)
    BY <2>1 DEF Promise!AnswerOwn, Created, Bound, Occupant, SourceBusy
  <2> QED
    BY <2>2 DEF Promise!Next
<1>4. CASE AdmitConflict(r) \/ AdmitFailed(r) \/ EnqueueFailed(r) \/ ApiCrash(r)
  BY <1>4 DEF AdmitConflict, AdmitFailed, EnqueueFailed, ApiCrash, dbVars, clockVars,
     Promise!pvars, Created, Bound, Occupant, SourceBusy
<1>5. CASE AdmitDuplicate(r)
  <2>1. \A k \in Keys : idem'[k] = idem[k] \/ (idem[k] \in expired /\ idem'[k] = None)
    BY <1>5 DEF AdmitDuplicate, PurgedIdem
  <2>2. UNCHANGED <<status, activeRow, lapsed, expired, replyTask>>
    BY <1>5 DEF AdmitDuplicate, clockVars
  <2>3. Bound' = Bound
    BY <2>1, <2>2 DEF Bound
  <2> QED
    BY <2>2, <2>3 DEF Promise!pvars, Created, Occupant, SourceBusy
<1>6. CASE FailUnqueuedTask(r)
  BY <1>6, StatementEffects, EffectPromised DEF FailUnqueuedTask
<1> QED
  BY <1>1, <1>2, <1>3, <1>4, <1>5, <1>6 DEF ApiStep

LEMMA CleanupPromised ==
  ASSUME TypeOK, AdmissionInv, CleanupStep
  PROVE  [Promise!Next]_(Promise!pvars)
<1> USE DEF TypeOK, DatabaseTypeOK, ClockTypeOK, apiVars
<1>1. ASSUME NEW t \in Requests, LapseSource(t) PROVE Promise!Release(t)
  <2>1. /\ lapsed' = lapsed \cup {t}
        /\ UNCHANGED <<status, activeRow, idem, expired, replyTask>>
    BY <1>1 DEF LapseSource, dbVars
  <2>2. ASSUME NEW s \in Sources
        PROVE  Occupant'[s] = IF Occupant[s] = t THEN None ELSE Occupant[s]
    BY <2>1, ConstantsAssumption DEF Occupant, SourceBusy
  <2> QED
    BY <2>1, <2>2 DEF Promise!Release, Promise!Vacated, Created, Bound, Occupant
<1>2. ASSUME NEW t \in Requests, ExpireTask(t) PROVE Promise!Expire(t)
  <2>1. /\ lapsed' = lapsed \cup {t} /\ expired' = expired \cup {t} /\ t \in Created
        /\ UNCHANGED <<status, activeRow, idem, replyTask>>
    BY <1>2 DEF ExpireTask, dbVars, Created
  <2>2. ASSUME NEW s \in Sources
        PROVE  Occupant'[s] = IF Occupant[s] = t THEN None ELSE Occupant[s]
    BY <2>1, ConstantsAssumption DEF Occupant, SourceBusy
  <2>3. ASSUME NEW k \in Keys
        PROVE  Bound'[k] = IF Bound[k] = t THEN None ELSE Bound[k]
    BY <2>1, ConstantsAssumption DEF Bound
  <2> QED
    BY <2>1, <2>2, <2>3 DEF Promise!Expire, Promise!Vacated, Created, Bound, Occupant
<1>3. ASSUME NEW t \in Requests, CleanExpiredTask(t) PROVE UNCHANGED Promise!pvars
  <2>1. /\ t \in expired /\ t \in lapsed /\ status[t] # "none"
        /\ status' = [status EXCEPT ![t] = "expired"]
        /\ UNCHANGED <<activeRow, idem, lapsed, expired, replyTask>>
    BY <1>3 DEF CleanExpiredTask, clockVars
  <2>2. ASSUME NEW s \in Sources PROVE Occupant'[s] = Occupant[s]
    BY <2>1 DEF Occupant, SourceBusy
  <2> QED
    BY <2>1, <2>2 DEF Promise!pvars, Created, Bound, Occupant
<1>4. ASSUME NEW t \in Requests, HardDeleteTask(t) PROVE UNCHANGED Promise!pvars
  <2>1. /\ t \in expired /\ t \in lapsed /\ status[t] # "none"
        /\ status' = [status EXCEPT ![t] = "deleted"]
        /\ UNCHANGED <<lapsed, expired, replyTask>>
    BY <1>4 DEF HardDeleteTask, clockVars, AdmissionInv, TimesPassed
  <2>2. ASSUME NEW s \in Sources PROVE Occupant'[s] = Occupant[s]
    BY <1>4, <2>1 DEF HardDeleteTask, ReleaseSource, Occupant, SourceBusy
  <2>3. ASSUME NEW k \in Keys PROVE Bound'[k] = Bound[k]
    BY <1>4, <2>1 DEF HardDeleteTask, Bound
  <2> QED
    BY <2>1, <2>2, <2>3 DEF Promise!pvars, Created, Bound, Occupant
<1>5. ASSUME NEW k \in Keys, CleanIdempotencyRecord(k) PROVE UNCHANGED Promise!pvars
  <2>1. /\ idem[k] \in expired /\ idem' = [idem EXCEPT ![k] = None]
        /\ UNCHANGED <<status, activeRow, lapsed, expired, replyTask>>
    BY <1>5 DEF CleanIdempotencyRecord, clockVars
  <2>2. ASSUME NEW j \in Keys PROVE Bound'[j] = Bound[j]
    BY <2>1 DEF Bound
  <2> QED
    BY <2>1, <2>2 DEF Promise!pvars, Created, Bound, Occupant, SourceBusy
<1>6. ASSUME NEW s \in Sources, CleanActiveSource(s) PROVE UNCHANGED Promise!pvars
  <2>1. /\ activeRow[s] \in lapsed /\ activeRow' = [activeRow EXCEPT ![s] = None]
        /\ UNCHANGED <<status, idem, lapsed, expired, replyTask>>
    BY <1>6 DEF CleanActiveSource, clockVars
  <2>2. ASSUME NEW u \in Sources PROVE Occupant'[u] = Occupant[u]
    BY <2>1 DEF Occupant, SourceBusy
  <2> QED
    BY <2>1, <2>2 DEF Promise!pvars, Created, Bound, Occupant
<1> QED
  BY <1>1, <1>2, <1>3, <1>4, <1>5, <1>6 DEF CleanupStep, Promise!Next

(* ADR-0007, sections 4 and 5: the code, with every fault the model has,   *)
(* behaves as AdmissionPromise does.                                       *)
THEOREM AdmissionRefinement == Spec => ImplementsPromise
<1>1. Init => Promise!Init
  BY DEF Init, Promise!Init, Created, Bound, Occupant, SourceBusy
<1>2. TypeOK /\ AdmissionInv /\ [Next]_vars => [Promise!Next]_(Promise!pvars)
  <2> SUFFICES ASSUME TypeOK, AdmissionInv, [Next]_vars PROVE [Promise!Next]_(Promise!pvars)
    OBVIOUS
  <2>1. ASSUME NEW r \in Requests, ApiStep(r) PROVE [Promise!Next]_(Promise!pvars)
    BY <2>1, ApiPromised
  <2>2. ASSUME NEW w \in Workers, WorkerStep(w) \/ WorkerCrash(w)
        PROVE  [Promise!Next]_(Promise!pvars)
    BY <2>2, WorkerEffects, EffectPromised DEF apiVars
  <2>3. ASSUME NEW t \in Requests, QueueStep(t) \/ \E w \in Workers : Take(w, t)
        PROVE  [Promise!Next]_(Promise!pvars)
    BY <2>3, QueueEffects, EffectPromised DEF apiVars
  <2>4. CASE CleanupStep
    BY <2>4, CleanupPromised
  <2>5. CASE UNCHANGED vars
    BY <2>5, EffectPromised DEF vars, dbVars, apiVars, Effect, Quiet
  <2> QED
    BY <2>1, <2>2, <2>3, <2>4, <2>5 DEF Next
<1> QED
  BY <1>1, <1>2, TypeCorrect, AdmissionInvariant, PTL DEF Spec, ImplementsPromise, Promise!Spec
-----------------------------------------------------------------------------
(* The inductive invariant of the jobs: for a task no fault has touched,   *)
(* what the queue, the run on it and its row can say at the same time.     *)

(* A free worker has no job; only what follows a provider's success is     *)
(* done by a run that had one.                                             *)
RunsStand ==
  \A w \in Workers :
    /\ run[w].at = "idle" => run[w].job = None /\ ~run[w].resolved
    /\ run[w].resolved => run[w].at \in {"complete", "post", "completed", "unrecoverable"}

(* A handler adds its job once; one whose add() failed has a touched task. *)
Placed(t) ==
  /\ api[t] \in {"new", "enqueue"} => job[t] = "none"
  /\ api[t] = "queueFailed" => t \in faulted
  /\ job[t] # "none" => status[t] # "none"

(* The run that owns the lock of an active job is the only one on it. *)
Held(t) ==
  /\ job[t] = "active" => holder[t] \in Workers /\ run[holder[t]].job = t
  /\ \A w \in Workers : run[w].job = t => job[t] = "active" /\ holder[t] = w

(* Nothing is known of a task whose job waits.                             *)
Unstarted(t) ==
  job[t] \in {"none", "waiting"}
    => /\ t \notin provided \cup result \cup ledger \cup failedEvents
       /\ error[t] # "PROVIDER_UNAVAILABLE"

Decided(t) == t \in expired \/ status[t] \in Terminal

Underway(t) ==
  \A w \in Workers :
    run[w].job = t
      => /\ t \notin failedEvents /\ error[t] # "PROVIDER_UNAVAILABLE"
         /\ t \in provided <=> run[w].resolved
         /\ t \in result \cup ledger => run[w].at \in {"completed", "unrecoverable"}
         /\ run[w].at \in {"completed", "unrecoverable"} => Decided(t)

(* A job that ended has decided its task, or ran out of attempts without a *)
(* success and its last failed event is still to be handled.               *)
Settled(t) ==
  job[t] \in {"completed", "failed"}
    => /\ \/ Decided(t)
          \/ t \in failedEvents /\ attemptsMade[t] >= MaxAttempts /\ t \notin provided
       /\ error[t] = "PROVIDER_UNAVAILABLE" => t \notin provided

ResultsShown(t) ==
  /\ t \in result => status[t] \in {"succeeded", "expired"}
  /\ t \in ledger => status[t] \in Terminal

Followed(t) == Held(t) /\ Unstarted(t) /\ Underway(t) /\ Settled(t) /\ ResultsShown(t)

JobInv ==
  /\ RunsStand
  /\ \A t \in Requests : Placed(t) /\ (t \notin faulted => Followed(t))

(* A step that is not about task t, except that t may expire. *)
SameTask(t) ==
  /\ status'[t] = status[t] /\ error'[t] = error[t]
  /\ job'[t] = job[t] /\ holder'[t] = holder[t] /\ attemptsMade'[t] = attemptsMade[t]
  /\ t \in result' <=> t \in result
  /\ t \in ledger' <=> t \in ledger
  /\ t \in provided' <=> t \in provided
  /\ t \in failedEvents' <=> t \in failedEvents
  /\ t \in expired => t \in expired'
  /\ \A w \in Workers : run[w].job = t \/ run'[w].job = t => run'[w] = run[w]

LEMMA SameTaskFollowed ==
  ASSUME NEW t \in Requests, Followed(t), SameTask(t)
  PROVE  Followed(t)'
<1> USE DEF Followed, SameTask
<1>1. Held(t)'
  BY DEF Held
<1>2. Unstarted(t)'
  BY DEF Unstarted
<1>3. Underway(t)'
  BY DEF Underway, Decided
<1>4. Settled(t)'
  BY DEF Settled, Decided
<1>5. ResultsShown(t)'
  BY DEF ResultsShown
<1> QED
  BY <1>1, <1>2, <1>3, <1>4, <1>5

LEMMA PlacedKept ==
  ASSUME NEW t \in Requests, Placed(t), api'[t] = api[t], faulted \subseteq faulted',
         job[t] = "none" => job'[t] = "none",
         status[t] # "none" => status'[t] # "none"
  PROVE  Placed(t)'
BY DEF Placed

(* The steps about one task t: the others keep what is known of them. *)
LEMMA JobsFollowed ==
  ASSUME JobInv, NEW t \in Requests, RunsStand', faulted \subseteq faulted',
         \A u \in Requests : Placed(u)',
         \A u \in Requests : u # t => SameTask(u),
         t \notin faulted' => Followed(t)'
  PROVE  JobInv'
<1>1. ASSUME NEW u \in Requests, u # t, u \notin faulted' PROVE Followed(u)'
  BY <1>1, SameTaskFollowed DEF JobInv
<1> QED
  BY <1>1 DEF JobInv

(* The steps about no task: all keep what is known of them. *)
LEMMA NothingFollowed ==
  ASSUME JobInv, RunsStand', faulted \subseteq faulted',
         \A u \in Requests : Placed(u)' /\ SameTask(u)
  PROVE  JobInv'
BY SameTaskFollowed DEF JobInv

(* The run on an untouched task is the only one. *)
LEMMA Alone ==
  ASSUME NEW t \in Requests, Followed(t), NEW w \in Workers, run[w].job = t
  PROVE  /\ job[t] = "active" /\ holder[t] = w
         /\ \A v \in Workers : run[v].job = t => v = w
BY DEF Followed, Held

LEMMA RunMoves ==
  ASSUME RunTypeOK, NEW t \in Requests, Followed(t), NEW w \in Workers, run[w].job = t,
         NEW c, c.job = t, run' = [run EXCEPT ![w] = c],
         job'[t] = job[t], holder'[t] = holder[t],
         t \notin failedEvents', error'[t] # "PROVIDER_UNAVAILABLE",
         t \in provided' <=> c.resolved,
         t \in result' \cup ledger' => c.at \in {"completed", "unrecoverable"},
         c.at \in {"completed", "unrecoverable"} => Decided(t)',
         ResultsShown(t)'
  PROVE  Followed(t)'
<1>1. /\ job'[t] = "active" /\ holder'[t] = w
      /\ \A v \in Workers : run[v].job = t => v = w
  BY Alone
<1>2. run'[w] = c /\ \A v \in Workers : v # w => run'[v] = run[v]
  BY DEF RunTypeOK
<1>3. \A v \in Workers : run'[v].job = t => v = w
  BY <1>1, <1>2
<1>4. Held(t)'
  BY <1>1, <1>2, <1>3 DEF Held
<1>5. Underway(t)'
  BY <1>2, <1>3 DEF Underway
<1>6. Unstarted(t)' /\ Settled(t)'
  BY <1>1 DEF Unstarted, Settled
<1> QED
  BY <1>4, <1>5, <1>6 DEF Followed

LEMMA RunEnds ==
  ASSUME RunTypeOK, NEW t \in Requests, Followed(t), NEW w \in Workers, run[w].job = t,
         run' = [run EXCEPT ![w] = Idle], job'[t] # "active",
         Unstarted(t)', Settled(t)', ResultsShown(t)'
  PROVE  Followed(t)'
<1>1. \A v \in Workers : run[v].job = t => v = w
  BY Alone
<1>2. run'[w] = Idle /\ \A v \in Workers : v # w => run'[v] = run[v]
  BY DEF RunTypeOK
<1>3. \A v \in Workers : run'[v].job # t
  BY <1>1, <1>2, ConstantsAssumption DEF Idle
<1> QED
  BY <1>3 DEF Followed, Held, Underway

LEMMA RunsStandKept ==
  ASSUME RunTypeOK, RunsStand, NEW w \in Workers, NEW c, run' = [run EXCEPT ![w] = c],
         c.at = "idle" => c.job = None /\ ~c.resolved,
         c.resolved => c.at \in {"complete", "post", "completed", "unrecoverable"}
  PROVE  RunsStand'
BY DEF RunTypeOK, RunsStand

LEMMA GoToRecord ==
  ASSUME RunTypeOK, NEW w \in Workers, NEW step, GoTo(w, step)
  PROVE  run' = [run EXCEPT ![w] = [job |-> run[w].job, at |-> step,
                                    resolved |-> run[w].resolved]]
<1> DEFINE c == [job |-> run[w].job, at |-> step, resolved |-> run[w].resolved]
<1>1. run[w] \in [job : Requests \cup {None}, at : RunSteps, resolved : BOOLEAN]
  BY DEF RunTypeOK
<1>2. [run[w] EXCEPT !.at = step] = c
  BY <1>1
<1>3. run' = [run EXCEPT ![w] = [run[w] EXCEPT !.at = step]]
  BY DEF GoTo
<1> QED
  BY <1>2, <1>3

(* What is left of the rows of a task by each statement of TaskRepository. *)
SameRow(t) ==
  /\ status'[t] = status[t] /\ error'[t] = error[t]
  /\ t \in result' <=> t \in result
  /\ t \in ledger' <=> t \in ledger

LEMMA OtherRows ==
  ASSUME DatabaseTypeOK, NEW t \in Requests, NEW code \in ErrorCodes,
         \/ fail(t, code)
         \/ failIfNonTerminal(t, code)
         \/ failAfterProviderResolution(t)
         \/ completeWithResolution(t)
         \/ markResolving(t),
         NEW u \in Requests, u # t
  PROVE  SameRow(u)
<1> USE DEF DatabaseTypeOK, SameRow, dbVars
<1>1. CASE fail(t, code)
  BY <1>1 DEF fail
<1>2. CASE failIfNonTerminal(t, code)
  BY <1>2 DEF failIfNonTerminal
<1>3. CASE failAfterProviderResolution(t)
  BY <1>3 DEF failAfterProviderResolution
<1>4. CASE completeWithResolution(t)
  BY <1>4 DEF completeWithResolution
<1>5. CASE markResolving(t)
  BY <1>5 DEF markResolving
<1> QED
  BY <1>1, <1>2, <1>3, <1>4, <1>5

(* A task with a job has a row, and a row that cannot be read has expired. *)
LEMMA HasRow ==
  ASSUME TypeOK, AdmissionInv, NEW t \in Requests, Placed(t), job[t] # "none"
  PROVE  Readable(t) \/ t \in expired
BY DEF AdmissionInv, TimesPassed, Placed, Readable

LEMMA Failed ==
  ASSUME TypeOK, AdmissionInv, NEW t \in Requests, Placed(t), job[t] # "none",
         fail(t, "OTHER"), UNCHANGED expired,
         t \notin result \cup ledger, error[t] # "PROVIDER_UNAVAILABLE"
  PROVE  /\ Decided(t)' /\ ResultsShown(t)' /\ t \notin result' \cup ledger'
         /\ error'[t] # "PROVIDER_UNAVAILABLE"
<1>1. Readable(t) \/ t \in expired
  BY HasRow
<1> QED
  BY <1>1 DEF fail, dbVars, Decided, ResultsShown, Terminal, TypeOK, DatabaseTypeOK

LEMMA EffectKeepsRows ==
  ASSUME TypeOK, Effect
  PROVE  \A u \in Requests : status[u] # "none" => status'[u] # "none"
BY DEF Effect, Quiet, Ends, Resolves, TypeOK, DatabaseTypeOK

(* A step of worker w on its task t that goes on with the run. *)
LEMMA RunGoesOn ==
  ASSUME TypeOK, JobInv, Effect, NEW w \in Workers, NEW t \in Requests, run[w].job = t,
         NEW c, c.job = t, c.at # "idle", run' = [run EXCEPT ![w] = c],
         c.resolved => c.at \in {"complete", "post", "completed", "unrecoverable"},
         UNCHANGED <<api, expired, queueVars>>, faulted \subseteq faulted',
         \A u \in Requests : u # t => SameRow(u) /\ (u \in provided' <=> u \in provided),
         t \notin faulted' =>
           /\ error'[t] # "PROVIDER_UNAVAILABLE"
           /\ t \in provided' <=> c.resolved
           /\ t \in result' \cup ledger' => c.at \in {"completed", "unrecoverable"}
           /\ c.at \in {"completed", "unrecoverable"} => Decided(t)'
           /\ ResultsShown(t)'
  PROVE  JobInv'
<1>1. RunsStand'
  BY RunsStandKept DEF JobInv, TypeOK
<1>2. UNCHANGED <<job, holder, attemptsMade, failedEvents>>
  BY DEF queueVars
<1>3. ASSUME NEW u \in Requests PROVE Placed(u)'
  BY <1>2, PlacedKept, EffectKeepsRows DEF JobInv
<1>4. /\ run'[w] = c /\ \A v \in Workers : v # w => run'[v] = run[v]
  BY DEF TypeOK, RunTypeOK
<1>5. ASSUME NEW u \in Requests, u # t PROVE SameTask(u)
  BY <1>2, <1>4, <1>5 DEF SameTask, SameRow
<1>6. ASSUME t \notin faulted' PROVE Followed(t)'
  <2>1. t \notin failedEvents /\ Followed(t)
    BY <1>6 DEF JobInv, Followed, Underway
  <2> QED
    BY <1>2, <1>6, <2>1, RunMoves DEF TypeOK
<1> QED
  BY <1>1, <1>3, <1>5, <1>6, JobsFollowed

(* A step that frees worker w of its task t. *)
LEMMA RunIsOver ==
  ASSUME TypeOK, JobInv, NEW w \in Workers, NEW t \in Requests, run[w].job = t,
         run' = [run EXCEPT ![w] = Idle],
         UNCHANGED <<api, expired, dbVars, provided>>, faulted \subseteq faulted',
         \A u \in Requests :
           u # t => /\ job'[u] = job[u] /\ holder'[u] = holder[u]
                    /\ attemptsMade'[u] = attemptsMade[u]
                    /\ u \in failedEvents' <=> u \in failedEvents,
         job[t] = "none" => job'[t] = "none",
         t \notin faulted' => job'[t] # "active" /\ Unstarted(t)' /\ Settled(t)'
  PROVE  JobInv'
<1>1. RunsStand'
  BY RunsStandKept, Zenon DEF JobInv, TypeOK, Idle
<1>2. UNCHANGED <<status, error, result, ledger>>
  BY DEF dbVars
<1>3. ASSUME NEW u \in Requests PROVE Placed(u)'
  BY <1>2, PlacedKept DEF JobInv
<1>4. /\ run'[w] = Idle /\ \A v \in Workers : v # w => run'[v] = run[v]
  BY DEF TypeOK, RunTypeOK
<1>5. ASSUME NEW u \in Requests, u # t PROVE SameTask(u)
  BY <1>2, <1>4, <1>5, ConstantsAssumption DEF SameTask, Idle
<1>6. ASSUME t \notin faulted' PROVE Followed(t)'
  <2>1. Followed(t) /\ ResultsShown(t)'
    BY <1>2, <1>6 DEF JobInv, Followed, ResultsShown
  <2> QED
    BY <1>6, <2>1, RunEnds DEF TypeOK
<1> QED
  BY <1>1, <1>3, <1>5, <1>6, JobsFollowed

(* What an untouched task is known to be while worker w is on it. *)
LEMMA OnTask ==
  ASSUME TypeOK, JobInv, NEW w \in Workers, run[w].at # "idle"
  PROVE  /\ run[w].job \in Requests
         /\ run[w].resolved => run[w].at \in {"complete", "post", "completed", "unrecoverable"}
         /\ Placed(run[w].job)
         /\ run[w].job \notin faulted =>
              /\ Followed(run[w].job) /\ job[run[w].job] = "active"
              /\ run[w].job \notin failedEvents /\ error[run[w].job] # "PROVIDER_UNAVAILABLE"
              /\ run[w].job \in provided <=> run[w].resolved
              /\ run[w].job \in result \cup ledger => run[w].at \in {"completed", "unrecoverable"}
              /\ run[w].at \in {"completed", "unrecoverable"} => Decided(run[w].job)
              /\ ResultsShown(run[w].job)
<1>1. run[w].job \in Requests
  BY DEF TypeOK, RunTypeOK
<1> QED
  BY <1>1, Alone DEF JobInv, RunsStand, Followed, Underway

LEMMA RunKeepsJobs ==
  ASSUME TypeOK, AdmissionInv, JobInv, NEW w \in Workers, NEW t \in Requests,
         run[w].job = t,
         \/ MarkResolving(w) \/ PlatformMismatch(w) \/ RouteSucceeds(w) \/ RouteRetryable(w)
         \/ RouteFails(w) \/ FailTask(w) \/ DatabaseError(w) \/ Complete(w)
         \/ CompletionFails(w) \/ PersistPostProviderFailure(w)
  PROVE  JobInv'
<1> DEFINE c(step) == [job |-> t, at |-> step, resolved |-> run[w].resolved]
<1>0. run[w].at # "idle"
  BY DEF MarkResolving, PlatformMismatch, RouteSucceeds, RouteRetryable, RouteFails, FailTask,
         DatabaseError, Complete, CompletionFails, PersistPostProviderFailure, At
<1>1. /\ Placed(t)
      /\ run[w].resolved => run[w].at \in {"complete", "post", "completed", "unrecoverable"}
      /\ t \notin faulted =>
           /\ Followed(t) /\ job[t] = "active"
           /\ t \notin failedEvents /\ error[t] # "PROVIDER_UNAVAILABLE"
           /\ t \in provided <=> run[w].resolved
           /\ t \in result \cup ledger => run[w].at \in {"completed", "unrecoverable"}
           /\ run[w].at \in {"completed", "unrecoverable"} => Decided(t)
           /\ ResultsShown(t)
  BY <1>0, OnTask
<1>2. Effect /\ UNCHANGED <<api, expired, queueVars>>
  <2>1. WorkerStep(w)
    BY DEF WorkerStep
  <2>2. UNCHANGED queueVars
    BY DEF MarkResolving, PlatformMismatch, RouteSucceeds, RouteRetryable, RouteFails, FailTask,
           DatabaseError, Complete, CompletionFails, PersistPostProviderFailure
  <2> QED
    BY <2>1, <2>2, WorkerEffects DEF clockVars, apiVars
<1>3. UNCHANGED dbVars
        => /\ \A u \in Requests : SameRow(u)
           /\ UNCHANGED <<status, error, result, ledger>>
           /\ ResultsShown(t) => ResultsShown(t)'
  BY DEF dbVars, SameRow, ResultsShown
<1>4. ASSUME NEW step, GoTo(w, step) PROVE run' = [run EXCEPT ![w] = c(step)]
  BY <1>4, GoToRecord DEF TypeOK
<1>5. /\ "OTHER" \in ErrorCodes /\ DatabaseTypeOK
      /\ \A T \in SUBSET Requests : Fault(T) => faulted' = faulted \cup T
  BY DEF ErrorCodes, Fault, TypeOK
<1>6. UNCHANGED faultVars => faulted' = faulted
  BY DEF faultVars
<1>7. t \notin faulted /\ fail(t, "OTHER") /\ t \notin result \cup ledger
        => /\ Decided(t)' /\ ResultsShown(t)' /\ t \notin result' \cup ledger'
           /\ error'[t] # "PROVIDER_UNAVAILABLE"
  BY <1>1, <1>2, Failed
<1>8. t \notin faulted => Readable(t) \/ t \in expired
  BY <1>1, HasRow
(* A step that goes on to another place, given what it does to the row. *)
<1>9. ASSUME NEW step \in RunSteps \ {"idle"}, GoTo(w, step),
             run[w].resolved => step \in {"complete", "post", "completed", "unrecoverable"},
             provided' = provided, faulted \subseteq faulted',
             \A u \in Requests : u # t => SameRow(u),
             t \notin faulted' =>
               /\ error'[t] # "PROVIDER_UNAVAILABLE"
               /\ t \in result' \cup ledger' => step \in {"completed", "unrecoverable"}
               /\ step \in {"completed", "unrecoverable"} => Decided(t)'
               /\ ResultsShown(t)'
      PROVE  JobInv'
  <2> DEFINE d == c(step)
  <2>1. d.job = t /\ d.at = step /\ d.resolved = run[w].resolved
    OBVIOUS
  <2>2. run' = [run EXCEPT ![w] = d]
    BY <1>4, <1>9
  <2> HIDE DEF d
  <2> QED
    BY <1>1, <1>2, <1>9, <2>1, <2>2, RunGoesOn
<1>10. CASE MarkResolving(w)
  <2>1. /\ run[w].at = "mark" /\ markResolving(t) /\ GoTo(w, "route")
        /\ provided' = provided /\ faulted' = faulted
    BY <1>6, <1>10 DEF MarkResolving, At
  <2>2. \A u \in Requests : u # t => SameRow(u)
    BY <1>5, <2>1, OtherRows
  <2>3. t \notin faulted =>
          /\ t \notin result' \cup ledger' /\ error'[t] # "PROVIDER_UNAVAILABLE"
          /\ ResultsShown(t)'
    BY <1>1, <1>5, <2>1 DEF markResolving, dbVars, DatabaseTypeOK, ResultsShown
  <2> QED
    BY <1>1, <1>9, <2>1, <2>2, <2>3 DEF RunSteps
<1>11. CASE PlatformMismatch(w) \/ FailTask(w)
  <2>1. /\ run[w].at \in {"route", "fail"} /\ fail(t, "OTHER") /\ GoTo(w, "unrecoverable")
        /\ provided' = provided /\ faulted' = faulted
    BY <1>6, <1>11 DEF PlatformMismatch, FailTask, At
  <2>2. \A u \in Requests : u # t => SameRow(u)
    BY <1>5, <2>1, OtherRows
  <2> QED
    BY <1>1, <1>7, <1>9, <2>1, <2>2 DEF RunSteps
<1>12. CASE RouteRetryable(w) \/ RouteFails(w) \/ CompletionFails(w)
  <2>1. /\ \/ run[w].at = "route" /\ GoTo(w, "retry")
           \/ run[w].at = "route" /\ GoTo(w, "fail")
           \/ run[w].at = "complete" /\ GoTo(w, "post")
        /\ provided' = provided /\ faulted' = faulted /\ UNCHANGED dbVars
    BY <1>6, <1>12 DEF RouteRetryable, RouteFails, CompletionFails, At
  <2> QED
    BY <1>1, <1>3, <1>9, <2>1 DEF RunSteps
<1>13. CASE DatabaseError(w)
  <2>1. /\ run[w].at \in {"mark", "fail"} /\ GoTo(w, "retry")
        /\ provided' = provided /\ faulted' = faulted \cup {t} /\ UNCHANGED dbVars
    BY <1>5, <1>13 DEF DatabaseError
  <2> QED
    BY <1>1, <1>3, <1>9, <2>1 DEF RunSteps
<1>14. CASE RouteSucceeds(w)
  <2> DEFINE d == [job |-> t, at |-> "complete", resolved |-> TRUE]
  <2>1. /\ run[w].at = "route" /\ run' = [run EXCEPT ![w] = d]
        /\ provided' = provided \cup {t} /\ faulted' = faulted /\ UNCHANGED dbVars
    BY <1>6, <1>14 DEF RouteSucceeds, At
  <2>2. d.job = t /\ d.at = "complete" /\ d.resolved
    OBVIOUS
  <2> HIDE DEF d
  <2> QED
    BY <1>1, <1>2, <1>3, <2>1, <2>2, RunGoesOn
<1>15. CASE Complete(w)
  <2>1. /\ run[w].at = "complete" /\ completeWithResolution(t)
        /\ \/ GoTo(w, "completed") /\ faulted' = faulted
           \/ GoTo(w, "post") /\ faulted' = faulted \cup {t}
        /\ provided' = provided
    BY <1>5, <1>6, <1>15 DEF Complete, At
  <2>2. \A u \in Requests : u # t => SameRow(u)
    BY <1>5, <2>1, OtherRows
  <2>3. error'[t] # "PROVIDER_UNAVAILABLE" /\ Decided(t)' /\ ResultsShown(t)'
    BY <1>5, <2>1 DEF completeWithResolution, DatabaseTypeOK, Decided, ResultsShown, Terminal
  <2> QED
    BY <1>1, <1>9, <2>1, <2>2, <2>3 DEF RunSteps
<1>16. CASE PersistPostProviderFailure(w)
  <2>1. /\ run[w].at = "post" /\ GoTo(w, "unrecoverable") /\ provided' = provided
        /\ \/ failAfterProviderResolution(t) /\ faulted' = faulted
           \/ UNCHANGED dbVars /\ faulted' = faulted \cup {t}
    BY <1>5, <1>6, <1>16 DEF PersistPostProviderFailure, At
  <2>2. \A u \in Requests : u # t => SameRow(u)
    BY <1>3, <1>5, <2>1, OtherRows
  <2>3. t \notin faulted /\ failAfterProviderResolution(t)
          => error'[t] # "PROVIDER_UNAVAILABLE" /\ Decided(t)' /\ ResultsShown(t)'
    BY <1>1, <1>2, <1>5, <1>8 DEF failAfterProviderResolution, dbVars, DatabaseTypeOK, Decided,
       ResultsShown, Terminal
  <2> QED
    BY <1>1, <1>9, <2>1, <2>2, <2>3 DEF RunSteps
<1> QED
  BY <1>10, <1>11, <1>12, <1>13, <1>14, <1>15, <1>16

LEMMA SettlingKeepsJobs ==
  ASSUME TypeOK, JobInv, NEW w \in Workers, NEW t \in Requests, run[w].job = t,
         \/ SettleCompleted(w) \/ SettleRetry(w) \/ SettleUnrecoverable(w)
         \/ SettleWithoutLock(w) \/ WorkerCrash(w)
  PROVE  JobInv'
<1>0. /\ run[w].at # "idle" /\ run' = [run EXCEPT ![w] = Idle]
      /\ UNCHANGED <<api, expired, dbVars, provided>> /\ UNCHANGED stalls
  BY DEF SettleCompleted, SettleRetry, SettleUnrecoverable, SettleWithoutLock, WorkerCrash, At,
         apiVars, clockVars, queueVars
<1>1. /\ run[w].resolved => run[w].at \in {"complete", "post", "completed", "unrecoverable"}
      /\ t \notin faulted =>
           /\ Followed(t) /\ job[t] = "active" /\ holder[t] = w
           /\ t \notin failedEvents /\ error[t] # "PROVIDER_UNAVAILABLE"
           /\ t \in provided <=> run[w].resolved
           /\ t \in result \cup ledger => run[w].at \in {"completed", "unrecoverable"}
           /\ run[w].at \in {"completed", "unrecoverable"} => Decided(t)
  BY <1>0, OnTask, Alone
<1>2. UNCHANGED <<status, error, result, ledger, expired, provided>>
  BY <1>0 DEF dbVars
<1>3. Decided(t) => Decided(t)'
  BY <1>2 DEF Decided
<1>4. UNCHANGED faultVars => faulted' = faulted
  BY DEF faultVars
<1>5. QueueTypeOK
  BY DEF TypeOK
<1>6. SettleCompleted(w) \/ SettleRetry(w) \/ SettleUnrecoverable(w) => job[t] # "none"
  BY DEF SettleCompleted, SettleRetry, SettleUnrecoverable, OwnsLock
<1>10. CASE SettleCompleted(w)
  <2>1. /\ run[w].at = "completed" /\ faulted' = faulted
        /\ job' = [job EXCEPT ![t] = "completed"] /\ holder' = [holder EXCEPT ![t] = None]
        /\ UNCHANGED <<attemptsMade, failedEvents>>
    BY <1>4, <1>10 DEF SettleCompleted, At
  <2>2. job'[t] = "completed"
    BY <1>5, <2>1 DEF QueueTypeOK
  <2>3. t \notin faulted' => job'[t] # "active" /\ Unstarted(t)' /\ Settled(t)'
    BY <1>1, <1>2, <1>3, <2>1, <2>2 DEF Unstarted, Settled
  <2>4. \A u \in Requests :
          u # t => /\ job'[u] = job[u] /\ holder'[u] = holder[u]
                   /\ attemptsMade'[u] = attemptsMade[u]
                   /\ u \in failedEvents' <=> u \in failedEvents
    BY <1>5, <2>1 DEF QueueTypeOK
  <2>5. faulted \subseteq faulted' /\ job[t] # "none"
    BY <1>6, <1>10, <2>1
  <2> QED
    BY <1>0, <2>3, <2>4, <2>5, RunIsOver
<1>11. ASSUME FailJob(t), faulted' = faulted, job[t] # "none",
              t \notin faulted =>
                \/ Decided(t)
                \/ attemptsMade[t] + 1 >= MaxAttempts /\ t \notin provided
       PROVE  JobInv'
  <2>1. /\ job' = [job EXCEPT ![t] = "failed"] /\ holder' = [holder EXCEPT ![t] = None]
        /\ failedEvents' = failedEvents \cup {t}
        /\ attemptsMade' = [attemptsMade EXCEPT ![t] = attemptsMade[t] + 1]
    BY <1>11 DEF FailJob
  <2>2. job'[t] = "failed" /\ attemptsMade'[t] = attemptsMade[t] + 1 /\ t \in failedEvents'
    BY <1>5, <2>1 DEF QueueTypeOK
  <2>3. t \notin faulted' => job'[t] # "active" /\ Unstarted(t)' /\ Settled(t)'
    BY <1>1, <1>2, <1>3, <1>11, <2>2 DEF Unstarted, Settled
  <2>4. \A u \in Requests :
          u # t => /\ job'[u] = job[u] /\ holder'[u] = holder[u]
                   /\ attemptsMade'[u] = attemptsMade[u]
                   /\ u \in failedEvents' <=> u \in failedEvents
    BY <1>5, <2>1 DEF QueueTypeOK
  <2> QED
    BY <1>0, <1>11, <2>3, <2>4, RunIsOver
<1>12. CASE SettleUnrecoverable(w)
  <2>1. run[w].at = "unrecoverable" /\ FailJob(t) /\ faulted' = faulted
    BY <1>4, <1>12 DEF SettleUnrecoverable, At
  <2> QED
    BY <1>1, <1>6, <1>11, <1>12, <2>1
<1>13. CASE SettleRetry(w)
  <2>1. /\ run[w].at = "retry" /\ faulted' = faulted
        /\ IF attemptsMade[t] + 1 < MaxAttempts
           THEN /\ attemptsMade' = [attemptsMade EXCEPT ![t] = attemptsMade[t] + 1]
                /\ job' = [job EXCEPT ![t] = "waiting"]
                /\ holder' = [holder EXCEPT ![t] = None]
                /\ UNCHANGED failedEvents
           ELSE FailJob(t)
    BY <1>4, <1>13 DEF SettleRetry, At
  <2>2. t \notin faulted => t \notin provided \cup result \cup ledger
    BY <1>1, <2>1
  <2>3. CASE attemptsMade[t] + 1 < MaxAttempts
    <3>1. job'[t] = "waiting"
      BY <1>5, <2>1, <2>3 DEF QueueTypeOK
    <3>2. t \notin faulted' => job'[t] # "active" /\ Unstarted(t)' /\ Settled(t)'
      BY <1>1, <1>2, <2>1, <2>2, <2>3, <3>1 DEF Unstarted, Settled
    <3>3. \A u \in Requests :
            u # t => /\ job'[u] = job[u] /\ holder'[u] = holder[u]
                     /\ attemptsMade'[u] = attemptsMade[u]
      BY <1>5, <2>1, <2>3 DEF QueueTypeOK
    <3>4. faulted \subseteq faulted' /\ job[t] # "none" /\ UNCHANGED failedEvents
      BY <1>6, <1>13, <2>1, <2>3
    <3> QED
      BY <1>0, <3>2, <3>3, <3>4, RunIsOver
  <2>4. CASE ~(attemptsMade[t] + 1 < MaxAttempts)
    <3>1. attemptsMade[t] + 1 >= MaxAttempts
      BY <1>5, <2>4, ConstantsAssumption DEF QueueTypeOK
    <3> QED
      <4>1. FailJob(t) /\ faulted' = faulted
        BY <2>1, <2>4
      <4>2. t \notin faulted => attemptsMade[t] + 1 >= MaxAttempts /\ t \notin provided
        BY <2>2, <3>1
      <4> QED
        BY <1>6, <1>11, <1>13, <4>1, <4>2
  <2> QED
    BY <2>3, <2>4
<1>14. CASE SettleWithoutLock(w) \/ WorkerCrash(w)
  <2>1. t \in faulted' /\ faulted \subseteq faulted'
    BY <1>1, <1>4, <1>14 DEF SettleWithoutLock, WorkerCrash, OwnsLock, Fault
  <2>2. UNCHANGED <<job, holder, attemptsMade, failedEvents>>
    BY <1>14 DEF SettleWithoutLock, WorkerCrash, queueVars
  <2> QED
    BY <1>0, <2>1, <2>2, RunIsOver
<1> QED
  BY <1>10, <1>12, <1>13, <1>14

LEMMA WorkerKeepsJobs ==
  ASSUME TypeOK, AdmissionInv, JobInv, NEW w \in Workers, WorkerStep(w) \/ WorkerCrash(w)
  PROVE  JobInv'
<1>1. run[w].at # "idle"
  BY DEF WorkerStep, WorkerCrash, MarkResolving, PlatformMismatch, RouteSucceeds, RouteRetryable,
         RouteFails, FailTask, DatabaseError, Complete, CompletionFails,
         PersistPostProviderFailure, SettleCompleted, SettleRetry, SettleUnrecoverable,
         SettleWithoutLock, At
<1>2. run[w].job \in Requests
  BY <1>1, OnTask
<1> QED
  BY <1>2, RunKeepsJobs, SettlingKeepsJobs DEF WorkerStep

LEMMA TakeKeepsJobs ==
  ASSUME TypeOK, JobInv, NEW w \in Workers, NEW t \in Requests, Take(w, t)
  PROVE  JobInv'
<1> DEFINE c == [job |-> t, at |-> "mark", resolved |-> FALSE]
<1>1. /\ run[w].at = "idle" /\ job[t] = "waiting"
      /\ job' = [job EXCEPT ![t] = "active"] /\ holder' = [holder EXCEPT ![t] = w]
      /\ run' = [run EXCEPT ![w] = c]
      /\ UNCHANGED <<status, error, result, ledger, expired, api, attemptsMade, failedEvents,
                     faulted, provided>>
  BY DEF Take, At, dbVars, clockVars, apiVars, faultVars
<1>2. c.job = t /\ c.at = "mark" /\ ~c.resolved
  OBVIOUS
<1> HIDE DEF c
<1>3. /\ job'[t] = "active" /\ holder'[t] = w
      /\ \A u \in Requests : u # t => job'[u] = job[u] /\ holder'[u] = holder[u]
  BY <1>1 DEF TypeOK, QueueTypeOK
<1>4. run'[w] = c /\ \A v \in Workers : v # w => run'[v] = run[v]
  BY <1>1 DEF TypeOK, RunTypeOK
<1>5. RunsStand'
  BY <1>1, <1>2, RunsStandKept DEF JobInv, TypeOK
<1>6. ASSUME NEW u \in Requests PROVE Placed(u)'
  BY <1>1, <1>3, PlacedKept DEF JobInv
<1>7. run[w].job = None
  BY <1>1 DEF JobInv, RunsStand
<1>8. ASSUME NEW u \in Requests, u # t PROVE SameTask(u)
  BY <1>1, <1>2, <1>3, <1>4, <1>7, <1>8, ConstantsAssumption DEF SameTask
<1>9. ASSUME t \notin faulted' PROVE Followed(t)'
  <2>1. Followed(t)
    BY <1>1, <1>9 DEF JobInv
  <2>2. /\ \A v \in Workers : run[v].job # t
        /\ t \notin provided \cup result \cup ledger \cup failedEvents
        /\ error[t] # "PROVIDER_UNAVAILABLE"
    BY <1>1, <2>1 DEF Followed, Held, Unstarted
  <2>3. \A v \in Workers : run'[v].job = t => v = w
    BY <1>4, <2>2
  <2>4. Held(t)'
    BY <1>2, <1>3, <1>4, <2>3 DEF Held
  <2>5. Underway(t)'
    BY <1>1, <1>2, <1>4, <2>2, <2>3 DEF Underway
  <2>6. Unstarted(t)' /\ Settled(t)'
    BY <1>3 DEF Unstarted, Settled
  <2>7. ResultsShown(t)'
    BY <1>1, <2>1 DEF Followed, ResultsShown
  <2> QED
    BY <2>4, <2>5, <2>6, <2>7 DEF Followed
<1> QED
  BY <1>1, <1>5, <1>6, <1>8, <1>9, JobsFollowed

(* The failed event, the stalled check. *)
LEMMA QueueKeepsJobs ==
  ASSUME TypeOK, AdmissionInv, JobInv, NEW t \in Requests, QueueStep(t)
  PROVE  JobInv'
<1>0. /\ UNCHANGED <<api, expired, run, provided>>
      /\ Effect
  BY QueueEffects DEF QueueStep, Stall, HandleExhausted, LoseFailedEvent, apiVars, clockVars
<1>1. RunsStand'
  BY <1>0 DEF JobInv, RunsStand
<1>2. QueueTypeOK /\ DatabaseTypeOK /\ MaxAttempts \in Nat
  BY ConstantsAssumption DEF TypeOK
<1>3. /\ UNCHANGED faultVars => faulted' = faulted
      /\ Fault({t}) => faulted' = faulted \cup {t}
  BY DEF faultVars, Fault
<1>4. ASSUME NEW u \in Requests, job[u] = "none" => job'[u] = "none", faulted \subseteq faulted'
      PROVE  Placed(u)'
  BY <1>0, <1>4, PlacedKept, EffectKeepsRows DEF JobInv
<1>5. CASE Stall(t)
  <2>1. /\ UNCHANGED <<status, error, result, ledger>>
        /\ job[t] = "active" /\ job'[t] # "none"
        /\ \A u \in Requests :
             u # t => /\ job'[u] = job[u] /\ holder'[u] = holder[u]
                      /\ attemptsMade'[u] = attemptsMade[u]
                      /\ u \in failedEvents' <=> u \in failedEvents
    BY <1>2, <1>5 DEF Stall, FailJob, dbVars, QueueTypeOK
  <2>2. t \in faulted' /\ faulted \subseteq faulted'
    BY <1>3, <1>5 DEF Stall, HolderGone, JobInv, Followed, Held
  <2>3. \A u \in Requests : u # t => SameTask(u)
    BY <1>0, <2>1 DEF SameTask
  <2>4. \A u \in Requests : Placed(u)'
    BY <1>4, <2>1, <2>2
  <2> QED
    BY <1>1, <2>2, <2>3, <2>4, JobsFollowed
<1>6. CASE LoseFailedEvent(t)
  <2>1. /\ UNCHANGED <<status, error, result, ledger, job, holder, attemptsMade>>
        /\ failedEvents' = failedEvents \ {t} /\ faulted' = faulted \cup {t}
    BY <1>3, <1>6 DEF LoseFailedEvent, dbVars
  <2>2. \A u \in Requests : Placed(u)' /\ (u # t => SameTask(u))
    BY <1>0, <1>4, <2>1 DEF SameTask
  <2> QED
    BY <1>1, <2>1, <2>2, JobsFollowed
<1>7. CASE HandleExhausted(t)
  <2>1. /\ t \in failedEvents /\ failedEvents' = failedEvents \ {t} /\ faulted' = faulted
        /\ UNCHANGED <<job, holder, attemptsMade>>
        /\ IF attemptsMade[t] >= MaxAttempts
           THEN failIfNonTerminal(t, "PROVIDER_UNAVAILABLE")
           ELSE UNCHANGED dbVars
    BY <1>3, <1>7 DEF HandleExhausted
  <2>2. \A u \in Requests : u # t => SameRow(u)
    BY <1>2, <2>1, OtherRows DEF ErrorCodes, SameRow, dbVars
  <2>3. \A u \in Requests : Placed(u)' /\ (u # t => SameTask(u))
    BY <1>0, <1>4, <2>1, <2>2 DEF SameTask, SameRow
  <2>4. ASSUME t \notin faulted' PROVE Followed(t)'
    <3>1. Followed(t) /\ Placed(t)
      BY <2>1, <2>4 DEF JobInv
    <3>2. job[t] \in {"completed", "failed"} /\ \A w \in Workers : run[w].job # t
      BY <1>2, <2>1, <3>1 DEF Followed, Unstarted, Underway, Held, QueueTypeOK, JobStates
    <3>3. /\ \/ Decided(t)
             \/ attemptsMade[t] >= MaxAttempts /\ t \notin provided
          /\ error[t] = "PROVIDER_UNAVAILABLE" => t \notin provided
          /\ ResultsShown(t)
      BY <3>1, <3>2, Zenon DEF Followed, Settled
    <3>4. Readable(t) \/ t \in expired
      BY <3>1, <3>2, HasRow
    <3>5. CASE UNCHANGED dbVars /\ Decided(t)
      <4>1. UNCHANGED <<status, error, result, ledger, expired, provided, job, run>>
        BY <1>0, <2>1, <3>5 DEF dbVars
      <4> QED
        BY <3>2, <3>3, <3>5, <4>1 DEF Followed, Held, Unstarted, Underway, Settled, Decided,
           ResultsShown
    <3>6. CASE Readable(t) /\ status[t] \in Live /\ failIfNonTerminal(t, "PROVIDER_UNAVAILABLE")
      <4>1. /\ status'[t] = "failed" /\ t \notin result'
            /\ t \notin ledger' /\ t \notin provided
        BY <1>2, <3>3, <3>6 DEF failIfNonTerminal, DatabaseTypeOK, ResultsShown, Decided,
           Readable, Live, Terminal
      <4> QED
        BY <1>0, <2>1, <3>2, <4>1 DEF Followed, Held, Unstarted, Underway, Settled, Decided,
           ResultsShown, Terminal
    <3>7. ~(Readable(t) /\ status[t] \in Live) => Decided(t)
      BY <1>2, <3>4 DEF Decided, Readable, DatabaseTypeOK, Statuses
    <3>8. ~(Readable(t) /\ status[t] \in Live) => UNCHANGED dbVars
      BY <2>1 DEF failIfNonTerminal
    <3>9. ~(attemptsMade[t] >= MaxAttempts) => UNCHANGED dbVars /\ Decided(t)
      BY <2>1, <3>3
    <3> QED
      BY <2>1, <3>5, <3>6, <3>7, <3>8, <3>9
  <2> QED
    BY <1>1, <2>1, <2>3, <2>4, JobsFollowed
<1> QED
  BY <1>5, <1>6, <1>7 DEF QueueStep

LEMMA ApiKeepsJobs ==
  ASSUME TypeOK, AdmissionInv, JobInv, NEW r \in Requests, ApiStep(r)
  PROVE  JobInv'
<1>0. /\ UNCHANGED <<expired, run, provided, holder, attemptsMade, failedEvents>>
      /\ faulted \subseteq faulted'
      /\ \A u \in Requests : u # r => api'[u] = api[u] /\ job'[u] = job[u]
  BY DEF ApiStep, AdmitReplayed, AdmitConflict, AdmitDuplicate, AdmitCreated, AdmitUnseen,
         InsertTask, AdmitFailed, Enqueue, AddJob, EnqueueFailed, FailUnqueuedTask, ApiCrash,
         Fault, TypeOK, ApiTypeOK, QueueTypeOK, clockVars, queueVars, faultVars
<1>1. RunsStand'
  BY <1>0 DEF JobInv, RunsStand
<1>2. \A u \in Requests : u # r => SameRow(u)
  <2>1. CASE FailUnqueuedTask(r)
    BY <2>1, OtherRows DEF FailUnqueuedTask, TypeOK, ErrorCodes
  <2>2. CASE ~FailUnqueuedTask(r)
    BY <2>2 DEF ApiStep, AdmitReplayed, AdmitConflict, AdmitDuplicate, AdmitCreated,
       AdmitUnseen, InsertTask, AdmitFailed, Enqueue, EnqueueFailed, ApiCrash, TypeOK,
       DatabaseTypeOK, SameRow, dbVars
  <2> QED
    BY <2>1, <2>2
<1>3. \A u \in Requests : u # r => SameTask(u) /\ Placed(u)'
  BY <1>0, <1>2 DEF SameTask, SameRow, Placed, JobInv
(* An untouched task whose handler has not added the job yet. *)
<1>4. ASSUME api[r] \in {"new", "enqueue"}, r \notin faulted
      PROVE  /\ job[r] = "none" /\ \A w \in Workers : run[w].job # r
             /\ r \notin provided \cup result \cup ledger \cup failedEvents
             /\ error[r] # "PROVIDER_UNAVAILABLE"
  BY <1>4 DEF JobInv, Placed, Followed, Held, Unstarted
<1>5. ASSUME api[r] \in {"new", "enqueue"}, job'[r] \in {"none", "waiting"},
             UNCHANGED <<error, result, ledger>>, r \notin faulted'
      PROVE  Followed(r)'
  BY <1>0, <1>4, <1>5 DEF Followed, Held, Unstarted, Underway, Settled, ResultsShown
<1>6. api'[r] \in ApiSteps /\ job[r] \in JobStates /\ job' \in [Requests -> JobStates]
  BY ApiTypes DEF ApiStep, TypeOK, ApiTypeOK, QueueTypeOK
<1>7. CASE AdmitReplayed(r) \/ AdmitConflict(r) \/ AdmitDuplicate(r) \/ AdmitFailed(r)
  <2>1. /\ api[r] = "new" /\ api'[r] \in {"accepted", "rejected"}
        /\ UNCHANGED <<status, error, result, ledger, job>>
    BY <1>7 DEF AdmitReplayed, AdmitConflict, AdmitDuplicate, AdmitFailed, TypeOK, ApiTypeOK,
       dbVars, queueVars
  <2>2. job[r] = "none"
    BY <2>1 DEF JobInv, Placed
  <2>3. Placed(r)'
    BY <2>1, <2>2 DEF Placed
  <2>4. r \notin faulted' => Followed(r)'
    BY <1>5, <2>1, <2>2
  <2> QED
    BY <1>0, <1>1, <1>3, <2>3, <2>4, JobsFollowed
<1>8. CASE AdmitCreated(r) \/ AdmitUnseen(r)
  <2>1. /\ api[r] = "new" /\ api'[r] \in {"enqueue", "rejected"}
        /\ UNCHANGED <<error, result, ledger, job>>
    BY <1>8 DEF AdmitCreated, AdmitUnseen, InsertTask, TypeOK, ApiTypeOK, queueVars
  <2>2. job[r] = "none"
    BY <2>1 DEF JobInv, Placed
  <2>3. Placed(r)'
    BY <2>1, <2>2 DEF Placed
  <2>4. r \notin faulted' => Followed(r)'
    BY <1>5, <2>1, <2>2
  <2> QED
    BY <1>0, <1>1, <1>3, <2>3, <2>4, JobsFollowed
<1>9. CASE Enqueue(r)
  <2>1. /\ api[r] = "enqueue" /\ api'[r] = "accepted" /\ job'[r] = "waiting"
        /\ status[r] # "none" /\ UNCHANGED <<status, error, result, ledger>>
    BY <1>9 DEF Enqueue, AddJob, TypeOK, ApiTypeOK, QueueTypeOK, AdmissionInv, HandlersStand,
       dbVars
  <2>2. Placed(r)'
    BY <2>1 DEF Placed
  <2>3. r \notin faulted' => Followed(r)'
    BY <1>5, <2>1
  <2> QED
    BY <1>0, <1>1, <1>3, <2>2, <2>3, JobsFollowed
<1>10. CASE EnqueueFailed(r) \/ ApiCrash(r) \/ FailUnqueuedTask(r)
  <2>1. /\ status[r] # "none" /\ api'[r] \in {"queueFailed", "crashed", "rejected"}
        /\ r \in faulted'
    BY <1>0, <1>10 DEF EnqueueFailed, ApiCrash, FailUnqueuedTask, Fault, TypeOK, ApiTypeOK,
       AdmissionInv, HandlersStand, JobInv, Placed
  <2>2. status'[r] # "none"
    <3>1. CASE FailUnqueuedTask(r)
      BY <2>1, <3>1, StatementEffects, EffectKeepsRows DEF FailUnqueuedTask
    <3>2. CASE ~FailUnqueuedTask(r)
      BY <1>10, <2>1, <3>2 DEF EnqueueFailed, ApiCrash, dbVars
    <3> QED
      BY <3>1, <3>2
  <2>3. Placed(r)'
    BY <2>1, <2>2 DEF Placed
  <2> QED
    BY <1>0, <1>1, <1>3, <2>1, <2>3, JobsFollowed
<1> QED
  BY <1>7, <1>8, <1>9, <1>10 DEF ApiStep

LEMMA CleanupKeepsJobs ==
  ASSUME TypeOK, AdmissionInv, JobInv, CleanupStep
  PROVE  JobInv'
<1>0. /\ UNCHANGED <<run, provided, job, holder, attemptsMade, failedEvents, api, faulted>>
      /\ expired \subseteq expired'
  BY DEF CleanupStep, LapseSource, ExpireTask, CleanExpiredTask, HardDeleteTask,
         CleanIdempotencyRecord, CleanActiveSource, clockVars, apiVars, queueVars, faultVars
<1>1. RunsStand'
  BY <1>0 DEF JobInv, RunsStand
<1>2. ASSUME NEW u \in Requests, status[u] # "none" => status'[u] # "none" PROVE Placed(u)'
  BY <1>0, <1>2, PlacedKept DEF JobInv
<1>3. CASE UNCHANGED <<status, error, result, ledger>>
  BY <1>0, <1>1, <1>2, <1>3, NothingFollowed DEF SameTask
<1>4. ASSUME NEW t \in Requests, CleanExpiredTask(t) \/ HardDeleteTask(t) PROVE JobInv'
  <2>1. /\ t \in expired /\ t \in expired' /\ status'[t] \in {"expired", "deleted"}
        /\ error'[t] = "PROVIDER_UNAVAILABLE" => error[t] = "PROVIDER_UNAVAILABLE"
        /\ result' \subseteq result /\ ledger' \subseteq ledger
        /\ status'[t] = "deleted" => t \notin result' /\ t \notin ledger'
        /\ \A u \in Requests : u # t => SameRow(u)
    BY <1>0, <1>4 DEF CleanExpiredTask, HardDeleteTask, TypeOK, DatabaseTypeOK, SameRow
  <2>2. \A u \in Requests : Placed(u)' /\ (u # t => SameTask(u))
    BY <1>0, <1>2, <2>1 DEF SameTask, SameRow
  <2>3. ASSUME t \notin faulted' PROVE Followed(t)'
    <3>1. Followed(t)
      BY <1>0, <2>3 DEF JobInv
    <3>2. Held(t)' /\ Unstarted(t)' /\ Settled(t)' /\ ResultsShown(t)'
      BY <1>0, <2>1, <3>1 DEF Followed, Held, Unstarted, Settled, Decided, ResultsShown, Terminal
    <3>3. Underway(t)'
      BY <1>0, <2>1, <3>1 DEF Followed, Underway, Decided
    <3> QED
      BY <3>2, <3>3 DEF Followed
  <2> QED
    BY <1>0, <1>1, <2>2, <2>3, JobsFollowed
<1> QED
  BY <1>3, <1>4 DEF CleanupStep, LapseSource, ExpireTask, CleanIdempotencyRecord,
     CleanActiveSource, dbVars

LEMMA InitJobs == Init => JobInv
<1> SUFFICES ASSUME Init PROVE JobInv
  OBVIOUS
<1>1. \A w \in Workers : run[w] = Idle
  BY DEF Init
<1>0. Idle.job = None /\ ~Idle.resolved
  BY DEF Idle
<1>2. RunsStand /\ \A w \in Workers : run[w].job = None
  BY <1>0, <1>1 DEF RunsStand
<1>3. ASSUME NEW t \in Requests PROVE Placed(t) /\ Followed(t)
  BY <1>2, ConstantsAssumption DEF Init, Placed, Followed, Held, Unstarted, Underway, Settled,
     ResultsShown
<1> QED
  BY <1>2, <1>3 DEF JobInv

LEMMA NextJobs == TypeOK /\ AdmissionInv /\ JobInv /\ [Next]_vars => JobInv'
<1> SUFFICES ASSUME TypeOK, AdmissionInv, JobInv, [Next]_vars PROVE JobInv'
  OBVIOUS
<1>1. ASSUME NEW r \in Requests, ApiStep(r) PROVE JobInv'
  BY <1>1, ApiKeepsJobs
<1>2. ASSUME NEW w \in Workers, WorkerStep(w) \/ WorkerCrash(w) PROVE JobInv'
  BY <1>2, WorkerKeepsJobs
<1>3. ASSUME NEW w \in Workers, NEW t \in Requests, Take(w, t) PROVE JobInv'
  BY <1>3, TakeKeepsJobs
<1>4. ASSUME NEW t \in Requests, QueueStep(t) PROVE JobInv'
  BY <1>4, QueueKeepsJobs
<1>5. CASE CleanupStep
  BY <1>5, CleanupKeepsJobs
<1>6. CASE UNCHANGED vars
  <2>1. UNCHANGED <<status, error, result, ledger, expired, api, job, holder, attemptsMade,
                    failedEvents, run, provided, faulted>>
    BY <1>6 DEF vars, dbVars, clockVars, apiVars, queueVars, faultVars
  <2> QED
    BY <2>1, NothingFollowed DEF JobInv, RunsStand, Placed, SameTask
<1> QED
  BY <1>1, <1>2, <1>3, <1>4, <1>5, <1>6 DEF Next

(* Queue, run and row of a task tell one story until a fault touches it.   *)
(* JobInv is inductive relative to the types and the admission invariant.  *)
THEOREM JobInvariant == Spec => []JobInv
<1>1. Init => TypeOK /\ AdmissionInv /\ JobInv
  BY InitTypes, InitAdmission, InitJobs
<1>2. (TypeOK /\ AdmissionInv /\ JobInv) /\ [Next]_vars => (TypeOK /\ AdmissionInv /\ JobInv)'
  BY NextTypes, NextAdmission, NextJobs
<1> QED
  BY <1>1, <1>2, PTL DEF Spec

(* ADR-0015: a task no fault has touched is terminal once its job has      *)
(* ended and the failed event is handled, is reported exhausted only       *)
(* without a provider success, and shows a result only when decided.       *)
THEOREM JobsTellTheTruth == Spec => []JobsMatchTasks
<1>1. TypeOK /\ AdmissionInv /\ JobInv => JobsMatchTasks
  <2> SUFFICES ASSUME TypeOK, JobInv, NEW t \in Requests, t \notin faulted
               PROVE  /\ (job[t] \in {"completed", "failed"} /\ t \notin failedEvents
                            /\ t \notin expired) => status[t] \in Terminal
                      /\ error[t] = "PROVIDER_UNAVAILABLE" => t \notin provided
                      /\ t \in result => status[t] \in {"succeeded", "expired"}
                      /\ t \in ledger => status[t] \in Terminal
    BY DEF JobsMatchTasks, SettledMeansDecided, ExhaustionMeansNoSuccess, ResultMeansSuccess
  <2>1. Followed(t) /\ job[t] \in JobStates
    BY DEF JobInv, TypeOK, QueueTypeOK
  <2>2. CASE job[t] \in {"none", "waiting"}
    BY <2>1, <2>2 DEF Followed, Unstarted, ResultsShown
  <2>3. CASE job[t] = "active"
    BY <2>1, <2>3 DEF Followed, Held, Underway, ResultsShown
  <2>4. CASE job[t] \in {"completed", "failed"}
    BY <2>1, <2>4 DEF Followed, Settled, ResultsShown, Decided
  <2> QED
    BY <2>1, <2>2, <2>3, <2>4 DEF JobStates
<1> QED
  BY <1>1, TypeCorrect, AdmissionInvariant, JobInvariant, PTL

(* Which steps move a run, and which of them free its worker. *)
LEMMA StandStill ==
  ASSUME (\E r \in Requests : ApiStep(r) \/ QueueStep(r)) \/ CleanupStep
  PROVE  run' = run
BY DEF ApiStep, AdmitReplayed, AdmitConflict, AdmitDuplicate, AdmitCreated, AdmitUnseen,
       InsertTask, AdmitFailed, Enqueue, EnqueueFailed, FailUnqueuedTask, ApiCrash, QueueStep,
       Stall, HandleExhausted, LoseFailedEvent, CleanupStep, LapseSource, ExpireTask,
       CleanExpiredTask, HardDeleteTask, CleanIdempotencyRecord, CleanActiveSource

LEMMA OtherRuns ==
  ASSUME RunTypeOK, NEW v \in Workers, WorkerStep(v) \/ WorkerCrash(v),
         NEW w \in Workers, w # v
  PROVE  run'[w] = run[w]
BY DEF RunTypeOK, WorkerStep, WorkerCrash, MarkResolving, PlatformMismatch, RouteSucceeds,
       RouteRetryable, RouteFails, FailTask, DatabaseError, Complete, CompletionFails,
       PersistPostProviderFailure, SettleCompleted, SettleRetry, SettleUnrecoverable,
       SettleWithoutLock, GoTo

LEMMA Freed ==
  ASSUME RunTypeOK, NEW w \in Workers, WorkerStep(w) \/ WorkerCrash(w), run'[w] = Idle
  PROVE  \/ SettleCompleted(w) \/ SettleRetry(w) \/ SettleUnrecoverable(w)
         \/ SettleWithoutLock(w) \/ WorkerCrash(w)
<1>1. ASSUME NEW step \in RunSteps \ {"idle"}, GoTo(w, step) PROVE FALSE
  BY <1>1 DEF GoTo, RunTypeOK, Idle
<1>2. ASSUME RouteSucceeds(w) PROVE FALSE
  BY <1>2 DEF RouteSucceeds, RunTypeOK, Idle
<1> QED
  BY <1>1, <1>2 DEF WorkerStep, MarkResolving, PlatformMismatch, RouteRetryable, RouteFails,
     FailTask, DatabaseError, Complete, CompletionFails, PersistPostProviderFailure, RunSteps

(* ADR-0015, invariant 2: a worker that had a provider success and still   *)
(* owns its lock never puts the job back in the queue.                     *)
THEOREM SuccessIsNeverRetried == Spec => PostProviderNeverRetried
<1>1. TypeOK /\ JobInv /\ [Next]_vars
        => [\A w \in Workers :
              (run[w].resolved /\ OwnsLock(w) /\ run'[w] = Idle)
                => job'[run[w].job] # "waiting"]_vars
  <2> SUFFICES ASSUME TypeOK, JobInv, Next, NEW w \in Workers,
                      run[w].resolved, OwnsLock(w), run'[w] = Idle
               PROVE  job'[run[w].job] # "waiting"
    BY DEF PostProviderNeverRetried
  <2>1. /\ run[w].at \in {"complete", "post", "completed", "unrecoverable"}
        /\ job[run[w].job] = "active" /\ run[w].job \in Requests
    BY DEF JobInv, RunsStand, OwnsLock, TypeOK, RunTypeOK
  <2>2. run'[w] # run[w]
    BY <2>1 DEF Idle
  <2>3. ~(\E r \in Requests : ApiStep(r) \/ QueueStep(r)) /\ ~CleanupStep
    BY <2>2, StandStill
  <2>4. ~(\E v \in Workers, t \in Requests : Take(v, t))
    BY <2>1, <2>2 DEF Take, At, TypeOK, RunTypeOK
  <2>5. PICK v \in Workers : WorkerStep(v) \/ WorkerCrash(v)
    BY <2>3, <2>4 DEF Next
  <2>6. v = w
    BY <2>2, <2>5, OtherRuns DEF TypeOK
  <2>7. SettleCompleted(w) \/ SettleUnrecoverable(w) \/ WorkerCrash(w)
    BY <2>1, <2>5, <2>6, Freed DEF SettleRetry, SettleWithoutLock, At, TypeOK
  <2> QED
    BY <2>1, <2>7 DEF SettleCompleted, SettleUnrecoverable, WorkerCrash, FailJob, queueVars,
       TypeOK, QueueTypeOK
<1> QED
  BY <1>1, TypeCorrect, JobInvariant, PTL DEF Spec, PostProviderNeverRetried
=============================================================================
