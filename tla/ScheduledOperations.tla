-------------------------- MODULE ScheduledOperations --------------------------
(***************************************************************************)
(* One of the scheduled services (cleanup, canary, evidence) of one        *)
(* deployment: its systemd timer and an operator start runs of it, each    *)
(* under the shared deployment lock; a run writes the service's status     *)
(* row, takes the service's Redis lease, works through its stages or its   *)
(* canaries, gives the lease back and writes the row again.  Runs crash,   *)
(* leases lapse, and Redis and the database fail.                          *)
(***************************************************************************)
EXTENDS Integers, FiniteSets

CONSTANTS Runs,         \* processes of a service
          Overlap,      \* how many of them a behaviour starts, by service
          StageOf,      \* the cleanup's rows: row |-> its stage, 1..LastStage
          LastStage,    \* how many stages, or canaries, a pass has
          Lockable,     \* rows another transaction may hold locked
          BatchSize,    \* rows a stage removes at a time
          MaxBatches,   \* stages a run visits
          FailureCap,   \* where the count of failures in a row stops
          FaultBound    \* how many faults a behaviour has

ASSUME SchedAssumption ==
    /\ LastStage \in Nat \ {0} /\ MaxBatches \in Nat /\ FailureCap \in Nat /\ FaultBound \in Nat
    /\ BatchSize \in Nat \ {0}
    /\ IsFiniteSet(DOMAIN StageOf) /\ StageOf \in [DOMAIN StageOf -> 1..LastStage]
    /\ "none" \notin Runs   \* stands for no run at all

VARIABLES service,   \* which service this is
          switching, \* a release holds the deployment lock
          row,       \* the service's row of operational_service_status
          holder,    \* the run whose token the lease holds
          op,        \* each run
          rows,      \* the rows the cleanup is about: kept, expired or gone
          measured,  \* measurements recorded, <<run, canary>>
          faults     \* faults so far

schedVars == <<service, switching, row, holder, op, rows, measured, faults>>

None == "none"
Services == {"cleanup", "canary", "evidence"}
NoRow == [state |-> "absent"]
Rows == DOMAIN StageOf
Eligible == {w \in Rows : rows[w] = "expired"}

(* A run: the step it is at, the stage it is about to visit, the stages it  *)
(* has visited, whether its pass has removed anything, what it found, its   *)
(* errors, whether it ever held the lease and whether that lapsed, the rows *)
(* that were eligible when it took the lease and it has not skipped.        *)
Process == [step : {"idle", "waiting", "launched", "marked", "working", "releasing", "recording",
                    "retelling", "done"},
            at : 1..LastStage + 1, batches : 0..MaxBatches, changed : BOOLEAN,
            stopped : {"complete", "partial", "time-budget", "batch-budget", "error"},
            errors : 0..2, held : BOOLEAN, lapsed : BOOLEAN, owed : SUBSET Rows]

At(step) ==
    [step |-> step, at |-> 1, batches |-> 0, changed |-> FALSE, stopped |-> "complete",
     errors |-> 0, held |-> FALSE, lapsed |-> FALSE, owed |-> {}]

Status == [state : {"running", "completed", "degraded", "failed", "lease_unavailable"},
           lease : {"acquired", "unavailable", "released", "unknown"},
           finished : BOOLEAN, failures : 0..FailureCap]

TypeOK ==
    /\ service \in Services
    /\ switching \in BOOLEAN
    /\ row \in Status \union {NoRow}
    /\ holder \in Runs \union {None}
    /\ op \in [Runs -> Process]
    /\ rows \in [Rows -> {"kept", "expired", "gone"}]
    /\ measured \subseteq Runs \X (1..LastStage)
    /\ faults \in 0..FaultBound

Becomes(r, o) == op' = [op EXCEPT ![r] = o]

Fault == faults < FaultBound /\ faults' = faults + 1
NoFault == UNCHANGED faults

-----------------------------------------------------------------------------
(* The timers, the script and the deployment lock *)

(* A timer starts its service when no earlier run of it is active, and an   *)
(* operator at any time: both are runs that may overlap.                    *)
Start(r) ==
    /\ op[r].step = "idle"
    /\ Cardinality({q \in Runs : op[q].step # "idle"}) < Overlap[service]
    /\ Becomes(r, [op[r] EXCEPT !.step = "waiting"])
    /\ UNCHANGED <<service, switching, row, holder, rows, measured, faults>>

(* `flock -s 9`, which the process that replaces the script keeps *)
TakeSharedLock(r) ==
    /\ op[r].step = "waiting" /\ ~switching
    /\ Becomes(r, [op[r] EXCEPT !.step = "launched"])
    /\ UNCHANGED <<service, switching, row, holder, rows, measured, faults>>

Locked(r) == op[r].step \notin {"idle", "waiting", "done"}

(* a release takes the lock exclusively, and lets go of it *)
Switch ==
    /\ switching \/ \A r \in Runs : ~Locked(r)
    /\ switching' = ~switching
    /\ UNCHANGED <<service, row, holder, op, rows, measured, faults>>

-----------------------------------------------------------------------------
(* The status row *)

NextFailures(previous, state) ==
    IF state = "completed" THEN 0
    ELSE IF previous < FailureCap THEN previous + 1 ELSE FailureCap

Failures == IF row = NoRow THEN 0 ELSE row.failures

Started == [state |-> "running", lease |-> "acquired", finished |-> FALSE, failures |-> Failures]

MarkStarted(r) ==
    /\ op[r].step = "launched"
    /\ \/ /\ row' = Started
          /\ Becomes(r, [op[r] EXCEPT !.step = "marked"])
          /\ NoFault
       \/ Becomes(r, At("done")) /\ UNCHANGED row /\ Fault
    /\ UNCHANGED <<service, switching, holder, rows, measured>>

State(o) ==
    CASE ~o.held -> "lease_unavailable"
      [] o.held /\ o.errors > 0 -> "failed"
      [] o.held /\ o.errors = 0 -> IF o.stopped = "partial" THEN "degraded" ELSE "completed"

Recorded(state, leaseState) ==
    [state |-> state, lease |-> leaseState, finished |-> TRUE,
     failures |-> NextFailures(Failures, state)]

(* A run tells what it did; when that fails it tells, once, that it failed. *)
RecordFinished(r) ==
    LET o == op[r]
    IN /\ o.step = "recording"
       /\ \/ /\ row' = Recorded(State(o), IF o.held THEN "released" ELSE "unavailable")
             /\ Becomes(r, At("done"))
             /\ NoFault
          \/ Becomes(r, At("retelling")) /\ UNCHANGED row /\ Fault
       /\ UNCHANGED <<service, switching, holder, rows, measured>>

RecordFailure(r) ==
    /\ op[r].step = "retelling"
    /\ Becomes(r, At("done"))
    /\ \/ row' = Recorded("failed", "unknown") /\ NoFault
       \/ UNCHANGED row /\ Fault
    /\ UNCHANGED <<service, switching, holder, rows, measured>>

-----------------------------------------------------------------------------
(* The lease *)

(* Redis cannot be reached at all: the failure is told as a failed start *)
ConnectFails(r) ==
    /\ op[r].step = "marked"
    /\ Becomes(r, At("retelling"))
    /\ Fault
    /\ UNCHANGED <<service, switching, row, holder, rows, measured>>

(* An error while taking the lease: the evidence cycle throws it, the other *)
(* two go on to tell that the lease was held by another.                    *)
AcquireFailed(o) ==
    IF service = "evidence" THEN At("retelling")
    ELSE [o EXCEPT !.step = "recording", !.errors = 1, !.stopped = "error"]

(* SET key token PX ttl NX: taken, held by another, or an error *)
Acquire(r) ==
    /\ op[r].step = "marked"
    /\ \/ /\ holder = None
          /\ holder' = r
          /\ Becomes(r, [op[r] EXCEPT !.step = "working", !.held = TRUE, !.owed = Eligible])
          /\ NoFault
       \/ /\ holder # None
          /\ Becomes(r, [op[r] EXCEPT !.step = "recording"])
          /\ UNCHANGED holder /\ NoFault
       \/ /\ Becomes(r, AcquireFailed(op[r]))
          /\ UNCHANGED holder /\ Fault
    /\ UNCHANGED <<service, switching, row, rows, measured>>

(* the compare-and-delete of the release script *)
LetGo(r) == IF holder = r THEN None ELSE holder

(* what a run still knows when it tells of itself *)
Told(o, errors) ==
    [At("recording") EXCEPT !.held = TRUE, !.errors = errors,
                            !.stopped = IF o.stopped = "partial" THEN "partial" ELSE "complete"]

(* an error while giving it back, which the evidence cycle passes over *)
ReleaseFailed(o) == IF service = "evidence" THEN o.errors ELSE o.errors + 1

Release(r) ==
    /\ op[r].step = "releasing"
    /\ \/ holder' = LetGo(r) /\ Becomes(r, Told(op[r], op[r].errors)) /\ NoFault
       \/ /\ Becomes(r, Told(op[r], ReleaseFailed(op[r])))
          /\ UNCHANGED holder /\ Fault
    /\ UNCHANGED <<service, switching, row, rows, measured>>

(* The key's TTL, longer than a run's time budget, passes all the same when *)
(* its holder is slow in one statement, or has died.                        *)
LeaseLapses ==
    /\ holder # None
    /\ holder' = None
    /\ Becomes(holder, [op[holder] EXCEPT !.lapsed = @ \/ op[holder].step = "working"])
    /\ UNCHANGED <<service, switching, row, rows, measured, faults>>

-----------------------------------------------------------------------------
(* The work *)

Stop(r, why) == Becomes(r, [op[r] EXCEPT !.step = "releasing", !.stopped = why])
Break(r) == Becomes(r, [op[r] EXCEPT !.step = "releasing", !.stopped = "error", !.errors = 1])

(* What one batch of a stage may remove: of the expired rows that no other  *)
(* transaction holds, as many as a batch has (in the code the oldest).      *)
Batches(stage, locked) ==
    LET open == {w \in Eligible : StageOf[w] = stage} \ locked
        size == IF Cardinality(open) < BatchSize THEN Cardinality(open) ELSE BatchSize
    IN {b \in SUBSET open : Cardinality(b) = size}

(* whether a pass has removed anything so far, and whether its last stage has *)
ChangedLast(o, b) == b # {}
Changed(o, b) == o.changed \/ b # {}

(* A pass that removed nothing ends the run; another begins a new pass. *)
EndPass(o) ==
    IF ~o.changed THEN [o EXCEPT !.step = "releasing"]
    ELSE IF o.batches >= MaxBatches
    THEN [o EXCEPT !.step = "releasing", !.stopped = "batch-budget"]
    ELSE [o EXCEPT !.at = 1, !.changed = FALSE]

ProcessStage(r) ==
    LET o == op[r]
    IN /\ service = "cleanup" /\ o.step = "working" /\ o.at <= LastStage
       /\ \/ /\ o.batches < MaxBatches
             /\ \E locked \in SUBSET Lockable : \E b \in Batches(o.at, locked) :
                   /\ rows' = [w \in Rows |-> IF w \in b THEN "gone" ELSE rows[w]]
                   /\ Becomes(r, [o EXCEPT !.at = @ + 1, !.batches = @ + 1,
                                           !.changed = Changed(o, b),
                                           !.owed = @ \ {w \in locked : StageOf[w] = o.at}])
             /\ NoFault
          \/ o.batches >= MaxBatches /\ Stop(r, "batch-budget") /\ UNCHANGED rows /\ NoFault
          \/ Stop(r, "time-budget") /\ UNCHANGED rows /\ NoFault
          \/ /\ o.batches < MaxBatches
             /\ Break(r)
             /\ UNCHANGED rows /\ Fault
       /\ UNCHANGED <<service, switching, row, holder, measured>>

NextPass(r) ==
    /\ service = "cleanup" /\ op[r].step = "working" /\ op[r].at > LastStage
    /\ Becomes(r, EndPass(op[r]))
    /\ UNCHANGED <<service, switching, row, holder, rows, measured, faults>>

(* one row for each run and canary *)
Measurement(r, canary) == {<<r, canary>>}

(* A canary is measured whether it succeeds or fails; the deadline of the   *)
(* run ends it early without an error, and a measurement that cannot be     *)
(* recorded ends it with one.                                               *)
MeasureCanary(r) ==
    LET o == op[r]
    IN /\ service = "canary" /\ o.step = "working"
       /\ \/ /\ o.at <= LastStage
             /\ measured' = measured \union Measurement(r, o.at)
             /\ Becomes(r, [o EXCEPT !.at = @ + 1])
             /\ NoFault
          \/ /\ o.at <= LastStage
             /\ Break(r)
             /\ UNCHANGED measured /\ Fault
          \/ o.at <= LastStage /\ Stop(r, "time-budget") /\ UNCHANGED measured /\ NoFault
          \/ o.at > LastStage /\ Stop(r, "complete") /\ UNCHANGED measured /\ NoFault
       /\ UNCHANGED <<service, switching, row, holder, rows>>

(* The evidence cycle (PilotGuard has its steps) completes, for all tuples  *)
(* or for some, or fails.                                                   *)
Evaluate(r) ==
    /\ service = "evidence" /\ op[r].step = "working"
    /\ \/ \E why \in {"complete", "partial"} : Stop(r, why) /\ NoFault
       \/ /\ Break(r)
          /\ Fault
    /\ UNCHANGED <<service, switching, row, holder, rows, measured>>

(* A run dies: a signal, or the unit's own time limit.  Its lease stays. *)
Crash(r) ==
    /\ Locked(r)
    /\ Becomes(r, At("done"))
    /\ Fault
    /\ UNCHANGED <<service, switching, row, holder, rows, measured>>

(* A row passes its expiry *)
Expire(w) ==
    /\ service = "cleanup" /\ rows[w] = "kept"
    /\ rows' = [rows EXCEPT ![w] = "expired"]
    /\ UNCHANGED <<service, switching, row, holder, op, measured, faults>>

-----------------------------------------------------------------------------
Init ==
    /\ service \in Services
    /\ switching = FALSE
    /\ row = NoRow
    /\ holder = None
    /\ op = [r \in Runs |-> At("idle")]
    /\ rows = [w \in Rows |-> "kept"]
    /\ measured = {}
    /\ faults = 0

SchedNext ==
    \/ \E r \in Runs :
         \/ Start(r) \/ TakeSharedLock(r) \/ MarkStarted(r) \/ RecordFinished(r)
         \/ RecordFailure(r) \/ ConnectFails(r) \/ Acquire(r) \/ Release(r)
         \/ ProcessStage(r) \/ NextPass(r) \/ MeasureCanary(r) \/ Evaluate(r) \/ Crash(r)
    \/ Switch \/ LeaseLapses
    \/ \E w \in Rows : Expire(w)

SchedSpec == Init /\ [][SchedNext]_schedVars

-----------------------------------------------------------------------------
(* Of the runs at work, at most one has not had its lease lapse under it: a *)
(* slow run that ends late does not free the lease of the run that followed *)
(* it (RedisCleanupLease, RedisCanaryLease).                                *)
OneHolderAtWork ==
    Cardinality({r \in Runs : op[r].step = "working" /\ ~op[r].lapsed}) <= 1

(* A cleanup that stops because it is complete has removed every row that   *)
(* was past its expiry when it took the lease and that no transaction held  *)
(* when it came by: it does not stop because one stage had nothing to do.   *)
CompleteMeansSwept ==
    \A r \in Runs :
        (/\ service = "cleanup" /\ op[r].held /\ op[r].stopped = "complete"
         /\ op[r].step = "releasing")
        => op[r].owed \cap Eligible = {}

(* A run works alone while its lease lasts, and a cleanup that says it is   *)
(* complete is: what the status row tells of a run can be relied on.        *)
RunsKeepTheirWord == OneHolderAtWork /\ CompleteMeansSwept
=============================================================================
