--------------------------- MODULE Operations_proofs ---------------------------
(***************************************************************************)
(* The scheduled services, the guards and the calibration of the pilot,    *)
(* the local stack, the internal runtime and the production release, each  *)
(* for every value of its constants (MCOperations composes them for TLC).  *)
(*                                                                         *)
(* A scheduled run keeps its word: one run at most works while its lease   *)
(* lasts, and a cleanup that ends because it is complete has swept the     *)
(* rows it owed.                                                           *)
(***************************************************************************)
EXTENDS ScheduledOperations, PilotGuard, PilotCalibration, LocalStack, InternalRuntime,
  ProductionRelease, SequenceTheorems, FiniteSetTheorems, TLAPS

(* A run that has not begun its work has no errors and is at its first      *)
(* stage; one that gives its lease back has at most one error.              *)
Begun(o) ==
    /\ o.step \in {"idle", "waiting", "launched", "marked"} => o.errors = 0 /\ o.at = 1
    /\ o.step = "working" => o.errors = 0
    /\ o.step = "releasing" => o.errors <= 1

TypeInv == TypeOK /\ \A r \in Runs : Begun(op[r])

(* A run at work whose lease has not lapsed is the one the lease names. *)
HolderInv == \A r \in Runs : op[r].step = "working" /\ ~op[r].lapsed => holder = r

(* What a cleanup owes: rows that had expired; while a pass has removed      *)
(* nothing, those still there belong to stages it has not visited yet.      *)
Owes(o) ==
    /\ \A w \in o.owed : rows[w] # "kept"
    /\ o.step = "working" /\ ~o.changed
       => \A w \in o.owed : rows[w] = "expired" => StageOf[w] >= o.at
    /\ o.step = "releasing" /\ o.stopped = "complete"
       => \A w \in o.owed : rows[w] # "expired"

SweptInv == service = "cleanup" => \A r \in Runs : Owes(op[r])

-----------------------------------------------------------------------------
LEMMA BoundNumbers ==
    1 \in 1..LastStage + 1 /\ 0 \in 0..MaxBatches /\ 1 \in 0..2 /\ None \notin Runs
  BY SchedAssumption DEF None

(* What becoming another record means for the processes. *)
LEMMA Becoming ==
    ASSUME op \in [Runs -> Process], NEW r \in Runs, NEW o \in Process, Becomes(r, o)
    PROVE  op' \in [Runs -> Process] /\ op'[r] = o /\ \A q \in Runs : q # r => op'[q] = op[q]
  BY DEF Becomes

(* The records of the model have the fields of a process. *)
LEMMA AtType ==
    ASSUME NEW step \in {"idle", "waiting", "launched", "marked", "recording", "retelling", "done"}
    PROVE  At(step) \in Process /\ At(step).step = step /\ Begun(At(step))
  BY BoundNumbers DEF At, Process, Begun

LEMMA ToldType ==
    ASSUME NEW o, NEW n \in 0..2
    PROVE  Told(o, n) \in Process /\ Told(o, n).step = "recording" /\ Begun(Told(o, n))
<1>1. Told(o, n) \in Process /\ Told(o, n).step = "recording"
  BY BoundNumbers DEF Told, At, Process
<1> QED
  BY <1>1 DEF Begun

LEMMA StepType ==
    ASSUME NEW o \in Process, Begun(o),
           NEW step \in {"waiting", "launched", "marked", "recording"},
           step # "recording" => o.step \in {"idle", "waiting", "launched"}
    PROVE  [o EXCEPT !.step = step] \in Process /\ Begun([o EXCEPT !.step = step])
  BY DEF Process, Begun

LEMMA ErrorType ==
    ASSUME NEW o \in Process, NEW step \in {"recording", "releasing"}, NEW errors \in 0..2
    PROVE  /\ [o EXCEPT !.step = step, !.errors = errors, !.stopped = "error"] \in Process
           /\ [o EXCEPT !.step = step, !.stopped = "error", !.errors = errors] \in Process
<1>1. [o EXCEPT !.step = step, !.errors = errors, !.stopped = "error"] \in Process
  BY DEF Process
<1>2. [o EXCEPT !.step = step, !.stopped = "error", !.errors = errors] \in Process
  BY DEF Process
<1> QED
  BY <1>1, <1>2

LEMMA AcquireType ==
    ASSUME NEW o \in Process, Begun(o), o.step = "marked", NEW owed \in SUBSET Rows
    PROVE  /\ [o EXCEPT !.step = "working", !.held = TRUE, !.owed = owed] \in Process
           /\ Begun([o EXCEPT !.step = "working", !.held = TRUE, !.owed = owed])
           /\ AcquireFailed(o) \in Process /\ Begun(AcquireFailed(o))
<1>1. [o EXCEPT !.step = "working", !.held = TRUE, !.owed = owed] \in Process
  BY DEF Process
<1>2. Begun([o EXCEPT !.step = "working", !.held = TRUE, !.owed = owed])
  BY DEF Begun, Process
<1>3. [o EXCEPT !.step = "recording", !.errors = 1, !.stopped = "error"] \in Process
  BY ErrorType, BoundNumbers
<1>4. Begun([o EXCEPT !.step = "recording", !.errors = 1, !.stopped = "error"])
  BY DEF Begun, Process
<1> QED
  BY <1>1, <1>2, <1>3, <1>4, AtType DEF AcquireFailed

LEMMA StopType ==
    ASSUME NEW o \in Process, Begun(o), o.step = "working",
           NEW why \in {"complete", "partial", "time-budget", "batch-budget"}
    PROVE  /\ [o EXCEPT !.step = "releasing", !.stopped = why] \in Process
           /\ Begun([o EXCEPT !.step = "releasing", !.stopped = why])
           /\ [o EXCEPT !.step = "releasing", !.stopped = "error", !.errors = 1] \in Process
           /\ Begun([o EXCEPT !.step = "releasing", !.stopped = "error", !.errors = 1])
           /\ [o EXCEPT !.step = "releasing"] \in Process
           /\ Begun([o EXCEPT !.step = "releasing"])
<1>1. [o EXCEPT !.step = "releasing"] \in Process
  BY DEF Process
<1>2. [o EXCEPT !.step = "releasing", !.stopped = why] \in Process
  BY DEF Process
<1>3. [o EXCEPT !.step = "releasing", !.stopped = "error", !.errors = 1] \in Process
  BY ErrorType, BoundNumbers
<1>4. Begun([o EXCEPT !.step = "releasing"])
  BY <1>1 DEF Begun, Process
<1>5. Begun([o EXCEPT !.step = "releasing", !.stopped = why])
  BY <1>2 DEF Begun, Process
<1>6. Begun([o EXCEPT !.step = "releasing", !.stopped = "error", !.errors = 1])
  BY <1>3 DEF Begun, Process
<1> QED
  BY <1>1, <1>2, <1>3, <1>4, <1>5, <1>6

LEMMA WorkType ==
    ASSUME NEW o \in Process, Begun(o), o.step = "working", NEW at \in 1..LastStage + 1
    PROVE  /\ [o EXCEPT !.at = at] \in Process /\ Begun([o EXCEPT !.at = at])
           /\ \A changed \in BOOLEAN :
                /\ [o EXCEPT !.at = at, !.changed = changed] \in Process
                /\ Begun([o EXCEPT !.at = at, !.changed = changed])
                /\ \A batches \in 0..MaxBatches, owed \in SUBSET Rows :
                     /\ [o EXCEPT !.at = at, !.batches = batches, !.changed = changed, !.owed = owed]
                          \in Process
                     /\ Begun([o EXCEPT !.at = at, !.batches = batches, !.changed = changed,
                                        !.owed = owed])
<1>1. [o EXCEPT !.at = at] \in Process /\ Begun([o EXCEPT !.at = at])
  BY DEF Process, Begun
<1>2. ASSUME NEW changed \in BOOLEAN
      PROVE  /\ [o EXCEPT !.at = at, !.changed = changed] \in Process
             /\ Begun([o EXCEPT !.at = at, !.changed = changed])
  <2>1. [o EXCEPT !.at = at, !.changed = changed] \in Process
    BY DEF Process
  <2> QED
    BY <2>1 DEF Process, Begun
<1>3. ASSUME NEW changed \in BOOLEAN, NEW batches \in 0..MaxBatches, NEW owed \in SUBSET Rows
      PROVE  /\ [o EXCEPT !.at = at, !.batches = batches, !.changed = changed, !.owed = owed] \in Process
             /\ Begun([o EXCEPT !.at = at, !.batches = batches, !.changed = changed, !.owed = owed])
  <2>1. [o EXCEPT !.at = at, !.batches = batches, !.changed = changed, !.owed = owed] \in Process
    BY DEF Process
  <2> QED
    BY <2>1 DEF Process, Begun
<1> QED
  BY <1>1, <1>2, <1>3

LEMMA LapseType ==
    ASSUME NEW o \in Process, Begun(o), NEW lapsed \in BOOLEAN
    PROVE  [o EXCEPT !.lapsed = lapsed] \in Process /\ Begun([o EXCEPT !.lapsed = lapsed])
  BY DEF Process, Begun

LEMMA RowType ==
    ASSUME row \in Status \union {NoRow}
    PROVE  /\ Started \in Status
           /\ \A state \in {"running", "completed", "degraded", "failed", "lease_unavailable"},
                 leaseState \in {"acquired", "unavailable", "released", "unknown"} :
                 Recorded(state, leaseState) \in Status
<1>1. Failures \in 0..FailureCap
  BY SchedAssumption DEF Failures, Status, NoRow
<1>2. \A state : NextFailures(Failures, state) \in 0..FailureCap
  BY <1>1, SchedAssumption DEF NextFailures
<1> QED
  BY <1>1, <1>2 DEF Started, Recorded, Status

-----------------------------------------------------------------------------
(* Type correctness: the processes, and the rest *)

ProcessesTyped == op \in [Runs -> Process] /\ \A r \in Runs : Begun(op[r])

RestTyped ==
    /\ service \in Services /\ switching \in BOOLEAN
    /\ row \in Status \union {NoRow} /\ holder \in Runs \union {None}
    /\ rows \in [Rows -> {"kept", "expired", "gone"}]
    /\ measured \subseteq Runs \X (1..LastStage) /\ faults \in 0..FaultBound

LEMMA TypeParts == TypeInv <=> ProcessesTyped /\ RestTyped
  BY DEF TypeInv, TypeOK, ProcessesTyped, RestTyped

LEMMA InitType == Init => TypeInv
<1> SUFFICES ASSUME Init PROVE TypeInv
  OBVIOUS
<1>1. ProcessesTyped
  BY AtType DEF Init, ProcessesTyped
<1>2. rows \in [Rows -> {"kept", "expired", "gone"}] /\ faults \in 0..FaultBound
  BY SchedAssumption DEF Init, Rows
<1> QED
  BY <1>1, <1>2, TypeParts DEF Init, RestTyped

LEMMA TypedStep ==
    ASSUME ProcessesTyped, NEW r \in Runs, NEW o \in Process, Begun(o), Becomes(r, o)
    PROVE  ProcessesTyped'
  BY Becoming DEF ProcessesTyped, Begun

LEMMA ProcessesStep ==
    ASSUME ProcessesTyped, RestTyped, [SchedNext]_schedVars
    PROVE  ProcessesTyped'
<1>0. ASSUME UNCHANGED op PROVE ProcessesTyped'
  BY <1>0 DEF ProcessesTyped, Begun
<1>r. \A r \in Runs : op[r] \in Process /\ Begun(op[r])
  BY DEF ProcessesTyped
<1>1. ASSUME NEW r \in Runs, Start(r) \/ TakeSharedLock(r) PROVE ProcessesTyped'
  BY <1>1, <1>r, StepType, TypedStep DEF Start, TakeSharedLock
<1>2. ASSUME NEW r \in Runs, NEW step \in {"recording", "retelling", "done"}, Becomes(r, At(step))
      PROVE  ProcessesTyped'
  BY <1>2, AtType, TypedStep
<1>3. ASSUME NEW r \in Runs, MarkStarted(r) PROVE ProcessesTyped'
  BY <1>3, <1>2, <1>r, StepType, TypedStep DEF MarkStarted
<1>4. ASSUME NEW r \in Runs, RecordFinished(r) \/ RecordFailure(r) \/ ConnectFails(r) \/ Crash(r)
      PROVE  ProcessesTyped'
  BY <1>4, <1>2 DEF RecordFinished, RecordFailure, ConnectFails, Crash
<1>5. ASSUME NEW r \in Runs, Acquire(r) PROVE ProcessesTyped'
  <2>1. Eligible \in SUBSET Rows
    BY DEF Eligible
  <2> QED
    BY <1>5, <2>1, <1>r, AcquireType, StepType, TypedStep DEF Acquire
<1>6. ASSUME NEW r \in Runs, Release(r) PROVE ProcessesTyped'
  <2>1. op[r].errors \in 0..1 /\ op[r].errors \in 0..2
    BY <1>6, <1>r DEF Release, Process, Begun
  <2>2. ReleaseFailed(op[r]) \in 0..2
    BY <2>1 DEF ReleaseFailed
  <2> QED
    BY <1>6, <2>1, <2>2, ToldType, TypedStep DEF Release
<1>7. ASSUME NEW r \in Runs, op[r].step = "working",
             NEW why \in {"complete", "partial", "time-budget", "batch-budget"},
             Stop(r, why) \/ Break(r)
      PROVE  ProcessesTyped'
  BY <1>7, <1>r, StopType, TypedStep DEF Stop, Break
<1>8. ASSUME NEW r \in Runs, ProcessStage(r) PROVE ProcessesTyped'
  <2>1. ASSUME NEW b, NEW busy, op[r].batches < MaxBatches,
               Becomes(r, [op[r] EXCEPT !.at = @ + 1, !.batches = @ + 1, !.changed = Changed(op[r], b),
                                        !.owed = @ \ {w \in busy : StageOf[w] = op[r].at}])
        PROVE  ProcessesTyped'
    <3>0. op[r].at <= LastStage /\ op[r].at \in 1..LastStage + 1
      BY <1>8, <1>r DEF ProcessStage, Process
    <3>1. op[r].at + 1 \in 1..LastStage + 1
      BY <3>0, SchedAssumption
    <3>2. op[r].batches + 1 \in 0..MaxBatches
      BY <2>1, <1>r, SchedAssumption DEF Process
    <3>3. Changed(op[r], b) \in BOOLEAN
      BY <1>r DEF Changed, Process
    <3>4. op[r].owed \ {w \in busy : StageOf[w] = op[r].at} \in SUBSET Rows
      BY <1>r DEF Process
    <3>5. op[r].step = "working"
      BY <1>8 DEF ProcessStage
    <3> QED
      BY <2>1, <3>1, <3>2, <3>3, <3>4, <3>5, <1>r, WorkType, TypedStep
  <2> QED
    BY <1>8, <2>1, <1>7 DEF ProcessStage
<1>9. ASSUME NEW r \in Runs, NextPass(r) PROVE ProcessesTyped'
  <2>1. op[r].step = "working"
    BY <1>9 DEF NextPass
  <2>2. EndPass(op[r]) \in Process /\ Begun(EndPass(op[r]))
    BY <2>1, <1>r, StopType, WorkType, BoundNumbers DEF EndPass
  <2> QED
    BY <1>9, <2>2, TypedStep DEF NextPass
<1>10. ASSUME NEW r \in Runs, MeasureCanary(r) PROVE ProcessesTyped'
  <2>1. op[r].at <= LastStage => op[r].at + 1 \in 1..LastStage + 1
    BY <1>r, SchedAssumption DEF Process
  <2>2. ASSUME op[r].at <= LastStage, op[r].step = "working", Becomes(r, [op[r] EXCEPT !.at = @ + 1])
        PROVE  ProcessesTyped'
    BY <2>1, <2>2, <1>r, WorkType, TypedStep
  <2> QED
    BY <1>10, <2>2, <1>7 DEF MeasureCanary
<1>11. ASSUME NEW r \in Runs, Evaluate(r) PROVE ProcessesTyped'
  BY <1>11, <1>7 DEF Evaluate
<1>12. CASE LeaseLapses
  <2>1. holder \in Runs
    BY <1>12 DEF LeaseLapses, RestTyped
  <2>2. (op[holder].lapsed \/ op[holder].step = "working") \in BOOLEAN
    OBVIOUS
  <2> QED
    BY <1>12, <2>1, <2>2, <1>r, LapseType, TypedStep DEF LeaseLapses
<1> QED
  BY <1>0, <1>1, <1>3, <1>4, <1>5, <1>6, <1>8, <1>9, <1>10, <1>11, <1>12
     DEF SchedNext, schedVars, Switch, Expire

LEMMA RestStep ==
    ASSUME ProcessesTyped, RestTyped, [SchedNext]_schedVars
    PROVE  RestTyped'
<1>f. Fault \/ NoFault => faults' \in 0..FaultBound
  BY SchedAssumption DEF Fault, NoFault, RestTyped
<1>r. \A r \in Runs : op[r] \in Process
  BY DEF ProcessesTyped
<1>1. UNCHANGED schedVars => RestTyped'
  BY DEF schedVars, RestTyped
<1>2. ASSUME NEW r \in Runs,
             Start(r) \/ TakeSharedLock(r) \/ ConnectFails(r) \/ NextPass(r) \/ Evaluate(r) \/ Crash(r)
      PROVE  RestTyped'
  BY <1>2, <1>f DEF Start, TakeSharedLock, ConnectFails, NextPass, Evaluate, Crash, RestTyped
<1>3. ASSUME NEW r \in Runs, MarkStarted(r) \/ RecordFailure(r) PROVE RestTyped'
  <2>1. Started \in Status /\ Recorded("failed", "unknown") \in Status
    BY RowType DEF RestTyped
  <2> QED
    BY <1>3, <2>1, <1>f DEF MarkStarted, RecordFailure, RestTyped
<1>4. ASSUME NEW r \in Runs, RecordFinished(r) PROVE RestTyped'
  <2>1. State(op[r]) \in {"running", "completed", "degraded", "failed", "lease_unavailable"}
    BY <1>r DEF State, Process
  <2>2. Recorded(State(op[r]), IF op[r].held THEN "released" ELSE "unavailable") \in Status
    BY <2>1, RowType DEF RestTyped
  <2> QED
    BY <1>4, <2>2, <1>f DEF RecordFinished, RestTyped
<1>5. ASSUME NEW r \in Runs, Acquire(r) \/ Release(r) PROVE RestTyped'
  BY <1>5, <1>f DEF Acquire, Release, LetGo, RestTyped
<1>6. ASSUME NEW r \in Runs, ProcessStage(r) PROVE RestTyped'
  <2>1. rows' \in [Rows -> {"kept", "expired", "gone"}]
    BY <1>6 DEF ProcessStage, RestTyped
  <2> QED
    BY <1>6, <2>1, <1>f DEF ProcessStage, RestTyped
<1>7. ASSUME NEW r \in Runs, MeasureCanary(r) PROVE RestTyped'
  <2>1. op[r].at <= LastStage => op[r].at \in 1..LastStage
    BY <1>r, SchedAssumption DEF Process
  <2> QED
    BY <1>7, <2>1, <1>f DEF MeasureCanary, Measurement, RestTyped
<1>8. CASE Switch
  BY <1>8 DEF Switch, RestTyped
<1>9. CASE LeaseLapses
  BY <1>9 DEF LeaseLapses, RestTyped
<1>10. ASSUME NEW w \in Rows, Expire(w) PROVE RestTyped'
  BY <1>10 DEF Expire, RestTyped
<1> QED
  BY <1>1, <1>2, <1>3, <1>4, <1>5, <1>6, <1>7, <1>8, <1>9, <1>10 DEF SchedNext

LEMMA TypeStep == TypeInv /\ [SchedNext]_schedVars => TypeInv'
<1>1. TypeInv' <=> ProcessesTyped' /\ RestTyped'
  BY DEF TypeInv, TypeOK, ProcessesTyped, RestTyped
<1> QED
  BY <1>1, TypeParts, ProcessesStep, RestStep

(* Every state of a scheduled service is well formed. *)
THEOREM ScheduledTypeCorrect == SchedSpec => []TypeOK
<1>1. TypeInv => TypeOK
  BY DEF TypeInv
<1> QED
  BY <1>1, InitType, TypeStep, PTL DEF SchedSpec

-----------------------------------------------------------------------------
(* The lease *)

(* Only the run that takes the lease begins to work, and only a lapse takes *)
(* the lease from a run at work.                                            *)
LEMMA HolderStep ==
    ASSUME TypeInv, HolderInv, [SchedNext]_schedVars
    PROVE  HolderInv'
<1>p. op \in [Runs -> Process] /\ \A r \in Runs : op[r] \in Process
  BY DEF TypeInv, TypeOK
<1>0. ASSUME UNCHANGED <<op, holder>> PROVE HolderInv'
  BY <1>0 DEF HolderInv
<1>1. ASSUME NEW r \in Runs, NEW o \in Process, Becomes(r, o),
             o.step # "working" \/ (op[r].step = "working" /\ o.lapsed = op[r].lapsed),
             UNCHANGED holder
      PROVE  HolderInv'
  <2>1. op'[r] = o /\ \A q \in Runs : q # r => op'[q] = op[q]
    BY <1>1, <1>p, Becoming
  <2> QED
    BY <1>1, <2>1 DEF HolderInv
<1>2. ASSUME NEW r \in Runs, NEW step \in {"recording", "retelling", "done"}, Becomes(r, At(step)),
             UNCHANGED holder
      PROVE  HolderInv'
  BY <1>1, <1>2, AtType
<1>3. ASSUME NEW r \in Runs, Start(r) \/ TakeSharedLock(r) \/ MarkStarted(r) PROVE HolderInv'
  <2>1. \A step \in {"waiting", "launched", "marked"} :
          /\ [op[r] EXCEPT !.step = step] \in Process
          /\ [op[r] EXCEPT !.step = step].step # "working"
    BY <1>p DEF Process
  <2> QED
    BY <1>1, <1>2, <1>3, <2>1 DEF Start, TakeSharedLock, MarkStarted
<1>4. ASSUME NEW r \in Runs, RecordFinished(r) \/ RecordFailure(r) \/ ConnectFails(r) \/ Crash(r)
      PROVE  HolderInv'
  BY <1>2, <1>4 DEF RecordFinished, RecordFailure, ConnectFails, Crash
<1>5. ASSUME NEW r \in Runs, Acquire(r) PROVE HolderInv'
  <2>1. op[r].step = "marked" /\ Begun(op[r]) /\ Eligible \in SUBSET Rows
    BY <1>5 DEF Acquire, TypeInv, Eligible
  <2>2. CASE holder = None /\ holder' = r
             /\ Becomes(r, [op[r] EXCEPT !.step = "working", !.held = TRUE, !.owed = Eligible])
    <3>1. \A q \in Runs : q # r => op'[q] = op[q]
      BY <2>1, <2>2, <1>p, AcquireType, Becoming
    <3>2. \A q \in Runs : op[q].step = "working" => op[q].lapsed
      BY <2>2, BoundNumbers DEF HolderInv
    <3> QED
      BY <2>2, <3>1, <3>2 DEF HolderInv
  <2>3. CASE UNCHANGED holder /\ Becomes(r, [op[r] EXCEPT !.step = "recording"])
    <3>1. [op[r] EXCEPT !.step = "recording"] \in Process
          /\ [op[r] EXCEPT !.step = "recording"].step # "working"
      BY <1>p DEF Process
    <3> QED
      BY <2>3, <3>1, <1>1
  <2>4. CASE UNCHANGED holder /\ Becomes(r, AcquireFailed(op[r]))
    <3>1. AcquireFailed(op[r]) \in Process
      BY <2>1, <1>p, AcquireType
    <3>2. AcquireFailed(op[r]).step # "working"
      BY <1>p, AtType DEF AcquireFailed, Process
    <3> QED
      BY <2>4, <3>1, <3>2, <1>1
  <2> QED
    BY <1>5, <2>2, <2>3, <2>4 DEF Acquire
<1>6. ASSUME NEW r \in Runs, Release(r) PROVE HolderInv'
  <2>1. op[r].step = "releasing" /\ op[r].errors \in 0..1 /\ op[r].errors \in 0..2
    BY <1>6, <1>p DEF Release, TypeInv, Process, Begun
  <2>2. ReleaseFailed(op[r]) \in 0..2
    BY <2>1 DEF ReleaseFailed
  <2>3. \A q \in Runs : q # r => op'[q] = op[q]
    BY <1>6, <1>p, <2>1, <2>2, ToldType, Becoming DEF Release
  <2>4. op'[r].step # "working"
    BY <1>6, <1>p, <2>1, <2>2, ToldType, Becoming DEF Release
  <2>5. holder' = holder \/ holder = r
    BY <1>6 DEF Release, LetGo
  <2> QED
    BY <2>3, <2>4, <2>5 DEF HolderInv
<1>7. ASSUME NEW r \in Runs, op[r].step = "working",
             NEW why \in {"complete", "partial", "time-budget", "batch-budget"},
             Stop(r, why) \/ Break(r), UNCHANGED holder
      PROVE  HolderInv'
  <2>1. /\ [op[r] EXCEPT !.step = "releasing", !.stopped = why].step # "working"
        /\ [op[r] EXCEPT !.step = "releasing", !.stopped = "error", !.errors = 1].step # "working"
    BY <1>p DEF Process
  <2>2. Begun(op[r])
    BY DEF TypeInv
  <2> QED
    BY <1>1, <1>7, <1>p, <2>1, <2>2, StopType DEF Stop, Break
<1>8. ASSUME NEW r \in Runs, ProcessStage(r) PROVE HolderInv'
  <2>1. ASSUME NEW b, NEW busy,
               Becomes(r, [op[r] EXCEPT !.at = @ + 1, !.batches = @ + 1, !.changed = Changed(op[r], b),
                                        !.owed = @ \ {w \in busy : StageOf[w] = op[r].at}])
        PROVE  HolderInv'
    <3>1. op'[r] = [op[r] EXCEPT !.at = @ + 1, !.batches = @ + 1, !.changed = Changed(op[r], b),
                                 !.owed = @ \ {w \in busy : StageOf[w] = op[r].at}]
          /\ \A q \in Runs : q # r => op'[q] = op[q]
      BY <2>1, <1>p DEF Becomes
    <3>2. op'[r].step = op[r].step /\ op'[r].lapsed = op[r].lapsed
      BY <3>1, <1>p DEF Process
    <3>3. UNCHANGED holder
      BY <1>8 DEF ProcessStage
    <3> QED
      BY <3>1, <3>2, <3>3 DEF HolderInv
  <2> QED
    BY <1>8, <2>1, <1>7 DEF ProcessStage
<1>9. ASSUME NEW r \in Runs, NextPass(r) PROVE HolderInv'
  <2>1. op[r].step = "working" /\ Begun(op[r]) /\ UNCHANGED holder
    BY <1>9 DEF NextPass, TypeInv
  <2>2. EndPass(op[r]) \in Process
    BY <2>1, <1>p, StopType, WorkType, BoundNumbers DEF EndPass
  <2>3. EndPass(op[r]).step # "working" \/ EndPass(op[r]).lapsed = op[r].lapsed
    BY <1>p DEF EndPass, Process
  <2> QED
    BY <1>9, <1>1, <2>1, <2>2, <2>3 DEF NextPass
<1>10. ASSUME NEW r \in Runs, MeasureCanary(r) PROVE HolderInv'
  <2>1. ASSUME Becomes(r, [op[r] EXCEPT !.at = @ + 1])
        PROVE  HolderInv'
    <3>1. op'[r] = [op[r] EXCEPT !.at = @ + 1] /\ \A q \in Runs : q # r => op'[q] = op[q]
      BY <2>1, <1>p DEF Becomes
    <3>2. op'[r].step = op[r].step /\ op'[r].lapsed = op[r].lapsed
      BY <3>1, <1>p DEF Process
    <3>3. UNCHANGED holder
      BY <1>10 DEF MeasureCanary
    <3> QED
      BY <3>1, <3>2, <3>3 DEF HolderInv
  <2> QED
    BY <1>10, <2>1, <1>7 DEF MeasureCanary
<1>11. ASSUME NEW r \in Runs, Evaluate(r) PROVE HolderInv'
  BY <1>11, <1>7 DEF Evaluate
<1>12. CASE LeaseLapses
  <2>1. holder \in Runs
    BY <1>12 DEF LeaseLapses, TypeInv, TypeOK
  <2>2. op' = [op EXCEPT ![holder] = [op[holder] EXCEPT !.lapsed = @ \/ op[holder].step = "working"]]
    BY <1>12 DEF LeaseLapses, Becomes
  <2>3. /\ op'[holder].step = op[holder].step
        /\ op'[holder].step = "working" => op'[holder].lapsed
        /\ \A q \in Runs : q # holder => op'[q] = op[q]
    BY <2>1, <2>2, <1>p DEF Process
  <2> QED
    BY <2>1, <2>3 DEF HolderInv
<1> QED
  BY <1>0, <1>3, <1>4, <1>5, <1>6, <1>8, <1>9, <1>10, <1>11, <1>12
     DEF SchedNext, schedVars, Switch, Expire

(* Two runs at work under the lease would both be its holder. *)
LEMMA HolderAlone == HolderInv => OneHolderAtWork
<1> SUFFICES ASSUME HolderInv PROVE OneHolderAtWork
  OBVIOUS
<1> DEFINE Working == {r \in Runs : op[r].step = "working" /\ ~op[r].lapsed}
<1>1. CASE Working = {}
  BY <1>1, FS_EmptySet DEF OneHolderAtWork
<1>2. ASSUME NEW r \in Working PROVE OneHolderAtWork
  <2>1. Working = {holder}
    BY <1>2 DEF HolderInv
  <2>2. Cardinality(Working) = 1
    <3> HIDE DEF Working
    <3> QED
      BY <2>1, FS_Singleton
  <2> QED
    BY <2>2 DEF OneHolderAtWork
<1> QED
  BY <1>1, <1>2

-----------------------------------------------------------------------------
(* The sweep *)

(* What a batch may be: rows of the stage that have expired, and all those  *)
(* no transaction holds when it is empty.                                   *)
LEMMA BatchRemoves ==
    ASSUME RestTyped, NEW stage, NEW busy, NEW b \in Batches(stage, busy)
    PROVE  /\ b \subseteq Eligible
           /\ b = {} => \A w \in Eligible : StageOf[w] = stage => w \in busy
<1> DEFINE open == {w \in Eligible : StageOf[w] = stage} \ busy
<1> DEFINE size == IF Cardinality(open) < BatchSize THEN Cardinality(open) ELSE BatchSize
<1>1. b \subseteq open /\ Cardinality(b) = size
  BY DEF Batches
<1>2. IsFiniteSet(open)
  <2>1. open \subseteq Rows
    BY DEF Eligible
  <2> QED
    BY <2>1, SchedAssumption, FS_Subset DEF Rows
<1>3. ASSUME b = {} PROVE open = {}
  <2>1. Cardinality(b) = 0
    BY <1>3, FS_EmptySet
  <2>2. Cardinality(open) \in Nat
    BY <1>2, FS_CardinalityType
  <2>3. Cardinality(open) = 0
    <3> HIDE DEF open
    <3> QED
      BY <1>1, <2>1, <2>2, SchedAssumption
  <2> HIDE DEF open
  <2> QED
    BY <1>2, <2>3, FS_EmptySet
<1> QED
  BY <1>1, <1>3

(* A run that owes nothing, or stops for another reason, keeps its word. *)
LEMMA OwesNothing ==
    ASSUME NEW step \in {"idle", "waiting", "launched", "marked", "recording", "retelling", "done"},
           NEW o, NEW n
    PROVE  Owes(At(step)) /\ Owes(Told(o, n))
  BY DEF Owes, At, Told

LEMMA OwesStill ==
    ASSUME NEW o \in Process, Owes(o)
    PROVE  /\ \A step \in {"waiting", "launched", "marked", "recording"} :
                Owes([o EXCEPT !.step = step])
           /\ Owes([o EXCEPT !.step = "releasing", !.stopped = "error", !.errors = 1])
           /\ \A why \in {"partial", "time-budget", "batch-budget"} :
                Owes([o EXCEPT !.step = "releasing", !.stopped = why])
           /\ Owes([o EXCEPT !.step = "recording", !.errors = 1, !.stopped = "error"])
<1>1. \A step \in {"waiting", "launched", "marked", "recording"} : Owes([o EXCEPT !.step = step])
  BY DEF Owes, Process
<1>2. Owes([o EXCEPT !.step = "releasing", !.stopped = "error", !.errors = 1])
  BY DEF Owes, Process
<1>3. \A why \in {"partial", "time-budget", "batch-budget"} :
         Owes([o EXCEPT !.step = "releasing", !.stopped = why])
  BY DEF Owes, Process
<1>4. Owes([o EXCEPT !.step = "recording", !.errors = 1, !.stopped = "error"])
  BY DEF Owes, Process
<1> QED
  BY <1>1, <1>2, <1>3, <1>4

(* Rows leave, and only rows nobody owes arrive: what is owed stays owed. *)
LEMMA OwesLater ==
    ASSUME NEW o \in Process, Owes(o),
           \A w \in Rows : rows'[w] = rows[w] \/ rows'[w] = "gone" \/ rows[w] = "kept"
    PROVE  (/\ \A w \in o.owed : rows'[w] # "kept"
            /\ o.step = "working" /\ ~o.changed
               => \A w \in o.owed : rows'[w] = "expired" => StageOf[w] >= o.at
            /\ o.step = "releasing" /\ o.stopped = "complete"
               => \A w \in o.owed : rows'[w] # "expired")
<1>1. o.owed \subseteq Rows
  BY DEF Process
<1> QED
  BY <1>1 DEF Owes

LEMMA SweptStep ==
    ASSUME TypeInv, SweptInv, [SchedNext]_schedVars
    PROVE  SweptInv'
<1> SUFFICES ASSUME service = "cleanup" PROVE SweptInv'
  <2>1. service' = service
    BY DEF SchedNext, schedVars, Start, TakeSharedLock, MarkStarted, RecordFinished, RecordFailure,
           ConnectFails, Acquire, Release, ProcessStage, NextPass, MeasureCanary, Evaluate, Crash,
           Switch, LeaseLapses, Expire
  <2> QED
    BY <2>1 DEF SweptInv
<1>p. op \in [Runs -> Process] /\ \A r \in Runs : op[r] \in Process /\ Begun(op[r]) /\ Owes(op[r])
  BY DEF TypeInv, TypeOK, SweptInv
<1>0. ASSUME UNCHANGED <<op, rows>> PROVE SweptInv'
  BY <1>0, <1>p DEF SweptInv, Owes
<1>1. ASSUME NEW r \in Runs, NEW o \in Process, Becomes(r, o), Owes(o), UNCHANGED rows
      PROVE  SweptInv'
  <2>1. op'[r] = o /\ \A q \in Runs : q # r => op'[q] = op[q]
    BY <1>1, <1>p, Becoming
  <2>2. ASSUME NEW q \in Runs PROVE Owes(op[q])'
    <3>1. op'[q] \in Process /\ Owes(op'[q])
      BY <2>1, <1>1, <1>p
    <3> QED
      BY <3>1, <1>1 DEF Owes
  <2> QED
    BY <2>2 DEF SweptInv
<1>2. ASSUME NEW r \in Runs, NEW step \in {"recording", "retelling", "done"}, Becomes(r, At(step)),
             UNCHANGED rows
      PROVE  SweptInv'
  BY <1>1, <1>2, AtType, OwesNothing
<1>3. ASSUME NEW r \in Runs, Start(r) \/ TakeSharedLock(r) \/ MarkStarted(r) PROVE SweptInv'
  <2>1. \A step \in {"waiting", "launched", "marked"} :
          [op[r] EXCEPT !.step = step] \in Process /\ Owes([op[r] EXCEPT !.step = step])
    BY <1>p, OwesStill DEF Process
  <2> QED
    BY <1>1, <1>2, <1>3, <2>1 DEF Start, TakeSharedLock, MarkStarted
<1>4. ASSUME NEW r \in Runs, RecordFinished(r) \/ RecordFailure(r) \/ ConnectFails(r) \/ Crash(r)
      PROVE  SweptInv'
  BY <1>2, <1>4 DEF RecordFinished, RecordFailure, ConnectFails, Crash
<1>5. ASSUME NEW r \in Runs, Acquire(r) PROVE SweptInv'
  <2>1. op[r].step = "marked" /\ op[r].at = 1 /\ Eligible \in SUBSET Rows /\ UNCHANGED rows
    BY <1>5, <1>p DEF Acquire, Eligible, Begun
  <2>2. Owes([op[r] EXCEPT !.step = "working", !.held = TRUE, !.owed = Eligible])
    <3>1. \A w \in Eligible : rows[w] = "expired" /\ StageOf[w] >= 1
      BY SchedAssumption DEF Eligible, Rows
    <3> QED
      BY <2>1, <3>1, <1>p DEF Owes, Process
  <2>3. Owes(AcquireFailed(op[r]))
    BY <1>p, OwesStill, OwesNothing DEF AcquireFailed
  <2>4. [op[r] EXCEPT !.step = "recording"] \in Process /\ Owes([op[r] EXCEPT !.step = "recording"])
    BY <1>p, OwesStill DEF Process
  <2> QED
    BY <1>1, <1>5, <1>p, <2>1, <2>2, <2>3, <2>4, AcquireType DEF Acquire
<1>6. ASSUME NEW r \in Runs, Release(r) PROVE SweptInv'
  <2>1. op[r].step = "releasing" /\ op[r].errors \in 0..1 /\ op[r].errors \in 0..2
    BY <1>6, <1>p DEF Release, Process, Begun
  <2>2. ReleaseFailed(op[r]) \in 0..2
    BY <2>1 DEF ReleaseFailed
  <2> QED
    BY <1>1, <1>6, <2>1, <2>2, ToldType, OwesNothing DEF Release
<1>7. ASSUME NEW r \in Runs, op[r].step = "working",
             NEW why \in {"partial", "time-budget", "batch-budget"},
             Stop(r, why) \/ Break(r), UNCHANGED rows
      PROVE  SweptInv'
  BY <1>1, <1>7, <1>p, StopType, OwesStill DEF Stop, Break
<1>8. ASSUME NEW r \in Runs, ProcessStage(r) PROVE SweptInv'
  <2>1. ASSUME NEW busy, NEW b \in Batches(op[r].at, busy),
               rows' = [w \in Rows |-> IF w \in b THEN "gone" ELSE rows[w]],
               Becomes(r, [op[r] EXCEPT !.at = @ + 1, !.batches = @ + 1, !.changed = Changed(op[r], b),
                                        !.owed = @ \ {w \in busy : StageOf[w] = op[r].at}])
        PROVE  SweptInv'
    <3>1. /\ op'[r] = [op[r] EXCEPT !.at = @ + 1, !.batches = @ + 1, !.changed = Changed(op[r], b),
                                    !.owed = @ \ {w \in busy : StageOf[w] = op[r].at}]
          /\ \A q \in Runs : q # r => op'[q] = op[q]
      BY <2>1, <1>p DEF Becomes
    <3>2. /\ op'[r].at = op[r].at + 1 /\ op'[r].changed = (op[r].changed \/ b # {})
          /\ op'[r].owed = op[r].owed \ {w \in busy : StageOf[w] = op[r].at}
          /\ op'[r].step = "working"
      BY <1>8, <3>1, <1>p DEF ProcessStage, Process, Changed
    <3>3. /\ b \subseteq Eligible
          /\ b = {} => \A w \in Eligible : StageOf[w] = op[r].at => w \in busy
      BY <2>1, BatchRemoves, TypeParts
    <3>4. \A w \in Rows : rows'[w] = IF w \in b THEN "gone" ELSE rows[w]
      BY <2>1
    <3>5. ASSUME NEW q \in Runs, q # r PROVE Owes(op[q])'
      <4>1. op[q] \in Process /\ Owes(op[q]) /\ op'[q] = op[q]
        BY <3>1, <3>5, <1>p
      <4>2. \A w \in Rows : rows'[w] = rows[w] \/ rows'[w] = "gone" \/ rows[w] = "kept"
        BY <3>4
      <4> QED
        BY <4>1, <4>2, OwesLater DEF Owes
    <3>6. Owes(op[r])'
      <4>1. op[r].owed \subseteq Rows /\ op[r].at \in 1..LastStage + 1
        BY <1>p DEF Process
      <4>2. \A w \in op'[r].owed : rows'[w] # "kept"
        BY <3>2, <3>4, <4>1, <1>p DEF Owes
      <4>3. ASSUME ~op'[r].changed, NEW w \in op'[r].owed, rows'[w] = "expired"
            PROVE  StageOf[w] >= op'[r].at
        <5>1. b = {} /\ ~op[r].changed /\ w \in op[r].owed /\ w \in Rows /\ rows[w] = "expired"
          BY <3>2, <3>4, <4>1, <4>3
        <5>2. StageOf[w] >= op[r].at
          BY <5>1, <1>8, <1>p DEF Owes, ProcessStage
        <5>3. StageOf[w] # op[r].at
          BY <5>1, <3>2, <3>3, <4>3 DEF Eligible
        <5>4. StageOf[w] \in Int
          BY <5>1, SchedAssumption DEF Rows
        <5>5. op[r].at \in Int
          BY <4>1, SchedAssumption
        <5> QED
          BY <5>2, <5>3, <5>4, <5>5, <3>2
      <4> QED
        BY <3>2, <4>2, <4>3 DEF Owes
    <3> QED
      BY <3>5, <3>6 DEF SweptInv
  <2> QED
    BY <1>8, <2>1, <1>7 DEF ProcessStage
<1>9. ASSUME NEW r \in Runs, NextPass(r) PROVE SweptInv'
  <2>1. op[r].step = "working" /\ op[r].at > LastStage /\ UNCHANGED rows
    BY <1>9 DEF NextPass
  <2>2. op[r].owed \subseteq Rows /\ op[r].at \in 1..LastStage + 1
    BY <1>p DEF Process
  <2>3. \A w \in op[r].owed : StageOf[w] \in 1..LastStage
    BY <2>2, SchedAssumption DEF Rows
  <2>4. CASE ~op[r].changed
    <3>1. \A w \in op[r].owed : rows[w] # "expired"
      BY <2>1, <2>2, <2>3, <2>4, <1>p, SchedAssumption DEF Owes
    <3>2. Owes([op[r] EXCEPT !.step = "releasing"])
      BY <3>1, <1>p DEF Owes, Process
    <3> QED
      BY <1>1, <1>9, <1>p, <2>1, <2>4, <3>2, StopType DEF NextPass, EndPass
  <2>5. CASE op[r].changed /\ op[r].batches >= MaxBatches
    BY <1>1, <1>9, <1>p, <2>1, <2>5, StopType, OwesStill DEF NextPass, EndPass
  <2>6. CASE op[r].changed /\ ~(op[r].batches >= MaxBatches)
    <3>1. [op[r] EXCEPT !.at = 1, !.changed = FALSE] \in Process
      BY <1>p, <2>1, WorkType, BoundNumbers
    <3>2. \A w \in op[r].owed : StageOf[w] >= 1
      BY <2>3
    <3>3. Owes([op[r] EXCEPT !.at = 1, !.changed = FALSE])
      BY <3>2, <1>p, <2>1 DEF Owes, Process
    <3> QED
      BY <1>1, <1>9, <2>1, <2>6, <3>1, <3>3 DEF NextPass, EndPass
  <2> QED
    BY <2>4, <2>5, <2>6
<1>10. CASE LeaseLapses
  <2>1. holder \in Runs /\ UNCHANGED rows
    BY <1>10 DEF LeaseLapses, TypeInv, TypeOK
  <2>2. Owes([op[holder] EXCEPT !.lapsed = @ \/ op[holder].step = "working"])
    BY <2>1, <1>p DEF Owes, Process
  <2>3. (op[holder].lapsed \/ op[holder].step = "working") \in BOOLEAN
    OBVIOUS
  <2> QED
    BY <1>1, <1>10, <1>p, <2>1, <2>2, <2>3, LapseType DEF LeaseLapses
<1>11. ASSUME NEW w \in Rows, Expire(w) PROVE SweptInv'
  <2>1. UNCHANGED op /\ \A v \in Rows : rows'[v] = rows[v] \/ rows[v] = "kept"
    BY <1>11 DEF Expire, TypeInv, TypeOK
  <2>2. ASSUME NEW q \in Runs PROVE Owes(op[q])'
    BY <2>1, <1>p, OwesLater DEF Owes
  <2> QED
    BY <2>2 DEF SweptInv
<1>12. ASSUME NEW r \in Runs PROVE ~MeasureCanary(r) /\ ~Evaluate(r)
  BY DEF MeasureCanary, Evaluate
<1> QED
  BY <1>0, <1>3, <1>4, <1>5, <1>6, <1>8, <1>9, <1>10, <1>11, <1>12 DEF SchedNext, schedVars, Switch

-----------------------------------------------------------------------------
(* A run works alone while its lease lasts, however often leases lapse, runs *)
(* crash and successors overlap; and a cleanup that stops because it is      *)
(* complete has removed the rows it owed, whatever other runs and other      *)
(* transactions did meanwhile (cleanup/src/runner.ts, lease.ts).             *)
THEOREM ScheduledRunsKeepTheirWord == SchedSpec => []RunsKeepTheirWord
<1> DEFINE Inv == TypeInv /\ HolderInv /\ SweptInv
<1>1. Init => Inv
  <2>1. Init => HolderInv /\ SweptInv
    BY AtType, OwesNothing DEF Init, HolderInv, SweptInv, At
  <2> QED
    BY <2>1, InitType
<1>2. Inv /\ [SchedNext]_schedVars => Inv'
  BY TypeStep, HolderStep, SweptStep
<1>3. Inv => RunsKeepTheirWord
  <2>1. SweptInv => CompleteMeansSwept
    BY DEF SweptInv, Owes, CompleteMeansSwept, Eligible
  <2> QED
    BY <2>1, HolderAlone DEF RunsKeepTheirWord
<1> HIDE DEF Inv
<1> QED
  BY <1>1, <1>2, <1>3, PTL DEF SchedSpec
---------------------------------------------------------------------------
(* The guards of the pilot.  A judgement is one more revision than what it *)
(* judged.  One that is about to be written is no raise of the guard whose *)
(* row its transaction holds, or it is the first guard of its tuple.       *)

Judged(r) == r.phase = "apply" => r.next.revision = r.current.revision + 1 /\ r.next.by = "evaluator"

Writes(e) ==
  evaluation[e].phase = "write" =>
    IF locked = e THEN evaluation[e].next.cap <= guard.cap ELSE evaluation[e].next.revision = 1

GuardInv ==
  /\ GuardTypeOK
  /\ \A e \in Evaluators : Judged(evaluation[e]) /\ Writes(e)

LEMMA GuardFields ==
  ASSUME GuardWorkload, NEW g \in Guard
  PROVE  /\ g.revision \in 0 .. GuardBound /\ g.cap \in Allocations /\ g.healthy \in Allocations
         /\ g.revision \in Nat /\ g.cap \in Nat /\ g.healthy \in Nat
         /\ g.action \in Actions /\ g.reason \in Verdicts \cup {"none"} /\ g.lapsed \in BOOLEAN
         /\ g.by \in {"evaluator", "operator"}
BY DEF Guard, Allocations, GuardWorkload

LEMMA EvaluationFields ==
  ASSUME NEW r \in Evaluation
  PROVE  /\ r.phase \in {"off", "rebuild", "read", "judge", "apply", "write", "load", "publish"}
         /\ r.grant \in Grant /\ r.current \in Guard /\ r.next \in Guard /\ r.evidence \in Evidence
BY DEF Evaluation

LEMMA GuardStart ==
  ASSUME GuardWorkload
  PROVE  /\ NoGuard \in Guard /\ NoEvidence \in Evidence /\ [allocation |-> 0, revision |-> 0] \in Grant
         /\ Idle \in Evaluation /\ Idle.phase = "off"
<1>1. NoGuard \in Guard /\ NoEvidence \in Evidence /\ [allocation |-> 0, revision |-> 0] \in Grant
  BY DEF GuardWorkload, NoGuard, NoEvidence, Guard, Evidence, Grant, Allocations, Actions, Verdicts
<1>. QED BY <1>1 DEF Idle, Evaluation

\* An evaluator at rest, or in a phase of which the invariant says nothing.
LEMMA Rests ==
  ASSUME GuardWorkload, NEW f \in {"rebuild", "load"}
  PROVE  [Idle EXCEPT !.phase = f] \in Evaluation /\ [Idle EXCEPT !.phase = f].phase = f
BY GuardStart DEF Idle, Evaluation

\* A judgement is a guard.
LEMMA JudgementType ==
  ASSUME GuardWorkload, NEW v \in Verdicts, NEW n \in Allocations, NEW g \in Guard,
         NEW waited \in BOOLEAN, g.revision < GuardBound
  PROVE  /\ Judgement(v, n, g, waited) \in Guard
         /\ Judgement(v, n, g, waited).revision = g.revision + 1
         /\ Judgement(v, n, g, waited).by = "evaluator"
<1>1. /\ g.revision \in Nat /\ g.cap \in Allocations /\ g.healthy \in Allocations
      /\ g.revision + 1 \in 0 .. GuardBound /\ RollbackShare \in Allocations /\ 0 \in Allocations
  BY GuardFields DEF GuardWorkload, Allocations
<1>2. \A x, y \in Allocations : Lesser(x, y) \in Allocations
  BY DEF Lesser
<1>3. CurrentCap(n, g) \in Allocations /\ Fallback(g) \in Allocations
  BY <1>1, <1>2 DEF CurrentCap, Fallback
<1>4. CapFor(v, n, g) \in Allocations
  BY <1>1, <1>2, <1>3 DEF CapFor
<1>5. ActionFor(v, n, g, waited) \in Actions
  BY DEF ActionFor, Actions
<1>6. Healthy(v, n, g, waited) \in Allocations
  BY <1>1, <1>2, <1>3 DEF Healthy
<1>. QED BY <1>1, <1>4, <1>5, <1>6 DEF Judgement, Guard

\* One evaluator moves, and neither the guard nor the lock does.
LEMMA EvaluatorMoves ==
  ASSUME GuardWorkload, GuardInv, NEW e \in Evaluators, NEW r \in Evaluation, Goes(e, r),
         UNCHANGED <<guard, locked>>,
         window' \in Evidence, grant' \in Grant, lease' \in Evaluators \cup {NoOne},
         stored' \in [revision : 0 .. GuardBound, cap : Allocations], cycles' \in 0 .. CycleBound,
         Judged(r), r.phase # "write"
  PROVE  GuardInv'
<1>1. evaluation' = [evaluation EXCEPT ![e] = r] /\ evaluation \in [Evaluators -> Evaluation]
  BY DEF Goes, GuardInv, GuardTypeOK
<1>2. evaluation' \in [Evaluators -> Evaluation]
  BY <1>1
<1>3. GuardTypeOK'
  BY <1>2 DEF GuardInv, GuardTypeOK
<1>4. evaluation'[e] = r /\ \A d \in Evaluators \ {e} : evaluation'[d] = evaluation[d]
  BY <1>1
<1>5. ASSUME NEW d \in Evaluators PROVE Judged(evaluation'[d]) /\ Writes(d)'
  <2>1. CASE d = e
    BY <1>4, <2>1 DEF Writes
  <2>2. CASE d # e
    <3>1. evaluation'[d] = evaluation[d]
      BY <1>4, <2>2
    <3>. QED BY <3>1 DEF GuardInv, Writes
  <2>. QED BY <2>1, <2>2
<1>. QED BY <1>3, <1>5 DEF GuardInv

LEMMA CycleSteps ==
  ASSUME GuardWorkload, GuardInv, NEW e \in Evaluators,
         \/ AcquireLease(e) \/ RebuildWindow(e) \/ ReadInputs(e) \/ Judge(e)
         \/ Conflict(e) \/ LoadGuards(e) \/ PublishGuards(e)
  PROVE  GuardInv'
<1>. DEFINE r == evaluation[e]
<1>1. /\ r \in Evaluation /\ window \in Evidence /\ grant \in Grant /\ guard \in Guard
      /\ lease \in Evaluators \cup {NoOne} /\ cycles \in 0 .. CycleBound
      /\ stored \in [revision : 0 .. GuardBound, cap : Allocations]
  BY DEF GuardInv, GuardTypeOK
<1>2. /\ r.phase \in {"off", "rebuild", "read", "judge", "apply", "write", "load", "publish"}
      /\ r.grant \in Grant /\ r.current \in Guard /\ r.next \in Guard /\ r.evidence \in Evidence
  BY <1>1, EvaluationFields
<1>3. CASE AcquireLease(e)
  <2>1. cycles' \in 0 .. CycleBound
    BY <1>1, <1>3 DEF AcquireLease, GuardWorkload
  <2>2. CASE lease = NoOne
    <3>1. Goes(e, [Idle EXCEPT !.phase = "rebuild"]) /\ lease' = e
      BY <1>3, <2>2 DEF AcquireLease
    <3>2. [Idle EXCEPT !.phase = "rebuild"] \in Evaluation /\ [Idle EXCEPT !.phase = "rebuild"].phase = "rebuild"
      BY Rests
    <3>3. UNCHANGED <<window, grant, guard, locked, stored>>
      BY <1>3 DEF AcquireLease
    <3> DEFINE w == [Idle EXCEPT !.phase = "rebuild"]
    <3>4. w \in Evaluation /\ Judged(w) /\ w.phase # "write" /\ Goes(e, w)
      BY <3>1, <3>2 DEF Judged
    <3> HIDE DEF w, r
    <3>5. lease' \in Evaluators \cup {NoOne}
      BY <3>1
    <3>. QED BY <1>1, <2>1, <3>3, <3>4, <3>5, EvaluatorMoves
  <2>3. CASE lease # NoOne
    <3>1. UNCHANGED <<lease, evaluation, window, grant, guard, locked, stored>>
      BY <1>3, <2>3 DEF AcquireLease
    <3>2. GuardTypeOK'
      BY <2>1, <3>1 DEF GuardInv, GuardTypeOK
    <3>3. \A d \in Evaluators : Writes(d)'
      BY <3>1 DEF GuardInv, Writes
    <3>. QED BY <3>1, <3>2, <3>3 DEF GuardInv
  <2>. QED BY <2>2, <2>3
<1>4. CASE RebuildWindow(e)
  <2> DEFINE w == [r EXCEPT !.phase = "read"]
  <2>1. w \in Evaluation /\ w.phase = "read" /\ Goes(e, w)
    BY <1>1, <1>4 DEF RebuildWindow, Evaluation
  <2>2. PICK v \in Rebuilt : window' = [revision |-> window.revision + 1, verdict |-> v]
    BY <1>4 DEF RebuildWindow
  <2>3. window.revision + 1 \in 0 .. EvidenceBound /\ v \in Verdicts
    BY <1>1, <1>4 DEF RebuildWindow, Evidence, GuardWorkload
  <2>4. window' \in Evidence
    BY <2>2, <2>3 DEF Evidence
  <2>5. UNCHANGED <<grant, guard, locked, lease, stored, cycles>>
    BY <1>4 DEF RebuildWindow
  <2>6. Judged(w)
    BY <2>1 DEF Judged
  <2> HIDE DEF w, r
  <2>. QED BY <1>1, <2>1, <2>4, <2>5, <2>6, EvaluatorMoves
<1>5. CASE ReadInputs(e)
  <2>1. UNCHANGED <<window, grant, guard, locked, lease, stored, cycles>>
    BY <1>5 DEF ReadInputs
  <2>2. CASE grant.allocation = 0
    <3> DEFINE w == [Idle EXCEPT !.phase = "load"]
    <3>1. Goes(e, w)
      BY <1>5, <2>2 DEF ReadInputs
    <3>2. w \in Evaluation /\ w.phase = "load"
      BY Rests
    <3> HIDE DEF w, r
    <3>3. Judged(w)
      BY <3>2 DEF Judged
    <3>. QED BY <1>1, <2>1, <3>1, <3>2, <3>3, EvaluatorMoves
  <2>3. CASE grant.allocation # 0
    <3> DEFINE w == [Idle EXCEPT !.phase = "judge", !.grant = grant, !.current = guard]
    <3>1. Goes(e, w)
      BY <1>5, <2>3 DEF ReadInputs
    <3>2. w \in Evaluation /\ w.phase = "judge"
      BY <1>1, GuardStart DEF Idle, Evaluation
    <3> HIDE DEF w, r
    <3>3. Judged(w)
      BY <3>2 DEF Judged
    <3>. QED BY <1>1, <2>1, <3>1, <3>2, <3>3, EvaluatorMoves
  <2>. QED BY <2>2, <2>3
<1>6. CASE Judge(e)
  <2>1. UNCHANGED <<window, grant, guard, locked, lease, stored, cycles>> /\ r.current.revision < GuardBound
    BY <1>6 DEF Judge
  <2>2. PICK waited \in BOOLEAN :
          LET next == Judgement(window.verdict, r.grant.allocation, r.current, waited)
          IN Goes(e, IF MateriallyChanged(r.current, next)
                       THEN [r EXCEPT !.phase = "apply", !.next = next, !.evidence = window]
                       ELSE [Idle EXCEPT !.phase = "load"])
    BY <1>6 DEF Judge
  <2> DEFINE next == Judgement(window.verdict, r.grant.allocation, r.current, waited)
  <2>3. window.verdict \in Verdicts /\ r.grant.allocation \in Allocations
    BY <1>1, <1>2 DEF Evidence, Grant
  <2>4. next \in Guard /\ next.revision = r.current.revision + 1 /\ next.by = "evaluator"
    BY <1>2, <2>1, <2>3, JudgementType
  <2>5. Goes(e, IF MateriallyChanged(r.current, next)
                  THEN [r EXCEPT !.phase = "apply", !.next = next, !.evidence = window]
                  ELSE [Idle EXCEPT !.phase = "load"])
    BY <2>2
  <2> HIDE DEF next
  <2>6. CASE MateriallyChanged(r.current, next)
    <3> DEFINE w == [r EXCEPT !.phase = "apply", !.next = next, !.evidence = window]
    <3>1. Goes(e, w)
      BY <2>5, <2>6
    <3>2. w \in Evaluation /\ w.phase = "apply" /\ w.next = next /\ w.current = r.current
      BY <1>1, <2>4 DEF Evaluation
    <3> HIDE DEF w
    <3>3. Judged(w)
      BY <2>4, <3>2 DEF Judged
    <3> HIDE DEF r
    <3>. QED BY <1>1, <2>1, <3>1, <3>2, <3>3, EvaluatorMoves
  <2>7. CASE ~MateriallyChanged(r.current, next)
    <3> DEFINE w == [Idle EXCEPT !.phase = "load"]
    <3>1. Goes(e, w)
      BY <2>5, <2>7
    <3>2. w \in Evaluation /\ w.phase = "load"
      BY Rests
    <3> HIDE DEF w, r
    <3>3. Judged(w)
      BY <3>2 DEF Judged
    <3>. QED BY <1>1, <2>1, <3>1, <3>2, <3>3, EvaluatorMoves
  <2>. QED BY <2>6, <2>7
<1>7. CASE Conflict(e) \/ PublishGuards(e)
  <2>1. UNCHANGED <<window, grant, guard, locked, cycles>> /\ Goes(e, Idle) /\ ReleaseLease(e)
    BY <1>7 DEF Conflict, PublishGuards
  <2>2. lease' \in Evaluators \cup {NoOne}
    BY <1>1, <2>1 DEF ReleaseLease
  <2>3. stored' \in [revision : 0 .. GuardBound, cap : Allocations]
    <3>1. r.current.revision \in 0 .. GuardBound /\ r.current.cap \in Allocations
      BY <1>2, GuardFields
    <3>2. CASE Conflict(e)
      BY <1>1, <3>2 DEF Conflict
    <3>3. CASE PublishGuards(e)
      BY <1>1, <3>1, <3>3 DEF PublishGuards
    <3>. QED BY <1>7, <3>2, <3>3
  <2>4. Judged(Idle) /\ Idle.phase # "write" /\ Idle \in Evaluation
    BY GuardStart DEF Judged
  <2> HIDE DEF r
  <2>. QED BY <1>1, <2>1, <2>2, <2>3, <2>4, EvaluatorMoves
<1>8. CASE LoadGuards(e)
  <2> DEFINE seen == [NoGuard EXCEPT !.revision = guard.revision, !.cap = guard.cap]
             w == [Idle EXCEPT !.phase = "publish", !.current = seen]
  <2>1. Goes(e, w) /\ UNCHANGED <<window, grant, guard, locked, lease, stored, cycles>>
    BY <1>8 DEF LoadGuards
  <2>2. guard.revision \in 0 .. GuardBound /\ guard.cap \in Allocations
    BY <1>1, GuardFields
  <2>3. seen \in Guard
    BY <2>2, GuardStart DEF NoGuard, Guard
  <2> HIDE DEF seen
  <2>4. w \in Evaluation /\ w.phase = "publish"
    BY <2>3, GuardStart DEF Idle, Evaluation
  <2> HIDE DEF w, r
  <2>5. Judged(w)
    BY <2>4 DEF Judged
  <2>. QED BY <1>1, <2>1, <2>4, <2>5, EvaluatorMoves
<1>. QED BY <1>3, <1>4, <1>5, <1>6, <1>7, <1>8

\* The transaction of a guard: what it checks stands until it writes, because
\* it holds the row, or there is none.
LEMMA ApplySteps ==
  ASSUME GuardWorkload, GuardInv, NEW e \in Evaluators, BeginApply(e) \/ WriteGuard(e) \/ CycleDies(e)
  PROVE  GuardInv'
<1>. DEFINE r == evaluation[e]
<1>1. /\ r \in Evaluation /\ guard \in Guard /\ evaluation \in [Evaluators -> Evaluation]
      /\ locked \in Evaluators \cup {NoOne} /\ e # NoOne
  BY DEF GuardInv, GuardTypeOK, GuardWorkload
<1>2. r.current \in Guard /\ r.next \in Guard
  BY <1>1, EvaluationFields
<1>3. PICK w \in Evaluation :
        /\ Goes(e, w) /\ Judged(w)
        /\ w.phase = "write" => BeginApply(e) /\ w.next = r.next
  <2>1. CASE BeginApply(e)
    <3> DEFINE w == [Idle EXCEPT !.phase = "write", !.next = r.next]
    <3>1. Goes(e, w)
      BY <2>1 DEF BeginApply
    <3>2. w \in Evaluation /\ w.phase = "write" /\ w.next = r.next
      BY <1>2, GuardStart DEF Idle, Evaluation
    <3> HIDE DEF w, r
    <3>. QED BY <2>1, <3>1, <3>2 DEF Judged
  <2>2. CASE WriteGuard(e)
    <3> DEFINE w == [Idle EXCEPT !.phase = "load"]
    <3>1. Goes(e, w)
      BY <2>2 DEF WriteGuard
    <3>2. w \in Evaluation /\ w.phase = "load"
      BY Rests
    <3> HIDE DEF w, r
    <3>. QED BY <3>1, <3>2 DEF Judged
  <2>3. CASE CycleDies(e)
    <3>1. Goes(e, Idle)
      BY <2>3 DEF CycleDies
    <3>. QED BY <3>1, GuardStart DEF Judged
  <2>. QED BY <2>1, <2>2, <2>3
<1>4. evaluation' = [evaluation EXCEPT ![e] = w]
  BY <1>3 DEF Goes
<1>5. /\ evaluation' \in [Evaluators -> Evaluation]
      /\ evaluation'[e] = w /\ \A d \in Evaluators \ {e} : evaluation'[d] = evaluation[d]
  BY <1>1, <1>4
<1>6. /\ guard' \in Guard /\ locked' \in Evaluators \cup {NoOne}
      /\ UNCHANGED <<window, grant, lease, stored, cycles>>
  BY <1>1, <1>2 DEF BeginApply, WriteGuard, CycleDies
<1>7. GuardTypeOK'
  BY <1>5, <1>6 DEF GuardInv, GuardTypeOK
<1>8. Writes(e)'
  <2> SUFFICES ASSUME w.phase = "write" PROVE Writes(e)'
    BY <1>5 DEF Writes
  <2>1. BeginApply(e) /\ w.next = r.next
    BY <1>3
  <2>2. /\ r.phase = "apply" /\ locked' = IF guard.revision = 0 THEN NoOne ELSE e
        /\ guard.revision = r.current.revision
        /\ guard.revision # 0 => r.next.cap <= guard.cap
        /\ guard' = guard
    BY <2>1 DEF BeginApply, Agrees, In
  <2>3. r.next.revision = r.current.revision + 1
    BY <2>2 DEF GuardInv, Judged
  <2>4. CASE guard.revision = 0
    <3>1. locked' # e /\ w.next.revision = 1
      BY <1>1, <2>1, <2>2, <2>3, <2>4
    <3>. QED BY <1>5, <3>1 DEF Writes
  <2>5. CASE guard.revision # 0
    <3>1. locked' = e /\ w.next.cap <= guard.cap
      BY <2>1, <2>2, <2>5
    <3>. QED BY <1>5, <2>2, <3>1 DEF Writes
  <2>. QED BY <2>4, <2>5
<1>9. ASSUME NEW d \in Evaluators \ {e} PROVE Judged(evaluation'[d]) /\ Writes(d)'
  <2>1. evaluation'[d] = evaluation[d] /\ Judged(evaluation[d]) /\ Writes(d)
    BY <1>5 DEF GuardInv
  <2>0. d # NoOne /\ d # e
    BY DEF GuardWorkload
  <2>2. (locked' = d <=> locked = d) /\ (locked = d => guard' = guard)
    <3>1. CASE BeginApply(e)
      BY <1>1, <2>0, <3>1 DEF BeginApply
    <3>2. CASE WriteGuard(e)
      BY <1>1, <2>0, <3>2 DEF WriteGuard
    <3>3. CASE CycleDies(e)
      BY <1>1, <2>0, <3>3 DEF CycleDies
    <3>. QED BY <3>1, <3>2, <3>3
  <2>. QED BY <2>1, <2>2 DEF Writes
<1>. QED BY <1>3, <1>5, <1>7, <1>8, <1>9 DEF GuardInv

\* Nobody else changes a guard whose row is held, except that it lapses.
LEMMA OtherGuardSteps ==
  ASSUME GuardWorkload, GuardInv, LeaseExpires \/ ChangeGrant \/ OperatorGuard \/ GuardLapses
  PROVE  GuardInv'
<1>1. /\ guard \in Guard /\ grant \in Grant /\ UNCHANGED evaluation
      /\ guard.revision \in Nat /\ guard.cap \in Allocations
  BY GuardFields DEF GuardInv, GuardTypeOK, LeaseExpires, ChangeGrant, OperatorGuard, GuardLapses
<1>2. CASE LeaseExpires
  BY <1>1, <1>2 DEF LeaseExpires, GuardInv, GuardTypeOK, Writes
<1>3. CASE ChangeGrant
  <2>1. PICK n \in Allocations : grant' = [allocation |-> n, revision |-> grant.revision + 1]
    BY <1>3 DEF ChangeGrant
  <2>2. grant.revision + 1 \in 0 .. GrantBound
    BY <1>1, <1>3 DEF ChangeGrant, Grant, GuardWorkload
  <2>3. grant' \in Grant
    BY <2>1, <2>2 DEF Grant
  <2>. QED BY <1>1, <1>3, <2>3 DEF ChangeGrant, GuardInv, GuardTypeOK, Writes
<1>4. CASE OperatorGuard
  <2>1. PICK n \in 0 .. grant.allocation :
          guard' = [guard EXCEPT !.revision = @ + 1, !.cap = n, !.healthy = n,
                                 !.lapsed = FALSE, !.by = "operator"]
    BY <1>4 DEF OperatorGuard
  <2>2. guard.revision + 1 \in 0 .. GuardBound /\ n \in Allocations
    <3>1. guard.revision \in 1 .. GuardBound - 1 /\ GuardBound \in Nat
      BY <1>4 DEF OperatorGuard, GuardWorkload
    <3>2. grant.allocation \in 0 .. Full /\ Full \in Nat
      BY <1>1 DEF Grant, Allocations, GuardWorkload
    <3>. QED BY <3>1, <3>2 DEF Allocations
  <2>3. guard' \in Guard
    BY <1>1, <2>1, <2>2 DEF Guard
  <2>4. UNCHANGED <<window, grant, locked, lease, stored, cycles>> /\ locked = NoOne
    BY <1>4 DEF OperatorGuard
  <2>5. \A d \in Evaluators : d # NoOne
    BY DEF GuardWorkload
  <2>. QED BY <1>1, <2>3, <2>4, <2>5 DEF GuardInv, GuardTypeOK, Writes
<1>5. CASE GuardLapses
  <2>1. guard' = [guard EXCEPT !.lapsed = TRUE] /\ UNCHANGED <<window, grant, locked, lease, stored, cycles>>
    BY <1>5 DEF GuardLapses
  <2>2. guard' \in Guard /\ guard'.cap = guard.cap
    BY <1>1, <2>1 DEF Guard
  <2>. QED BY <1>1, <2>1, <2>2 DEF GuardInv, GuardTypeOK, Writes
<1>. QED BY <1>2, <1>3, <1>4, <1>5

LEMMA GuardInitHolds == ASSUME GuardWorkload, GuardInit PROVE GuardInv
<1>1. /\ window \in Evidence /\ grant \in Grant /\ lease \in Evaluators \cup {NoOne}
      /\ locked \in Evaluators \cup {NoOne} /\ cycles \in 0 .. CycleBound
      /\ stored \in [revision : 0 .. GuardBound, cap : Allocations]
  BY GuardStart DEF GuardInit, GuardWorkload, Grant, Allocations
<1>2. guard \in Guard
  <2> DEFINE g == [NoGuard EXCEPT !.revision = 1, !.cap = Full, !.healthy = RollbackShare, !.reason = "sound"]
  <2>1. 1 \in 0 .. GuardBound /\ Full \in Allocations /\ RollbackShare \in Allocations
    BY DEF GuardWorkload, Allocations
  <2>2. g \in Guard
    BY <2>1, GuardStart DEF NoGuard, Guard, Verdicts
  <2>. QED BY <2>2, GuardStart DEF GuardInit
<1>3. evaluation \in [Evaluators -> Evaluation] /\ \A e \in Evaluators : evaluation[e] = Idle
  BY GuardStart DEF GuardInit
<1>. QED BY <1>1, <1>2, <1>3, GuardStart DEF GuardInv, GuardTypeOK, Judged, Writes

\* The inductive invariant of the guards: types; a judgement under way is one
\* more revision than what it judged, and one about to be written is no raise
\* of the row its transaction holds, or a first guard.
THEOREM GuardInvariant == ASSUME GuardWorkload PROVE GuardSpec => []GuardInv
<1>1. GuardInit => GuardInv
  BY GuardInitHolds
<1>2. GuardInv /\ [GuardNext]_guardVars => GuardInv'
  <2> SUFFICES ASSUME GuardInv, [GuardNext]_guardVars PROVE GuardInv'
    OBVIOUS
  <2>1. CASE UNCHANGED guardVars
    BY <2>1 DEF guardVars, GuardInv, GuardTypeOK, Writes
  <2>2. ASSUME NEW e \in Evaluators,
               \/ AcquireLease(e) \/ RebuildWindow(e) \/ ReadInputs(e) \/ Judge(e)
               \/ Conflict(e) \/ LoadGuards(e) \/ PublishGuards(e)
        PROVE  GuardInv'
    BY <2>2, CycleSteps
  <2>3. ASSUME NEW e \in Evaluators, BeginApply(e) \/ WriteGuard(e) \/ CycleDies(e) PROVE GuardInv'
    BY <2>3, ApplySteps
  <2>4. CASE LeaseExpires \/ ChangeGrant \/ OperatorGuard \/ GuardLapses
    BY <2>4, OtherGuardSteps
  <2>. QED BY <2>1, <2>2, <2>3, <2>4 DEF GuardNext
<1>. QED BY <1>1, <1>2, PTL DEF GuardSpec

\* Once a tuple has a guard, only an operator raises its cap, however evidence
\* cycles overlap, outlive their lease and die, and however the grant changes.
THEOREM OnlyOperatorsRaiseGuards == ASSUME GuardWorkload PROVE GuardSpec => OnlyOperatorsRaise
<1>1. GuardInv /\ [GuardNext]_guardVars => [RaisedByOperator]_guardVars
  <2> SUFFICES ASSUME GuardInv, GuardNext, guard.revision # 0, guard'.cap > guard.cap
               PROVE  guard'.by = "operator" \/ guard'.revision = 1
    BY DEF RaisedByOperator
  <2>1. guard \in Guard /\ guard.cap \in Nat
    BY GuardFields DEF GuardInv, GuardTypeOK
  <2>2. CASE \E e \in Evaluators : WriteGuard(e)
    <3>1. PICK e \in Evaluators : WriteGuard(e)
      BY <2>2
    <3>2. /\ guard' = evaluation[e].next /\ evaluation[e].phase = "write" /\ locked \in {NoOne, e}
          /\ evaluation[e] \in Evaluation /\ Writes(e)
      BY <3>1 DEF WriteGuard, In, GuardInv, GuardTypeOK
    <3>3. evaluation[e].next.cap \in Nat
      BY <3>2, EvaluationFields, GuardFields
    <3>4. locked # e
      BY <2>1, <3>2, <3>3 DEF Writes
    <3>. QED BY <3>2, <3>4 DEF Writes
  <2>3. CASE OperatorGuard
    <3>1. PICK n \in 0 .. grant.allocation :
            guard' = [guard EXCEPT !.revision = @ + 1, !.cap = n, !.healthy = n,
                                   !.lapsed = FALSE, !.by = "operator"]
      BY <2>3 DEF OperatorGuard
    <3>. QED BY <2>1, <3>1 DEF Guard
  <2>4. CASE GuardLapses
    <3>1. guard'.cap = guard.cap
      BY <2>1, <2>4 DEF GuardLapses, Guard
    <3>. QED BY <2>1, <3>1
  <2>5. CASE UNCHANGED guard
    BY <2>1, <2>5
  <2>6. ASSUME NEW e \in Evaluators,
               \/ AcquireLease(e) \/ RebuildWindow(e) \/ ReadInputs(e) \/ Judge(e) \/ BeginApply(e)
               \/ Conflict(e) \/ LoadGuards(e) \/ PublishGuards(e) \/ CycleDies(e)
        PROVE  UNCHANGED guard
    BY <2>6 DEF AcquireLease, RebuildWindow, ReadInputs, Judge, BeginApply, Conflict, LoadGuards,
                PublishGuards, CycleDies
  <2>7. CASE LeaseExpires \/ ChangeGrant
    BY <2>5, <2>7 DEF LeaseExpires, ChangeGrant
  <2>. QED BY <2>2, <2>3, <2>4, <2>5, <2>6, <2>7 DEF GuardNext
<1>. QED BY <1>1, GuardInvariant, PTL DEF GuardSpec, OnlyOperatorsRaise

---------------------------------------------------------------------------
(* The calibration.  A sealed summary does not move until its time is      *)
(* over, and no cycle comes back to its day then: what a proposal cites    *)
(* stands or has lapsed, when it is locked and after.                      *)

\* A cited day is the sealed one its owner saw, or its time is over.
CitedStands(p, i) ==
  LET d == p.days[i]
  IN \/ /\ Sealed(d) /\ evidence[d].revision = p.revisions[i] /\ evidence[d].samples = p.samples[i]
     \/ evidence[d].completeness = "none" /\ Lapsed(d)

\* What a proposal, and the policy that was locked from it, rest on.
RestsOnDays(p) ==
  /\ \A i \in Places : p.days[i] \in p.window[1] .. p.window[2] /\ CitedStands(p, i)
  /\ p.found # {} => p.found = DaysOf(p.days) \/ \E i \in Places : Lapsed(p.days[i])
  /\ p.status = "proposed" => p.found = {}

SomePolicy == \E n \in Numbers : HasPolicy(n)

CalibrationInv ==
  /\ CalibrationTypeOK
  /\ \A n \in Made : RestsOnDays(proposals[n])
  /\ qualified.stage >= Limited => SomePolicy
  /\ \A r \in Reviews : review[r].phase = "checked" /\ review[r].target >= Limited => SomePolicy

LEMMA CalibrationFields ==
  ASSUME CalibrationInv
  PROVE  /\ today \in FirstDay .. LastDay
         /\ observed \in [Days -> SourceRows] /\ evidence \in [Days -> DailyEvidence]
         /\ proposals \in [Numbers -> Proposal \cup {NoProposal}]
         /\ qualified \in Qualification
         /\ qualified.stage \in Stages /\ qualified.revision \in 0 .. ReviewBound /\ qualified.paused \in BOOLEAN
         /\ review \in [Reviews -> Command]
BY DEF CalibrationInv, CalibrationTypeOK, Qualification

LEMMA DayFields ==
  ASSUME CalibrationInv, NEW d \in Days
  PROVE  /\ evidence[d].completeness \in {"none", "open", "complete", "sealed"} /\ evidence[d].revision \in Nat
         /\ evidence[d].samples \in Nat /\ evidence[d].late \in Nat
         /\ observed[d].all \in Nat /\ observed[d].late \in Nat
BY CalibrationFields DEF DailyEvidence, SourceRows

LEMMA SummaryFields ==
  ASSUME NEW completeness \in {"none", "open", "complete", "sealed"},
         NEW revision \in Nat, NEW samples \in Nat, NEW late \in Nat
  PROVE  LET s == Summary(completeness, revision, samples, late)
         IN  /\ s \in DailyEvidence /\ s.completeness = completeness
             /\ s.revision = revision /\ s.samples = samples
BY DEF Summary, DailyEvidence

LEMMA CommandFields ==
  ASSUME NEW c \in Command
  PROVE  /\ c.phase \in {"new", "checked"} /\ c.kind \in {"approve", "hold", "lock"}
         /\ c.target \in Stages /\ c.expected \in 0 .. ReviewBound - 1
BY DEF Command

LEMMA ProposalFields ==
  ASSUME NEW p \in Proposal
  PROVE  /\ p.status \in {"proposed", "locked", "rejected"} /\ p.window \in Days \X Days
         /\ p.days \in Triples /\ p.revisions \in [Places -> Nat] /\ p.samples \in [Places -> Nat]
         /\ p.found \in SUBSET Days /\ p.live \in BOOLEAN
BY DEF Proposal

LEMMA MadeIsProposal ==
  ASSUME CalibrationInv, NEW n \in Numbers
  PROVE  /\ n \in Made => proposals[n] \in Proposal
         /\ n \notin Made => proposals[n] = NoProposal
         /\ HasPolicy(n) => n \in Made
<1>1. proposals[n] \in Proposal \/ proposals[n] = NoProposal
  BY CalibrationFields
<1>2. proposals[n] \in Proposal => n \in Made
  BY ProposalFields DEF Made
<1>3. proposals[n] = NoProposal => n \notin Made /\ ~HasPolicy(n)
  BY DEF Made, HasPolicy, NoProposal
<1>. QED BY <1>1, <1>2, <1>3

LEMMA TripleDays ==
  ASSUME NEW t \in Triples
  PROVE  /\ \A i \in Places : t[i] \in Days
         /\ t[1] \in Days /\ t[2] \in Days /\ t[3] \in Days /\ t[1] < t[2] /\ t[2] < t[3]
         /\ DaysOf(t) # {} /\ DaysOf(t) \subseteq Days
<1>1. 1 \in Places /\ 2 \in Places /\ 3 \in Places
  BY DEF Places
<1>2. t \in [Places -> Days] /\ t[1] < t[2] /\ t[2] < t[3]
  BY DEF Triples
<1>. QED BY <1>1, <1>2 DEF DaysOf

\* Of two triples of days one has the days of the other only if both have.
LEMMA SameTriple ==
  ASSUME NEW s \in Triples, NEW t \in Triples, DaysOf(s) \subseteq DaysOf(t)
  PROVE  DaysOf(s) = DaysOf(t)
<1>1. /\ s[1] \in Int /\ s[2] \in Int /\ s[3] \in Int /\ s[1] < s[2] /\ s[2] < s[3]
      /\ t[1] \in Int /\ t[2] \in Int /\ t[3] \in Int /\ t[1] < t[2] /\ t[2] < t[3]
  BY TripleDays DEF Days
<1>2. /\ s[1] \in {t[1], t[2], t[3]} /\ s[2] \in {t[1], t[2], t[3]} /\ s[3] \in {t[1], t[2], t[3]}
  BY DEF DaysOf
<1>3. s[1] = t[1] /\ s[2] = t[2] /\ s[3] = t[3]
  BY <1>1, <1>2
<1>. QED BY <1>3 DEF DaysOf

\* What a step may do to the days: a sealed summary stays or lapses, and what
\* is gone does not come back.
DaysGoOn ==
  \A d \in Days :
    /\ Lapsed(d) => Lapsed(d)'
    /\ Sealed(d) => \/ /\ Sealed(d)' /\ evidence'[d].revision = evidence[d].revision
                       /\ evidence'[d].samples = evidence[d].samples
                    \/ evidence'[d].completeness = "none" /\ Lapsed(d)'
    /\ evidence[d].completeness = "none" /\ Lapsed(d) => evidence'[d].completeness = "none"

LEMMA RestsOn ==
  ASSUME NEW p \in Proposal, RestsOnDays(p), DaysGoOn
  PROVE  RestsOnDays(p)'
<1>1. \A i \in Places : p.days[i] \in Days
  BY ProposalFields, TripleDays
<1>2. ASSUME NEW i \in Places
      PROVE  CitedStands(p, i)' /\ (Lapsed(p.days[i]) => Lapsed(p.days[i])')
  BY <1>1 DEF RestsOnDays, CitedStands, DaysGoOn
<1>. QED BY <1>2 DEF RestsOnDays

\* Steps that leave proposals and requests alone.
LEMMA DaySteps ==
  ASSUME CalibrationInv, DaysGoOn, UNCHANGED <<proposals, qualified, review>>,
         today' \in FirstDay .. LastDay, observed' \in [Days -> SourceRows],
         evidence' \in [Days -> DailyEvidence]
  PROVE  CalibrationInv'
<1>1. ASSUME NEW n \in Made PROVE RestsOnDays(proposals[n])'
  <2>1. n \in Numbers
    BY DEF Made
  <2>2. RestsOnDays(proposals[n]) /\ proposals[n] \in Proposal
    BY <2>1, MadeIsProposal DEF CalibrationInv
  <2>3. LET p == proposals[n] IN RestsOnDays(p)'
    BY <2>2, RestsOn
  <2>. QED BY <2>3 DEF RestsOnDays, CitedStands
<1>2. Made' = Made /\ SomePolicy' = SomePolicy
  BY DEF Made, SomePolicy, HasPolicy
<1>. QED BY <1>1, <1>2 DEF CalibrationInv, CalibrationTypeOK

LEMMA WorldSteps ==
  ASSUME CalibrationWorkload, CalibrationInv, NextDay \/ \E d \in Days : RecordOutcome(d)
  PROVE  CalibrationInv'
<1>1. CASE NextDay
  <2>1. today \in FirstDay .. LastDay /\ today < LastDay /\ today' = today + 1
        /\ UNCHANGED <<observed, evidence, proposals, qualified, review>>
    BY <1>1, CalibrationFields DEF NextDay
  <2>2. today' \in FirstDay .. LastDay
    BY <2>1 DEF CalibrationWorkload
  <2>3. \A d \in Days : Lapsed(d) => Lapsed(d)'
    BY <2>1 DEF Lapsed, CalibrationWorkload, Days
  <2>4. DaysGoOn
    BY <2>1, <2>3 DEF DaysGoOn, Sealed
  <2>. QED BY <2>1, <2>2, <2>4, CalibrationFields, DaySteps
<1>2. ASSUME NEW d \in Days, RecordOutcome(d) PROVE CalibrationInv'
  <2> DEFINE s == [all |-> observed[d].all + 1,
                   late |-> IF Completeness(d, today) = "sealed" THEN observed[d].late + 1 ELSE observed[d].late]
  <2>1. s \in SourceRows
    BY DayFields DEF SourceRows
  <2>2. observed' = [observed EXCEPT ![d] = s]
        /\ UNCHANGED <<today, evidence, proposals, qualified, review>>
    BY <1>2 DEF RecordOutcome
  <2> HIDE DEF s
  <2>3. DaysGoOn
    BY <2>2 DEF DaysGoOn, Sealed, Lapsed
  <2>. QED BY <2>1, <2>2, <2>3, CalibrationFields, DaySteps
<1>. QED BY <1>1, <1>2

\* A rebuild leaves a sealed summary as it is, but for what came late, and
\* does not go back to a day whose time is over.
LEMMA RebuildSteps ==
  ASSUME CalibrationWorkload, CalibrationInv, NEW d \in Days, NEW cycle \in {today - 1, today} \cap Days,
         RebuildUtcDay(d, cycle)
  PROVE  CalibrationInv'
<1>0. UNCHANGED <<today, observed, proposals, qualified, review>>
  BY DEF RebuildUtcDay
<1>1. PICK s \in DailyEvidence :
        /\ evidence' = [evidence EXCEPT ![d] = s]
        /\ Sealed(d) => /\ s.completeness = "sealed" /\ s.revision = evidence[d].revision
                        /\ s.samples = evidence[d].samples
  <2>1. CASE Sealed(d)
    <3> DEFINE s == Summary(evidence[d].completeness, evidence[d].revision, evidence[d].samples, observed[d].late)
    <3>1. evidence' = [evidence EXCEPT ![d] = s]
      BY <2>1 DEF RebuildUtcDay, Excluded
    <3>2. s \in DailyEvidence /\ s.revision = evidence[d].revision /\ s.samples = evidence[d].samples
          /\ s.completeness = evidence[d].completeness
      <4>1. /\ evidence[d].completeness \in {"none", "open", "complete", "sealed"}
            /\ evidence[d].revision \in Nat /\ evidence[d].samples \in Nat /\ observed[d].late \in Nat
        BY DayFields
      <4>. QED BY <4>1 DEF Summary, DailyEvidence
    <3> HIDE DEF s
    <3>. QED BY <2>1, <3>1, <3>2 DEF Sealed
  <2>2. CASE ~Sealed(d)
    <3> DEFINE s == Summary(Completeness(d, cycle), evidence[d].revision + 1, observed[d].all, evidence[d].late)
    <3>1. evidence' = [evidence EXCEPT ![d] = s]
      BY <2>2 DEF RebuildUtcDay, Excluded
    <3>2. Completeness(d, cycle) \in {"none", "open", "complete", "sealed"}
      BY DEF Completeness
    <3>3. evidence[d].revision + 1 \in Nat
      BY DayFields
    <3>4. s \in DailyEvidence
      BY <3>2, <3>3, DayFields, SummaryFields
    <3> HIDE DEF s
    <3>. QED BY <2>2, <3>1, <3>4
  <2>. QED BY <2>1, <2>2
<1>2. /\ evidence' \in [Days -> DailyEvidence] /\ evidence'[d] = s
      /\ \A e \in Days \ {d} : evidence'[e] = evidence[e]
  BY <1>1, CalibrationFields
<1>3. ~Lapsed(d)
  <2>1. /\ d \in Int /\ today \in Int /\ cycle \in Int /\ RebuildDays \in Int /\ Retention \in Int
        /\ Retention > RebuildDays
    BY CalibrationFields DEF Days, CalibrationWorkload
  <2>2. d \in cycle - RebuildDays + 1 .. cycle /\ (cycle = today - 1 \/ cycle = today)
    BY DEF RebuildUtcDay
  <2>. QED BY <2>1, <2>2 DEF Lapsed
<1>4. DaysGoOn
  BY <1>0, <1>1, <1>2, <1>3 DEF DaysGoOn, Sealed, Lapsed
<1>. QED BY <1>0, <1>2, <1>4, CalibrationFields, DaySteps

LEMMA RemoveSteps ==
  ASSUME CalibrationInv, NEW d \in Days, RemoveEvidence(d)
  PROVE  CalibrationInv'
<1>1. /\ Lapsed(d) /\ evidence' = [evidence EXCEPT ![d] = NoSummary]
      /\ UNCHANGED <<today, observed, proposals, qualified, review>>
  BY DEF RemoveEvidence
<1>2. NoSummary \in DailyEvidence /\ NoSummary.completeness = "none"
  BY SummaryFields DEF NoSummary
<1>3. /\ evidence' \in [Days -> DailyEvidence] /\ evidence'[d] = NoSummary
      /\ \A e \in Days \ {d} : evidence'[e] = evidence[e]
  BY <1>1, <1>2, CalibrationFields
<1>4. DaysGoOn
  BY <1>1, <1>2, <1>3 DEF DaysGoOn, Sealed, Lapsed
<1>. QED BY <1>1, <1>3, <1>4, CalibrationFields, DaySteps

\* Steps that change a proposal, and perhaps the qualification and a request.
LEMMA ProposalMoves ==
  ASSUME CalibrationInv, NEW n \in Numbers, NEW p \in Proposal, RestsOnDays(p),
         proposals' = [proposals EXCEPT ![n] = p], UNCHANGED <<today, observed, evidence>>,
         HasPolicy(n) => p.found # {},
         qualified' \in Qualification, review' \in [Reviews -> Command],
         qualified'.stage >= Limited => SomePolicy,
         \A r \in Reviews : review'[r].phase = "checked" /\ review'[r].target >= Limited => SomePolicy
  PROVE  CalibrationInv'
<1>1. /\ proposals' \in [Numbers -> Proposal \cup {NoProposal}] /\ proposals'[n] = p
      /\ \A m \in Numbers \ {n} : proposals'[m] = proposals[m]
  BY CalibrationFields
<1>2. SomePolicy => SomePolicy'
  <2>1. SUFFICES ASSUME NEW m \in Numbers, HasPolicy(m) PROVE HasPolicy(m)'
    BY DEF SomePolicy
  <2>. QED BY <1>1, <2>1 DEF HasPolicy
<1>3. ASSUME NEW m \in Made' PROVE RestsOnDays(proposals[m])'
  <2>1. CASE m = n
    BY <1>1, <2>1 DEF RestsOnDays, CitedStands, Sealed, Lapsed
  <2>2. CASE m # n
    <3>1. m \in Numbers /\ proposals'[m] = proposals[m] /\ m \in Made
      BY <1>1, <1>3, <2>2 DEF Made
    <3>2. RestsOnDays(proposals[m])
      BY <3>1 DEF CalibrationInv
    <3>. QED BY <3>1, <3>2 DEF RestsOnDays, CitedStands, Sealed, Lapsed
  <2>. QED BY <2>1, <2>2
<1>. QED BY <1>1, <1>2, <1>3 DEF CalibrationInv, CalibrationTypeOK

\* A proposal cites three sealed days as they are.
LEMMA ProposalSteps ==
  ASSUME CalibrationWorkload, CalibrationInv, NEW n \in Numbers, CreateCalibrationProposal(n)
  PROVE  CalibrationInv'
<1>1. PICK w \in Windows, t \in Triples :
        /\ SealedDays(t, w)
        /\ proposals' = [proposals EXCEPT ![n] =
             [status |-> "proposed", window |-> w, days |-> t, revisions |-> Revisions(t),
              samples |-> Samples(t), found |-> {}, live |-> FALSE]]
  BY DEF CreateCalibrationProposal
<1> DEFINE p == [status |-> "proposed", window |-> w, days |-> t, revisions |-> Revisions(t),
                 samples |-> Samples(t), found |-> {}, live |-> FALSE]
<1>2. n \notin Made /\ UNCHANGED <<today, observed, evidence, qualified, review>>
  BY DEF CreateCalibrationProposal
<1>3. Revisions(t) \in [Places -> Nat] /\ Samples(t) \in [Places -> Nat]
      /\ \A i \in Places : Revisions(t)[i] = evidence[t[i]].revision /\ Samples(t)[i] = evidence[t[i]].samples
  BY TripleDays, DayFields DEF Revisions, Samples
<1>4. /\ p \in Proposal /\ p.status = "proposed" /\ p.window = w /\ p.days = t
      /\ p.revisions = Revisions(t) /\ p.samples = Samples(t) /\ p.found = {}
  <2>1. w \in Days \X Days /\ {} \in SUBSET Days /\ FALSE \in BOOLEAN
    BY DEF CalibrationWorkload
  <2>. QED BY <1>3, <2>1 DEF Proposal
<1>5. proposals' = [proposals EXCEPT ![n] = p]
  BY <1>1
<1> HIDE DEF p
<1>6. \A i \in Places : Sealed(t[i]) /\ t[i] \in w[1] .. w[2]
  <2>1. \A i \in Places : t[i] \in DaysOf(t)
    BY DEF Places, DaysOf
  <2>. QED BY <1>1, <2>1 DEF SealedDays, VisibleIn
<1>7. RestsOnDays(p)
  BY <1>3, <1>4, <1>6 DEF RestsOnDays, CitedStands
<1>8. ~HasPolicy(n)
  BY <1>2, MadeIsProposal
<1>. QED BY <1>2, <1>4, <1>5, <1>7, <1>8, ProposalMoves, CalibrationFields DEF CalibrationInv

\* A decision keeps what a proposal cites.
LEMMA DecidedFields ==
  ASSUME CalibrationInv, NEW n \in Made, NEW status \in {"proposed", "locked", "rejected"},
         NEW found \in SUBSET Days, NEW live \in BOOLEAN
  PROVE  LET o == proposals[n]
             p == [status |-> status, window |-> o.window, days |-> o.days, revisions |-> o.revisions,
                   samples |-> o.samples, found |-> found, live |-> live]
         IN  /\ p \in Proposal /\ p.status = status /\ p.found = found /\ p.days = o.days
             /\ (/\ found # {} => found = DaysOf(o.days) \/ \E i \in Places : Lapsed(o.days[i])
                 /\ status = "proposed" => found = {}) => RestsOnDays(p)
<1> DEFINE o == proposals[n]
           p == [status |-> status, window |-> o.window, days |-> o.days, revisions |-> o.revisions,
                 samples |-> o.samples, found |-> found, live |-> live]
<1>1. o \in Proposal /\ RestsOnDays(o)
  <2>1. n \in Numbers
    BY DEF Made
  <2>. QED BY <2>1, MadeIsProposal DEF CalibrationInv
<1> HIDE DEF o
<1>2. /\ p \in Proposal /\ p.status = status /\ p.found = found /\ p.days = o.days /\ p.window = o.window
      /\ p.revisions = o.revisions /\ p.samples = o.samples
  BY <1>1, ProposalFields DEF Proposal
<1> HIDE DEF p
<1>3. (/\ found # {} => found = DaysOf(o.days) \/ \E i \in Places : Lapsed(o.days[i])
       /\ status = "proposed" => found = {}) => RestsOnDays(p)
  BY <1>1, <1>2 DEF RestsOnDays, CitedStands
<1>. QED BY <1>2, <1>3 DEF p, o

\* A proposal is reviewed, or a policy ends.
LEMMA EndingSteps ==
  ASSUME CalibrationInv, NEW n \in Numbers, ReviewCalibrationProposal(n) \/ PolicyExpires(n)
  PROVE  CalibrationInv'
<1>1. CASE ReviewCalibrationProposal(n)
  <2>1. PICK status \in {"locked", "rejected"} :
          /\ proposals[n].status = "proposed" /\ proposals' = [proposals EXCEPT ![n] = Decided(n, status, {})]
          /\ UNCHANGED <<today, observed, evidence, qualified, review>>
    BY <1>1 DEF ReviewCalibrationProposal
  <2>2. n \in Made
    BY <2>1 DEF Made
  <2>3. ~HasPolicy(n)
    BY <2>1, <2>2 DEF CalibrationInv, RestsOnDays, HasPolicy
  <2> DEFINE o == proposals[n]
             p == [status |-> status, window |-> o.window, days |-> o.days, revisions |-> o.revisions,
                   samples |-> o.samples, found |-> {}, live |-> {} # {}]
  <2>4. {} \in SUBSET Days /\ ({} # {}) \in BOOLEAN /\ status \in {"proposed", "locked", "rejected"}
    OBVIOUS
  <2>5. p \in Proposal /\ RestsOnDays(p)
    BY <2>1, <2>2, <2>4, DecidedFields
  <2>6. proposals' = [proposals EXCEPT ![n] = p]
    BY <2>1 DEF Decided
  <2> HIDE DEF p
  <2>. QED BY <2>1, <2>3, <2>5, <2>6, ProposalMoves, CalibrationFields DEF CalibrationInv
<1>2. CASE PolicyExpires(n)
  <2> DEFINE o == proposals[n]
             p == [status |-> o.status, window |-> o.window, days |-> o.days, revisions |-> o.revisions,
                   samples |-> o.samples, found |-> o.found, live |-> FALSE]
  <2>1. o.live /\ proposals' = [proposals EXCEPT ![n] = p]
        /\ UNCHANGED <<today, observed, evidence, qualified, review>>
    BY <1>2 DEF PolicyExpires
  <2>2. n \in Made
    <3>1. proposals[n] # NoProposal
      BY <2>1 DEF NoProposal
    <3>. QED BY <3>1, MadeIsProposal
  <2>3. o \in Proposal /\ RestsOnDays(o) /\ FALSE \in BOOLEAN
    BY <2>2, MadeIsProposal DEF CalibrationInv
  <2>4. o.status \in {"proposed", "locked", "rejected"} /\ o.found \in SUBSET Days
    BY <2>3, ProposalFields
  <2>5. p \in Proposal /\ p.found = o.found /\ RestsOnDays(p)
    <3>1. /\ o.found # {} => o.found = DaysOf(o.days) \/ \E i \in Places : Lapsed(o.days[i])
          /\ o.status = "proposed" => o.found = {}
      BY <2>3 DEF RestsOnDays
    <3>. QED BY <2>2, <2>3, <2>4, <3>1, DecidedFields
  <2> HIDE DEF p
  <2>6. HasPolicy(n) => p.found # {}
    BY <2>5 DEF HasPolicy
  <2>. QED BY <2>1, <2>5, <2>6, ProposalMoves, CalibrationFields DEF CalibrationInv
<1>. QED BY <1>1, <1>2

LEMMA NewReviewIsNew ==
  ASSUME CalibrationWorkload
  PROVE  NewReview \in Command /\ NewReview.phase = "new"
<1>1. 0 \in Stages /\ 0 \in 0 .. ReviewBound - 1 /\ 0 \in 0 .. ProposalBound
  BY DEF Stages, CalibrationWorkload
<1>. QED BY <1>1 DEF NewReview, Command

\* Steps that change what a request is doing, and perhaps the qualification.
LEMMA RequestMoves ==
  ASSUME CalibrationInv, NEW r \in Reviews, NEW c \in Command,
         c.phase = "checked" /\ c.target >= Limited => SomePolicy,
         review' = [review EXCEPT ![r] = c], UNCHANGED <<today, observed, evidence, proposals>>,
         qualified' \in Qualification, qualified'.stage >= Limited => SomePolicy
  PROVE  CalibrationInv'
<1>1. review' \in [Reviews -> Command] /\ review'[r] = c /\ \A x \in Reviews \ {r} : review'[x] = review[x]
  BY CalibrationFields
<1>2. CalibrationTypeOK'
  BY <1>1 DEF CalibrationInv, CalibrationTypeOK
<1>3. \A n \in Made' : RestsOnDays(proposals[n])'
  BY DEF CalibrationInv, Made, RestsOnDays, CitedStands, Sealed, Lapsed
<1>4. SomePolicy' = SomePolicy
  BY DEF SomePolicy, HasPolicy
<1>5. \A x \in Reviews : review'[x].phase = "checked" /\ review'[x].target >= Limited => SomePolicy
  BY <1>1 DEF CalibrationInv
<1>. QED BY <1>2, <1>3, <1>4, <1>5 DEF CalibrationInv

\* What is checked rests on a policy, where it has to.
LEMMA CheckSteps ==
  ASSUME CalibrationWorkload, CalibrationInv, NEW r \in Reviews,
         CheckReview(r) \/ CheckLock(r) \/ RefuseCommand(r)
  PROVE  CalibrationInv'
<1>0. /\ qualified \in Qualification /\ qualified.revision \in 0 .. ReviewBound
      /\ qualified.stage >= Limited => SomePolicy
  BY CalibrationFields DEF CalibrationInv
<1>1. CASE CheckReview(r)
  <2>1. PICK kind \in {"approve", "hold"}, target \in Stages :
          /\ kind = "hold" => Keeps(target)
          /\ kind = "approve" => Prerequisites(target)
          /\ review' = [review EXCEPT ![r] = [phase |-> "checked", kind |-> kind, target |-> target,
                                              expected |-> qualified.revision, proposal |-> 0]]
          /\ UNCHANGED <<today, observed, evidence, proposals, qualified>>
    BY <1>1 DEF CheckReview
  <2> DEFINE c == [phase |-> "checked", kind |-> kind, target |-> target,
                   expected |-> qualified.revision, proposal |-> 0]
  <2>2. c \in Command /\ c.target = target
    <3>1. 0 \in 0 .. ProposalBound
      BY DEF CalibrationWorkload
    <3>2. qualified.revision \in 0 .. ReviewBound - 1
      BY <1>0, <1>1 DEF CheckReview, CalibrationWorkload
    <3>. QED BY <3>1, <3>2 DEF Command
  <2>3. target >= Limited => SomePolicy
    <3>1. CASE kind = "hold"
      BY <1>0, <2>1, <3>1 DEF Keeps
    <3>2. CASE kind = "approve"
      BY <2>1, <3>2 DEF Prerequisites, PolicyLocked, SomePolicy
    <3>. QED BY <3>1, <3>2
  <2>4. review' = [review EXCEPT ![r] = c]
    BY <2>1
  <2> HIDE DEF c
  <2>. QED BY <1>0, <2>1, <2>2, <2>3, <2>4, RequestMoves
<1>2. CASE CheckLock(r)
  <2>1. PICK n \in Numbers :
          review' = [review EXCEPT ![r] = [phase |-> "checked", kind |-> "lock", target |-> 0,
                                           expected |-> qualified.revision, proposal |-> n]]
    BY <1>2 DEF CheckLock
  <2> DEFINE c == [phase |-> "checked", kind |-> "lock", target |-> 0,
                   expected |-> qualified.revision, proposal |-> n]
  <2>2. c \in Command /\ c.target = 0
    <3>1. n \in 0 .. ProposalBound /\ 0 \in Stages
      BY DEF Numbers, Stages, CalibrationWorkload
    <3>2. qualified.revision \in 0 .. ReviewBound - 1
      BY <1>0, <1>2 DEF CheckLock, CalibrationWorkload
    <3>. QED BY <3>1, <3>2 DEF Command
  <2>3. ~(c.target >= Limited)
    BY <2>2 DEF Limited
  <2>4. review' = [review EXCEPT ![r] = c] /\ UNCHANGED <<today, observed, evidence, proposals, qualified>>
    BY <1>2, <2>1 DEF CheckLock
  <2> HIDE DEF c
  <2>. QED BY <1>0, <2>2, <2>3, <2>4, RequestMoves
<1>3. CASE RefuseCommand(r)
  <2>1. review' = [review EXCEPT ![r] = NewReview]
        /\ UNCHANGED <<today, observed, evidence, proposals, qualified>>
    BY <1>3 DEF RefuseCommand, Answer
  <2>. QED BY <1>0, <2>1, NewReviewIsNew, RequestMoves
<1>. QED BY <1>1, <1>2, <1>3

\* A command that may go on leaves the qualification within the bound.
LEMMA NextRevision ==
  ASSUME CalibrationWorkload, CalibrationInv, NEW r \in Reviews, Passed(review[r])
  PROVE  /\ review[r] \in Command /\ review[r].target \in Stages
         /\ review[r].phase = "checked" /\ review[r].expected + 1 \in 0 .. ReviewBound
<1>1. review[r] \in Command /\ review[r].phase = "checked"
  BY CalibrationFields DEF Passed
<1>2. review[r].target \in Stages /\ review[r].expected \in 0 .. ReviewBound - 1
  BY <1>1, CommandFields
<1>. QED BY <1>1, <1>2 DEF CalibrationWorkload

LEMMA CommitReviewStep ==
  ASSUME CalibrationWorkload, CalibrationInv, NEW r \in Reviews, CommitReview(r)
  PROVE  CalibrationInv'
<1> DEFINE c == review[r]
           q == [stage |-> c.target, revision |-> c.expected + 1, paused |-> c.kind # "approve"]
<1>1. /\ Passed(c) /\ qualified' = q /\ review' = [review EXCEPT ![r] = NewReview]
      /\ UNCHANGED <<today, observed, evidence, proposals>>
  BY DEF CommitReview, Answer
<1>2. c.target \in Stages /\ c.phase = "checked" /\ c.expected + 1 \in 0 .. ReviewBound
  BY <1>1, NextRevision
<1>3. c.target >= Limited => SomePolicy
  BY <1>2 DEF CalibrationInv
<1> HIDE DEF c
<1>4. q \in Qualification /\ q.stage = c.target
  BY <1>2 DEF Qualification
<1> HIDE DEF q
<1>. QED BY <1>1, <1>3, <1>4, NewReviewIsNew, RequestMoves

\* The three days that a lock finds are those that were proposed, as long as
\* these are there.
LEMMA FoundDays ==
  ASSUME CalibrationInv, NEW n \in Made, NEW t \in Triples, SealedDays(t, proposals[n].window)
  PROVE  DaysOf(t) = DaysOf(proposals[n].days) \/ \E i \in Places : Lapsed(proposals[n].days[i])
<1> DEFINE p == proposals[n]
<1>1. p \in Proposal /\ RestsOnDays(p)
  <2>1. n \in Numbers
    BY DEF Made
  <2>. QED BY <2>1, MadeIsProposal DEF CalibrationInv
<1>2. SUFFICES ASSUME \A i \in Places : ~Lapsed(p.days[i]) PROVE DaysOf(t) = DaysOf(p.days)
  OBVIOUS
<1>3. p.days \in Triples
  BY <1>1, ProposalFields
<1>4. ASSUME NEW i \in Places PROVE p.days[i] \in DaysOf(t)
  <2>1. p.days[i] \in Days /\ p.days[i] \in p.window[1] .. p.window[2] /\ Sealed(p.days[i])
    BY <1>1, <1>2, <1>3, TripleDays DEF RestsOnDays, CitedStands
  <2>2. p.days[i] \in Visible
    BY <1>2, <2>1 DEF Visible, Sealed
  <2>. QED BY <2>1, <2>2 DEF SealedDays, VisibleIn
<1>5. DaysOf(p.days) \subseteq DaysOf(t)
  <2>1. 1 \in Places /\ 2 \in Places /\ 3 \in Places
    BY DEF Places
  <2>2. p.days[1] \in DaysOf(t) /\ p.days[2] \in DaysOf(t) /\ p.days[3] \in DaysOf(t)
    BY <1>4, <2>1
  <2>3. DaysOf(p.days) = {p.days[1], p.days[2], p.days[3]}
    BY DEF DaysOf
  <2>. QED BY <2>2, <2>3
<1>. QED BY <1>3, <1>5, SameTriple

LEMMA CommitLockStep ==
  ASSUME CalibrationWorkload, CalibrationInv, NEW r \in Reviews, CommitLock(r)
  PROVE  CalibrationInv'
<1> DEFINE c == review[r]
           n == c.proposal
           o == proposals[n]
<1>1. /\ Passed(c) /\ n \in Numbers /\ o.status = "proposed"
      /\ review' = [review EXCEPT ![r] = NewReview] /\ UNCHANGED <<today, observed, evidence>>
  BY DEF CommitLock, Answer
<1>2. PICK t \in Triples :
        /\ SealedDays(t, o.window) /\ proposals' = [proposals EXCEPT ![n] = Decided(n, "locked", DaysOf(t))]
  BY DEF CommitLock
<1> DEFINE stage == IF qualified.revision = 0 THEN Internal ELSE qualified.stage
           paused == qualified.revision = 0 \/ qualified.paused
           q == [stage |-> stage, revision |-> c.expected + 1, paused |-> paused]
<1>3. qualified' = q
  BY DEF CommitLock
<1>4. c.expected + 1 \in 0 .. ReviewBound
  BY <1>1, NextRevision
<1>5. stage \in Stages /\ (stage >= Limited => SomePolicy) /\ paused \in BOOLEAN
  <2>1. Internal \in Stages /\ ~(Internal >= Limited)
    BY DEF Internal, Stages, Limited
  <2>. QED BY <2>1, CalibrationFields DEF CalibrationInv
<1> HIDE DEF c, n, stage, paused
<1>6. q \in Qualification /\ q.stage = stage
  BY <1>4, <1>5 DEF Qualification
<1> HIDE DEF q
<1>7. n \in Made
  BY <1>1 DEF Made
<1> DEFINE p == [status |-> "locked", window |-> o.window, days |-> o.days, revisions |-> o.revisions,
                 samples |-> o.samples, found |-> DaysOf(t), live |-> DaysOf(t) # {}]
<1>8. p \in Proposal /\ RestsOnDays(p) /\ p.found = DaysOf(t)
  <2>1. DaysOf(t) = DaysOf(o.days) \/ \E i \in Places : Lapsed(o.days[i])
    BY <1>2, <1>7, FoundDays
  <2>2. DaysOf(t) \in SUBSET Days /\ (DaysOf(t) # {}) \in BOOLEAN
        /\ "locked" \in {"proposed", "locked", "rejected"}
    BY TripleDays
  <2>. QED BY <1>7, <2>1, <2>2, DecidedFields
<1>9. proposals' = [proposals EXCEPT ![n] = p]
  BY <1>2 DEF Decided
<1> HIDE DEF p
<1>10. HasPolicy(n) => p.found # {}
  BY <1>8, TripleDays
<1>11. /\ review' \in [Reviews -> Command]
       /\ \A x \in Reviews : review'[x].phase = "checked" /\ review'[x].target >= Limited => SomePolicy
  BY <1>1, NewReviewIsNew, CalibrationFields DEF CalibrationInv
<1>. QED BY <1>1, <1>3, <1>5, <1>6, <1>8, <1>9, <1>10, <1>11, ProposalMoves

LEMMA CalibrationBegins ==
  ASSUME CalibrationWorkload, CalibrationInit
  PROVE  CalibrationInv
<1>1. observed \in [Days -> SourceRows]
  BY DEF CalibrationInit, SourceRows
<1>2. evidence \in [Days -> DailyEvidence]
  <2>1. SUFFICES ASSUME NEW d \in Days
                 PROVE  (IF d + 2 > FirstDay THEN NoSummary
                         ELSE Summary(Completeness(d, FirstDay), IF d + 3 <= FirstDay THEN 2 ELSE 1, 1, 0))
                        \in DailyEvidence
    BY DEF CalibrationInit
  <2>2. NoSummary \in DailyEvidence
    BY SummaryFields DEF NoSummary
  <2>3. Completeness(d, FirstDay) \in {"none", "open", "complete", "sealed"}
        /\ (IF d + 3 <= FirstDay THEN 2 ELSE 1) \in Nat
    BY DEF Completeness
  <2>4. Summary(Completeness(d, FirstDay), IF d + 3 <= FirstDay THEN 2 ELSE 1, 1, 0) \in DailyEvidence
    BY <2>3, SummaryFields
  <2>. QED BY <2>2, <2>4
<1>3. proposals \in [Numbers -> Proposal \cup {NoProposal}] /\ Made = {}
  BY DEF CalibrationInit, Made, NoProposal
<1>4. qualified \in Qualification /\ ~(qualified.stage >= Limited)
  <2>1. 0 \in 0 .. ReviewBound /\ Candidate \in Stages /\ ~(Candidate >= Limited)
    BY DEF CalibrationWorkload, Stages, Candidate, Limited
  <2> DEFINE q == [stage |-> Candidate, revision |-> 0, paused |-> TRUE]
  <2>2. q \in Qualification /\ q.stage = Candidate
    BY <2>1 DEF Qualification
  <2>3. qualified = q
    BY DEF CalibrationInit
  <2> HIDE DEF q
  <2>. QED BY <2>1, <2>2, <2>3
<1>5. review \in [Reviews -> Command] /\ \A r \in Reviews : review[r].phase = "new"
  BY NewReviewIsNew DEF CalibrationInit
<1>6. today \in FirstDay .. LastDay
  BY DEF CalibrationInit, CalibrationWorkload
<1>. QED BY <1>1, <1>2, <1>3, <1>4, <1>5, <1>6 DEF CalibrationInv, CalibrationTypeOK

LEMMA CalibrationSteps ==
  ASSUME CalibrationWorkload, CalibrationInv, [CalibrationNext]_calibrationVars
  PROVE  CalibrationInv'
<1>1. CASE UNCHANGED calibrationVars
  <2>1. DaysGoOn
    BY <1>1 DEF calibrationVars, DaysGoOn, Sealed, Lapsed
  <2>2. UNCHANGED <<today, observed, evidence, proposals, qualified, review>>
    BY <1>1 DEF calibrationVars
  <2>. QED BY <2>1, <2>2, CalibrationFields, DaySteps
<1>2. CASE CalibrationNext
  BY <1>2, WorldSteps, RebuildSteps, RemoveSteps, ProposalSteps, EndingSteps, CheckSteps,
     CommitReviewStep, CommitLockStep DEF CalibrationNext
<1>. QED BY <1>1, <1>2

\* In every reachable state each proposal rests on three sealed days of its
\* window that stand or have lapsed, and what is decided or about to be rests
\* on a policy where it has to.
THEOREM CalibrationInvariant ==
  ASSUME CalibrationWorkload
  PROVE  CalibrationSpec => []CalibrationInv
<1>1. CalibrationInit => CalibrationInv
  BY CalibrationBegins
<1>2. CalibrationInv /\ [CalibrationNext]_calibrationVars => CalibrationInv'
  BY CalibrationSteps
<1>. QED BY <1>1, <1>2, PTL DEF CalibrationSpec

\* Until its time is over, a day that was proposed for a calibration is the
\* sealed one its owner saw; a policy is locked on the days that its proposal
\* cites unless the time of one of them is over; and no sequence of commands,
\* lost first ones included, brings public traffic before a policy.
THEOREM CalibrationIsKept ==
  ASSUME CalibrationWorkload
  PROVE  CalibrationSpec => []CalibrationHolds
<1>1. CalibrationInv => CalibrationHolds
  <2>1. SUFFICES ASSUME CalibrationInv PROVE CalibrationHolds
    OBVIOUS
  <2>2. CalibrationStands
    BY <2>1 DEF CalibrationInv, CalibrationStands, RestsOnDays, CitedStands
  <2>3. LockedAsProposed
    BY <2>1 DEF CalibrationInv, LockedAsProposed, RestsOnDays, HasPolicy
  <2>4. TrafficIsCalibrated
    BY <2>1 DEF CalibrationInv, TrafficIsCalibrated, SomePolicy
  <2>. QED BY <2>2, <2>3, <2>4 DEF CalibrationHolds
<1>. QED BY <1>1, CalibrationInvariant, PTL

---------------------------------------------------------------------------
(* The local stack.  Until a stop ends, the lock is its holder's, so that  *)
(* the launcher a stop has waited for is gone; and a launcher that is gone *)
(* and was not killed has left no application behind.                      *)

RunningSteps == {"spawning", "writing", "waiting", "ready", "ending", "killed"}
HoldingSteps == {"locked", "preparing", "infrastructure", "migrating", "probing", "spawning", "writing",
                 "waiting", "ready", "ending", "unrecording", "unlocking"}
HadLockSteps == HoldingSteps \cup {"ended", "killed"}
EarlySteps == {"idle", "starting", "locked", "preparing", "infrastructure", "migrating", "probing"}

\* A launcher counts what it spawned, and has room for the next.
Counts(x) ==
  /\ x.step \in EarlySteps => x.spawned = 0
  /\ x.step = "spawning" => x.spawned < Apps

\* A live application is one its launcher has spawned and not ended.
LiveIsSpawned(apps, x) == \A i \in 1..Apps : apps[i] = "live" => i <= x.spawned /\ x.step \in RunningSteps

StopEnded == stopper.step \in {"done", "failed"}

StackInv ==
  /\ StackTypeOK
  /\ \A l \in Launchers : Counts(launcher[l]) /\ LiveIsSpawned(app[l], launcher[l])
  /\ recorded.launcher = NoLauncher => recorded = NoFile
  /\ recorded.launcher # NoLauncher => launcher[recorded.launcher].step \in HadLockSteps
  /\ stopper.step = "idle" => stopper.of = NoLauncher
  /\ stopper.step \in {"terminating", "checking", "waiting"} => stopper.of # NoLauncher
  /\ stopper.of # NoLauncher =>
       /\ launcher[stopper.of].step \in HadLockSteps
       /\ launcher[stopper.of].step = "killed" => stopper.killed
       /\ stopper.step = "done" /\ ~stopper.killed => launcher[stopper.of].step = "ended"
  /\ ~StopEnded => \A l \in Launchers : launcher[l].step \in HoldingSteps => lock = l

LEMMA StackFields ==
  ASSUME StackWorkload, StackInv
  PROVE  /\ lock \in Launchers \union {NoLauncher} /\ recorded \in StateFile /\ requested \in BOOLEAN
         /\ launcher \in [Launchers -> Launcher] /\ app \in [Launchers -> [1..Apps -> {"none", "live", "gone"}]]
         /\ stopper \in Stopper /\ exits \in 0..ExitBound /\ kills \in 0..KillBound
         /\ NoLauncher \notin Launchers /\ Apps \in Nat \ {0} /\ Attempts \in Nat
         /\ recorded.launcher \in Launchers \union {NoLauncher}
         /\ stopper.of \in Launchers \union {NoLauncher}
BY DEF StackInv, StackTypeOK, StackWorkload, NoLauncher, StateFile, Stopper

LEMMA LauncherFields ==
  ASSUME NEW x \in Launcher
  PROVE  /\ x.step \in LauncherSteps /\ x.mode \in {"offline", "pilot"} /\ x.spawned \in 0..Apps
         /\ x.tries \in 0..Attempts /\ x.interrupted \in BOOLEAN
BY DEF Launcher

LEMMA StopperFields ==
  ASSUME NEW x \in Stopper
  PROVE  /\ x.step \in {"idle", "terminating", "checking", "waiting", "done", "failed"}
         /\ x.of \in Launchers \union {NoLauncher} /\ x.upTo \in 0..Apps /\ x.killed \in BOOLEAN
BY DEF Stopper

\* A launcher moves, and what it does to the files and its applications.
LEMMA LauncherMoves ==
  ASSUME StackWorkload, StackInv, NEW l \in Launchers, NEW x \in Launcher,
         launcher' = [launcher EXCEPT ![l] = x],
         lock' \in Launchers \union {NoLauncher}, recorded' \in StateFile, requested' \in BOOLEAN,
         app' \in [Launchers -> [1..Apps -> {"none", "live", "gone"}]],
         stopper' \in Stopper, exits' \in 0..ExitBound, kills' \in 0..KillBound,
         Counts(x), LiveIsSpawned(app'[l], x), \A m \in Launchers \ {l} : app'[m] = app[m],
         launcher[l].step \in HadLockSteps => x.step \in HadLockSteps,
         launcher[l].step \notin {"ended", "killed"},
         \/ recorded' = recorded
         \/ recorded' = NoFile
         \/ recorded'.launcher = l /\ x.step \in HadLockSteps,
         stopper'.step = stopper.step, stopper'.of = stopper.of, stopper.killed => stopper'.killed,
         x.step = "killed" /\ stopper.of = l => stopper'.killed,
         ~StopEnded => /\ x.step \in HoldingSteps => lock' = l
                       /\ \A m \in Launchers \ {l} : launcher[m].step \in HoldingSteps => lock' = m
  PROVE  StackInv'
<1>0. /\ launcher \in [Launchers -> Launcher] /\ NoLauncher \notin Launchers
      /\ recorded.launcher \in Launchers \union {NoLauncher}
      /\ stopper.of \in Launchers \union {NoLauncher}
      /\ stopper \in Stopper
  BY StackFields
<1>1. /\ launcher' \in [Launchers -> Launcher] /\ launcher'[l] = x
      /\ \A m \in Launchers \ {l} : launcher'[m] = launcher[m]
  BY <1>0
<1>2. StackTypeOK'
  BY <1>1 DEF StackTypeOK
<1>3. \A m \in Launchers : (Counts(launcher[m]) /\ LiveIsSpawned(app[m], launcher[m]))'
  <2>1. \A m \in Launchers : Counts(launcher'[m]) /\ LiveIsSpawned(app'[m], launcher'[m])
    BY <1>1 DEF StackInv
  <2>. QED BY <2>1 DEF Counts, LiveIsSpawned
<1>4. \A m \in Launchers : launcher[m].step \in HadLockSteps => launcher'[m].step \in HadLockSteps
  BY <1>1
<1>5. /\ recorded'.launcher = NoLauncher => recorded' = NoFile
      /\ recorded'.launcher # NoLauncher => launcher'[recorded'.launcher].step \in HadLockSteps
  <2>1. NoFile.launcher = NoLauncher
    BY DEF NoFile
  <2>. QED BY <1>0, <1>1, <1>4, <2>1 DEF StackInv
<1>6. /\ stopper'.step = "idle" => stopper'.of = NoLauncher
      /\ stopper'.step \in {"terminating", "checking", "waiting"} => stopper'.of # NoLauncher
  BY DEF StackInv
<1>7. ASSUME stopper'.of # NoLauncher
      PROVE  /\ launcher'[stopper'.of].step \in HadLockSteps
             /\ launcher'[stopper'.of].step = "killed" => stopper'.killed
             /\ stopper'.step = "done" /\ ~stopper'.killed => launcher'[stopper'.of].step = "ended"
  <2>1. stopper.of \in Launchers
    BY <1>0, <1>7
  <2>2. /\ launcher[stopper.of].step \in HadLockSteps
        /\ launcher[stopper.of].step = "killed" => stopper.killed
        /\ stopper.step = "done" /\ ~stopper.killed => launcher[stopper.of].step = "ended"
    BY <1>7 DEF StackInv
  <2>3. CASE stopper.of = l
    BY <1>1, <1>4, <2>1, <2>2, <2>3
  <2>4. CASE stopper.of # l
    BY <1>1, <2>1, <2>2, <2>4
  <2>. QED BY <2>3, <2>4
<1>8. ~StopEnded' => \A m \in Launchers : launcher'[m].step \in HoldingSteps => lock' = m
  BY <1>1 DEF StopEnded
<1>. QED BY <1>2, <1>3, <1>5, <1>6, <1>7, <1>8 DEF StackInv

\* A launcher goes on and touches nothing but the record, if that.
LEMMA LauncherOnly ==
  ASSUME StackWorkload, StackInv, NEW l \in Launchers,
         NEW step \in LauncherSteps \ {"ended", "killed"}, NEW mode \in {"offline", "pilot"},
         NEW tries \in 0..Attempts, NEW interrupted \in BOOLEAN,
         LauncherBecomes(l, step, mode, launcher[l].spawned, tries, interrupted),
         UNCHANGED <<app, stopper, exits, kills>>, requested' \in BOOLEAN,
         launcher[l].step \notin {"ended", "killed"},
         step \in EarlySteps => launcher[l].step \in EarlySteps,
         step = "spawning" => launcher[l].step \in EarlySteps \/ launcher[l].spawned < Apps,
         launcher[l].step \in RunningSteps => step \in RunningSteps,
         launcher[l].step \in HadLockSteps => step \in HadLockSteps,
         \/ recorded' = recorded
         \/ recorded' \in StateFile /\ recorded'.launcher = l /\ step \in HadLockSteps,
         \/ lock' = lock /\ (step \in HoldingSteps => launcher[l].step \in HoldingSteps)
         \/ lock = NoLauncher /\ lock' = l
  PROVE  StackInv'
<1> DEFINE x == [step |-> step, mode |-> mode, spawned |-> launcher[l].spawned, tries |-> tries,
                 interrupted |-> interrupted]
<1>0. /\ launcher[l].spawned \in 0..Apps /\ Apps \in Nat \ {0} /\ NoLauncher \notin Launchers
      /\ launcher[l].step \in LauncherSteps
  BY StackFields, LauncherFields
<1>1. launcher' = [launcher EXCEPT ![l] = x]
  BY DEF LauncherBecomes
<1>2. x \in Launcher /\ x.step = step /\ x.spawned = launcher[l].spawned
  BY <1>0 DEF Launcher
<1> HIDE DEF x
<1>3. Counts(x)
  BY <1>0, <1>2 DEF Counts, StackInv
<1>4. LiveIsSpawned(app'[l], x)
  BY <1>2 DEF LiveIsSpawned, StackInv
<1>5. ~StopEnded => /\ x.step \in HoldingSteps => lock' = l
                    /\ \A m \in Launchers \ {l} : launcher[m].step \in HoldingSteps => lock' = m
  BY <1>0, <1>2 DEF StackInv
<1>6. /\ lock' \in Launchers \union {NoLauncher} /\ recorded' \in StateFile
      /\ app' \in [Launchers -> [1..Apps -> {"none", "live", "gone"}]] /\ stopper' \in Stopper
      /\ exits' \in 0..ExitBound /\ kills' \in 0..KillBound
      /\ \A m \in Launchers \ {l} : app'[m] = app[m]
      /\ stopper'.step = stopper.step /\ stopper'.of = stopper.of /\ (stopper.killed => stopper'.killed)
  BY StackFields
<1>7. /\ launcher[l].step \in HadLockSteps => x.step \in HadLockSteps
      /\ x.step # "killed"
      /\ recorded' = recorded \/ (recorded'.launcher = l /\ x.step \in HadLockSteps)
  BY <1>2
<1>. QED BY <1>1, <1>2, <1>3, <1>4, <1>5, <1>6, <1>7, LauncherMoves

\* What the record says after a launcher wrote it.
LEMMA RecordIs ==
  ASSUME StackWorkload, StackInv, NEW l \in Launchers, NEW status \in {"starting", "ready"}, Record(l, status)
  PROVE  recorded' \in StateFile /\ recorded'.launcher = l
<1>1. launcher[l].spawned \in 0..Apps
  BY StackFields, LauncherFields
<1>. QED BY <1>1 DEF Record, StateFile

\* The steps of a start that change neither the lock nor an application.
LEMMA QuietSteps ==
  ASSUME StackWorkload, StackInv, NEW l \in Launchers,
         \/ ClearRequest(l) \/ AcquireOwnerLock(l) \/ RecordStarting(l) \/ BuildProfile(l)
         \/ EnsureInfrastructure(l) \/ MigrateAndProbe(l) \/ VerifyEgress(l) \/ RecordSpawned(l)
         \/ AwaitReadiness(l) \/ Supervise(l) \/ Interrupt(l)
  PROVE  StackInv'
<1> DEFINE q == launcher[l]
<1>0. /\ q \in Launcher /\ requested \in BOOLEAN /\ Apps \in Nat \ {0} /\ Attempts \in Nat
      /\ q.spawned \in 0..Apps /\ q.tries \in 0..Attempts /\ q.mode \in {"offline", "pilot"}
      /\ q.interrupted \in BOOLEAN /\ q.step \in LauncherSteps
  BY StackFields, LauncherFields
<1>1. \E step \in LauncherSteps \ {"ended", "killed"}, mode \in {"offline", "pilot"},
         tries \in 0..Attempts, interrupted \in BOOLEAN :
        /\ LauncherBecomes(l, step, mode, q.spawned, tries, interrupted)
        /\ UNCHANGED <<app, stopper, exits, kills>> /\ requested' \in BOOLEAN
        /\ q.step \notin {"ended", "killed"}
        /\ step \in EarlySteps => q.step \in EarlySteps
        /\ step = "spawning" => q.step \in EarlySteps \/ q.spawned < Apps
        /\ q.step \in RunningSteps => step \in RunningSteps
        /\ q.step \in HadLockSteps => step \in HadLockSteps
        /\ \/ recorded' = recorded
           \/ recorded' \in StateFile /\ recorded'.launcher = l /\ step \in HadLockSteps
        /\ \/ lock' = lock /\ (step \in HoldingSteps => q.step \in HoldingSteps)
           \/ lock = NoLauncher /\ lock' = l
  <2>1. CASE ClearRequest(l)
    <3>1. PICK mode \in {"offline", "pilot"} :
            LauncherBecomes(l, "starting", mode, q.spawned, q.tries, q.interrupted)
      BY <2>1 DEF ClearRequest
    <3>2. /\ q.step = "idle" /\ requested' \in BOOLEAN
          /\ UNCHANGED <<lock, recorded, app, stopper, exits, kills>>
      BY <2>1 DEF ClearRequest
    <3>. QED BY <1>0, <3>1, <3>2 DEF LauncherSteps, EarlySteps, RunningSteps, HadLockSteps, HoldingSteps
  <2>2. CASE AcquireOwnerLock(l)
    <3>1. CASE lock = NoLauncher
      BY <1>0, <2>2, <3>1 DEF AcquireOwnerLock, LauncherTo, LauncherGoes, LauncherSteps, EarlySteps,
                              RunningSteps, HadLockSteps, HoldingSteps
    <3>2. CASE lock # NoLauncher
      BY <1>0, <2>2, <3>2 DEF AcquireOwnerLock, LauncherTo, LauncherGoes, LauncherSteps, EarlySteps,
                              RunningSteps, HadLockSteps, HoldingSteps
    <3>. QED BY <3>1, <3>2
  <2>3. CASE RecordStarting(l)
    <3>1. recorded' \in StateFile /\ recorded'.launcher = l
      BY <2>3, RecordIs DEF RecordStarting
    <3>. QED BY <1>0, <2>3, <3>1 DEF RecordStarting, LauncherTo, LauncherGoes, LauncherSteps, EarlySteps,
                                     RunningSteps, HadLockSteps, HoldingSteps
  <2>4. CASE BuildProfile(l)
    <3>1. PICK step \in {"ending", "infrastructure"} : LauncherTo(l, step)
      BY <2>4 DEF BuildProfile
    <3>. QED BY <1>0, <2>4, <3>1 DEF BuildProfile, LauncherTo, LauncherGoes, LauncherSteps, EarlySteps,
                                     RunningSteps, HadLockSteps, HoldingSteps
  <2>5. CASE EnsureInfrastructure(l)
    <3>1. PICK step \in {"migrating", "ending", "infrastructure"}, tries \in 0..Attempts :
            LauncherGoes(l, step, q.spawned, tries)
      BY <1>0, <2>5 DEF EnsureInfrastructure, LauncherTo
    <3>. QED BY <1>0, <2>5, <3>1 DEF EnsureInfrastructure, LauncherGoes, LauncherSteps, EarlySteps,
                                     RunningSteps, HadLockSteps, HoldingSteps
  <2>6. CASE MigrateAndProbe(l)
    <3>1. PICK step \in {"ending", "probing", "spawning"} : LauncherTo(l, step)
      BY <2>6 DEF MigrateAndProbe
    <3>. QED BY <1>0, <2>6, <3>1 DEF MigrateAndProbe, LauncherTo, LauncherGoes, LauncherSteps, EarlySteps,
                                     RunningSteps, HadLockSteps, HoldingSteps
  <2>7. CASE VerifyEgress(l)
    <3>1. PICK step \in {"ending", "spawning"} : LauncherTo(l, step)
      BY <2>7 DEF VerifyEgress
    <3>. QED BY <1>0, <2>7, <3>1 DEF VerifyEgress, LauncherTo, LauncherGoes, LauncherSteps, EarlySteps,
                                     RunningSteps, HadLockSteps, HoldingSteps
  <2>8. CASE RecordSpawned(l)
    <3>1. recorded' \in StateFile /\ recorded'.launcher = l
      BY <2>8, RecordIs DEF RecordSpawned
    <3>2. PICK step \in {"waiting", "spawning"} :
            LauncherTo(l, step) /\ (step = "spawning" => q.spawned # Apps)
      BY <2>8 DEF RecordSpawned
    <3>. QED BY <1>0, <2>8, <3>1, <3>2 DEF RecordSpawned, LauncherTo, LauncherGoes, LauncherSteps, EarlySteps,
                                           RunningSteps, HadLockSteps, HoldingSteps
  <2>9. CASE AwaitReadiness(l)
    <3>1. PICK step \in {"ready", "ending"} : LauncherTo(l, step)
      BY <2>9 DEF AwaitReadiness
    <3>2. recorded' = recorded \/ (recorded' \in StateFile /\ recorded'.launcher = l)
      BY <2>9, RecordIs DEF AwaitReadiness
    <3>. QED BY <1>0, <2>9, <3>1, <3>2 DEF AwaitReadiness, LauncherTo, LauncherGoes, LauncherSteps, EarlySteps,
                                           RunningSteps, HadLockSteps, HoldingSteps
  <2>10. CASE Supervise(l)
    BY <1>0, <2>10 DEF Supervise, LauncherTo, LauncherGoes, LauncherSteps, EarlySteps,
                       RunningSteps, HadLockSteps, HoldingSteps
  <2>11. CASE Interrupt(l)
    <3>1. /\ q.step \notin {"ended", "killed"} /\ requested' \in BOOLEAN
          /\ UNCHANGED <<lock, recorded, app, stopper, exits, kills>>
          /\ LauncherBecomes(l, q.step, q.mode, q.spawned, q.tries, TRUE)
      BY <1>0, <2>11 DEF Interrupt, Alive
    <3>2. q.step = "spawning" => q.spawned < Apps
      BY DEF StackInv, Counts
    <3>3. q.step \in LauncherSteps \ {"ended", "killed"}
      BY <1>0, <3>1
    <3>. QED BY <1>0, <3>1, <3>2, <3>3
  <2>. QED BY <2>1, <2>2, <2>3, <2>4, <2>5, <2>6, <2>7, <2>8, <2>9, <2>10, <2>11
<1>. QED BY <1>1, LauncherOnly

\* A launcher spawns, ends, or is killed.
LEMMA LoudSteps ==
  ASSUME StackWorkload, StackInv, NEW l \in Launchers,
         Spawn(l) \/ TerminateOwned(l) \/ RemoveState(l) \/ RemoveLock(l) \/ KillLauncher(l)
  PROVE  StackInv'
<1> DEFINE q == launcher[l]
           After(step, spawned) == [step |-> step, mode |-> q.mode, spawned |-> spawned, tries |-> q.tries,
                                    interrupted |-> q.interrupted]
<1>0. /\ q \in Launcher /\ requested \in BOOLEAN /\ Apps \in Nat \ {0} /\ NoLauncher \notin Launchers
      /\ q.spawned \in 0..Apps /\ q.tries \in 0..Attempts /\ q.mode \in {"offline", "pilot"}
      /\ q.interrupted \in BOOLEAN /\ q.step \in LauncherSteps
      /\ lock \in Launchers \union {NoLauncher} /\ recorded \in StateFile
      /\ app \in [Launchers -> [1..Apps -> {"none", "live", "gone"}]]
      /\ stopper \in Stopper /\ exits \in 0..ExitBound /\ kills \in 0..KillBound
  BY StackFields, LauncherFields
<1>1. ASSUME NEW step \in LauncherSteps, NEW spawned \in 0..Apps
      PROVE  /\ After(step, spawned) \in Launcher /\ After(step, spawned).step = step
             /\ After(step, spawned).spawned = spawned
  BY <1>0 DEF Launcher
<1>2. \A step : \A spawned : LauncherGoes(l, step, spawned, q.tries) => launcher' = [launcher EXCEPT ![l] = After(step, spawned)]
  BY DEF LauncherGoes, LauncherBecomes
<1>3. Counts(q) /\ LiveIsSpawned(app[l], q)
  BY DEF StackInv
<1>4. ~StopEnded => \A m \in Launchers : launcher[m].step \in HoldingSteps => lock = m
  BY DEF StackInv
<1> HIDE DEF After
<1>5. CASE Spawn(l)
  <2> DEFINE n == q.spawned + 1
  <2>1. /\ q.step = "spawning" /\ UNCHANGED <<lock, recorded, requested, stopper, exits, kills>>
        /\ \/ LauncherTo(l, "ending") /\ UNCHANGED app
           \/ Turns(l, n, "live") /\ LauncherGoes(l, "writing", n, q.tries)
    BY <1>5 DEF Spawn
  <2>2. n \in 1..Apps
    BY <1>0, <1>3, <2>1 DEF Counts
  <2>3. CASE LauncherTo(l, "ending") /\ UNCHANGED app
    <3>1. launcher' = [launcher EXCEPT ![l] = After("ending", q.spawned)]
      BY <1>2, <2>3 DEF LauncherTo
    <3>2. /\ After("ending", q.spawned) \in Launcher /\ After("ending", q.spawned).step = "ending"
          /\ After("ending", q.spawned).spawned = q.spawned
      BY <1>0, <1>1 DEF LauncherSteps
    <3> DEFINE x == After("ending", q.spawned)
    <3> HIDE DEF x
    <3>3. x \in Launcher /\ x.step = "ending" /\ x.spawned = q.spawned /\ launcher' = [launcher EXCEPT ![l] = x]
      BY <3>1, <3>2 DEF x
    <3>4. Counts(x) /\ LiveIsSpawned(app'[l], x)
      BY <1>3, <2>1, <2>3, <3>3 DEF Counts, LiveIsSpawned, EarlySteps, RunningSteps
    <3>5. x.step \in HadLockSteps /\ x.step # "killed" /\ q.step \notin {"ended", "killed"} /\ q.step \in HoldingSteps
      BY <2>1, <3>3 DEF HadLockSteps, HoldingSteps
    <3>. QED BY <1>0, <1>4, <2>1, <2>3, <3>3, <3>4, <3>5, LauncherMoves
  <2>4. CASE Turns(l, n, "live") /\ LauncherGoes(l, "writing", n, q.tries)
    <3>1. launcher' = [launcher EXCEPT ![l] = After("writing", n)]
      BY <1>2, <2>4
    <3>2. /\ After("writing", n) \in Launcher /\ After("writing", n).step = "writing"
          /\ After("writing", n).spawned = n
      BY <1>1, <2>2 DEF LauncherSteps
    <3> DEFINE x == After("writing", n)
    <3> HIDE DEF x
    <3>3. x \in Launcher /\ x.step = "writing" /\ x.spawned = n /\ launcher' = [launcher EXCEPT ![l] = x]
      BY <3>1, <3>2 DEF x
    <3>4. /\ app' \in [Launchers -> [1..Apps -> {"none", "live", "gone"}]]
          /\ \A i \in 1..Apps : app'[l][i] = IF i = n THEN "live" ELSE app[l][i]
          /\ \A m \in Launchers \ {l} : app'[m] = app[m]
      BY <1>0, <2>4 DEF Turns
    <3>5. Counts(x) /\ LiveIsSpawned(app'[l], x)
      <4>1. \A i \in 1..Apps : app'[l][i] = "live" => i <= n
        <5>1. \A i \in 1..Apps : app[l][i] = "live" => i <= q.spawned
          BY <1>3 DEF LiveIsSpawned
        <5>. QED BY <1>0, <3>4, <5>1
      <4>. QED BY <3>3, <4>1 DEF Counts, LiveIsSpawned, EarlySteps, RunningSteps
    <3>6. x.step \in HadLockSteps /\ x.step # "killed" /\ q.step \notin {"ended", "killed"} /\ q.step \in HoldingSteps
      BY <2>1, <3>3 DEF HadLockSteps, HoldingSteps
    <3> HIDE DEF n
    <3>. QED BY <1>0, <1>4, <2>1, <3>3, <3>4, <3>5, <3>6, LauncherMoves
  <2>. QED BY <2>1, <2>3, <2>4
<1>6. CASE TerminateOwned(l)
  <2> DEFINE x == After("unrecording", q.spawned)
  <2>1. /\ q.step = "ending" /\ app' = Terminated(l, q.spawned)
        /\ UNCHANGED <<lock, recorded, requested, stopper, exits, kills>>
        /\ launcher' = [launcher EXCEPT ![l] = x]
    BY <1>2, <1>6 DEF TerminateOwned, OwnedTerminated, LauncherTo
  <2>2. x \in Launcher /\ x.step = "unrecording" /\ x.spawned = q.spawned
    BY <1>0, <1>1 DEF LauncherSteps
  <2> HIDE DEF x
  <2>3. /\ app' \in [Launchers -> [1..Apps -> {"none", "live", "gone"}]]
        /\ \A i \in 1..Apps : app'[l][i] = IF i <= q.spawned /\ app[l][i] = "live" THEN "gone" ELSE app[l][i]
        /\ \A m \in Launchers \ {l} : app'[m] = app[m]
    BY <1>0, <2>1 DEF Terminated
  <2>4. Counts(x) /\ LiveIsSpawned(app'[l], x)
    BY <1>0, <1>3, <2>2, <2>3 DEF Counts, LiveIsSpawned, EarlySteps
  <2>5. x.step \in HadLockSteps /\ x.step # "killed" /\ q.step \notin {"ended", "killed"} /\ q.step \in HoldingSteps
    BY <2>1, <2>2 DEF HadLockSteps, HoldingSteps
  <2>. QED BY <1>0, <1>4, <2>1, <2>2, <2>3, <2>4, <2>5, LauncherMoves
<1>7. CASE RemoveState(l)
  <2> DEFINE x == After("unlocking", q.spawned)
  <2>1. /\ q.step = "unrecording" /\ recorded' = NoFile
        /\ UNCHANGED <<lock, requested, app, stopper, exits, kills>>
        /\ launcher' = [launcher EXCEPT ![l] = x]
    BY <1>2, <1>7 DEF RemoveState, LauncherTo
  <2>2. x \in Launcher /\ x.step = "unlocking" /\ x.spawned = q.spawned
    BY <1>0, <1>1 DEF LauncherSteps
  <2> HIDE DEF x
  <2>3. NoFile \in StateFile
    BY <1>0 DEF NoFile, StateFile
  <2>4. Counts(x) /\ LiveIsSpawned(app'[l], x)
    BY <1>3, <2>1, <2>2 DEF Counts, LiveIsSpawned, EarlySteps, RunningSteps
  <2>5. x.step \in HadLockSteps /\ x.step # "killed" /\ q.step \notin {"ended", "killed"} /\ q.step \in HoldingSteps
    BY <2>1, <2>2 DEF HadLockSteps, HoldingSteps
  <2>. QED BY <1>0, <1>4, <2>1, <2>2, <2>3, <2>4, <2>5, LauncherMoves
<1>8. CASE RemoveLock(l)
  <2> DEFINE x == After("ended", q.spawned)
  <2>1. /\ q.step = "unlocking" /\ lock' = NoLauncher /\ requested' = FALSE
        /\ UNCHANGED <<recorded, app, stopper, exits, kills>>
        /\ launcher' = [launcher EXCEPT ![l] = x]
    BY <1>2, <1>8 DEF RemoveLock, LauncherTo
  <2>2. x \in Launcher /\ x.step = "ended" /\ x.spawned = q.spawned
    BY <1>0, <1>1 DEF LauncherSteps
  <2> HIDE DEF x
  <2>3. Counts(x) /\ LiveIsSpawned(app'[l], x)
    BY <1>3, <2>1, <2>2 DEF Counts, LiveIsSpawned, EarlySteps, RunningSteps
  <2>4. x.step \in HadLockSteps /\ x.step \notin HoldingSteps /\ x.step # "killed" /\ q.step \notin {"ended", "killed"}
        /\ q.step \in HoldingSteps
    BY <2>1, <2>2 DEF HadLockSteps, HoldingSteps
  <2>5. ~StopEnded => /\ x.step \in HoldingSteps => lock' = l
                      /\ \A m \in Launchers \ {l} : launcher[m].step \in HoldingSteps => lock' = m
    BY <1>4, <2>4
  <2>. QED BY <1>0, <2>1, <2>2, <2>3, <2>4, <2>5, LauncherMoves
<1>9. CASE KillLauncher(l)
  <2> DEFINE x == After("killed", q.spawned)
             y == [step |-> stopper.step, of |-> stopper.of, upTo |-> stopper.upTo,
                   killed |-> stopper.killed \/ stopper.of = l]
  <2>1. /\ q.step \notin {"idle", "refused", "ended", "killed"} /\ kills < KillBound /\ kills' = kills + 1
        /\ stopper' = y /\ UNCHANGED <<lock, recorded, requested, app, exits>>
        /\ launcher' = [launcher EXCEPT ![l] = x]
    BY <1>2, <1>9 DEF KillLauncher, LauncherTo, Alive
  <2>2. x \in Launcher /\ x.step = "killed" /\ x.spawned = q.spawned
    BY <1>0, <1>1 DEF LauncherSteps
  <2>3. /\ y \in Stopper /\ y.step = stopper.step /\ y.of = stopper.of
        /\ y.killed <=> (stopper.killed \/ stopper.of = l)
    BY <1>0, StopperFields DEF Stopper
  <2> HIDE DEF x, y
  <2>4. kills' \in 0..KillBound
    BY <1>0, <2>1 DEF StackWorkload
  <2>5. Counts(x) /\ LiveIsSpawned(app'[l], x)
    BY <1>3, <2>1, <2>2 DEF Counts, LiveIsSpawned, EarlySteps, RunningSteps
  <2>6. x.step \in HadLockSteps /\ x.step \notin HoldingSteps /\ q.step \notin {"ended", "killed"}
    BY <2>1, <2>2 DEF HadLockSteps, HoldingSteps
  <2>7. ~StopEnded => /\ x.step \in HoldingSteps => lock' = l
                      /\ \A m \in Launchers \ {l} : launcher[m].step \in HoldingSteps => lock' = m
    BY <1>4, <2>1, <2>6
  <2>. QED BY <1>0, <2>1, <2>2, <2>3, <2>4, <2>5, <2>6, <2>7, LauncherMoves
<1>. QED BY <1>5, <1>6, <1>7, <1>8, <1>9

\* An application exits, or the stop command ends some.
LEMMA AppMoves ==
  ASSUME StackWorkload, StackInv, UNCHANGED <<lock, recorded, requested, launcher, kills>>,
         app' \in [Launchers -> [1..Apps -> {"none", "live", "gone"}]], exits' \in 0..ExitBound,
         \A l \in Launchers : \A i \in 1..Apps : app'[l][i] = "live" => app[l][i] = "live",
         stopper' = stopper \/ (stopper' \in Stopper /\ stopper.step = "terminating" /\ stopper'.step = "checking"
                                /\ stopper'.of = stopper.of /\ stopper'.killed = stopper.killed)
  PROVE  StackInv'
<1>1. StackTypeOK'
  BY DEF StackInv, StackTypeOK
<1>2. \A l \in Launchers : (Counts(launcher[l]) /\ LiveIsSpawned(app[l], launcher[l]))'
  BY DEF StackInv, Counts, LiveIsSpawned
<1>. QED BY <1>1, <1>2 DEF StackInv, StopEnded

LEMMA AppSteps ==
  ASSUME StackWorkload, StackInv,
         StopTerminates \/ \E l \in Launchers : \E i \in 1..Apps : AppExits(l, i)
  PROVE  StackInv'
<1>0. /\ app \in [Launchers -> [1..Apps -> {"none", "live", "gone"}]] /\ exits \in 0..ExitBound
      /\ stopper \in Stopper
  BY StackFields
<1>1. CASE StopTerminates
  <2> DEFINE y == [step |-> "checking", of |-> stopper.of, upTo |-> stopper.upTo, killed |-> stopper.killed]
  <2>1. /\ stopper.step = "terminating" /\ app' = Terminated(stopper.of, stopper.upTo) /\ stopper' = y
        /\ UNCHANGED <<lock, recorded, requested, launcher, exits, kills>>
    BY <1>1 DEF StopTerminates, StopperAt
  <2>2. y \in Stopper /\ y.step = "checking" /\ y.of = stopper.of /\ y.killed = stopper.killed
    BY <1>0, StopperFields DEF Stopper
  <2>3. stopper.of \in Launchers
    BY <2>1, StackFields DEF StackInv
  <2>4. /\ app' \in [Launchers -> [1..Apps -> {"none", "live", "gone"}]]
        /\ \A l \in Launchers : \A i \in 1..Apps : app'[l][i] = "live" => app[l][i] = "live"
    BY <1>0, <2>1, <2>3 DEF Terminated
  <2> HIDE DEF y
  <2>. QED BY <1>0, <2>1, <2>2, <2>4, AppMoves
<1>2. ASSUME NEW l \in Launchers, NEW i \in 1..Apps, AppExits(l, i)
      PROVE  StackInv'
  <2>1. /\ exits' \in 0..ExitBound /\ UNCHANGED <<lock, recorded, requested, launcher, stopper, kills>>
        /\ Turns(l, i, "gone")
    BY <1>0, <1>2 DEF AppExits, StackWorkload
  <2>2. /\ app' \in [Launchers -> [1..Apps -> {"none", "live", "gone"}]]
        /\ \A m \in Launchers : \A j \in 1..Apps : app'[m][j] = "live" => app[m][j] = "live"
    BY <1>0, <2>1 DEF Turns
  <2>. QED BY <2>1, <2>2, AppMoves
<1>. QED BY <1>1, <1>2

\* The stop command moves; what it removes it removes at its end.
LEMMA StopperMoves ==
  ASSUME StackWorkload, StackInv, NEW y \in Stopper, stopper' = y, UNCHANGED <<launcher, app, exits, kills>>,
         requested' \in BOOLEAN, lock' \in Launchers \union {NoLauncher},
         recorded' = recorded \/ recorded' = NoFile, ~StopEnded,
         y.step # "idle", y.step \notin {"done", "failed"} => lock' = lock,
         y.step \in {"terminating", "checking", "waiting"} => y.of # NoLauncher,
         y.of # NoLauncher =>
           /\ launcher[y.of].step \in HadLockSteps
           /\ launcher[y.of].step = "killed" => y.killed
           /\ y.step = "done" /\ ~y.killed => launcher[y.of].step = "ended"
  PROVE  StackInv'
<1>1. NoFile \in StateFile /\ NoFile.launcher = NoLauncher
  BY StackFields DEF NoFile, StateFile
<1>2. StackTypeOK'
  BY <1>1 DEF StackInv, StackTypeOK
<1>3. \A l \in Launchers : (Counts(launcher[l]) /\ LiveIsSpawned(app[l], launcher[l]))'
  BY DEF StackInv, Counts, LiveIsSpawned
<1>4. /\ recorded'.launcher = NoLauncher => recorded' = NoFile
      /\ recorded'.launcher # NoLauncher => launcher'[recorded'.launcher].step \in HadLockSteps
  BY <1>1 DEF StackInv
<1>. QED BY <1>2, <1>3, <1>4 DEF StackInv, StopEnded

LEMMA StopSteps ==
  ASSUME StackWorkload, StackInv, StopNothing \/ RequestStop \/ StopCleansUp \/ StopWaits
  PROVE  StackInv'
<1>0. /\ stopper \in Stopper /\ lock \in Launchers \union {NoLauncher} /\ requested \in BOOLEAN
      /\ launcher \in [Launchers -> Launcher] /\ recorded \in StateFile /\ NoLauncher \notin Launchers
      /\ recorded.launcher \in Launchers \union {NoLauncher}
      /\ stopper.of \in Launchers \union {NoLauncher} /\ stopper.upTo \in 0..Apps /\ stopper.killed \in BOOLEAN
  BY StackFields, StopperFields
<1> DEFINE StopAt(step) == [step |-> step, of |-> stopper.of, upTo |-> stopper.upTo, killed |-> stopper.killed]
<1>1. ASSUME NEW step \in {"idle", "terminating", "checking", "waiting", "done", "failed"}
      PROVE  StopAt(step) \in Stopper /\ StopAt(step).step = step /\ StopAt(step).of = stopper.of /\ StopAt(step).killed = stopper.killed
  BY <1>0 DEF Stopper
<1>2. \A step : StopperAt(step) => stopper' = StopAt(step)
  BY DEF StopperAt
<1> HIDE DEF StopAt
<1>3. stopper.of # NoLauncher =>
        /\ launcher[stopper.of].step \in HadLockSteps
        /\ launcher[stopper.of].step = "killed" => stopper.killed
  BY DEF StackInv
<1>4. CASE StopNothing
  <2>1. /\ stopper.step = "idle" /\ UNCHANGED <<recorded, launcher, app, exits, kills>>
        /\ \/ StopperAt("failed") /\ UNCHANGED <<lock, requested>>
           \/ StopperAt("done") /\ lock' = NoLauncher /\ requested' = FALSE
    BY <1>4 DEF StopNothing
  <2>2. stopper.of = NoLauncher
    BY <2>1 DEF StackInv
  <2>3. PICK step \in {"failed", "done"} : stopper' = StopAt(step)
    BY <1>2, <2>1
  <2>4. StopAt(step) \in Stopper /\ StopAt(step).step = step /\ StopAt(step).of = NoLauncher
    BY <1>1, <2>2
  <2>. QED BY <1>0, <2>1, <2>3, <2>4, StopperMoves DEF StopEnded
<1>5. CASE RequestStop
  <2> DEFINE k == launcher[recorded.launcher].step = "killed"
             y == [step |-> "terminating", of |-> recorded.launcher, upTo |-> recorded.spawned, killed |-> k]
  <2>1. /\ stopper.step = "idle" /\ recorded # NoFile /\ stopper' = y /\ requested' = TRUE
        /\ UNCHANGED <<lock, recorded, launcher, app, exits, kills>>
    BY <1>5 DEF RequestStop
  <2>2. recorded.launcher # NoLauncher /\ launcher[recorded.launcher].step \in HadLockSteps
    BY <2>1 DEF StackInv
  <2>3. y \in Stopper /\ y.step = "terminating" /\ y.of = recorded.launcher /\ y.killed = k
    <3>1. recorded.spawned \in 0..Apps /\ k \in BOOLEAN
      BY <1>0 DEF StateFile
    <3> HIDE DEF k
    <3>. QED BY <1>0, <3>1 DEF Stopper
  <2> HIDE DEF y
  <2>. QED BY <1>0, <2>1, <2>2, <2>3, StopperMoves DEF StopEnded
<1>6. CASE StopCleansUp
  <2>1. /\ stopper.step = "checking" /\ ~Alive(stopper.of)
        /\ recorded' = NoFile /\ lock' = NoLauncher /\ requested' = FALSE
        /\ UNCHANGED <<launcher, app, exits, kills>>
        /\ StopperAt("done") \/ StopperAt("failed")
    BY <1>6 DEF StopCleansUp, FinishStop
  <2>2. stopper.of # NoLauncher
    BY <2>1 DEF StackInv
  <2>3. launcher[stopper.of].step \in {"ended", "killed"}
    BY <1>3, <2>1, <2>2 DEF Alive, HadLockSteps, HoldingSteps
  <2>4. PICK step \in {"failed", "done"} : stopper' = StopAt(step)
    BY <1>2, <2>1
  <2>5. StopAt(step) \in Stopper /\ StopAt(step).step = step /\ StopAt(step).of = stopper.of /\ StopAt(step).killed = stopper.killed
    BY <1>1
  <2>. QED BY <1>0, <1>3, <2>1, <2>2, <2>3, <2>4, <2>5, StopperMoves DEF StopEnded
<1>7. CASE StopWaits
  <2>1. /\ stopper.step \in {"checking", "waiting"} /\ UNCHANGED <<lock, recorded, requested, launcher, app, exits, kills>>
        /\ \/ StopperAt("waiting") \/ StopperAt("failed")
           \/ StopperAt("done") /\ lock' = NoLauncher
    BY <1>7 DEF StopWaits, FinishStop
  <2>2. stopper.of \in Launchers /\ ~StopEnded
    BY <1>0, <2>1 DEF StackInv, StopEnded
  <2>3. launcher[stopper.of].step \in HoldingSteps => lock = stopper.of
    BY <2>2 DEF StackInv
  <2>4. PICK step \in {"waiting", "failed", "done"} : stopper' = StopAt(step) /\ (step = "done" => lock = NoLauncher)
    BY <1>2, <2>1
  <2>5. StopAt(step) \in Stopper /\ StopAt(step).step = step /\ StopAt(step).of = stopper.of /\ StopAt(step).killed = stopper.killed
    BY <1>1
  <2>6. step = "done" /\ ~stopper.killed => launcher[stopper.of].step = "ended"
    BY <1>0, <1>3, <2>2, <2>3, <2>4 DEF HadLockSteps
  <2>. QED BY <1>0, <1>3, <2>1, <2>2, <2>4, <2>5, <2>6, StopperMoves
<1>. QED BY <1>4, <1>5, <1>6, <1>7

LEMMA StackBegins ==
  ASSUME StackWorkload, StackInit
  PROVE  StackInv
<1>1. NoLauncher \notin Launchers /\ Apps \in Nat \ {0} /\ Attempts \in Nat /\ ExitBound \in Nat /\ KillBound \in Nat
  BY DEF StackWorkload, NoLauncher
<1>2. /\ launcher \in [Launchers -> Launcher]
      /\ \A l \in Launchers : launcher[l].step = "idle" /\ launcher[l].spawned = 0
  BY <1>1 DEF StackInit, Launcher, LauncherSteps
<1>3. /\ app \in [Launchers -> [1..Apps -> {"none", "live", "gone"}]]
      /\ \A l \in Launchers : \A i \in 1..Apps : app[l][i] = "none"
  BY DEF StackInit
<1>4. /\ stopper \in Stopper /\ stopper.step = "idle" /\ stopper.of = NoLauncher
      /\ recorded = NoFile /\ recorded \in StateFile /\ recorded.launcher = NoLauncher
  BY <1>1 DEF StackInit, Stopper, StateFile, NoFile
<1>5. StackTypeOK
  <2>1. lock = NoLauncher /\ requested = FALSE /\ exits = 0 /\ kills = 0
    BY DEF StackInit
  <2>2. requested \in BOOLEAN
    BY <2>1, Zenon
  <2>3. exits \in 0..ExitBound /\ kills \in 0..KillBound
    BY <1>1, <2>1
  <2>. QED BY <1>2, <1>3, <1>4, <2>1, <2>2, <2>3 DEF StackTypeOK
<1>. QED BY <1>1, <1>2, <1>3, <1>4, <1>5 DEF StackInv, Counts, LiveIsSpawned, StopEnded, HoldingSteps

LEMMA StackSteps ==
  ASSUME StackWorkload, StackInv, [StackNext]_stackVars
  PROVE  StackInv'
<1>1. CASE UNCHANGED stackVars
  BY <1>1 DEF stackVars, StackInv, StackTypeOK, Counts, LiveIsSpawned, StopEnded
<1>2. CASE StackNext
  BY <1>2, QuietSteps, LoudSteps, AppSteps, StopSteps DEF StackNext
<1>. QED BY <1>1, <1>2

\* The types of the stack, and what ties the lock, the record and the live
\* applications to their launcher, hold in every reachable state.
THEOREM StackInvariant ==
  ASSUME StackWorkload
  PROVE  StackSpec => []StackInv
<1>1. StackInit => StackInv
  BY StackBegins
<1>2. StackInv /\ [StackNext]_stackVars => StackInv'
  BY StackSteps
<1>. QED BY <1>1, <1>2, PTL DEF StackSpec

\* A stop that reports success leaves nothing running of the stack it read,
\* unless its launcher was killed.
THEOREM StopsAreComplete ==
  ASSUME StackWorkload
  PROVE  StackSpec => []StopMeansStopped
<1>1. StackInv => StopMeansStopped
  <2>1. SUFFICES ASSUME StackInv, stopper.step = "done", stopper.of # NoLauncher, ~stopper.killed, NEW i \in 1..Apps
                 PROVE  app[stopper.of][i] # "live"
    BY DEF StopMeansStopped
  <2>2. stopper.of \in Launchers /\ launcher[stopper.of].step = "ended"
    BY <2>1, StackFields DEF StackInv
  <2>3. LiveIsSpawned(app[stopper.of], launcher[stopper.of])
    BY <2>1, <2>2 DEF StackInv
  <2>. QED BY <2>2, <2>3 DEF LiveIsSpawned, RunningSteps
<1>. QED BY <1>1, StackInvariant, PTL

---------------------------------------------------------------------------
(* The internal runtime.  An attestation is one its role's last ready      *)
(* review wrote, and the timer of a window's end holds the clock back      *)
(* while an internal process serves.                                       *)

\* What an attestation says of a service's last review, and of the plan.
Attests(a, s) ==
  /\ a.expiresAt = a.issuedAt + 1 /\ a.runtime.providers = Plan.providers
  /\ \E v \in reviewed[s] : v.runtime = a.runtime /\ v.at = a.issuedAt

\* A process that is internal and at work is inside its window.
InWindow(p, t) ==
  p.kind = "internal" =>
    /\ p.runtime.to \in Nat
    /\ p.phase \in {"starting", "serving"} => p.end = p.runtime.to /\ t <= p.runtime.to

\* A job in hand is a live Worker's, and was taken inside its window.
HeldBy(x, p) ==
  x.at = "active" =>
    /\ p.phase \in {"serving", "closing"}
    /\ p.kind = "internal" => x.takenAt <= p.runtime.to

RuntimeInv ==
  /\ RuntimeTypeOK
  /\ \A s \in Roles : \A a \in file[s] : Attests(a, s)
  /\ \A s \in Roles : InWindow(process[s], now)
  /\ \A t \in Tasks : HeldBy(task[t], process["worker"])

LEMMA RuntimeFields ==
  ASSUME RuntimeWorkload, RuntimeInv
  PROVE  /\ now \in Nat /\ environment \in [Roles -> Environments]
         /\ file \in [Roles -> SUBSET Attestations] /\ reviewed \in [Roles -> SUBSET Reviewed]
         /\ process \in [Roles -> Processes] /\ task \in [Tasks -> TaskStates]
         /\ "api" \in Roles /\ "worker" \in Roles
BY DEF RuntimeInv, RuntimeTypeOK, RuntimeWorkload, Roles

LEMMA ProcessFields ==
  ASSUME NEW p \in Processes
  PROVE  /\ p.phase \in {"down", "starting", "serving", "closing"} /\ p.kind \in {"none", "public", "internal"}
         /\ p.runtime \in Environments \cup {NoRuntime} /\ p.providers \in SUBSET STRING
         /\ p.end \in Nat \cup {-1}
BY DEF Processes

\* What a process is made of.
LEMMA ProcessIs ==
  ASSUME NEW phase, NEW kind, NEW runtime, NEW providers, NEW end
  PROVE  /\ ServiceProcess(phase, kind, runtime, providers, end).phase = phase
         /\ ServiceProcess(phase, kind, runtime, providers, end).kind = kind
         /\ ServiceProcess(phase, kind, runtime, providers, end).runtime = runtime
         /\ ServiceProcess(phase, kind, runtime, providers, end).providers = providers
         /\ ServiceProcess(phase, kind, runtime, providers, end).end = end
         /\ /\ phase \in {"down", "starting", "serving", "closing"} /\ kind \in {"none", "public", "internal"}
            /\ runtime \in Environments \cup {NoRuntime} /\ providers \in SUBSET STRING /\ end \in Nat \cup {-1}
            => ServiceProcess(phase, kind, runtime, providers, end) \in Processes
BY DEF ServiceProcess, Processes

LEMMA DownIs == Down \in Processes /\ Down.phase = "down" /\ Down.kind = "none"
<1>1. {} \in SUBSET STRING /\ NoRuntime \in Environments \cup {NoRuntime} /\ -1 \in Nat \cup {-1}
  OBVIOUS
<1>. QED BY <1>1, ProcessIs DEF Down

LEMMA TaskIs ==
  ASSUME NEW at, NEW queue, NEW t
  PROVE  /\ Task(at, queue, t).at = at /\ Task(at, queue, t).queue = queue /\ Task(at, queue, t).takenAt = t
         /\ /\ at \in {"new", "received", "lost", "queued", "active", "done"}
            /\ queue \in STRING \cup {NoQueue} /\ t \in Nat
            => Task(at, queue, t) \in TaskStates
BY DEF Task, TaskStates

LEMMA TaskFields ==
  ASSUME NEW x \in TaskStates
  PROVE  x.at \in {"new", "received", "lost", "queued", "active", "done"} /\ x.queue \in STRING \cup {NoQueue} /\ x.takenAt \in Nat
BY DEF TaskStates

LEMMA PlainIs ==
  ASSUME NEW at \in {"new", "received", "lost", "queued", "active", "done"}
  PROVE  Plainly(at) \in TaskStates /\ Plainly(at).at = at
<1>1. NoQueue \in STRING \cup {NoQueue} /\ 0 \in Nat
  OBVIOUS
<1>. QED BY <1>1, TaskIs DEF Plainly

\* What the runtime has of its environment.
LEMMA LoadedIs ==
  ASSUME NEW e \in Environments
  PROVE  /\ LoadInternalRuntime(e) \in Environments
         /\ LoadInternalRuntime(e).providers = e.providers \cap KnownProviders
         /\ LoadInternalRuntime(e).to = e.to /\ LoadInternalRuntime(e).from = e.from
         /\ LoadInternalRuntime(e).class = e.class /\ LoadInternalRuntime(e).stage = e.stage
BY DEF LoadInternalRuntime, Environments

\* Steps that leave processes, tasks and the clock alone.
LEMMA ReviewMoves ==
  ASSUME RuntimeWorkload, RuntimeInv, UNCHANGED <<now, process, task>>,
         environment' \in [Roles -> Environments], edits' \in 0..EditBound,
         signals' \in [at : Nat \cup {-1}, healthy : BOOLEAN],
         file' \in [Roles -> SUBSET Attestations], reviewed' \in [Roles -> SUBSET Reviewed],
         \A s \in Roles : \A a \in file'[s] : Attests(a, s)'
  PROVE  RuntimeInv'
<1>1. RuntimeTypeOK'
  BY DEF RuntimeInv, RuntimeTypeOK
<1>2. /\ \A s \in Roles : InWindow(process[s], now)'
      /\ \A t \in Tasks : HeldBy(task[t], process["worker"])'
  BY DEF RuntimeInv, InWindow, HeldBy
<1>. QED BY <1>1, <1>2 DEF RuntimeInv

\* Nothing of a role's attestation changes.
LEMMA SameReviews ==
  ASSUME RuntimeInv, UNCHANGED <<file, reviewed>>
  PROVE  \A s \in Roles : \A a \in file'[s] : Attests(a, s)'
BY DEF RuntimeInv, Attests

LEMMA ReviewSteps ==
  ASSUME RuntimeWorkload, RuntimeInv, NEW s \in Roles,
         EditEnvironment(s) \/ Preflight(s) \/ RemoveFile(s) \/ Measure
  PROVE  RuntimeInv'
<1>0. /\ environment \in [Roles -> Environments] /\ edits \in 0..EditBound
      /\ signals \in [at : Nat \cup {-1}, healthy : BOOLEAN] /\ now \in Nat
      /\ file \in [Roles -> SUBSET Attestations] /\ reviewed \in [Roles -> SUBSET Reviewed]
      /\ EditBound \in Nat
  BY RuntimeFields DEF RuntimeInv, RuntimeTypeOK, RuntimeWorkload
<1>1. CASE EditEnvironment(s)
  <2>1. PICK e \in EnvironmentOf[s] : environment' = [environment EXCEPT ![s] = e]
    BY <1>1 DEF EditEnvironment
  <2>2. e \in Environments
    BY DEF RuntimeWorkload
  <2>3. environment' \in [Roles -> Environments] /\ edits' \in 0..EditBound
    BY <1>0, <1>1, <2>1, <2>2 DEF EditEnvironment
  <2>4. UNCHANGED <<now, signals, file, process, task, reviewed>>
    BY <1>1 DEF EditEnvironment
  <2>. QED BY <1>0, <2>3, <2>4, SameReviews, ReviewMoves
<1>2. CASE Preflight(s)
  <2> DEFINE r == LoadInternalRuntime(environment[s])
             n == [runtime |-> r, issuedAt |-> now, expiresAt |-> now + 1]
             v == [runtime |-> r, at |-> now]
  <2>1. /\ r.providers = Plan.providers
        /\ file' = [file EXCEPT ![s] = {n}] /\ reviewed' = [reviewed EXCEPT ![s] = {v}]
        /\ UNCHANGED <<now, environment, edits, signals, process, task>>
    BY <1>2 DEF Preflight, Ready, ExactScope
  <2>2. r \in Environments
    BY <1>0, LoadedIs
  <2>3. /\ n \in Attestations /\ n.runtime = r /\ n.issuedAt = now /\ n.expiresAt = now + 1
        /\ v \in Reviewed /\ v.runtime = r /\ v.at = now
    BY <1>0, <2>2 DEF Attestations, Reviewed
  <2> HIDE DEF r, n, v
  <2>4. /\ file' \in [Roles -> SUBSET Attestations] /\ reviewed' \in [Roles -> SUBSET Reviewed]
        /\ file'[s] = {n} /\ reviewed'[s] = {v}
        /\ \A x \in Roles \ {s} : file'[x] = file[x] /\ reviewed'[x] = reviewed[x]
    BY <1>0, <2>1, <2>3
  <2>5. \A x \in Roles : \A a \in file'[x] : Attests(a, x)'
    BY <2>1, <2>3, <2>4 DEF Attests, RuntimeInv
  <2>. QED BY <1>0, <2>1, <2>4, <2>5, ReviewMoves
<1>3. CASE RemoveFile(s)
  <2>1. file' = [file EXCEPT ![s] = {}] /\ UNCHANGED <<now, environment, edits, signals, process, task, reviewed>>
    BY <1>3 DEF RemoveFile
  <2>2. /\ file' \in [Roles -> SUBSET Attestations] /\ file'[s] = {}
        /\ \A x \in Roles \ {s} : file'[x] = file[x]
    BY <1>0, <2>1
  <2>3. \A x \in Roles : \A a \in file'[x] : Attests(a, x)'
    BY <2>1, <2>2 DEF Attests, RuntimeInv
  <2>. QED BY <1>0, <2>1, <2>2, <2>3, ReviewMoves
<1>4. CASE Measure
  <2>1. PICK h \in BOOLEAN : signals' = [at |-> now, healthy |-> h]
    BY <1>4 DEF Measure
  <2>2. signals' \in [at : Nat \cup {-1}, healthy : BOOLEAN]
    BY <1>0, <2>1
  <2>3. UNCHANGED <<now, environment, edits, file, process, task, reviewed>>
    BY <1>4 DEF Measure
  <2>. QED BY <1>0, <2>2, <2>3, SameReviews, ReviewMoves
<1>. QED BY <1>1, <1>2, <1>3, <1>4

\* A process moves, and the tasks with it, while the clock stands.
LEMMA ProcessMoves ==
  ASSUME RuntimeWorkload, RuntimeInv, NEW s \in Roles, NEW p \in Processes,
         process' = [process EXCEPT ![s] = p], InWindow(p, now),
         UNCHANGED <<now, environment, edits, signals, file, reviewed>>,
         task' \in [Tasks -> TaskStates],
         \A t \in Tasks : HeldBy(task'[t], IF s = "worker" THEN p ELSE process["worker"])
  PROVE  RuntimeInv'
<1>1. process \in [Roles -> Processes] /\ "worker" \in Roles
  BY RuntimeFields
<1>2. /\ process' \in [Roles -> Processes] /\ process'[s] = p
      /\ \A x \in Roles \ {s} : process'[x] = process[x]
  BY <1>1
<1>3. RuntimeTypeOK'
  BY <1>2 DEF RuntimeInv, RuntimeTypeOK
<1>4. \A x \in Roles : InWindow(process[x], now)'
  <2>1. \A x \in Roles : InWindow(process'[x], now)
    BY <1>2 DEF RuntimeInv
  <2>. QED BY <2>1 DEF InWindow
<1>5. process'["worker"] = IF s = "worker" THEN p ELSE process["worker"]
  BY <1>1, <1>2
<1>6. \A t \in Tasks : HeldBy(task[t], process["worker"])'
  BY <1>5 DEF HeldBy
<1>. QED BY <1>3, <1>4, <1>6, SameReviews DEF RuntimeInv

\* What a service starts as is what was reviewed.
LEMMA StartIs ==
  ASSUME RuntimeWorkload, RuntimeInv, NEW s \in Roles, StartsAs(s, environment[s]) = "internal"
  PROVE  LET e == environment[s] r == LoadInternalRuntime(e)
         IN  /\ e.class = "internal" /\ r.role = s /\ IsCurrentWindow(r, now)
             /\ r.providers = Plan.providers
             /\ \E v \in reviewed[s] : v.runtime = r /\ v.at <= now /\ now <= v.at + 1
<1> DEFINE e == environment[s]
           r == LoadInternalRuntime(e)
<1>1. /\ e \in Environments /\ file[s] \subseteq Attestations /\ reviewed[s] \subseteq Reviewed /\ now \in Nat
  BY RuntimeFields
<1>2. r.class = e.class
  BY <1>1, LoadedIs
<1>3. /\ r.class = "internal" /\ r.role = s /\ IsCurrentWindow(r, now)
      /\ \E a \in file[s] : /\ a.issuedAt <= now /\ now < a.expiresAt /\ Matches(a, r)
  BY DEF StartsAs
<1>4. PICK a \in file[s] : a.issuedAt <= now /\ now < a.expiresAt /\ a.runtime = r
  BY <1>3 DEF Matches
<1>5. a.expiresAt = a.issuedAt + 1 /\ r.providers = Plan.providers
      /\ \E v \in reviewed[s] : v.runtime = r /\ v.at = a.issuedAt
  BY <1>4 DEF RuntimeInv, Attests
<1>6. a.issuedAt \in Nat
  BY <1>1 DEF Attestations
<1> HIDE DEF r
<1>7. \E v \in reviewed[s] : v.runtime = r /\ v.at <= now /\ now <= v.at + 1
  BY <1>1, <1>4, <1>5, <1>6
<1>. QED BY <1>2, <1>3, <1>5, <1>7 DEF r

LEMMA StartSteps ==
  ASSUME RuntimeWorkload, RuntimeInv, NEW s \in Roles, StartProcess(s)
  PROVE  RuntimeInv'
<1> DEFINE e == environment[s]
           kind == StartsAs(s, e)
           r == LoadInternalRuntime(e)
           p == ServiceProcess("starting", kind, r, WorkerProviders(e), WindowEnd(e))
<1>1. /\ process[s].phase = "down" /\ kind # "refused" /\ process' = [process EXCEPT ![s] = p]
      /\ UNCHANGED <<now, environment, edits, signals, file, task, reviewed>>
  BY DEF StartProcess
<1>2. kind \in {"public", "internal"}
  BY <1>1 DEF StartsAs
<1>3. e \in Environments /\ now \in Nat /\ task \in [Tasks -> TaskStates]
  BY RuntimeFields
<1>4. /\ r \in Environments /\ r.to = e.to /\ r.from = e.from /\ e.to \in Nat /\ e.from \in Nat
      /\ e.providers \in SUBSET STRING
  BY <1>3, LoadedIs DEF Environments
<1>5. WindowEnd(e) \in Nat \cup {-1} /\ (e.class = "internal" => WindowEnd(e) = e.to)
  BY <1>4 DEF WindowEnd
<1>6. kind = "internal" => e.class = "internal" /\ IsCurrentWindow(r, now)
  BY StartIs
<1>7. /\ p \in Processes /\ p.phase = "starting" /\ p.kind = kind /\ p.runtime = r /\ p.end = WindowEnd(e)
  <2> HIDE DEF kind, r
  <2>. QED BY <1>2, <1>4, <1>5, ProcessIs DEF WorkerProviders
<1> HIDE DEF p, kind, r
<1>8. InWindow(p, now)
  BY <1>3, <1>4, <1>5, <1>6, <1>7 DEF InWindow, IsCurrentWindow
<1>9. \A t \in Tasks : HeldBy(task'[t], IF s = "worker" THEN p ELSE process["worker"])
  BY <1>1 DEF RuntimeInv, HeldBy
<1>. QED BY <1>1, <1>3, <1>7, <1>8, <1>9, ProcessMoves

LEMMA ServeSteps ==
  ASSUME RuntimeWorkload, RuntimeInv, NEW s \in Roles, Serve(s) \/ Close(s)
  PROVE  RuntimeInv'
<1> DEFINE q == process[s]
<1>1. PICK phase \in {"serving", "closing"} :
        /\ ProcessGoes(s, phase)
        /\ phase = "serving" => q.phase = "starting"
        /\ phase = "closing" => q.phase = "serving"
        /\ UNCHANGED <<now, environment, edits, signals, file, task, reviewed>>
  BY DEF Serve, Close
<1> DEFINE p == ServiceProcess(phase, q.kind, q.runtime, q.providers, q.end)
<1>2. process' = [process EXCEPT ![s] = p]
  BY <1>1 DEF ProcessGoes
<1>3. q \in Processes /\ task \in [Tasks -> TaskStates]
  BY RuntimeFields
<1>4. p \in Processes /\ p.phase = phase /\ p.kind = q.kind /\ p.runtime = q.runtime /\ p.end = q.end
  BY <1>3, ProcessFields, ProcessIs
<1> HIDE DEF p
<1>5. InWindow(p, now)
  BY <1>1, <1>4 DEF InWindow, RuntimeInv
<1>6. \A t \in Tasks : HeldBy(task'[t], IF s = "worker" THEN p ELSE process["worker"])
  BY <1>1, <1>4 DEF RuntimeInv, HeldBy
<1>. QED BY <1>1, <1>2, <1>3, <1>4, <1>5, <1>6, ProcessMoves

LEMMA EndSteps ==
  ASSUME RuntimeWorkload, RuntimeInv, NEW s \in Roles, EndProcess(s) \/ KillProcess(s)
  PROVE  RuntimeInv'
<1>1. process' = [process EXCEPT ![s] = Down] /\ UNCHANGED <<now, environment, edits, signals, file, reviewed>>
  BY DEF EndProcess, KillProcess
<1>2. Down \in Processes /\ InWindow(Down, now)
  BY DownIs DEF InWindow
<1>3. task \in [Tasks -> TaskStates]
  BY RuntimeFields
<1>4. task' \in [Tasks -> TaskStates]
      /\ \A t \in Tasks : task'[t].at = "active" => task'[t] = task[t] /\ s # "worker"
  <2>1. CASE EndProcess(s)
    BY <1>3, <2>1 DEF EndProcess, InHand, Roles
  <2>2. CASE KillProcess(s)
    <3>1. task' = [t \in Tasks |->
            IF t \notin InHand(s) THEN task[t]
            ELSE IF s = "api" THEN Plainly("lost") ELSE Task("queued", task[t].queue, 0)]
      BY <2>2 DEF KillProcess
    <3>2. Plainly("lost") \in TaskStates /\ Plainly("lost").at = "lost"
      BY PlainIs
    <3>3. \A t \in Tasks : Task("queued", task[t].queue, 0) \in TaskStates /\ Task("queued", task[t].queue, 0).at = "queued"
      BY <1>3, TaskIs, TaskFields
    <3>4. \A t \in Tasks : s = "worker" /\ t \notin InHand(s) => task[t].at # "active"
      BY DEF InHand
    <3>. QED BY <1>3, <3>1, <3>2, <3>3, <3>4
  <2>. QED BY <2>1, <2>2
<1>5. \A t \in Tasks : HeldBy(task'[t], IF s = "worker" THEN Down ELSE process["worker"])
  BY <1>4 DEF RuntimeInv, HeldBy
<1>. QED BY <1>1, <1>2, <1>4, <1>5, ProcessMoves

LEMMA TaskSteps ==
  ASSUME RuntimeWorkload, RuntimeInv, NEW t \in Tasks,
         Receive(t) \/ Enqueue(t) \/ Refuse(t) \/ Take(t) \/ FinishTask(t)
  PROVE  RuntimeInv'
<1>0. /\ now \in Nat /\ process \in [Roles -> Processes] /\ task \in [Tasks -> TaskStates]
      /\ "api" \in Roles /\ "worker" \in Roles
  BY RuntimeFields
<1>1. UNCHANGED <<now, environment, edits, signals, file, process, reviewed>>
  BY DEF Receive, Enqueue, Refuse, Take, FinishTask
<1>2. PICK x \in TaskStates : task' = [task EXCEPT ![t] = x] /\ HeldBy(x, process["worker"])
  <2>1. CASE Receive(t)
    BY <2>1, PlainIs DEF Receive, HeldBy
  <2>2. CASE Enqueue(t)
    <3>1. process["api"].runtime.queue \in STRING \cup {NoQueue}
      BY <1>0, ProcessFields DEF Environments, NoRuntime
    <3> DEFINE y == Task("queued", process["api"].runtime.queue, 0)
    <3>2. y \in TaskStates /\ y.at = "queued"
      BY <3>1, TaskIs
    <3>3. task' = [task EXCEPT ![t] = y]
      BY <2>2 DEF Enqueue
    <3> HIDE DEF y
    <3>. QED BY <3>2, <3>3 DEF HeldBy
  <2>3. CASE Refuse(t)
    BY <2>3, PlainIs DEF Refuse, HeldBy
  <2>4. CASE Take(t)
    <3> DEFINE y == Task("active", task[t].queue, now)
               w == process["worker"]
    <3>1. y \in TaskStates /\ y.takenAt = now
      BY <1>0, TaskIs, TaskFields
    <3>2. task' = [task EXCEPT ![t] = y] /\ w.phase = "serving"
      BY <2>4 DEF Take
    <3> HIDE DEF y
    <3>3. HeldBy(y, w)
      BY <1>0, <3>1, <3>2 DEF HeldBy, RuntimeInv, InWindow
    <3>. QED BY <3>1, <3>2, <3>3
  <2>5. CASE FinishTask(t)
    BY <2>5, PlainIs DEF FinishTask, HeldBy
  <2>. QED BY <2>1, <2>2, <2>3, <2>4, <2>5
<1>3. task' \in [Tasks -> TaskStates] /\ task'[t] = x /\ \A y \in Tasks \ {t} : task'[y] = task[y]
  BY <1>0, <1>2
<1>4. RuntimeTypeOK'
  BY <1>1, <1>3 DEF RuntimeInv, RuntimeTypeOK
<1>5. /\ \A s \in Roles : InWindow(process[s], now)'
      /\ \A y \in Tasks : HeldBy(task[y], process["worker"])'
  BY <1>1, <1>2, <1>3 DEF RuntimeInv, InWindow, HeldBy
<1>. QED BY <1>1, <1>4, <1>5, SameReviews DEF RuntimeInv

LEMMA TickSteps ==
  ASSUME RuntimeWorkload, RuntimeInv, Tick
  PROVE  RuntimeInv'
<1>1. /\ UNCHANGED <<environment, edits, signals, file, process, task, reviewed>>
      /\ now' = now + 1 /\ now < LastTick /\ now \in Nat
  BY RuntimeFields DEF Tick
<1>2. RuntimeTypeOK'
  BY <1>1 DEF RuntimeInv, RuntimeTypeOK, RuntimeWorkload
<1>3. ASSUME NEW s \in Roles
      PROVE  InWindow(process[s], now)'
  <2>1. process[s].phase # "starting" /\ ~TimerDue(s)
    BY DEF Tick
  <2>2. process[s].end \in Nat \cup {-1}
    BY RuntimeFields, ProcessFields
  <2>3. InWindow(process[s], now)
    BY DEF RuntimeInv
  <2>. QED BY <1>1, <2>1, <2>2, <2>3 DEF InWindow, TimerDue
<1>4. \A t \in Tasks : HeldBy(task[t], process["worker"])'
  BY <1>1 DEF RuntimeInv, HeldBy
<1>. QED BY <1>1, <1>2, <1>3, <1>4, SameReviews DEF RuntimeInv

LEMMA RuntimeBegins ==
  ASSUME RuntimeWorkload, RuntimeInit
  PROVE  RuntimeInv
<1>1. environment \in [Roles -> Environments]
  <2>1. environment \in [Roles -> UNION {EnvironmentOf[s] : s \in Roles}]
        /\ \A s \in Roles : environment[s] \in EnvironmentOf[s]
    BY DEF RuntimeInit
  <2>. QED BY <2>1 DEF RuntimeWorkload
<1>2. process \in [Roles -> Processes] /\ \A s \in Roles : process[s] = Down
  BY DownIs DEF RuntimeInit
<1>3. task \in [Tasks -> TaskStates] /\ \A t \in Tasks : task[t].at = "new"
  BY PlainIs DEF RuntimeInit
<1>4. /\ now \in 0..LastTick /\ edits \in 0..EditBound /\ signals \in [at : Nat \cup {-1}, healthy : BOOLEAN]
      /\ file \in [Roles -> SUBSET Attestations] /\ reviewed \in [Roles -> SUBSET Reviewed]
      /\ \A s \in Roles : file[s] = {}
  BY DEF RuntimeInit, RuntimeWorkload
<1>5. \A s \in Roles : InWindow(process[s], now)
  BY <1>2, DownIs DEF InWindow
<1>. QED BY <1>1, <1>2, <1>3, <1>4, <1>5 DEF RuntimeInv, RuntimeTypeOK, HeldBy

LEMMA RuntimeSteps ==
  ASSUME RuntimeWorkload, RuntimeInv, [RuntimeNext]_runtimeVars
  PROVE  RuntimeInv'
<1>1. CASE UNCHANGED runtimeVars
  BY <1>1, SameReviews DEF runtimeVars, RuntimeInv, RuntimeTypeOK, InWindow, HeldBy
<1>2. CASE RuntimeNext
  <2>1. "api" \in Roles
    BY DEF Roles
  <2>. QED BY <1>2, <2>1, ReviewSteps, StartSteps, ServeSteps, EndSteps, TaskSteps, TickSteps DEF RuntimeNext
<1>. QED BY <1>1, <1>2

\* The types of the runtime, with what attestations, clocks and jobs rest on,
\* hold in every reachable state.
THEOREM RuntimeInvariant ==
  ASSUME RuntimeWorkload
  PROVE  RuntimeSpec => []RuntimeInv
<1>1. RuntimeInit => RuntimeInv
  BY RuntimeBegins
<1>2. RuntimeInv /\ [RuntimeNext]_runtimeVars => RuntimeInv'
  BY RuntimeSteps
<1>. QED BY <1>1, <1>2, PTL DEF RuntimeSpec

\* An internal Worker takes no job after its window, whatever is edited,
\* stopped, killed or left in a queue.
THEOREM WorkersStayInWindow ==
  ASSUME RuntimeWorkload
  PROVE  RuntimeSpec => []WorkStaysInWindow
<1>1. RuntimeInv => WorkStaysInWindow
  BY DEF RuntimeInv, HeldBy, WorkStaysInWindow
<1>. QED BY <1>1, RuntimeInvariant, PTL

\* A process starts as internal only as its role's last ready review found it.
THEOREM ProcessesStartAsReviewed ==
  ASSUME RuntimeWorkload
  PROVE  RuntimeSpec => StartedAsReviewed
<1>1. RuntimeInv /\ [RuntimeNext]_runtimeVars => [StartsAsReviewed]_runtimeVars
  <2>1. SUFFICES ASSUME RuntimeInv, RuntimeNext, NEW s \in Roles, process[s].phase = "down",
                        process'[s].phase = "starting", process'[s].kind = "internal"
                 PROVE  LET p == process'[s]
                        IN  /\ p.runtime.role = s
                            /\ p.providers \cap KnownProviders = Plan.providers
                            /\ IsCurrentWindow(p.runtime, now)
                            /\ \E v \in reviewed[s] : v.runtime = p.runtime /\ v.at <= now /\ now <= v.at + 1
    BY DEF StartsAsReviewed
  <2>0. process \in [Roles -> Processes]
    BY <2>1, RuntimeFields
  <2>2. StartProcess(s)
    <3>1. process' # process
      BY <2>1
    <3>2. PICK x \in Roles : StartProcess(x) \/ Serve(x) \/ Close(x) \/ EndProcess(x) \/ KillProcess(x)
      BY <2>1, <3>1 DEF RuntimeNext, EditEnvironment, Preflight, RemoveFile, Receive, Enqueue, Refuse,
                        Take, FinishTask, Measure, Tick
    <3>3. x = s
      <4>1. ASSUME x # s PROVE process'[s] = process[s]
        BY <2>0, <3>2, <4>1 DEF StartProcess, Serve, Close, EndProcess, KillProcess, ProcessGoes
      <4>. QED BY <2>1, <4>1
    <3>4. ~Serve(s) /\ ~Close(s)
      BY <2>1 DEF Serve, Close
    <3>5. ~(EndProcess(s) \/ KillProcess(s))
      <4>1. EndProcess(s) \/ KillProcess(s) => process'[s] = Down
        BY <2>0 DEF EndProcess, KillProcess
      <4>. QED BY <2>1, <4>1, DownIs
    <3>. QED BY <3>2, <3>3, <3>4, <3>5
  <2> DEFINE e == environment[s]
             r == LoadInternalRuntime(e)
  <2>3. process'[s] = ServiceProcess("starting", StartsAs(s, e), r, WorkerProviders(e), WindowEnd(e))
    BY <2>0, <2>2 DEF StartProcess
  <2>4. process'[s].kind = StartsAs(s, e) /\ process'[s].runtime = r /\ process'[s].providers = e.providers
    BY <2>3, ProcessIs DEF WorkerProviders
  <2>5. StartsAs(s, e) = "internal"
    BY <2>1, <2>4
  <2>6. e \in Environments
    BY <2>1, RuntimeFields
  <2>7. r.providers = e.providers \cap KnownProviders
    BY <2>6, LoadedIs
  <2>8. /\ r.role = s /\ IsCurrentWindow(r, now) /\ r.providers = Plan.providers
        /\ \E v \in reviewed[s] : v.runtime = r /\ v.at <= now /\ now <= v.at + 1
    BY <2>1, <2>5, StartIs
  <2> HIDE DEF r
  <2>. QED BY <2>4, <2>7, <2>8
<1>. QED BY <1>1, RuntimeInvariant, PTL DEF RuntimeSpec, StartedAsReviewed

---------------------------------------------------------------------------
(* The production release.  The steps of every command, and what comes     *)
(* before what in them.                                                    *)

\* Steps without the three that the properties tell apart.
Plain(s) == s \in Seq(StepNames) /\ \A i \in 1..Len(s) : s[i] \notin {"lock", "admin", "migration"}

\* A migration comes once, after the safety check.
Migrates(s) ==
  /\ s \in Seq(StepNames) /\ \A i \in 1..Len(s) : s[i] \notin {"lock", "admin"}
  /\ \A j \in 1..Len(s) : s[j] = "migration" =>
       /\ \E i \in 1..(j - 1) : s[i] = "safety"
       /\ \A k \in 1..Len(s) : s[k] = "migration" => k = j

\* Nothing comes between a started Admin and the checks of it.
OpensChecked(s) ==
  /\ s \in Seq(StepNames) /\ \A i \in 1..Len(s) : s[i] \notin {"lock", "migration"}
  /\ \A j \in 1..Len(s) : s[j] = "admin" => Len(s) = j + 2 /\ s[j + 1] = "mode" /\ s[j + 2] = "open gate"

LEMMA Concatenated ==
  ASSUME NEW s \in Seq(StepNames), NEW t \in Seq(StepNames)
  PROVE  /\ s \o t \in Seq(StepNames) /\ Len(s \o t) = Len(s) + Len(t)
         /\ \A i \in 1..Len(s) : (s \o t)[i] = s[i]
         /\ \A i \in 1..(Len(s) + Len(t)) : i > Len(s) => (s \o t)[i] = t[i - Len(s)]
         /\ Len(s) \in Nat /\ Len(t) \in Nat
BY ConcatProperties, LenProperties

LEMMA PlainConcat ==
  ASSUME NEW s, NEW t, Plain(s), Plain(t)
  PROVE  Plain(s \o t)
<1>1. ASSUME NEW i \in 1..Len(s \o t) PROVE (s \o t)[i] \notin {"lock", "admin", "migration"}
  <2>0. Len(s) \in Nat /\ Len(t) \in Nat /\ Len(s \o t) = Len(s) + Len(t)
    BY Concatenated DEF Plain
  <2>1. CASE i <= Len(s)
    BY <2>0, <2>1, Concatenated DEF Plain
  <2>2. CASE i > Len(s)
    <3>1. (s \o t)[i] = t[i - Len(s)] /\ i - Len(s) \in 1..Len(t)
      BY <2>0, <2>2, Concatenated DEF Plain
    <3>. QED BY <3>1 DEF Plain
  <2>. QED BY <2>0, <2>1, <2>2
<1>. QED BY <1>1, Concatenated DEF Plain

PlainNames == StepNames \ {"lock", "admin", "migration"}

LEMMA PlainSteps ==
  ASSUME NEW x \in PlainNames, NEW y \in PlainNames
  PROVE  Plain(<<>>) /\ Plain(<<x>>) /\ Plain(<<x, y>>)
BY DEF Plain, PlainNames

LEMMA NamesArePlain ==
  /\ "validate" \in PlainNames /\ "gate" \in PlainNames /\ "safety" \in PlainNames
  /\ "pull" \in PlainNames /\ "postgres" \in PlainNames /\ "redis" \in PlainNames
  /\ "api" \in PlainNames /\ "delivery" \in PlainNames /\ "worker" \in PlainNames
  /\ "web" \in PlainNames /\ "verify" \in PlainNames /\ "confirmed" \in PlainNames
  /\ "cobalt" \in PlainNames /\ "ytdlp" \in PlainNames /\ "qualify" \in PlainNames
  /\ "stop cobalt" \in PlainNames /\ "stop admin" \in PlainNames /\ "closed gate" \in PlainNames
  /\ "account" \in PlainNames
BY DEF PlainNames, StepNames, Quiet, NeedDatabase

LEMMA PlainThree ==
  ASSUME NEW x \in PlainNames, NEW y \in PlainNames, NEW z \in PlainNames
  PROVE  Plain(<<x, y, z>>)
<1>1. <<x, y, z>> = <<x>> \o <<y, z>>
  OBVIOUS
<1>. QED BY <1>1, PlainSteps, PlainConcat

LEMMA PlainFour ==
  ASSUME NEW x \in PlainNames, NEW y \in PlainNames, NEW z \in PlainNames, NEW w \in PlainNames
  PROVE  Plain(<<x, y, z, w>>)
<1>1. <<x, y, z, w>> = <<x, y>> \o <<z, w>>
  OBVIOUS
<1>. QED BY <1>1, PlainSteps, PlainConcat

LEMMA PlainFive ==
  ASSUME NEW x \in PlainNames, NEW y \in PlainNames, NEW z \in PlainNames, NEW w \in PlainNames,
         NEW v \in PlainNames
  PROVE  Plain(<<x, y, z, w, v>>)
<1>1. <<x, y, z, w, v>> = <<x, y>> \o <<z, w, v>>
  OBVIOUS
<1>. QED BY <1>1, PlainSteps, PlainThree, PlainConcat

\* What is plain may follow a migration.
LEMMA MigratesConcat ==
  ASSUME NEW s, NEW t, Migrates(s), Plain(t)
  PROVE  Migrates(s \o t)
<1>0. /\ Len(s) \in Nat /\ Len(t) \in Nat /\ Len(s \o t) = Len(s) + Len(t) /\ s \o t \in Seq(StepNames)
      /\ \A i \in 1..Len(s) : (s \o t)[i] = s[i]
      /\ \A i \in 1..Len(s \o t) : i > Len(s) => (s \o t)[i] = t[i - Len(s)]
  BY Concatenated DEF Migrates, Plain
<1>1. \A i \in 1..Len(s \o t) : i > Len(s) => (s \o t)[i] \notin {"lock", "admin", "migration"}
  <2>1. ASSUME NEW i \in 1..Len(s \o t), i > Len(s) PROVE (s \o t)[i] \notin {"lock", "admin", "migration"}
    <3>1. i - Len(s) \in 1..Len(t)
      BY <1>0, <2>1
    <3>. QED BY <1>0, <2>1, <3>1 DEF Plain
  <2>. QED BY <2>1
<1>2. \A i \in 1..Len(s \o t) : (s \o t)[i] \notin {"lock", "admin"}
  BY <1>0, <1>1 DEF Migrates
<1>3. ASSUME NEW j \in 1..Len(s \o t), (s \o t)[j] = "migration"
      PROVE  /\ \E i \in 1..(j - 1) : (s \o t)[i] = "safety"
             /\ \A k \in 1..Len(s \o t) : (s \o t)[k] = "migration" => k = j
  <2>1. j \in 1..Len(s) /\ s[j] = "migration"
    BY <1>0, <1>1, <1>3
  <2>2. /\ \E i \in 1..(j - 1) : s[i] = "safety"
        /\ \A k \in 1..Len(s) : s[k] = "migration" => k = j
    BY <2>1 DEF Migrates
  <2>3. \A i \in 1..(j - 1) : i \in 1..Len(s)
    BY <1>0, <2>1
  <2>. QED BY <1>0, <1>1, <2>2, <2>3
<1>. QED BY <1>0, <1>2, <1>3 DEF Migrates

\* A migration that the safety check precedes.
LEMMA MigratesAfter ==
  ASSUME NEW s, Plain(s), \E i \in 1..Len(s) : s[i] = "safety"
  PROVE  Migrates(s \o <<"migration", "gate">>)
<1> DEFINE t == <<"migration", "gate">>
<1>1. t \in Seq(StepNames) /\ Len(t) = 2 /\ t[1] = "migration" /\ t[2] = "gate"
  BY DEF StepNames
<1> HIDE DEF t
<1>2. /\ Len(s) \in Nat /\ Len(s \o t) = Len(s) + 2 /\ s \o t \in Seq(StepNames)
      /\ \A i \in 1..Len(s) : (s \o t)[i] = s[i]
      /\ (s \o t)[Len(s) + 1] = "migration" /\ (s \o t)[Len(s) + 2] = "gate"
  <2>1. Len(s) \in Nat /\ Len(s \o t) = Len(s) + 2 /\ s \o t \in Seq(StepNames)
        /\ \A i \in 1..Len(s) : (s \o t)[i] = s[i]
    <3>1. s \in Seq(StepNames) /\ t \in Seq(StepNames)
      BY <1>1 DEF Plain
    <3>2. Len(s \o t) = Len(s) + Len(t)
      BY <3>1, Concatenated
    <3>. QED BY <1>1, <3>1, <3>2, Concatenated
  <2>2. Len(s) + 1 \in 1..(Len(s) + Len(t)) /\ Len(s) + 2 \in 1..(Len(s) + Len(t))
        /\ (Len(s) + 1) - Len(s) = 1 /\ (Len(s) + 2) - Len(s) = 2
    BY <1>1, <2>1
  <2>. QED BY <1>1, <2>1, <2>2, Concatenated DEF Plain
<1>3. \A i \in 1..Len(s \o t) : i \in 1..Len(s) \/ i = Len(s) + 1 \/ i = Len(s) + 2
  BY <1>2
<1>4. \A i \in 1..Len(s) : s[i] \notin {"lock", "admin", "migration"}
  BY DEF Plain
<1>5. \A i \in 1..Len(s \o t) : (s \o t)[i] \notin {"lock", "admin"} /\ ((s \o t)[i] = "migration" => i = Len(s) + 1)
  BY <1>2, <1>3, <1>4
<1>6. \A i \in 1..Len(s) : i \in 1..((Len(s) + 1) - 1)
  BY <1>2
<1>. QED BY <1>2, <1>5, <1>6 DEF Migrates, t

LEMMA PlainMigrates ==
  ASSUME NEW s, Plain(s)
  PROVE  Migrates(s) /\ OpensChecked(s)
BY DEF Plain, Migrates, OpensChecked

LEMMA StagedIsPlain ==
  /\ Plain(Staged("postgres")) /\ Plain(Staged("redis")) /\ Plain(Staged("api"))
  /\ Plain(Staged("delivery")) /\ Plain(Staged("worker")) /\ Plain(Staged("web"))
BY NamesArePlain, PlainSteps DEF Staged

LEMMA OptionalIsPlain ==
  ASSUME NEW f
  PROVE  /\ Plain(Cobalt(f)) /\ Plain(YtDlp(f))
         /\ Plain(Optional(Cobalt(f))) /\ Plain(Optional(YtDlp(f)))
<1>1. Plain(<<>>) /\ Plain(<<"cobalt">>) /\ Plain(<<"ytdlp">>) /\ Plain(<<"pull">>) /\ Plain(<<"gate">>)
  BY NamesArePlain, PlainSteps
<1>2. ASSUME NEW s, Plain(s) PROVE Plain(Optional(s))
  <2>1. Plain(<<"pull">> \o s \o <<"gate">>)
    BY <1>1, <1>2, PlainConcat
  <2>. QED BY <1>1, <2>1 DEF Optional, When
<1>3. Plain(Cobalt(f)) /\ Plain(YtDlp(f))
  BY <1>1 DEF Cobalt, YtDlp, When
<1>. QED BY <1>2, <1>3

LEMMA DeployMigrates ==
  ASSUME NEW f
  PROVE  Migrates(DeploySteps(f))
<1> DEFINE a == <<"validate", "gate", "safety", "pull", "gate">>
           b == a \o Staged("postgres")
           e == b \o Staged("redis")
           m == e \o <<"migration", "gate">>
           g == m \o Staged("api") \o Staged("delivery")
<1>1. Plain(a)
  BY NamesArePlain, PlainFive
<1>2. a \in Seq(StepNames) /\ Len(a) = 5 /\ a[3] = "safety"
  <2>1. Len(a) = 5 /\ a[3] = "safety"
    OBVIOUS
  <2>. QED BY <1>1, <2>1 DEF Plain
<1> HIDE DEF a
<1>3. Plain(b) /\ Plain(e)
  BY <1>1, StagedIsPlain, PlainConcat
<1>4. 3 \in 1..Len(b) /\ b[3] = "safety"
  <2>1. Staged("postgres") \in Seq(StepNames)
    BY StagedIsPlain DEF Plain
  <2>2. Len(b) = Len(a) + Len(Staged("postgres")) /\ Len(Staged("postgres")) \in Nat
        /\ \A i \in 1..Len(a) : b[i] = a[i]
    BY <1>2, <2>1, Concatenated
  <2>3. 3 \in 1..Len(a) /\ 3 \in 1..Len(b)
    BY <1>2, <2>2
  <2>. QED BY <1>2, <2>2, <2>3
<1>5. 3 \in 1..Len(e) /\ e[3] = "safety"
  <2>1. Staged("redis") \in Seq(StepNames) /\ b \in Seq(StepNames)
    BY <1>3, StagedIsPlain DEF Plain
  <2> HIDE DEF b
  <2>2. Len(e) = Len(b) + Len(Staged("redis")) /\ Len(Staged("redis")) \in Nat /\ Len(b) \in Nat
        /\ \A i \in 1..Len(b) : e[i] = b[i]
    BY <2>1, Concatenated
  <2>3. 3 \in 1..Len(e)
    BY <1>4, <2>2
  <2>. QED BY <1>4, <2>2, <2>3
<1> HIDE DEF e
<1>6. Migrates(m)
  BY <1>3, <1>5, MigratesAfter
<1> HIDE DEF m
<1>7. Migrates(g)
  BY <1>6, StagedIsPlain, MigratesConcat
<1> HIDE DEF g
<1>8. Plain(<<"verify", "gate">>)
  BY NamesArePlain, PlainSteps
<1>9. Migrates(g \o Optional(Cobalt(f)) \o Optional(YtDlp(f)))
  BY <1>7, OptionalIsPlain, MigratesConcat
<1>10. Migrates(g \o Optional(Cobalt(f)) \o Optional(YtDlp(f)) \o Staged("worker") \o Staged("web"))
  BY <1>9, StagedIsPlain, MigratesConcat
<1>11. Migrates(g \o Optional(Cobalt(f)) \o Optional(YtDlp(f)) \o Staged("worker") \o Staged("web")
                  \o <<"verify", "gate">>)
  BY <1>8, <1>10, MigratesConcat
<1>. QED BY <1>11 DEF DeploySteps, a, b, e, m, g

LEMMA FiveSteps ==
  ASSUME NEW x \in StepNames, NEW y \in StepNames, NEW z \in StepNames, NEW w \in StepNames,
         NEW v \in StepNames
  PROVE  <<x, y, z, w, v>> \in Seq(StepNames)
<1>1. <<x, y>> \in Seq(StepNames) /\ <<z, w, v>> \in Seq(StepNames)
  OBVIOUS
<1>2. <<x, y, z, w, v>> = <<x, y>> \o <<z, w, v>>
  OBVIOUS
<1>. QED BY <1>1, <1>2, ConcatProperties

LEMMA AdminOpensChecked ==
  ASSUME NEW c
  PROVE  OpensChecked(AdminSteps(c))
<1>1. Plain(<<"stop admin", "closed gate">>) /\ Plain(<<"validate", "account">>)
  BY NamesArePlain, PlainSteps
<1> DEFINE s == <<"validate", "pull", "admin", "mode", "open gate">>
<1>3. /\ s \in Seq(StepNames) /\ Len(s) = 5 /\ s[1] = "validate" /\ s[2] = "pull" /\ s[3] = "admin"
      /\ s[4] = "mode" /\ s[5] = "open gate"
  <2>1. /\ "validate" \in StepNames /\ "pull" \in StepNames /\ "admin" \in StepNames
        /\ "mode" \in StepNames /\ "open gate" \in StepNames
    BY DEF StepNames, Quiet
  <2>2. s \in Seq(StepNames)
    BY <2>1, FiveSteps
  <2>3. /\ Len(s) = 5 /\ s[1] = "validate" /\ s[2] = "pull" /\ s[3] = "admin"
        /\ s[4] = "mode" /\ s[5] = "open gate"
    OBVIOUS
  <2>. QED BY <2>2, <2>3
<1> HIDE DEF s
<1>4. OpensChecked(s)
  <2>1. \A i \in 1..5 : i = 1 \/ i = 2 \/ i = 3 \/ i = 4 \/ i = 5
    OBVIOUS
  <2>2. \A i \in 1..5 : s[i] \notin {"lock", "migration"} /\ (s[i] = "admin" => i = 3)
    BY <1>3, <2>1
  <2>0. 3 + 1 = 4 /\ 3 + 2 = 5
    OBVIOUS
  <2>3. 3 + 2 = 5 /\ s[3 + 1] = "mode" /\ s[3 + 2] = "open gate"
    BY <1>3, <2>0
  <2>. QED BY <1>3, <2>2, <2>3 DEF OpensChecked
<1>. QED BY <1>1, <1>4, PlainMigrates DEF AdminSteps, s

\* The migration comes after a safety check that is still to be done.
Before(t) == \A j \in 1..Len(t) : t[j] = "migration" => \E i \in 1..(j - 1) : t[i] = "safety"

\* What the steps still to be done are like, whatever has been done.
Orderly(t) ==
  /\ t \in Seq(StepNames)
  /\ \A j \in 1..Len(t) : t[j] = "lock" => j = 1
  /\ \A j \in 1..Len(t) : t[j] = "admin" => Len(t) = j + 2 /\ t[j + 1] = "mode" /\ t[j + 2] = "open gate"
  /\ \A j, k \in 1..Len(t) : t[j] = "migration" /\ t[k] = "migration" => j = k

\* Nothing but checks of a started Admin is left to do.
Checking(t) ==
  \/ Len(t) = 2 /\ t[1] = "mode" /\ t[2] = "open gate"
  \/ Len(t) = 1 /\ t[1] = "open gate"

Unlocked(t) == \A j \in 1..Len(t) : t[j] # "lock"

LEMMA BodyIsOrderly ==
  ASSUME NEW t, Migrates(t) \/ OpensChecked(t)
  PROVE  Orderly(t) /\ Unlocked(t) /\ Before(t)
<1>1. CASE Migrates(t)
  BY <1>1 DEF Migrates, Orderly, Unlocked, Before
<1>2. CASE OpensChecked(t)
  BY <1>2 DEF OpensChecked, Orderly, Unlocked, Before
<1>. QED BY <1>1, <1>2

LEMMA LockComesFirst ==
  ASSUME NEW t, Orderly(t), Unlocked(t), Before(t)
  PROVE  LET s == <<"lock">> \o t
         IN  Orderly(s) /\ Len(s) >= 1 /\ s[1] = "lock" /\ Before(s)
<1> DEFINE o == <<"lock">>
           s == o \o t
<1>1. o \in Seq(StepNames) /\ Len(o) = 1 /\ t \in Seq(StepNames)
  <2>1. o \in Seq(StepNames)
    BY DEF StepNames
  <2>2. Len(o) = 1
    OBVIOUS
  <2>. QED BY <2>1, <2>2 DEF Orderly
<1>a. o[1] = "lock"
  OBVIOUS
<1> HIDE DEF o
<1>2. /\ s \in Seq(StepNames) /\ Len(s) = Len(o) + Len(t) /\ Len(t) \in Nat
      /\ \A i \in 1..Len(o) : s[i] = o[i]
      /\ \A i \in 1..(Len(o) + Len(t)) : i > Len(o) => s[i] = t[i - Len(o)]
  BY <1>1, Concatenated
<1> HIDE DEF s
<1>b. Len(s) = Len(t) + 1 /\ Len(s) >= 1
  BY <1>1, <1>2
<1>3. /\ s[1] = "lock"
      /\ \A i \in 1..Len(t) : s[i + 1] = t[i]
      /\ \A i \in 2..Len(s) : i - 1 \in 1..Len(t) /\ s[i] = t[i - 1]
  <2>1. ASSUME NEW i \in 1..Len(t) PROVE s[i + 1] = t[i]
    <3>1. i + 1 \in 1..(Len(o) + Len(t)) /\ i + 1 > Len(o) /\ (i + 1) - Len(o) = i
      BY <1>1, <1>2
    <3>. QED BY <1>2, <3>1
  <2>2. ASSUME NEW i \in 2..Len(s) PROVE i - 1 \in 1..Len(t) /\ s[i] = t[i - 1]
    <3>1. i \in 1..(Len(o) + Len(t)) /\ i > Len(o) /\ i - Len(o) = i - 1 /\ i - 1 \in 1..Len(t)
      BY <1>1, <1>2
    <3>. QED BY <1>2, <3>1
  <2>3. 1 \in 1..Len(o)
    BY <1>1
  <2>. QED BY <1>a, <1>2, <2>1, <2>2, <2>3
<1>4. \A i \in 1..Len(s) : i = 1 \/ i \in 2..Len(s)
  BY <1>b
<1>5. \A j \in 1..Len(s) : s[j] = "lock" => j = 1
  BY <1>3, <1>4 DEF Unlocked
<1>6. ASSUME NEW j \in 1..Len(s), s[j] = "admin"
      PROVE  Len(s) = j + 2 /\ s[j + 1] = "mode" /\ s[j + 2] = "open gate"
  <2>1. j - 1 \in 1..Len(t) /\ t[j - 1] = "admin"
    BY <1>3, <1>4, <1>6
  <2>2. t[(j - 1) + 1] = "mode" /\ t[(j - 1) + 2] = "open gate"
    BY <2>1 DEF Orderly
  <2>3. Len(t) = (j - 1) + 2
    BY <2>1 DEF Orderly
  <2>4. j - 1 \in 1..Len(t)
    BY <2>1
  <2>5. (j - 1) + 1 \in 1..Len(t) /\ (j - 1) + 2 \in 1..Len(t)
    BY <2>3, <2>4
  <2>6. s[((j - 1) + 1) + 1] = "mode" /\ s[((j - 1) + 2) + 1] = "open gate"
    BY <1>3, <2>2, <2>5
  <2>7. ((j - 1) + 1) + 1 = j + 1 /\ ((j - 1) + 2) + 1 = j + 2 /\ Len(s) = j + 2
    BY <1>b, <2>3
  <2>. QED BY <2>6, <2>7
<1>7. ASSUME NEW j \in 1..Len(s), NEW k \in 1..Len(s), s[j] = "migration", s[k] = "migration"
      PROVE  j = k
  <2>1. j - 1 \in 1..Len(t) /\ t[j - 1] = "migration" /\ k - 1 \in 1..Len(t) /\ t[k - 1] = "migration"
    BY <1>3, <1>4, <1>7
  <2>2. j - 1 = k - 1
    BY <2>1 DEF Orderly
  <2>. QED BY <2>2
<1>8. Before(s)
  <2>1. SUFFICES ASSUME NEW j \in 1..Len(s), s[j] = "migration"
                 PROVE  \E i \in 1..(j - 1) : s[i] = "safety"
    BY DEF Before
  <2>2. j - 1 \in 1..Len(t) /\ t[j - 1] = "migration"
    BY <1>3, <1>4, <2>1
  <2>3. PICK i \in 1..((j - 1) - 1) : t[i] = "safety"
    BY <2>2 DEF Before
  <2>4. i \in 1..Len(t) /\ i + 1 \in 1..(j - 1)
    BY <1>2, <2>2, <2>3
  <2>. QED BY <1>3, <2>3, <2>4
<1>9. Orderly(s) /\ Before(s)
  BY <1>2, <1>5, <1>6, <1>7, <1>8 DEF Orderly
<1>. QED BY <1>b, <1>3, <1>9 DEF s, o

\* The steps of every command.
LEMMA StepsAreOrderly ==
  ASSUME NEW c, NEW f
  PROVE  /\ Orderly(CommandSteps(c, f)) /\ Len(CommandSteps(c, f)) >= 1 /\ CommandSteps(c, f)[1] = "lock"
         /\ Before(CommandSteps(c, f))
<1> DEFINE work == <<"validate">> \o Cobalt(f) \o YtDlp(f) \o <<"worker", "verify">>
           probe == <<"validate", "pull", "cobalt", "verify">>
           closing == <<"validate", "stop cobalt">>
           audit == <<"validate", "verify", "pull", "cobalt", "qualify">>
           trial == <<"validate", "verify", "pull", "ytdlp", "qualify">>
           body == IF c = "deploy" THEN DeploySteps(f)
                   ELSE IF c = "rollback" THEN RollbackSteps
                   ELSE IF c = "worker-config-apply" THEN work
                   ELSE IF c = "cobalt-runtime-probe" THEN probe
                   ELSE IF c = "cobalt-runtime-stop" THEN closing
                   ELSE IF c \in {"cobalt-multimode-qualification", "cobalt-tunnel-audit"} THEN audit
                   ELSE IF c = "ytdlp-youtube-qualification" THEN trial
                   ELSE AdminSteps(c)
<1>1. CommandSteps(c, f) = <<"lock">> \o body
  BY DEF CommandSteps
<1>2. Plain(RollbackSteps)
  <2>1. Plain(<<"confirmed", "gate", "validate", "pull">>)
    BY NamesArePlain, PlainFour
  <2>. QED BY <2>1, StagedIsPlain, PlainConcat DEF RollbackSteps
<1>3. Plain(work)
  <2>1. Plain(<<"validate">>) /\ Plain(<<"worker", "verify">>)
    BY NamesArePlain, PlainSteps
  <2>. QED BY <2>1, OptionalIsPlain, PlainConcat
<1>4. Plain(probe) /\ Plain(closing) /\ Plain(audit) /\ Plain(trial)
  BY NamesArePlain, PlainSteps, PlainFour, PlainFive
<1> HIDE DEF work, probe, closing, audit, trial
<1>7. Migrates(body) \/ OpensChecked(body)
  BY <1>2, <1>3, <1>4, DeployMigrates, AdminOpensChecked, PlainMigrates
<1> HIDE DEF body
<1>8. Orderly(body) /\ Unlocked(body) /\ Before(body)
  BY <1>7, BodyIsOrderly
<1>. QED BY <1>1, <1>8, LockComesFirst

\* One step is done.
LEMMA TailIsOrderly ==
  ASSUME NEW t, Orderly(t), Len(t) >= 1
  PROVE  /\ Orderly(Tail(t)) /\ Unlocked(Tail(t)) /\ Len(Tail(t)) = Len(t) - 1 /\ Head(t) = t[1]
         /\ Before(t) /\ t[1] # "safety" => Before(Tail(t))
         /\ t[1] = "migration" => Before(Tail(t))
         /\ t[1] = "admin" => Checking(Tail(t))
         /\ Checking(t) /\ t[1] # "open gate" => Checking(Tail(t))
<1> DEFINE s == Tail(t)
<1>1. /\ s \in Seq(StepNames) /\ Len(s) = Len(t) - 1 /\ Len(t) \in Nat /\ Head(t) = t[1]
      /\ \A i \in 1..Len(s) : s[i] = t[i + 1]
  <2>1. t \in Seq(StepNames)
    BY DEF Orderly
  <2>2. t # <<>> /\ Len(t) \in Nat
    BY <2>1, EmptySeq, LenProperties
  <2>. QED BY <2>1, <2>2, HeadTailProperties
<1> HIDE DEF s
<1>2. \A i \in 1..Len(s) : i + 1 \in 1..Len(t)
  BY <1>1
<1>3. Unlocked(s)
  <2>1. SUFFICES ASSUME NEW j \in 1..Len(s), s[j] = "lock" PROVE FALSE
    BY DEF Unlocked
  <2>2. j + 1 = 1
    BY <1>1, <1>2, <2>1 DEF Orderly
  <2>. QED BY <2>2
<1>4. ASSUME NEW j \in 1..Len(s), s[j] = "admin"
      PROVE  Len(s) = j + 2 /\ s[j + 1] = "mode" /\ s[j + 2] = "open gate"
  <2>1. t[j + 1] = "admin" /\ j + 1 \in 1..Len(t)
    BY <1>1, <1>2, <1>4
  <2>2. t[(j + 1) + 1] = "mode" /\ t[(j + 1) + 2] = "open gate"
    BY <2>1 DEF Orderly
  <2>3. Len(t) = (j + 1) + 2
    BY <2>1 DEF Orderly
  <2>4. Len(s) = j + 2 /\ j + 1 \in 1..Len(s) /\ j + 2 \in 1..Len(s) /\ (j + 1) + 2 = (j + 2) + 1
    BY <1>1, <2>3
  <2>. QED BY <1>1, <2>2, <2>4
<1>5. ASSUME NEW j \in 1..Len(s), NEW k \in 1..Len(s), s[j] = "migration", s[k] = "migration"
      PROVE  j = k
  <2>1. j + 1 = k + 1
    BY <1>1, <1>2, <1>5 DEF Orderly
  <2>. QED BY <2>1
<1>6. Orderly(s)
  BY <1>1, <1>3, <1>4, <1>5 DEF Orderly, Unlocked
<1>7. ASSUME Before(t), t[1] # "safety"
      PROVE  Before(s)
  <2>1. SUFFICES ASSUME NEW j \in 1..Len(s), s[j] = "migration"
                 PROVE  \E i \in 1..(j - 1) : s[i] = "safety"
    BY DEF Before
  <2>2. PICK i \in 1..((j + 1) - 1) : t[i] = "safety"
    BY <1>1, <1>2, <1>7, <2>1 DEF Before
  <2>3. i # 1 /\ i - 1 \in 1..(j - 1) /\ i - 1 \in 1..Len(s) /\ (i - 1) + 1 = i
    BY <1>7, <2>2
  <2>. QED BY <1>1, <2>2, <2>3
<1>8. ASSUME t[1] = "migration"
      PROVE  Before(s)
  <2>1. ASSUME NEW j \in 1..Len(s), s[j] = "migration" PROVE FALSE
    <3>1. 1 \in 1..Len(t) /\ j + 1 \in 1..Len(t) /\ t[j + 1] = "migration"
      BY <1>1, <1>2, <2>1
    <3>2. j + 1 = 1
      BY <1>8, <3>1 DEF Orderly
    <3>. QED BY <3>2
  <2>. QED BY <2>1 DEF Before
<1>9. t[1] = "admin" => Checking(s)
  <2>1. SUFFICES ASSUME t[1] = "admin" PROVE Checking(s)
    OBVIOUS
  <2>2. 1 \in 1..Len(t)
    BY <1>1
  <2>3. t[1 + 1] = "mode" /\ t[1 + 2] = "open gate"
    BY <2>1, <2>2 DEF Orderly
  <2>4. Len(t) = 1 + 2
    BY <2>1, <2>2 DEF Orderly
  <2>5. Len(s) = 2 /\ 1 \in 1..Len(s) /\ 2 \in 1..Len(s) /\ 1 + 2 = 2 + 1
    BY <1>1, <2>4
  <2>6. s[1] = "mode" /\ s[2] = "open gate"
    BY <1>1, <2>3, <2>5
  <2>. QED BY <2>5, <2>6 DEF Checking
<1>10. Checking(t) /\ t[1] # "open gate" => Checking(s)
  <2>1. SUFFICES ASSUME Checking(t), t[1] # "open gate" PROVE Checking(s)
    OBVIOUS
  <2>2. t[2] = "open gate"
    BY <2>1 DEF Checking
  <2>3. Len(t) = 2
    BY <2>1 DEF Checking
  <2>4. Len(s) = 1 /\ 1 \in 1..Len(s) /\ 1 + 1 = 2
    BY <1>1, <2>3
  <2>5. s[1] = "open gate"
    BY <1>1, <2>2, <2>4
  <2>. QED BY <2>4, <2>5 DEF Checking
<1>. QED BY <1>1, <1>3, <1>6, <1>7, <1>8, <1>9, <1>10 DEF s

---------------------------------------------------------------------------
(* The release's invariant.                                                *)

\* Data, if there is any, would be migrated with the right to.
LetPass(f) ==
  \/ f.by = "command"
  \/ f.by = "verifier" /\ f.copy.state = "whole" /\ f.copy.holds <= host.data
  \/ f.by = "empty" /\ ~host.schema

\* A running script with the lock has it alone, and has already done what has
\* to come before what is left of its steps.
ScriptIsSound(r) ==
  LET t == script[r].todo
  IN /\ Orderly(t) /\ Len(t) >= 1
     /\ IF t[1] = "lock" THEN Before(t)
        ELSE host.lock = {r} /\ (Before(t) \/ LetPass(script[r].finding))

ScriptsAreSound == \A r \in ScriptRuns : script[r].phase = "running" => ScriptIsSound(r)

\* Admin is open, unchecked, only under a script about to check it.
OpenIsChecking ==
  host.admin = "open" /\ ~host.left =>
    \E r \in ScriptRuns : script[r].phase = "running" /\ Checking(script[r].todo)

\* Data needs a schema, the schema a database, and no backup holds more than
\* there is.
DataIsHeld ==
  /\ host.schema => host.database
  /\ ~host.schema => host.data = 0
  /\ backup.holds <= host.data /\ backup.copy.holds <= host.data

ReleaseInv ==
  ReleaseTypeOK /\ ScriptsAreSound /\ OpenIsChecking /\ DataIsHeld /\ MigratedDataWasJudged

---------------------------------------------------------------------------
(* What a step does to the host.                                           *)

MigrationWasJudged(m) ==
  m.data > 0 => \/ m.finding.by = "command"
                \/ m.finding.by = "verifier" /\ m.finding.copy.state = "whole"
                   /\ m.finding.copy.holds <= m.data

LEMMA HostLock ==
  ASSUME NEW h \in Host, NEW L \in SUBSET ScriptRuns
  PROVE  LET g == [h EXCEPT !.lock = L]
         IN  /\ g \in Host /\ g.lock = L /\ g.database = h.database /\ g.schema = h.schema
             /\ g.data = h.data /\ g.migration = h.migration /\ g.admin = h.admin /\ g.left = h.left
BY DEF Host

LEMMA HostLeft ==
  ASSUME NEW h \in Host
  PROVE  LET g == [h EXCEPT !.left = TRUE]
         IN  /\ g \in Host /\ g.lock = h.lock /\ g.database = h.database /\ g.schema = h.schema
             /\ g.data = h.data /\ g.migration = h.migration /\ g.admin = h.admin /\ g.left = TRUE
BY DEF Host

LEMMA HostDatabase ==
  ASSUME NEW h \in Host
  PROVE  LET g == [h EXCEPT !.database = TRUE]
         IN  /\ g \in Host /\ g.lock = h.lock /\ g.database = TRUE /\ g.schema = h.schema
             /\ g.data = h.data /\ g.migration = h.migration /\ g.admin = h.admin /\ g.left = h.left
BY DEF Host

LEMMA HostMigrated ==
  ASSUME NEW h \in Host, NEW m \in Migration
  PROVE  LET g == [h EXCEPT !.database = TRUE, !.schema = TRUE, !.migration = m]
         IN  /\ g \in Host /\ g.lock = h.lock /\ g.database = TRUE /\ g.schema = TRUE
             /\ g.data = h.data /\ g.migration = m /\ g.admin = h.admin /\ g.left = h.left
BY DEF Host

LEMMA HostOpened ==
  ASSUME NEW h \in Host, NEW mode \in WriteModes
  PROVE  LET g == [h EXCEPT !.database = TRUE, !.admin = "open", !.adminMode = mode]
         IN  /\ g \in Host /\ g.lock = h.lock /\ g.database = TRUE /\ g.schema = h.schema
             /\ g.data = h.data /\ g.migration = h.migration /\ g.admin = "open" /\ g.left = h.left
BY DEF Host

LEMMA HostStopped ==
  ASSUME NEW h \in Host
  PROVE  LET g == [h EXCEPT !.admin = "stopped", !.adminMode = ""]
         IN  /\ g \in Host /\ g.lock = h.lock /\ g.database = h.database /\ g.schema = h.schema
             /\ g.data = h.data /\ g.migration = h.migration /\ g.admin = "stopped" /\ g.left = h.left
BY DEF Host

LEMMA HostChecked ==
  ASSUME NEW h \in Host
  PROVE  LET g == [h EXCEPT !.admin = "checked"]
         IN  /\ g \in Host /\ g.lock = h.lock /\ g.database = h.database /\ g.schema = h.schema
             /\ g.data = h.data /\ g.migration = h.migration /\ g.admin = "checked" /\ g.left = h.left
BY DEF Host

LEMMA HostData ==
  ASSUME NEW h \in Host, NEW n \in 0 .. DataBound
  PROVE  LET g == [h EXCEPT !.data = n]
         IN  /\ g \in Host /\ g.lock = h.lock /\ g.database = h.database /\ g.schema = h.schema
             /\ g.data = n /\ g.migration = h.migration /\ g.admin = h.admin /\ g.left = h.left
BY DEF Host

LEMMA NoScriptIsTyped ==
  ASSUME ReleaseWorkload
  PROVE  NoScript \in Script /\ NoScript.phase = "idle" /\ NoFinding \in Finding /\ NoCopy \in Copy
<1>0. 0 \in 0 .. DataBound
  BY DEF ReleaseWorkload
<1>1. NoCopy \in Copy
  BY <1>0 DEF NoCopy, Copy
<1>2. NoFinding \in Finding
  BY <1>1 DEF NoFinding, Finding
<1>3. <<>> \in Seq(StepNames)
  BY EmptySeq
<1>4. Defaults \in Files
  BY DEF Defaults, Files, WriteModes
<1>. QED BY <1>1, <1>2, <1>3, <1>4 DEF NoScript, Script

LEMMA ReleaseFacts ==
  ASSUME ReleaseInv
  PROVE  /\ host \in Host /\ script \in [ScriptRuns -> Script] /\ backup \in Backup
         /\ ScriptsAreSound /\ OpenIsChecking /\ DataIsHeld /\ MigrationWasJudged(host.migration)
         /\ \A r \in ScriptRuns : script[r].finding \in Finding /\ File(r) \in Files
BY DEF ReleaseInv, ReleaseTypeOK, MigratedDataWasJudged, MigrationWasJudged, Script, File

\* The first step still to be done.
LEMMA FirstStep ==
  ASSUME ReleaseInv, NEW r \in ScriptRuns, NEW x, AtStep(r, x)
  PROVE  script[r].phase = "running" /\ ScriptIsSound(r) /\ script[r].todo[1] = x
<1>1. script[r].phase = "running" /\ Head(script[r].todo) = x
  BY DEF AtStep
<1>2. ScriptIsSound(r)
  BY <1>1 DEF ReleaseInv, ScriptsAreSound
<1>3. Orderly(script[r].todo) /\ Len(script[r].todo) >= 1
  BY <1>2 DEF ScriptIsSound
<1>4. Head(script[r].todo) = script[r].todo[1]
  BY <1>3, TailIsOrderly
<1>. QED BY <1>1, <1>2, <1>4

\* Only one script has the lock.
LEMMA OneHasTheLock ==
  ASSUME ReleaseInv, NEW r \in ScriptRuns, NEW q \in ScriptRuns, q # r,
         script[r].phase = "running", script[q].phase = "running",
         script[r].todo[1] # "lock" \/ host.lock = {}
  PROVE  script[q].todo[1] = "lock"
<1>1. ScriptIsSound(r) /\ ScriptIsSound(q)
  BY DEF ReleaseInv, ScriptsAreSound
<1>2. SUFFICES ASSUME script[q].todo[1] # "lock" PROVE FALSE
  OBVIOUS
<1>3. host.lock = {q} /\ (script[r].todo[1] # "lock" => host.lock = {r})
  BY <1>1, <1>2 DEF ScriptIsSound
<1>. QED BY <1>3

\* The run r is over, and leaves the host h.
Closing(r, h) ==
  /\ h \in Host
  /\ h.lock \ {r} = host.lock \ {r}
  /\ h.data = host.data
  /\ h.schema => h.database
  /\ host.schema => h.schema
  /\ h.schema = host.schema \/ host.lock = {r}
  /\ MigrationWasJudged(h.migration)
  /\ h.admin = "open" /\ ~h.left => host.admin = "open" /\ ~host.left /\ ~Checking(script[r].todo)

LEMMA RunCloses ==
  ASSUME ReleaseWorkload, ReleaseInv, NEW r \in ScriptRuns, script[r].phase = "running", NEW h, Closing(r, h), Ends(r, h)
  PROVE  ReleaseInv'
<1>0. /\ host \in Host /\ script \in [ScriptRuns -> Script] /\ backup \in Backup
      /\ ScriptsAreSound /\ OpenIsChecking /\ DataIsHeld
  BY ReleaseFacts
<1>1. NoScript \in Script /\ NoScript.phase = "idle"
  BY NoScriptIsTyped
<1>2. /\ script' \in [ScriptRuns -> Script] /\ script'[r].phase = "idle"
      /\ \A q \in ScriptRuns : q # r => script'[q] = script[q]
  <2>1. script' = [script EXCEPT ![r] = NoScript]
    BY DEF Ends
  <2>. QED BY <1>0, <1>1, <2>1
<1>3. /\ host' \in Host /\ host'.lock = host.lock \ {r} /\ host'.database = h.database
      /\ host'.schema = h.schema /\ host'.data = host.data /\ host'.migration = h.migration
      /\ host'.admin = h.admin /\ host'.left = h.left /\ UNCHANGED backup
  <2>1. h \in Host /\ h.lock \ {r} \in SUBSET ScriptRuns
    BY DEF Closing, Host
  <2>2. host' = [h EXCEPT !.lock = h.lock \ {r}] /\ UNCHANGED backup
    BY DEF Ends
  <2>3. h.lock \ {r} = host.lock \ {r} /\ h.data = host.data
    BY DEF Closing
  <2>. QED BY <2>1, <2>2, <2>3, HostLock
<1>4. ScriptsAreSound'
  <2>1. SUFFICES ASSUME NEW q \in ScriptRuns, script'[q].phase = "running"
                 PROVE  ScriptIsSound(q)'
    BY DEF ScriptsAreSound
  <2>2. q # r /\ script'[q] = script[q] /\ script[q].phase = "running"
    BY <1>2, <2>1
  <2>3. ScriptIsSound(q)
    BY <1>0, <2>2 DEF ScriptsAreSound
  <2>4. host.lock = {q} => host'.lock = {q} /\ host'.schema = host.schema
    <3>1. host.lock = {q} => host.lock \ {r} = {q} /\ host.lock # {r}
      BY <2>2
    <3>. QED BY <1>3, <3>1 DEF Closing
  <2>5. host.lock = {q} => \A f : LetPass(f) => LetPass(f)'
    BY <1>3, <2>4 DEF LetPass
  <2>. QED BY <2>2, <2>3, <2>4, <2>5 DEF ScriptIsSound
<1>5. OpenIsChecking'
  <2>1. SUFFICES ASSUME host'.admin = "open", ~host'.left
                 PROVE  \E q \in ScriptRuns : script'[q].phase = "running" /\ Checking(script'[q].todo)
    BY DEF OpenIsChecking
  <2>2. host.admin = "open" /\ ~host.left /\ ~Checking(script[r].todo)
    BY <1>3, <2>1 DEF Closing
  <2>3. PICK q \in ScriptRuns : script[q].phase = "running" /\ Checking(script[q].todo)
    BY <1>0, <2>2 DEF OpenIsChecking
  <2>. QED BY <1>2, <2>2, <2>3
<1>6. DataIsHeld' /\ MigratedDataWasJudged'
  BY <1>0, <1>3 DEF DataIsHeld, Closing, MigratedDataWasJudged, MigrationWasJudged
<1>. QED BY <1>0, <1>2, <1>3, <1>4, <1>5, <1>6 DEF ReleaseInv, ReleaseTypeOK

\* What a step that leaves the host h, and the finding f, may do.
Sound(r, h, f) ==
  LET first == script[r].todo[1]
  IN /\ h \in Host /\ f \in Finding
     /\ IF first = "lock" THEN host.lock = {} /\ h.lock = {r} ELSE h.lock = host.lock
     /\ h.data = host.data
     /\ h.schema => h.database
     /\ host.schema => h.schema
     /\ first = "migration" \/ h.schema = host.schema
     /\ IF first = "safety" THEN LetPass(f) ELSE f = script[r].finding
     /\ MigrationWasJudged(h.migration)
     /\ h.left = host.left
     /\ h.admin = "open" => first = "admin" \/ (host.admin = "open" /\ first # "open gate")

\* What is left of the script that has done a sound step.
LEMMA RestIsSound ==
  ASSUME ReleaseInv, NEW r \in ScriptRuns, ScriptIsSound(r), NEW h, NEW f, Sound(r, h, f),
         Len(script[r].todo) # 1, host' = h,
         script'[r].todo = Tail(script[r].todo), script'[r].finding = f
  PROVE  ScriptIsSound(r)'
<1> DEFINE t == script[r].todo
           s == Tail(t)
<1>1. Orderly(t) /\ Len(t) >= 1
  BY DEF ScriptIsSound
<1> HIDE DEF t
<1>2. /\ Orderly(s) /\ Unlocked(s) /\ Len(s) = Len(t) - 1
      /\ Before(t) /\ t[1] # "safety" => Before(s)
      /\ t[1] = "migration" => Before(s)
  BY <1>1, TailIsOrderly
<1> HIDE DEF s
<1>3. Len(t) \in Nat /\ Len(t) # 1
  BY <1>1, LenProperties DEF Orderly, t
<1>4. Len(s) >= 1
  BY <1>1, <1>2, <1>3
<1>5. 1 \in 1..Len(s)
  <2>1. Len(s) \in Nat
    BY <1>2, LenProperties DEF Orderly
  <2>. QED BY <1>4, <2>1
<1>6. s[1] # "lock"
  BY <1>2, <1>5 DEF Unlocked
<1>7. h.lock = {r}
  BY DEF Sound, ScriptIsSound
<1>8. Before(s) \/ LetPass(f)'
  <2>0. t[1] # "migration" => h.schema = host.schema /\ h.data = host.data
    BY DEF Sound, t
  <2>1. t[1] # "migration" /\ LetPass(f) => LetPass(f)'
    BY <2>0 DEF LetPass
  <2>2. CASE t[1] = "migration"
    BY <1>2, <2>2
  <2>3. CASE t[1] = "safety"
    BY <2>1, <2>3 DEF Sound, t
  <2>4. CASE t[1] # "migration" /\ t[1] # "safety"
    <3>1. f = script[r].finding
      BY <2>4 DEF Sound, t
    <3>2. Before(t) \/ LetPass(f)
      BY <3>1 DEF ScriptIsSound, t
    <3>. QED BY <1>2, <2>1, <2>4, <3>2
  <2>. QED BY <2>2, <2>3, <2>4
<1>9. script'[r].todo = s /\ script'[r].finding = f /\ host' = h
  BY DEF s, t
<1>. QED BY <1>2, <1>4, <1>6, <1>7, <1>8, <1>9 DEF ScriptIsSound

\* What has to come before a migration has been done before it.
LEMMA MigrationIsJudged ==
  ASSUME NEW r \in ScriptRuns, ScriptIsSound(r), script[r].todo[1] = "migration"
  PROVE  host.lock = {r} /\ LetPass(script[r].finding)
<1> DEFINE t == script[r].todo
<1>1. Orderly(t) /\ Len(t) >= 1 /\ t[1] # "lock"
  BY DEF ScriptIsSound
<1>2. 1 \in 1..Len(t)
  <2>1. Len(t) \in Nat
    BY <1>1, LenProperties DEF Orderly
  <2>. QED BY <1>1, <2>1
<1>3. ASSUME Before(t) PROVE FALSE
  <2>1. \E i \in 1..(1 - 1) : t[i] = "safety"
    BY <1>2, <1>3 DEF Before
  <2>. QED BY <2>1
<1>. QED BY <1>1, <1>3 DEF ScriptIsSound

\* The last step of a run is sound: the run may close.
LEMMA LastCloses ==
  ASSUME ReleaseInv, NEW r \in ScriptRuns, ScriptIsSound(r), NEW h, NEW f, Sound(r, h, f),
         Len(script[r].todo) = 1
  PROVE  Closing(r, h)
<1> DEFINE t == script[r].todo
<1>1. Orderly(t) /\ Len(t) = 1
  BY DEF ScriptIsSound
<1> HIDE DEF t
<1>2. t[1] # "admin"
  <2>1. ASSUME NEW j \in 1..Len(t), t[j] = "admin" PROVE Len(t) = j + 2
    BY <1>1, <2>1 DEF Orderly
  <2>2. 1 \in 1..Len(t) /\ Len(t) # 1 + 2
    BY <1>1
  <2>. QED BY <2>1, <2>2
<1>3. Checking(t) => t[1] = "open gate"
  <2>1. Len(t) # 2
    BY <1>1
  <2>. QED BY <2>1 DEF Checking
<1>4. h.lock \ {r} = host.lock \ {r}
  BY DEF Sound
<1>5. t[1] # "migration" => h.schema = host.schema
  BY DEF Sound, t
<1>6. t[1] = "migration" => host.lock = {r}
  BY MigrationIsJudged DEF t
<1>7. h.admin = "open" /\ ~h.left => host.admin = "open" /\ ~host.left /\ ~Checking(t)
  BY <1>2, <1>3 DEF Sound, t
<1>. QED BY <1>4, <1>5, <1>6, <1>7 DEF Sound, Closing, t

LEMMA StepGoesOn ==
  ASSUME ReleaseWorkload, ReleaseInv, NEW r \in ScriptRuns, script[r].phase = "running", NEW h, NEW f, Sound(r, h, f),
         Proceed(r, h, f)
  PROVE  ReleaseInv'
<1> DEFINE t == script[r].todo
<1>0. /\ host \in Host /\ script \in [ScriptRuns -> Script] /\ backup \in Backup
      /\ ScriptsAreSound /\ OpenIsChecking /\ DataIsHeld /\ File(r) \in Files
  BY ReleaseFacts
<1>1. ScriptIsSound(r)
  BY <1>0 DEF ScriptsAreSound
<1>2. CASE Len(t) = 1
  <2>1. Ends(r, h)
    BY <1>2 DEF Proceed
  <2>. QED BY <1>1, <1>2, <2>1, LastCloses, RunCloses
<1>3. CASE Len(t) # 1
  <2> DEFINE e == [phase |-> "running", file |-> File(r), finding |-> f, todo |-> Tail(t)]
  <2>1. Orderly(t) /\ Len(t) >= 1
    BY <1>1 DEF ScriptIsSound
  <2>2. /\ Orderly(Tail(t))
        /\ t[1] = "admin" => Checking(Tail(t))
        /\ Checking(t) /\ t[1] # "open gate" => Checking(Tail(t))
    BY <2>1, TailIsOrderly
  <2>3. h \in Host /\ f \in Finding
    BY DEF Sound
  <2>4. e \in Script /\ e.phase = "running" /\ e.finding = f /\ e.todo = Tail(t)
    <3>1. Tail(t) \in Seq(StepNames)
      BY <2>2 DEF Orderly
    <3>. QED BY <1>0, <2>3, <3>1 DEF Script
  <2>5. script' = [script EXCEPT ![r] = e] /\ host' = h /\ UNCHANGED backup
    BY <1>3 DEF Proceed
  <2> HIDE DEF e
  <2>6. /\ script' \in [ScriptRuns -> Script] /\ script'[r] = e
        /\ \A q \in ScriptRuns : q # r => script'[q] = script[q]
    BY <1>0, <2>4, <2>5
  <2>7. ScriptsAreSound'
    <3>1. SUFFICES ASSUME NEW q \in ScriptRuns, script'[q].phase = "running"
                   PROVE  ScriptIsSound(q)'
      BY DEF ScriptsAreSound
    <3>2. CASE q = r
      BY <1>1, <1>3, <2>4, <2>5, <2>6, <3>2, RestIsSound
    <3>3. CASE q # r
      <4>1. script'[q] = script[q] /\ script[q].phase = "running"
        BY <2>6, <3>1, <3>3
      <4>2. script[r].todo[1] # "lock" \/ host.lock = {}
        BY DEF Sound
      <4>3. script[q].todo[1] = "lock"
        BY <3>3, <4>1, <4>2, OneHasTheLock
      <4>4. ScriptIsSound(q)
        BY <1>0, <4>1 DEF ScriptsAreSound
      <4>. QED BY <4>1, <4>3, <4>4 DEF ScriptIsSound
    <3>. QED BY <3>2, <3>3
  <2>8. OpenIsChecking'
    <3>1. SUFFICES ASSUME h.admin = "open", ~h.left
                   PROVE  \E q \in ScriptRuns : script'[q].phase = "running" /\ Checking(script'[q].todo)
      BY <2>5 DEF OpenIsChecking
    <3>2. CASE t[1] = "admin"
      BY <2>2, <2>4, <2>6, <3>2
    <3>3. CASE t[1] # "admin"
      <4>1. host.admin = "open" /\ ~host.left /\ t[1] # "open gate"
        BY <3>1, <3>3 DEF Sound
      <4>2. PICK q \in ScriptRuns : script[q].phase = "running" /\ Checking(script[q].todo)
        BY <1>0, <4>1 DEF OpenIsChecking
      <4>3. CASE q = r
        BY <2>2, <2>4, <2>6, <4>1, <4>2, <4>3
      <4>4. CASE q # r
        BY <2>6, <4>2, <4>4
      <4>. QED BY <4>3, <4>4
    <3>. QED BY <3>2, <3>3
  <2>9. DataIsHeld' /\ MigratedDataWasJudged'
    BY <1>0, <2>5 DEF DataIsHeld, Sound, MigratedDataWasJudged, MigrationWasJudged
  <2>. QED BY <1>0, <2>3, <2>5, <2>6, <2>7, <2>8, <2>9 DEF ReleaseInv, ReleaseTypeOK
<1>. QED BY <1>2, <1>3

---------------------------------------------------------------------------
(* Every step of the script is sound.                                      *)

\* A step that is not one of the three the properties are about.
LEMMA OtherIsSound ==
  ASSUME ReleaseInv, NEW r \in ScriptRuns, NEW x, AtStep(r, x),
         x \notin {"lock", "safety", "migration"}, NEW h \in Host,
         h.lock = host.lock, h.data = host.data, h.schema = host.schema, h.left = host.left,
         h.migration = host.migration, host.database => h.database,
         h.admin = "open" => x = "admin" \/ (host.admin = "open" /\ x # "open gate")
  PROVE  Sound(r, h, script[r].finding)
<1>1. script[r].todo[1] = x
  BY FirstStep
<1>. QED BY <1>1, ReleaseFacts DEF Sound, DataIsHeld

LEMMA LockIsSound ==
  ASSUME ReleaseInv, NEW r \in ScriptRuns, AcquireLock(r)
  PROVE  \E h, f : Sound(r, h, f) /\ Proceed(r, h, f)
<1> DEFINE h == [host EXCEPT !.lock = {r}]
<1>1. AtStep(r, "lock") /\ host.lock = {} /\ Proceed(r, h, script[r].finding)
  BY DEF AcquireLock, Advance
<1>2. script[r].todo[1] = "lock"
  BY <1>1, FirstStep
<1>3. /\ h \in Host /\ h.lock = {r} /\ h.database = host.database /\ h.schema = host.schema
      /\ h.data = host.data /\ h.migration = host.migration /\ h.admin = host.admin
      /\ h.left = host.left
  BY ReleaseFacts, HostLock
<1> HIDE DEF h
<1>4. Sound(r, h, script[r].finding)
  BY <1>1, <1>2, <1>3, ReleaseFacts DEF Sound, DataIsHeld
<1>. QED BY <1>1, <1>4

LEMMA LookIsSound ==
  ASSUME ReleaseInv, NEW r \in ScriptRuns, NEW x, AtStep(r, x),
         x \notin {"lock", "safety", "migration", "open gate"}, Advance(r, host)
  PROVE  \E h, f : Sound(r, h, f) /\ Proceed(r, h, f)
<1>1. Sound(r, host, script[r].finding)
  BY ReleaseFacts, OtherIsSound
<1>. QED BY <1>1 DEF Advance

LEMMA GateIsSound ==
  ASSUME ReleaseInv, NEW r \in ScriptRuns, StageGate(r)
  PROVE  \E h, f : Sound(r, h, f) /\ Proceed(r, h, f)
<1>1. CASE \E x \in {"gate", "closed gate"} : AtStep(r, x) /\ Advance(r, host)
  BY <1>1, LookIsSound
<1>2. CASE AtStep(r, "open gate") /\ Advance(r, [host EXCEPT !.admin = "checked"])
  <2> DEFINE h == [host EXCEPT !.admin = "checked"]
  <2>1. /\ h \in Host /\ h.lock = host.lock /\ h.database = host.database
        /\ h.schema = host.schema /\ h.data = host.data /\ h.migration = host.migration
        /\ h.admin = "checked" /\ h.left = host.left
    BY ReleaseFacts, HostChecked
  <2>2. Proceed(r, h, script[r].finding)
    BY <1>2 DEF Advance
  <2> HIDE DEF h
  <2>3. Sound(r, h, script[r].finding)
    BY <1>2, <2>1, OtherIsSound
  <2>. QED BY <2>2, <2>3
<1>. QED BY <1>1, <1>2 DEF StageGate

LEMMA DatabaseIsSound ==
  ASSUME ReleaseInv, NEW r \in ScriptRuns, StartDatabase(r)
  PROVE  \E h, f : Sound(r, h, f) /\ Proceed(r, h, f)
<1> DEFINE h == [host EXCEPT !.database = TRUE]
<1>1. PICK x \in NeedDatabase : AtStep(r, x)
  BY DEF StartDatabase
<1>2. x \notin {"lock", "safety", "migration", "admin", "open gate"}
  BY DEF NeedDatabase
<1>3. Proceed(r, h, script[r].finding)
  BY DEF StartDatabase, Advance
<1>4. /\ h \in Host /\ h.lock = host.lock /\ h.database /\ h.schema = host.schema
      /\ h.data = host.data /\ h.migration = host.migration /\ h.admin = host.admin
      /\ h.left = host.left
  BY ReleaseFacts, HostDatabase
<1> HIDE DEF h
<1>5. Sound(r, h, script[r].finding)
  BY <1>1, <1>2, <1>4, OtherIsSound
<1>. QED BY <1>3, <1>5

\* The hook, or the empty directory, lets the migration pass.
LEMMA SafetyIsSound ==
  ASSUME ReleaseWorkload, ReleaseInv, NEW r \in ScriptRuns, MigrationSafety(r)
  PROVE  \E h, f : Sound(r, h, f) /\ Proceed(r, h, f)
<1>1. PICK by \in {"empty", "verifier", "command"} :
        /\ AtStep(r, "safety")
        /\ by = "empty" => ~host.database
        /\ by = "verifier" => backup.copy.state = "whole"
        /\ Proceed(r, host, [by |-> by, copy |-> IF by = "verifier" THEN backup.copy ELSE NoCopy])
  BY DEF MigrationSafety, FreshEmpty, VerifyBackup
<1> DEFINE c == IF by = "verifier" THEN backup.copy ELSE NoCopy
           f == [by |-> by, copy |-> c]
<1>2. script[r].todo[1] = "safety"
  BY <1>1, FirstStep
<1>3. c \in Copy
  <2>1. backup.copy \in Copy
    BY ReleaseFacts DEF Backup
  <2>. QED BY <2>1, NoScriptIsTyped
<1>4. by = "verifier" => c.state = "whole" /\ c.holds <= host.data
  BY <1>1, ReleaseFacts DEF DataIsHeld
<1>5. by = "empty" => ~host.schema
  BY <1>1, ReleaseFacts DEF DataIsHeld
<1> HIDE DEF c
<1>6. f \in Finding /\ f.by = by /\ f.copy = c
  BY <1>3 DEF Finding
<1>7. Proceed(r, host, f)
  BY <1>1 DEF c
<1> HIDE DEF f
<1>8. LetPass(f)
  BY <1>4, <1>5, <1>6 DEF LetPass
<1>9. Sound(r, host, f)
  BY <1>2, <1>6, <1>8, ReleaseFacts DEF Sound, DataIsHeld
<1>. QED BY <1>7, <1>9

\* The host with the migration that r was let do.
LEMMA MigratedHost ==
  ASSUME ReleaseInv, NEW r \in ScriptRuns, AtStep(r, "migration")
  PROVE  LET m == [data |-> host.data, finding |-> script[r].finding]
             h == [host EXCEPT !.database = TRUE, !.schema = TRUE, !.migration = m]
         IN  /\ Sound(r, h, script[r].finding) /\ host.lock = {r}
             /\ h.admin = host.admin
<1> DEFINE m == [data |-> host.data, finding |-> script[r].finding]
           h == [host EXCEPT !.database = TRUE, !.schema = TRUE, !.migration = m]
<1>0. /\ host \in Host /\ host.data \in 0 .. DataBound /\ script[r].finding \in Finding
      /\ (~host.schema => host.data = 0)
  BY ReleaseFacts DEF Host, DataIsHeld
<1>1. script[r].todo[1] = "migration" /\ ScriptIsSound(r)
  BY FirstStep
<1>2. host.lock = {r} /\ LetPass(script[r].finding)
  BY <1>1, MigrationIsJudged
<1>3. m \in Migration /\ m.data = host.data /\ m.finding = script[r].finding
  BY <1>0 DEF Migration
<1> HIDE DEF m
<1>4. MigrationWasJudged(m)
  BY <1>0, <1>2, <1>3 DEF MigrationWasJudged, LetPass
<1>5. /\ h \in Host /\ h.lock = host.lock /\ h.database = TRUE /\ h.schema = TRUE
      /\ h.data = host.data /\ h.migration = m /\ h.admin = host.admin /\ h.left = host.left
  BY <1>0, <1>3, HostMigrated
<1> HIDE DEF h
<1>6. Sound(r, h, script[r].finding)
  BY <1>0, <1>1, <1>4, <1>5 DEF Sound
<1>. QED BY <1>2, <1>5, <1>6 DEF h, m

LEMMA MigrateStep ==
  ASSUME ReleaseWorkload, ReleaseInv, NEW r \in ScriptRuns, Migrate(r)
  PROVE  ReleaseInv'
<1> DEFINE m == [data |-> host.data, finding |-> script[r].finding]
           h == [host EXCEPT !.database = TRUE, !.schema = TRUE, !.migration = m]
<1>1. AtStep(r, "migration") /\ (Proceed(r, h, script[r].finding) \/ Ends(r, h))
  BY DEF Migrate, Advance
<1>2. Sound(r, h, script[r].finding) /\ host.lock = {r} /\ h.admin = host.admin
  BY <1>1, MigratedHost
<1> HIDE DEF h
<1>3. script[r].phase = "running" /\ script[r].todo[1] = "migration"
  BY <1>1, FirstStep
<1>4. CASE Proceed(r, h, script[r].finding)
  BY <1>2, <1>3, <1>4, StepGoesOn
<1>5. CASE Ends(r, h)
  <2>1. ~Checking(script[r].todo)
    BY <1>3 DEF Checking
  <2>2. h.lock = host.lock /\ h.left = host.left
    BY <1>2, <1>3 DEF Sound
  <2>3. Closing(r, h)
    BY <1>2, <2>1, <2>2 DEF Sound, Closing
  <2>. QED BY <1>3, <1>5, <2>3, RunCloses
<1>. QED BY <1>1, <1>4, <1>5

LEMMA AdminIsSound ==
  ASSUME ReleaseInv, NEW r \in ScriptRuns, StartAdmin(r)
  PROVE  \E h, f : Sound(r, h, f) /\ Proceed(r, h, f)
<1> DEFINE h == [host EXCEPT !.database = TRUE, !.admin = "open", !.adminMode = File(r).mode]
<1>1. AtStep(r, "admin") /\ Proceed(r, h, script[r].finding)
  BY DEF StartAdmin, Advance
<1>2. host \in Host /\ File(r).mode \in WriteModes
  BY ReleaseFacts DEF Files
<1>3. /\ h \in Host /\ h.lock = host.lock /\ h.database = TRUE /\ h.schema = host.schema
      /\ h.data = host.data /\ h.migration = host.migration /\ h.left = host.left
  BY <1>2, HostOpened
<1> HIDE DEF h
<1>4. Sound(r, h, script[r].finding)
  BY <1>1, <1>3, OtherIsSound
<1>. QED BY <1>1, <1>4

LEMMA StopIsSound ==
  ASSUME ReleaseInv, NEW r \in ScriptRuns, StopAdmin(r)
  PROVE  \E h, f : Sound(r, h, f) /\ Proceed(r, h, f)
<1> DEFINE h == [host EXCEPT !.admin = "stopped", !.adminMode = ""]
<1>1. AtStep(r, "stop admin") /\ Proceed(r, h, script[r].finding)
  BY DEF StopAdmin, Advance
<1>2. /\ h \in Host /\ h.lock = host.lock /\ h.database = host.database /\ h.schema = host.schema
      /\ h.data = host.data /\ h.migration = host.migration /\ h.left = host.left
      /\ h.admin = "stopped"
  BY ReleaseFacts, HostStopped
<1> HIDE DEF h
<1>3. Sound(r, h, script[r].finding)
  BY <1>1, <1>2, OtherIsSound
<1>. QED BY <1>1, <1>3

\* All the steps a script takes but the migration, which may end it.
LEMMA ScriptSteps ==
  ASSUME ReleaseWorkload, ReleaseInv, NEW r \in ScriptRuns,
         \/ AcquireLock(r) \/ Look(r) \/ StartDatabase(r) \/ StageGate(r) \/ MigrationSafety(r)
         \/ StartAdmin(r) \/ VerifyMode(r) \/ StopAdmin(r)
  PROVE  ReleaseInv'
<1>1. script[r].phase = "running" /\ \E h, f : Sound(r, h, f) /\ Proceed(r, h, f)
  <2>1. CASE Look(r)
    <3>1. PICK x \in Quiet : AtStep(r, x)
      BY <2>1 DEF Look
    <3>2. x \notin {"lock", "safety", "migration", "open gate"}
      BY DEF Quiet
    <3>. QED BY <2>1, <3>1, <3>2, LookIsSound DEF Look, AtStep
  <2>2. CASE VerifyMode(r)
    BY <2>2, LookIsSound DEF VerifyMode, AtStep
  <2>3. CASE AcquireLock(r)
    BY <2>3, LockIsSound DEF AcquireLock, AtStep
  <2>4. CASE StartDatabase(r)
    BY <2>4, DatabaseIsSound DEF StartDatabase, AtStep
  <2>5. CASE StageGate(r)
    BY <2>5, GateIsSound DEF StageGate, AtStep
  <2>6. CASE MigrationSafety(r)
    BY <2>6, SafetyIsSound DEF MigrationSafety, AtStep
  <2>7. CASE StartAdmin(r)
    BY <2>7, AdminIsSound DEF StartAdmin, AtStep
  <2>8. CASE StopAdmin(r)
    BY <2>8, StopIsSound DEF StopAdmin, AtStep
  <2>. QED BY <2>1, <2>2, <2>3, <2>4, <2>5, <2>6, <2>7, <2>8
<1>. QED BY <1>1, StepGoesOn

---------------------------------------------------------------------------
(* Invoked, failed, killed; the services, and the backups.                 *)

LEMMA InvokeStep ==
  ASSUME ReleaseWorkload, ReleaseInv, NEW r \in ScriptRuns, NEW c \in Commands, NEW f \in ReleaseFiles,
         Invoke(r, c, f)
  PROVE  ReleaseInv'
<1> DEFINE e == [phase |-> "running", file |-> f, finding |-> NoFinding, todo |-> CommandSteps(c, f)]
<1>0. /\ host \in Host /\ script \in [ScriptRuns -> Script] /\ backup \in Backup
      /\ ScriptsAreSound /\ OpenIsChecking /\ DataIsHeld /\ MigratedDataWasJudged
  BY ReleaseFacts DEF ReleaseInv
<1>1. /\ Orderly(CommandSteps(c, f)) /\ Len(CommandSteps(c, f)) >= 1 /\ CommandSteps(c, f)[1] = "lock"
      /\ Before(CommandSteps(c, f))
  BY StepsAreOrderly
<1>2. e \in Script /\ e.phase = "running" /\ e.todo = CommandSteps(c, f)
  <2>1. CommandSteps(c, f) \in Seq(StepNames)
    BY <1>1 DEF Orderly
  <2>2. f \in Files
    BY DEF ReleaseWorkload
  <2>. QED BY <2>1, <2>2, NoScriptIsTyped DEF Script
<1>3. script' = [script EXCEPT ![r] = e] /\ script[r].phase = "idle" /\ UNCHANGED <<host, backup>>
  BY DEF Invoke
<1> HIDE DEF e
<1>4. /\ script' \in [ScriptRuns -> Script] /\ script'[r] = e
      /\ \A q \in ScriptRuns : q # r => script'[q] = script[q]
  BY <1>0, <1>2, <1>3
<1>5. ScriptsAreSound'
  <2>1. SUFFICES ASSUME NEW q \in ScriptRuns, script'[q].phase = "running"
                 PROVE  ScriptIsSound(q)'
    BY DEF ScriptsAreSound
  <2>2. CASE q = r
    BY <1>1, <1>2, <1>4, <2>2 DEF ScriptIsSound
  <2>3. CASE q # r
    <3>1. script'[q] = script[q] /\ ScriptIsSound(q)
      BY <1>0, <1>4, <2>1, <2>3 DEF ScriptsAreSound
    <3>. QED BY <1>3, <3>1 DEF ScriptIsSound, LetPass
  <2>. QED BY <2>2, <2>3
<1>6. OpenIsChecking'
  <2>1. SUFFICES ASSUME host.admin = "open", ~host.left
                 PROVE  \E q \in ScriptRuns : script'[q].phase = "running" /\ Checking(script'[q].todo)
    BY <1>3 DEF OpenIsChecking
  <2>2. PICK q \in ScriptRuns : script[q].phase = "running" /\ Checking(script[q].todo)
    BY <1>0, <2>1 DEF OpenIsChecking
  <2>3. q # r
    BY <1>3, <2>2
  <2>. QED BY <1>4, <2>2, <2>3
<1>7. DataIsHeld' /\ MigratedDataWasJudged'
  BY <1>0, <1>3 DEF DataIsHeld, MigratedDataWasJudged
<1>. QED BY <1>0, <1>3, <1>4, <1>5, <1>6, <1>7 DEF ReleaseInv, ReleaseTypeOK

LEMMA FailSteps ==
  ASSUME ReleaseWorkload, ReleaseInv, NEW r \in ScriptRuns, FailStep(r) \/ KillScript(r)
  PROVE  ReleaseInv'
<1> DEFINE stopped == [host EXCEPT !.admin = "stopped", !.adminMode = ""]
           left == [host EXCEPT !.left = TRUE]
           opening == \E x \in {"admin", "mode", "open gate"} : AtStep(r, x)
<1>0. /\ host \in Host /\ script[r].phase = "running" /\ MigrationWasJudged(host.migration)
      /\ (host.schema => host.database)
  BY ReleaseFacts DEF FailStep, KillScript, DataIsHeld
<1>1. ~opening => ~Checking(script[r].todo)
  <2>1. SUFFICES ASSUME Checking(script[r].todo) PROVE opening
    OBVIOUS
  <2>2. script[r].todo[1] \in {"mode", "open gate"}
    BY <2>1 DEF Checking
  <2>3. Orderly(script[r].todo) /\ Len(script[r].todo) >= 1
    BY <1>0 DEF ReleaseInv, ScriptsAreSound, ScriptIsSound
  <2>4. Head(script[r].todo) = script[r].todo[1]
    BY <2>3, TailIsOrderly
  <2>. QED BY <1>0, <2>2, <2>4 DEF AtStep
<1>2. /\ stopped \in Host /\ stopped.lock = host.lock /\ stopped.database = host.database
      /\ stopped.schema = host.schema /\ stopped.data = host.data
      /\ stopped.migration = host.migration /\ stopped.admin = "stopped" /\ stopped.left = host.left
  BY <1>0, HostStopped
<1>3. /\ left \in Host /\ left.lock = host.lock /\ left.database = host.database
      /\ left.schema = host.schema /\ left.data = host.data
      /\ left.migration = host.migration /\ left.admin = host.admin /\ left.left = TRUE
  BY <1>0, HostLeft
<1>4. (~opening /\ Ends(r, host)) \/ Ends(r, stopped) \/ Ends(r, left)
  BY DEF FailStep, KillScript
<1> HIDE DEF stopped, left, opening
<1>5. Closing(r, stopped) /\ Closing(r, left) /\ (~opening => Closing(r, host))
  BY <1>0, <1>1, <1>2, <1>3 DEF Closing
<1>. QED BY <1>0, <1>4, <1>5, RunCloses

LEMMA BackupSteps ==
  ASSUME ReleaseWorkload, ReleaseInv, Dump \/ Seal \/ BackupStops \/ CopyOff
  PROVE  ReleaseInv'
<1>0. /\ host \in Host /\ host.data \in 0 .. DataBound /\ backup \in Backup /\ DataIsHeld
      /\ ScriptsAreSound /\ OpenIsChecking /\ MigratedDataWasJudged
      /\ backup.holds \in 0 .. DataBound /\ backup.copy \in Copy
      /\ backup.phase \in {"none", "dumped", "named", "sealed"}
  BY ReleaseFacts DEF Host, Backup, ReleaseInv
<1>1. ASSUME NEW phase \in {"none", "dumped", "named", "sealed"}, BackupBecomes(phase)
      PROVE  UNCHANGED <<host, script>> /\ backup' \in Backup /\ DataIsHeld'
  BY <1>0, <1>1 DEF BackupBecomes, Backup, DataIsHeld
<1>2. UNCHANGED <<host, script>> /\ backup' \in Backup /\ DataIsHeld'
  <2>1. CASE Dump
    BY <1>0, <2>1 DEF Dump, Backup, DataIsHeld
  <2>2. CASE Seal
    BY <1>1, <2>2 DEF Seal
  <2>3. CASE BackupStops
    BY <1>1, <2>3 DEF BackupStops
  <2>4. CASE CopyOff
    <3>1. PICK state \in {"partial", "whole"} :
            backup' = [phase |-> backup.phase, holds |-> backup.holds,
                       copy |-> [state |-> state, holds |-> backup.holds]]
      BY <2>4 DEF CopyOff
    <3> DEFINE c == [state |-> state, holds |-> backup.holds]
    <3>2. c \in Copy /\ c.holds = backup.holds
      BY <1>0 DEF Copy
    <3>3. backup' = [phase |-> backup.phase, holds |-> backup.holds, copy |-> c]
      BY <3>1
    <3> HIDE DEF c
    <3>4. backup' \in Backup /\ backup'.holds = backup.holds /\ backup'.copy.holds = backup.holds
      BY <1>0, <3>2, <3>3 DEF Backup
    <3>5. UNCHANGED <<host, script>>
      BY <2>4 DEF CopyOff
    <3>. QED BY <1>0, <3>4, <3>5 DEF DataIsHeld
  <2>. QED BY <2>1, <2>2, <2>3, <2>4
<1>3. /\ ScriptsAreSound' /\ OpenIsChecking' /\ MigratedDataWasJudged'
  BY <1>0, <1>2 DEF ScriptsAreSound, ScriptIsSound, LetPass, OpenIsChecking, MigratedDataWasJudged
<1>. QED BY <1>2, <1>3 DEF ReleaseInv, ReleaseTypeOK

LEMMA DataStep ==
  ASSUME ReleaseWorkload, ReleaseInv, WriteData
  PROVE  ReleaseInv'
<1> DEFINE n == host.data + 1
<1>0. /\ host \in Host /\ host.data \in 0 .. DataBound /\ backup \in Backup /\ DataIsHeld
      /\ ScriptsAreSound /\ OpenIsChecking /\ MigratedDataWasJudged
      /\ backup.holds \in 0 .. DataBound /\ backup.copy.holds \in 0 .. DataBound
      /\ \A r \in ScriptRuns : script[r].finding \in Finding
  BY ReleaseFacts DEF Host, Backup, Copy, ReleaseInv
<1>1. /\ host.schema /\ host.data < DataBound /\ host' = [host EXCEPT !.data = n]
      /\ UNCHANGED <<script, backup>>
  BY DEF WriteData
<1>2. n \in 0 .. DataBound /\ n >= host.data
  BY <1>0, <1>1 DEF ReleaseWorkload
<1>n. n = host.data + 1
  OBVIOUS
<1> HIDE DEF n
<1>3. /\ host' \in Host /\ host'.lock = host.lock /\ host'.database = host.database
      /\ host'.schema = host.schema /\ host'.data = n /\ host'.migration = host.migration
      /\ host'.admin = host.admin /\ host'.left = host.left
  BY <1>0, <1>1, <1>2, HostData
<1>4. ASSUME NEW f \in Finding, LetPass(f)
      PROVE  LetPass(f)'
  <2>1. f.copy.holds \in 0 .. DataBound
    BY DEF Finding, Copy
  <2>2. f.copy.holds <= host.data => f.copy.holds <= n
    BY <1>0, <1>2, <2>1
  <2>. QED BY <1>1, <1>3, <1>4, <2>2 DEF LetPass
<1>5. ScriptsAreSound'
  <2>1. SUFFICES ASSUME NEW q \in ScriptRuns, script[q].phase = "running"
                 PROVE  ScriptIsSound(q)'
    BY <1>1 DEF ScriptsAreSound
  <2>2. ScriptIsSound(q)
    BY <1>0, <2>1 DEF ScriptsAreSound
  <2>3. LetPass(script[q].finding) => LetPass(script[q].finding)'
    <3>1. script'[q].finding = script[q].finding /\ script[q].finding \in Finding
      BY <1>0, <1>1
    <3>. QED BY <1>1, <1>4, <3>1 DEF LetPass
  <2>. QED BY <1>1, <1>3, <2>2, <2>3 DEF ScriptIsSound
<1>6. OpenIsChecking' /\ MigratedDataWasJudged'
  BY <1>0, <1>1, <1>3 DEF OpenIsChecking, MigratedDataWasJudged
<1>7. DataIsHeld'
  <2>1. backup.holds <= n /\ backup.copy.holds <= n
    BY <1>0, <1>2 DEF DataIsHeld
  <2>. QED BY <1>0, <1>1, <1>3, <2>1 DEF DataIsHeld
<1>. QED BY <1>0, <1>1, <1>3, <1>5, <1>6, <1>7 DEF ReleaseInv, ReleaseTypeOK

LEMMA ReleaseStarts ==
  ASSUME ReleaseWorkload, ReleaseInit
  PROVE  ReleaseInv
<1> DEFINE m == [data |-> 0, finding |-> NoFinding]
<1>0. 0 \in 0 .. DataBound
  BY DEF ReleaseWorkload
<1>1. script \in [ScriptRuns -> Script] /\ \A r \in ScriptRuns : script[r].phase # "running"
  BY NoScriptIsTyped DEF ReleaseInit
<1>2. m \in Migration /\ m.data = 0
  BY <1>0, NoScriptIsTyped DEF Migration
<1>3. PICK used \in BOOLEAN :
        host = [lock |-> {}, database |-> used, schema |-> used, data |-> 0, migration |-> m,
                admin |-> "stopped", adminMode |-> "", left |-> FALSE]
  BY DEF ReleaseInit
<1> HIDE DEF m
<1>4. /\ host \in Host /\ host.admin = "stopped" /\ host.database = used /\ host.schema = used
      /\ host.data = 0 /\ host.migration = m
  <2>1. FALSE \in BOOLEAN
    OBVIOUS
  <2>. QED BY <1>0, <1>2, <1>3, <2>1 DEF Host
<1>5. backup \in Backup /\ backup.holds = 0 /\ backup.copy.holds = 0
  <2>1. backup = [phase |-> "none", holds |-> 0, copy |-> NoCopy]
    BY DEF ReleaseInit
  <2>2. NoCopy \in Copy /\ NoCopy.holds = 0
    BY NoScriptIsTyped DEF NoCopy
  <2>. QED BY <1>0, <2>1, <2>2 DEF Backup
<1>6. ScriptsAreSound /\ OpenIsChecking
  BY <1>1, <1>4 DEF ScriptsAreSound, OpenIsChecking
<1>7. MigratedDataWasJudged
  BY <1>2, <1>4 DEF MigratedDataWasJudged
<1>8. DataIsHeld
  BY <1>4, <1>5 DEF DataIsHeld
<1>. QED BY <1>1, <1>4, <1>5, <1>6, <1>7, <1>8 DEF ReleaseInv, ReleaseTypeOK

\* In every reachable state, under every command, a run that has the lock has
\* it alone and has done what its next steps rest on: before a migration the
\* safety check, whose finding still is about this database (acquire_lock,
\* verify_migration_safety, production-release.sh).
THEOREM ReleaseInvariant ==
  ASSUME ReleaseWorkload
  PROVE  ReleaseSpec => []ReleaseInv
<1>1. ReleaseInit => ReleaseInv
  BY ReleaseStarts
<1>2. ReleaseInv /\ [ReleaseNext]_releaseVars => ReleaseInv'
  <2>1. SUFFICES ASSUME ReleaseInv, [ReleaseNext]_releaseVars PROVE ReleaseInv'
    OBVIOUS
  <2>2. CASE UNCHANGED releaseVars
    BY <2>1, <2>2 DEF releaseVars, ReleaseInv, ReleaseTypeOK, ScriptsAreSound, ScriptIsSound,
      OpenIsChecking, LetPass, DataIsHeld, MigratedDataWasJudged
  <2>3. CASE WriteData
    BY <2>1, <2>3, DataStep
  <2>4. CASE Dump \/ Seal \/ BackupStops \/ CopyOff
    BY <2>1, <2>4, BackupSteps
  <2>5. ASSUME NEW r \in ScriptRuns, ReleaseStep(r)
        PROVE  ReleaseInv'
    <3>1. CASE \E c \in Commands, f \in ReleaseFiles : Invoke(r, c, f)
      BY <2>1, <3>1, InvokeStep
    <3>2. CASE FailStep(r) \/ KillScript(r)
      BY <2>1, <3>2, FailSteps
    <3>3. CASE Migrate(r)
      BY <2>1, <3>3, MigrateStep
    <3>4. CASE \/ AcquireLock(r) \/ Look(r) \/ StartDatabase(r) \/ StageGate(r) \/ MigrationSafety(r)
               \/ StartAdmin(r) \/ VerifyMode(r) \/ StopAdmin(r)
      BY <2>1, <3>4, ScriptSteps
    <3>. QED BY <2>5, <3>1, <3>2, <3>3, <3>4 DEF ReleaseStep
  <2>. QED BY <2>1, <2>2, <2>3, <2>4, <2>5 DEF ReleaseNext
<1>. QED BY <1>1, <1>2, PTL DEF ReleaseSpec

\* Data is migrated only by a run whose hook let it pass; where the hook is the
\* verifier, it has seen a whole copy of an earlier state of this database, of
\* whatever age.  No confirmation of an empty directory ever lets data be
\* migrated.  And between the runs of the script an open administration has
\* passed its checks (verify_migration_safety, verify_admin_write_mode).
THEOREM ReleasesStayChecked ==
  ASSUME ReleaseWorkload
  PROVE  ReleaseSpec => []ReleasesAreChecked
<1>1. ReleaseInv => ReleasesAreChecked
  <2>1. SUFFICES ASSUME ReleaseInv, host.lock = {}, host.admin # "stopped", host.admin # "checked",
                        ~host.left
                 PROVE  FALSE
    BY DEF ReleasesAreChecked, OpenAdminWasChecked, ReleaseInv
  <2>2. host.admin = "open"
    BY <2>1 DEF ReleaseInv, ReleaseTypeOK, Host
  <2>3. PICK r \in ScriptRuns : script[r].phase = "running" /\ Checking(script[r].todo)
    BY <2>1, <2>2 DEF ReleaseInv, OpenIsChecking
  <2>4. ScriptIsSound(r)
    BY <2>1, <2>3 DEF ReleaseInv, ScriptsAreSound
  <2>5. script[r].todo[1] # "lock"
    BY <2>3 DEF Checking
  <2>6. host.lock = {r}
    BY <2>4, <2>5 DEF ScriptIsSound
  <2>. QED BY <2>1, <2>6
<1>. QED BY <1>1, ReleaseInvariant, PTL

================================================================================
