------------------------------ MODULE PilotGuard ------------------------------
(***************************************************************************)
(* The evidence cycle: it builds the evidence of the last days again,      *)
(* judges a pilot policy on it, writes the restrictive guard of the tuple  *)
(* and publishes the guards to Redis.  Cycles hold a lease in Redis that   *)
(* expires; a slow cycle may then overlap the next one.                    *)
(*                                                                         *)
(* One tuple with one active policy.  Its evidence is a revision and what  *)
(* the policy makes of it; its operator grant is the allocation of the     *)
(* effective rollout rule, at the revision of the rollout audit.           *)
(* Allocations are small numbers.                                          *)
(***************************************************************************)
EXTENDS Naturals, FiniteSets

CONSTANTS
  Evaluators,
  Full, RollbackShare,       \* the largest allocation, and the policy's rollback allocation
  StaleAction,          \* of the policy: "reduce" or "deny"
  Rebuilt,              \* the verdicts that a window comes to: each is one in Verdicts
  CycleBound, EvidenceBound, GrantBound, GuardBound  \* bounds on the search

VARIABLES
  window,     \* provider_daily_evidence of the policy's window
  grant,      \* provider_rollout_rules with the last id of their audit
  guard,      \* the row of provider_pilot_guards; revision 0 for none
  locked,     \* the evaluator whose transaction holds that row
  lease,      \* the key in Redis, by owner
  stored,     \* the snapshot in Redis
  cycles,     \* rows of provider_evidence_evaluator_runs, counted
  evaluation  \* what each evaluator is doing

guardVars == <<window, grant, guard, locked, lease, stored, cycles, evaluation>>

NoOne == "no one"
Allocations == 0 .. Full
Verdicts == {"missing", "stop", "incompatible", "thin", "breach", "sound"}

\* What the properties need of the constants.
GuardWorkload ==
  /\ NoOne \notin Evaluators
  /\ Full \in Nat /\ RollbackShare \in Allocations /\ Rebuilt \subseteq Verdicts
  /\ CycleBound \in Nat /\ EvidenceBound \in Nat /\ GrantBound \in Nat /\ GuardBound \in Nat \ {0}

Evidence == [revision : 0 .. EvidenceBound, verdict : Verdicts]
Grant == [allocation : Allocations, revision : 0 .. GrantBound]
Actions == {"hold", "reduce", "deny", "eligible_for_review"}
Guard == [revision : 0 .. GuardBound, cap : Allocations, healthy : Allocations,
          action : Actions, reason : Verdicts \cup {"none"}, lapsed : BOOLEAN,
          by : {"evaluator", "operator"}]
Evaluation == [phase : {"off", "rebuild", "read", "judge", "apply", "write", "load", "publish"},
               grant : Grant, current : Guard, next : Guard, evidence : Evidence]

NoGuard == [revision |-> 0, cap |-> 0, healthy |-> 0, action |-> "hold", reason |-> "none",
            lapsed |-> FALSE, by |-> "evaluator"]
NoEvidence == [revision |-> 0, verdict |-> "missing"]
Idle == [phase |-> "off", grant |-> [allocation |-> 0, revision |-> 0], current |-> NoGuard,
         evidence |-> NoEvidence, next |-> NoGuard]

GuardTypeOK ==
  /\ window \in Evidence /\ grant \in Grant /\ guard \in Guard
  /\ locked \in Evaluators \cup {NoOne} /\ lease \in Evaluators \cup {NoOne}
  /\ stored \in [revision : 0 .. GuardBound, cap : Allocations]
  /\ cycles \in 0 .. CycleBound
  /\ evaluation \in [Evaluators -> Evaluation]

\* The tuple has no guard, or one that holds at the whole grant.
GuardInit ==
  /\ window = NoEvidence
  /\ grant = [allocation |-> Full, revision |-> 0]
  /\ guard \in {NoGuard, [NoGuard EXCEPT !.revision = 1, !.cap = Full, !.healthy = RollbackShare,
                                         !.reason = "sound"]}
  /\ locked = NoOne /\ lease = NoOne
  /\ stored = [revision |-> 0, cap |-> 0] /\ cycles = 0
  /\ evaluation = [e \in Evaluators |-> Idle]

Goes(e, r) == evaluation' = [evaluation EXCEPT ![e] = r]
In(e, phase) == evaluation[e].phase = phase

---------------------------------------------------------------------------
(* The judgement of one policy.                                            *)

Fallback(current) == IF current.revision = 0 THEN RollbackShare ELSE current.healthy

Lesser(m, n) == IF m <= n THEN m ELSE n

\* Automation starts from the lower of the grant and the cap it finds.
CurrentCap(allocation, current) ==
  IF current.revision = 0 THEN allocation ELSE Lesser(allocation, current.cap)

\* Evidence that cannot be judged denies where the policy says so.
Denies(verdict, allocation) ==
  \/ verdict = "stop"
  \/ StaleAction = "deny" /\ (verdict = "missing" \/ (verdict = "thin" /\ allocation # 0))

CapFor(verdict, allocation, current) ==
  LET cap == CurrentCap(allocation, current)
  IN IF Denies(verdict, allocation) THEN 0
     ELSE IF verdict = "sound" \/ (verdict = "thin" /\ allocation = 0) THEN cap
     ELSE Lesser(cap, Fallback(current))

\* `waited` is whether the cooldown and the recovery days are over.
ActionFor(verdict, allocation, current, waited) ==
  IF verdict = "sound"
    THEN IF current.revision = 0 THEN "hold"
         ELSE IF current.cap < allocation /\ ~waited THEN "hold" ELSE "eligible_for_review"
  ELSE IF verdict = "thin" /\ allocation = 0 THEN "hold"
  ELSE IF CapFor(verdict, allocation, current) = 0 THEN "deny" ELSE "reduce"

Healthy(verdict, allocation, current, waited) ==
  Lesser(allocation,
         IF current.revision # 0 THEN current.healthy
         ELSE IF ActionFor(verdict, allocation, current, waited) = "eligible_for_review"
              THEN CurrentCap(allocation, current) ELSE RollbackShare)

Judgement(verdict, allocation, current, waited) ==
  [revision |-> current.revision + 1,
   cap |-> CapFor(verdict, allocation, current),
   healthy |-> Healthy(verdict, allocation, current, waited),
   action |-> ActionFor(verdict, allocation, current, waited),
   reason |-> verdict, lapsed |-> FALSE, by |-> "evaluator"]

MateriallyChanged(previous, next) ==
  \/ previous.revision = 0 \/ previous.lapsed
  \/ <<previous.action, previous.reason, previous.cap>> # <<next.action, next.reason, next.cap>>

---------------------------------------------------------------------------
(* One cycle.                                                              *)

AcquireLease(e) ==
  /\ In(e, "off") /\ cycles < CycleBound /\ cycles' = cycles + 1
  /\ IF lease = NoOne THEN lease' = e /\ Goes(e, [Idle EXCEPT !.phase = "rebuild"])
                      ELSE UNCHANGED <<lease, evaluation>>
  /\ UNCHANGED <<window, grant, guard, locked, stored>>

\* The days of the window are built again from their source rows.
RebuildWindow(e) ==
  /\ In(e, "rebuild") /\ window.revision < EvidenceBound
  /\ \E v \in Rebuilt :
       window' = [revision |-> window.revision + 1, verdict |-> v]
  /\ Goes(e, [evaluation[e] EXCEPT !.phase = "read"])
  /\ UNCHANGED <<grant, guard, locked, lease, stored, cycles>>

\* The policies, the rollout rules and the guards are read together; a tuple
\* without a grant is left alone.
ReadInputs(e) ==
  /\ In(e, "read")
  /\ Goes(e, IF grant.allocation = 0 THEN [Idle EXCEPT !.phase = "load"]
             ELSE [Idle EXCEPT !.phase = "judge", !.grant = grant, !.current = guard])
  /\ UNCHANGED <<window, grant, guard, locked, lease, stored, cycles>>

Judge(e) ==
  \E waited \in BOOLEAN :
    LET r == evaluation[e]
        next == Judgement(window.verdict, r.grant.allocation, r.current, waited)
    IN /\ In(e, "judge") /\ r.current.revision < GuardBound
       /\ Goes(e, IF MateriallyChanged(r.current, next)
                    THEN [r EXCEPT !.phase = "apply", !.next = next, !.evidence = window]
                    ELSE [Idle EXCEPT !.phase = "load"])
       /\ UNCHANGED <<window, grant, guard, locked, lease, stored, cycles>>

\* A fault: the checks are made on the guard the evaluator has read before.
AgreesWithRead(e, previous) ==
  LET r == evaluation[e]
  IN /\ r.grant.revision = grant.revision
     /\ r.evidence.verdict # "missing" => r.evidence.revision = window.revision
     /\ r.current.revision # 0 => r.next.cap <= r.current.cap

\* The checks of the transaction, on the row it holds and on what it reads.
Agrees(e, previous) ==
  LET r == evaluation[e]
  IN /\ previous.revision = r.current.revision
     /\ r.grant.revision = grant.revision
     /\ r.evidence.verdict # "missing" => r.evidence.revision = window.revision
     /\ previous.revision # 0 => r.next.cap <= previous.cap

\* The transaction locks the row, where there is one, and checks.
BeginApply(e) ==
  /\ In(e, "apply") /\ locked = NoOne /\ Agrees(e, guard)
  /\ locked' = IF guard.revision = 0 THEN NoOne ELSE e
  /\ Goes(e, [Idle EXCEPT !.phase = "write", !.next = evaluation[e].next])
  /\ UNCHANGED <<window, grant, guard, lease, stored, cycles>>

\* The upsert waits for a transaction that holds the row by now.
WriteGuard(e) ==
  /\ In(e, "write") /\ locked \in {NoOne, e}
  /\ guard' = evaluation[e].next /\ locked' = NoOne
  /\ Goes(e, [Idle EXCEPT !.phase = "load"])
  /\ UNCHANGED <<window, grant, lease, stored, cycles>>

ReleaseLease(e) == lease' = IF lease = e THEN NoOne ELSE lease

\* A conflict ends the whole cycle as failed.
Conflict(e) ==
  /\ In(e, "apply") /\ locked = NoOne /\ ~Agrees(e, guard)
  /\ ReleaseLease(e) /\ Goes(e, Idle)
  /\ UNCHANGED <<window, grant, guard, locked, stored, cycles>>

LoadGuards(e) ==
  /\ In(e, "load")
  /\ Goes(e, [Idle EXCEPT !.phase = "publish",
                          !.current = [NoGuard EXCEPT !.revision = guard.revision, !.cap = guard.cap]])
  /\ UNCHANGED <<window, grant, guard, locked, lease, stored, cycles>>

PublishGuards(e) ==
  LET seen == evaluation[e].current
  IN /\ In(e, "publish")
     /\ stored' = IF seen.revision >= stored.revision
                    THEN [revision |-> seen.revision, cap |-> seen.cap] ELSE stored
     /\ ReleaseLease(e) /\ Goes(e, Idle)
     /\ UNCHANGED <<window, grant, guard, locked, cycles>>

---------------------------------------------------------------------------
(* Others.                                                                 *)

\* A cycle that dies: the database ends its transaction, its lease stays.
CycleDies(e) ==
  /\ ~In(e, "off") /\ Goes(e, Idle)
  /\ locked' = IF locked = e THEN NoOne ELSE locked
  /\ UNCHANGED <<window, grant, guard, lease, stored, cycles>>

LeaseExpires ==
  /\ lease # NoOne /\ lease' = NoOne
  /\ UNCHANGED <<window, grant, guard, locked, stored, cycles, evaluation>>

ChangeGrant ==
  /\ grant.revision < GrantBound
  /\ \E a \in Allocations \ {grant.allocation} :
       grant' = [allocation |-> a, revision |-> grant.revision + 1]
  /\ UNCHANGED <<window, guard, locked, lease, stored, cycles, evaluation>>

\* An operator may raise the cap, up to the grant.
OperatorGuard ==
  /\ guard.revision \in 1 .. GuardBound - 1 /\ locked = NoOne
  /\ \E cap \in 0 .. grant.allocation :
       guard' = [guard EXCEPT !.revision = @ + 1, !.cap = cap, !.healthy = cap,
                              !.lapsed = FALSE, !.by = "operator"]
  /\ UNCHANGED <<window, grant, locked, lease, stored, cycles, evaluation>>

GuardLapses ==
  /\ guard.revision # 0 /\ ~guard.lapsed /\ guard' = [guard EXCEPT !.lapsed = TRUE]
  /\ UNCHANGED <<window, grant, locked, lease, stored, cycles, evaluation>>

GuardNext ==
  \/ \E e \in Evaluators : \/ AcquireLease(e) \/ RebuildWindow(e) \/ ReadInputs(e) \/ Judge(e)
                           \/ BeginApply(e) \/ WriteGuard(e) \/ Conflict(e)
                           \/ LoadGuards(e) \/ PublishGuards(e) \/ CycleDies(e)
  \/ LeaseExpires \/ ChangeGrant \/ OperatorGuard \/ GuardLapses

GuardSpec == GuardInit /\ [][GuardNext]_guardVars

---------------------------------------------------------------------------
(* Properties.                                                             *)

\* Once a tuple has a guard, no evaluator raises its cap, whatever cycles
\* overlap and whatever the grant does in between: only an operator does.  The
\* first guard of a tuple is excepted: nothing is locked before it is there,
\* and of two cycles that both write a first guard the later one stands.
RaisedByOperator ==
  guard.revision # 0 /\ guard'.cap > guard.cap
    => guard'.by = "operator" \/ guard'.revision = 1
OnlyOperatorsRaise == [][RaisedByOperator]_guardVars

=============================================================================
