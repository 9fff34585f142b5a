----------------------------- MODULE CircuitHealth -----------------------------
(***************************************************************************)
(* The circuit of one provider, platform and region (ADR-0006): workers    *)
(* rank the provider by the snapshot in Redis, ask for the probe lease     *)
(* when the circuit is not closed, call, and persist the attempt; refresh  *)
(* loops of several workers read the attempts, aggregate and publish the   *)
(* next snapshot by compare-and-set.                                       *)
(*                                                                         *)
(* Time is a small clock.  Keys of Redis vanish on the tick that passes    *)
(* their TTL.  A revision is only ever compared with the one a refresher   *)
(* listed, so the model keeps, for each refresher, whether the snapshot    *)
(* is still that one; revisions restart with a new key, and a refresher is *)
(* assumed to end before the key it listed can expire and be replaced.     *)
(*                                                                         *)
(* Abstracted: rates, latencies and the reason of a circuit, which only    *)
(* order the ranking.                                                      *)
(***************************************************************************)
EXTENDS Naturals, FiniteSets, FiniteSetsExt

CONSTANTS
  Tasks,                \* tasks that call the provider, perhaps again
  Refreshers,           \* workers that run a refresh loop
  None,
  Groups,               \* failure groups: integrity, access friction, availability
  ObservationWindow, MinimumDistinctTasks,
  MinimumFailures,      \* by group
  OpenPercent,          \* openRate by group, in percent
  BaseCooldown, MaximumCooldown,
  RecoverySuccesses, SnapshotTtl, ProbeLease, AggregationLease,
  RefreshDeadline,      \* a snapshot gets no older than this
  MaxRefresh,           \* bound on how long a refresh takes
  MaxCalls, MaxNow      \* bounds on the search

Classes == {"succeeded", "neutral"} \cup Groups
Times == 0 .. MaxNow
Observations == [class : Classes, finishedAt : Times, granted : Times]

ASSUME PolicyAssumption ==
  /\ Groups \cap {"succeeded", "neutral"} = {}
  /\ MinimumFailures \in [Groups -> Nat \ {0}] /\ OpenPercent \in [Groups -> 0 .. 100]
  /\ {ObservationWindow, MinimumDistinctTasks, BaseCooldown, MaximumCooldown, RecoverySuccesses,
      SnapshotTtl, ProbeLease, AggregationLease, RefreshDeadline, MaxRefresh} \subseteq Nat \ {0}
  /\ BaseCooldown <= MaximumCooldown /\ ObservationWindow <= SnapshotTtl
  /\ MaxRefresh < SnapshotTtl /\ IsFiniteSet(Tasks)
  /\ None \notin Observations /\ None \notin Refreshers
  /\ MaxCalls \in Nat /\ MaxNow \in Nat \ {0}

VARIABLES
  now,
  snapshot,      \* the circuit's key
  probeLease,    \* when the probe lease expires, 0 without one
  aggregation,   \* the aggregation lease: its owner and expiry
  attempts,      \* the latest observation of each task in provider_attempts, with
                 \* the time its probe was granted (history)
  call,          \* what the worker of each task is doing
  refresh,       \* what each refresh loop is doing
  overlapped,    \* a refresh has begun while another, that had outlived its
                 \* aggregation lease, was under way (history)
  calls

vars == <<now, snapshot, probeLease, aggregation, attempts, call, refresh, overlapped, calls>>

Snapshots == [state : {"absent", "closed", "open", "half-open"}, lastTransitionAt : Times,
              openedAt : Times, openUntil : Nat, consecutiveOpenCount : Nat,
              calculatedAt : Times, expiry : Nat]

Absent == [state |-> "absent", lastTransitionAt |-> 0, openedAt |-> 0, openUntil |-> 0,
           consecutiveOpenCount |-> 0, calculatedAt |-> 0, expiry |-> 0]
NoCall == [at |-> "idle", probe |-> FALSE, granted |-> 0, result |-> None]
NoRefresh == [at |-> "idle", started |-> 0, seen |-> [t \in Tasks |-> None],
              previous |-> Absent, current |-> FALSE]
Free == [owner |-> None, expiry |-> 0]

TypeOK ==
  /\ now \in Times /\ calls \in 0 .. MaxCalls /\ overlapped \in BOOLEAN
  /\ snapshot \in Snapshots
  /\ snapshot.state = "open" => snapshot.openUntil > snapshot.openedAt
  /\ snapshot.state \in {"closed", "absent"} => snapshot.consecutiveOpenCount = 0
  /\ probeLease \in Nat
  /\ aggregation \in [owner : Refreshers \cup {None}, expiry : Nat]
  /\ attempts \in [Tasks -> Observations \cup {None}]
  /\ call \in [Tasks -> [at : {"idle", "ranked", "calling", "finished"}, probe : BOOLEAN,
                         granted : Times, result : Observations \cup {None}]]
  /\ refresh \in [Refreshers -> [at : {"idle", "reading", "listing", "publishing"},
                                 started : Times, seen : [Tasks -> Observations \cup {None}],
                                 previous : Snapshots, current : BOOLEAN]]

Init ==
  /\ now = 1 /\ calls = 0 /\ overlapped = FALSE
  /\ snapshot = Absent /\ probeLease = 0 /\ aggregation = Free
  /\ attempts = [t \in Tasks |-> None]
  /\ call = [t \in Tasks |-> NoCall]
  /\ refresh = [f \in Refreshers |-> NoRefresh]

(* Every write of the snapshot raises its revision. *)
Outdated == [f \in Refreshers |-> [refresh[f] EXCEPT !.current = FALSE]]

-----------------------------------------------------------------------------
(* The worker of a task.                                                   *)

(* RedisProviderRoutingHealthSource.get: absent or stale is closed. *)
HealthState ==
  IF snapshot.state = "absent" \/ now > snapshot.calculatedAt + SnapshotTtl
  THEN "closed" ELSE snapshot.state

(* rank: an open circuit whose cooldown runs excludes the provider; when   *)
(* Redis does not answer, the circuit counts as closed.                    *)
Rank(t) ==
  /\ call[t].at = "idle" /\ calls < MaxCalls
  /\ \E state \in {HealthState, "closed"} :
       /\ state = "open" => snapshot.openUntil <= now
       /\ call' = [call EXCEPT ![t] = [NoCall EXCEPT !.at = "ranked", !.probe = state # "closed"]]
  /\ calls' = calls + 1
  /\ UNCHANGED <<now, snapshot, probeLease, aggregation, attempts, refresh, overlapped>>

(* A call that was ranked as closed asks nobody.                           *)
CallDirectly(t) ==
  /\ call[t].at = "ranked" /\ ~call[t].probe
  /\ call' = [call EXCEPT ![t] = [call[t] EXCEPT !.at = "calling"]]
  /\ UNCHANGED <<now, snapshot, probeLease, aggregation, attempts, refresh, overlapped,
                 calls>>

Grant(t) ==
  /\ probeLease' = now + ProbeLease
  /\ snapshot' = [snapshot EXCEPT !.state = "half-open", !.lastTransitionAt = now,
                                  !.expiry = now + SnapshotTtl]
  /\ refresh' = Outdated
  /\ call' = [call EXCEPT ![t] = [call[t] EXCEPT !.at = "calling", !.granted = now]]
  /\ UNCHANGED <<now, aggregation, attempts, overlapped, calls>>

Probeable ==
  \/ snapshot.state = "half-open"
  \/ snapshot.state = "open" /\ snapshot.openUntil <= now

(* Deviation: the lease is not looked at.                                  *)
AcquireProbeTogether(t) ==
  /\ call[t].at = "ranked" /\ call[t].probe
  /\ Probeable
  /\ Grant(t)

AcquireProbe(t) ==
  /\ call[t].at = "ranked" /\ call[t].probe
  /\ Probeable /\ probeLease = 0
  /\ Grant(t)

ProbeRefused(t) ==
  /\ call[t].at = "ranked" /\ call[t].probe
  /\ ~(Probeable /\ probeLease = 0)
  /\ call' = [call EXCEPT ![t] = NoCall]
  /\ UNCHANGED <<now, snapshot, probeLease, aggregation, attempts, refresh, overlapped,
                 calls>>

Finish(t) ==
  /\ call[t].at = "calling"
  /\ \E class \in Classes :
       call' = [call EXCEPT ![t] = [NoCall EXCEPT !.at = "finished",
                 !.result = [class |-> class, finishedAt |-> now, granted |-> call[t].granted]]]
  /\ UNCHANGED <<now, snapshot, probeLease, aggregation, attempts, refresh, overlapped,
                 calls>>

(* Persisted with the completion or the failure of the task. *)
PersistAttempt(t) ==
  /\ call[t].at = "finished"
  /\ attempts' = [attempts EXCEPT ![t] = call[t].result]
  /\ call' = [call EXCEPT ![t] = NoCall]
  /\ UNCHANGED <<now, snapshot, probeLease, aggregation, refresh, overlapped,
                 calls>>

(* An earlier provider ends the route, the worker dies, or its transaction *)
(* rolls back.                                                             *)
LoseAttempt(t) ==
  /\ call[t].at # "idle"
  /\ call' = [call EXCEPT ![t] = NoCall]
  /\ UNCHANGED <<now, snapshot, probeLease, aggregation, attempts, refresh, overlapped,
                 calls>>

-----------------------------------------------------------------------------
(* aggregateCircuitHealth.                                                 *)

Until(seen, started) ==
  {t \in Tasks : seen[t] # None /\ seen[t].finishedAt <= started}

OfClass(T, seen, class) == Cardinality({t \in T : seen[t].class = class})
Faulty(T, seen) == \E t \in T : seen[t].class \in Groups

OpeningReason(T, seen) ==
  LET samples == Cardinality({t \in T : seen[t].class # "neutral"}) IN
  /\ samples >= MinimumDistinctTasks
  /\ \E g \in Groups : /\ OfClass(T, seen, g) >= MinimumFailures[g]
                       /\ OfClass(T, seen, g) * 100 >= OpenPercent[g] * samples

Cooldown(opens) == Min({MaximumCooldown, BaseCooldown * 2 ^ (opens - 1)})

Opened(s, started, opens) ==
  [s EXCEPT !.state = "open", !.lastTransitionAt = started, !.openedAt = started,
            !.openUntil = started + Cooldown(opens), !.consecutiveOpenCount = opens]

Closed(s, at) ==
  [s EXCEPT !.state = "closed", !.lastTransitionAt = at, !.openedAt = 0, !.openUntil = 0,
            !.consecutiveOpenCount = 0]

SinceTransition(previous, seen, started) ==
  {t \in Until(seen, started) : seen[t].finishedAt >= previous.lastTransitionAt}

Recovered(T, seen) == OfClass(T, seen, "succeeded") >= RecoverySuccesses

Aggregate(previous, seen, started) ==
  LET T    == Until(seen, started)
      base == [previous EXCEPT !.calculatedAt = started]
      new  == SinceTransition(previous, seen, started)
  IN CASE previous.state = "half-open" /\ Faulty(new, seen)
            -> Opened(base, started, previous.consecutiveOpenCount + 1)
       [] previous.state = "half-open" /\ ~Faulty(new, seen) /\ Recovered(new, seen)
            -> Closed(base, started)
       [] previous.state \in {"closed", "absent"} /\ OpeningReason(T, seen)
            -> Opened(base, started, 1)
       [] previous.state = "closed" /\ ~OpeningReason(T, seen)
            -> Closed(base, previous.lastTransitionAt)
       [] previous.state = "absent" /\ ~OpeningReason(T, seen)
            -> Closed(base, started)
       [] OTHER -> base

-----------------------------------------------------------------------------
(* refreshCircuitHealth, under the aggregation lease.  The query leaves    *)
(* out what is older than the window.                                      *)

BeginRefresh(f) ==
  /\ refresh[f].at = "idle" /\ aggregation = Free
  /\ aggregation' = [owner |-> f, expiry |-> now + AggregationLease]
  /\ refresh' = [refresh EXCEPT ![f] = [refresh[f] EXCEPT !.at = "reading", !.started = now]]
  /\ overlapped' = (overlapped \/ \E g \in Refreshers : refresh[g].at # "idle")
  /\ UNCHANGED <<now, snapshot, probeLease, attempts, call, calls>>

ReadObservations(f) ==
  /\ refresh[f].at = "reading"
  /\ refresh' = [refresh EXCEPT ![f] = [refresh[f] EXCEPT !.at = "listing",
                    !.seen = [t \in Tasks |->
                       IF attempts[t] # None
                          /\ attempts[t].finishedAt + ObservationWindow >= refresh[f].started
                       THEN attempts[t] ELSE None]]]
  /\ UNCHANGED <<now, snapshot, probeLease, aggregation, attempts, call, overlapped, calls>>

ListSnapshots(f) ==
  /\ refresh[f].at = "listing"
  /\ refresh' = [refresh EXCEPT ![f] = [refresh[f] EXCEPT !.at = "publishing",
                                           !.previous = snapshot, !.current = TRUE]]
  /\ UNCHANGED <<now, snapshot, probeLease, aggregation, attempts, call, overlapped, calls>>

(* The lease is released by its owner only. *)
EndRefresh(f, loops) ==
  /\ refresh' = [loops EXCEPT ![f] = NoRefresh]
  /\ aggregation' = IF aggregation.owner = f THEN Free ELSE aggregation
  /\ UNCHANGED <<now, attempts, call, overlapped, calls>>

Put(f) ==
  LET next == Aggregate(refresh[f].previous, refresh[f].seen, refresh[f].started) IN
  /\ snapshot' = [next EXCEPT !.expiry = now + SnapshotTtl]
  /\ probeLease' = IF next.state = "half-open" THEN probeLease ELSE 0
  /\ EndRefresh(f, Outdated)

(* A circuit nobody has observed is not created.                           *)
Known(f) == \/ refresh[f].previous.state # "absent"
            \/ \E t \in Tasks : refresh[f].seen[t] # None

(* Deviation: the revision is not compared.                                *)
PublishAnyway(f) ==
  /\ refresh[f].at = "publishing"
  /\ Known(f)
  /\ Put(f)

Publish(f) ==
  /\ refresh[f].at = "publishing"
  /\ Known(f) /\ refresh[f].current
  /\ Put(f)

PublishNothing(f) ==
  /\ refresh[f].at = "publishing"
  /\ ~(Known(f) /\ refresh[f].current)
  /\ EndRefresh(f, refresh)
  /\ UNCHANGED <<snapshot, probeLease>>

(* An error is logged and the lease given back; a crash leaves the lease.  *)
RefreshFails(f) ==
  /\ refresh[f].at # "idle"
  /\ \/ EndRefresh(f, refresh)
     \/ /\ refresh' = [refresh EXCEPT ![f] = NoRefresh]
        /\ UNCHANGED <<now, aggregation, attempts, call, overlapped, calls>>
  /\ UNCHANGED <<snapshot, probeLease>>

-----------------------------------------------------------------------------
(* Keys expire as time passes.                                             *)
Tick ==
  LET vanishes == snapshot.state # "absent" /\ snapshot.expiry <= now + 1 IN
  /\ now < MaxNow /\ now' = now + 1
  /\ snapshot.state # "absent" => now < snapshot.calculatedAt + RefreshDeadline
  /\ \A f \in Refreshers : refresh[f].at # "idle" => now < refresh[f].started + MaxRefresh
  /\ snapshot' = IF vanishes THEN Absent ELSE snapshot
  /\ refresh' = IF vanishes THEN Outdated ELSE refresh
  /\ probeLease' = IF probeLease <= now + 1 THEN 0 ELSE probeLease
  /\ aggregation' = IF aggregation.expiry <= now + 1 THEN Free ELSE aggregation
  /\ UNCHANGED <<attempts, call, overlapped, calls>>

TaskStep(t) ==
  \/ Rank(t) \/ CallDirectly(t) \/ AcquireProbe(t) \/ ProbeRefused(t)
  \/ Finish(t) \/ PersistAttempt(t) \/ LoseAttempt(t)

RefreshStep(f) ==
  \/ BeginRefresh(f) \/ ReadObservations(f) \/ ListSnapshots(f)
  \/ Publish(f) \/ PublishNothing(f)

Next ==
  \/ \E t \in Tasks : TaskStep(t)
  \/ \E f \in Refreshers : RefreshStep(f) \/ RefreshFails(f)
  \/ Tick

Spec == Init /\ [][Next]_vars

-----------------------------------------------------------------------------
(* The attempts that finished since the transition now in force.           *)
Fresh == {t \in Tasks : /\ attempts[t] # None
                        /\ attempts[t].finishedAt >= snapshot.lastTransitionAt}

(* ADR-0006: the circuit moves along its diagram only, and only after the  *)
(* cooldown into half-open; "a stale aggregator cannot overwrite a         *)
(* concurrent half-open transition" (provider-health-operations.md).  And  *)
(* ADR-0043: it closes only when enough attempts that finished after that  *)
(* transition are in the database.                                         *)
FollowsDiagram ==
  [][LET from == snapshot.state  to == snapshot'.state IN
     /\ from = "closed" => to # "half-open"
     /\ from = "open" => to # "closed"
     /\ to = "half-open" /\ from = "open" => snapshot.openUntil <= now
     /\ from = "half-open" /\ to = "half-open"
          => snapshot'.lastTransitionAt >= snapshot.lastTransitionAt
     /\ from = "half-open" /\ to = "closed"
          => Cardinality(Fresh) >= RecoverySuccesses]_vars

Live(t) == call[t].at = "calling" /\ call[t].probe /\ now < call[t].granted + ProbeLease

(* ADR-0006: multiple workers cannot all probe simultaneously.  Calls that *)
(* were granted a probe and are still inside the time of their lease are   *)
(* one at most, where a cooldown is not shorter than a lease and while no  *)
(* refresh has overlapped another.  An overlapped refresh may open, with a *)
(* cooldown that counts from its own start, a circuit that the other has   *)
(* closed since: the code does not keep the promise then (see README).     *)
OneLiveProbe ==
  ProbeLease <= BaseCooldown /\ ~overlapped => Cardinality({t \in Tasks : Live(t)}) <= 1

(* The probes granted since the circuit opened whose result a refresh sees. *)
ProbesSeen(f) == {t \in Until(refresh[f].seen, refresh[f].started) :
                    refresh[f].seen[t].granted > snapshot.openedAt}

Settles(f) == Publish(f) /\ snapshot.state = "half-open"

(* "A provider fault reopens with bounded cooldown growth"                 *)
(* (provider-health-operations.md): a refresh of a half-open circuit that  *)
(* sees a probe's fault opens it.                                          *)
ProbeFaultReopens ==
  [][\A f \in Refreshers : Settles(f) /\ Faulty(ProbesSeen(f), refresh[f].seen)
       => snapshot'.state = "open"]_vars

(* "Normalized success closes according to the configured recovery count": *)
(* a refresh that sees this many probes succeed, and none fail, closes it. *)
RecoveryCountCloses ==
  [][\A f \in Refreshers :
       Settles(f) /\ ~Faulty(ProbesSeen(f), refresh[f].seen)
         /\ Recovered(ProbesSeen(f), refresh[f].seen)
       => snapshot'.state = "closed"]_vars
=============================================================================
