-------------------------- MODULE CircuitHealth_proofs --------------------------
(***************************************************************************)
(* The circuit of a provider follows its diagram, closes on fresh          *)
(* successes only and, while no refresh overlaps another, lets one probe   *)
(* live at a time: for every policy, every set of tasks and of refresh     *)
(* loops, and every clock.                                                 *)
(***************************************************************************)
EXTENDS CircuitHealth, FiniteSetTheorems, TLAPS

CallStates == [at : {"idle", "ranked", "calling", "finished"}, probe : BOOLEAN,
               granted : Times, result : Observations \cup {None}]
Seen == [Tasks -> Observations \cup {None}]
LoopStates == [at : {"idle", "reading", "listing", "publishing"}, started : Times,
               seen : Seen, previous : Snapshots, current : BOOLEAN]

-----------------------------------------------------------------------------
(* The policy: its numbers, and the growth of the cooldown.                *)

LEMMA PolicyNumbers ==
  /\ MaxNow \in Nat \ {0} /\ MaxCalls \in Nat
  /\ ObservationWindow \in Nat \ {0} /\ BaseCooldown \in Nat \ {0}
  /\ MaximumCooldown \in Nat \ {0} /\ BaseCooldown <= MaximumCooldown
  /\ RecoverySuccesses \in Nat \ {0} /\ SnapshotTtl \in Nat \ {0}
  /\ ProbeLease \in Nat \ {0} /\ AggregationLease \in Nat \ {0}
  /\ MaxRefresh \in Nat \ {0} /\ MaxRefresh < SnapshotTtl
  /\ IsFiniteSet(Tasks) /\ None \notin Observations /\ None \notin Refreshers
  BY PolicyAssumption

(* A power of two counts the subsets of an interval, so it is positive.    *)
LEMMA PowersArePositive ==
  ASSUME NEW n \in Nat
  PROVE  2 ^ n \in Nat \ {0}
<1> DEFINE S == 1 .. n
<1>1. IsFiniteSet(S) /\ Cardinality(S) = n
  BY FS_Interval
<1>2. IsFiniteSet(SUBSET S) /\ Cardinality(SUBSET S) = 2 ^ n
  BY <1>1, FS_SUBSET
<1>3. SUBSET S # {}
  OBVIOUS
<1>4. Cardinality(SUBSET S) \in Nat /\ Cardinality(SUBSET S) # 0
  BY <1>2, <1>3, FS_CardinalityType, FS_EmptySet
<1> QED
  BY <1>2, <1>4

LEMMA ProductGrows ==
  ASSUME NEW b \in Nat, NEW p \in Nat \ {0}
  PROVE  b * p \in Nat /\ b * p >= b
  BY Z3

LEMMA CooldownBounds ==
  ASSUME NEW opens \in Nat \ {0}
  PROVE  Cooldown(opens) \in Nat /\ Cooldown(opens) >= BaseCooldown
<1> DEFINE grown == BaseCooldown * 2 ^ (opens - 1)
<1>1. 2 ^ (opens - 1) \in Nat \ {0}
  BY PowersArePositive
<1>2. grown \in Nat /\ grown >= BaseCooldown
  BY <1>1, ProductGrows, PolicyNumbers
<1>3. \E x \in {MaximumCooldown, grown} : \A y \in {MaximumCooldown, grown} : x =< y
  <2> HIDE DEF grown
  <2>1. CASE MaximumCooldown <= grown
    BY <1>2, <2>1, PolicyNumbers
  <2>2. CASE grown <= MaximumCooldown
    BY <1>2, <2>2, PolicyNumbers
  <2> QED
    BY <1>2, <2>1, <2>2, PolicyNumbers
<1>4. Cooldown(opens) \in {MaximumCooldown, grown}
  <2> HIDE DEF grown
  <2>1. Min({MaximumCooldown, grown}) \in {MaximumCooldown, grown}
    BY <1>3 DEF Min
  <2> QED
    BY <2>1 DEF Cooldown, grown
<1> HIDE DEF grown
<1> QED
  BY <1>2, <1>4, PolicyNumbers

-----------------------------------------------------------------------------
(* Aggregation.                                                            *)

(* Some attempt seen finished between the transition and the start.        *)
SeenSince(p, seen, started) ==
  \E t \in Tasks : /\ seen[t] # None
                   /\ p.lastTransitionAt <= seen[t].finishedAt
                   /\ seen[t].finishedAt <= started

LEMMA FaultIsSeen ==
  ASSUME NEW p, NEW seen, NEW started \in Times, Faulty(SinceTransition(p, seen, started), seen)
  PROVE  SeenSince(p, seen, started)
  BY DEF Faulty, SinceTransition, Until, SeenSince

LEMMA RecoveryIsSeen ==
  ASSUME NEW p, NEW seen, NEW started \in Times,
         Recovered(SinceTransition(p, seen, started), seen)
  PROVE  SeenSince(p, seen, started)
<1> DEFINE T == {t \in SinceTransition(p, seen, started) : seen[t].class = "succeeded"}
<1>1. Cardinality(T) >= RecoverySuccesses
  BY DEF Recovered, OfClass
<1>2. T # {}
  <2> HIDE DEF T
  <2>1. T = {} => Cardinality(T) = 0
    BY FS_EmptySet
  <2> QED
    BY <1>1, <2>1, PolicyNumbers
<1> QED
  BY <1>2 DEF SinceTransition, Until, SeenSince

(* The ways a refresh may move a circuit.                                  *)
LEMMA AggregateMoves ==
  ASSUME NEW p \in Snapshots, NEW seen, NEW started \in Times
  PROVE  LET n    == Aggregate(p, seen, started)
             base == [p EXCEPT !.calculatedAt = started] IN
         \/ /\ p.state = "half-open" /\ SeenSince(p, seen, started)
            /\ n = Opened(base, started, p.consecutiveOpenCount + 1)
         \/ /\ p.state = "half-open" /\ SeenSince(p, seen, started)
            /\ Recovered(SinceTransition(p, seen, started), seen)
            /\ n = Closed(base, started)
         \/ p.state \in {"closed", "absent"} /\ n = Opened(base, started, 1)
         \/ p.state = "closed" /\ n = Closed(base, p.lastTransitionAt)
         \/ p.state = "absent" /\ n = Closed(base, started)
         \/ p.state \in {"open", "half-open"} /\ n = base
<1> DEFINE new == SinceTransition(p, seen, started)
           T == Until(seen, started)
           n == Aggregate(p, seen, started)
           base == [p EXCEPT !.calculatedAt = started]
<1>0. p.state \in {"absent", "closed", "open", "half-open"}
  BY DEF Snapshots
<1>1. CASE p.state = "half-open" /\ Faulty(new, seen)
  <2>1. n = Opened(base, started, p.consecutiveOpenCount + 1)
    BY <1>1, Zenon DEF Aggregate
  <2> QED
    BY <1>1, <2>1, FaultIsSeen
<1>2. CASE p.state = "half-open" /\ ~Faulty(new, seen) /\ Recovered(new, seen)
  <2>1. n = Closed(base, started)
    BY <1>2 DEF Aggregate
  <2> QED
    BY <1>2, <2>1, RecoveryIsSeen
<1>3. CASE p.state = "half-open" /\ ~Faulty(new, seen) /\ ~Recovered(new, seen)
  BY <1>3 DEF Aggregate
<1>4. CASE p.state = "open"
  BY <1>4 DEF Aggregate
<1>5. CASE p.state = "closed"
  BY <1>5 DEF Aggregate
<1>6. CASE p.state = "absent"
  BY <1>6 DEF Aggregate
<1> QED
  BY <1>0, <1>1, <1>2, <1>3, <1>4, <1>5, <1>6

-----------------------------------------------------------------------------
(* What a refresh makes of a circuit.                                      *)

(* What a refresh writes, when it lists a sound circuit.                   *)
Sound(s) ==
  /\ s.state = "open" => s.openUntil > s.openedAt
  /\ s.state \in {"closed", "absent"} => s.consecutiveOpenCount = 0

LEMMA OpenedType ==
  ASSUME NEW s \in Snapshots, NEW started \in Times, NEW opens \in Nat \ {0}
  PROVE  /\ Opened(s, started, opens) \in Snapshots
         /\ Opened(s, started, opens).state = "open"
         /\ Opened(s, started, opens).lastTransitionAt = started
         /\ Opened(s, started, opens).openedAt = started
         /\ Opened(s, started, opens).openUntil >= started + BaseCooldown
<1>1. started + Cooldown(opens) \in Nat /\ started + Cooldown(opens) >= started + BaseCooldown
  BY CooldownBounds, PolicyNumbers DEF Times
<1> DEFINE until == started + Cooldown(opens)
<1> HIDE DEF until
<1>2. Opened(s, started, opens) = [s EXCEPT !.state = "open", !.lastTransitionAt = started,
        !.openedAt = started, !.openUntil = until, !.consecutiveOpenCount = opens]
  BY DEF Opened, until
<1>3. until \in Nat /\ until >= started + BaseCooldown
  BY <1>1 DEF until
<1> QED
  BY <1>2, <1>3 DEF Snapshots

LEMMA ClosedType ==
  ASSUME NEW s \in Snapshots, NEW at \in Times
  PROVE  /\ Closed(s, at) \in Snapshots /\ Closed(s, at).state = "closed"
         /\ Closed(s, at).lastTransitionAt = at /\ Sound(Closed(s, at))
<1>1. 0 \in Times /\ 0 \in Nat
  BY PolicyNumbers DEF Times
<1> QED
  BY <1>1 DEF Closed, Snapshots, Sound

LEMMA BaseType ==
  ASSUME NEW s \in Snapshots, NEW started \in Times
  PROVE  LET base == [s EXCEPT !.calculatedAt = started] IN
         /\ base \in Snapshots /\ base.state = s.state /\ base.openUntil = s.openUntil
         /\ base.openedAt = s.openedAt /\ base.lastTransitionAt = s.lastTransitionAt
         /\ base.consecutiveOpenCount = s.consecutiveOpenCount
  BY DEF Snapshots

(* What a refresh makes of a sound circuit.                                *)
LEMMA AggregateOutcome ==
  ASSUME NEW p \in Snapshots, Sound(p), NEW seen, NEW started \in Times,
         NEW n, n = Aggregate(p, seen, started)
  PROVE  /\ n \in Snapshots /\ Sound(n)
         /\ \/ /\ p.state \in {"half-open", "closed", "absent"} /\ n.state = "open"
               /\ n.lastTransitionAt = started /\ n.openUntil >= started + BaseCooldown
               /\ p.state = "half-open" => SeenSince(p, seen, started)
            \/ /\ p.state = "half-open" /\ n.state = "closed"
               /\ n.lastTransitionAt = started /\ SeenSince(p, seen, started)
               /\ Recovered(SinceTransition(p, seen, started), seen)
            \/ /\ p.state \in {"closed", "absent"} /\ n.state = "closed"
               /\ n.lastTransitionAt \in {p.lastTransitionAt, started}
            \/ /\ p.state \in {"open", "half-open"} /\ n.state = p.state
               /\ n.lastTransitionAt = p.lastTransitionAt /\ n.openUntil = p.openUntil
<1> DEFINE base == [p EXCEPT !.calculatedAt = started]
<1>1. /\ base \in Snapshots /\ base.state = p.state /\ base.openUntil = p.openUntil
      /\ base.openedAt = p.openedAt /\ base.lastTransitionAt = p.lastTransitionAt
      /\ base.consecutiveOpenCount = p.consecutiveOpenCount
  BY BaseType
<1>2. p.consecutiveOpenCount + 1 \in Nat \ {0} /\ 1 \in Nat \ {0}
      /\ p.lastTransitionAt \in Times /\ p.state \in {"absent", "closed", "open", "half-open"}
  BY DEF Snapshots
<1>3. \/ /\ p.state = "half-open" /\ SeenSince(p, seen, started)
         /\ n = Opened(base, started, p.consecutiveOpenCount + 1)
      \/ /\ p.state = "half-open" /\ SeenSince(p, seen, started)
         /\ Recovered(SinceTransition(p, seen, started), seen)
         /\ n = Closed(base, started)
      \/ p.state \in {"closed", "absent"} /\ n = Opened(base, started, 1)
      \/ p.state = "closed" /\ n = Closed(base, p.lastTransitionAt)
      \/ p.state = "absent" /\ n = Closed(base, started)
      \/ p.state \in {"open", "half-open"} /\ n = base
  BY AggregateMoves, Zenon
<1> HIDE DEF base
<1>4. ASSUME NEW opens \in Nat \ {0}, n = Opened(base, started, opens)
      PROVE  /\ n \in Snapshots /\ Sound(n) /\ n.state = "open"
             /\ n.lastTransitionAt = started /\ n.openUntil >= started + BaseCooldown
  <2>1. /\ n \in Snapshots /\ n.state = "open" /\ n.lastTransitionAt = started
        /\ n.openedAt = started /\ n.openUntil >= started + BaseCooldown
    BY <1>1, <1>4, OpenedType
  <2>2. n.openUntil \in Nat /\ started \in Nat /\ BaseCooldown \in Nat \ {0}
    BY <2>1, PolicyNumbers DEF Snapshots, Times
  <2>3. n.openUntil > n.openedAt
    BY <2>1, <2>2
  <2> QED
    BY <2>1, <2>3 DEF Sound
<1>5. ASSUME NEW at \in Times, n = Closed(base, at)
      PROVE  /\ n \in Snapshots /\ Sound(n) /\ n.state = "closed" /\ n.lastTransitionAt = at
  BY <1>1, <1>5, ClosedType
<1>6. CASE n = base /\ p.state \in {"open", "half-open"}
  <2>1. Sound(n)
    BY <1>1, <1>6 DEF Sound
  <2> QED
    BY <1>1, <1>6, <2>1
<1> QED
  BY <1>2, <1>3, <1>4, <1>5, <1>6

-----------------------------------------------------------------------------
(* The inductive invariant: nothing carries a time to come; a finished     *)
(* call is later than the attempt it will replace; a refresh has seen      *)
(* nothing newer than what is stored; and a refresh that may still publish *)
(* has listed the circuit as it is.                                        *)
CallSound(t) ==
  /\ call[t].granted <= now
  /\ call[t].at = "finished"
       => /\ call[t].result # None /\ call[t].result.finishedAt <= now
          /\ attempts[t] # None => attempts[t].finishedAt <= call[t].result.finishedAt

AttemptSound(t) == attempts[t] # None => attempts[t].finishedAt <= now

SeenSound(f) ==
  \A t \in Tasks : refresh[f].seen[t] # None
    => attempts[t] # None /\ refresh[f].seen[t].finishedAt <= attempts[t].finishedAt

LoopSound(f) ==
  /\ refresh[f].started <= now
  /\ refresh[f].current => refresh[f].at = "publishing" /\ refresh[f].previous = snapshot

CircuitInv ==
  /\ TypeOK
  /\ snapshot.lastTransitionAt <= now
  /\ \A t \in Tasks : CallSound(t) /\ AttemptSound(t)
  /\ \A f \in Refreshers : LoopSound(f) /\ SeenSound(f)

Leases == [owner : Refreshers \cup {None}, expiry : Nat]

(* The type invariant, by its parts.                                       *)
LEMMA TypeParts ==
  TypeOK <=> /\ now \in Times /\ calls \in 0 .. MaxCalls /\ overlapped \in BOOLEAN
             /\ snapshot \in Snapshots /\ Sound(snapshot)
             /\ probeLease \in Nat /\ aggregation \in Leases
             /\ attempts \in Seen /\ call \in [Tasks -> CallStates]
             /\ refresh \in [Refreshers -> LoopStates]
  BY DEF TypeOK, Sound, Leases, Seen, CallStates, LoopStates

LEMMA TimesAreNatural ==
  /\ Times \subseteq Nat /\ 0 \in Times
  /\ \A o \in Observations : o.finishedAt \in Nat /\ o.granted \in Nat
  BY PolicyNumbers DEF Times, Observations

LEMMA NothingType ==
  /\ NoCall \in CallStates /\ NoRefresh \in LoopStates /\ Absent \in Snapshots
  /\ Sound(Absent) /\ Free \in Leases
<1>1. 0 \in Times /\ 0 \in Nat
  BY TimesAreNatural
<1>2. NoCall \in CallStates
  BY <1>1 DEF NoCall, CallStates
<1>3. Absent \in Snapshots
  BY <1>1 DEF Absent, Snapshots
<1>4. [t \in Tasks |-> None] \in Seen
  BY DEF Seen
<1>5. NoRefresh \in LoopStates
  BY <1>1, <1>3, <1>4 DEF NoRefresh, LoopStates
<1>6. Sound(Absent)
  BY DEF Absent, Sound
<1>7. Free \in Leases
  BY <1>1 DEF Free, Leases
<1> QED
  BY <1>2, <1>3, <1>5, <1>6, <1>7

LEMMA CircuitInit == Init => CircuitInv
<1> SUFFICES ASSUME Init PROVE CircuitInv
  OBVIOUS
<1>1. now = 1 /\ now \in Times
  <2>1. 1 \in 0 .. MaxNow
    BY PolicyNumbers
  <2> QED
    BY <2>1 DEF Init, Times
<1>2. calls \in 0 .. MaxCalls /\ overlapped \in BOOLEAN /\ probeLease \in Nat
  <2>1. 0 \in 0 .. MaxCalls
    BY PolicyNumbers
  <2> QED
    BY <2>1 DEF Init
<1>3. attempts \in Seen
  BY DEF Init, Seen
<1>4. call \in [Tasks -> CallStates] /\ refresh \in [Refreshers -> LoopStates]
  BY NothingType DEF Init
<1>5. TypeOK
  BY <1>1, <1>2, <1>3, <1>4, NothingType, TypeParts DEF Init
<1>6. \A t \in Tasks : CallSound(t) /\ AttemptSound(t)
  BY <1>1 DEF Init, CallSound, AttemptSound, NoCall
<1>7. \A f \in Refreshers : LoopSound(f) /\ SeenSound(f)
  BY <1>1 DEF Init, LoopSound, SeenSound, NoRefresh
<1> QED
  BY <1>1, <1>5, <1>6, <1>7 DEF CircuitInv, Init, Absent

-----------------------------------------------------------------------------
(* The steps of tasks.                                                     *)

LEMMA CallBecomes ==
  ASSUME call \in [Tasks -> CallStates], NEW t \in Tasks, NEW c \in CallStates,
         call' = [call EXCEPT ![t] = c]
  PROVE  /\ call' \in [Tasks -> CallStates] /\ call'[t] = c
         /\ \A u \in Tasks : u # t => call'[u] = call[u]
  OBVIOUS

(* A step of a call that leaves everything else alone.                     *)
LEMMA CallStep ==
  ASSUME CircuitInv, NEW t \in Tasks, NEW c \in CallStates, call' = [call EXCEPT ![t] = c],
         c.granted <= now,
         c.at = "finished"
           => /\ c.result # None /\ c.result.finishedAt <= now
              /\ attempts[t] # None => attempts[t].finishedAt <= c.result.finishedAt,
         UNCHANGED <<now, snapshot, probeLease, aggregation, attempts, refresh, overlapped>>,
         calls' \in 0 .. MaxCalls
  PROVE  CircuitInv'
<1>1. /\ call' \in [Tasks -> CallStates] /\ call'[t] = c
      /\ \A u \in Tasks : u # t => call'[u] = call[u]
  BY CallBecomes, TypeParts DEF CircuitInv
<1>2. TypeOK'
  BY <1>1, TypeParts DEF CircuitInv, TypeOK, Sound, Leases, Seen, CallStates, LoopStates
<1>3. \A u \in Tasks : CallSound(u)'
  BY <1>1 DEF CircuitInv, CallSound
<1> QED
  BY <1>2, <1>3 DEF CircuitInv, AttemptSound, LoopSound, SeenSound

LEMMA CallFields ==
  ASSUME CircuitInv, NEW t \in Tasks
  PROVE  /\ call[t] \in CallStates /\ now \in Times /\ now \in Nat /\ calls \in 0 .. MaxCalls
         /\ call[t].granted \in Times /\ call[t].granted <= now
         /\ attempts[t] \in Observations \cup {None}
         /\ attempts[t] # None => attempts[t].finishedAt \in Nat /\ attempts[t].finishedAt <= now
<1>1. /\ call[t] \in CallStates /\ now \in Times /\ calls \in 0 .. MaxCalls
      /\ attempts[t] \in Observations \cup {None}
  BY TypeParts DEF CircuitInv, Seen
<1>2. call[t].granted <= now /\ AttemptSound(t)
  BY DEF CircuitInv, CallSound
<1> QED
  BY <1>1, <1>2, TimesAreNatural DEF AttemptSound, CallStates

LEMMA CircuitRank == ASSUME CircuitInv, NEW t \in Tasks, Rank(t) PROVE CircuitInv'
<1>1. PICK state \in {HealthState, "closed"} :
        call' = [call EXCEPT ![t] = [NoCall EXCEPT !.at = "ranked", !.probe = state # "closed"]]
  BY DEF Rank
<1> DEFINE c == [NoCall EXCEPT !.at = "ranked", !.probe = state # "closed"]
<1>2. c \in CallStates /\ c.granted = 0 /\ c.at = "ranked"
  BY TimesAreNatural DEF NoCall, CallStates
<1>3. calls' \in 0 .. MaxCalls
  BY PolicyNumbers, CallFields DEF Rank
<1>4. 0 <= now
  BY CallFields
<1> HIDE DEF c
<1> QED
  BY <1>1, <1>2, <1>3, <1>4, CallStep DEF c, Rank

LEMMA CircuitForgets ==
  ASSUME CircuitInv, NEW t \in Tasks, call' = [call EXCEPT ![t] = NoCall],
         UNCHANGED <<now, snapshot, probeLease, aggregation, attempts, refresh, overlapped, calls>>
  PROVE  CircuitInv'
<1>1. NoCall \in CallStates /\ NoCall.granted = 0 /\ NoCall.at = "idle"
  BY NothingType DEF NoCall
<1>2. 0 <= now /\ calls' \in 0 .. MaxCalls
  BY CallFields
<1> QED
  BY <1>1, <1>2, CallStep

LEMMA CircuitCallDirectly ==
  ASSUME CircuitInv, NEW t \in Tasks, CallDirectly(t) PROVE CircuitInv'
<1> DEFINE c == [call[t] EXCEPT !.at = "calling"]
<1>1. c \in CallStates /\ c.granted = call[t].granted /\ c.at = "calling"
  BY CallFields DEF CallStates
<1>2. c.granted <= now /\ calls' \in 0 .. MaxCalls
  BY <1>1, CallFields DEF CallDirectly
<1> HIDE DEF c
<1> QED
  BY <1>1, <1>2, CallStep DEF c, CallDirectly

LEMMA CircuitFinish == ASSUME CircuitInv, NEW t \in Tasks, Finish(t) PROVE CircuitInv'
<1>1. PICK class \in Classes :
        call' = [call EXCEPT ![t] = [NoCall EXCEPT !.at = "finished",
          !.result = [class |-> class, finishedAt |-> now, granted |-> call[t].granted]]]
  BY DEF Finish
<1> DEFINE o == [class |-> class, finishedAt |-> now, granted |-> call[t].granted]
           c == [NoCall EXCEPT !.at = "finished", !.result = o]
<1>2. o \in Observations /\ o.finishedAt = now
  BY CallFields DEF Observations
<1>3. o # None
  BY <1>2, PolicyNumbers
<1>4. c \in CallStates /\ c.granted = 0 /\ c.result = o
  BY <1>2, TimesAreNatural DEF NoCall, CallStates
<1>5. 0 <= now /\ now <= now /\ calls' \in 0 .. MaxCalls
  BY CallFields DEF Finish
<1>6. attempts[t] # None => attempts[t].finishedAt <= o.finishedAt
  BY <1>2, CallFields
<1>7. call' = [call EXCEPT ![t] = c]
  BY <1>1
<1> HIDE DEF c, o
<1> QED
  BY <1>2, <1>3, <1>4, <1>5, <1>6, <1>7, CallStep DEF Finish

LEMMA CircuitPersist == ASSUME CircuitInv, NEW t \in Tasks, PersistAttempt(t) PROVE CircuitInv'
<1> DEFINE o == call[t].result
<1>1. /\ o # None /\ o.finishedAt <= now
      /\ attempts[t] # None => attempts[t].finishedAt <= o.finishedAt
  BY DEF PersistAttempt, CircuitInv, CallSound
<1>2. o \in Observations /\ o.finishedAt \in Nat
  BY <1>1, CallFields, TimesAreNatural DEF CallStates
<1> HIDE DEF o
<1>3. attempts' = [attempts EXCEPT ![t] = o] /\ attempts \in Seen
  BY TypeParts DEF PersistAttempt, o, CircuitInv
<1>4. /\ attempts' \in Seen /\ attempts'[t] = o
      /\ \A u \in Tasks : u # t => attempts'[u] = attempts[u]
  BY <1>2, <1>3 DEF Seen
<1>5. call \in [Tasks -> CallStates] /\ NoCall \in CallStates /\ call' = [call EXCEPT ![t] = NoCall]
  BY NothingType, TypeParts DEF PersistAttempt, CircuitInv
<1>6. /\ call' \in [Tasks -> CallStates] /\ call'[t] = NoCall
      /\ \A u \in Tasks : u # t => call'[u] = call[u]
  BY <1>5, CallBecomes
<1>7. UNCHANGED <<now, snapshot, probeLease, aggregation, refresh, overlapped, calls>>
  BY DEF PersistAttempt
<1>8. TypeOK'
  BY <1>4, <1>6, <1>7, TypeParts
     DEF CircuitInv, TypeOK, Sound, Leases, Seen, CallStates, LoopStates
<1>9. ASSUME NEW u \in Tasks PROVE (CallSound(u) /\ AttemptSound(u))'
  <2>1. CASE u = t
    <3>1. call'[u].granted = 0 /\ call'[u].at = "idle" /\ 0 <= now
      BY <1>6, <2>1, CallFields DEF NoCall
    <3> QED
      BY <1>1, <1>4, <1>7, <2>1, <3>1 DEF CallSound, AttemptSound
  <2>2. CASE u # t
    BY <1>4, <1>6, <1>7, <2>2 DEF CircuitInv, CallSound, AttemptSound
  <2> QED
    BY <2>1, <2>2
<1>10. ASSUME NEW f \in Refreshers PROVE (LoopSound(f) /\ SeenSound(f))'
  <2>1. LoopSound(f)'
    BY <1>7 DEF CircuitInv, LoopSound
  <2>2. ASSUME NEW u \in Tasks, refresh[f].seen[u] # None
        PROVE  attempts'[u] # None /\ refresh[f].seen[u].finishedAt <= attempts'[u].finishedAt
    <3>1. attempts[u] # None /\ refresh[f].seen[u].finishedAt <= attempts[u].finishedAt
      BY <2>2 DEF CircuitInv, SeenSound
    <3>2. refresh[f].seen[u] \in Observations /\ attempts[u] \in Observations
      BY <2>2, <3>1, TypeParts DEF CircuitInv, LoopStates, Seen
    <3>3. refresh[f].seen[u].finishedAt \in Nat /\ attempts[u].finishedAt \in Nat
      BY <3>2, TimesAreNatural
    <3>4. CASE u = t
      BY <1>1, <1>2, <1>4, <3>1, <3>3, <3>4
    <3>5. CASE u # t
      BY <1>4, <3>1, <3>5
    <3> QED
      BY <3>4, <3>5
  <2>3. SeenSound(f)'
    BY <1>7, <2>2 DEF SeenSound
  <2> QED
    BY <2>1, <2>3
<1> QED
  BY <1>7, <1>8, <1>9, <1>10 DEF CircuitInv

LEMMA OutdatedLoops ==
  ASSUME refresh \in [Refreshers -> LoopStates]
  PROVE  /\ Outdated \in [Refreshers -> LoopStates]
         /\ \A f \in Refreshers :
              /\ Outdated[f].at = refresh[f].at /\ Outdated[f].started = refresh[f].started
              /\ Outdated[f].seen = refresh[f].seen /\ ~Outdated[f].current
  BY DEF Outdated, LoopStates

LEMMA CircuitGrant ==
  ASSUME CircuitInv, NEW t \in Tasks, Grant(t), Probeable
  PROVE  /\ CircuitInv'
         /\ snapshot'.state = "half-open" /\ snapshot'.lastTransitionAt = now
         /\ snapshot'.expiry = now + SnapshotTtl
         /\ call'[t].at = "calling" /\ call'[t].granted = now
         /\ call'[t].probe = call[t].probe
         /\ \A u \in Tasks : u # t => call'[u] = call[u]
<1> DEFINE c == [call[t] EXCEPT !.at = "calling", !.granted = now]
<1>1. /\ c \in CallStates /\ c.at = "calling" /\ c.granted = now /\ c.probe = call[t].probe
  BY CallFields DEF CallStates
<1>2. call' = [call EXCEPT ![t] = c] /\ call \in [Tasks -> CallStates]
  BY TypeParts DEF Grant, CircuitInv
<1> HIDE DEF c
<1>3. /\ call' \in [Tasks -> CallStates] /\ call'[t] = c
      /\ \A u \in Tasks : u # t => call'[u] = call[u]
  BY <1>1, <1>2, CallBecomes
<1>4. now \in Times /\ now + SnapshotTtl \in Nat /\ now + ProbeLease \in Nat
  BY CallFields, PolicyNumbers
<1>5. /\ snapshot' \in Snapshots /\ snapshot'.state = "half-open"
      /\ snapshot'.lastTransitionAt = now /\ snapshot'.expiry = now + SnapshotTtl
  <2> DEFINE e == now + SnapshotTtl
  <2>1. snapshot \in Snapshots /\ e \in Nat
    BY <1>4, TypeParts DEF CircuitInv
  <2>2. snapshot' = [snapshot EXCEPT !.state = "half-open", !.lastTransitionAt = now,
                                     !.expiry = e]
    BY DEF Grant
  <2> HIDE DEF e
  <2>3. /\ snapshot' \in Snapshots /\ snapshot'.state = "half-open"
        /\ snapshot'.lastTransitionAt = now /\ snapshot'.expiry = e
    BY <1>4, <2>1, <2>2 DEF Snapshots
  <2> QED
    BY <2>3 DEF e
<1>6. Sound(snapshot)'
  BY <1>5 DEF Sound
<1>7. refresh' = Outdated /\ refresh \in [Refreshers -> LoopStates]
  BY TypeParts DEF Grant, CircuitInv
<1>8. UNCHANGED <<now, aggregation, attempts, overlapped, calls>> /\ probeLease' \in Nat
  BY <1>4 DEF Grant
<1>9. TypeOK'
  <2>1. refresh' \in [Refreshers -> LoopStates]
    BY <1>7, OutdatedLoops
  <2> QED
    BY <1>3, <1>5, <1>6, <1>8, <2>1, TypeParts
       DEF CircuitInv, TypeOK, Sound, Leases, Seen, CallStates, LoopStates
<1>10. ASSUME NEW u \in Tasks PROVE (CallSound(u) /\ AttemptSound(u))'
  <2>1. CASE u = t
    BY <1>1, <1>3, <1>4, <1>8, <2>1, CallFields DEF CallSound, AttemptSound
  <2>2. CASE u # t
    BY <1>3, <1>8, <2>2 DEF CircuitInv, CallSound, AttemptSound
  <2> QED
    BY <2>1, <2>2
<1>11. ASSUME NEW f \in Refreshers PROVE (LoopSound(f) /\ SeenSound(f))'
  BY <1>7, <1>8, OutdatedLoops DEF CircuitInv, LoopSound, SeenSound
<1>12. snapshot'.lastTransitionAt <= now'
  BY <1>5, <1>8, CallFields
<1> QED
  BY <1>1, <1>3, <1>5, <1>9, <1>10, <1>11, <1>12 DEF CircuitInv

-----------------------------------------------------------------------------
(* The steps of refresh loops.                                             *)

LEMMA LoopBecomes ==
  ASSUME NEW loops \in [Refreshers -> LoopStates], NEW f \in Refreshers, NEW l \in LoopStates,
         refresh' = [loops EXCEPT ![f] = l]
  PROVE  /\ refresh' \in [Refreshers -> LoopStates] /\ refresh'[f] = l
         /\ \A g \in Refreshers : g # f => refresh'[g] = loops[g]
  OBVIOUS

(* A step of a loop that leaves the circuit and the calls alone.           *)
LEMMA LoopStep ==
  ASSUME CircuitInv, NEW f \in Refreshers, NEW l \in LoopStates,
         refresh' = [refresh EXCEPT ![f] = l],
         l.started <= now,
         l.current => l.at = "publishing" /\ l.previous = snapshot,
         \A t \in Tasks : l.seen[t] # None
           => attempts[t] # None /\ l.seen[t].finishedAt <= attempts[t].finishedAt,
         UNCHANGED <<now, snapshot, probeLease, attempts, call, calls>>,
         aggregation' \in Leases, overlapped' \in BOOLEAN
  PROVE  CircuitInv'
<1>1. /\ refresh' \in [Refreshers -> LoopStates] /\ refresh'[f] = l
      /\ \A g \in Refreshers : g # f => refresh'[g] = refresh[g]
  BY LoopBecomes, TypeParts DEF CircuitInv
<1>2. TypeOK'
  BY <1>1, TypeParts DEF CircuitInv, TypeOK, Sound, Leases, Seen, CallStates, LoopStates
<1>3. ASSUME NEW g \in Refreshers PROVE (LoopSound(g) /\ SeenSound(g))'
  <2>1. CASE g = f
    BY <1>1, <2>1 DEF LoopSound, SeenSound
  <2>2. CASE g # f
    BY <1>1, <2>2 DEF CircuitInv, LoopSound, SeenSound
  <2> QED
    BY <2>1, <2>2
<1> QED
  BY <1>2, <1>3 DEF CircuitInv, CallSound, AttemptSound

LEMMA LoopFields ==
  ASSUME CircuitInv, NEW f \in Refreshers
  PROVE  /\ refresh[f] \in LoopStates /\ refresh \in [Refreshers -> LoopStates]
         /\ refresh[f].started \in Times /\ refresh[f].started \in Nat
         /\ refresh[f].started <= now /\ now \in Times /\ now \in Nat
         /\ refresh[f].seen \in Seen /\ refresh[f].previous \in Snapshots
         /\ aggregation \in Leases /\ overlapped \in BOOLEAN
<1>1. /\ refresh[f] \in LoopStates /\ refresh \in [Refreshers -> LoopStates]
      /\ now \in Times /\ aggregation \in Leases /\ overlapped \in BOOLEAN
  BY TypeParts DEF CircuitInv
<1>2. refresh[f].started <= now
  BY DEF CircuitInv, LoopSound
<1> QED
  BY <1>1, <1>2, TimesAreNatural DEF LoopStates

LEMMA CircuitBegin == ASSUME CircuitInv, NEW f \in Refreshers, BeginRefresh(f) PROVE CircuitInv'
<1> DEFINE l == [refresh[f] EXCEPT !.at = "reading", !.started = now]
<1>1. /\ l \in LoopStates /\ l.started = now /\ l.current = refresh[f].current
      /\ l.seen = refresh[f].seen
  BY LoopFields DEF LoopStates
<1>2. ~refresh[f].current
  BY DEF BeginRefresh, CircuitInv, LoopSound
<1>3. aggregation' \in Leases /\ overlapped' \in BOOLEAN
  <2>1. now + AggregationLease \in Nat
    BY LoopFields, PolicyNumbers
  <2> QED
    BY <2>1 DEF BeginRefresh, Leases
<1>4. refresh' = [refresh EXCEPT ![f] = l]
  BY DEF BeginRefresh
<1> HIDE DEF l
<1>5. \A t \in Tasks : l.seen[t] # None
        => attempts[t] # None /\ l.seen[t].finishedAt <= attempts[t].finishedAt
  BY <1>1 DEF CircuitInv, SeenSound
<1>6. now <= now
  BY LoopFields
<1> QED
  BY <1>1, <1>2, <1>3, <1>4, <1>5, <1>6, LoopStep DEF BeginRefresh

LEMMA CircuitRead ==
  ASSUME CircuitInv, NEW f \in Refreshers, ReadObservations(f) PROVE CircuitInv'
<1> DEFINE seen == [t \in Tasks |->
                      IF attempts[t] # None
                         /\ attempts[t].finishedAt + ObservationWindow >= refresh[f].started
                      THEN attempts[t] ELSE None]
           l == [refresh[f] EXCEPT !.at = "listing", !.seen = seen]
<1>1. attempts \in Seen
  BY TypeParts DEF CircuitInv
<1>2. seen \in Seen /\ \A t \in Tasks : seen[t] # None => seen[t] = attempts[t]
  BY <1>1 DEF Seen
<1>3. refresh' = [refresh EXCEPT ![f] = l]
  BY DEF ReadObservations
<1> HIDE DEF seen
<1>4. /\ l \in LoopStates /\ l.started = refresh[f].started /\ l.current = refresh[f].current
      /\ l.seen = seen
  BY <1>2, LoopFields DEF LoopStates
<1>5. ~refresh[f].current
  BY DEF ReadObservations, CircuitInv, LoopSound
<1>6. ASSUME NEW t \in Tasks, l.seen[t] # None
      PROVE  attempts[t] # None /\ l.seen[t].finishedAt <= attempts[t].finishedAt
  <2>1. l.seen[t] = attempts[t] /\ attempts[t] # None
    BY <1>2, <1>4, <1>6
  <2> QED
    BY <2>1, CallFields
<1> HIDE DEF l
<1> QED
  BY <1>3, <1>4, <1>5, <1>6, LoopStep, LoopFields DEF ReadObservations

LEMMA CircuitList == ASSUME CircuitInv, NEW f \in Refreshers, ListSnapshots(f) PROVE CircuitInv'
<1> DEFINE l == [refresh[f] EXCEPT !.at = "publishing", !.previous = snapshot, !.current = TRUE]
<1>1. snapshot \in Snapshots
  BY TypeParts DEF CircuitInv
<1>2. /\ l \in LoopStates /\ l.started = refresh[f].started /\ l.at = "publishing"
      /\ l.previous = snapshot /\ l.seen = refresh[f].seen
  BY <1>1, LoopFields DEF LoopStates
<1>3. refresh' = [refresh EXCEPT ![f] = l]
  BY DEF ListSnapshots
<1> HIDE DEF l
<1>4. \A t \in Tasks : l.seen[t] # None
        => attempts[t] # None /\ l.seen[t].finishedAt <= attempts[t].finishedAt
  BY <1>2 DEF CircuitInv, SeenSound
<1> QED
  BY <1>2, <1>3, <1>4, LoopStep, LoopFields DEF ListSnapshots

(* A refresh that ends without writing the circuit. *)
LEMMA CircuitEnds ==
  ASSUME CircuitInv, NEW f \in Refreshers, refresh' = [refresh EXCEPT ![f] = NoRefresh],
         aggregation' \in {aggregation, Free},
         UNCHANGED <<now, snapshot, probeLease, attempts, call, overlapped, calls>>
  PROVE  CircuitInv'
<1>1. /\ NoRefresh \in LoopStates /\ NoRefresh.started = 0 /\ ~NoRefresh.current
      /\ \A t \in Tasks : NoRefresh.seen[t] = None
  BY NothingType DEF NoRefresh
<1>2. 0 <= now /\ aggregation' \in Leases /\ overlapped' \in BOOLEAN
  BY LoopFields, NothingType
<1> QED
  BY <1>1, <1>2, LoopStep

(* A publication starts from the circuit as it is and moves it as its      *)
(* aggregation says.                                                       *)
LEMMA PublishMoves ==
  ASSUME CircuitInv, NEW f \in Refreshers, Publish(f)
  PROVE  LET seen == refresh[f].seen  started == refresh[f].started IN
         /\ snapshot' \in Snapshots /\ Sound(snapshot)' /\ snapshot'.expiry = now + SnapshotTtl
         /\ probeLease' = IF snapshot'.state = "half-open" THEN probeLease ELSE 0
         /\ \/ /\ snapshot.state \in {"half-open", "closed", "absent"}
               /\ snapshot'.state = "open" /\ snapshot'.lastTransitionAt = started
               /\ snapshot'.openUntil >= started + BaseCooldown
               /\ snapshot.state = "half-open" => SeenSince(snapshot, seen, started)
            \/ /\ snapshot.state = "half-open" /\ snapshot'.state = "closed"
               /\ snapshot'.lastTransitionAt = started /\ SeenSince(snapshot, seen, started)
               /\ Recovered(SinceTransition(snapshot, seen, started), seen)
            \/ /\ snapshot.state \in {"closed", "absent"} /\ snapshot'.state = "closed"
               /\ snapshot'.lastTransitionAt \in {snapshot.lastTransitionAt, started}
            \/ /\ snapshot.state \in {"open", "half-open"} /\ snapshot'.state = snapshot.state
               /\ snapshot'.lastTransitionAt = snapshot.lastTransitionAt
               /\ snapshot'.openUntil = snapshot.openUntil
<1> DEFINE seen == refresh[f].seen
           started == refresh[f].started
           n == Aggregate(snapshot, seen, started)
           e == now + SnapshotTtl
<1>1. refresh[f].previous = snapshot
  BY DEF Publish, CircuitInv, LoopSound
<1>2. /\ snapshot' = [n EXCEPT !.expiry = e]
      /\ probeLease' = IF n.state = "half-open" THEN probeLease ELSE 0
  BY <1>1 DEF Publish, Put
<1>3. snapshot \in Snapshots /\ Sound(snapshot) /\ started \in Times
  BY TypeParts, LoopFields DEF CircuitInv
<1>4. e \in Nat
  BY LoopFields, PolicyNumbers
<1> HIDE DEF n, e, seen, started
<1>5. /\ n \in Snapshots /\ Sound(n)
      /\ \/ /\ snapshot.state \in {"half-open", "closed", "absent"} /\ n.state = "open"
            /\ n.lastTransitionAt = started /\ n.openUntil >= started + BaseCooldown
            /\ snapshot.state = "half-open" => SeenSince(snapshot, seen, started)
         \/ /\ snapshot.state = "half-open" /\ n.state = "closed"
            /\ n.lastTransitionAt = started /\ SeenSince(snapshot, seen, started)
            /\ Recovered(SinceTransition(snapshot, seen, started), seen)
         \/ /\ snapshot.state \in {"closed", "absent"} /\ n.state = "closed"
            /\ n.lastTransitionAt \in {snapshot.lastTransitionAt, started}
         \/ /\ snapshot.state \in {"open", "half-open"} /\ n.state = snapshot.state
            /\ n.lastTransitionAt = snapshot.lastTransitionAt
            /\ n.openUntil = snapshot.openUntil
  BY <1>3, AggregateOutcome DEF n
<1>6. /\ snapshot' \in Snapshots /\ snapshot'.expiry = e /\ snapshot'.state = n.state
      /\ snapshot'.lastTransitionAt = n.lastTransitionAt /\ snapshot'.openUntil = n.openUntil
      /\ snapshot'.openedAt = n.openedAt
      /\ snapshot'.consecutiveOpenCount = n.consecutiveOpenCount
  BY <1>2, <1>4, <1>5 DEF Snapshots
<1>7. Sound(snapshot)'
  BY <1>5, <1>6 DEF Sound
<1> QED
  BY <1>2, <1>5, <1>6, <1>7 DEF e, seen, started

LEMMA CircuitPublish ==
  ASSUME CircuitInv, NEW f \in Refreshers, Publish(f)
  PROVE  /\ CircuitInv' /\ refresh'[f] = NoRefresh
         /\ \A g \in Refreshers : g # f => refresh'[g] = Outdated[g]
         /\ UNCHANGED <<now, attempts, call, overlapped, calls>>
<1>1. /\ refresh' = [Outdated EXCEPT ![f] = NoRefresh]
      /\ aggregation' \in {aggregation, Free}
      /\ UNCHANGED <<now, attempts, call, overlapped, calls>>
  BY DEF Publish, Put, EndRefresh
<1>2. /\ Outdated \in [Refreshers -> LoopStates]
      /\ \A g \in Refreshers :
           /\ Outdated[g].started = refresh[g].started
           /\ Outdated[g].seen = refresh[g].seen /\ ~Outdated[g].current
  BY LoopFields, OutdatedLoops
<1>3. /\ refresh' \in [Refreshers -> LoopStates] /\ refresh'[f] = NoRefresh
      /\ \A g \in Refreshers : g # f => refresh'[g] = Outdated[g]
  BY <1>1, <1>2, LoopBecomes, NothingType
<1>4. snapshot' \in Snapshots /\ Sound(snapshot)' /\ snapshot'.lastTransitionAt <= now
  <2>1. refresh[f].started <= now /\ snapshot.lastTransitionAt <= now
    BY LoopFields DEF CircuitInv
  <2> QED
    BY <2>1, PublishMoves, Zenon
<1>5. probeLease' \in Nat /\ aggregation' \in Leases
  BY <1>1, PublishMoves, TypeParts, NothingType DEF CircuitInv
<1>6. TypeOK'
  BY <1>1, <1>3, <1>4, <1>5, TypeParts
     DEF CircuitInv, TypeOK, Sound, Leases, Seen, CallStates, LoopStates
<1>7. ASSUME NEW g \in Refreshers PROVE (LoopSound(g) /\ SeenSound(g))'
  <2>1. CASE g = f
    <3>1. /\ NoRefresh.started = 0 /\ ~NoRefresh.current /\ 0 <= now
          /\ \A t \in Tasks : NoRefresh.seen[t] = None
      BY LoopFields DEF NoRefresh
    <3> QED
      BY <1>1, <1>3, <2>1, <3>1 DEF LoopSound, SeenSound
  <2>2. CASE g # f
    BY <1>1, <1>2, <1>3, <2>2 DEF CircuitInv, LoopSound, SeenSound
  <2> QED
    BY <2>1, <2>2
<1>8. \A t \in Tasks : (CallSound(t) /\ AttemptSound(t))'
  BY <1>1 DEF CircuitInv, CallSound, AttemptSound
<1> QED
  BY <1>1, <1>3, <1>4, <1>6, <1>7, <1>8 DEF CircuitInv

LEMMA CircuitTick == ASSUME CircuitInv, Tick PROVE CircuitInv'
<1>1. now' = now + 1 /\ now' \in Times /\ now \in Nat /\ now < now'
  <2>1. now \in Times /\ now < MaxNow /\ now' = now + 1
    BY TypeParts DEF CircuitInv, Tick
  <2> QED
    BY <2>1, PolicyNumbers DEF Times
<1>2. UNCHANGED <<attempts, call, overlapped, calls>>
  BY DEF Tick
<1>3. /\ probeLease' \in {probeLease, 0} /\ aggregation' \in {aggregation, Free}
      /\ \/ snapshot' = snapshot /\ refresh' = refresh
         \/ snapshot' = Absent /\ refresh' = Outdated
  BY DEF Tick
<1>4. /\ refresh' \in [Refreshers -> LoopStates] /\ snapshot' \in Snapshots /\ Sound(snapshot)'
      /\ snapshot'.lastTransitionAt <= now
  <2>1. /\ Absent.lastTransitionAt = 0 /\ 0 <= now
    BY <1>1 DEF Absent
  <2>2. /\ refresh \in [Refreshers -> LoopStates] /\ snapshot \in Snapshots /\ Sound(snapshot)
        /\ snapshot.lastTransitionAt <= now
    BY TypeParts DEF CircuitInv
  <2>3. CASE snapshot' = snapshot /\ refresh' = refresh
    BY <2>2, <2>3 DEF Sound
  <2>4. CASE snapshot' = Absent /\ refresh' = Outdated
    BY <2>1, <2>2, <2>4, OutdatedLoops, NothingType DEF Sound
  <2> QED
    BY <1>3, <2>3, <2>4
<1>5. TypeOK'
  <2>1. probeLease' \in Nat /\ aggregation' \in Leases
    BY <1>3, NothingType, TypeParts DEF CircuitInv
  <2> QED
    BY <1>1, <1>2, <1>4, <2>1, TypeParts
       DEF CircuitInv, TypeOK, Sound, Leases, Seen, CallStates, LoopStates
<1>6. snapshot'.lastTransitionAt <= now'
  <2>1. snapshot'.lastTransitionAt \in Nat
    BY <1>4, TimesAreNatural DEF Snapshots
  <2> QED
    BY <1>1, <1>4, <2>1
<1>7. ASSUME NEW t \in Tasks PROVE (CallSound(t) /\ AttemptSound(t))'
  <2>1. CallSound(t) /\ AttemptSound(t)
    BY DEF CircuitInv
  <2>2. /\ call[t].granted \in Nat
        /\ call[t].at = "finished" => call[t].result.finishedAt \in Nat
        /\ attempts[t] # None => attempts[t].finishedAt \in Nat
    <3>1. call[t] \in CallStates /\ call[t].granted \in Times /\ attempts[t] \in Observations \cup {None}
      BY CallFields
    <3>2. call[t].at = "finished" => call[t].result \in Observations
      BY <2>1, <3>1 DEF CallSound, CallStates
    <3> QED
      BY <3>1, <3>2, TimesAreNatural
  <2>3. /\ call[t].granted <= now'
        /\ call[t].at = "finished" => call[t].result.finishedAt <= now'
        /\ attempts[t] # None => attempts[t].finishedAt <= now'
    BY <1>1, <2>1, <2>2 DEF CallSound, AttemptSound
  <2> QED
    BY <1>2, <2>1, <2>3 DEF CallSound, AttemptSound
<1>8. ASSUME NEW f \in Refreshers PROVE (LoopSound(f) /\ SeenSound(f))'
  <2>1. refresh[f].started <= now'
    BY <1>1, LoopFields
  <2>2. CASE snapshot' = snapshot /\ refresh' = refresh
    BY <1>2, <2>1, <2>2 DEF CircuitInv, LoopSound, SeenSound
  <2>3. CASE snapshot' = Absent /\ refresh' = Outdated
    BY <1>2, <2>1, <2>3, LoopFields, OutdatedLoops DEF CircuitInv, LoopSound, SeenSound
  <2> QED
    BY <1>3, <2>2, <2>3
<1> QED
  BY <1>5, <1>6, <1>7, <1>8 DEF CircuitInv

LEMMA CircuitStutter == CircuitInv /\ UNCHANGED vars => CircuitInv'
  BY DEF vars, CircuitInv, TypeOK, CallSound, AttemptSound, LoopSound, SeenSound

LEMMA CircuitNext == CircuitInv /\ [Next]_vars => CircuitInv'
<1> SUFFICES ASSUME CircuitInv, [Next]_vars PROVE CircuitInv'
  OBVIOUS
<1>1. ASSUME NEW t \in Tasks, TaskStep(t) PROVE CircuitInv'
  <2>1. CASE Rank(t)
    BY <2>1, CircuitRank
  <2>2. CASE CallDirectly(t)
    BY <2>2, CircuitCallDirectly
  <2>3. CASE AcquireProbe(t)
    BY <2>3, CircuitGrant DEF AcquireProbe
  <2>4. CASE ProbeRefused(t) \/ LoseAttempt(t)
    BY <2>4, CircuitForgets DEF ProbeRefused, LoseAttempt
  <2>5. CASE Finish(t)
    BY <2>5, CircuitFinish
  <2>6. CASE PersistAttempt(t)
    BY <2>6, CircuitPersist
  <2> QED
    BY <1>1, <2>1, <2>2, <2>3, <2>4, <2>5, <2>6 DEF TaskStep
<1>2. ASSUME NEW f \in Refreshers, RefreshStep(f) \/ RefreshFails(f) PROVE CircuitInv'
  <2>1. CASE BeginRefresh(f)
    BY <2>1, CircuitBegin
  <2>2. CASE ReadObservations(f)
    BY <2>2, CircuitRead
  <2>3. CASE ListSnapshots(f)
    BY <2>3, CircuitList
  <2>4. CASE Publish(f)
    BY <2>4, CircuitPublish
  <2>5. CASE PublishNothing(f) \/ RefreshFails(f)
    BY <2>5, CircuitEnds DEF PublishNothing, RefreshFails, EndRefresh
  <2> QED
    BY <1>2, <2>1, <2>2, <2>3, <2>4, <2>5 DEF RefreshStep
<1> QED
  BY <1>1, <1>2, CircuitTick, CircuitStutter DEF Next

(* The circuit, its leases, the calls and the refreshes are typed, nothing *)
(* carries a time to come, and a refresh that may publish has listed the   *)
(* circuit as it is (redis.ts:22-29, refresh.ts:34-80).                    *)
THEOREM CircuitInvariant == Spec => []CircuitInv
  BY CircuitInit, CircuitNext, PTL DEF Spec

-----------------------------------------------------------------------------
(* The diagram.                                                            *)

(* What a refresh has seen recover is in the database.                     *)
LEMMA RecoveryIsFresh ==
  ASSUME CircuitInv, NEW f \in Refreshers,
         Recovered(SinceTransition(snapshot, refresh[f].seen, refresh[f].started), refresh[f].seen)
  PROVE  Cardinality(Fresh) >= RecoverySuccesses
<1> DEFINE seen == refresh[f].seen
           T == {t \in SinceTransition(snapshot, seen, refresh[f].started) :
                   seen[t].class = "succeeded"}
<1>1. Cardinality(T) >= RecoverySuccesses
  BY DEF Recovered, OfClass
<1>2. ASSUME NEW t \in T PROVE t \in Fresh
  <2>1. /\ t \in Tasks /\ seen[t] # None
        /\ seen[t].finishedAt >= snapshot.lastTransitionAt
    BY DEF SinceTransition, Until
  <2>2. attempts[t] # None /\ seen[t].finishedAt <= attempts[t].finishedAt
    BY <2>1 DEF CircuitInv, SeenSound
  <2>3. seen[t].finishedAt \in Nat /\ attempts[t].finishedAt \in Nat
    BY <2>1, <2>2, LoopFields, CallFields, TimesAreNatural DEF Seen
  <2>4. snapshot.lastTransitionAt \in Nat
    BY TypeParts, TimesAreNatural DEF CircuitInv, Snapshots
  <2> QED
    BY <2>1, <2>2, <2>3, <2>4 DEF Fresh
<1>3. IsFiniteSet(Fresh)
  BY FS_Subset, PolicyNumbers DEF Fresh
<1>4. Cardinality(T) <= Cardinality(Fresh) /\ IsFiniteSet(T)
  <2> HIDE DEF T
  <2> QED
    BY <1>2, <1>3, FS_Subset
<1>5. Cardinality(T) \in Nat /\ Cardinality(Fresh) \in Nat
  BY <1>3, <1>4, FS_CardinalityType
<1> HIDE DEF T
<1> QED
  BY <1>1, <1>4, <1>5, PolicyNumbers

(* One step along the diagram.                                             *)
Along ==
  LET from == snapshot.state  to == snapshot'.state IN
  /\ from = "closed" => to # "half-open"
  /\ from = "open" => to # "closed"
  /\ to = "half-open" /\ from = "open" => snapshot.openUntil <= now
  /\ from = "half-open" /\ to = "half-open"
       => snapshot'.lastTransitionAt >= snapshot.lastTransitionAt
  /\ from = "half-open" /\ to = "closed"
       => Cardinality(Fresh) >= RecoverySuccesses

LEMMA StepsAlong == CircuitInv /\ [Next]_vars => Along
<1> SUFFICES ASSUME CircuitInv, [Next]_vars PROVE Along
  OBVIOUS
<1>0. snapshot.lastTransitionAt \in Nat /\ snapshot.lastTransitionAt <= now
  BY TypeParts, TimesAreNatural DEF CircuitInv, Snapshots
<1>1. CASE UNCHANGED snapshot
  BY <1>0, <1>1 DEF Along
<1>2. ASSUME NEW t \in Tasks, TaskStep(t) PROVE Along
  <2>1. CASE AcquireProbe(t)
    <3>1. Probeable /\ snapshot'.state = "half-open" /\ snapshot'.lastTransitionAt = now
      BY <2>1, CircuitGrant DEF AcquireProbe
    <3> QED
      BY <1>0, <3>1 DEF Along, Probeable
  <2>2. CASE ~AcquireProbe(t)
    BY <1>1, <1>2, <2>2
       DEF TaskStep, Rank, CallDirectly, ProbeRefused, Finish, PersistAttempt, LoseAttempt
  <2> QED
    BY <2>1, <2>2
<1>3. ASSUME NEW f \in Refreshers, RefreshStep(f) \/ RefreshFails(f) PROVE Along
  <2>1. CASE Publish(f)
    BY <1>0, <2>1, PublishMoves, RecoveryIsFresh DEF Along
  <2>2. CASE ~Publish(f)
    BY <1>1, <1>3, <2>2
       DEF RefreshStep, BeginRefresh, ReadObservations, ListSnapshots, PublishNothing,
           RefreshFails
  <2> QED
    BY <2>1, <2>2
<1>4. CASE Tick
  <2>1. snapshot' \in {snapshot, Absent}
    BY <1>4 DEF Tick
  <2>2. CASE snapshot' = Absent
    BY <2>2 DEF Along, Absent
  <2> QED
    BY <1>1, <2>1, <2>2
<1> QED
  BY <1>1, <1>2, <1>3, <1>4 DEF Next, vars

(* The circuit moves along its diagram only: not from closed to half-open, *)
(* not from open to closed, to half-open after the cooldown, never back to *)
(* an earlier grant, and to closed on fresh successes that are stored      *)
(* (aggregate.ts:217-330, redis.ts:22-62).                                 *)
THEOREM CircuitFollowsDiagram == Spec => FollowsDiagram
<1>1. CircuitInv /\ [Next]_vars => [Along]_vars
  BY StepsAlong
<1>2. Spec => [][Along]_vars
  BY <1>1, CircuitInvariant, PTL DEF Spec
<1>3. [][Along]_vars => FollowsDiagram
  BY PTL DEF FollowsDiagram, Along
<1> QED
  BY <1>2, <1>3

-----------------------------------------------------------------------------
(* One live probe.                                                         *)

(* The probe granted at g is protected: by its lease, while the circuit is *)
(* half-open since g or has expired since; or, once a refresh has left     *)
(* half-open, by the cooldown that began after g and will begin for any    *)
(* refresh that is under way.                                              *)
Held(g) ==
  /\ probeLease = g + ProbeLease
  /\ \/ /\ snapshot.state = "half-open" /\ g <= snapshot.lastTransitionAt
        /\ g + SnapshotTtl <= snapshot.expiry
     \/ snapshot.state = "absent" /\ g + SnapshotTtl <= now

Kept(g) ==
  /\ snapshot.state # "half-open"
  /\ snapshot.state = "open" => g + ProbeLease <= snapshot.openUntil
  /\ \A f \in Refreshers : refresh[f].at # "idle" => g <= refresh[f].started

OneLoop == \A f, g \in Refreshers : refresh[f].at # "idle" /\ refresh[g].at # "idle" => f = g

Punctual == \A f \in Refreshers : refresh[f].at # "idle" => now <= refresh[f].started + MaxRefresh

ProbesApart ==
  /\ OneLoop
  /\ \A t \in Tasks : Live(t) => Held(call[t].granted) \/ Kept(call[t].granted)
  /\ \A t, u \in Tasks : Live(t) /\ Live(u) => t = u

ProbeInv == Punctual /\ (ProbeLease <= BaseCooldown /\ ~overlapped => ProbesApart)

LEMMA ProbeInit == Init => ProbeInv
<1> SUFFICES ASSUME Init PROVE ProbeInv
  OBVIOUS
<1>1. \A f \in Refreshers : refresh[f].at = "idle"
  BY DEF Init, NoRefresh
<1>2. \A t \in Tasks : ~Live(t)
  BY DEF Init, NoCall, Live
<1> QED
  BY <1>1, <1>2 DEF ProbeInv, Punctual, ProbesApart, OneLoop

(* Steps that bring no live probe to life and leave the rest alone.        *)
LEMMA ProbeCallStep ==
  ASSUME CircuitInv, ProbeInv, NEW t \in Tasks, ~Live(t)',
         \A u \in Tasks : u # t => call'[u] = call[u],
         UNCHANGED <<now, snapshot, probeLease, refresh, overlapped>>
  PROVE  ProbeInv'
<1>1. \A u \in Tasks : Live(u)' => u # t /\ Live(u) /\ call'[u] = call[u]
  BY DEF Live
<1>2. Punctual'
  BY DEF ProbeInv, Punctual
<1>3. ProbesApart => ProbesApart'
  BY <1>1 DEF ProbesApart, OneLoop, Held, Kept
<1> QED
  BY <1>2, <1>3 DEF ProbeInv

LEMMA ProbeTask ==
  ASSUME CircuitInv, ProbeInv, NEW t \in Tasks, TaskStep(t), ~AcquireProbe(t)
  PROVE  ProbeInv'
<1>0. call \in [Tasks -> CallStates]
  BY TypeParts DEF CircuitInv
<1>1. UNCHANGED <<now, snapshot, probeLease, refresh, overlapped>>
  BY DEF TaskStep, Rank, CallDirectly, ProbeRefused, Finish, PersistAttempt, LoseAttempt
<1>2. PICK c : /\ call' = [call EXCEPT ![t] = c]
               /\ ~(c.at = "calling" /\ c.probe)
  <2>1. CASE Rank(t)
    <3>1. PICK state \in {HealthState, "closed"} :
        call' = [call EXCEPT ![t] = [NoCall EXCEPT !.at = "ranked", !.probe = state # "closed"]]
      BY <2>1 DEF Rank
    <3>2. [NoCall EXCEPT !.at = "ranked", !.probe = state # "closed"].at = "ranked"
      BY DEF NoCall
    <3> QED
      BY <3>1, <3>2
  <2>2. CASE CallDirectly(t)
    <3>1. [call[t] EXCEPT !.at = "calling"].probe = call[t].probe
      BY <1>0 DEF CallStates
    <3> QED
      BY <2>2, <3>1 DEF CallDirectly
  <2>3. CASE ProbeRefused(t) \/ PersistAttempt(t) \/ LoseAttempt(t)
    BY <2>3 DEF ProbeRefused, PersistAttempt, LoseAttempt, NoCall
  <2>4. CASE Finish(t)
    <3>1. PICK class \in Classes :
        call' = [call EXCEPT ![t] = [NoCall EXCEPT !.at = "finished",
          !.result = [class |-> class, finishedAt |-> now, granted |-> call[t].granted]]]
      BY <2>4 DEF Finish
    <3> DEFINE o == [class |-> class, finishedAt |-> now, granted |-> call[t].granted]
    <3> HIDE DEF o
    <3>2. [NoCall EXCEPT !.at = "finished", !.result = o].at = "finished"
      BY DEF NoCall
    <3> QED
      BY <3>1, <3>2 DEF o
  <2> QED
    BY <2>1, <2>2, <2>3, <2>4 DEF TaskStep
<1>3. call'[t] = c /\ \A u \in Tasks : u # t => call'[u] = call[u]
  BY <1>0, <1>2
<1>4. ~Live(t)'
  BY <1>2, <1>3 DEF Live
<1> QED
  BY <1>1, <1>3, <1>4, ProbeCallStep

(* While a probe is protected no other is granted.                         *)
LEMMA NoneIsLive ==
  ASSUME CircuitInv, ProbesApart, NEW t \in Tasks, AcquireProbe(t), NEW u \in Tasks
  PROVE  ~Live(u)
<1> SUFFICES ASSUME Live(u) PROVE FALSE
  OBVIOUS
<1> DEFINE g == call[u].granted
<1>1. /\ g \in Nat /\ now \in Nat /\ now < g + ProbeLease /\ ProbeLease \in Nat \ {0}
  BY CallFields, PolicyNumbers, TimesAreNatural DEF Live
<1>2. probeLease = 0 /\ Probeable
  BY DEF AcquireProbe
<1>3. CASE Held(g)
  BY <1>1, <1>2, <1>3 DEF Held
<1>4. CASE Kept(g)
  <2>1. snapshot.state = "open" /\ snapshot.openUntil <= now /\ g + ProbeLease <= snapshot.openUntil
    BY <1>2, <1>4 DEF Kept, Probeable
  <2>2. snapshot.openUntil \in Nat
    BY TypeParts DEF CircuitInv, Snapshots
  <2> QED
    BY <1>1, <2>1, <2>2
<1> QED
  BY <1>3, <1>4 DEF ProbesApart

LEMMA ProbeGrant ==
  ASSUME CircuitInv, ProbeInv, NEW t \in Tasks, AcquireProbe(t)
  PROVE  ProbeInv'
<1>1. /\ snapshot'.state = "half-open" /\ snapshot'.lastTransitionAt = now
      /\ snapshot'.expiry = now + SnapshotTtl /\ call'[t].granted = now
      /\ \A u \in Tasks : u # t => call'[u] = call[u]
  BY CircuitGrant DEF AcquireProbe
<1>2. /\ probeLease' = now + ProbeLease /\ refresh' = Outdated
      /\ UNCHANGED <<now, overlapped>>
  BY DEF AcquireProbe, Grant
<1>3. \A f \in Refreshers : /\ refresh'[f].at = refresh[f].at
                            /\ refresh'[f].started = refresh[f].started
  BY <1>2, OutdatedLoops, TypeParts DEF CircuitInv
<1>4. Punctual'
  BY <1>2, <1>3 DEF ProbeInv, Punctual
<1>5. ASSUME ProbesApart PROVE ProbesApart'
  <2>1. \A u \in Tasks : u # t => ~Live(u)'
    BY <1>1, <1>2, <1>5, NoneIsLive DEF Live
  <2>2. Held(now)'
    <3>1. now <= now /\ now + SnapshotTtl <= now + SnapshotTtl
      BY CallFields, PolicyNumbers
    <3> QED
      BY <1>1, <1>2, <3>1 DEF Held
  <2>3. Held(call[t].granted)'
    BY <1>1, <1>2, <2>2 DEF Held
  <2>4. OneLoop'
    BY <1>3, <1>5 DEF ProbesApart, OneLoop
  <2> QED
    BY <2>1, <2>3, <2>4 DEF ProbesApart
<1> QED
  BY <1>2, <1>4, <1>5 DEF ProbeInv

(* Loops that move on without writing the circuit.                         *)
LEMMA ProbeLoopStep ==
  ASSUME CircuitInv, ProbeInv, NEW f \in Refreshers,
         \A g \in Refreshers : g # f => refresh'[g] = refresh[g],
         refresh'[f].at # "idle" => /\ refresh[f].at # "idle"
                                   /\ refresh'[f].started = refresh[f].started,
         UNCHANGED <<now, snapshot, probeLease, call, overlapped>>
  PROVE  ProbeInv'
<1>1. \A g \in Refreshers : refresh'[g].at # "idle"
        => refresh[g].at # "idle" /\ refresh'[g].started = refresh[g].started
  OBVIOUS
<1>2. Punctual'
  BY <1>1 DEF ProbeInv, Punctual
<1>3. ASSUME ProbesApart PROVE ProbesApart'
  <2>1. \A u \in Tasks : Live(u)' => Live(u)
    BY DEF Live
  <2>2. OneLoop'
    BY <1>1, <1>3 DEF ProbesApart, OneLoop
  <2>3. \A u \in Tasks : /\ Held(call[u].granted) => Held(call[u].granted)'
                         /\ Kept(call[u].granted) => Kept(call[u].granted)'
    BY <1>1 DEF Held, Kept
  <2> QED
    BY <1>3, <2>1, <2>2, <2>3 DEF ProbesApart
<1> QED
  BY <1>2, <1>3 DEF ProbeInv

LEMMA ProbeBegin == ASSUME CircuitInv, ProbeInv, NEW f \in Refreshers, BeginRefresh(f) PROVE ProbeInv'
<1> DEFINE l == [refresh[f] EXCEPT !.at = "reading", !.started = now]
<1>1. /\ refresh' = [refresh EXCEPT ![f] = l] /\ refresh[f] \in LoopStates
      /\ refresh \in [Refreshers -> LoopStates]
  BY LoopFields DEF BeginRefresh
<1>2. l.started = now /\ l.at = "reading"
  BY <1>1 DEF LoopStates
<1> HIDE DEF l
<1>3. /\ refresh'[f] = l /\ \A g \in Refreshers : g # f => refresh'[g] = refresh[g]
  BY <1>1
<1>4. UNCHANGED <<now, snapshot, probeLease, call>>
  BY DEF BeginRefresh
<1>5. Punctual'
  <2>1. now <= now + MaxRefresh
    BY LoopFields, PolicyNumbers
  <2> QED
    BY <1>2, <1>3, <1>4, <2>1 DEF ProbeInv, Punctual
<1>6. ASSUME ~overlapped', ProbesApart PROVE ProbesApart'
  <2>1. \A g \in Refreshers : refresh[g].at = "idle"
    BY <1>6 DEF BeginRefresh
  <2>2. OneLoop'
    BY <1>3, <2>1 DEF OneLoop
  <2>3. \A u \in Tasks : Live(u)' => Live(u)
    BY <1>4 DEF Live
  <2>4. ASSUME NEW u \in Tasks PROVE /\ Held(call[u].granted) => Held(call[u].granted)'
                                     /\ Kept(call[u].granted) => Kept(call[u].granted)'
    <3>1. call[u].granted <= now
      BY CallFields
    <3> QED
      BY <1>2, <1>3, <1>4, <2>1, <3>1 DEF Held, Kept
  <2> QED
    BY <1>4, <1>6, <2>2, <2>3, <2>4 DEF ProbesApart
<1>7. overlapped' \/ ~overlapped
  BY DEF BeginRefresh
<1> QED
  BY <1>5, <1>6, <1>7 DEF ProbeInv

(* A refresh that leaves half-open began after the grant of any live       *)
(* probe, so the cooldown it writes outlasts the time of the probe.        *)
LEMMA RefreshBeganAfter ==
  ASSUME CircuitInv, Punctual, NEW f \in Refreshers, Publish(f), NEW g \in Nat,
         Held(g) \/ Kept(g), snapshot.state = "half-open" => snapshot'.state # "half-open"
  PROVE  g <= refresh[f].started
<1> DEFINE started == refresh[f].started
<1>0. started \in Nat /\ now \in Nat /\ refresh[f].at # "idle"
  BY LoopFields DEF Publish
<1>1. CASE Kept(g)
  BY <1>0, <1>1 DEF Kept
<1>2. CASE Held(g) /\ snapshot.state = "half-open"
  <2>1. SeenSince(snapshot, refresh[f].seen, started)
    BY <1>2, PublishMoves
  <2>2. PICK t \in Tasks : /\ refresh[f].seen[t] # None
                           /\ snapshot.lastTransitionAt <= refresh[f].seen[t].finishedAt
                           /\ refresh[f].seen[t].finishedAt <= started
    BY <2>1 DEF SeenSince
  <2>3. refresh[f].seen[t].finishedAt \in Nat
    BY <2>2, LoopFields, TimesAreNatural DEF Seen
  <2>4. g <= snapshot.lastTransitionAt /\ snapshot.lastTransitionAt \in Nat
    BY <1>2, TypeParts, TimesAreNatural DEF Held, CircuitInv, Snapshots
  <2> QED
    BY <1>0, <2>2, <2>3, <2>4
<1>3. CASE Held(g) /\ snapshot.state = "absent"
  <2>1. g + SnapshotTtl <= now /\ now <= started + MaxRefresh
    BY <1>0, <1>3 DEF Held, Punctual
  <2> QED
    BY <1>0, <2>1, PolicyNumbers
<1> QED
  BY <1>1, <1>2, <1>3 DEF Held

LEMMA ProbePublish ==
  ASSUME CircuitInv, ProbeInv, NEW f \in Refreshers, Publish(f)
  PROVE  ProbeInv'
<1>1. /\ refresh'[f] = NoRefresh
      /\ \A g \in Refreshers : g # f => refresh'[g] = Outdated[g]
      /\ UNCHANGED <<now, call, overlapped>>
  BY CircuitPublish
<1>2. \A g \in Refreshers : refresh'[g].at # "idle"
        => refresh[g].at # "idle" /\ refresh'[g].started = refresh[g].started /\ g # f
  BY <1>1, OutdatedLoops, LoopFields DEF NoRefresh
<1>3. Punctual'
  BY <1>1, <1>2 DEF ProbeInv, Punctual
<1>4. ASSUME ProbeLease <= BaseCooldown, ProbesApart PROVE ProbesApart'
  <2>1. \A g \in Refreshers : refresh'[g].at = "idle"
    BY <1>2, <1>4 DEF ProbesApart, OneLoop, Publish
  <2>2. \A u \in Tasks : Live(u)' => Live(u)
    BY <1>1 DEF Live
  <2>3. ASSUME NEW u \in Tasks, Live(u)
        PROVE  Held(call[u].granted)' \/ Kept(call[u].granted)'
    <3> DEFINE g == call[u].granted
    <3>1. g \in Nat /\ g <= now /\ now \in Nat /\ g' = g
      BY <1>1, CallFields, TimesAreNatural
    <3>2. Held(g) \/ Kept(g)
      BY <1>4, <2>3 DEF ProbesApart
    <3>3. CASE snapshot.state = "half-open" /\ snapshot'.state = "half-open"
      <4>1. Held(g)
        BY <3>2, <3>3 DEF Kept
      <4>2. /\ snapshot'.lastTransitionAt = snapshot.lastTransitionAt
            /\ snapshot'.expiry = now + SnapshotTtl /\ probeLease' = probeLease
        BY <3>3, PublishMoves
      <4>3. g + SnapshotTtl <= now + SnapshotTtl
        BY <3>1, PolicyNumbers
      <4> QED
        BY <1>1, <3>1, <3>3, <4>1, <4>2, <4>3 DEF Held
    <3>4. CASE ~(snapshot.state = "half-open" /\ snapshot'.state = "half-open")
      <4>1. g <= refresh[f].started
        BY <3>1, <3>2, <3>4, RefreshBeganAfter DEF ProbeInv
      <4>2. snapshot'.state # "half-open"
        BY <3>4, PublishMoves
      <4>3. ASSUME snapshot'.state = "open" PROVE g + ProbeLease <= snapshot'.openUntil
        <5>1. CASE snapshot.state = "open"
          <6>1. snapshot'.openUntil = snapshot.openUntil
            BY <4>3, <5>1, PublishMoves
          <6> QED
            BY <3>2, <5>1, <6>1 DEF Held, Kept
        <5>2. CASE snapshot.state # "open"
          <6>1. snapshot'.openUntil >= refresh[f].started + BaseCooldown
            BY <4>3, <5>2, PublishMoves
          <6>2. snapshot'.openUntil \in Nat /\ refresh[f].started \in Nat
            BY PublishMoves, LoopFields DEF Snapshots
          <6> QED
            BY <1>4, <3>1, <4>1, <6>1, <6>2, PolicyNumbers
        <5> QED
          BY <5>1, <5>2
      <4> QED
        BY <2>1, <3>1, <4>2, <4>3 DEF Kept
    <3> QED
      BY <3>3, <3>4
  <2>4. OneLoop'
    BY <2>1 DEF OneLoop
  <2> QED
    BY <1>1, <1>4, <2>2, <2>3, <2>4 DEF ProbesApart
<1> QED
  BY <1>1, <1>3, <1>4 DEF ProbeInv

LEMMA ProbeTick == ASSUME CircuitInv, ProbeInv, Tick PROVE ProbeInv'
<1>1. now' = now + 1 /\ now \in Nat
  BY TypeParts, TimesAreNatural DEF CircuitInv, Tick
<1>2. UNCHANGED <<call, overlapped>>
  BY DEF Tick
<1>3. \A f \in Refreshers : /\ refresh'[f].at = refresh[f].at
                            /\ refresh'[f].started = refresh[f].started
  BY OutdatedLoops, TypeParts DEF Tick, CircuitInv
<1>4. Punctual'
  <2>1. ASSUME NEW f \in Refreshers, refresh[f].at # "idle"
        PROVE  now + 1 <= refresh[f].started + MaxRefresh
    BY <1>1, <2>1, LoopFields, PolicyNumbers DEF Tick
  <2> QED
    BY <1>1, <1>3, <2>1 DEF Punctual
<1>5. ASSUME ProbesApart PROVE ProbesApart'
  <2>1. ASSUME NEW u \in Tasks, Live(u)'
        PROVE  Live(u) /\ (Held(call[u].granted)' \/ Kept(call[u].granted)')
    <3> DEFINE g == call[u].granted
    <3>1. g \in Nat /\ g' = g
      BY <1>2, CallFields, TimesAreNatural
    <3>2. now + 1 < g + ProbeLease /\ Live(u)
      BY <1>1, <1>2, <2>1, <3>1, PolicyNumbers DEF Live
    <3>3. Held(g) \/ Kept(g)
      BY <1>5, <3>2 DEF ProbesApart
    <3>4. CASE Held(g)
      <4>1. probeLease' = probeLease
        BY <1>1, <3>1, <3>2, <3>4, PolicyNumbers DEF Tick, Held
      <4>2. CASE snapshot.state = "half-open" /\ snapshot' = snapshot
        BY <1>2, <3>1, <3>2, <3>4, <4>1, <4>2 DEF Held
      <4>3. CASE snapshot.state = "half-open" /\ snapshot' # snapshot
        <5>1. snapshot' = Absent /\ snapshot.expiry <= now + 1
          BY <4>3 DEF Tick
        <5>2. snapshot.expiry \in Nat
          BY TypeParts DEF CircuitInv, Snapshots
        <5>3. g + SnapshotTtl <= now'
          BY <1>1, <3>1, <3>4, <4>3, <5>1, <5>2, PolicyNumbers DEF Held
        <5> QED
          BY <1>2, <3>1, <3>2, <3>4, <4>1, <5>1, <5>3 DEF Held, Absent
      <4>4. CASE snapshot.state # "half-open"
        <5>1. snapshot.state = "absent" /\ g + SnapshotTtl <= now
          BY <3>4, <4>4 DEF Held
        <5>2. snapshot' = snapshot /\ g + SnapshotTtl <= now'
          BY <1>1, <3>1, <5>1, PolicyNumbers DEF Tick
        <5> QED
          BY <1>2, <3>1, <3>2, <3>4, <4>1, <5>1, <5>2 DEF Held
      <4> QED
        BY <4>2, <4>3, <4>4
    <3>5. CASE Kept(g)
      <4>1. snapshot' \in {snapshot, Absent}
        BY DEF Tick
      <4>2. CASE snapshot' = snapshot
        BY <1>2, <1>3, <3>1, <3>2, <3>5, <4>2 DEF Kept
      <4>3. CASE snapshot' = Absent
        BY <1>2, <1>3, <3>1, <3>2, <3>5, <4>3 DEF Kept, Absent
      <4> QED
        BY <4>1, <4>2, <4>3
    <3> QED
      BY <3>2, <3>3, <3>4, <3>5
  <2>2. OneLoop'
    BY <1>3, <1>5 DEF ProbesApart, OneLoop
  <2> QED
    BY <1>2, <1>5, <2>1, <2>2 DEF ProbesApart
<1> QED
  BY <1>2, <1>4, <1>5 DEF ProbeInv

LEMMA ProbeStutter == CircuitInv /\ ProbeInv /\ UNCHANGED vars => ProbeInv'
  BY DEF vars, ProbeInv, Punctual, ProbesApart, OneLoop, Held, Kept, Live

LEMMA ProbeNext == CircuitInv /\ ProbeInv /\ [Next]_vars => ProbeInv'
<1> SUFFICES ASSUME CircuitInv, ProbeInv, [Next]_vars PROVE ProbeInv'
  OBVIOUS
<1>1. ASSUME NEW t \in Tasks, TaskStep(t) PROVE ProbeInv'
  BY <1>1, ProbeGrant, ProbeTask
<1>2. ASSUME NEW f \in Refreshers, RefreshStep(f) \/ RefreshFails(f) PROVE ProbeInv'
  <2>0. refresh \in [Refreshers -> LoopStates]
    BY LoopFields
  <2>1. CASE BeginRefresh(f)
    BY <2>1, ProbeBegin
  <2>2. CASE ReadObservations(f) \/ ListSnapshots(f)
    <3>1. /\ \A g \in Refreshers : g # f => refresh'[g] = refresh[g]
          /\ refresh'[f].started = refresh[f].started /\ refresh[f].at # "idle"
      BY <2>0, <2>2 DEF ReadObservations, ListSnapshots, LoopStates
    <3> QED
      BY <2>2, <3>1, ProbeLoopStep DEF ReadObservations, ListSnapshots
  <2>3. CASE Publish(f)
    BY <2>3, ProbePublish
  <2>4. CASE PublishNothing(f) \/ RefreshFails(f)
    <3>1. /\ refresh' = [refresh EXCEPT ![f] = NoRefresh]
          /\ UNCHANGED <<now, snapshot, probeLease, call, overlapped>>
      BY <2>4 DEF PublishNothing, RefreshFails, EndRefresh
    <3>2. /\ \A g \in Refreshers : g # f => refresh'[g] = refresh[g]
          /\ refresh'[f].at = "idle"
      BY <2>0, <3>1 DEF NoRefresh
    <3> QED
      BY <3>1, <3>2, ProbeLoopStep
  <2> QED
    BY <1>2, <2>1, <2>2, <2>3, <2>4 DEF RefreshStep
<1> QED
  BY <1>1, <1>2, ProbeTick, ProbeStutter DEF Next

LEMMA ProbesAreApart == CircuitInv /\ ProbeInv => OneLiveProbe
<1> SUFFICES ASSUME CircuitInv, ProbeInv, ProbeLease <= BaseCooldown, ~overlapped
             PROVE  Cardinality({t \in Tasks : Live(t)}) <= 1
  BY DEF OneLiveProbe
<1> DEFINE L == {t \in Tasks : Live(t)}
<1>1. \A t, u \in L : t = u
  BY DEF ProbeInv, ProbesApart
<1>2. L = {} \/ \E t \in L : L = {t}
  BY <1>1
<1> HIDE DEF L
<1>3. Cardinality(L) \in {0, 1}
  <2>1. CASE L = {}
    BY <2>1, FS_EmptySet
  <2>2. CASE \E t \in L : L = {t}
    BY <2>2, FS_Singleton
  <2> QED
    BY <1>2, <2>1, <2>2
<1> QED
  BY <1>3 DEF L

(* Where a cooldown is not shorter than a lease and while no refresh has   *)
(* overlapped another, calls inside the time of the probe lease they were  *)
(* granted are one at most (redis.ts:31-62, aggregate.ts:217-330).         *)
THEOREM OneProbeLivesAtATime == Spec => []OneLiveProbe
<1>1. Spec => []ProbeInv
  BY ProbeInit, ProbeNext, CircuitInvariant, PTL DEF Spec
<1> QED
  BY <1>1, ProbesAreApart, CircuitInvariant, PTL

-----------------------------------------------------------------------------
(* The aggregation lease.                                                  *)

(* A refresh that ends before its lease does owns it until it ends.        *)
Owning ==
  \A f \in Refreshers : refresh[f].at # "idle"
    => /\ aggregation.owner = f /\ aggregation.expiry = refresh[f].started + AggregationLease
       /\ now <= refresh[f].started + MaxRefresh

TurnsInv == Owning /\ ~overlapped

LEMMA TurnsNext ==
  ASSUME MaxRefresh < AggregationLease,
         CircuitInv, TurnsInv, [Next]_vars
  PROVE  TurnsInv'
<1>0. refresh \in [Refreshers -> LoopStates]
  BY TypeParts DEF CircuitInv
<1>1. CASE UNCHANGED <<now, aggregation, overlapped>>
           /\ \A g \in Refreshers : refresh'[g].at # "idle"
                => refresh[g].at # "idle" /\ refresh'[g].started = refresh[g].started
  BY <1>1 DEF TurnsInv, Owning
<1>2. ASSUME NEW t \in Tasks, TaskStep(t) PROVE TurnsInv'
  <2>1. CASE AcquireProbe(t)
    BY <1>0, <1>1, <2>1, OutdatedLoops DEF AcquireProbe, Grant
  <2>2. CASE ~AcquireProbe(t)
    BY <1>1, <1>2, <2>2
       DEF TaskStep, Rank, CallDirectly, ProbeRefused, Finish, PersistAttempt, LoseAttempt
  <2> QED
    BY <2>1, <2>2
<1>3. ASSUME NEW f \in Refreshers, RefreshStep(f) \/ RefreshFails(f) PROVE TurnsInv'
  <2>1. CASE BeginRefresh(f)
    <3> DEFINE l == [refresh[f] EXCEPT !.at = "reading", !.started = now]
    <3>1. refresh' = [refresh EXCEPT ![f] = l] /\ l.started = now
      BY <1>0, <2>1 DEF BeginRefresh, LoopStates
    <3> HIDE DEF l
    <3>2. refresh'[f] = l /\ \A g \in Refreshers : g # f => refresh'[g] = refresh[g]
      BY <1>0, <3>1
    <3>3. \A g \in Refreshers : refresh[g].at = "idle"
      BY <2>1, PolicyNumbers DEF BeginRefresh, TurnsInv, Owning, Free
    <3>4. /\ aggregation'.owner = f /\ aggregation'.expiry = now + AggregationLease
          /\ ~overlapped' /\ now' = now
      BY <2>1, <3>3 DEF BeginRefresh, TurnsInv
    <3>5. now <= now + MaxRefresh
      BY LoopFields, PolicyNumbers
    <3> QED
      BY <3>1, <3>2, <3>3, <3>4, <3>5 DEF TurnsInv, Owning
  <2>2. CASE ReadObservations(f) \/ ListSnapshots(f)
    <3>1. /\ \A g \in Refreshers : g # f => refresh'[g] = refresh[g]
          /\ refresh'[f].started = refresh[f].started /\ refresh[f].at # "idle"
      BY <1>0, <2>2 DEF ReadObservations, ListSnapshots, LoopStates
    <3> QED
      BY <1>1, <2>2, <3>1 DEF ReadObservations, ListSnapshots
  <2>3. ASSUME NEW loops \in [Refreshers -> LoopStates],
               \A g \in Refreshers : /\ loops[g].at = refresh[g].at
                                     /\ loops[g].started = refresh[g].started,
               EndRefresh(f, loops)
        PROVE  TurnsInv'
    <3>1. /\ refresh'[f].at = "idle" /\ \A g \in Refreshers : g # f => refresh'[g] = loops[g]
      BY <2>3 DEF EndRefresh, NoRefresh
    <3>2. \A g \in Refreshers : refresh'[g].at # "idle"
            => g # f /\ refresh[g].at # "idle" /\ refresh'[g].started = refresh[g].started
      BY <2>3, <3>1
    <3>3. \A g \in Refreshers : refresh'[g].at # "idle" => aggregation' = aggregation
      BY <2>3, <3>2 DEF EndRefresh, TurnsInv, Owning
    <3> QED
      BY <2>3, <3>2, <3>3 DEF TurnsInv, Owning, EndRefresh
  <2>4. CASE Publish(f)
    BY <1>0, <2>3, <2>4, OutdatedLoops DEF Publish, Put
  <2>5. CASE PublishNothing(f) \/ RefreshFails(f)
    <3>1. CASE EndRefresh(f, refresh)
      BY <1>0, <2>3, <3>1
    <3>2. CASE ~EndRefresh(f, refresh)
      <4>1. /\ refresh' = [refresh EXCEPT ![f] = NoRefresh]
            /\ UNCHANGED <<now, aggregation, overlapped>>
        BY <2>5, <3>2 DEF PublishNothing, RefreshFails
      <4> QED
        BY <1>0, <1>1, <4>1 DEF NoRefresh
    <3> QED
      BY <3>1, <3>2
  <2> QED
    BY <1>3, <2>1, <2>2, <2>4, <2>5 DEF RefreshStep
<1>4. CASE Tick
  <2>1. \A g \in Refreshers : /\ refresh'[g].at = refresh[g].at
                              /\ refresh'[g].started = refresh[g].started
    BY <1>0, <1>4, OutdatedLoops DEF Tick
  <2>2. ASSUME NEW g \in Refreshers, refresh[g].at # "idle"
        PROVE  now + 1 <= refresh[g].started + MaxRefresh /\ aggregation' = aggregation
    <3>1. now + 1 <= refresh[g].started + MaxRefresh
      BY <1>4, <2>2, LoopFields, PolicyNumbers DEF Tick
    <3>2. aggregation.expiry = refresh[g].started + AggregationLease
      BY <2>2 DEF TurnsInv, Owning
    <3>3. ~(aggregation.expiry <= now + 1)
      BY <3>1, <3>2, LoopFields, PolicyNumbers
    <3> QED
      BY <1>4, <3>1, <3>3 DEF Tick
  <2>3. now' = now + 1 /\ overlapped' = overlapped
    BY <1>4 DEF Tick
  <2> QED
    BY <2>1, <2>2, <2>3 DEF TurnsInv, Owning
<1>5. CASE UNCHANGED vars
  BY <1>5 DEF TurnsInv, Owning, vars
<1> QED
  BY <1>2, <1>3, <1>4, <1>5 DEF Next

LEMMA TurnsInit == Init => TurnsInv
  BY DEF Init, NoRefresh, TurnsInv, Owning

(* Where every refresh ends before its aggregation lease does, refreshes   *)
(* take turns, and one probe lives at a time without a proviso on what the *)
(* loops have done (health.ts:72-95, redis.ts:64-70).                      *)
THEOREM RefreshesTakeTurns ==
  ASSUME MaxRefresh < AggregationLease
  PROVE  Spec => []~overlapped
<1>1. CircuitInv /\ TurnsInv /\ [Next]_vars => TurnsInv'
  BY TurnsNext
<1>2. TurnsInv => ~overlapped
  BY DEF TurnsInv
<1> QED
  BY <1>1, <1>2, TurnsInit, CircuitInvariant, PTL DEF Spec
=============================================================================
