---------------------------- MODULE RouteRanking ----------------------------
(***************************************************************************)
(* The order in which a job tries the providers of its platform, as the     *)
(* worker's router works it out, and the plan the administration shows for  *)
(* it.  Both rank by one score.  The router takes the facts as they are for *)
(* one task: the rollout admits each provider for a part of the tasks only, *)
(* and one provider is moved to the front by the task's traffic share.  The *)
(* plan is the same for all tasks, and takes its facts from other readers.  *)
(*                                                                         *)
(* A provider is its number in the order of the names, which breaks ties.   *)
(* The 10,000 basis points of an allocation are Full here, and those of a   *)
(* task's traffic bucket are Buckets.                                       *)
(***************************************************************************)
EXTENDS Integers, Sequences, FiniteSets, FiniteSetsExt, SequencesExt

CONSTANTS
  Providers,   \* naturals, in the order of the providers' names
  PriorityOf,  \* a provider's priority for the platform, in its manifest
  CostOf,      \* its cost weight
  FitOf,       \* "fit", "disabled" or "undelivered" (no delivery mode, or a mock)
  MaxAttempts, \* providers tried for one job
  Full,        \* how many cohort buckets a grant divides the tasks into
  Buckets,     \* how many traffic buckets tasks fall into
  Orders,      \* the preferred orders that are published
  ShareLists,  \* the traffic shares that are published, as <<provider, share>> in order
  Situations   \* the facts of a route that occur

VARIABLES
  facts,      \* what health, rollout and concurrency say of each route now
  preference  \* the published policy: preferred order and traffic shares

rankingVars == <<facts, preference>>

\* Scores and penalties count in two-hundredths of a point, the least that
\* half a basis point of the success rate can move.
Point == 200

Circuits == {"closed", "cooling", "cooled", "half-open"}  \* "cooled": open, with its time over
Facts ==
  [ known : BOOLEAN,          \* rules and guard can be read and are fresh
    allocation : 0 .. Full,   \* the grant's, or the guard's cap when that is less
    circuit : Circuits,
    rate : 0 .. 20000,        \* of successes, in half basis points
    latency : Nat,            \* p95, in steps of 5 ms
    friction : 0 .. 80 * Point,
    samples : {"enough", "few", "outdated"},  \* of distinct tasks; or the snapshot is too old
    busy : BOOLEAN ]          \* no free slot, or another job has its probe
Policies == [order : Orders, shares : ShareLists]

\* A published share list is empty or shares out every bucket, once each.
Total(shares) == FoldLeft(LAMBDA sum, s : sum + s[2], 0, shares)
Holder(shares) == {shares[i][1] : i \in 1 .. Len(shares)}
ShareOf(shares, p) == Total(SelectSeq(shares, LAMBDA s : s[1] = p))
WellShared(shares) == shares # <<>> => Total(shares) = Buckets /\ Cardinality(Holder(shares)) = Len(shares)

TypeOK ==
  /\ facts \in [Providers -> Facts]
  /\ preference \in Policies /\ WellShared(preference.shares) /\ IsInjective(preference.order)

\* A route nobody has used yet.
Neutral ==
  [ known |-> TRUE, allocation |-> Full, circuit |-> "closed", rate |-> 0, latency |-> 0,
    friction |-> 0, samples |-> "few", busy |-> FALSE ]

Init ==
  /\ facts = [p \in Providers |-> Neutral]
  /\ preference \in Policies

---------------------------------------------------------------------------
(* The score *)

Within(s, x) == \E i \in 1 .. Len(s) : s[i] = x
Position(s, x) == CHOOSE i \in 1 .. Len(s) : s[i] = x
Lower(m, n) == IF m < n THEN m ELSE n

\* What is measured: 100 points for success, 1 off for a second, 50 at most.
Merit(rate, latency, friction) == rate - Lower(latency, 50 * Point) - friction

\* A place in the preferred order outweighs any base score.
ManualWeight == 1500000 * Point

Base(p, merit) == (PriorityOf[p] * 1000 - CostOf[p]) * Point + merit
Score(p, merit) ==
  Base(p, merit) +
    IF Within(preference.order, p)
    THEN (Len(preference.order) - Position(preference.order, p) + 2) * ManualWeight
    ELSE 0

\* The higher score first, then the name.
Ranked(S, merit) ==
  SetToSortSeq(S, LAMBDA p, q : \/ Score(p, merit[p]) > Score(q, merit[q])
                                \/ Score(p, merit[p]) = Score(q, merit[q]) /\ p < q)

---------------------------------------------------------------------------
(* The router.  A task falls into a cohort bucket of each provider's grant. *)

Cohorts == [Providers -> 0 .. Full - 1]
Admits(p, bucket) == facts[p].known /\ bucket < facts[p].allocation

\* The routes that the task may use now: an open circuit keeps one out until
\* its time is over, when a job may probe it.
Rankable(cohort) ==
  {p \in Providers : FitOf[p] = "fit" /\ Admits(p, cohort[p]) /\ facts[p].circuit # "cooling"}

\* Few or outdated samples count as none.  The router scores twice: the score
\* that it records has the friction, the one that it orders by is worked out
\* again without it.
JobMerit(p) == IF facts[p].samples = "enough" THEN Merit(facts[p].rate, facts[p].latency, 0) ELSE 0
Ordered(cohort) == Ranked(Rankable(cohort), [p \in Providers |-> JobMerit(p)])

\* The first share whose boundary is beyond the bucket.
Boundary(shares, i) == Total(SubSeq(shares, 1, i))
Chosen(shares, b) == Min({i \in 1 .. Len(shares) : b < Boundary(shares, i)})

\* The bucket is taken modulo the shares of the holders that may be used now.
DistributeFirstChoice(ordered, bucket) ==
  LET shares == SelectSeq(preference.shares, LAMBDA s : Within(ordered, s[1]))
      first == shares[Chosen(shares, bucket % Total(shares))][1]
  IN IF Len(ordered) < 2 \/ shares = <<>>
     THEN ordered
     ELSE <<first>> \o SelectSeq(ordered, LAMBDA p : p # first)

\* A route without a free slot, or whose probe is taken, is passed over, and is
\* not an attempt.
FirstOf(s, n) == SubSeq(s, 1, Lower(Len(s), n))
Tried(route) == FirstOf(SelectSeq(route, LAMBDA p : ~facts[p].busy), MaxAttempts)

---------------------------------------------------------------------------
(* The plan of the administration *)

\* Why a route is left out, the first reason that holds.  Any allocation is
\* an allocation, and how many calls are under way is never told to the
\* administration, so a busy route stays in.  A fault would be to forget the
\* circuit.
ExclusionForgetsCircuit(p) ==
  CASE FitOf[p] = "disabled" -> "manifest_disabled"
    [] FitOf[p] = "undelivered" -> "no_delivery_mode"
    [] ~facts[p].known -> "rollout_unavailable"
    [] facts[p].allocation = 0 -> "rollout_denied"
    [] OTHER -> "none"

ExclusionFor(p) ==
  CASE FitOf[p] = "disabled" -> "manifest_disabled"
    [] FitOf[p] = "undelivered" -> "no_delivery_mode"
    [] ~facts[p].known -> "rollout_unavailable"
    [] facts[p].allocation = 0 -> "rollout_denied"
    [] facts[p].circuit \in {"cooling", "cooled"} -> "circuit_open"
    [] OTHER -> "none"

\* The administration rounds the rate to whole basis points and uses rate and
\* latency however few or old the samples; with few, it leaves the friction out.
Rounded(rate) == 2 * ((rate + 1) \div 2)
PlanMerit(p) ==
  Merit(Rounded(facts[p].rate), facts[p].latency, IF facts[p].samples = "few" THEN 0 ELSE facts[p].friction)

Eligible == {p \in Providers : ExclusionFor(p) = "none"}
Planned == Ranked(Eligible, [p \in Providers |-> PlanMerit(p)])
Plan == FirstOf(Planned, MaxAttempts)

Role(p) ==
  IF Within(Plan, p)
  THEN IF Plan[1] = p THEN "primary" ELSE "fallback"
  ELSE IF p \in Eligible THEN "eligible" ELSE "excluded"

---------------------------------------------------------------------------
(* What changes the facts *)

Observe(p, situation) ==
  /\ facts' = [facts EXCEPT ![p] = situation]
  /\ UNCHANGED preference

Publish(policy) == preference' = policy /\ UNCHANGED facts

RankingNext ==
  \/ \E p \in Providers, situation \in Situations : Observe(p, situation)
  \/ \E policy \in Policies : Publish(policy)

RankingSpec == Init /\ [][RankingNext]_rankingVars

---------------------------------------------------------------------------
(* A task first tries a provider that it may use and that holds a share, if *)
(* there is one, whatever the preferred order.  Among the tasks of one      *)
(* cohort, every holder they may use is the first choice of at least its    *)
(* share of the traffic buckets, and of exactly its share when they may use *)
(* all of them.                                                             *)
FirstChoices(ordered, p) ==
  Cardinality({b \in 0 .. Buckets - 1 : DistributeFirstChoice(ordered, b)[1] = p})
FirstChoiceFollowsShares ==
  \A cohort \in Cohorts :
    LET rankable == Rankable(cohort)
        ordered == Ordered(cohort)
        holders == Holder(preference.shares) \cap rankable
        Share(p) == ShareOf(preference.shares, p)
    IN holders # {} =>
         /\ \A p \in rankable \ holders : FirstChoices(ordered, p) = 0
         /\ \A p \in holders : FirstChoices(ordered, p) >= Share(p)
         /\ holders = Holder(preference.shares) => \A p \in holders : FirstChoices(ordered, p) = Share(p)

(* What the plan that the administration shows says of a single task.  The  *)
(* routes a task may use are planned, but for an open circuit due for a     *)
(* probe; a planned route is kept from a task by its grant only.  Routes    *)
(* that are judged by the same facts on both sides are in the order of the  *)
(* plan.  When all are, and no traffic is shared out, the task tries the    *)
(* routes of the plan that its grants admit and that are not busy, in       *)
(* that order, up to the limit: the provider shown as primary comes first   *)
(* for exactly the tasks that its own grant admits.                         *)
JudgedAlike(p) ==
  LET f == facts[p]
  IN /\ f.circuit # "cooled"
     /\ f.samples = "enough" => Rounded(f.rate) = f.rate
     /\ f.samples # "enough" => f.rate = 0 /\ f.latency = 0
     /\ f.samples # "few" => f.friction = 0

PlanIsOrderTried ==
  \A cohort \in Cohorts :
    LET ordered == Ordered(cohort)
        alike == {p \in Rankable(cohort) : JudgedAlike(p)}
        Open(p) == Admits(p, cohort[p]) /\ ~facts[p].busy
    IN /\ \A p \in Rankable(cohort) : Role(p) # "excluded" \/ facts[p].circuit = "cooled"
       /\ \A p \in Eligible : Admits(p, cohort[p]) => Within(ordered, p)
       /\ \A p, q \in alike :
            Position(ordered, p) < Position(ordered, q) <=> Position(Planned, p) < Position(Planned, q)
       /\ (preference.shares = <<>> /\ \A p \in Providers : JudgedAlike(p)) =>
            \A b \in 0 .. Buckets - 1 :
              LET tried == Tried(DistributeFirstChoice(ordered, b))
              IN /\ tried = FirstOf(SelectSeq(Planned, Open), MaxAttempts)
                 /\ \A p \in Providers : Role(p) = "primary" =>
                      (Within(tried, p) <=> Open(p)) /\ (Open(p) => tried[1] = p)

(* ADR-0031:37: an equivalent provider with recent access friction moves    *)
(* behind a healthy peer.  The code does not keep this, whenever situations *)
(* differ in their friction: Ordered scores without it (see README).        *)
FrictionMovesBehind ==
  \A cohort \in Cohorts : \A p, q \in Rankable(cohort) :
    ( /\ preference.order = <<>> /\ preference.shares = <<>>
      /\ PriorityOf[p] = PriorityOf[q] /\ CostOf[p] = CostOf[q]
      /\ facts[p].samples = "enough" /\ facts[q] = [facts[p] EXCEPT !.friction = facts[q].friction]
      /\ facts[p].friction < facts[q].friction ) =>
    Position(Ordered(cohort), p) < Position(Ordered(cohort), q)
=============================================================================
