--------------------------- MODULE MCControlPlane ---------------------------
(***************************************************************************)
(* The parts of the control plane: the rollout rules, the route policies,  *)
(* the content pages, the platform presentation, and the ranking that the  *)
(* policies feed.  They share no state, so a behaviour here is a behaviour *)
(* of one of them.                                                         *)
(***************************************************************************)
EXTENDS MCRolloutControl, RoutePolicyPublication, ContentPublication, PlatformPresentation, TLC

CONSTANTS a, b   \* commands of the content administration, and platform pages

\* Sound: no property tells a from b.
MCSymmetry == Permutations({a, b})

-----------------------------------------------------------------------------
(* The instances.                                                           *)

PublicationKind == [c1 |-> "published", c2 |-> "rollback"]
PublicationPlatform == [c1 |-> "p1", c2 |-> "p2"]
PolicyBounds == [p1 |-> 2, p2 |-> 4]
PageBounds == [home |-> 2, tips |-> 1]
RankPriority == <<900, 900, 800>>
RankCost == <<0, 0, 5>>
RankFit == [p \in 1 .. 3 |-> "fit"]
RankOrders == {<<>>, <<3, 1>>}
RankShares == {<<>>, <<<<2, 2>>, <<1, 4>>>>, <<<<1, 1>>, <<3, 2>>, <<2, 3>>>>}

\* A route in use, and what may be otherwise with it.
InUse ==
  [ known |-> TRUE, allocation |-> 2, circuit |-> "closed", rate |-> 19000, latency |-> 400,
    friction |-> 0, samples |-> "enough", busy |-> FALSE ]
RankSituations ==
  { InUse,
    [InUse EXCEPT !.known = FALSE],
    [InUse EXCEPT !.allocation = 0],
    [InUse EXCEPT !.allocation = 1],                     \* half of the tasks
    [InUse EXCEPT !.allocation = 1, !.busy = TRUE],
    [InUse EXCEPT !.circuit = "cooling"],
    [InUse EXCEPT !.circuit = "cooled"],
    [InUse EXCEPT !.circuit = "half-open", !.busy = TRUE],
    [InUse EXCEPT !.rate = 18999],                       \* rounds to that of InUse
    [InUse EXCEPT !.latency = 12000],                    \* beyond the penalty's limit
    [InUse EXCEPT !.friction = 8000],
    [InUse EXCEPT !.samples = "few", !.rate = 20000],
    [InUse EXCEPT !.circuit = "half-open", !.samples = "outdated"] }

VARIABLES part, facts, preference

Ranking == INSTANCE RouteRanking WITH
  Providers <- {1, 2, 3}, PriorityOf <- RankPriority, CostOf <- RankCost, FitOf <- RankFit,
  MaxAttempts <- 2, Full <- 2, Buckets <- 6, Orders <- RankOrders, ShareLists <- RankShares,
  Situations <- RankSituations

-----------------------------------------------------------------------------
(* One part moves; the others keep a state they can start in.             *)

PresentationIdle == present.newest = 0 /\ routed /\ ready = {}

RankingVars == <<facts, preference>>
RankingIdle == facts = 0 /\ preference = 0

ControlInit ==
  /\ part \in {"rollout", "policy", "content", "presentation", "ranking"}
  /\ Init   \* of the rollout
  /\ PolicyInit /\ ContentInit /\ PresentationInit
  /\ part # "presentation" => PresentationIdle
  /\ IF part = "ranking" THEN Ranking!Init ELSE RankingIdle

ControlNext ==
  \/ part = "rollout" /\ Next /\ UNCHANGED <<part, policyVars, contentVars,
       presentationVars, RankingVars>>
  \/ part = "policy" /\ PolicyNext /\ UNCHANGED <<part, vars, contentVars,
       presentationVars, RankingVars>>
  \/ part = "content" /\ ContentNext /\ UNCHANGED <<part, vars, policyVars,
       presentationVars, RankingVars>>
  \/ part = "presentation" /\ PresentationNext /\ UNCHANGED <<part, vars, policyVars,
       contentVars, RankingVars>>
  \/ part = "ranking" /\ Ranking!RankingNext /\ UNCHANGED <<part, vars, policyVars,
       contentVars, presentationVars>>

allVars == <<part, vars, policyVars, contentVars, presentationVars, RankingVars>>
ControlSpec == ControlInit /\ [][ControlNext]_allVars

-----------------------------------------------------------------------------
\* The theorems about the parts assume no more of the constants.
ASSUME ControlPlaneAssumption == PolicyWorkload /\ ContentWorkload /\ PresentationWorkload

\* Every part keeps its types.
ControlTypeOK ==
  /\ TypeOK /\ PolicyTypeOK /\ ContentTypeOK /\ PresentationTypeOK
  /\ part = "ranking" => Ranking!TypeOK

\* Traffic shares decide the first provider of a task, and the plan that the
\* administration shows is the order of the routes that the task may use.
RankingIsAsPlanned ==
  part = "ranking" => Ranking!FirstChoiceFollowsShares /\ Ranking!PlanIsOrderTried

=============================================================================
