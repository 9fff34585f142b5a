---------------------------- MODULE ProviderRoute ----------------------------
(***************************************************************************)
(* Resolve jobs in one worker: the providers the worker starts with, the    *)
(* ranking and the sequential fallback of ProviderRouter, the calls of its  *)
(* adapters (ProviderAdapters), the request slots an adapter shares among   *)
(* jobs, and the queue's decision to run a job again.                      *)
(*                                                                         *)
(* Rollout rules, health snapshots and the Redis leases of a provider are  *)
(* modules of their own; here each of them may answer anything.            *)
(***************************************************************************)
EXTENDS ProviderAdapters

CONSTANTS
  Job,           \* resolve jobs of the worker's queue
  Workloads,     \* what a worker is given: its providers, a platform, the jobs that ask for it
  CobaltApproved, CobaltLegacy, CobaltCapabilities, \* cobalt's lists of platforms and modes
  Production,
  MaxAttempts,   \* ROUTE_MAX_ATTEMPTS
  MaxExtractions,\* LOCOLOADER_MAX_EXTRACTIONS, in one quota window
  RunBound,      \* at most this many runs of a job are looked at
  PollBound      \* and this many polls of a prepared download

ASSUME RouteAssumption ==
  /\ MaxAttempts \in Nat \ {0} /\ MaxExtractions \in Nat /\ RunBound \in Nat \ {0} /\ PollBound \in Nat
  /\ Production \in BOOLEAN

VARIABLES
  worker,    \* starting, serving, or refused
  enabled,   \* the providers whose ENABLE_ flag is set
  approved,  \* what their activations ask for and was given
  platform,  \* of each job
  status,    \* queued, ranked, calling, resolved or failed
  run,       \* of the queue's attempts of a job
  left,      \* the ranked providers the loop has not reached
  attempts,  \* recorded in this run
  call,      \* the provider called, the stage of the call and its polls
  signal,    \* live, or aborted by the provider's timeout or the route's deadline
  last,      \* the last attempt's provider and what became of it
  slots,     \* the jobs that hold a request slot of a provider
  extracted, \* LocoLoader tokens reserved in this window
  calls,     \* how often a job called a provider
  made       \* and how often it called one at all

vars == <<worker, enabled, approved, platform, status, run, left, attempts, call, signal, last, slots,
          extracted, calls, made>>

---------------------------------------------------------------------------
(* The manifests of the worker's providers.                                *)

Serves == [twittersaver |-> {"x"}, ssstwitter |-> {"x"}, savefromins |-> {"instagram"}, snapinsta |-> {"instagram"},
           dlpanda |-> {"tiktok", "x", "vimeo", "facebook", "pinterest"}, snaptik |-> {"tiktok"}, tikvid |-> {"tiktok"},
           tikcd |-> {"tiktok"}, fdown |-> {"facebook"}, social |-> {"facebook", "x", "tiktok", "instagram", "youtube"},
           pinterest |-> {"pinterest"}, viddown |-> {"vimeo"}, locoloader |-> {"xhamster", "x", "tiktok", "facebook"},
           ninexbuddy |-> {"xhamster", "dailymotion"}, getxhamster |-> {"xhamster"}, snapyt |-> {"youtube"},
           noadsdl |-> {"youtube"}, cobalt |-> CobaltApproved, ytdlp |-> {"dailymotion", "youtube"}]
Provider == DOMAIN Serves

ASSUME WorkloadAssumption == \A w \in Workloads : w.enabled \subseteq Provider

Needs == [twittersaver |-> TwitterSaverNeeds, ssstwitter |-> SSSTwitterNeeds, savefromins |-> SaveFromInsNeeds,
          snapinsta |-> SnapInstaNeeds, dlpanda |-> DLPandaNeeds, snaptik |-> SnapTikNeeds, tikvid |-> TikVidNeeds,
          tikcd |-> TikCDNeeds, fdown |-> FDownNeeds, social |-> SocialNeeds, pinterest |-> PinterestNeeds,
          viddown |-> VidDownNeeds, locoloader |-> LocoLoaderNeeds, ninexbuddy |-> BuddyNeeds,
          getxhamster |-> XHamsterNeeds, snapyt |-> SnapYTNeeds, noadsdl |-> NoAdsDLNeeds, cobalt |-> CobaltNeeds,
          ytdlp |-> YtDlpNeeds]

CobaltModesOf(f) == CobaltVerified(f, CobaltApproved, CobaltLegacy, CobaltCapabilities)

\* The platforms a provider has delivery modes for.
Delivers(p) ==
  CASE p \in {"dlpanda", "snapinsta", "tikvid"} -> {}
    [] p \in {"locoloader", "ninexbuddy"} -> {"xhamster"}
    [] p = "cobalt" -> {f \in CobaltApproved : CobaltModesOf(f) # {}}
    [] OTHER -> Serves[p]

Adapters(f) ==
  LET ok(p) == f \in Delivers(p) IN
    [twittersaver |-> TwitterSaver(TRUE), ssstwitter |-> SSSTwitter(TRUE), savefromins |-> SaveFromIns(TRUE),
     snapinsta |-> FreeSite(TRUE), dlpanda |-> DLPanda(TRUE), snaptik |-> SnapTikMonster(TRUE),
     tikvid |-> FreeSite(TRUE), tikcd |-> TikCD(TRUE), fdown |-> FDownIsuru(TRUE), social |-> SocialDownloader(TRUE),
     pinterest |-> PinterestVideoDownloader(TRUE), viddown |-> VidDown(TRUE), locoloader |-> LocoLoader(TRUE),
     ninexbuddy |-> NineXBuddy(ok("ninexbuddy")), getxhamster |-> GetXHamster(TRUE), snapyt |-> SnapYT(TRUE),
     noadsdl |-> NoAdsDL(TRUE), cobalt |-> Cobalt(CobaltModesOf(f)), ytdlp |-> YtDlpIsolated(TRUE)]
AdapterTable == [f \in {w.platform : w \in Workloads} |-> Adapters(f)]
AdapterOf(j) == AdapterTable[platform[j]][call[j].provider]

NoCall == [provider |-> "none", stage |-> "none", polls |-> 0, late |-> FALSE]
NoAttempt == [provider |-> "none", retryable |-> TRUE, fallback |-> TRUE]

\* The platforms the queue runs once; the others three times.
RunsOf(f) == IF f \in {"instagram", "facebook", "pinterest", "xhamster", "youtube", "odnoklassniki", "dailymotion"}
             THEN 1 ELSE IF RunBound < 3 THEN RunBound ELSE 3

---------------------------------------------------------------------------
\* Jobs for a worker that is given its providers, with at most one of their
\* needs missing.
Given ==
  /\ \E w \in Workloads :
       /\ enabled = w.enabled
       /\ approved \in {Needs} \cup
            UNION {{[Needs EXCEPT ![p] = @ \ {n}] : n \in Needs[p]} : p \in w.enabled}
       /\ platform = [j \in Job |-> w.platform]
       /\ status = [j \in Job |-> IF j \in w.jobs THEN "queued" ELSE "absent"]
       /\ LET asked == {p \in w.enabled : w.platform \in Serves[p]} IN
            slots = [p \in asked |-> {}] /\ calls = [j \in Job |-> [p \in asked |-> 0]]
  /\ run = [j \in Job |-> 1] /\ left = [j \in Job |-> {}] /\ attempts = [j \in Job |-> 0]
  /\ call = [j \in Job |-> NoCall] /\ signal = [j \in Job |-> "live"] /\ last = [j \in Job |-> NoAttempt]
  /\ made = [j \in Job |-> 0] /\ extracted = 0

Init == worker = "starting" /\ Given

\* The worker does not start when a provider is enabled without what its
\* activation asks for.
Start ==
  /\ worker = "starting"
  /\ worker' = IF \A p \in enabled : Needs[p] \subseteq approved[p] THEN "serving" ELSE "refused"
  /\ UNCHANGED <<enabled, approved, platform, status, run, left, attempts, call, signal, last, slots, extracted, calls, made>>

---------------------------------------------------------------------------
(* The end of a route, and the queue's decision.                           *)

\* A provider with a fallback of its own is not replayed: the last one tried
\* decides for the whole route.
AutomaticRetry(p) ==
  p \notin {"fdown", "social", "pinterest", "viddown", "savefromins", "locoloader", "ninexbuddy",
            "getxhamster", "snapyt", "noadsdl", "cobalt", "ytdlp"}

EndRoute(j, retryable, p) ==
  /\ IF retryable /\ AutomaticRetry(p) /\ run[j] < RunsOf(platform[j])
     THEN status' = [status EXCEPT ![j] = "queued"] /\ run' = [run EXCEPT ![j] = @ + 1]
     ELSE status' = [status EXCEPT ![j] = "failed"] /\ UNCHANGED run
  /\ left' = [left EXCEPT ![j] = {}]
  /\ attempts' = [attempts EXCEPT ![j] = 0]
  /\ signal' = [signal EXCEPT ![j] = "live"]

\* A fault: only a call that was not aborted gives its slot back.
LeaveUnlessAborted(j) ==
  /\ call' = [call EXCEPT ![j] = NoCall]
  /\ slots' = IF signal[j] = "live" THEN [slots EXCEPT ![call[j].provider] = @ \ {j}] ELSE slots

\* The call is over, its slot is given back.
Leave(j) ==
  /\ call' = [call EXCEPT ![j] = NoCall]
  /\ slots' = [slots EXCEPT ![call[j].provider] = @ \ {j}]

\* What the router makes of an exception that is not a ProviderError.
Named(j, o) == IF o # Raw THEN o ELSE IF signal[j] # "live" THEN TimedOut ELSE Failure("internal_error", TRUE, TRUE)

\* A fault: the router falls back whatever the failure says of it.
FailsForward(j, o) ==
  LET e == Named(j, o) IN
    /\ Leave(j)
    /\ last' = [last EXCEPT ![j] = [provider |-> call[j].provider,
                                   retryable |-> e.retryable, fallback |-> e.fallback]]
    /\ IF signal[j] = "route"
       THEN EndRoute(j, e.retryable, call[j].provider)
       ELSE /\ status' = [status EXCEPT ![j] = "ranked"]
            /\ attempts' = [attempts EXCEPT ![j] = @ + 1]
            /\ signal' = [signal EXCEPT ![j] = "live"]
            /\ UNCHANGED <<run, left>>

Fails(j, o) ==
  LET e == Named(j, o) IN
    /\ Leave(j)
    /\ last' = [last EXCEPT ![j] = [provider |-> call[j].provider,
                                   retryable |-> e.retryable, fallback |-> e.fallback]]
    /\ IF signal[j] = "route" \/ ~e.fallback
       THEN EndRoute(j, e.retryable, call[j].provider)
       ELSE /\ status' = [status EXCEPT ![j] = "ranked"]
            /\ attempts' = [attempts EXCEPT ![j] = @ + 1]
            /\ signal' = [signal EXCEPT ![j] = "live"]
            /\ UNCHANGED <<run, left>>

Succeeds(j) ==
  /\ Leave(j)
  /\ status' = [status EXCEPT ![j] = "resolved"]
  /\ UNCHANGED <<run, left, attempts, signal, last>>

---------------------------------------------------------------------------
(* ProviderRouter                                                          *)

\* The providers of a platform, in production only those that can deliver it.
Manifest(j) == {p \in enabled : platform[j] \in Serves[p]}
Eligible(j) == {p \in Manifest(j) : Production => platform[j] \in Delivers(p)}

\* Rollout and health leave some of them, in some order.
Rank(j) ==
  /\ worker = "serving" /\ status[j] = "queued"
  /\ \E allowed \in SUBSET Eligible(j), unavailable \in BOOLEAN : \E ranked \in SUBSET allowed :
       /\ unavailable => allowed # Eligible(j)
       /\ IF ranked # {}
          THEN /\ status' = [status EXCEPT ![j] = "ranked"] /\ left' = [left EXCEPT ![j] = ranked]
               /\ UNCHANGED <<run, attempts, signal>>
          ELSE EndRoute(j, ~(Manifest(j) # {} /\ allowed = {} /\ ~unavailable), "none")
  /\ UNCHANGED <<worker, enabled, approved, platform, call, last, slots, extracted, calls, made>>

InLoop(j) == status[j] = "ranked" /\ left[j] # {} /\ attempts[j] < MaxAttempts

\* The lease or the probe of a provider is refused, or cannot be asked for.
Skip(j, p) ==
  /\ InLoop(j) /\ p \in left[j]
  /\ left' = [left EXCEPT ![j] = @ \ {p}]
  /\ UNCHANGED <<worker, enabled, approved, platform, status, run, attempts, call, signal, last, slots, extracted, calls, made>>

Call(j, p) ==
  /\ InLoop(j) /\ p \in left[j]
  /\ left' = [left EXCEPT ![j] = @ \ {p}]
  /\ status' = [status EXCEPT ![j] = "calling"]
  /\ call' = [call EXCEPT ![j] = [provider |-> p, stage |-> "start", polls |-> 0, late |-> signal[j] # "live"]]
  /\ calls' = [calls EXCEPT ![j] = [calls[j] EXCEPT ![p] = @ + 1]]
  /\ made' = [made EXCEPT ![j] = @ + 1]
  /\ UNCHANGED <<worker, enabled, approved, platform, run, attempts, signal, last, slots, extracted>>

GiveUp(j) ==
  /\ status[j] = "ranked" /\ ~InLoop(j)
  /\ IF attempts[j] = 0 THEN EndRoute(j, TRUE, "none") ELSE EndRoute(j, last[j].retryable, last[j].provider)
  /\ UNCHANGED <<worker, enabled, approved, platform, call, last, slots, extracted, calls, made>>

\* The provider's timeout or the route's deadline aborts the signal.
Cut(j, by) ==
  /\ status[j] = "calling" \/ (status[j] = "ranked" /\ by = "route")
  /\ signal[j] # "route" /\ signal[j] # by
  /\ signal' = [signal EXCEPT ![j] = by]
  /\ UNCHANGED <<worker, enabled, approved, platform, status, run, left, attempts, call, last, slots, extracted, calls, made>>

---------------------------------------------------------------------------
(* A call                                                                  *)

Calling(j) == status[j] = "calling"

\* A request that starts after the abort can only fail.
Late(j) == call[j].late /\ call[j].stage \notin Deaf

Proceed(j, stage) ==
  /\ call' = [call EXCEPT ![j] = [provider |-> @.provider, stage |-> stage, late |-> signal[j] # "live",
                                  polls |-> IF stage = @.stage THEN @.polls + 1 ELSE 0]]
  /\ UNCHANGED <<status, run, left, attempts, signal, last>>

\* The code of a stage, up to the next request.
Step(j) ==
  /\ Calling(j) /\ ~Late(j) /\ call[j].stage \notin {"gate", "reserve"}
  /\ \E o \in AdapterOf(j).steps[call[j].stage] :
       CASE o = Resolved -> Succeeds(j) \/ Fails(j, InvalidOnce)
         [] o.to \in {"failed", "raw"} -> Fails(j, o)
         [] OTHER -> /\ o.to = call[j].stage => call[j].polls < PollBound
                     /\ Proceed(j, o.to) /\ UNCHANGED slots
  /\ UNCHANGED <<worker, enabled, approved, platform, extracted, calls, made>>

\* A slot among all the jobs of the worker, and a token of the quota for
\* LocoLoader, whose next stage is the extraction.
Admit(j) ==
  LET p == call[j].provider IN
    /\ Calling(j) /\ call[j].stage \in {"gate", "reserve"}
    /\ slots[p] = {}
    /\ p = "locoloader" => extracted < MaxExtractions
    /\ slots' = [slots EXCEPT ![p] = @ \cup {j}]
    /\ extracted' = IF p = "locoloader" THEN extracted + 1 ELSE extracted
    /\ \E o \in AdapterOf(j).steps[call[j].stage] : Proceed(j, o.to)
    /\ UNCHANGED <<worker, enabled, approved, platform, calls, made>>

\* No slot or token is left, the interval has not passed, or Redis is away.
Refuse(j) ==
  /\ Calling(j) /\ call[j].stage \in {"gate", "reserve"}
  /\ Fails(j, IF call[j].provider = "social" THEN Unavailable ELSE RateLimited)
  /\ UNCHANGED <<worker, enabled, approved, platform, extracted, calls, made>>

\* A fault: the signal is looked at before a request and not passed to it.
InterruptBetweenRequests(j) ==
  /\ Calling(j) /\ Late(j)
  /\ Fails(j, AdapterOf(j).aborted)
  /\ UNCHANGED <<worker, enabled, approved, platform, extracted, calls, made>>

\* The request rejects: it was aborted, or the exchange broke.
Interrupt(j) ==
  /\ Calling(j) /\ signal[j] # "live" /\ call[j].stage \notin Deaf
  /\ Fails(j, AdapterOf(j).aborted)
  /\ UNCHANGED <<worker, enabled, approved, platform, extracted, calls, made>>

Break(j) ==
  /\ Calling(j) /\ call[j].stage \notin Deaf
  /\ Fails(j, AdapterOf(j).broken)
  /\ UNCHANGED <<worker, enabled, approved, platform, extracted, calls, made>>

---------------------------------------------------------------------------
Routing(j) == Rank(j) \/ GiveUp(j) \/ \E p \in DOMAIN slots : Skip(j, p) \/ Call(j, p)
Local(j) == call[j].stage \in Deaf /\ (Step(j) \/ Admit(j) \/ Refuse(j))

Next ==
  \/ Start
  \/ \E j \in Job :
       \/ Rank(j) \/ GiveUp(j)
       \/ \E p \in DOMAIN slots : Skip(j, p) \/ Call(j, p)
       \/ \E by \in {"provider", "route"} : Cut(j, by)
       \/ Step(j) \/ Admit(j) \/ Refuse(j) \/ Interrupt(j) \/ Break(j)

\* The worker runs its own code, its timers fire, and an aborted request
\* rejects; that a provider ever answers is not assumed.
Fairness ==
  /\ WF_vars(Start)
  /\ \A j \in Job :
       /\ WF_vars(Routing(j)) /\ WF_vars(Local(j)) /\ WF_vars(Interrupt(j))
       /\ WF_vars(Calling(j) /\ Cut(j, "provider"))

Spec == Init /\ [][Next]_vars /\ Fairness

---------------------------------------------------------------------------
(* Properties                                                              *)

\* The state's shape.
TypeOK ==
  /\ worker \in {"starting", "serving", "refused"}
  /\ enabled \subseteq Provider /\ approved \in [Provider -> SUBSET UNION {Needs[p] : p \in Provider}]
  /\ platform \in [Job -> {w.platform : w \in Workloads}]
  /\ status \in [Job -> {"absent", "queued", "ranked", "calling", "resolved", "failed"}]
  /\ \A j \in Job :
       /\ run[j] \in 1 .. RunsOf(platform[j]) /\ left[j] \subseteq Eligible(j) /\ attempts[j] \in 0 .. MaxAttempts
       /\ signal[j] \in {"live", "provider", "route"}
       /\ Calling(j) => call[j].provider \in Eligible(j) /\ call[j].stage \in DOMAIN AdapterOf(j).steps
       /\ ~Calling(j) => call[j] = NoCall
  /\ \A p \in DOMAIN slots : slots[p] \subseteq Job

\* A request slot is held exactly by the calls that are past an adapter's
\* gate: whichever way a call ends (an answer, a failure, an abort at any
\* stage, a broken exchange), no slot is lost and none is given back twice
\* (the finally blocks around activeRequests and the budget permits).
SlotsMatchCalls ==
  \A p \in DOMAIN slots : slots[p] =
    {j \in Job : /\ Calling(j) /\ call[j].provider = p
                 /\ \E gate \in {"gate", "reserve"} \cap DOMAIN AdapterOf(j).steps :
                      call[j].stage \notin {"start", gate} \cup (IF p = "locoloader" THEN {"landing"} ELSE {})}

\* Over all the runs of a job, fallbacks and queue retries together, a
\* provider is called at most once a run and a run calls at most MaxAttempts.
CallsWithinBudget ==
  \A j \in Job :
    /\ \A p \in DOMAIN slots : calls[j][p] <= run[j]
    /\ made[j] <= MaxAttempts * run[j]

\* What a worker takes it gives back, and what it may ask is bounded.
CallsAreBounded == SlotsMatchCalls /\ CallsWithinBudget

\* Once a provider has said that another one would not help (the post is
\* private, gone, or needs a login), the job calls no provider again, neither
\* by the router's fallback nor by the queue's retry.
FinalFailureEndsTheJob ==
  [][\A j \in Job : ~last[j].fallback => UNCHANGED calls[j]]_vars

\* Every job is resolved or failed in the end, even if no provider ever
\* answers.
JobSettles == []<>(worker = "serving" => \A j \in Job : status[j] \in {"absent", "resolved", "failed"})

\* The router's ledger of a run is not replayed: a provider that is not to be
\* called again by the queue (packages/providers/src/retry-policy.ts) is
\* called at most once by a job.  The code does not keep this: the queue asks
\* of the last provider only (see README).
NotReplayed == \A j \in Job, p \in DOMAIN slots : AutomaticRetry(p) \/ calls[j][p] <= 1

=============================================================================
