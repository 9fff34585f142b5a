--------------------------- MODULE AdmissionPermits ---------------------------
(***************************************************************************)
(* Anonymous quotas: RedisAdmissionStore.admitTask and releaseTask, with   *)
(* the API handler and the worker that call them.  Each Lua script is one  *)
(* step.  A request brings a reference of its own to the permit of its     *)
(* Idempotency-Key, or to a permit of its own when it has none.  The       *)
(* active sets count permits; a permit goes with its last reference, or    *)
(* when its time is up.                                                    *)
(*                                                                         *)
(* The only script that counts purges what is due before it counts, so a   *)
(* member is taken out of the sets here when its score passes.  The keys   *)
(* of a permit expire at the same millisecond, but a key lives until now   *)
(* is later while a score goes when now is equal: "overdue" is that gap.   *)
(*                                                                         *)
(* Abstracted: Retry-After, the input checks, and the admission that       *)
(* follows (TaskLifecycle), which is a choice between winning and losing.  *)
(* ioredis resends a command whose answer was lost (maxRetriesPerRequest   *)
(* is null), so the admission script may run again for the same reference. *)
(***************************************************************************)
EXTENDS Naturals, FiniteSets

CONSTANTS
  Requests, Clients, Permits,
  ClientOf,               \* the client address digest of each request
  PermitOf,               \* the permit id of each request
  None,
  ClientRequestLimit, GlobalRequestLimit,
  ClientActiveTaskLimit, GlobalActiveTaskLimit,
  MaxFaults               \* bound on crashes and failed or repeated calls

ASSUME PermitsAssumption ==
  /\ ClientOf \in [Requests -> Clients]
  /\ PermitOf \in [Requests -> Permits]
  /\ None \notin Clients
  /\ ClientRequestLimit \in Nat /\ GlobalRequestLimit \in Nat
  /\ ClientActiveTaskLimit \in Nat /\ GlobalActiveTaskLimit \in Nat
  /\ MaxFaults \in Nat

VARIABLES
  clientRate, globalRate,       \* counters of the running windows
  clientActive, globalActive,   \* members of the active sets that are not due
  identity,                     \* the permit's hash: the client, None when absent
  references,                   \* the permit's reference set
  overdue,                      \* permits whose score has passed before their keys
  at,                           \* where the life of each request is
  cut,                          \* history: requests whose reference the TTL took
  leaked,                       \* history: requests a fault left unreleased
  faults

rateVars   == <<clientRate, globalRate>>
permitVars == <<clientActive, globalActive, identity, references, overdue>>
vars == <<rateVars, permitVars, at, cut, leaked, faults>>

(* "releasing" is a release by the API, "settling" one by the worker;      *)
(* "refused" is 429 CONCURRENCY_LIMITED.                                   *)
InFlight == {"new", "admitted", "working", "releasing", "settling"}
Stages == InFlight \cup {"refused", "ended", "settled"}

TypeOK ==
  /\ clientRate \in [Clients -> 0 .. ClientRequestLimit]
  /\ globalRate \in 0 .. GlobalRequestLimit
  /\ clientActive \in [Clients -> SUBSET Permits]
  /\ globalActive \in SUBSET Permits
  /\ identity \in [Permits -> Clients \cup {None}]
  /\ references \in [Permits -> SUBSET Requests]
  /\ overdue \in SUBSET Permits
  /\ at \in [Requests -> Stages]
  /\ cut \in SUBSET Requests
  /\ leaked \in SUBSET Requests
  /\ faults \in 0 .. MaxFaults

Init ==
  /\ clientRate = [c \in Clients |-> 0] /\ globalRate = 0
  /\ clientActive = [c \in Clients |-> {}] /\ globalActive = {}
  /\ identity = [p \in Permits |-> None]
  /\ references = [p \in Permits |-> {}]
  /\ overdue = {}
  /\ at = [r \in Requests |-> "new"]
  /\ cut = {} /\ leaked = {} /\ faults = 0

GoTo(r, stage) == at' = [at EXCEPT ![r] = stage]

Fault == faults < MaxFaults /\ faults' = faults + 1

(* What r leaves behind when nobody will release it. *)
Leak(r) == leaked' = IF r \in references[PermitOf[r]] THEN leaked \cup {r} ELSE leaked

-----------------------------------------------------------------------------
(* admitTaskScript.  Both counters rise, whatever it decides afterwards.   *)

RateLeft(c) == clientRate[c] < ClientRequestLimit /\ globalRate < GlobalRequestLimit

Charge(c) ==
  /\ RateLeft(c)
  /\ clientRate' = [clientRate EXCEPT ![c] = @ + 1]
  /\ globalRate' = globalRate + 1

ActiveLeft(c) ==
  /\ Cardinality(clientActive[c]) < ClientActiveTaskLimit
  /\ Cardinality(globalActive) < GlobalActiveTaskLimit

(* The permit exists: one more reference, never a second count. *)
JoinPermit(r) ==
  LET p == PermitOf[r] IN
  /\ identity[p] # None
  /\ Charge(ClientOf[r])
  /\ references' = [references EXCEPT ![p] = @ \cup {r}]
  /\ UNCHANGED <<clientActive, globalActive, identity, overdue>>

GrantPermit(r) ==
  LET p == PermitOf[r]
      c == ClientOf[r] IN
  /\ identity[p] = None
  /\ ActiveLeft(c)
  /\ Charge(c)
  /\ clientActive' = [clientActive EXCEPT ![c] = @ \cup {p}]
  /\ globalActive' = globalActive \cup {p}
  /\ identity' = [identity EXCEPT ![p] = c]
  /\ references' = [references EXCEPT ![p] = @ \cup {r}]
  /\ UNCHANGED overdue

(* Deviation: the active counts are compared before the permit is looked for. *)
RefuseBeforeJoin(r) ==
  /\ ~ActiveLeft(ClientOf[r])
  /\ Charge(ClientOf[r])
  /\ UNCHANGED permitVars

RefusePermit(r) ==
  /\ identity[PermitOf[r]] = None
  /\ ~ActiveLeft(ClientOf[r])
  /\ Charge(ClientOf[r])
  /\ UNCHANGED permitVars

-----------------------------------------------------------------------------
(* releaseTaskScript.                                                      *)

(* The permit's keys are deleted and its members leave both active sets. *)
DropPermit(p) ==
  /\ clientActive' = [clientActive EXCEPT ![identity[p]] = @ \ {p}]
  /\ globalActive' = globalActive \ {p}
  /\ identity' = [identity EXCEPT ![p] = None]
  /\ references' = [references EXCEPT ![p] = {}]
  /\ overdue' = overdue \ {p}

(* Deviations: the client's set is that of the request that releases; the  *)
(* other references are not looked at.                                     *)
ReleaseUnderOwnClient(r) ==
  LET p == PermitOf[r] IN
  IF r \in references[p]
  THEN IF references[p] = {r}
       THEN /\ clientActive' = [clientActive EXCEPT ![ClientOf[r]] = @ \ {p}]
            /\ globalActive' = globalActive \ {p}
            /\ identity' = [identity EXCEPT ![p] = None]
            /\ references' = [references EXCEPT ![p] = {}]
            /\ overdue' = overdue \ {p}
       ELSE /\ references' = [references EXCEPT ![p] = @ \ {r}]
            /\ UNCHANGED <<clientActive, globalActive, identity, overdue>>
  ELSE UNCHANGED permitVars

ReleaseWholePermit(r) ==
  IF r \in references[PermitOf[r]] THEN DropPermit(PermitOf[r]) ELSE UNCHANGED permitVars

releaseTask(r) ==
  LET p == PermitOf[r] IN
  IF r \in references[p]
  THEN IF references[p] = {r}
       THEN DropPermit(p)
       ELSE /\ references' = [references EXCEPT ![p] = @ \ {r}]
            /\ UNCHANGED <<clientActive, globalActive, identity, overdue>>
  ELSE UNCHANGED permitVars

-----------------------------------------------------------------------------
(* The handler of POST /v1/resolve-tasks.                                  *)

QuotaAccepted(r) ==
  /\ at[r] = "new"
  /\ JoinPermit(r) \/ GrantPermit(r)
  /\ GoTo(r, "admitted")
  /\ cut' = cut \ {r}
  /\ UNCHANGED <<leaked, faults>>

(* 429 RATE_LIMITED; a reference taken by an execution whose answer was    *)
(* lost is not given back.                                                 *)
QuotaRateLimited(r) ==
  /\ at[r] = "new"
  /\ ~RateLeft(ClientOf[r])
  /\ GoTo(r, "ended")
  /\ Leak(r)
  /\ UNCHANGED <<rateVars, permitVars, cut, faults>>

QuotaConcurrencyLimited(r) ==
  /\ at[r] = "new"
  /\ RefusePermit(r)
  /\ GoTo(r, "refused")
  /\ UNCHANGED <<cut, leaked, faults>>

(* The call is rejected, executed or not, and the handler releases. *)
QuotaFailed(r) ==
  /\ at[r] = "new"
  /\ Fault
  /\ \/ JoinPermit(r) \/ GrantPermit(r) \/ RefusePermit(r)
     \/ UNCHANGED <<rateVars, permitVars>>
  /\ GoTo(r, "releasing")
  /\ UNCHANGED <<cut, leaked>>

(* Executed, answer lost, to be sent again. *)
QuotaResent(r) ==
  /\ at[r] = "new"
  /\ Fault
  /\ JoinPermit(r) \/ GrantPermit(r) \/ RefusePermit(r)
  /\ UNCHANGED <<at, cut, leaked>>

(* admit created the task and its job is queued.  The key is bound to that *)
(* task for at least as long as the permit lives (permitTtlMs is at most   *)
(* the task's own time), so no other request of the permit wins.           *)
Win(r) ==
  /\ at[r] = "admitted"
  /\ \A q \in Requests : at[q] = "working" /\ PermitOf[q] = PermitOf[r] => q \in cut
  /\ GoTo(r, "working")
  /\ UNCHANGED <<rateVars, permitVars, cut, leaked, faults>>

(* Conflict, duplicate, replay, failed admission, or queue.add rejected.   *)
Lose(r) ==
  /\ at[r] = "admitted"
  /\ GoTo(r, "releasing")
  /\ UNCHANGED <<rateVars, permitVars, cut, leaked, faults>>

ReleaseByApi(r) ==
  /\ at[r] = "releasing"
  /\ releaseTask(r)
  /\ GoTo(r, "ended")
  /\ UNCHANGED <<rateVars, cut, leaked, faults>>

-----------------------------------------------------------------------------
(* The worker: retries keep the reference, the decision gives it back.     *)

WorkDecided(r) ==
  /\ at[r] = "working"
  /\ GoTo(r, "settling")
  /\ UNCHANGED <<rateVars, permitVars, cut, leaked, faults>>

ReleaseByWorker(r) ==
  /\ at[r] = "settling"
  /\ releaseTask(r)
  /\ GoTo(r, "settled")
  /\ UNCHANGED <<rateVars, cut, leaked, faults>>

(* A redelivered job decides its task, and releases, once more. *)
ReleaseAgain(r) ==
  /\ at[r] = "settled"
  /\ releaseTask(r)
  /\ leaked' = leaked \ {r}
  /\ UNCHANGED <<rateVars, at, cut, faults>>

(* The process dies, or the release call fails and is only logged: nobody  *)
(* releases r, unless its job is delivered again.                          *)
Abandon(r) ==
  /\ at[r] \in InFlight
  /\ Fault
  /\ GoTo(r, IF at[r] = "settling" THEN "settled" ELSE "ended")
  /\ Leak(r)
  /\ UNCHANGED <<rateVars, permitVars, cut>>

-----------------------------------------------------------------------------
(* Time.                                                                   *)

PassScore(p) ==
  /\ identity[p] # None /\ p \notin overdue
  /\ overdue' = overdue \cup {p}
  /\ clientActive' = [c \in Clients |-> clientActive[c] \ {p}]
  /\ globalActive' = globalActive \ {p}
  /\ UNCHANGED <<rateVars, identity, references, at, cut, leaked, faults>>

(* Both keys of the permit expire together. *)
ExpireKeys(p) ==
  /\ p \in overdue
  /\ identity' = [identity EXCEPT ![p] = None]
  /\ references' = [references EXCEPT ![p] = {}]
  /\ overdue' = overdue \ {p}
  /\ cut' = cut \cup references[p]
  /\ leaked' = leaked \ references[p]
  /\ UNCHANGED <<rateVars, clientActive, globalActive, at, faults>>

EndClientWindow(c) ==
  /\ clientRate[c] > 0
  /\ clientRate' = [clientRate EXCEPT ![c] = 0]
  /\ UNCHANGED <<globalRate, permitVars, at, cut, leaked, faults>>

EndGlobalWindow ==
  /\ globalRate > 0
  /\ globalRate' = 0
  /\ UNCHANGED <<clientRate, permitVars, at, cut, leaked, faults>>

-----------------------------------------------------------------------------
RequestStep(r) ==
  \/ QuotaAccepted(r) \/ QuotaRateLimited(r) \/ QuotaConcurrencyLimited(r)
  \/ QuotaFailed(r) \/ QuotaResent(r)
  \/ Win(r) \/ Lose(r) \/ ReleaseByApi(r)
  \/ WorkDecided(r) \/ ReleaseByWorker(r) \/ ReleaseAgain(r) \/ Abandon(r)

Next ==
  \/ \E r \in Requests : RequestStep(r)
  \/ \E p \in Permits : PassScore(p) \/ ExpireKeys(p)
  \/ \E c \in Clients : EndClientWindow(c)
  \/ EndGlobalWindow

Spec == Init /\ [][Next]_vars

-----------------------------------------------------------------------------
(* Tasks in progress whose permit the clock has not ended. *)
InProgress == {r \in Requests : at[r] = "working" /\ r \notin cut /\ PermitOf[r] \notin overdue}

(* A permit is counted once, for the client that opened it, exactly while  *)
(* its keys exist and its time is not up.                                  *)
CountedExactly ==
  \A p \in Permits :
    /\ identity[p] = None <=> references[p] = {}
    /\ identity[p] = None => p \notin overdue
    /\ p \in globalActive <=> identity[p] # None /\ p \notin overdue
    /\ \A c \in Clients : p \in clientActive[c] <=> identity[p] = c /\ p \notin overdue

(* docs/admission-control-operations.md: the active-task limits.  The      *)
(* tasks in progress are all counted, and never exceed them, in all and    *)
(* for the client that opened the permit, whatever replays, releases and   *)
(* faults happen.                                                          *)
WorkWithinLimits ==
  /\ \A r \in InProgress : PermitOf[r] \in globalActive
  /\ Cardinality(InProgress) <= GlobalActiveTaskLimit
  /\ \A c \in Clients :
       Cardinality({r \in InProgress : identity[PermitOf[r]] = c}) <= ClientActiveTaskLimit

(* "Each replay, conflict, duplicate, and failed admission releases only   *)
(* its own reference", and the worker the winner's: a reference belongs to *)
(* a request that is still under way, unless a fault left it behind.       *)
NoStrayReference ==
  \A p \in Permits : \A r \in references[p] :
    PermitOf[r] = p /\ (at[r] \in InFlight \/ r \in leaked)

(* What the quotas of everybody else rest on. *)
PermitsAreExact == CountedExactly /\ NoStrayReference

(* "Replay cannot be rejected merely because the winning task already      *)
(* consumes the caller's active allowance": a request is refused for       *)
(* concurrency only while no task of its key is in progress.               *)
ReplayNotRefused ==
  [][\A r \in Requests :
       at[r] = "new" /\ at'[r] = "refused"
         => \A q \in InProgress : PermitOf[q] # PermitOf[r]]_vars
=============================================================================
