---------------------------- MODULE RolloutControl ----------------------------
(***************************************************************************)
(* Rollout rules (ADR-0007, ADR-0010): which provider calls are allowed.   *)
(* The rules are rows of PostgreSQL with an audit sequence; their snapshot *)
(* is published to Redis by workers and by the Admin service, and every    *)
(* worker decides by Redis, PostgreSQL or the snapshot it keeps.           *)
(*                                                                         *)
(* A rule's row is reduced to what a decision sees of it: a grant, a deny, *)
(* or a row that is no longer active.  The bucket of a task and the pilot  *)
(* guard can only turn an allowed call into a refused one, so Judge leaves *)
(* them open.  The clocks of the hosts are one clock; Lead is the five     *)
(* seconds a snapshot may seem to come from the future.                    *)
(***************************************************************************)
EXTENDS Naturals, FiniteSets, FiniteSetsExt

CONSTANTS
  Rules,                \* ids of rules
  SelectorOf,           \* the selector of each rule
  Covers,               \* the rules whose selector covers each request
  OperatorRules, StagedRules, SafetyRules,  \* the rules each writer writes
  OperatorRows,         \* and what an operator makes of one
  InitialRules,         \* tables the instance starts from
  Requests,             \* provider, platform and region of a call
  Workers, Calls, WorkerOf,  \* decisions in progress, of one worker or another
  Commands,             \* administrators, who send one safety command after another
  MaxStale, Lead,       \* bounds on the age of a snapshot
  WorkerTtl, ProjectionTtl,  \* Redis TTL by publisher
  MaxAudit, MaxNow      \* bounds on the search

Rows == {"absent", "grant", "deny", "ended"}
AllRules == [Rules -> Rows]

\* A snapshot in Redis outlives the interval in which decisions take it.
ASSUME RolloutAssumption ==
  /\ Rules # {} /\ Requests # {} /\ InitialRules \subseteq AllRules
  /\ SafetyRules \cup StagedRules \cup OperatorRules \subseteq Rules
  /\ Covers \in [Requests -> SUBSET Rules] /\ WorkerOf \in [Calls -> Workers]
  /\ OperatorRows \subseteq {"grant", "deny", "ended"}
  /\ {MaxStale, Lead, WorkerTtl, ProjectionTtl, MaxAudit, MaxNow} \subseteq Nat
  /\ MaxStale <= WorkerTtl /\ MaxStale <= ProjectionTtl

VARIABLES
  now,
  rules,      \* provider_rollout_rules
  audit,      \* the largest committed id of provider_rollout_rule_audit
  lastId,     \* the sequence of that id
  txn,        \* the transaction each writer has open
  command,    \* the safety commands: receipt and progress of the service
  redis,      \* the snapshot in Redis
  cached,     \* the snapshot each worker keeps
  refresh,    \* what the refresh loop of each worker has loaded
  call,       \* the decisions in progress
  deniedAt,   \* history: since when each request has been denied durably
  changed,    \* history: the audit id of the last change of each rule
  told        \* history: the denials in force whose receipt says propagated

observed == <<deniedAt, changed, told>>
vars == <<now, rules, audit, lastId, txn, command, redis, cached, refresh, call, observed>>

Never == MaxNow + 1
Writers == {"operator", "publication", "safety"}
Snapshots == [there : {TRUE}, revision : 0 .. MaxAudit, at : 0 .. MaxNow, rules : AllRules]
NoSnapshot == [there |-> FALSE, revision |-> 0, at |-> 0, rules |-> [r \in Rules |-> "absent"]]
MaybeSnapshot == Snapshots \cup {NoSnapshot}
Txns == [phase : {"idle", "begun", "written"}, rule : Rules, row : Rows, id : 0 .. MaxAudit]
NoTxn == [phase |-> "idle", rule |-> CHOOSE r \in Rules : TRUE, row |-> "absent", id |-> 0]
SafetyStates == [phase : {"new", "open", "accepted", "loaded", "put", "done", "refused"},
                 row : {"deny", "ended"}, rule : Rules, revision : 0 .. MaxAudit,
                 snapshot : MaybeSnapshot, replayed : BOOLEAN,
                 receipt : {"none", "propagating", "propagated", "failed"}]
NewCommand == [phase |-> "new", row |-> "deny", rule |-> CHOOSE r \in Rules : TRUE, revision |-> 0,
               snapshot |-> NoSnapshot, replayed |-> FALSE, receipt |-> "none"]
CallStates == [phase : {"idle", "started", "read", "loading", "loaded", "judging"},
               request : Requests, start : 0 .. MaxNow, snapshot : MaybeSnapshot,
               allowed : BOOLEAN, denials : SUBSET Rules, clean : BOOLEAN]
NoCall == [phase |-> "idle", request |-> CHOOSE q \in Requests : TRUE, start |-> 0,
           snapshot |-> NoSnapshot, allowed |-> FALSE, denials |-> {}, clean |-> TRUE]

TypeOK ==
  /\ now \in 0 .. MaxNow /\ rules \in AllRules
  /\ audit \in 0 .. MaxAudit /\ lastId \in audit .. MaxAudit
  /\ txn \in [Writers -> Txns] /\ command \in [Commands -> SafetyStates]
  /\ \A x \in Writers : txn[x].id <= lastId
  /\ redis \in [snapshot : MaybeSnapshot, until : Nat]
  /\ cached \in [Workers -> MaybeSnapshot]
  /\ refresh \in [Workers -> MaybeSnapshot]
  /\ call \in [Calls -> CallStates]
  /\ (txn["safety"].phase = "idle") = (\A c \in Commands : command[c].phase # "open")
  /\ deniedAt \in [Requests -> 0 .. Never] /\ changed \in [Rules -> 0 .. MaxAudit]
  /\ told \in SUBSET Rules

Init ==
  /\ now = 0 /\ rules \in InitialRules
  /\ audit = 0 /\ lastId = 0
  /\ txn = [x \in Writers |-> NoTxn] /\ command = [c \in Commands |-> NewCommand]
  /\ redis = [snapshot |-> NoSnapshot, until |-> 0]
  /\ cached = [w \in Workers |-> NoSnapshot] /\ refresh = [w \in Workers |-> NoSnapshot]
  /\ call = [k \in Calls |-> NoCall]
  /\ deniedAt = [q \in Requests |-> Never] /\ changed = [r \in Rules |-> 0] /\ told = {}

---------------------------------------------------------------------------
(* Writing rules.  The operator's script and the safety command take one   *)
(* advisory lock; the allocations of a published policy do not.            *)

AdvisoryLockFree == txn["operator"].phase = "idle" /\ txn["safety"].phase = "idle"

RowFree(r) == \A x \in Writers : txn[x].phase # "idle" => txn[x].rule # r

\* One row per selector: the unique index of the table.
SelectorTaken(r) == \E s \in Rules \ {r} : SelectorOf[s] = SelectorOf[r] /\ rules[s] # "absent"

SelectorPending(r) ==
  \E x \in Writers : /\ txn[x].phase = "written" /\ txn[x].rule # r
                     /\ SelectorOf[txn[x].rule] = SelectorOf[r]

\* The row is written and the audit id taken; neither is visible before the
\* commit.
Written(x, r, row) ==
  /\ lastId < MaxAudit /\ ~SelectorTaken(r) /\ ~SelectorPending(r)
  /\ lastId' = lastId + 1
  /\ txn' = [txn EXCEPT ![x] = [phase |-> "written", rule |-> r, row |-> row, id |-> lastId + 1]]
  /\ UNCHANGED <<now, rules, audit, command, redis, cached, refresh, call, observed>>

\* An operator changes or adds a rule at the revision that was read.
WriteOperatorChange ==
  /\ AdvisoryLockFree
  /\ \E r \in OperatorRules, row \in OperatorRows :
       RowFree(r) /\ rules[r] # row /\ Written("operator", r, row)

\* A published policy stages an allocation, of zero to deny.
WriteStagedAllocation ==
  /\ txn["publication"].phase = "idle"
  /\ \E r \in StagedRules, row \in {"grant", "deny"} :
       RowFree(r) /\ rules[r] # row /\ Written("publication", r, row)

\* A safety command names the snapshot revision it saw; another one is a
\* conflict.  Only an active deny of the Admin's own can be resumed.
BeginSafety(c) ==
  /\ command[c].phase \in {"new", "done"} /\ AdvisoryLockFree
  /\ \E r \in SafetyRules, row \in {"deny", "ended"} :
       /\ RowFree(r) /\ (row = "ended" => rules[r] = "deny")
       /\ txn' = [txn EXCEPT !["safety"] = [phase |-> "begun", rule |-> r, row |-> row, id |-> 0]]
       /\ command' = [command EXCEPT ![c] = [NewCommand EXCEPT !.phase = "open", !.row = row, !.rule = r]]
  /\ UNCHANGED <<now, rules, audit, lastId, redis, cached, refresh, call, observed>>

WriteSafety ==
  txn["safety"].phase = "begun" /\ Written("safety", txn["safety"].rule, txn["safety"].row)

\* A row of the selector has another id: the statement fails.
SafetyRefused ==
  /\ txn["safety"].phase = "begun" /\ SelectorTaken(txn["safety"].rule)
  /\ txn' = [txn EXCEPT !["safety"] = NoTxn]
  /\ command' = [c \in Commands |-> IF command[c].phase = "open"
                                      THEN [command[c] EXCEPT !.phase = "refused"] ELSE command[c]]
  /\ UNCHANGED <<now, rules, audit, lastId, redis, cached, refresh, call, observed>>

\* Whether the rules let a request through; any covering deny wins.
Granted(rs, q) ==
  /\ \A r \in Covers[q] : rs[r] # "deny"
  /\ \E r \in Covers[q] : rs[r] = "grant"

Commit(x) ==
  LET t == txn[x]
      after == [rules EXCEPT ![t.rule] = t.row]
      denied(rs, q) == \E r \in Covers[q] : rs[r] = "deny"
  IN /\ t.phase = "written"
     /\ rules' = after /\ audit' = Max({audit, t.id})
     /\ txn' = [txn EXCEPT ![x] = NoTxn]
     /\ command' = [c \in Commands |->
          IF x = "safety" /\ command[c].phase = "open"
            THEN [command[c] EXCEPT !.phase = "accepted", !.revision = t.id, !.receipt = "propagating"]
            ELSE command[c]]
     /\ deniedAt' = [q \in Requests |-> IF ~denied(after, q) THEN Never
                                         ELSE IF denied(rules, q) THEN deniedAt[q] ELSE now]
     /\ changed' = [changed EXCEPT ![t.rule] = t.id] /\ told' = told \ {t.rule}
     /\ call' = [k \in Calls |-> [call[k] EXCEPT !.denials = @ \ {t.rule}]]
     /\ UNCHANGED <<now, lastId, redis, cached, refresh>>

\* The writer fails or its connection is lost before the commit.
Rollback(x) ==
  /\ txn[x].phase # "idle"
  /\ txn' = [txn EXCEPT ![x] = NoTxn]
  /\ command' = [c \in Commands |-> IF x = "safety" /\ command[c].phase = "open"
                                      THEN NewCommand ELSE command[c]]
  /\ UNCHANGED <<now, rules, audit, lastId, redis, cached, refresh, call, observed>>

---------------------------------------------------------------------------
(* Publishing snapshots.                                                   *)

Durable == [there |-> TRUE, revision |-> audit, at |-> now, rules |-> rules]

\* A fault: the script does not compare revisions.
PutAcceptedAlways(s) == TRUE

\* The script that puts a snapshot refuses only an older revision.
PutAccepted(s) == redis.snapshot.there => redis.snapshot.revision <= s.revision

Put(s, ttl) == redis' = [snapshot |-> s, until |-> now + ttl]

RefreshLoad(w) ==
  /\ refresh[w] = NoSnapshot
  /\ refresh' = [refresh EXCEPT ![w] = Durable]
  /\ UNCHANGED <<now, rules, audit, lastId, txn, command, redis, cached, call, observed>>

\* The loaded snapshot is put, or refused as stale; a call that is lost or a
\* process that dies puts nothing.
RefreshPut(w) ==
  /\ refresh[w] # NoSnapshot
  /\ \/ PutAccepted(refresh[w]) /\ Put(refresh[w], WorkerTtl)
     \/ UNCHANGED redis
  /\ refresh' = [refresh EXCEPT ![w] = NoSnapshot]
  /\ UNCHANGED <<now, rules, audit, lastId, txn, command, cached, call, observed>>

SetCommand(c, s) ==
  /\ command' = [command EXCEPT ![c] = s]
  /\ UNCHANGED <<now, rules, audit, lastId, txn, cached, refresh, call, deniedAt, changed>>

SafetyLoad(c) ==
  /\ command[c].phase = "accepted" /\ UNCHANGED <<redis, told>>
  /\ SetCommand(c, [command[c] EXCEPT !.phase = "loaded", !.snapshot = Durable])

SafetyPut(c) ==
  /\ command[c].phase = "loaded" /\ PutAccepted(command[c].snapshot)
  /\ Put(command[c].snapshot, ProjectionTtl) /\ UNCHANGED told
  /\ SetCommand(c, [command[c] EXCEPT !.phase = "put", !.snapshot = NoSnapshot])

Propagated(c) == redis.snapshot.there /\ redis.snapshot.revision = command[c].revision

\* The rule is in force as a denial since the very change of this command.
StillDenies(c) ==
  rules[command[c].rule] = "deny" /\ changed[command[c].rule] = command[c].revision

\* Redis is read back, and the receipt finished: propagated if the revision
\* is the accepted one.  The revision of a replayed command may be another's.
SafetyFinish(c) ==
  /\ command[c].phase = "put" /\ UNCHANGED redis
  /\ told' = IF Propagated(c) /\ StillDenies(c) /\ ~command[c].replayed
               THEN told \cup {command[c].rule} ELSE told
  /\ SetCommand(c, [command[c] EXCEPT !.phase = "done",
                      !.receipt = IF Propagated(c) THEN "propagated" ELSE "failed"])

\* A refused put or any error of the three steps before.
SafetyFails(c) ==
  /\ command[c].phase \in {"accepted", "loaded", "put"} /\ UNCHANGED <<redis, told>>
  /\ SetCommand(c, [command[c] EXCEPT !.phase = "done", !.snapshot = NoSnapshot, !.receipt = "failed"])

\* The service dies and the same command is sent again: the receipt is found,
\* and its revision is taken to be the current one.
SafetyReplay(c) ==
  /\ command[c].phase \in {"accepted", "loaded", "put"} /\ UNCHANGED <<redis, told>>
  /\ SetCommand(c, [command[c] EXCEPT !.phase = "accepted", !.replayed = TRUE, !.revision = audit,
                                      !.snapshot = NoSnapshot])

---------------------------------------------------------------------------
(* Deciding (RuntimeProviderRolloutSource.decide).                         *)

Fresh(s, t) == s.there /\ s.at <= t + Lead /\ t <= s.at + MaxStale

SetCall(k, s) ==
  /\ call' = [call EXCEPT ![k] = s]
  /\ UNCHANGED <<now, rules, audit, lastId, txn, command, redis, refresh, observed>>

Start(k) ==
  /\ call[k].phase = "idle" /\ UNCHANGED cached
  /\ \E q \in Requests :
       SetCall(k, [NoCall EXCEPT !.phase = "started", !.request = q, !.start = now,
                                 !.denials = told \cap Covers[q]])

\* The read of Redis fails or gives what is there.
ReadRedis(k) ==
  /\ call[k].phase = "started" /\ UNCHANGED cached
  /\ \/ SetCall(k, [call[k] EXCEPT !.phase = "read", !.snapshot = redis.snapshot,
                                   !.clean = now = call[k].start])
     \/ SetCall(k, [call[k] EXCEPT !.phase = "read", !.clean = FALSE])

Older(s, w) == s.there /\ cached[w].there /\ s.revision < cached[w].revision

\* The kept snapshot in place of an older one, if it is fresh.
Kept(w, t) == IF Fresh(cached[w], t) THEN cached[w] ELSE NoSnapshot

\* A fault: the kept snapshot is replaced by an older one.
ChooseUnordered(k) ==
  LET s == call[k].snapshot
  IN /\ call[k].phase = "read"
     /\ IF Fresh(s, call[k].start)
          THEN /\ cached' = [cached EXCEPT ![WorkerOf[k]] = s]
               /\ SetCall(k, [call[k] EXCEPT !.phase = "judging"])
          ELSE SetCall(k, [call[k] EXCEPT !.phase = "loading"]) /\ UNCHANGED cached

Choose(k) ==
  LET w == WorkerOf[k]
      t == call[k].start
      s == IF Older(call[k].snapshot, w) THEN Kept(w, t) ELSE call[k].snapshot
  IN /\ call[k].phase = "read"
     /\ IF Fresh(s, t)
          THEN /\ cached' = [cached EXCEPT ![w] = s]
               /\ SetCall(k, [call[k] EXCEPT !.phase = "judging", !.snapshot = s])
          ELSE /\ SetCall(k, [call[k] EXCEPT !.phase = "loading"])
               /\ UNCHANGED cached

LoadDurable(k) ==
  /\ call[k].phase = "loading" /\ UNCHANGED cached
  /\ SetCall(k, [call[k] EXCEPT !.phase = "loaded", !.snapshot = Durable])

TakeDurable(k) ==
  LET w == WorkerOf[k]
      t == call[k].start
      s == IF Older(call[k].snapshot, w) THEN Kept(w, t) ELSE call[k].snapshot
  IN /\ call[k].phase = "loaded"
     /\ cached' = IF s.there THEN [cached EXCEPT ![w] = s] ELSE cached
     /\ SetCall(k, [call[k] EXCEPT !.phase = "judging", !.snapshot = s])

LoadFails(k) ==
  /\ call[k].phase = "loading" /\ UNCHANGED cached
  /\ SetCall(k, [call[k] EXCEPT !.phase = "judging", !.clean = FALSE,
                                !.snapshot = Kept(WorkerOf[k], call[k].start)])

\* Missing or stale rules refuse; a grant may still refuse by bucket or guard.
Judge(k) ==
  /\ call[k].phase = "judging" /\ UNCHANGED cached
  /\ \E yes \in BOOLEAN :
       /\ yes => /\ Fresh(call[k].snapshot, call[k].start)
                 /\ Granted(call[k].snapshot.rules, call[k].request)
       /\ SetCall(k, [NoCall EXCEPT !.allowed = yes])

\* A worker restarts: it keeps nothing.
WorkerRestart(w) ==
  /\ cached[w].there
  /\ cached' = [cached EXCEPT ![w] = NoSnapshot]
  /\ refresh' = [refresh EXCEPT ![w] = NoSnapshot]
  /\ call' = [k \in Calls |-> IF WorkerOf[k] = w THEN NoCall ELSE call[k]]
  /\ UNCHANGED <<now, rules, audit, lastId, txn, command, redis, observed>>

\* Time passes; the key in Redis vanishes after its TTL.
Tick ==
  /\ now < MaxNow /\ now' = now + 1
  /\ redis' = IF redis.snapshot.there /\ redis.until < now + 1
                THEN [snapshot |-> NoSnapshot, until |-> 0] ELSE redis
  /\ UNCHANGED <<rules, audit, lastId, txn, command, cached, refresh, call, observed>>

---------------------------------------------------------------------------
Next ==
  \/ WriteOperatorChange \/ WriteStagedAllocation \/ WriteSafety \/ SafetyRefused
  \/ \E c \in Commands : \/ BeginSafety(c) \/ SafetyLoad(c) \/ SafetyPut(c) \/ SafetyFinish(c)
                         \/ SafetyFails(c) \/ SafetyReplay(c)
  \/ \E x \in Writers : Commit(x) \/ Rollback(x)
  \/ \E w \in Workers : RefreshLoad(w) \/ RefreshPut(w) \/ WorkerRestart(w)
  \/ \E k \in Calls : \/ Start(k) \/ ReadRedis(k) \/ Choose(k) \/ LoadDurable(k) \/ TakeDurable(k)
                      \/ LoadFails(k) \/ Judge(k)
  \/ Tick

Spec == Init /\ [][Next]_vars

---------------------------------------------------------------------------
(* Properties.                                                             *)

\* The step lets the call of k through.
Allows(k) == call[k].phase = "judging" /\ call'[k].phase = "idle" /\ call'[k].allowed

\* A denial reaches every decision within the stale bound (ADR-0007, section
\* 3): whatever fails, is delayed or reordered, no call that starts later
\* than that is allowed while the denial stays in force.
DenialBindsInTime ==
  [][\A k \in Calls : Allows(k) => call[k].start <= deniedAt[call[k].request] + MaxStale]_vars

\* A worker never goes back to an older revision of the rules than one it
\* has decided by, over interleaved decisions and publications.
KeptNeverRegresses ==
  [][\A w \in Workers : cached'[w].there => cached'[w].revision >= cached[w].revision]_vars

\* Once the receipt of a pause says propagated, a decision that starts later
\* and whose reads succeed does not allow the call while that denial is in
\* force (receipts of a replayed command excepted).
PropagatedMeansDenied ==
  [][\A k \in Calls : ~(Allows(k) /\ call[k].denials # {} /\ call[k].clean)]_vars

\* A denial takes effect by both its promises: within the stale bound for
\* every worker, and at once where its receipt says propagated.
DenialIsEffective == DenialBindsInTime /\ PropagatedMeansDenied

\* ADR-0010: an emergency deny bypasses the draft workflow and is accepted
\* for any exact tuple; only a stale expected revision refuses it.
EmergencyDenyAccepted == \A c \in Commands : command[c].phase # "refused"

=============================================================================
