------------------------- MODULE RolloutControl_proofs -------------------------
(***************************************************************************)
(* Proofs about the rollout rules.  The argument is about the snapshots    *)
(* that are anywhere around: in Redis, kept by a worker, loaded by a       *)
(* refresh, by a safety command or by a decision.  Every step but a commit *)
(* only copies them, drops them, or adds the durable one.                  *)
(***************************************************************************)
EXTENDS RolloutControl, TLAPS

Copies ==
  {redis.snapshot} \cup {cached[w] : w \in Workers} \cup {refresh[w] : w \in Workers}
    \cup {command[c].snapshot : c \in Commands} \cup {call[k].snapshot : k \in Calls}

Around == {s \in Copies : s.there}

Known == Around \cup {Durable}

\* No snapshot is of the future, and what it grants was not denied before it.
Dated ==
  \A s \in Around : /\ s.at <= now /\ s.revision <= audit
                    /\ \A q \in Requests : Granted(s.rules, q) => s.at <= deniedAt[q]

DenialsDated ==
  \A q \in Requests : (\A r \in Covers[q] : rules[r] # "deny") => deniedAt[q] = Never

\* The audit id of a change that is not committed is nobody else's.
IdsApart ==
  \A x \in Writers : txn[x].phase = "written" =>
    /\ txn[x].id <= lastId /\ txn[x].id # audit
    /\ \A s \in Around : s.revision # txn[x].id
    /\ \A y \in Writers \ {x} : txn[y].phase = "written" => txn[y].id # txn[x].id

Ordered == \A s, u \in Around : s.revision < u.revision => s.at <= u.at

\* Either the change of r committed in order, and every snapshot that counts
\* it shows it, or no snapshot has just its revision.
InOrder(r) ==
  \/ \A s \in Around : changed[r] <= s.revision => s.rules[r] = rules[r]
  \/ changed[r] # audit /\ \A s \in Around : s.revision # changed[r]

ChangesCounted == \A r \in Rules : changed[r] <= audit /\ InOrder(r)

\* Every snapshot before revision v is too old to be taken, or will be when
\* the snapshot in Redis is gone.
Outlived(v) ==
  \A s \in Around : s.revision < v =>
    \/ s.at + MaxStale < now
    \/ redis.snapshot.there /\ v <= redis.snapshot.revision /\ s.at + MaxStale <= redis.until

ToldDenies ==
  \A r \in told : /\ rules[r] = "deny" /\ Outlived(changed[r])
                  /\ \A s \in Around : changed[r] <= s.revision => s.rules[r] = "deny"

Loaded == \A c \in Commands : command[c].phase = "loaded" => command[c].snapshot.there

RedisLasts == redis.snapshot.there => redis.snapshot.at + MaxStale <= redis.until

\* The snapshot s counts the denial of r.
Counts(s, r) == s.there /\ changed[r] <= s.revision

CallSound(k) ==
  LET c == call[k] IN
    /\ c.start <= now /\ c.denials \subseteq told \cap Covers[c.request]
    /\ \A r \in c.denials :
         /\ c.phase = "read" /\ c.clean =>
              \/ Counts(c.snapshot, r)
              \/ \A s \in Around : s.revision < changed[r] => s.at + MaxStale < c.start
         /\ c.phase = "loaded" => Counts(c.snapshot, r)
         /\ c.phase = "judging" /\ c.clean /\ Fresh(c.snapshot, c.start) => Counts(c.snapshot, r)

RolloutInv ==
  /\ TypeOK /\ Dated /\ DenialsDated /\ IdsApart /\ Ordered /\ ChangesCounted
  /\ ToldDenies /\ RedisLasts /\ Loaded /\ \A k \in Calls : CallSound(k)

---------------------------------------------------------------------------
(* Types.                                                                  *)

\* What the assumptions on the constants come to.
LEMMA Constants ==
  /\ Rules # {} /\ Requests # {} /\ (CHOOSE r \in Rules : TRUE) \in Rules
  /\ (CHOOSE q \in Requests : TRUE) \in Requests
  /\ MaxStale \in Nat /\ Lead \in Nat /\ WorkerTtl \in Nat /\ ProjectionTtl \in Nat
  /\ MaxAudit \in Nat /\ MaxNow \in Nat /\ Never \in Nat
  /\ MaxStale <= WorkerTtl /\ MaxStale <= ProjectionTtl
BY RolloutAssumption DEF RolloutAssumption, Never

\* The largest of two ids is one of them, and no smaller than the other.
LEMMA LargestId ==
  ASSUME NEW m \in Nat, NEW n \in Nat
  PROVE  Max({m, n}) \in {m, n} /\ m <= Max({m, n}) /\ n <= Max({m, n})
<1>1. \E x \in {m, n} : \A y \in {m, n} : x >= y
  <2>1. CASE m >= n  BY <2>1
  <2>2. CASE ~(m >= n)  BY <2>2
  <2> QED  BY <2>1, <2>2
<1> QED  BY <1>1 DEF Max

LEMMA SnapshotForms ==
  /\ NoSnapshot \in MaybeSnapshot /\ ~NoSnapshot.there /\ NoSnapshot.revision = 0
  /\ \A s \in MaybeSnapshot : s.there => s \in Snapshots
  /\ \A s \in MaybeSnapshot : ~s.there => s = NoSnapshot
  /\ \A s \in MaybeSnapshot : s.there \in BOOLEAN /\ s.revision \in 0 .. MaxAudit /\ s.at \in 0 .. MaxNow
  /\ \A s \in Snapshots : /\ s \in MaybeSnapshot /\ s.there /\ s.rules \in AllRules
                          /\ s.revision \in 0 .. MaxAudit /\ s.at \in 0 .. MaxNow
<1>1. /\ NoSnapshot \in MaybeSnapshot /\ NoSnapshot.there = FALSE /\ NoSnapshot.revision = 0
      /\ NoSnapshot.at = 0
  BY DEF NoSnapshot, MaybeSnapshot
<1>2. \A s \in Snapshots : /\ s \in MaybeSnapshot /\ s.there = TRUE /\ s.rules \in AllRules
                           /\ s.revision \in 0 .. MaxAudit /\ s.at \in 0 .. MaxNow
  BY DEF Snapshots, MaybeSnapshot
<1>3. \A s \in MaybeSnapshot : s \in Snapshots \/ s = NoSnapshot
  BY DEF MaybeSnapshot
<1>4. 0 \in 0 .. MaxAudit /\ 0 \in 0 .. MaxNow
  BY Constants
<1> QED  BY <1>1, <1>2, <1>3, <1>4

LEMMA BlankForms ==
  /\ NoTxn \in Txns /\ NoTxn.id = 0 /\ NoTxn.phase = "idle"
  /\ NewCommand \in SafetyStates /\ NoCall \in CallStates
<1>1. NoTxn \in Txns /\ NoTxn.id = 0 /\ NoTxn.phase = "idle"
  BY Constants DEF NoTxn, Txns, Rows
<1>2. NewCommand \in SafetyStates
  BY Constants, SnapshotForms DEF NewCommand, SafetyStates
<1>3. NoCall \in CallStates
  BY Constants, SnapshotForms DEF NoCall, CallStates
<1> QED  BY <1>1, <1>2, <1>3

LEMMA DurableTyped ==
  ASSUME TypeOK
  PROVE  Durable \in Snapshots /\ Durable \in MaybeSnapshot
BY DEF TypeOK, Durable, Snapshots, MaybeSnapshot

\* The fields of a transaction, a command and a decision.
LEMMA Fields ==
  ASSUME TypeOK
  PROVE  /\ \A x \in Writers : /\ txn[x] \in Txns /\ txn[x].rule \in Rules /\ txn[x].row \in Rows
                               /\ txn[x].id \in 0 .. MaxAudit
         /\ \A c \in Commands : /\ command[c] \in SafetyStates /\ command[c].rule \in Rules
                                /\ command[c].revision \in 0 .. MaxAudit
                                /\ command[c].snapshot \in MaybeSnapshot
         /\ \A k \in Calls : /\ call[k] \in CallStates /\ call[k].request \in Requests
                             /\ call[k].start \in 0 .. MaxNow /\ call[k].snapshot \in MaybeSnapshot
                             /\ call[k].denials \in SUBSET Rules /\ WorkerOf[k] \in Workers
         /\ \A w \in Workers : cached[w] \in MaybeSnapshot /\ refresh[w] \in MaybeSnapshot
         /\ redis.snapshot \in MaybeSnapshot /\ redis.until \in Nat
         /\ now \in Nat /\ audit \in 0 .. MaxAudit /\ lastId \in 0 .. MaxAudit /\ audit <= lastId
         /\ \A x \in Writers : txn[x].id <= lastId
<1>1. /\ now \in Nat /\ audit \in 0 .. MaxAudit /\ lastId \in 0 .. MaxAudit /\ audit <= lastId
      /\ \A x \in Writers : txn[x].id <= lastId
  BY Constants DEF TypeOK
<1> QED  BY <1>1, RolloutAssumption DEF RolloutAssumption, TypeOK, Txns, SafetyStates, CallStates

LEMMA AroundTyped ==
  ASSUME TypeOK
  PROVE  /\ Around \subseteq Snapshots
         /\ redis.snapshot.there => redis.snapshot \in Around
         /\ \A w \in Workers : /\ cached[w].there => cached[w] \in Around
                               /\ refresh[w].there => refresh[w] \in Around
         /\ \A c \in Commands : command[c].snapshot.there => command[c].snapshot \in Around
         /\ \A k \in Calls : call[k].snapshot.there => call[k].snapshot \in Around
BY Fields, SnapshotForms DEF Around, Copies

LEMMA TypeInit == Init => TypeOK
<1> SUFFICES ASSUME Init PROVE TypeOK
  OBVIOUS
<1>1. /\ now \in 0 .. MaxNow /\ rules \in AllRules /\ audit \in 0 .. MaxAudit
      /\ lastId \in audit .. MaxAudit
  BY Constants, RolloutAssumption DEF RolloutAssumption, Init
<1>2. txn \in [Writers -> Txns] /\ command \in [Commands -> SafetyStates] /\ call \in [Calls -> CallStates]
  BY BlankForms DEF Init
<1>3. redis \in [snapshot : MaybeSnapshot, until : Nat]
  BY SnapshotForms DEF Init
<1>4. cached \in [Workers -> MaybeSnapshot] /\ refresh \in [Workers -> MaybeSnapshot]
  BY SnapshotForms DEF Init
<1>5. /\ (txn["safety"].phase = "idle") = (\A c \in Commands : command[c].phase # "open")
      /\ \A x \in Writers : txn[x].id <= lastId
  <2>1. \A x \in Writers : txn[x].id = 0 /\ txn[x].phase = "idle"
    BY BlankForms DEF Init
  <2>2. \A c \in Commands : command[c].phase = "new"
    BY DEF Init, NewCommand
  <2>3. "safety" \in Writers /\ lastId = 0 /\ 0 <= 0
    BY DEF Init, Writers
  <2> QED  BY <2>1, <2>2, <2>3
<1>6. /\ deniedAt \in [Requests -> 0 .. Never] /\ changed \in [Rules -> 0 .. MaxAudit]
      /\ told \in SUBSET Rules
  BY Constants DEF Init
<1> QED  BY <1>1, <1>2, <1>3, <1>4, <1>5, <1>6 DEF TypeOK

\* A change is written: an id is taken.
LEMMA WrittenTypes ==
  ASSUME TypeOK, NEW x \in Writers, NEW r \in Rules, NEW row \in Rows, Written(x, r, row),
         x = "safety" => txn["safety"].phase # "idle"
  PROVE  TypeOK'
<1>1. lastId' = lastId + 1 /\ lastId' \in audit .. MaxAudit /\ lastId + 1 \in 0 .. MaxAudit
  BY Constants DEF Written, TypeOK
<1>2. [phase |-> "written", rule |-> r, row |-> row, id |-> lastId + 1] \in Txns
  BY <1>1 DEF Txns
<1>3. txn' \in [Writers -> Txns]
  BY <1>2 DEF Written, TypeOK
<1>4. (txn'["safety"].phase = "idle") = (txn["safety"].phase = "idle")
  BY DEF Written, TypeOK, Writers
<1>5. \A y \in Writers : txn'[y].id <= lastId'
  <2>1. \A y \in Writers : txn'[y].id = (IF y = x THEN lastId + 1 ELSE txn[y].id)
    BY DEF Written, TypeOK
  <2>2. lastId + 1 <= lastId + 1 /\ \A y \in Writers : txn[y].id <= lastId + 1
    BY Fields, Constants
  <2> QED  BY <2>1, <2>2, <1>1
<1> QED  BY <1>1, <1>3, <1>4, <1>5 DEF Written, TypeOK, observed

LEMMA OperatorTypes == TypeOK /\ WriteOperatorChange => TypeOK'
<1> SUFFICES ASSUME TypeOK, WriteOperatorChange PROVE TypeOK'
  OBVIOUS
<1>1. PICK r \in OperatorRules, row \in OperatorRows : Written("operator", r, row)
  BY DEF WriteOperatorChange
<1>2. r \in Rules /\ row \in Rows /\ "operator" \in Writers
  BY RolloutAssumption DEF RolloutAssumption, Rows, Writers
<1> QED  BY <1>1, <1>2, WrittenTypes

LEMMA StagedTypes == TypeOK /\ WriteStagedAllocation => TypeOK'
<1> SUFFICES ASSUME TypeOK, WriteStagedAllocation PROVE TypeOK'
  OBVIOUS
<1>1. PICK r \in StagedRules, row \in {"grant", "deny"} : Written("publication", r, row)
  BY DEF WriteStagedAllocation
<1>2. r \in Rules /\ row \in Rows /\ "publication" \in Writers
  BY RolloutAssumption DEF RolloutAssumption, Rows, Writers
<1> QED  BY <1>1, <1>2, WrittenTypes

LEMMA SafetyTypes == TypeOK /\ WriteSafety => TypeOK'
<1> SUFFICES ASSUME TypeOK, WriteSafety PROVE TypeOK'
  OBVIOUS
<1>1. txn["safety"].rule \in Rules /\ txn["safety"].row \in Rows /\ "safety" \in Writers
  BY Fields DEF Writers
<1> QED  BY <1>1, WrittenTypes DEF WriteSafety

LEMMA BeginTypes == ASSUME TypeOK, NEW c \in Commands, BeginSafety(c) PROVE TypeOK'
<1>1. PICK r \in SafetyRules, row \in {"deny", "ended"} :
        /\ txn' = [txn EXCEPT !["safety"] = [phase |-> "begun", rule |-> r, row |-> row, id |-> 0]]
        /\ command' = [command EXCEPT ![c] = [NewCommand EXCEPT !.phase = "open", !.row = row, !.rule = r]]
  BY DEF BeginSafety
<1>2. r \in Rules /\ row \in Rows /\ "safety" \in Writers
  BY RolloutAssumption DEF RolloutAssumption, Rows, Writers
<1>3. [phase |-> "begun", rule |-> r, row |-> row, id |-> 0] \in Txns
  BY <1>2, Constants DEF Txns
<1>4. [NewCommand EXCEPT !.phase = "open", !.row = row, !.rule = r] \in SafetyStates
  BY <1>2, BlankForms DEF SafetyStates
<1>5. txn' \in [Writers -> Txns] /\ command' \in [Commands -> SafetyStates]
  BY <1>1, <1>3, <1>4 DEF TypeOK
<1>6. txn'["safety"].phase = "begun" /\ command'[c].phase = "open"
  BY <1>1, <1>2, BlankForms DEF TypeOK, SafetyStates
<1>7. \A y \in Writers : txn'[y].id <= lastId
  BY <1>1, Fields DEF TypeOK
<1> QED  BY <1>5, <1>6, <1>7 DEF BeginSafety, TypeOK, observed

LEMMA RefusedTypes == TypeOK /\ SafetyRefused => TypeOK'
<1> SUFFICES ASSUME TypeOK, SafetyRefused PROVE TypeOK'
  OBVIOUS
<1>1. \A c \in Commands : [command[c] EXCEPT !.phase = "refused"] \in SafetyStates
  BY Fields DEF SafetyStates
<1>2. command' \in [Commands -> SafetyStates]
  BY <1>1, Fields DEF SafetyRefused
<1>3. txn' \in [Writers -> Txns] /\ txn'["safety"].phase = "idle"
  BY BlankForms DEF SafetyRefused, TypeOK, Writers, NoTxn
<1>4. \A c \in Commands : command'[c].phase # "open"
  BY Fields DEF SafetyRefused, SafetyStates
<1>5. \A y \in Writers : txn'[y].id <= lastId
  BY Fields DEF SafetyRefused, TypeOK, NoTxn
<1> QED  BY <1>2, <1>3, <1>4, <1>5 DEF SafetyRefused, TypeOK, observed

LEMMA RollbackTypes == ASSUME TypeOK, NEW x \in Writers, Rollback(x) PROVE TypeOK'
<1>1. command' \in [Commands -> SafetyStates]
  BY BlankForms, Fields DEF Rollback
<1>2. txn' \in [Writers -> Txns]
  BY BlankForms DEF Rollback, TypeOK
<1>3. (txn'["safety"].phase = "idle") = (\A c \in Commands : command'[c].phase # "open")
  <2>1. CASE x = "safety"
    <3>1. txn'["safety"].phase = "idle"
      BY <2>1 DEF Rollback, TypeOK, NoTxn
    <3>2. \A c \in Commands : command'[c].phase # "open"
      BY <2>1 DEF Rollback, NewCommand
    <3> QED  BY <3>1, <3>2
  <2>2. CASE x # "safety"
    <3>1. txn'["safety"] = txn["safety"]
      BY <2>2 DEF Rollback, TypeOK, Writers
    <3>2. \A c \in Commands : command'[c] = command[c]
      BY <2>2 DEF Rollback
    <3> QED  BY <3>1, <3>2 DEF TypeOK
  <2> QED  BY <2>1, <2>2
<1>4. \A y \in Writers : txn'[y].id <= lastId
  BY Fields DEF Rollback, TypeOK, NoTxn
<1> QED  BY <1>1, <1>2, <1>3, <1>4 DEF Rollback, TypeOK, observed

LEMMA CommitTypes == ASSUME TypeOK, NEW x \in Writers, Commit(x) PROVE TypeOK'
<1> DEFINE t == txn[x]
<1>1. t \in Txns /\ t.rule \in Rules /\ t.row \in Rows /\ t.id \in 0 .. MaxAudit
  BY Fields
<1>2. rules' \in AllRules
  BY <1>1 DEF Commit, TypeOK, AllRules
<1>3. audit' \in 0 .. MaxAudit
  <2>1. audit' = Max({audit, t.id}) /\ audit \in 0 .. MaxAudit /\ audit \in Nat /\ t.id \in Nat
    <3>1. audit' = Max({audit, t.id})
      BY DEF Commit
    <3> QED  BY <1>1, <3>1, Fields, Constants
  <2>2. audit' \in {audit, t.id}
    BY <2>1, LargestId
  <2> QED  BY <1>1, <2>1, <2>2
<1>4. audit' <= lastId
  <2>1. audit' = Max({audit, t.id}) /\ audit \in Nat /\ t.id \in Nat
    <3>1. audit' = Max({audit, t.id})
      BY DEF Commit
    <3> QED  BY <1>1, <3>1, Fields, Constants
  <2>2. audit' \in {audit, t.id}
    BY <2>1, LargestId
  <2>3. audit <= lastId /\ t.id <= lastId
    BY Fields
  <2> QED  BY <2>2, <2>3
<1>5. txn' \in [Writers -> Txns] /\ \A y \in Writers : txn'[y].id <= lastId
  <2>1. txn' = [txn EXCEPT ![x] = NoTxn]
    BY DEF Commit
  <2>2. \A y \in Writers : txn'[y].id = (IF y = x THEN 0 ELSE txn[y].id)
    BY <2>1, BlankForms DEF TypeOK
  <2>3. 0 <= lastId
    BY Fields
  <2> QED  BY <2>1, <2>2, <2>3, BlankForms DEF TypeOK
<1>6. \A c \in Commands :
        [command[c] EXCEPT !.phase = "accepted", !.revision = t.id, !.receipt = "propagating"] \in SafetyStates
  BY <1>1, Fields DEF SafetyStates
<1>7. command' \in [Commands -> SafetyStates]
  <2> HIDE DEF t
  <2> QED  BY <1>6, Fields DEF Commit, t
<1>8. (txn'["safety"].phase = "idle") = (\A c \in Commands : command'[c].phase # "open")
  <2>1. CASE x = "safety"
    <3>1. txn'["safety"].phase = "idle"
      BY <2>1 DEF Commit, TypeOK, NoTxn
    <3>2. \A c \in Commands : command'[c].phase # "open"
      BY <2>1, Fields DEF Commit, SafetyStates
    <3> QED  BY <3>1, <3>2
  <2>2. CASE x # "safety"
    <3>1. txn'["safety"] = txn["safety"]
      BY <2>2 DEF Commit, TypeOK, Writers
    <3>2. \A c \in Commands : command'[c] = command[c]
      BY <2>2 DEF Commit
    <3> QED  BY <3>1, <3>2 DEF TypeOK
  <2> QED  BY <2>1, <2>2
<1>9. \A k \in Calls : [call[k] EXCEPT !.denials = @ \ {t.rule}] \in CallStates
  <2> HIDE DEF t
  <2> SUFFICES ASSUME NEW k \in Calls PROVE [call[k] EXCEPT !.denials = @ \ {t.rule}] \in CallStates
    OBVIOUS
  <2>1. call[k] \in CallStates /\ call[k].denials \ {t.rule} \in SUBSET Rules
    BY Fields
  <2> QED  BY <2>1 DEF CallStates
<1>10. call' \in [Calls -> CallStates]
  <2> HIDE DEF t
  <2> QED  BY <1>9 DEF Commit, t
<1>11. deniedAt' \in [Requests -> 0 .. Never]
  <2>1. now \in 0 .. Never /\ Never \in 0 .. Never
    BY Constants DEF TypeOK, Never
  <2> QED  BY <2>1 DEF Commit, TypeOK
<1>12. changed' \in [Rules -> 0 .. MaxAudit] /\ told' \in SUBSET Rules
  BY <1>1 DEF Commit, TypeOK
<1>13. lastId' \in audit' .. MaxAudit
  <2>1. lastId' = lastId
    BY DEF Commit
  <2> QED  BY <1>3, <1>4, <2>1, Fields, Constants
<1>14. UNCHANGED <<now, lastId, redis, cached, refresh>>
  BY DEF Commit
<1> HIDE DEF t
<1> QED  BY <1>2, <1>3, <1>5, <1>7, <1>8, <1>10, <1>11, <1>12, <1>13, <1>14 DEF TypeOK

LEMMA SetCommandTypes ==
  ASSUME TypeOK, NEW c \in Commands, NEW s \in SafetyStates, SetCommand(c, s), s.phase # "open",
         command[c].phase # "open", redis' \in [snapshot : MaybeSnapshot, until : Nat],
         told' \in SUBSET Rules
  PROVE  TypeOK'
<1>1. command' \in [Commands -> SafetyStates]
  BY DEF SetCommand, TypeOK
<1>2. \A d \in Commands : (command'[d].phase # "open") = (command[d].phase # "open")
  BY DEF SetCommand, TypeOK
<1>3. (txn'["safety"].phase = "idle") = (\A d \in Commands : command'[d].phase # "open")
  BY <1>2 DEF SetCommand, TypeOK
<1> QED  BY <1>1, <1>3 DEF SetCommand, TypeOK

\* What the steps of the service do to the record of a command.
LEMMA CommandForms ==
  ASSUME NEW s \in SafetyStates, NEW taken \in MaybeSnapshot
  PROVE  /\ [s EXCEPT !.phase = "loaded", !.snapshot = taken] \in SafetyStates
         /\ [s EXCEPT !.phase = "put", !.snapshot = taken] \in SafetyStates
         /\ [s EXCEPT !.phase = "done", !.snapshot = taken, !.receipt = "failed"] \in SafetyStates
         /\ [s EXCEPT !.phase = "loaded", !.snapshot = taken].phase = "loaded"
         /\ [s EXCEPT !.phase = "put", !.snapshot = taken].phase = "put"
         /\ [s EXCEPT !.phase = "done", !.snapshot = taken, !.receipt = "failed"].phase = "done"
<1>1. [s EXCEPT !.phase = "loaded", !.snapshot = taken] \in SafetyStates
  BY DEF SafetyStates
<1>2. [s EXCEPT !.phase = "put", !.snapshot = taken] \in SafetyStates
  BY DEF SafetyStates
<1>3. [s EXCEPT !.phase = "done", !.snapshot = taken, !.receipt = "failed"] \in SafetyStates
  BY DEF SafetyStates
<1>4. /\ [s EXCEPT !.phase = "loaded", !.snapshot = taken].phase = "loaded"
      /\ [s EXCEPT !.phase = "put", !.snapshot = taken].phase = "put"
      /\ [s EXCEPT !.phase = "done", !.snapshot = taken, !.receipt = "failed"].phase = "done"
  BY DEF SafetyStates
<1> QED  BY <1>1, <1>2, <1>3, <1>4

LEMMA FinishedForm ==
  ASSUME NEW s \in SafetyStates, NEW r \in {"propagated", "failed"}
  PROVE  /\ [s EXCEPT !.phase = "done", !.receipt = r] \in SafetyStates
         /\ [s EXCEPT !.phase = "done", !.receipt = r].phase = "done"
<1>1. [s EXCEPT !.phase = "done", !.receipt = r] \in SafetyStates
  BY DEF SafetyStates
<1>2. [s EXCEPT !.phase = "done", !.receipt = r].phase = "done"
  BY DEF SafetyStates
<1> QED  BY <1>1, <1>2

LEMMA ReplayedForm ==
  ASSUME NEW s \in SafetyStates, NEW taken \in MaybeSnapshot, NEW id \in 0 .. MaxAudit
  PROVE  LET a == [s EXCEPT !.phase = "accepted", !.replayed = TRUE, !.revision = id, !.snapshot = taken]
         IN  a \in SafetyStates /\ a.phase = "accepted"
<1> DEFINE a == [s EXCEPT !.phase = "accepted", !.replayed = TRUE, !.revision = id, !.snapshot = taken]
<1>1. a \in SafetyStates
  BY DEF SafetyStates
<1>2. a.phase = "accepted"
  BY DEF SafetyStates
<1> QED  BY <1>1, <1>2

LEMMA SafetyServiceTypes ==
  ASSUME TypeOK, NEW c \in Commands,
         SafetyLoad(c) \/ SafetyPut(c) \/ SafetyFinish(c) \/ SafetyFails(c) \/ SafetyReplay(c)
  PROVE  TypeOK'
<1>0. command[c] \in SafetyStates /\ NoSnapshot \in MaybeSnapshot /\ audit \in 0 .. MaxAudit
  BY Fields, SnapshotForms
<1>1. CASE SafetyLoad(c)
  <2>1. [command[c] EXCEPT !.phase = "loaded", !.snapshot = Durable] \in SafetyStates
    BY <1>0, DurableTyped, CommandForms
  <2>2. [command[c] EXCEPT !.phase = "loaded", !.snapshot = Durable].phase = "loaded"
    BY <1>0, DurableTyped, CommandForms
  <2> QED  BY <1>1, <2>1, <2>2, SetCommandTypes DEF SafetyLoad, TypeOK
<1>2. CASE SafetyPut(c)
  <2>1. [command[c] EXCEPT !.phase = "put", !.snapshot = NoSnapshot] \in SafetyStates
    BY <1>0, CommandForms
  <2>2. [command[c] EXCEPT !.phase = "put", !.snapshot = NoSnapshot].phase = "put"
    BY <1>0, CommandForms
  <2>3. redis' \in [snapshot : MaybeSnapshot, until : Nat] /\ told' \in SUBSET Rules
    <3>1. now + ProjectionTtl \in Nat
      BY Fields, Constants
    <3>2. redis' = [snapshot |-> command[c].snapshot, until |-> now + ProjectionTtl]
      BY <1>2 DEF SafetyPut, Put
    <3> QED  BY <1>2, <3>1, <3>2, Fields DEF SafetyPut, TypeOK
  <2> QED  BY <1>2, <2>1, <2>2, <2>3, SetCommandTypes DEF SafetyPut
<1>3. CASE SafetyFinish(c)
  <2> DEFINE r == IF Propagated(c) THEN "propagated" ELSE "failed"
             s == [command[c] EXCEPT !.phase = "done", !.receipt = r]
  <2>1. s \in SafetyStates /\ s.phase = "done"
    <3>1. r \in {"propagated", "failed"}
      OBVIOUS
    <3> HIDE DEF r
    <3> QED  BY <1>0, <3>1, FinishedForm
  <2>2. told' \in SUBSET Rules
    BY <1>3, Fields DEF SafetyFinish, TypeOK
  <2> QED  BY <1>3, <2>1, <2>2, SetCommandTypes DEF SafetyFinish, TypeOK
<1>4. CASE SafetyFails(c)
  <2> DEFINE s == [command[c] EXCEPT !.phase = "done", !.snapshot = NoSnapshot, !.receipt = "failed"]
  <2>1. s \in SafetyStates /\ s.phase = "done"
    BY <1>0, CommandForms
  <2> QED  BY <1>4, <2>1, SetCommandTypes DEF SafetyFails, TypeOK
<1>5. CASE SafetyReplay(c)
  <2> DEFINE s == [command[c] EXCEPT !.phase = "accepted", !.replayed = TRUE, !.revision = audit,
                                      !.snapshot = NoSnapshot]
  <2>1. s \in SafetyStates /\ s.phase = "accepted"
    BY <1>0, ReplayedForm
  <2> QED  BY <1>5, <2>1, SetCommandTypes DEF SafetyReplay, TypeOK
<1> QED  BY <1>1, <1>2, <1>3, <1>4, <1>5

LEMMA WorkerTypes ==
  ASSUME TypeOK, NEW w \in Workers, RefreshLoad(w) \/ RefreshPut(w) \/ WorkerRestart(w)
  PROVE  TypeOK'
<1>1. CASE RefreshLoad(w)
  <2>1. refresh' \in [Workers -> MaybeSnapshot]
    BY <1>1, DurableTyped DEF RefreshLoad, TypeOK
  <2> QED  BY <1>1, <2>1 DEF RefreshLoad, TypeOK, observed
<1>2. CASE RefreshPut(w)
  <2>1. refresh' \in [Workers -> MaybeSnapshot]
    BY <1>2, SnapshotForms DEF RefreshPut, TypeOK
  <2>2. now + WorkerTtl \in Nat /\ redis \in [snapshot : MaybeSnapshot, until : Nat]
    BY Fields, Constants DEF TypeOK
  <2>3. redis' \in [snapshot : MaybeSnapshot, until : Nat]
    BY <1>2, <2>2, Fields DEF RefreshPut, Put
  <2> QED  BY <1>2, <2>1, <2>3 DEF RefreshPut, TypeOK, observed
<1>3. CASE WorkerRestart(w)
  <2>1. cached' \in [Workers -> MaybeSnapshot] /\ refresh' \in [Workers -> MaybeSnapshot]
    BY <1>3, SnapshotForms DEF WorkerRestart, TypeOK
  <2>2. call' \in [Calls -> CallStates]
    BY <1>3, BlankForms, Fields DEF WorkerRestart
  <2> QED  BY <1>3, <2>1, <2>2 DEF WorkerRestart, TypeOK, observed
<1> QED  BY <1>1, <1>2, <1>3

LEMMA SetCallTypes ==
  ASSUME TypeOK, NEW k \in Calls, NEW c \in CallStates, SetCall(k, c),
         cached' \in [Workers -> MaybeSnapshot]
  PROVE  TypeOK'
<1>1. call' \in [Calls -> CallStates]
  BY DEF SetCall, TypeOK
<1> QED  BY <1>1 DEF SetCall, TypeOK, observed

\* What a worker keeps, and what it takes of it.
LEMMA KeptTyped ==
  ASSUME TypeOK, NEW w \in Workers, NEW t
  PROVE  Kept(w, t) \in MaybeSnapshot /\ (Kept(w, t).there => Kept(w, t) = cached[w])
BY Fields, SnapshotForms DEF Kept

LEMMA CallTypes ==
  ASSUME TypeOK, NEW k \in Calls,
         Start(k) \/ ReadRedis(k) \/ Choose(k) \/ LoadDurable(k) \/ TakeDurable(k) \/ LoadFails(k) \/ Judge(k)
  PROVE  TypeOK'
<1> DEFINE w == WorkerOf[k]
           s == IF Older(call[k].snapshot, w) THEN Kept(w, call[k].start) ELSE call[k].snapshot
<1>1. w \in Workers /\ s \in MaybeSnapshot /\ cached \in [Workers -> MaybeSnapshot]
  BY Fields, KeptTyped DEF TypeOK
<1>2. [cached EXCEPT ![w] = s] \in [Workers -> MaybeSnapshot]
  BY <1>1
<1>3. CASE Start(k)
  <2>1. PICK q \in Requests :
          SetCall(k, [NoCall EXCEPT !.phase = "started", !.request = q, !.start = now,
                                    !.denials = told \cap Covers[q]])
    BY <1>3 DEF Start
  <2>2. told \cap Covers[q] \in SUBSET Rules /\ now \in 0 .. MaxNow
    BY DEF TypeOK
  <2>3. [NoCall EXCEPT !.phase = "started", !.request = q, !.start = now,
                       !.denials = told \cap Covers[q]] \in CallStates
    BY <2>2, BlankForms DEF CallStates
  <2> QED  BY <1>1, <1>3, <2>1, <2>3, SetCallTypes DEF Start
<1>4. CASE ReadRedis(k)
  <2>1. /\ [call[k] EXCEPT !.phase = "read", !.snapshot = redis.snapshot,
                           !.clean = now = call[k].start] \in CallStates
        /\ [call[k] EXCEPT !.phase = "read", !.clean = FALSE] \in CallStates
    BY Fields DEF CallStates
  <2> QED  BY <1>1, <1>4, <2>1, SetCallTypes DEF ReadRedis
<1>5. CASE Choose(k)
  <2>1. /\ [call[k] EXCEPT !.phase = "judging", !.snapshot = s] \in CallStates
        /\ [call[k] EXCEPT !.phase = "loading"] \in CallStates
    BY <1>1, Fields DEF CallStates
  <2>2. CASE Fresh(s, call[k].start)
    <3>1. cached' = [cached EXCEPT ![w] = s] /\ SetCall(k, [call[k] EXCEPT !.phase = "judging", !.snapshot = s])
      BY <1>5, <2>2 DEF Choose
    <3> QED  BY <1>2, <2>1, <3>1, SetCallTypes
  <2>3. CASE ~Fresh(s, call[k].start)
    <3>1. cached' = cached /\ SetCall(k, [call[k] EXCEPT !.phase = "loading"])
      BY <1>5, <2>3 DEF Choose
    <3> QED  BY <1>1, <2>1, <3>1, SetCallTypes
  <2> QED  BY <2>2, <2>3
<1>6. CASE LoadDurable(k)
  <2>1. [call[k] EXCEPT !.phase = "loaded", !.snapshot = Durable] \in CallStates
    BY Fields, DurableTyped DEF CallStates
  <2> QED  BY <1>1, <1>6, <2>1, SetCallTypes DEF LoadDurable
<1>7. CASE TakeDurable(k)
  <2>1. [call[k] EXCEPT !.phase = "judging", !.snapshot = s] \in CallStates
    BY <1>1, Fields DEF CallStates
  <2>2. cached' \in [Workers -> MaybeSnapshot]
    BY <1>1, <1>2, <1>7 DEF TakeDurable
  <2>3. SetCall(k, [call[k] EXCEPT !.phase = "judging", !.snapshot = s])
    BY <1>7 DEF TakeDurable
  <2> QED  BY <2>1, <2>2, <2>3, SetCallTypes
<1>8. CASE LoadFails(k)
  <2>1. [call[k] EXCEPT !.phase = "judging", !.clean = FALSE,
                        !.snapshot = Kept(WorkerOf[k], call[k].start)] \in CallStates
    BY <1>1, KeptTyped, Fields DEF CallStates
  <2> QED  BY <1>1, <1>8, <2>1, SetCallTypes DEF LoadFails
<1>9. CASE Judge(k)
  <2>1. \A yes \in BOOLEAN : [NoCall EXCEPT !.allowed = yes] \in CallStates
    BY BlankForms DEF CallStates
  <2> QED  BY <1>1, <1>9, <2>1, SetCallTypes DEF Judge
<1> QED  BY <1>3, <1>4, <1>5, <1>6, <1>7, <1>8, <1>9

LEMMA TickTypes == TypeOK /\ Tick => TypeOK'
<1> SUFFICES ASSUME TypeOK, Tick PROVE TypeOK'
  OBVIOUS
<1>1. now' \in 0 .. MaxNow
  BY Constants DEF Tick, TypeOK
<1>2. redis' \in [snapshot : MaybeSnapshot, until : Nat]
  BY SnapshotForms DEF Tick, TypeOK
<1> QED  BY <1>1, <1>2 DEF Tick, TypeOK, observed

\* A step is one of these.
LEMMA TypeNext == TypeOK /\ [Next]_vars => TypeOK'
<1> SUFFICES ASSUME TypeOK, [Next]_vars PROVE TypeOK'
  OBVIOUS
<1>1. ASSUME NEW c \in Commands, BeginSafety(c) \/ SafetyLoad(c) \/ SafetyPut(c) \/ SafetyFinish(c)
                                   \/ SafetyFails(c) \/ SafetyReplay(c)
      PROVE  TypeOK'
  BY <1>1, BeginTypes, SafetyServiceTypes
<1>2. ASSUME NEW x \in Writers, Commit(x) \/ Rollback(x) PROVE TypeOK'
  BY <1>2, CommitTypes, RollbackTypes
<1>3. CASE UNCHANGED vars
  BY <1>3 DEF vars, observed, TypeOK
<1> QED  BY <1>1, <1>2, <1>3, OperatorTypes, StagedTypes, SafetyTypes, RefusedTypes, WorkerTypes, CallTypes,
            TickTypes DEF Next

---------------------------------------------------------------------------
(* Steps only copy the snapshots around, and the durable one.              *)

\* Where a snapshot is after a step, one that was around was before, the
\* durable one, or none.
Drawn(s) == s \in Known \cup {NoSnapshot}

LEMMA KeptDrawn ==
  ASSUME TypeOK
  PROVE  /\ Drawn(redis.snapshot) /\ Drawn(NoSnapshot) /\ Drawn(Durable)
         /\ \A w \in Workers : /\ Drawn(cached[w]) /\ Drawn(refresh[w])
                               /\ \A t : Drawn(Kept(w, t))
         /\ \A c \in Commands : Drawn(command[c].snapshot)
         /\ \A k \in Calls : Drawn(call[k].snapshot)
<1>1. \A s \in MaybeSnapshot : (s.there => s \in Around) => Drawn(s)
  BY SnapshotForms DEF Drawn, Known
<1>2. Drawn(NoSnapshot) /\ Drawn(Durable)
  BY DEF Drawn, Known
<1>3. \A w \in Workers : Drawn(cached[w]) /\ Drawn(refresh[w])
  BY <1>1, Fields, AroundTyped
<1>4. \A w \in Workers : \A t : Drawn(Kept(w, t))
  BY <1>2, <1>3 DEF Kept
<1> QED  BY <1>1, <1>2, <1>3, <1>4, Fields, AroundTyped

LEMMA DrawnIsKnown ==
  ASSUME TypeOK, Drawn(redis'.snapshot),
         \A w \in Workers : Drawn(cached'[w]) /\ Drawn(refresh'[w]),
         \A c \in Commands : Drawn(command'[c].snapshot),
         \A k \in Calls : Drawn(call'[k].snapshot)
  PROVE  Around' \subseteq Known
<1>1. \A s \in Copies' : Drawn(s)
  BY DEF Copies
<1>2. \A s : Drawn(s) /\ s.there => s \in Known
  BY SnapshotForms DEF Drawn
<1> QED  BY <1>1, <1>2 DEF Around

LEMMA CommandCopies ==
  ASSUME TypeOK, UNCHANGED <<redis, cached, refresh, call>>,
         \A c \in Commands : Drawn(command'[c].snapshot)
  PROVE  Around' \subseteq Known
BY KeptDrawn, DrawnIsKnown

LEMMA SameCopies ==
  ASSUME TypeOK, UNCHANGED <<redis, cached, refresh, command, call>>
  PROVE  Around' \subseteq Known
BY KeptDrawn, CommandCopies

LEMMA WriterCopies ==
  ASSUME TypeOK, \/ WriteOperatorChange \/ WriteStagedAllocation \/ WriteSafety \/ SafetyRefused
                 \/ \E c \in Commands : BeginSafety(c)
                 \/ \E x \in Writers : Rollback(x)
  PROVE  Around' \subseteq Known
<1>1. CASE WriteOperatorChange \/ WriteStagedAllocation \/ WriteSafety
  BY <1>1, SameCopies DEF WriteOperatorChange, WriteStagedAllocation, WriteSafety, Written
<1>2. CASE SafetyRefused
  <2>1. \A c \in Commands : command'[c].snapshot = command[c].snapshot
    BY <1>2, Fields DEF SafetyRefused, SafetyStates
  <2> QED  BY <1>2, <2>1, KeptDrawn, CommandCopies DEF SafetyRefused
<1>3. ASSUME NEW c \in Commands, BeginSafety(c) PROVE Around' \subseteq Known
  <2>1. \A d \in Commands : command'[d].snapshot \in {command[d].snapshot, NoSnapshot}
    <3>1. PICK r \in SafetyRules, row \in {"deny", "ended"} :
            command' = [command EXCEPT ![c] = [NewCommand EXCEPT !.phase = "open", !.row = row, !.rule = r]]
      BY <1>3 DEF BeginSafety
    <3> DEFINE opened == [NewCommand EXCEPT !.phase = "open", !.row = row, !.rule = r]
    <3>2. opened.snapshot = NoSnapshot
      BY DEF NewCommand
    <3>3. DOMAIN command = Commands
      BY DEF TypeOK
    <3> HIDE DEF opened
    <3>4. command' = [command EXCEPT ![c] = opened]
      BY <3>1 DEF opened
    <3> QED  BY <3>2, <3>3, <3>4
  <2> QED  BY <1>3, <2>1, KeptDrawn, CommandCopies DEF BeginSafety
<1>4. ASSUME NEW x \in Writers, Rollback(x) PROVE Around' \subseteq Known
  <2>1. \A d \in Commands : command'[d].snapshot \in {command[d].snapshot, NoSnapshot}
    BY <1>4 DEF Rollback, NewCommand
  <2> QED  BY <1>4, <2>1, KeptDrawn, CommandCopies DEF Rollback
<1> QED  BY <1>1, <1>2, <1>3, <1>4

LEMMA CommitCopies == ASSUME TypeOK, NEW x \in Writers, Commit(x) PROVE Around' \subseteq Known
<1>1. \A c \in Commands : command'[c].snapshot = command[c].snapshot
  BY Fields DEF Commit, SafetyStates
<1>2. \A k \in Calls : call'[k].snapshot = call[k].snapshot
  BY Fields DEF Commit, CallStates
<1>3. UNCHANGED <<redis, cached, refresh>>
  BY DEF Commit
<1> QED  BY <1>1, <1>2, <1>3, KeptDrawn, DrawnIsKnown

LEMMA WorkerCopies ==
  ASSUME TypeOK, NEW w \in Workers, RefreshLoad(w) \/ RefreshPut(w) \/ WorkerRestart(w)
  PROVE  Around' \subseteq Known
<1>1. \A v \in Workers : /\ refresh'[v] \in {refresh[v], NoSnapshot, Durable}
                         /\ cached'[v] \in {cached[v], NoSnapshot}
  BY DEF RefreshLoad, RefreshPut, WorkerRestart, TypeOK
<1>2. redis'.snapshot \in {redis.snapshot, refresh[w]} /\ UNCHANGED command
  BY DEF RefreshLoad, RefreshPut, WorkerRestart, Put
<1>3. \A k \in Calls : call'[k].snapshot \in {call[k].snapshot, NoSnapshot}
  BY DEF RefreshLoad, RefreshPut, WorkerRestart, NoCall
<1> QED  BY <1>1, <1>2, <1>3, KeptDrawn, DrawnIsKnown

\* SetCall and SetCommand change one entry.
LEMMA SetCallValue ==
  ASSUME TypeOK, NEW k \in Calls, NEW c, SetCall(k, c)
  PROVE  call'[k] = c /\ \A j \in Calls : j # k => call'[j] = call[j]
BY DEF SetCall, TypeOK

LEMMA SetCommandValue ==
  ASSUME TypeOK, NEW c \in Commands, NEW s, SetCommand(c, s)
  PROVE  command'[c] = s /\ \A d \in Commands : d # c => command'[d] = command[d]
BY DEF SetCommand, TypeOK

LEMMA ServiceCopies ==
  ASSUME TypeOK, NEW c \in Commands,
         SafetyLoad(c) \/ SafetyPut(c) \/ SafetyFinish(c) \/ SafetyFails(c) \/ SafetyReplay(c)
  PROVE  Around' \subseteq Known
<1>1. \A d \in Commands : command'[d].snapshot \in {command[d].snapshot, NoSnapshot, Durable}
  <2>1. \E z : SetCommand(c, z) /\ z.snapshot \in {command[c].snapshot, NoSnapshot, Durable}
    <3>1. command[c] \in SafetyStates
      BY Fields
    <3>2. CASE SafetyLoad(c)
      <4> DEFINE z == [command[c] EXCEPT !.phase = "loaded", !.snapshot = Durable]
      <4>1. z.snapshot \in {command[c].snapshot, NoSnapshot, Durable}
        BY <3>1 DEF SafetyStates
      <4>2. SetCommand(c, z)
        BY <3>2 DEF SafetyLoad
      <4> QED  BY <4>1, <4>2
    <3>3. CASE SafetyPut(c)
      <4> DEFINE z == [command[c] EXCEPT !.phase = "put", !.snapshot = NoSnapshot]
      <4>1. z.snapshot \in {command[c].snapshot, NoSnapshot, Durable}
        BY <3>1 DEF SafetyStates
      <4>2. SetCommand(c, z)
        BY <3>3 DEF SafetyPut
      <4> QED  BY <4>1, <4>2
    <3>4. CASE SafetyFinish(c)
      <4> DEFINE z == [command[c] EXCEPT !.phase = "done",
                      !.receipt = IF Propagated(c) THEN "propagated" ELSE "failed"]
      <4>1. z.snapshot \in {command[c].snapshot, NoSnapshot, Durable}
        BY <3>1 DEF SafetyStates
      <4>2. SetCommand(c, z)
        BY <3>4 DEF SafetyFinish
      <4> QED  BY <4>1, <4>2
    <3>5. CASE SafetyFails(c)
      <4> DEFINE z == [command[c] EXCEPT !.phase = "done", !.snapshot = NoSnapshot, !.receipt = "failed"]
      <4>1. z.snapshot \in {command[c].snapshot, NoSnapshot, Durable}
        BY <3>1 DEF SafetyStates
      <4>2. SetCommand(c, z)
        BY <3>5 DEF SafetyFails
      <4> QED  BY <4>1, <4>2
    <3>6. CASE SafetyReplay(c)
      <4> DEFINE z == [command[c] EXCEPT !.phase = "accepted", !.replayed = TRUE, !.revision = audit,
                                      !.snapshot = NoSnapshot]
      <4>1. z.snapshot \in {command[c].snapshot, NoSnapshot, Durable}
        BY <3>1 DEF SafetyStates
      <4>2. SetCommand(c, z)
        BY <3>6 DEF SafetyReplay
      <4> QED  BY <4>1, <4>2
    <3> QED  BY <3>2, <3>3, <3>4, <3>5, <3>6
  <2> QED  BY <2>1, SetCommandValue
<1>2. redis'.snapshot \in {redis.snapshot, command[c].snapshot}
  BY DEF SafetyLoad, SafetyPut, SafetyFinish, SafetyFails, SafetyReplay, Put
<1>3. UNCHANGED <<cached, refresh, call>>
  BY DEF SafetyLoad, SafetyPut, SafetyFinish, SafetyFails, SafetyReplay, SetCommand
<1> QED  BY <1>1, <1>2, <1>3, KeptDrawn, DrawnIsKnown

LEMMA CallCopies ==
  ASSUME TypeOK, NEW k \in Calls,
         Start(k) \/ ReadRedis(k) \/ Choose(k) \/ LoadDurable(k) \/ TakeDurable(k) \/ LoadFails(k) \/ Judge(k)
  PROVE  Around' \subseteq Known
<1> DEFINE w == WorkerOf[k]
           s == IF Older(call[k].snapshot, w) THEN Kept(w, call[k].start) ELSE call[k].snapshot
<1>1. w \in Workers /\ Drawn(s)
  BY Fields, KeptDrawn
<1>2. \A v \in Workers : cached'[v] \in {cached[v], s}
  BY <1>1 DEF Start, ReadRedis, Choose, LoadDurable, TakeDurable, LoadFails, Judge, TypeOK
<1>3. \A j \in Calls : call'[j].snapshot \in
        {call[j].snapshot, NoSnapshot, redis.snapshot, s, Durable, Kept(w, call[k].start)}
  <2>1. \A j \in Calls : j # k => call'[j] = call[j]
    BY DEF Start, ReadRedis, Choose, LoadDurable, TakeDurable, LoadFails, Judge, SetCall, TypeOK
  <2>2. call[k] \in CallStates
    BY Fields
  <2>3. call'[k].snapshot \in
          {call[k].snapshot, NoSnapshot, redis.snapshot, s, Durable, Kept(w, call[k].start)}
    <3> HIDE DEF s
    <3>1. CASE Start(k)
      <4>1. PICK q \in Requests :
              SetCall(k, [NoCall EXCEPT !.phase = "started", !.request = q, !.start = now,
                                        !.denials = told \cap Covers[q]])
        BY <3>1 DEF Start
      <4>2. call'[k] = [NoCall EXCEPT !.phase = "started", !.request = q, !.start = now,
                                       !.denials = told \cap Covers[q]]
        BY <4>1, SetCallValue
      <4> QED  BY <4>2 DEF NoCall
    <3>2. CASE ReadRedis(k)
      <4>1. \/ call'[k] = [call[k] EXCEPT !.phase = "read", !.snapshot = redis.snapshot,
                                          !.clean = now = call[k].start]
            \/ call'[k] = [call[k] EXCEPT !.phase = "read", !.clean = FALSE]
        BY <3>2, SetCallValue DEF ReadRedis
      <4> QED  BY <2>2, <4>1 DEF CallStates
    <3>3. CASE Choose(k)
      <4>1. \/ call'[k] = [call[k] EXCEPT !.phase = "judging", !.snapshot = s]
            \/ call'[k] = [call[k] EXCEPT !.phase = "loading"]
        BY <3>3, SetCallValue DEF Choose, s
      <4> QED  BY <2>2, <4>1 DEF CallStates
    <3>4. CASE LoadDurable(k)
      BY <2>2, <3>4 DEF LoadDurable, SetCall, TypeOK, CallStates
    <3>5. CASE TakeDurable(k)
      BY <2>2, <3>5 DEF TakeDurable, SetCall, TypeOK, CallStates, s
    <3>6. CASE LoadFails(k)
      BY <2>2, <3>6 DEF LoadFails, SetCall, TypeOK, CallStates
    <3>7. CASE Judge(k)
      BY <2>2, <3>7 DEF Judge, SetCall, TypeOK, NoCall
    <3> QED  BY <3>1, <3>2, <3>3, <3>4, <3>5, <3>6, <3>7
  <2> QED  BY <2>1, <2>3
<1>4. UNCHANGED <<redis, refresh, command>>
  BY DEF Start, ReadRedis, Choose, LoadDurable, TakeDurable, LoadFails, Judge, SetCall
<1> HIDE DEF s
<1> QED  BY <1>1, <1>2, <1>3, <1>4, KeptDrawn, DrawnIsKnown

LEMMA TickCopies == TypeOK /\ Tick => Around' \subseteq Known
<1> SUFFICES ASSUME TypeOK, Tick PROVE Around' \subseteq Known
  OBVIOUS
<1>1. redis'.snapshot \in {redis.snapshot, NoSnapshot}
  BY DEF Tick
<1>2. UNCHANGED <<command, cached, refresh, call>>
  BY DEF Tick
<1> QED  BY <1>1, <1>2, KeptDrawn, DrawnIsKnown

---------------------------------------------------------------------------
(* The invariant.                                                          *)

\* What holds of the snapshots around holds of the durable one too.
LEMMA KnownSound ==
  ASSUME RolloutInv
  PROVE  /\ Known \subseteq Snapshots
         /\ \A s \in Known : /\ s.at <= now /\ s.revision <= audit
                             /\ \A q \in Requests : Granted(s.rules, q) => s.at <= deniedAt[q]
         /\ \A x \in Writers : txn[x].phase = "written" =>
              txn[x].id # audit /\ \A s \in Known : s.revision # txn[x].id
         /\ \A s, u \in Known : s.revision < u.revision => s.at <= u.at
         /\ \A r \in Rules : \/ \A s \in Known : changed[r] <= s.revision => s.rules[r] = rules[r]
                             \/ changed[r] # audit /\ \A s \in Known : s.revision # changed[r]
         /\ \A r \in told :
              \A s \in Known : /\ changed[r] <= s.revision => s.rules[r] = "deny"
                               /\ s.revision < changed[r] =>
                                    \/ s.at + MaxStale < now
                                    \/ /\ redis.snapshot.there /\ changed[r] <= redis.snapshot.revision
                                       /\ s.at + MaxStale <= redis.until
<1>1. Known \subseteq Snapshots
  BY AroundTyped, DurableTyped DEF Known, RolloutInv
<1>2. Durable.at = now /\ Durable.revision = audit /\ Durable.rules = rules
  BY DEF Durable
<1>3. now \in Nat /\ audit \in Nat /\ now <= Never /\ told \subseteq Rules
  BY Constants DEF RolloutInv, TypeOK, Never
<1>4. \A s \in Known : s.at \in Nat /\ s.revision \in Nat
  BY <1>1, SnapshotForms, Constants
<1>5. \A s \in Known : s.at <= now /\ s.revision <= audit
  BY <1>2, <1>3 DEF Known, RolloutInv, Dated
<1>6. \A s \in Known : \A q \in Requests : Granted(s.rules, q) => s.at <= deniedAt[q]
  <2>1. \A q \in Requests : Granted(rules, q) => now <= deniedAt[q]
    BY <1>3 DEF RolloutInv, DenialsDated, Granted
  <2> QED  BY <1>2, <2>1 DEF Known, RolloutInv, Dated
<1>7. \A x \in Writers : txn[x].phase = "written" =>
        txn[x].id # audit /\ \A s \in Known : s.revision # txn[x].id
  BY <1>2 DEF Known, RolloutInv, IdsApart
<1>8. \A s, u \in Known : s.revision < u.revision => s.at <= u.at
  <2> SUFFICES ASSUME NEW s \in Known, NEW u \in Known, s.revision < u.revision PROVE s.at <= u.at
    OBVIOUS
  <2>1. CASE u = Durable
    BY <1>2, <1>5, <2>1
  <2>2. CASE u # Durable
    <3>1. s # Durable
      BY <1>2, <1>3, <1>4, <1>5
    <3> QED  BY <2>2, <3>1 DEF Known, RolloutInv, Ordered
  <2> QED  BY <2>1, <2>2
<1>9. \A r \in Rules : \/ \A s \in Known : changed[r] <= s.revision => s.rules[r] = rules[r]
                       \/ changed[r] # audit /\ \A s \in Known : s.revision # changed[r]
  BY <1>2 DEF Known, RolloutInv, ChangesCounted, InOrder
<1>10. ASSUME NEW r \in told, NEW s \in Known
       PROVE  /\ changed[r] <= s.revision => s.rules[r] = "deny"
              /\ s.revision < changed[r] =>
                   \/ s.at + MaxStale < now
                   \/ /\ redis.snapshot.there /\ changed[r] <= redis.snapshot.revision
                      /\ s.at + MaxStale <= redis.until
  <2>1. CASE s = Durable
    <3>1. changed[r] \in Nat /\ changed[r] <= audit /\ rules[r] = "deny"
      BY <1>3, Constants DEF RolloutInv, ToldDenies, ChangesCounted, TypeOK
    <3> QED  BY <1>2, <1>3, <2>1, <3>1
  <2>2. CASE s \in Around
    BY <2>2 DEF RolloutInv, ToldDenies, Outlived
  <2> QED  BY <2>1, <2>2 DEF Known
<1> QED  BY <1>1, <1>5, <1>6, <1>7, <1>8, <1>9, <1>10

LEMMA InvInit == Init => RolloutInv
<1> SUFFICES ASSUME Init PROVE RolloutInv
  OBVIOUS
<1>1. TypeOK
  BY TypeInit
<1>2. Around = {}
  BY SnapshotForms DEF Init, Around, Copies, NoCall, NewCommand
<1>3. \A x \in Writers : txn[x].phase = "idle"
  BY BlankForms DEF Init
<1>4. Dated /\ DenialsDated /\ IdsApart /\ Ordered
  BY <1>2, <1>3 DEF Init, Dated, DenialsDated, IdsApart, Ordered
<1>5. ChangesCounted /\ ToldDenies /\ RedisLasts
  BY <1>2, SnapshotForms DEF Init, ChangesCounted, InOrder, ToldDenies, RedisLasts
<1>6. \A k \in Calls : CallSound(k)
  BY DEF Init, NoCall, CallSound
<1>7. Loaded
  BY DEF Init, NewCommand, Loaded
<1> QED  BY <1>1, <1>4, <1>5, <1>6, <1>7 DEF RolloutInv

LEMMA Numbers ==
  ASSUME TypeOK
  PROVE  /\ now \in Nat /\ audit \in Nat /\ redis.until \in Nat
         /\ \A s \in Known : s.at \in Nat /\ s.revision \in Nat
         /\ \A r \in Rules : changed[r] \in Nat
         /\ \A k \in Calls : call[k].start \in Nat
<1>1. Known \subseteq Snapshots
  BY AroundTyped, DurableTyped DEF Known
<1>2. \A s \in Known : s.at \in Nat /\ s.revision \in Nat
  BY <1>1, SnapshotForms, Constants
<1>3. \A r \in Rules : changed[r] \in 0 .. MaxAudit
  BY DEF TypeOK
<1> QED  BY <1>2, <1>3, Fields, Constants

\* A step that commits no change: what depends on rules and snapshots alone.
LEMMA RuleStep ==
  ASSUME RolloutInv, TypeOK', Around' \subseteq Known, UNCHANGED <<rules, audit, deniedAt, changed>>,
         now <= now'
  PROVE  Dated' /\ DenialsDated' /\ Ordered' /\ ChangesCounted'
<1>1. now \in Nat /\ now' \in Nat /\ \A s \in Known : s.at \in Nat
  <2>1. now' \in 0 .. MaxNow
    BY DEF TypeOK
  <2> QED  BY <2>1, Numbers, Constants DEF RolloutInv
<1>2. Dated'
  BY <1>1, KnownSound DEF Dated, Granted
<1>3. DenialsDated' /\ Ordered'
  BY KnownSound DEF RolloutInv, DenialsDated, Ordered
<1>4. ChangesCounted'
  <2> SUFFICES ASSUME NEW r \in Rules PROVE (changed[r] <= audit /\ InOrder(r))'
    BY DEF ChangesCounted
  <2>1. (changed[r] <= audit)'
    BY DEF RolloutInv, ChangesCounted
  <2>2. InOrder(r)'
    BY KnownSound DEF InOrder
  <2> QED  BY <2>1, <2>2
<1> QED  BY <1>2, <1>3, <1>4

\* A step in which no change is written.
LEMMA IdsStep ==
  ASSUME RolloutInv, TypeOK', Around' \subseteq Known, UNCHANGED <<lastId, audit>>,
         \A x \in Writers : txn'[x].phase = "written" => txn[x].phase = "written" /\ txn'[x].id = txn[x].id
  PROVE  IdsApart'
BY KnownSound DEF RolloutInv, IdsApart

\* What a step may do to Redis: nothing, to let the key expire, or to put a
\* snapshot for long enough.
RedisStep ==
  \/ UNCHANGED redis
  \/ ~redis'.snapshot.there /\ redis.until < now'
  \/ \E s \in Around, ttl \in Nat : MaxStale <= ttl /\ PutAccepted(s) /\ Put(s, ttl) /\ UNCHANGED now

LEMMA ToldStep ==
  ASSUME RolloutInv, TypeOK', Around' \subseteq Known, UNCHANGED <<rules, told, changed>>,
         now <= now', RedisStep
  PROVE  ToldDenies' /\ RedisLasts'
<1>1. /\ now \in Nat /\ now' \in Nat /\ redis.until \in Nat /\ MaxStale \in Nat
      /\ \A s \in Known : s.at \in Nat /\ s.revision \in Nat /\ s.at <= now
      /\ \A r \in told : r \in Rules /\ changed[r] \in Nat
  <2>1. now' \in 0 .. MaxNow
    BY DEF TypeOK
  <2>2. told \subseteq Rules
    BY DEF RolloutInv, TypeOK
  <2> QED  BY <2>1, <2>2, KnownSound, Numbers, Constants DEF RolloutInv
<1>2. redis.snapshot.there => redis.snapshot \in Known
  BY AroundTyped DEF RolloutInv, Known
<1>3. RedisLasts'
  <2>1. CASE UNCHANGED redis
    BY <2>1 DEF RolloutInv, RedisLasts
  <2>2. CASE ~redis'.snapshot.there
    BY <2>2 DEF RedisLasts
  <2>3. ASSUME NEW s \in Around, NEW ttl \in Nat, MaxStale <= ttl, Put(s, ttl) PROVE RedisLasts'
    <3>1. redis'.snapshot = s /\ redis'.until = now + ttl /\ s \in Known
      BY <2>3 DEF Put, Known
    <3>2. s.at + MaxStale <= now + ttl
      BY <1>1, <2>3, <3>1
    <3> QED  BY <3>1, <3>2 DEF RedisLasts
  <2> QED  BY <2>1, <2>2, <2>3 DEF RedisStep
<1>4. ASSUME NEW r \in told, NEW s \in Known, s.revision < changed[r]
      PROVE  \/ s.at + MaxStale < now'
             \/ /\ redis'.snapshot.there /\ changed[r] <= redis'.snapshot.revision
                /\ s.at + MaxStale <= redis'.until
  <2>1. CASE s.at + MaxStale < now
    BY <1>1, <2>1
  <2>2. CASE ~(s.at + MaxStale < now)
    <3>1. /\ redis.snapshot.there /\ changed[r] <= redis.snapshot.revision
          /\ s.at + MaxStale <= redis.until
      BY <1>4, <2>2, KnownSound
    <3>2. CASE UNCHANGED redis
      BY <3>1, <3>2
    <3>3. CASE redis.until < now'
      BY <1>1, <3>1, <3>3
    <3>4. ASSUME NEW u \in Around, NEW ttl \in Nat, MaxStale <= ttl, PutAccepted(u), Put(u, ttl)
          PROVE  /\ redis'.snapshot.there /\ changed[r] <= redis'.snapshot.revision
                 /\ s.at + MaxStale <= redis'.until
      <4>1. redis'.snapshot = u /\ redis'.until = now + ttl /\ u \in Known /\ u.there
        BY <3>4 DEF Put, Known, Around
      <4>2. changed[r] <= u.revision
        BY <1>1, <1>2, <3>1, <3>4, <4>1 DEF PutAccepted
      <4>3. s.at + MaxStale <= now + ttl
        BY <1>1, <3>4
      <4> QED  BY <4>1, <4>2, <4>3
    <3> QED  BY <3>2, <3>3, <3>4 DEF RedisStep
  <2> QED  BY <2>1, <2>2
<1>5. ToldDenies'
  BY <1>4, KnownSound DEF RolloutInv, ToldDenies, Outlived
<1> QED  BY <1>3, <1>5

\* A decision that does not move stays sound as long as its denials are told.
LEMMA SameCall ==
  ASSUME RolloutInv, TypeOK', Around' \subseteq Known, now <= now', NEW k \in Calls,
         call'[k].phase = call[k].phase, call'[k].clean = call[k].clean,
         call'[k].start = call[k].start, call'[k].request = call[k].request,
         call'[k].snapshot = call[k].snapshot, call'[k].denials \subseteq call[k].denials \cap told',
         \A r \in call'[k].denials : changed'[r] = changed[r]
  PROVE  CallSound(k)'
<1> DEFINE c == call[k]
<1>1. /\ c.start <= now /\ c.denials \subseteq told \cap Covers[c.request]
      /\ \A r \in c.denials :
           /\ c.phase = "read" /\ c.clean =>
                \/ Counts(c.snapshot, r)
                \/ \A s \in Around : s.revision < changed[r] => s.at + MaxStale < c.start
           /\ c.phase = "loaded" => Counts(c.snapshot, r)
           /\ c.phase = "judging" /\ c.clean /\ Fresh(c.snapshot, c.start) => Counts(c.snapshot, r)
  BY DEF RolloutInv, CallSound
<1>2. c.start <= now'
  <2>1. now' \in 0 .. MaxNow
    BY DEF TypeOK
  <2> QED  BY <1>1, <2>1, Numbers, Constants DEF RolloutInv
<1>3. ASSUME NEW r \in call'[k].denials, c.phase = "read", c.clean
      PROVE  \/ Counts(c.snapshot, r)
             \/ \A s \in Around' : s.revision < changed[r] => s.at + MaxStale < c.start
  <2>1. r \in told /\ told \subseteq Rules
    BY <1>1 DEF RolloutInv, TypeOK
  <2>2. ~(Durable.revision < changed[r])
    BY <2>1, Numbers DEF RolloutInv, ChangesCounted, Durable
  <2> QED  BY <1>1, <1>3, <2>2 DEF Known
<1>4. \A r \in call'[k].denials :
        Counts(c.snapshot, r) => c.snapshot.there /\ changed'[r] <= c.snapshot.revision
  BY DEF Counts
<1>5. call'[k].denials \subseteq told' \cap Covers[c.request]
  BY <1>1
<1>6. \A r \in call'[k].denials :
        /\ c.phase = "read" /\ c.clean =>
             \/ c.snapshot.there /\ changed'[r] <= c.snapshot.revision
             \/ \A s \in Around' : s.revision < changed'[r] => s.at + MaxStale < c.start
        /\ c.phase = "loaded" => c.snapshot.there /\ changed'[r] <= c.snapshot.revision
        /\ c.phase = "judging" /\ c.clean /\ Fresh(c.snapshot, c.start) =>
             c.snapshot.there /\ changed'[r] <= c.snapshot.revision
  BY <1>1, <1>3, <1>4
<1>7. /\ call'[k].phase = c.phase /\ call'[k].clean = c.clean /\ call'[k].start = c.start
      /\ call'[k].request = c.request /\ call'[k].snapshot = c.snapshot
  OBVIOUS
<1> HIDE DEF c
<1> QED  BY <1>2, <1>5, <1>6, <1>7 DEF CallSound, Counts, Fresh

\* A step that commits nothing, tells nothing and moves no decision.
LEMMA QuietStep ==
  ASSUME RolloutInv, TypeOK', IdsApart', Loaded', Around' \subseteq Known, now <= now', RedisStep,
         UNCHANGED <<rules, audit, call, observed>>
  PROVE  RolloutInv'
<1>1. Dated' /\ DenialsDated' /\ Ordered' /\ ChangesCounted'
  BY RuleStep DEF observed
<1>2. ToldDenies' /\ RedisLasts'
  BY ToldStep DEF observed
<1>3. \A k \in Calls : CallSound(k)'
  BY SameCall DEF observed, RolloutInv, CallSound
<1> QED  BY <1>1, <1>2, <1>3 DEF RolloutInv

LEMMA LoadedNext == TypeOK /\ Loaded /\ [Next]_vars => Loaded'
<1> SUFFICES ASSUME TypeOK, Loaded, [Next]_vars, NEW c \in Commands, command'[c].phase = "loaded"
             PROVE  command'[c].snapshot.there
  BY DEF Loaded
<1> SUFFICES ASSUME command'[c] # command[c] PROVE command'[c].snapshot.there
  BY DEF Loaded
<1>1. command[c] \in SafetyStates
  BY Fields
<1>2. ASSUME NEW d \in Commands, SafetyLoad(d) PROVE command'[c].snapshot.there
  <2>1. command'[c] = [command[c] EXCEPT !.phase = "loaded", !.snapshot = Durable]
    BY <1>2, SetCommandValue DEF SafetyLoad
  <2> QED  BY <1>1, <2>1 DEF SafetyStates, Durable
<1>3. ASSUME NEW d \in Commands, \/ SafetyPut(d) \/ SafetyFinish(d) \/ SafetyFails(d)
                                 \/ SafetyReplay(d) \/ BeginSafety(d)
      PROVE  FALSE
  <2>1. CASE SafetyPut(d)
    <3>1. command'[c] = [command[c] EXCEPT !.phase = "put", !.snapshot = NoSnapshot]
      BY <2>1, SetCommandValue DEF SafetyPut
    <3> QED  BY <1>1, <3>1 DEF SafetyStates
  <2>2. CASE SafetyFinish(d)
    <3>1. command'[c] = [command[c] EXCEPT !.phase = "done",
                          !.receipt = IF Propagated(c) THEN "propagated" ELSE "failed"]
      BY <2>2, SetCommandValue DEF SafetyFinish
    <3> QED  BY <1>1, <3>1 DEF SafetyStates
  <2>3. CASE SafetyFails(d)
    <3>1. command'[c] = [command[c] EXCEPT !.phase = "done", !.snapshot = NoSnapshot, !.receipt = "failed"]
      BY <2>3, SetCommandValue DEF SafetyFails
    <3> QED  BY <1>1, <3>1 DEF SafetyStates
  <2>4. CASE SafetyReplay(d)
    <3>1. command'[c] = [command[c] EXCEPT !.phase = "accepted", !.replayed = TRUE, !.revision = audit,
                                           !.snapshot = NoSnapshot]
      BY <2>4, SetCommandValue DEF SafetyReplay
    <3> QED  BY <1>1, <3>1 DEF SafetyStates
  <2>5. CASE BeginSafety(d)
    <3>1. PICK r \in SafetyRules, row \in {"deny", "ended"} :
            command' = [command EXCEPT ![d] = [NewCommand EXCEPT !.phase = "open", !.row = row, !.rule = r]]
      BY <2>5 DEF BeginSafety
    <3>2. command'[c].phase = "open"
      BY <3>1 DEF TypeOK, NewCommand
    <3> QED  BY <3>2
  <2> QED  BY <1>3, <2>1, <2>2, <2>3, <2>4, <2>5
<1>4. ASSUME NEW x \in Writers, Commit(x) \/ Rollback(x) PROVE FALSE
  <2>1. CASE Commit(x)
    <3>1. command'[c] = [command[c] EXCEPT !.phase = "accepted", !.revision = txn[x].id,
                                           !.receipt = "propagating"]
      BY <2>1 DEF Commit
    <3> QED  BY <1>1, <3>1 DEF SafetyStates
  <2>2. CASE Rollback(x)
    BY <2>2 DEF Rollback, NewCommand
  <2> QED  BY <1>4, <2>1, <2>2
<1>5. CASE SafetyRefused
  BY <1>1, <1>5 DEF SafetyRefused, SafetyStates
<1>6. command' # command
  OBVIOUS
<1>7. ASSUME NEW k \in Calls, \/ Start(k) \/ ReadRedis(k) \/ Choose(k) \/ LoadDurable(k)
                              \/ TakeDurable(k) \/ LoadFails(k) \/ Judge(k)
      PROVE  FALSE
  BY <1>6, <1>7 DEF Start, ReadRedis, Choose, LoadDurable, TakeDurable, LoadFails, Judge, SetCall
<1>8. ASSUME NEW w \in Workers, RefreshLoad(w) \/ RefreshPut(w) \/ WorkerRestart(w) PROVE FALSE
  BY <1>6, <1>8 DEF RefreshLoad, RefreshPut, WorkerRestart
<1>9. CASE WriteOperatorChange \/ WriteStagedAllocation \/ WriteSafety \/ Tick \/ UNCHANGED vars
  BY <1>6, <1>9 DEF WriteOperatorChange, WriteStagedAllocation, WriteSafety, Written, Tick, vars
<1> QED  BY <1>2, <1>3, <1>4, <1>5, <1>7, <1>8, <1>9 DEF Next

\* The audit id a change takes is larger than all before it.
LEMMA WrittenIds ==
  ASSUME RolloutInv, TypeOK', NEW x \in Writers, NEW r \in Rules, NEW row \in Rows, Written(x, r, row),
         Around' \subseteq Known
  PROVE  IdsApart'
<1>1. lastId \in Nat /\ audit \in Nat /\ audit <= lastId /\ \A y \in Writers : txn[y].id \in Nat
  BY Fields, Constants DEF RolloutInv
<1>2. \A s \in Known : s.revision \in Nat /\ s.revision <= audit
  BY KnownSound, Numbers DEF RolloutInv
<1>3. txn'[x].id = lastId + 1 /\ \A y \in Writers \ {x} : txn'[y] = txn[y]
  BY DEF Written, RolloutInv, TypeOK
<1>4. lastId' = lastId + 1 /\ audit' = audit
  BY DEF Written
<1>5. \A y \in Writers : txn[y].id <= lastId
  BY Fields DEF RolloutInv
<1> SUFFICES ASSUME NEW y \in Writers, txn'[y].phase = "written"
             PROVE  /\ txn'[y].id <= lastId' /\ txn'[y].id # audit'
                    /\ \A s \in Around' : s.revision # txn'[y].id
                    /\ \A z \in Writers \ {y} : txn'[z].phase = "written" => txn'[z].id # txn'[y].id
  BY DEF IdsApart
<1>6. CASE y = x
  BY <1>1, <1>2, <1>3, <1>4, <1>5, <1>6
<1>7. CASE y # x
  <2>1. txn[y].phase = "written" /\ txn'[y].id = txn[y].id
    BY <1>3, <1>7
  <2>2. txn[y].id # audit /\ \A s \in Known : s.revision # txn[y].id
    BY <2>1, KnownSound
  <2>3. \A z \in Writers \ {y} : txn'[z].phase = "written" => txn'[z].id # txn[y].id
    BY <1>1, <1>3, <1>5, <2>1 DEF RolloutInv, IdsApart
  <2> QED  BY <1>1, <1>4, <1>5, <2>1, <2>2, <2>3
<1> QED  BY <1>6, <1>7

LEMMA WriteInv == RolloutInv /\ (WriteOperatorChange \/ WriteStagedAllocation \/ WriteSafety) => RolloutInv'
<1> SUFFICES ASSUME RolloutInv, WriteOperatorChange \/ WriteStagedAllocation \/ WriteSafety
             PROVE  RolloutInv'
  OBVIOUS
<1>1. TypeOK /\ TypeOK' /\ Around' \subseteq Known
  BY OperatorTypes, StagedTypes, SafetyTypes, WriterCopies DEF RolloutInv
<1>2. PICK x \in Writers, r \in Rules, row \in Rows : Written(x, r, row)
  BY <1>1, Fields, RolloutAssumption
     DEF RolloutAssumption, WriteOperatorChange, WriteStagedAllocation, WriteSafety, Writers, Rows
<1>3. IdsApart'
  BY <1>1, <1>2, WrittenIds
<1>4. RedisStep /\ now <= now' /\ UNCHANGED <<rules, audit, call, observed>>
  BY <1>1, <1>2, Numbers DEF Written, RedisStep
<1>5. Loaded'
  BY <1>1, LoadedNext DEF Next, RolloutInv
<1> QED  BY <1>1, <1>3, <1>4, <1>5, QuietStep

LEMMA WriterInv ==
  ASSUME RolloutInv, \/ SafetyRefused \/ \E c \in Commands : BeginSafety(c)
                     \/ \E x \in Writers : Rollback(x)
  PROVE  RolloutInv'
<1>1. TypeOK /\ TypeOK' /\ Around' \subseteq Known
  BY BeginTypes, RefusedTypes, RollbackTypes, WriterCopies DEF RolloutInv
<1>2. \A y \in Writers : txn'[y].phase = "written" => txn'[y] = txn[y]
  <2>1. CASE SafetyRefused
    BY <1>1, <2>1, BlankForms DEF SafetyRefused, TypeOK
  <2>2. ASSUME NEW c \in Commands, BeginSafety(c)
        PROVE  \A y \in Writers : txn'[y].phase = "written" => txn'[y] = txn[y]
    <3>1. PICK r \in SafetyRules, row \in {"deny", "ended"} :
            txn' = [txn EXCEPT !["safety"] = [phase |-> "begun", rule |-> r, row |-> row, id |-> 0]]
      BY <2>2 DEF BeginSafety
    <3>2. txn'["safety"].phase = "begun"
      BY <1>1, <3>1 DEF TypeOK, Writers
    <3> QED  BY <1>1, <3>1, <3>2 DEF TypeOK
  <2>3. ASSUME NEW x \in Writers, Rollback(x)
        PROVE  \A y \in Writers : txn'[y].phase = "written" => txn'[y] = txn[y]
    BY <1>1, <2>3, BlankForms DEF Rollback, TypeOK
  <2> QED  BY <2>1, <2>2, <2>3
<1>3. RedisStep /\ now <= now' /\ UNCHANGED <<rules, audit, lastId, call, observed>>
  <2>1. UNCHANGED <<now, rules, audit, lastId, redis, call, observed>>
    BY DEF SafetyRefused, BeginSafety, Rollback
  <2> QED  BY <1>1, <2>1, Numbers DEF RedisStep
<1>4. IdsApart'
  BY <1>1, <1>2, <1>3, IdsStep
<1>5. Loaded'
  BY <1>1, LoadedNext DEF Next, RolloutInv
<1> QED  BY <1>1, <1>3, <1>4, <1>5, QuietStep

LEMMA ServiceInv ==
  ASSUME RolloutInv, NEW c \in Commands,
         SafetyLoad(c) \/ SafetyPut(c) \/ SafetyFails(c) \/ SafetyReplay(c)
  PROVE  RolloutInv'
<1>1. TypeOK /\ TypeOK' /\ Around' \subseteq Known
  BY SafetyServiceTypes, ServiceCopies DEF RolloutInv
<1>2. UNCHANGED <<now, rules, audit, lastId, txn, call, observed>>
  BY DEF SafetyLoad, SafetyPut, SafetyFails, SafetyReplay, SetCommand, observed
<1>3. RedisStep
  <2>1. CASE SafetyPut(c)
    <3>1. PutAccepted(command[c].snapshot) /\ Put(command[c].snapshot, ProjectionTtl)
      BY <2>1 DEF SafetyPut
    <3>2. command[c].snapshot.there
      BY <2>1 DEF SafetyPut, RolloutInv, Loaded
    <3> QED  BY <1>1, <1>2, <3>1, <3>2, AroundTyped, Constants DEF RedisStep
  <2>2. CASE ~SafetyPut(c)
    BY <2>2 DEF SafetyLoad, SafetyFails, SafetyReplay, RedisStep
  <2> QED  BY <2>1, <2>2
<1>4. IdsApart'
  BY <1>1, <1>2, IdsStep
<1>5. Loaded'
  BY <1>1, LoadedNext DEF Next, RolloutInv
<1> QED  BY <1>1, <1>2, <1>3, <1>4, <1>5, Numbers, QuietStep

LEMMA RefreshInv ==
  ASSUME RolloutInv, NEW w \in Workers, RefreshLoad(w) \/ RefreshPut(w)
  PROVE  RolloutInv'
<1>1. TypeOK /\ TypeOK' /\ Around' \subseteq Known
  BY WorkerTypes, WorkerCopies DEF RolloutInv
<1>2. UNCHANGED <<now, rules, audit, lastId, txn, call, observed>>
  BY DEF RefreshLoad, RefreshPut
<1>3. RedisStep
  <2>1. refresh[w] # NoSnapshot => refresh[w] \in Around
    BY <1>1, AroundTyped, Fields, SnapshotForms
  <2>2. CASE RefreshPut(w) /\ redis' # redis
    BY <1>2, <2>1, <2>2, Constants DEF RefreshPut, RedisStep
  <2>3. CASE ~(RefreshPut(w) /\ redis' # redis)
    BY <2>3 DEF RefreshLoad, RedisStep
  <2> QED  BY <2>2, <2>3
<1>4. IdsApart'
  BY <1>1, <1>2, IdsStep
<1>5. Loaded'
  BY <1>1, LoadedNext DEF Next, RolloutInv
<1> QED  BY <1>1, <1>2, <1>3, <1>4, <1>5, Numbers, QuietStep

LEMMA TickInv == RolloutInv /\ Tick => RolloutInv'
<1> SUFFICES ASSUME RolloutInv, Tick PROVE RolloutInv'
  OBVIOUS
<1>1. TypeOK /\ TypeOK' /\ Around' \subseteq Known
  BY TickTypes, TickCopies DEF RolloutInv
<1>2. UNCHANGED <<rules, audit, lastId, txn, call, observed>> /\ now' = now + 1 /\ now <= now'
  BY <1>1, Numbers DEF Tick
<1>3. RedisStep
  BY <1>2, SnapshotForms DEF Tick, RedisStep
<1>4. IdsApart'
  BY <1>1, <1>2, IdsStep
<1>5. Loaded'
  BY <1>1, LoadedNext DEF Next, RolloutInv
<1> QED  BY <1>1, <1>2, <1>3, <1>4, <1>5, QuietStep

\* What a receipt that says propagated tells: Redis has a snapshot of just
\* the revision of the denial, so every snapshot that counts it shows it, and
\* the ones before it grow stale before the key expires.
LEMMA FinishInv == ASSUME RolloutInv, NEW c \in Commands, SafetyFinish(c) PROVE RolloutInv'
<1> DEFINE d == command[c].rule
<1>1. TypeOK /\ TypeOK' /\ Around' \subseteq Known
  BY SafetyServiceTypes, ServiceCopies DEF RolloutInv
<1>2. UNCHANGED <<now, rules, audit, lastId, txn, call, redis, deniedAt, changed>>
  BY DEF SafetyFinish, SetCommand
<1>3. \/ told' = told
      \/ told' = told \cup {d} /\ Propagated(c) /\ StillDenies(c)
  BY DEF SafetyFinish
<1>4. Dated' /\ DenialsDated' /\ Ordered' /\ ChangesCounted'
  BY <1>1, <1>2, Numbers, RuleStep
<1>5. IdsApart' /\ Loaded' /\ RedisLasts'
  BY <1>1, <1>2, IdsStep, LoadedNext DEF Next, RolloutInv, RedisLasts
<1>6. ASSUME Propagated(c), StillDenies(c)
      PROVE  /\ rules[d] = "deny"
             /\ \A s \in Known : changed[d] <= s.revision => s.rules[d] = "deny"
             /\ \A s \in Known : s.revision < changed[d] =>
                  /\ redis.snapshot.there /\ changed[d] <= redis.snapshot.revision
                  /\ s.at + MaxStale <= redis.until
  <2>1. redis.snapshot \in Known /\ redis.snapshot.there /\ redis.snapshot.revision = changed[d]
    BY <1>1, <1>6, AroundTyped DEF Propagated, StillDenies, Known
  <2>2. d \in Rules /\ rules[d] = "deny"
    BY <1>1, <1>6, Fields DEF StillDenies
  <2>3. \A s \in Known : changed[d] <= s.revision => s.rules[d] = rules[d]
    BY <2>1, <2>2, KnownSound
  <2>4. ASSUME NEW s \in Known, s.revision < changed[d] PROVE s.at + MaxStale <= redis.until
    <3>1. s.at <= redis.snapshot.at
      BY <2>1, <2>4, KnownSound
    <3>2. redis.snapshot.at + MaxStale <= redis.until
      BY <2>1 DEF RolloutInv, RedisLasts
    <3> QED  BY <1>1, <2>1, <3>1, <3>2, Numbers, Constants
  <2>5. changed[d] <= redis.snapshot.revision
    BY <1>1, <2>1, Numbers
  <2> QED  BY <2>1, <2>2, <2>3, <2>4, <2>5
<1>7. ToldDenies'
  <2> SUFFICES ASSUME NEW r \in told'
               PROVE  /\ rules[r] = "deny"
                      /\ \A s \in Known : changed[r] <= s.revision => s.rules[r] = "deny"
                      /\ \A s \in Known : s.revision < changed[r] =>
                           \/ s.at + MaxStale < now
                           \/ /\ redis.snapshot.there /\ changed[r] <= redis.snapshot.revision
                              /\ s.at + MaxStale <= redis.until
    BY <1>1, <1>2 DEF ToldDenies, Outlived
  <2>1. CASE r \in told
    BY <2>1, KnownSound DEF RolloutInv, ToldDenies
  <2>2. CASE r \notin told
    BY <1>3, <1>6, <2>2
  <2> QED  BY <2>1, <2>2
<1>8. \A k \in Calls : CallSound(k)'
  <2> SUFFICES ASSUME NEW k \in Calls PROVE CallSound(k)'
    OBVIOUS
  <2>1. call[k].denials \subseteq told /\ told \subseteq told'
    BY <1>3 DEF RolloutInv, CallSound
  <2> QED  BY <1>1, <1>2, <2>1, Numbers, SameCall
<1> QED  BY <1>1, <1>4, <1>5, <1>7, <1>8 DEF RolloutInv

---------------------------------------------------------------------------
(* Decisions.                                                              *)

\* CallSound of any record, over the durable snapshot too.
SoundCall(c) ==
  /\ c.start <= now /\ c.denials \subseteq told \cap Covers[c.request]
  /\ \A r \in c.denials :
       /\ c.phase = "read" /\ c.clean =>
            \/ Counts(c.snapshot, r)
            \/ \A s \in Known : s.revision < changed[r] => s.at + MaxStale < c.start
       /\ c.phase = "loaded" => Counts(c.snapshot, r)
       /\ c.phase = "judging" /\ c.clean /\ Fresh(c.snapshot, c.start) => Counts(c.snapshot, r)

LEMMA CallIsSound == ASSUME RolloutInv, NEW k \in Calls PROVE SoundCall(call[k])
<1>1. CallSound(k) /\ told \subseteq Rules
  BY DEF RolloutInv, TypeOK
<1>2. \A r \in told : ~(Durable.revision < changed[r])
  BY <1>1, Numbers DEF RolloutInv, ChangesCounted, Durable
<1> QED  BY <1>1, <1>2 DEF CallSound, SoundCall, Known

\* A decision moves to a sound state.
LEMMA CallMove ==
  ASSUME RolloutInv, TypeOK', Around' \subseteq Known, NEW k \in Calls, NEW c, SetCall(k, c), SoundCall(c)
  PROVE  RolloutInv'
<1>1. UNCHANGED <<now, rules, audit, lastId, txn, command, redis, observed>>
  BY DEF SetCall
<1>2. Dated' /\ DenialsDated' /\ Ordered' /\ ChangesCounted'
  BY <1>1, Numbers, RuleStep DEF observed, RolloutInv
<1>3. IdsApart' /\ Loaded'
  BY <1>1, IdsStep DEF RolloutInv, Loaded
<1>4. ToldDenies' /\ RedisLasts'
  BY <1>1, Numbers, ToldStep DEF observed, RolloutInv, RedisStep
<1>5. call'[k] = c /\ \A j \in Calls : j # k => call'[j] = call[j]
  BY SetCallValue DEF RolloutInv
<1>6. CallSound(k)'
  BY <1>1, <1>5 DEF SoundCall, CallSound, observed, Counts, Fresh
<1>7. ASSUME NEW j \in Calls, j # k PROVE CallSound(j)'
  <2>1. call[j].denials \subseteq told
    BY DEF RolloutInv, CallSound
  <2> QED  BY <1>1, <1>5, <1>7, <2>1, Numbers, SameCall DEF observed, RolloutInv
<1> QED  BY <1>2, <1>3, <1>4, <1>6, <1>7 DEF RolloutInv

LEMMA StartInv == ASSUME RolloutInv, NEW k \in Calls, Start(k) PROVE RolloutInv'
<1>1. PICK q \in Requests :
        SetCall(k, [NoCall EXCEPT !.phase = "started", !.request = q, !.start = now,
                                  !.denials = told \cap Covers[q]])
  BY DEF Start
<1> DEFINE c == [NoCall EXCEPT !.phase = "started", !.request = q, !.start = now,
                               !.denials = told \cap Covers[q]]
<1>2. c.phase = "started" /\ c.start = now /\ c.request = q /\ c.denials = told \cap Covers[q]
  BY DEF NoCall
<1>3. SetCall(k, c)
  BY <1>1
<1> HIDE DEF c
<1>4. SoundCall(c)
  BY <1>2, Numbers DEF SoundCall, RolloutInv
<1>5. TypeOK' /\ Around' \subseteq Known
  BY CallTypes, CallCopies DEF RolloutInv
<1> QED  BY <1>3, <1>4, <1>5, CallMove

LEMMA ReadInv == ASSUME RolloutInv, NEW k \in Calls, ReadRedis(k) PROVE RolloutInv'
<1> DEFINE o == call[k]
<1>1. TypeOK' /\ Around' \subseteq Known
  BY CallTypes, CallCopies DEF RolloutInv
<1>2. o \in CallStates /\ SoundCall(o)
  BY Fields, CallIsSound DEF RolloutInv
<1>3. PICK c : /\ SetCall(k, c) /\ c.phase = "read" /\ c.start = o.start /\ c.request = o.request
               /\ c.denials = o.denials
               /\ c.clean => c.snapshot = redis.snapshot /\ c.start = now
  <2>1. CASE SetCall(k, [o EXCEPT !.phase = "read", !.snapshot = redis.snapshot, !.clean = now = o.start])
    <3> DEFINE c == [o EXCEPT !.phase = "read", !.snapshot = redis.snapshot, !.clean = now = o.start]
    <3>1. /\ c.phase = "read" /\ c.start = o.start /\ c.request = o.request /\ c.denials = o.denials
          /\ c.clean => c.snapshot = redis.snapshot /\ c.start = now
      BY <1>2 DEF CallStates
    <3> QED  BY <2>1, <3>1
  <2>2. CASE SetCall(k, [o EXCEPT !.phase = "read", !.clean = FALSE])
    <3> DEFINE c == [o EXCEPT !.phase = "read", !.clean = FALSE]
    <3>1. /\ c.phase = "read" /\ c.start = o.start /\ c.request = o.request /\ c.denials = o.denials
          /\ ~c.clean
      BY <1>2 DEF CallStates
    <3> QED  BY <2>2, <3>1
  <2> QED  BY <2>1, <2>2 DEF ReadRedis
<1>4. ASSUME NEW r \in c.denials, c.clean
      PROVE  \/ Counts(c.snapshot, r)
             \/ \A s \in Known : s.revision < changed[r] => s.at + MaxStale < c.start
  <2>1. r \in told
    BY <1>2, <1>3 DEF SoundCall
  <2> QED  BY <1>3, <1>4, <2>1, KnownSound DEF Counts
<1>5. SoundCall(c)
  BY <1>2, <1>3, <1>4 DEF SoundCall
<1> QED  BY <1>1, <1>3, <1>5, CallMove

\* The snapshot a decision takes in place of an older one counts what that
\* one counts.
LEMMA NewerCounts ==
  ASSUME RolloutInv, NEW k \in Calls, NEW r \in Rules, Counts(call[k].snapshot, r),
         Older(call[k].snapshot, WorkerOf[k]), Kept(WorkerOf[k], call[k].start).there
  PROVE  Counts(Kept(WorkerOf[k], call[k].start), r)
<1> DEFINE w == WorkerOf[k]
<1>1. TypeOK /\ w \in Workers /\ Kept(w, call[k].start) = cached[w]
  BY Fields, KeptTyped DEF RolloutInv
<1>2. cached[w] \in Known /\ call[k].snapshot \in Known /\ call[k].snapshot.revision < cached[w].revision
  BY <1>1, AroundTyped DEF Older, Known
<1>3. /\ changed[r] \in Nat /\ cached[w].revision \in Nat /\ call[k].snapshot.revision \in Nat
  BY <1>1, <1>2, Numbers
<1> QED  BY <1>1, <1>2, <1>3 DEF Counts

LEMMA ChooseInv == ASSUME RolloutInv, NEW k \in Calls, Choose(k) PROVE RolloutInv'
<1> DEFINE o == call[k]
           w == WorkerOf[k]
           s == IF Older(o.snapshot, w) THEN Kept(w, o.start) ELSE o.snapshot
<1>1. TypeOK /\ TypeOK' /\ Around' \subseteq Known
  BY CallTypes, CallCopies DEF RolloutInv
<1>2. o \in CallStates /\ SoundCall(o) /\ w \in Workers /\ o.phase = "read" /\ o.start \in Nat
  BY <1>1, Fields, CallIsSound, Numbers DEF Choose
<1>3. CASE Fresh(s, o.start)
  <2> DEFINE c == [o EXCEPT !.phase = "judging", !.snapshot = s]
  <2>1. SetCall(k, c)
    BY <1>3 DEF Choose
  <2>2. /\ c.phase = "judging" /\ c.start = o.start /\ c.request = o.request /\ c.denials = o.denials
        /\ c.clean = o.clean /\ c.snapshot = s
    BY <1>2 DEF CallStates
  <2>3. s \in Known /\ s.there
    BY <1>1, <1>2, <1>3, KeptDrawn, SnapshotForms DEF Drawn, Fresh
  <2>4. ASSUME NEW r \in o.denials, o.clean PROVE Counts(s, r)
    <3>1. r \in Rules
      BY <1>1, <1>2 DEF SoundCall, TypeOK
    <3>2. CASE Counts(o.snapshot, r)
      BY <2>3, <3>1, <3>2, NewerCounts
    <3>3. CASE \A u \in Known : u.revision < changed[r] => u.at + MaxStale < o.start
      <4>1. o.start <= s.at + MaxStale
        BY <1>3 DEF Fresh
      <4>2. s.at \in Nat /\ s.revision \in Nat /\ changed[r] \in Nat
        BY <1>1, <2>3, <3>1, Numbers
      <4>3. ~(s.revision < changed[r])
        BY <1>2, <2>3, <3>3, <4>1, <4>2, Constants
      <4> HIDE DEF s
      <4> QED  BY <2>3, <4>2, <4>3 DEF Counts
    <3> QED  BY <1>2, <2>4, <3>2, <3>3 DEF SoundCall
  <2> HIDE DEF c, s
  <2>5. SoundCall(c)
    BY <1>2, <2>2, <2>4 DEF SoundCall
  <2> QED  BY <1>1, <2>1, <2>5, CallMove
<1>4. CASE ~Fresh(s, o.start)
  <2> DEFINE c == [o EXCEPT !.phase = "loading"]
  <2>1. SetCall(k, c)
    BY <1>4 DEF Choose
  <2>2. c.phase = "loading" /\ c.start = o.start /\ c.request = o.request /\ c.denials = o.denials
    BY <1>2 DEF CallStates
  <2> HIDE DEF c
  <2>3. SoundCall(c)
    BY <1>2, <2>2 DEF SoundCall
  <2> QED  BY <1>1, <2>1, <2>3, CallMove
<1> QED  BY <1>3, <1>4

LEMMA LoadInv == ASSUME RolloutInv, NEW k \in Calls, LoadDurable(k) PROVE RolloutInv'
<1> DEFINE o == call[k]
           c == [o EXCEPT !.phase = "loaded", !.snapshot = Durable]
<1>1. TypeOK /\ TypeOK' /\ Around' \subseteq Known
  BY CallTypes, CallCopies DEF RolloutInv
<1>2. o \in CallStates /\ SoundCall(o)
  BY <1>1, Fields, CallIsSound
<1>3. SetCall(k, c)
  BY DEF LoadDurable
<1>4. /\ c.phase = "loaded" /\ c.start = o.start /\ c.request = o.request /\ c.denials = o.denials
      /\ c.snapshot = Durable
  BY <1>2 DEF CallStates
<1>5. \A r \in o.denials : Counts(Durable, r)
  BY <1>1, <1>2 DEF SoundCall, TypeOK, RolloutInv, ChangesCounted, Counts, Durable
<1> HIDE DEF c
<1>6. SoundCall(c)
  BY <1>2, <1>4, <1>5 DEF SoundCall
<1> QED  BY <1>1, <1>3, <1>6, CallMove

LEMMA TakeInv == ASSUME RolloutInv, NEW k \in Calls, TakeDurable(k) PROVE RolloutInv'
<1> DEFINE o == call[k]
           w == WorkerOf[k]
           s == IF Older(o.snapshot, w) THEN Kept(w, o.start) ELSE o.snapshot
           c == [o EXCEPT !.phase = "judging", !.snapshot = s]
<1>1. TypeOK /\ TypeOK' /\ Around' \subseteq Known
  BY CallTypes, CallCopies DEF RolloutInv
<1>2. o \in CallStates /\ SoundCall(o) /\ o.phase = "loaded"
  BY <1>1, Fields, CallIsSound DEF TakeDurable
<1>3. SetCall(k, c)
  BY DEF TakeDurable
<1>4. /\ c.phase = "judging" /\ c.start = o.start /\ c.request = o.request /\ c.denials = o.denials
      /\ c.snapshot = s
  BY <1>2 DEF CallStates
<1>5. ASSUME NEW r \in o.denials, s.there PROVE Counts(s, r)
  <2>1. r \in Rules /\ Counts(o.snapshot, r)
    BY <1>1, <1>2 DEF SoundCall, TypeOK
  <2> QED  BY <1>5, <2>1, NewerCounts
<1> HIDE DEF c, s
<1>6. SoundCall(c)
  BY <1>2, <1>4, <1>5 DEF SoundCall, Fresh
<1> QED  BY <1>1, <1>3, <1>6, CallMove

LEMMA LoadFailsInv == ASSUME RolloutInv, NEW k \in Calls, LoadFails(k) PROVE RolloutInv'
<1> DEFINE o == call[k]
           c == [o EXCEPT !.phase = "judging", !.clean = FALSE, !.snapshot = Kept(WorkerOf[k], o.start)]
<1>1. TypeOK /\ TypeOK' /\ Around' \subseteq Known
  BY CallTypes, CallCopies DEF RolloutInv
<1>2. o \in CallStates /\ SoundCall(o)
  BY <1>1, Fields, CallIsSound
<1>3. SetCall(k, c)
  BY DEF LoadFails
<1>4. /\ c.phase = "judging" /\ c.start = o.start /\ c.request = o.request /\ c.denials = o.denials
      /\ ~c.clean
  BY <1>2 DEF CallStates
<1> HIDE DEF c
<1>5. SoundCall(c)
  BY <1>2, <1>4 DEF SoundCall
<1> QED  BY <1>1, <1>3, <1>5, CallMove

LEMMA JudgeInv == ASSUME RolloutInv, NEW k \in Calls, Judge(k) PROVE RolloutInv'
<1>1. TypeOK /\ TypeOK' /\ Around' \subseteq Known
  BY CallTypes, CallCopies DEF RolloutInv
<1>2. PICK yes \in BOOLEAN : SetCall(k, [NoCall EXCEPT !.allowed = yes])
  BY DEF Judge
<1>3. SoundCall([NoCall EXCEPT !.allowed = yes])
  BY <1>1, Numbers DEF SoundCall, NoCall
<1> QED  BY <1>1, <1>2, <1>3, CallMove

LEMMA RestartInv == ASSUME RolloutInv, NEW w \in Workers, WorkerRestart(w) PROVE RolloutInv'
<1>1. TypeOK /\ TypeOK' /\ Around' \subseteq Known
  BY WorkerTypes, WorkerCopies DEF RolloutInv
<1>2. UNCHANGED <<now, rules, audit, lastId, txn, command, redis, observed>>
  BY DEF WorkerRestart
<1>3. Dated' /\ DenialsDated' /\ Ordered' /\ ChangesCounted'
  BY <1>1, <1>2, Numbers, RuleStep DEF observed
<1>4. IdsApart' /\ Loaded'
  BY <1>1, <1>2, IdsStep DEF RolloutInv, Loaded
<1>5. ToldDenies' /\ RedisLasts'
  BY <1>1, <1>2, Numbers, ToldStep DEF observed, RedisStep
<1>6. ASSUME NEW k \in Calls PROVE CallSound(k)'
  <2>1. CASE call'[k] = call[k]
    <3>1. call[k].denials \subseteq told
      BY DEF RolloutInv, CallSound
    <3> QED  BY <1>1, <1>2, <2>1, <3>1, Numbers, SameCall DEF observed
  <2>2. CASE call'[k] = NoCall
    <3>1. NoCall.denials = {} /\ NoCall.start = 0 /\ 0 <= now'
      BY <1>1, <1>2, Numbers DEF NoCall
    <3> QED  BY <2>2, <3>1 DEF CallSound
  <2> QED  BY <2>1, <2>2 DEF WorkerRestart
<1> QED  BY <1>1, <1>3, <1>4, <1>5, <1>6 DEF RolloutInv

---------------------------------------------------------------------------
(* A commit, in order or not.                                              *)

LEMMA CommitInv == ASSUME RolloutInv, NEW x \in Writers, Commit(x) PROVE RolloutInv'
<1> DEFINE r0 == txn[x].rule
           id == txn[x].id
<1>1. TypeOK /\ TypeOK' /\ Around' \subseteq Known
  BY CommitTypes, CommitCopies DEF RolloutInv
<1>2. txn[x].phase = "written" /\ UNCHANGED <<now, lastId, redis, cached, refresh>>
  BY DEF Commit
<1>3. /\ r0 \in Rules /\ id \in Nat /\ audit \in Nat /\ audit' \in {audit, id}
      /\ audit <= audit' /\ id <= audit'
  <2>1. r0 \in Rules /\ id \in Nat /\ audit \in Nat
    BY <1>1, Fields, Constants
  <2>2. audit' = Max({audit, id})
    BY DEF Commit
  <2> QED  BY <2>1, <2>2, LargestId
<1>4. /\ rules' = [rules EXCEPT ![r0] = txn[x].row]
      /\ changed' = [changed EXCEPT ![r0] = id] /\ told' = told \ {r0}
  BY DEF Commit
<1>5. \A r \in Rules \ {r0} : rules'[r] = rules[r] /\ changed'[r] = changed[r]
  BY <1>1, <1>4 DEF TypeOK, AllRules
<1>6. changed'[r0] = id
  BY <1>1, <1>3, <1>4 DEF TypeOK
<1>7. id # audit /\ \A s \in Known : s.revision # id /\ s.revision <= audit /\ s.revision \in Nat
  BY <1>1, <1>2, KnownSound, Numbers
<1>8. Dated'
  <2>1. \A q \in Requests : deniedAt'[q] \in {Never, deniedAt[q], now}
    BY DEF Commit
  <2>2. ASSUME NEW s \in Known, NEW q \in Requests, Granted(s.rules, q) PROVE s.at <= deniedAt'[q]
    <3>1. s.at <= now /\ s.at <= deniedAt[q]
      BY <2>2, KnownSound
    <3>2. now <= Never /\ s.at \in Nat /\ now \in Nat /\ Never \in Nat
      <4>1. now \in 0 .. MaxNow /\ s.at \in Nat
        BY <1>1, Numbers DEF TypeOK
      <4> QED  BY <4>1, Constants DEF Never
    <3>3. s.at <= Never
      BY <3>1, <3>2
    <3> QED  BY <2>1, <3>1, <3>3
  <2>3. \A s \in Known : s.revision <= audit'
    BY <1>3, <1>7
  <2> QED  BY <1>1, <1>2, <2>2, <2>3, KnownSound DEF Dated, Granted
<1>9. DenialsDated'
  <2>1. \A q \in Requests : (\A r \in Covers[q] : rules'[r] # "deny") => deniedAt'[q] = Never
    BY DEF Commit
  <2> QED  BY <2>1 DEF DenialsDated, Never
<1>10. IdsApart'
  <2> SUFFICES ASSUME NEW y \in Writers, txn'[y].phase = "written"
               PROVE  /\ txn'[y].id <= lastId' /\ txn'[y].id # audit'
                      /\ \A s \in Around' : s.revision # txn'[y].id
                      /\ \A z \in Writers \ {y} : txn'[z].phase = "written" => txn'[z].id # txn'[y].id
    BY DEF IdsApart
  <2>1. txn' = [txn EXCEPT ![x] = NoTxn]
    BY DEF Commit
  <2>2. \A z \in Writers : txn'[z].phase = "written" => z # x /\ txn'[z] = txn[z]
    BY <1>1, <2>1, BlankForms DEF TypeOK
  <2>3. y # x /\ txn[y].phase = "written" /\ txn'[y].id = txn[y].id
    BY <2>2
  <2>4. /\ txn[y].id <= lastId /\ txn[y].id # id /\ txn[y].id # audit
        /\ \A z \in Writers \ {y} : txn[z].phase = "written" => txn[z].id # txn[y].id
    BY <1>2, <2>3 DEF RolloutInv, IdsApart
  <2>5. \A s \in Known : s.revision # txn[y].id
    BY <2>3, KnownSound
  <2> QED  BY <1>1, <1>2, <1>3, <2>2, <2>3, <2>4, <2>5
<1>11. Ordered' /\ Loaded'
  BY <1>1, KnownSound, LoadedNext DEF Ordered, RolloutInv, Next
<1>12. RedisLasts'
  BY <1>2 DEF RolloutInv, RedisLasts
<1>13. ChangesCounted'
  <2> SUFFICES ASSUME NEW r \in Rules
               PROVE  /\ changed'[r] <= audit'
                      /\ \/ \A s \in Known : changed'[r] <= s.revision => s.rules[r] = rules'[r]
                         \/ changed'[r] # audit' /\ \A s \in Known : s.revision # changed'[r]
    BY <1>1 DEF ChangesCounted, InOrder
  <2>1. CASE r = r0
    <3>1. CASE audit < id
      <4>1. \A s \in Known : ~(id <= s.revision)
        BY <1>3, <1>7, <3>1
      <4> QED  BY <1>3, <1>6, <2>1, <4>1
    <3>2. CASE ~(audit < id)
      <4>1. audit' = audit
        BY <1>3, <3>2
      <4> QED  BY <1>3, <1>6, <1>7, <2>1, <4>1
    <3> QED  BY <3>1, <3>2
  <2>2. CASE r # r0
    <3>1. changed'[r] = changed[r] /\ rules'[r] = rules[r]
      BY <1>5, <2>2
    <3>2. changed[r] <= audit /\ changed[r] \in Nat
      BY <1>1, Numbers DEF RolloutInv, ChangesCounted
    <3>3. \/ \A s \in Known : changed[r] <= s.revision => s.rules[r] = rules[r]
          \/ changed[r] # audit /\ \A s \in Known : s.revision # changed[r]
      BY KnownSound
    <3>4. changed[r] # audit => changed[r] # audit'
      BY <1>3, <3>2
    <3>5. changed[r] <= audit'
      BY <1>3, <3>2
    <3> QED  BY <3>1, <3>3, <3>4, <3>5
  <2> QED  BY <2>1, <2>2
<1>14. ToldDenies'
  <2> SUFFICES ASSUME NEW r \in told'
               PROVE  /\ rules'[r] = "deny"
                      /\ \A s \in Known : changed'[r] <= s.revision => s.rules[r] = "deny"
                      /\ \A s \in Known : s.revision < changed'[r] =>
                           \/ s.at + MaxStale < now
                           \/ /\ redis.snapshot.there /\ changed'[r] <= redis.snapshot.revision
                              /\ s.at + MaxStale <= redis.until
    BY <1>1, <1>2 DEF ToldDenies, Outlived
  <2>1. r \in told /\ r \in Rules \ {r0}
    BY <1>1, <1>4 DEF TypeOK
  <2>2. rules[r] = "deny"
    BY <2>1 DEF RolloutInv, ToldDenies
  <2> QED  BY <1>5, <2>1, <2>2, KnownSound
<1>15. ASSUME NEW k \in Calls PROVE CallSound(k)'
  <2>1. call[k] \in CallStates
    BY <1>1, Fields
  <2>2. call'[k] = [call[k] EXCEPT !.denials = @ \ {r0}]
    BY DEF Commit
  <2>3. /\ call'[k].phase = call[k].phase /\ call'[k].clean = call[k].clean
        /\ call'[k].start = call[k].start /\ call'[k].request = call[k].request
        /\ call'[k].snapshot = call[k].snapshot /\ call'[k].denials = call[k].denials \ {r0}
    BY <2>1, <2>2 DEF CallStates
  <2>4. call[k].denials \subseteq told /\ told \subseteq Rules
    BY <1>1 DEF RolloutInv, CallSound, TypeOK
  <2>5. now <= now'
    BY <1>1, <1>2, Numbers
  <2> QED  BY <1>1, <1>4, <1>5, <2>3, <2>4, <2>5, SameCall
<1> QED  BY <1>1, <1>8, <1>9, <1>10, <1>11, <1>12, <1>13, <1>14, <1>15 DEF RolloutInv

---------------------------------------------------------------------------
(* The theorems.                                                           *)

LEMMA Stutter == RolloutInv /\ UNCHANGED vars => RolloutInv'
<1> SUFFICES ASSUME RolloutInv, UNCHANGED vars PROVE RolloutInv'
  OBVIOUS
<1>1. UNCHANGED <<now, rules, audit, lastId, txn, command, redis, cached, refresh, call, deniedAt, changed, told>>
  BY DEF vars, observed
<1>2. TypeOK /\ TypeOK'
  BY <1>1 DEF RolloutInv, TypeOK
<1>3. Around' \subseteq Known
  BY <1>1, <1>2, SameCopies
<1>4. IdsApart' /\ Loaded'
  BY <1>1, <1>2, <1>3, IdsStep DEF RolloutInv, Loaded
<1> QED  BY <1>1, <1>2, <1>3, <1>4, Numbers, QuietStep DEF RedisStep, observed

LEMMA InvNext == RolloutInv /\ [Next]_vars => RolloutInv'
<1> SUFFICES ASSUME RolloutInv, [Next]_vars PROVE RolloutInv'
  OBVIOUS
<1>1. ASSUME NEW c \in Commands, \/ BeginSafety(c) \/ SafetyLoad(c) \/ SafetyPut(c) \/ SafetyFinish(c)
                                 \/ SafetyFails(c) \/ SafetyReplay(c)
      PROVE  RolloutInv'
  BY <1>1, WriterInv, ServiceInv, FinishInv
<1>2. ASSUME NEW x \in Writers, Commit(x) \/ Rollback(x) PROVE RolloutInv'
  BY <1>2, CommitInv, WriterInv
<1>3. ASSUME NEW w \in Workers, RefreshLoad(w) \/ RefreshPut(w) \/ WorkerRestart(w) PROVE RolloutInv'
  BY <1>3, RefreshInv, RestartInv
<1>4. ASSUME NEW k \in Calls, \/ Start(k) \/ ReadRedis(k) \/ Choose(k) \/ LoadDurable(k)
                              \/ TakeDurable(k) \/ LoadFails(k) \/ Judge(k)
      PROVE  RolloutInv'
  BY <1>4, StartInv, ReadInv, ChooseInv, LoadInv, TakeInv, LoadFailsInv, JudgeInv
<1> QED  BY <1>1, <1>2, <1>3, <1>4, WriteInv, WriterInv, TickInv, Stutter DEF Next

\* The invariant: what every snapshot around can grant, what the snapshots
\* that count a told denial show, and how long the others can be taken.
THEOREM RolloutInvariant == Spec => []RolloutInv
BY InvInit, InvNext, PTL DEF Spec

\* Only a judgement lets a call through, by a fresh snapshot that grants it.
LEMMA AllowedByGrant ==
  ASSUME RolloutInv, [Next]_vars, NEW k \in Calls, Allows(k)
  PROVE  /\ call[k].snapshot \in Known /\ Fresh(call[k].snapshot, call[k].start)
         /\ Granted(call[k].snapshot.rules, call[k].request)
<1>1. TypeOK /\ call'[k] # call[k]
  BY DEF Allows, RolloutInv
<1>2. Judge(k)
  <2>1. ASSUME NEW j \in Calls, \/ Start(j) \/ ReadRedis(j) \/ Choose(j) \/ LoadDurable(j)
                                \/ TakeDurable(j) \/ LoadFails(j)
        PROVE  FALSE
    <3>1. j = k
      BY <1>1, <2>1 DEF Start, ReadRedis, Choose, LoadDurable, TakeDurable, LoadFails, SetCall, TypeOK
    <3> QED  BY <2>1, <3>1 DEF Start, ReadRedis, Choose, LoadDurable, TakeDurable, LoadFails, Allows
  <2>2. ASSUME NEW j \in Calls, Judge(j) PROVE j = k
    BY <1>1, <2>2 DEF Judge, SetCall, TypeOK
  <2>3. ASSUME NEW w \in Workers, WorkerRestart(w) PROVE FALSE
    BY <1>1, <2>3 DEF WorkerRestart, Allows, NoCall
  <2>4. ASSUME NEW x \in Writers, Commit(x) PROVE FALSE
    <3>1. call'[k].phase = call[k].phase
      BY <1>1, <2>4, Fields DEF Commit, CallStates
    <3> QED  BY <3>1 DEF Allows
  <2>5. ASSUME NEW c \in Commands, \/ BeginSafety(c) \/ SafetyLoad(c) \/ SafetyPut(c) \/ SafetyFinish(c)
                                   \/ SafetyFails(c) \/ SafetyReplay(c)
        PROVE  FALSE
    BY <1>1, <2>5 DEF BeginSafety, SafetyLoad, SafetyPut, SafetyFinish, SafetyFails, SafetyReplay, SetCommand
  <2>6. ASSUME NEW x \in Writers, Rollback(x) PROVE FALSE
    BY <1>1, <2>6 DEF Rollback
  <2>7. ASSUME NEW w \in Workers, RefreshLoad(w) \/ RefreshPut(w) PROVE FALSE
    BY <1>1, <2>7 DEF RefreshLoad, RefreshPut
  <2>8. ~(WriteOperatorChange \/ WriteStagedAllocation \/ WriteSafety \/ SafetyRefused \/ Tick \/ UNCHANGED vars)
    BY <1>1 DEF WriteOperatorChange, WriteStagedAllocation, WriteSafety, SafetyRefused, Written, Tick, vars
  <2> QED  BY <2>1, <2>2, <2>3, <2>4, <2>5, <2>6, <2>7, <2>8 DEF Next
<1>3. PICK yes \in BOOLEAN :
        /\ yes => /\ Fresh(call[k].snapshot, call[k].start)
                  /\ Granted(call[k].snapshot.rules, call[k].request)
        /\ SetCall(k, [NoCall EXCEPT !.allowed = yes])
  BY <1>2 DEF Judge
<1>4. call'[k].allowed = yes
  BY <1>1, <1>3, SetCallValue DEF NoCall
<1>5. yes
  BY <1>4 DEF Allows
<1> QED  BY <1>1, <1>3, <1>5, AroundTyped DEF Fresh, Known

\* No call that starts later than the stale bound after its denial is
\* allowed while the denial is in force.
LEMMA BoundStep ==
  ASSUME RolloutInv, [Next]_vars, NEW k \in Calls, Allows(k)
  PROVE  call[k].start <= deniedAt[call[k].request] + MaxStale
<1> DEFINE s == call[k].snapshot
           q == call[k].request
<1>1. TypeOK /\ q \in Requests /\ deniedAt[q] \in Nat /\ call[k].start \in Nat
  <2>1. deniedAt \in [Requests -> 0 .. Never] /\ TypeOK
    BY DEF RolloutInv, TypeOK
  <2> QED  BY <2>1, Fields, Numbers, Constants
<1>2. s \in Known /\ s.at <= deniedAt[q] /\ call[k].start <= s.at + MaxStale
  BY <1>1, AllowedByGrant, KnownSound DEF Fresh
<1> QED  BY <1>1, <1>2, Numbers, Constants

\* A clean decision under a told denial has a snapshot that counts it.
LEMMA ToldStepDenied ==
  ASSUME RolloutInv, [Next]_vars, NEW k \in Calls, Allows(k), call[k].denials # {}, call[k].clean
  PROVE  FALSE
<1> DEFINE s == call[k].snapshot
<1>1. PICK r \in call[k].denials : TRUE
  OBVIOUS
<1>2. s \in Known /\ Fresh(s, call[k].start) /\ Granted(s.rules, call[k].request)
  BY AllowedByGrant
<1>3. r \in told /\ r \in Covers[call[k].request] /\ Counts(s, r)
  BY <1>1, <1>2 DEF RolloutInv, CallSound, Allows
<1>4. s.rules[r] = "deny"
  BY <1>2, <1>3, KnownSound DEF Counts
<1> QED  BY <1>2, <1>3, <1>4 DEF Granted

\* A denial takes effect by both its promises, for any number of workers,
\* commands, rules and decisions.
THEOREM DenialTakesEffect == Spec => DenialIsEffective
<1>1. RolloutInv /\ [Next]_vars =>
        [\A k \in Calls : Allows(k) => call[k].start <= deniedAt[call[k].request] + MaxStale]_vars
  BY BoundStep
<1>2. RolloutInv /\ [Next]_vars =>
        [\A k \in Calls : ~(Allows(k) /\ call[k].denials # {} /\ call[k].clean)]_vars
  BY ToldStepDenied
<1>3. Spec => DenialBindsInTime
  BY <1>1, RolloutInvariant, PTL DEF Spec, DenialBindsInTime
<1>4. Spec => PropagatedMeansDenied
  BY <1>2, RolloutInvariant, PTL DEF Spec, PropagatedMeansDenied
<1> QED  BY <1>3, <1>4 DEF DenialIsEffective

\* A worker goes on only to the same or a later revision than it keeps.
LEMMA KeptStep ==
  ASSUME TypeOK, [Next]_vars, NEW w \in Workers, cached'[w].there
  PROVE  cached'[w].revision >= cached[w].revision
<1>1. cached[w] \in MaybeSnapshot /\ cached[w].revision \in Nat
  BY Fields, SnapshotForms, Constants
<1>2. CASE cached'[w] = cached[w]
  BY <1>1, <1>2
<1>3. ASSUME cached'[w] # cached[w] PROVE cached'[w].revision >= cached[w].revision
  <2>1. PICK k \in Calls : (Choose(k) \/ TakeDurable(k)) /\ WorkerOf[k] = w
    <3>1. ASSUME NEW v \in Workers, WorkerRestart(v) PROVE FALSE
      BY <1>3, <3>1, SnapshotForms DEF WorkerRestart, TypeOK
    <3>2. ASSUME NEW k \in Calls, Start(k) \/ ReadRedis(k) \/ LoadDurable(k) \/ LoadFails(k) \/ Judge(k)
          PROVE  FALSE
      BY <1>3, <3>2 DEF Start, ReadRedis, LoadDurable, LoadFails, Judge
    <3>3. ASSUME NEW k \in Calls, Choose(k) \/ TakeDurable(k) PROVE WorkerOf[k] = w
      BY <1>3, <3>3 DEF Choose, TakeDurable, TypeOK
    <3>4. ASSUME NEW c \in Commands, \/ BeginSafety(c) \/ SafetyLoad(c) \/ SafetyPut(c) \/ SafetyFinish(c)
                                     \/ SafetyFails(c) \/ SafetyReplay(c)
          PROVE  FALSE
      BY <1>3, <3>4 DEF BeginSafety, SafetyLoad, SafetyPut, SafetyFinish, SafetyFails, SafetyReplay, SetCommand
    <3>5. ASSUME NEW x \in Writers, Commit(x) \/ Rollback(x) PROVE FALSE
      BY <1>3, <3>5 DEF Commit, Rollback
    <3>6. ASSUME NEW v \in Workers, RefreshLoad(v) \/ RefreshPut(v) PROVE FALSE
      BY <1>3, <3>6 DEF RefreshLoad, RefreshPut
    <3>7. ~(WriteOperatorChange \/ WriteStagedAllocation \/ WriteSafety \/ SafetyRefused \/ Tick \/ UNCHANGED vars)
      BY <1>3 DEF WriteOperatorChange, WriteStagedAllocation, WriteSafety, SafetyRefused, Written, Tick, vars
    <3> QED  BY <3>1, <3>2, <3>3, <3>4, <3>5, <3>6, <3>7 DEF Next
  <2> DEFINE o == call[k].snapshot
  <2>2. /\ o \in MaybeSnapshot /\ o.revision \in Nat
    BY Fields, SnapshotForms, Constants
  <2>3. /\ cached'[w] = (IF Older(o, w) THEN Kept(w, call[k].start) ELSE o)
    BY <1>3, <2>1 DEF Choose, TakeDurable, TypeOK
  <2>4. CASE Older(o, w)
    BY <1>3, <2>3, <2>4, KeptTyped
  <2>5. CASE ~Older(o, w)
    <3>1. cached'[w] = o /\ o.there
      BY <2>3, <2>5
    <3>2. ~cached[w].there \/ ~(o.revision < cached[w].revision)
      BY <2>5, <3>1 DEF Older
    <3>3. ~cached[w].there => cached[w].revision = 0
      BY <1>1, SnapshotForms
    <3> QED  BY <1>1, <2>2, <3>1, <3>2, <3>3
  <2> QED  BY <2>4, <2>5
<1> QED  BY <1>2, <1>3

\* A worker never goes back to an older revision of the rules.
THEOREM WorkersGoForward == Spec => KeptNeverRegresses
<1>1. TypeOK /\ [Next]_vars =>
        [\A w \in Workers : cached'[w].there => cached'[w].revision >= cached[w].revision]_vars
  BY KeptStep
<1>2. RolloutInv => TypeOK
  BY DEF RolloutInv
<1> QED  BY <1>1, <1>2, RolloutInvariant, PTL DEF Spec, KeptNeverRegresses

=============================================================================
