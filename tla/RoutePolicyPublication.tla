------------------------ MODULE RoutePolicyPublication ------------------------
(***************************************************************************)
(* Route policies (ADR-0010, section 5): drafts and published revisions of *)
(* one region's platforms in PostgreSQL, the projection of all of them to  *)
(* one Redis snapshot, the receipts of the commands, and the workers that  *)
(* take their provider order from it.                                      *)
(*                                                                         *)
(* The content of a revision is known by the draft it was first saved as.  *)
(* A snapshot is read by two queries on two connections, in either order.  *)
(* There is no clock: a snapshot may be found stale whenever it is looked  *)
(* at, which allows every age the code could meet.                         *)
(***************************************************************************)
EXTENDS Naturals, Sequences, FiniteSets

CONSTANTS
  Platforms,
  Publications,     \* publish and rollback commands, each with an idempotency key
  KindOf, PlatformOf,  \* and what each of them does
  Established,      \* platforms that start with a published policy
  Servers,          \* workers that look up the order of a platform
  PolicyBound       \* bound on the revisions of each platform, the last left to a publication


\* What the properties need of the constants: a command publishes or rolls
\* back one platform, and is not the editor that saves drafts.
PolicyWorkload ==
  /\ IsFiniteSet(Publications) /\ "editor" \notin Publications
  /\ KindOf \in [Publications -> {"published", "rollback"}]
  /\ PlatformOf \in [Publications -> Platforms]
  /\ PolicyBound \in [Platforms -> Nat]

VARIABLES
  head,        \* admin_route_policy_heads: newest, draft and published revision
  history,     \* admin_route_policy_revisions of each platform, in order
  sequence,    \* admin_route_policy_projection_revision_seq
  durable,     \* durable_revision of the projection head
  publication, \* what each command and its service are doing
  projected,   \* the snapshot in Redis
  lookup       \* what each worker keeps, and the lookup it is making

policyVars == <<head, history, sequence, durable, publication, projected, lookup>>

EntryKinds == {"draft", "published", "rollback"}
Heads == [newest : Nat, draft : Nat, published : Nat]
Entries == [kind : EntryKinds, content : Nat \ {0}, by : Publications \cup {"editor"}]
Orders == [Platforms -> Nat]   \* the published revision of each platform
Sequenced == 0 .. Cardinality(Publications)
Snaps == [revision : Sequenced, policies : Orders, parts : SUBSET {"revision", "policies"}]
Blank == [revision |-> 0, policies |-> [p \in Platforms |-> 0], parts |-> {}]
Whole(s) == s.parts = {"revision", "policies"}
Phases == {"new", "locked", "numbered", "accepted", "loaded", "put", "done"}
Publishing == [phase : Phases, source : Nat, projection : Sequenced, snap : Snaps,
               receipt : {"none", "propagating", "propagated", "propagation_failed"}]

PolicyTypeOK ==
  /\ head \in [Platforms -> Heads]
  /\ history \in [Platforms -> Seq(Entries)] /\ sequence \in Sequenced /\ durable \in Sequenced
  /\ publication \in [Publications -> Publishing]
  /\ projected \in Snaps
  /\ lookup \in [Servers -> [kept : Snaps, phase : {"idle", "read", "loading"}, snap : Snaps]]
  /\ \A p \in Platforms : head[p].newest = Len(history[p])

PolicyInit ==
  /\ sequence = 0 /\ durable = 0
  /\ head = [p \in Platforms |-> IF p \in Established THEN [newest |-> 2, draft |-> 0, published |-> 2]
                                  ELSE [newest |-> 0, draft |-> 0, published |-> 0]]
  /\ history = [p \in Platforms |-> IF p \in Established
       THEN <<[kind |-> "draft", content |-> 1, by |-> "editor"],
              [kind |-> "published", content |-> 1, by |-> "editor"]>> ELSE <<>>]
  /\ publication = [c \in Publications |->
       [phase |-> "new", source |-> 0, projection |-> 0, snap |-> Blank, receipt |-> "none"]]
  /\ projected = Blank
  /\ lookup = [w \in Servers |-> [kept |-> Blank, phase |-> "idle", snap |-> Blank]]

---------------------------------------------------------------------------
\* The head row of a platform is locked until its command commits.
HeadFree(p) ==
  \A c \in Publications : publication[c].phase \in {"locked", "numbered"} => PlatformOf[c] # p

Append1(p, kind, content, by) ==
  history' = [history EXCEPT ![p] =
                Append(history[p], [kind |-> kind, content |-> content, by |-> by])]

\* A draft becomes the newest revision and the head's draft.
SavePolicyDraft(p) ==
  LET next == head[p].newest + 1
  IN /\ HeadFree(p) /\ next < PolicyBound[p]
     /\ Append1(p, "draft", next, "editor")
     /\ head' = [head EXCEPT ![p] = [head[p] EXCEPT !.newest = next, !.draft = next]]
     /\ UNCHANGED <<sequence, durable, publication, projected, lookup>>

\* A draft is dropped; its revision stays in the history.
DiscardPolicy(p) ==
  /\ HeadFree(p) /\ head[p].draft # 0
  /\ head' = [head EXCEPT ![p] = [head[p] EXCEPT !.draft = 0]]
  /\ UNCHANGED <<history, sequence, durable, publication, projected, lookup>>

SetPublication(c, s) == publication' = [publication EXCEPT ![c] = s]

\* What the command may copy: the current draft, or an earlier publication.
Promotable(p, kind, r) ==
  IF kind = "published" THEN r = head[p].draft ELSE history[p][r].kind # "draft"

\* The head is at the revision the command expects, and stays locked.
Lock(c) ==
  LET s == publication[c]
      p == PlatformOf[c]
  IN /\ s.phase = "new" /\ HeadFree(p)
     /\ \E r \in 1 .. head[p].newest :
          Promotable(p, KindOf[c], r) /\ SetPublication(c, [s EXCEPT !.phase = "locked", !.source = r])
     /\ UNCHANGED <<head, history, sequence, durable, projected, lookup>>

Number(c) ==
  /\ publication[c].phase = "locked" /\ head[PlatformOf[c]].newest < PolicyBound[PlatformOf[c]]
  /\ sequence' = sequence + 1
  /\ SetPublication(c, [publication[c] EXCEPT !.phase = "numbered", !.projection = sequence + 1])
  /\ UNCHANGED <<head, history, durable, projected, lookup>>

\* The copy, the head, the projection head and the receipt, in one commit.
PromotePolicy(c) ==
  LET s == publication[c]
      p == PlatformOf[c]
      next == head[p].newest + 1
  IN /\ s.phase = "numbered"
     /\ Append1(p, KindOf[c], history[p][s.source].content, c)
     /\ head' = [head EXCEPT ![p] = [newest |-> next, draft |-> 0, published |-> next]]
     /\ durable' = s.projection
     /\ SetPublication(c, [s EXCEPT !.phase = "accepted", !.receipt = "propagating"])
     /\ UNCHANGED <<sequence, projected, lookup>>

\* The transaction is rolled back; its number is not given out again.
Abandon(c) ==
  /\ publication[c].phase = "locked"
  /\ SetPublication(c, [publication[c] EXCEPT !.phase = "new", !.source = 0])
  /\ UNCHANGED <<head, history, sequence, durable, projected, lookup>>

---------------------------------------------------------------------------
\* The two queries of loadRuntimeSnapshot, each at its own time.
QueryPart(s, part) ==
  IF part = "revision"
    THEN [s EXCEPT !.revision = durable, !.parts = s.parts \cup {part}]
    ELSE [s EXCEPT !.policies = [p \in Platforms |-> head[p].published], !.parts = s.parts \cup {part}]

Compile(c) ==
  /\ publication[c].phase = "accepted"
  /\ \E part \in {"revision", "policies"} \ publication[c].snap.parts :
       LET s == QueryPart(publication[c].snap, part)
       IN SetPublication(c, [publication[c] EXCEPT !.snap = s,
                             !.phase = IF Whole(s) THEN "loaded" ELSE "accepted"])
  /\ UNCHANGED <<head, history, sequence, durable, projected, lookup>>

Project(c) ==
  LET s == publication[c].snap
  IN /\ publication[c].phase = "loaded"
     /\ Whole(projected) => projected.revision <= s.revision
     /\ projected' = s
     /\ SetPublication(c, [publication[c] EXCEPT !.phase = "put", !.snap = Blank])
     /\ UNCHANGED <<head, history, sequence, durable, lookup>>

\* Redis is read back: propagated if it has the revision of the command.
FinishPropagation(c) ==
  /\ publication[c].phase = "put"
  /\ SetPublication(c, [publication[c] EXCEPT !.phase = "done",
       !.receipt = IF Whole(projected) /\ projected.revision = publication[c].projection
                     THEN "propagated" ELSE "propagation_failed"])
  /\ UNCHANGED <<head, history, sequence, durable, projected, lookup>>

\* A refused or failed put, or a failed read.
PropagationFails(c) ==
  /\ publication[c].phase \in {"accepted", "loaded", "put"}
  /\ SetPublication(c, [publication[c] EXCEPT !.phase = "done", !.snap = Blank,
                                               !.receipt = "propagation_failed"])
  /\ UNCHANGED <<head, history, sequence, durable, projected, lookup>>

\* A fault: the command sent again is taken for a new one.
ResendAsNew(c) ==
  /\ publication[c].phase \in {"accepted", "loaded", "put"}
  /\ SetPublication(c, [publication[c] EXCEPT !.phase = "new", !.snap = Blank, !.receipt = "none"])
  /\ UNCHANGED <<head, history, sequence, durable, projected, lookup>>

\* The service dies and the command is sent again: its receipt is found, and
\* the projection to wait for is the current one.
Resend(c) ==
  /\ publication[c].phase \in {"accepted", "loaded", "put"}
  /\ SetPublication(c, [publication[c] EXCEPT !.phase = "accepted", !.snap = Blank, !.projection = durable])
  /\ UNCHANGED <<head, history, sequence, durable, projected, lookup>>

---------------------------------------------------------------------------
\* A worker's lookup (RuntimeRoutePolicySource.get).
SetLookup(w, l) ==
  /\ lookup' = [lookup EXCEPT ![w] = l]
  /\ UNCHANGED <<head, history, sequence, durable, publication, projected>>

ReadProjection(w) ==
  /\ lookup[w].phase = "idle"
  /\ \E s \in {projected, Blank} : SetLookup(w, [lookup[w] EXCEPT !.phase = "read", !.snap = s])

\* A fault: the snapshot of Redis is used whatever its revision.
UsableUnordered(w) == Whole(lookup[w].snap)

\* Not older than the one the worker keeps.
Usable(w) ==
  LET l == lookup[w]
  IN Whole(l.snap) /\ (Whole(l.kept) => l.kept.revision <= l.snap.revision)

UseProjection(w) ==
  /\ lookup[w].phase = "read" /\ Usable(w)
  /\ SetLookup(w, [kept |-> lookup[w].snap, phase |-> "idle", snap |-> Blank])

\* Unusable or stale.
TurnToDatabase(w) ==
  /\ lookup[w].phase = "read"
  /\ SetLookup(w, [lookup[w] EXCEPT !.phase = "loading", !.snap = Blank])

QueryDatabase(w) ==
  /\ lookup[w].phase = "loading"
  /\ \E part \in {"revision", "policies"} \ lookup[w].snap.parts :
       SetLookup(w, [lookup[w] EXCEPT !.snap = QueryPart(lookup[w].snap, part)])

\* The loaded snapshot, unless the kept one is newer or the load failed; what
\* is stale is not used and the order of the manifests is.
UseDatabase(w) ==
  LET l == lookup[w]
      newer == Whole(l.kept) /\ l.snap.revision < l.kept.revision
  IN /\ l.phase = "loading"
     /\ \E s \in {l.kept} \cup (IF Whole(l.snap) /\ ~newer THEN {l.snap} ELSE {}) :
          SetLookup(w, [kept |-> s, phase |-> "idle", snap |-> Blank])

ServerRestart(w) ==
  /\ Whole(lookup[w].kept)
  /\ SetLookup(w, [kept |-> Blank, phase |-> "idle", snap |-> Blank])

ExpireProjection ==
  /\ projected # Blank /\ projected' = Blank
  /\ UNCHANGED <<head, history, sequence, durable, publication, lookup>>

PolicyNext ==
  \/ \E p \in Platforms : SavePolicyDraft(p) \/ DiscardPolicy(p)
  \/ \E c \in Publications : \/ Lock(c) \/ Number(c) \/ PromotePolicy(c) \/ Abandon(c) \/ Compile(c)
                             \/ Project(c) \/ FinishPropagation(c) \/ PropagationFails(c) \/ Resend(c)
  \/ \E w \in Servers : \/ ReadProjection(w) \/ UseProjection(w) \/ TurnToDatabase(w) \/ QueryDatabase(w)
                        \/ UseDatabase(w) \/ ServerRestart(w)
  \/ ExpireProjection

PolicySpec == PolicyInit /\ [][PolicyNext]_policyVars

---------------------------------------------------------------------------
(* Properties.                                                             *)

\* A publication is the draft its administrator saw: nothing was saved,
\* published or rolled back between that draft and its copy; and a command
\* sent again after a crash adds no second revision.
PublishesWhatWasSeen ==
  \A p \in Platforms : \A n \in 1 .. Len(history[p]) :
    LET e == history[p][n]
    IN /\ e.kind = "published" => n > 1 /\ history[p][n - 1].kind = "draft"
                                  /\ e.content = history[p][n - 1].content
       /\ e.kind = "rollback" => \E o \in 1 .. n - 1 : history[p][o].kind # "draft"
                                                       /\ history[p][o].content = e.content
       /\ e.by # "editor" => \A o \in 1 .. n - 1 : history[p][o].by # e.by

\* A worker never goes back to an older projection than one it used.
NewerUsed ==
  \A w \in Servers : Whole(lookup'[w].kept) => lookup'[w].kept.revision >= lookup[w].kept.revision
UsedNeverRegresses == [][NewerUsed]_policyVars

===============================================================================
