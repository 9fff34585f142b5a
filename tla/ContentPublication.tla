-------------------------- MODULE ContentPublication --------------------------
(***************************************************************************)
(* Publication of the site's content (ADR-0010, section 6): the drafts of  *)
(* the pages, the snapshots of one deployment, the pointer to the active   *)
(* one, the commands of administrators with their receipts, and the web's  *)
(* acknowledgement of a snapshot.                                          *)
(*                                                                         *)
(* One locale; the heads of locales and of shared content go through the   *)
(* same steps as those of pages.  The content of a page is its revision.   *)
(* A snapshot's id is derived from its number and its content, so the two  *)
(* together stand for the id.                                              *)
(***************************************************************************)
EXTENDS Naturals, Sequences, FiniteSets

CONSTANTS
  Pages, Home, Required,  \* page definitions, the homepage, those a publication needs
  ContentCommands,        \* commands of administrators, each with an idempotency key
  AttemptLimit,           \* of the CHECK on revalidation_attempts; 10 in the schema
  PageBound, SnapshotBound  \* bounds on the search, the first for each page

VARIABLES
  page,       \* admin_page_heads and admin_page_revisions
  snapshots,  \* admin_published_snapshots, by revision
  active,     \* the snapshot the deployment's head points to; 0 for none
  order       \* what each command and its service are doing

contentVars == <<page, snapshots, active, order>>

OrderKinds == {"publish", "rollback", "rebuild", "retry", "invalidate"}

\* What the properties need of the constants.
ContentWorkload ==
  /\ Home \in Pages /\ SnapshotBound \in Nat /\ AttemptLimit \in Nat
  /\ PageBound \in [Pages -> Nat]

Contents == [Pages -> Nat]   \* the revision of each page; 0 for none
Snapshot == [pages : Contents, paths : SUBSET Pages, previous : 0 .. SnapshotBound,
             state : {"propagating", "propagated", "propagation_failed"},
             attempts : 0 .. AttemptLimit, by : ContentCommands]
Idle == [phase |-> "new", kind |-> "publish", revision |-> 0, pages |-> [p \in Pages |-> 0],
         paths |-> {}, previous |-> 0, ok |-> FALSE, receipt |-> "none"]

PageRow == [draft : Nat, published : Nat, states : Seq({"draft", "ready", "published"})]
Order == [phase : {"new", "viewed", "built", "committed", "accepted", "answered", "marked", "done"},
          kind : OrderKinds, revision : 0 .. SnapshotBound + 1, pages : Contents,
          paths : SUBSET Pages, previous : 0 .. SnapshotBound, ok : BOOLEAN,
          receipt : {"none", "propagating", "propagated", "propagation_failed"}]

ContentTypeOK ==
  /\ page \in [Pages -> PageRow]
  /\ \A p \in Pages : {page[p].draft, page[p].published} \ {0} \subseteq 1 .. Len(page[p].states)
  /\ snapshots \in Seq(Snapshot) /\ Len(snapshots) <= SnapshotBound
  /\ active \in 0 .. Len(snapshots)
  /\ order \in [ContentCommands -> Order]

ContentInit ==
  /\ page = [p \in Pages |-> [draft |-> 0, published |-> 0, states |-> <<>>]]
  /\ snapshots = <<>> /\ active = 0
  /\ order = [c \in ContentCommands |-> Idle]

---------------------------------------------------------------------------
(* Drafts.                                                                 *)

\* Saved as an unfinished draft or as one that is ready.
SavePage(p) ==
  LET next == Len(page[p].states) + 1
  IN /\ next <= PageBound[p]
     /\ \E state \in {"draft", "ready"} :
          page' = [page EXCEPT ![p] =
                     [page[p] EXCEPT !.draft = next, !.states = Append(page[p].states, state)]]
     /\ UNCHANGED <<snapshots, active, order>>

DiscardPage(p) ==
  /\ page[p].draft # 0
  /\ page' = [page EXCEPT ![p] = [page[p] EXCEPT !.draft = 0]]
  /\ UNCHANGED <<snapshots, active, order>>

\* What an administrator sees of a page: its draft, or else its publication.
Effective(p) == IF page[p].draft # 0 THEN page[p].draft ELSE page[p].published
StateOf(p) == IF Effective(p) = 0 THEN "missing" ELSE page[p].states[Effective(p)]

\* A fault: a page is taken as it is seen.
AnyState(p) == StateOf(p) # "missing"

Publishable(p) == StateOf(p) \in {"ready", "published"}

---------------------------------------------------------------------------
(* Snapshots.                                                              *)

Latest == Len(snapshots)
PropagationOf(r) == IF r = 0 THEN "none" ELSE snapshots[r].state

InsertSnapshot(c, pages, paths) ==
  /\ Latest < SnapshotBound
  /\ snapshots' = Append(snapshots, [pages |-> pages, paths |-> paths, previous |-> active,
                                     state |-> "propagating", attempts |-> 0, by |-> c])

\* The row with the id the command works on.
Found(s) == s.revision \in 1 .. Latest /\ snapshots[s.revision].pages = s.pages

SetOrder(c, s) == order' = [order EXCEPT ![c] = s]

\* The service is done with the command, whose receipt is r.
Finish(c, r) == SetOrder(c, [Idle EXCEPT !.phase = "done", !.kind = order[c].kind, !.receipt = r])

On(s, r) == [s EXCEPT !.revision = r, !.pages = snapshots[r].pages, !.paths = snapshots[r].paths]

Replayed(s) == s.receipt # "none"

\* The receipt that its transaction leaves a command.
Receipt(s) == IF Replayed(s) THEN s.receipt ELSE "propagating"

---------------------------------------------------------------------------
(* Publishing.                                                             *)

\* The first view of the service: nothing may block the publication, and the
\* paths to revalidate are those of the ready pages.
ViewPublication(c) ==
  /\ order[c].phase = "new" /\ order[c].kind = "publish"
  /\ \A p \in Required : Publishable(p)
  /\ PropagationOf(Latest) # "propagating"
  /\ SetOrder(c, [order[c] EXCEPT !.phase = "viewed", !.revision = Latest + 1,
                                  !.paths = {p \in Pages : StateOf(p) = "ready"}])
  /\ UNCHANGED <<page, snapshots, active>>

\* The second view is the content; a page that is not publishable is left out.
BuildSnapshot(c) ==
  /\ order[c].phase = "viewed" /\ \E p \in Pages : Publishable(p)
  /\ SetOrder(c, [order[c] EXCEPT !.phase = "built", !.previous = active,
                    !.pages = [p \in Pages |-> IF Publishable(p) THEN Effective(p) ELSE 0]])
  /\ UNCHANGED <<page, snapshots, active>>

\* Every draft that is ready by now is marked published.
AcceptPublication(c) ==
  LET s == order[c]
  IN /\ s.phase = "built"
     /\ SetOrder(c, [s EXCEPT !.phase = "accepted", !.previous = 0, !.receipt = Receipt(s)])
     /\ IF Replayed(s) THEN UNCHANGED <<page, snapshots>>
        ELSE /\ s.revision = Latest + 1 /\ s.previous = active
             /\ InsertSnapshot(c, s.pages, s.paths)
             /\ page' = [p \in Pages |->
                  IF StateOf(p) = "ready"
                    THEN [draft |-> 0, published |-> page[p].draft,
                          states |-> [page[p].states EXCEPT ![page[p].draft] = "published"]]
                    ELSE page[p]]
     /\ UNCHANGED <<active>>

\* A conflict, or any other refusal before the commit.
RefusePublication(c) ==
  /\ order[c].phase \in {"viewed", "built"}
  /\ Finish(c, order[c].receipt)
  /\ UNCHANGED <<page, snapshots, active>>

---------------------------------------------------------------------------
(* The other commands.                                                     *)

\* The copy of a propagated snapshot becomes the latest one.
AcceptRollback(c) ==
  LET s == [order[c] EXCEPT !.phase = "committed", !.kind = "rollback", !.receipt = Receipt(order[c])]
  IN /\ order[c].phase = "new"
     /\ IF Replayed(order[c]) THEN order[c].kind = "rollback" /\ UNCHANGED snapshots
        ELSE \E r \in 1 .. Latest : /\ snapshots[r].state = "propagated"
                                    /\ InsertSnapshot(c, snapshots[r].pages, snapshots[r].paths)
     /\ SetOrder(c, s)
     /\ UNCHANGED <<page, active>>

\* The service asks for the latest snapshot, which it takes for its own.
ChoosePending(c) ==
  /\ order[c].phase = "committed"
  /\ SetOrder(c, On([order[c] EXCEPT !.phase = "accepted"], Latest))
  /\ UNCHANGED <<page, snapshots, active>>

AcceptRebuild(c) ==
  LET s == [order[c] EXCEPT !.kind = "rebuild", !.receipt = "propagating"]
  IN /\ order[c].phase = "new" /\ ~Replayed(order[c])
     /\ PropagationOf(active) = "propagated"
     /\ InsertSnapshot(c, snapshots[active].pages, snapshots[active].paths)
     /\ SetOrder(c, [On(s, active) EXCEPT !.phase = "accepted", !.revision = Latest + 1])
     /\ UNCHANGED <<page, active>>

\* The pages of the active snapshot are revalidated once more.
AcceptInvalidation(c) ==
  LET s == [order[c] EXCEPT !.phase = "accepted", !.kind = "invalidate", !.receipt = "propagating"]
  IN /\ order[c].phase = "new" /\ ~Replayed(order[c])
     /\ PropagationOf(active) = "propagated" /\ snapshots[active].paths # {}
     /\ SetOrder(c, On(s, active))
     /\ UNCHANGED <<page, snapshots, active>>

\* These two answer with their receipt and do nothing more.
AnswerReceipt(c) ==
  /\ order[c].phase = "new" /\ Replayed(order[c]) /\ order[c].kind \in {"rebuild", "invalidate"}
  /\ Finish(c, order[c].receipt)
  /\ UNCHANGED <<page, snapshots, active>>

\* A retry revalidates the latest failed snapshot first.
ChooseRetry(c) ==
  /\ order[c].phase = "new" /\ (Replayed(order[c]) => order[c].kind = "retry")
  /\ PropagationOf(Latest) = "propagation_failed"
  /\ SetOrder(c, On([order[c] EXCEPT !.phase = "accepted", !.kind = "retry"], Latest))
  /\ UNCHANGED <<page, snapshots, active>>

\* Then it must still be the latest, and still failed.
MarkPropagation(c) ==
  LET s == order[c]
      stands == Replayed(s) \/ (s.revision = Latest /\ PropagationOf(Latest) = "propagation_failed")
  IN /\ s.phase = "answered" /\ s.kind = "retry"
     /\ IF stands
          THEN SetOrder(c, [s EXCEPT !.phase = "marked", !.receipt = Receipt(s)])
          ELSE Finish(c, "none")
     /\ UNCHANGED <<page, snapshots, active>>

---------------------------------------------------------------------------
(* Propagation.                                                            *)

\* The candidate has the default homepage and every path to revalidate.
Acknowledges(s) ==
  Found(s) /\ s.pages[Home] # 0 /\ \A p \in s.paths : s.pages[p] # 0

\* The web acknowledges, or it refuses or its answer is lost.
Revalidate(c) ==
  LET s == order[c]
  IN /\ s.phase = "accepted"
     /\ \E ok \in {FALSE, Acknowledges(s)} : SetOrder(c, [s EXCEPT !.phase = "answered", !.ok = ok])
     /\ UNCHANGED <<page, snapshots, active>>

Completing(c) ==
  \/ order[c].phase = "marked"
  \/ order[c].phase = "answered" /\ order[c].kind # "retry"

Outcome(s) == IF s.ok THEN "propagated" ELSE "propagation_failed"

\* State, attempts, pointer and receipt in one transaction.
CompletePropagation(c) ==
  LET s == order[c]
      row == snapshots[s.revision]
  IN /\ Completing(c) /\ s.kind # "invalidate" /\ Found(s)
     /\ row.attempts < AttemptLimit
     /\ snapshots' = [snapshots EXCEPT ![s.revision] =
          [row EXCEPT !.state = Outcome(s), !.attempts = row.attempts + 1]]
     /\ active' = IF s.ok THEN s.revision ELSE active
     /\ Finish(c, Outcome(s))
     /\ UNCHANGED <<page>>

\* No such row, or one attempt too many: the receipt stays as it is.
CompletionFails(c) ==
  /\ Completing(c) /\ order[c].kind # "invalidate"
  /\ Found(order[c]) => snapshots[order[c].revision].attempts = AttemptLimit
  /\ Finish(c, order[c].receipt)
  /\ UNCHANGED <<page, snapshots, active>>

CompleteInvalidation(c) ==
  LET s == order[c]
      row == snapshots[s.revision]
  IN /\ Completing(c) /\ s.kind = "invalidate"
     /\ snapshots' = [snapshots EXCEPT ![s.revision] =
          [row EXCEPT !.attempts = IF row.attempts < AttemptLimit THEN row.attempts + 1 ELSE row.attempts]]
     /\ Finish(c, Outcome(s))
     /\ UNCHANGED <<page, active>>

\* The service dies, or its answer is lost: the command is sent again with
\* its idempotency key.
ResendCommand(c) ==
  LET s == order[c]
  IN /\ s.phase # "new" /\ (s.phase = "done" => s.receipt # "none")
     /\ SetOrder(c, [Idle EXCEPT !.receipt = s.receipt, !.kind = IF Replayed(s) THEN s.kind ELSE "publish"])
     /\ UNCHANGED <<page, snapshots, active>>

---------------------------------------------------------------------------
ContentNext ==
  \/ \E p \in Pages : SavePage(p) \/ DiscardPage(p)
  \/ \E c \in ContentCommands :
       \/ ViewPublication(c) \/ BuildSnapshot(c) \/ AcceptPublication(c) \/ RefusePublication(c)
       \/ AcceptRollback(c) \/ ChoosePending(c) \/ AcceptRebuild(c) \/ AcceptInvalidation(c)
       \/ AnswerReceipt(c) \/ ChooseRetry(c) \/ MarkPropagation(c) \/ Revalidate(c)
       \/ CompletePropagation(c) \/ CompletionFails(c) \/ CompleteInvalidation(c) \/ ResendCommand(c)

ContentSpec == ContentInit /\ [][ContentNext]_contentVars

---------------------------------------------------------------------------
(* Properties.                                                             *)

\* No unfinished draft is ever in a snapshot, whatever is edited between the
\* two views of a publication and its transaction.
NoDraftPublished ==
  \A r \in 1 .. Latest, p \in Pages :
    LET v == snapshots[r].pages[p]
    IN v # 0 => page[p].states[v] # "draft"

\* The active snapshot, the one the web serves, has the default homepage,
\* although a publication may lose it between its two views and the other
\* commands copy and complete snapshots they did not build.
ActiveHasHomepage == active # 0 => snapshots[active].pages[Home] # 0

\* A command makes one snapshot at most, however often it is sent again.
OneSnapshotPerCommand ==
  \A q, r \in 1 .. Latest : snapshots[q].by = snapshots[r].by => q = r

SnapshotsAreSound == NoDraftPublished /\ ActiveHasHomepage /\ OneSnapshotPerCommand

=============================================================================
