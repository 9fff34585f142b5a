------------------------ MODULE PlatformPresentation ------------------------
(***************************************************************************)
(* How a platform is presented to the public, in one region: drafts,        *)
(* publications and rollbacks in PostgreSQL, and the readiness that the     *)
(* administration service looks at before it lets a platform be listed.     *)
(*                                                                         *)
(* The service looks first and writes afterwards, in a transaction that     *)
(* only compares revisions; routes and pages change in between.             *)
(***************************************************************************)
EXTENDS Naturals, Sequences

CONSTANTS
  Catalogued,    \* the platform's status in the catalogue of the code
  PlatformPages,         \* platform pages for it, as drafts or published
  Promotions,    \* publish and rollback commands
  PresentationBound  \* how many revisions the search adds

VARIABLES
  present,   \* admin_platform_presentation_heads: newest, draft and published revision
  revisions, \* admin_platform_presentation_revisions, in order
  routed,    \* a monitored route may serve the platform
  ready,     \* the pages that are published in every locale, and indexable
  promotion, \* what each command is doing
  since      \* what has been true since a command began: pages, and "routed"

presentationVars == <<present, revisions, routed, ready, promotion, since>>

\* What the properties need of the constants: the editor is no command.
PresentationWorkload == "editor" \notin Promotions

NoPage == "no page"
Availabilities == {"hidden", "preview", "listed", "paused"}
Kinds == {"draft", "published", "rollback"}

Revision == [kind : Kinds, availability : Availabilities, page : PlatformPages \cup {NoPage},
             by : Promotions \cup {"editor"}, previous : Nat]
HeadRow == [newest : Nat, draft : Nat, published : Nat]
Command == [phase : {"new", "begun", "elsewhere", "checked", "done", "refused"}, kind : Kinds \ {"draft"},
            source : Nat, expected : Nat]

PresentationTypeOK ==
  /\ present \in HeadRow /\ present.newest = Len(revisions)
  /\ revisions \in Seq(Revision)
  /\ routed \in BOOLEAN /\ ready \subseteq PlatformPages
  /\ promotion \in [Promotions -> Command]
  /\ since \in [Promotions -> SUBSET (PlatformPages \cup {"routed"})]

Facts(r, p) == p \cup IF r THEN {"routed"} ELSE {}
Busy(c) == promotion[c].phase \in {"begun", "elsewhere", "checked"}

\* A first publication, made before the search.
Listed(kind, page) ==
  [kind |-> kind, availability |-> "listed", page |-> page, by |-> "editor", previous |-> 0]
MadeBefore == \E n \in 1 .. Len(revisions) : revisions[n].kind = "published" /\ revisions[n].by = "editor"
Room == Len(revisions) < PresentationBound + (IF MadeBefore THEN 2 ELSE 0)

PresentationInit ==
  /\ \/ present = [newest |-> 0, draft |-> 0, published |-> 0] /\ revisions = <<>>
     \/ /\ present = [newest |-> 2, draft |-> 0, published |-> 2]
        /\ \E page \in PlatformPages \cup {NoPage} :
             revisions = <<Listed("draft", page), Listed("published", page)>>
  /\ routed \in BOOLEAN /\ ready \in SUBSET PlatformPages
  /\ promotion = [c \in Promotions |-> [phase |-> "new", kind |-> "published", source |-> 0, expected |-> 0]]
  /\ since = [c \in Promotions |-> {}]

---------------------------------------------------------------------------
(* Drafts: one transaction each *)

Added(kind, availability, page, by) ==
  Append(revisions, [kind |-> kind, availability |-> availability, page |-> page, by |-> by,
                     previous |-> present.published])

\* The page of a draft is a platform page for it, whatever its state.
SaveDraft(availability, page) ==
  LET next == present.newest + 1
  IN /\ Room
     /\ revisions' = Added("draft", availability, page, "editor")
     /\ present' = [present EXCEPT !.newest = next, !.draft = next]
     /\ UNCHANGED <<routed, ready, promotion, since>>

\* The head's newest revision stays what it was.
Discard ==
  /\ present.draft # 0
  /\ present' = [present EXCEPT !.draft = 0]
  /\ UNCHANGED <<revisions, routed, ready, promotion, since>>

---------------------------------------------------------------------------
(* What a view of the platform says *)

DraftPage == IF present.draft = 0 THEN NoPage ELSE revisions[present.draft].page
PublishedPage == IF present.published = 0 THEN NoPage ELSE revisions[present.published].page

\* The page of what is shown: the draft if there is one, else what is published.
EffectivePage == IF present.draft # 0 THEN DraftPage ELSE PublishedPage

\* The page whose readiness is shown: the draft's, if it names one.  A fault
\* would be to look at the published one first.
PublishedFirst == IF PublishedPage # NoPage THEN PublishedPage ELSE DraftPage
AssociatedPage == IF DraftPage # NoPage THEN DraftPage ELSE PublishedPage

\* The blockers that are not about a page.
Operational == routed /\ Catalogued \notin {"planned", "paused"}
IndexableEligible == Operational /\ AssociatedPage \in ready

---------------------------------------------------------------------------
(* A publication or a rollback *)

Set(c, phase) == promotion' = [promotion EXCEPT ![c] = [promotion[c] EXCEPT !.phase = phase]]

\* The draft the command names, or an earlier publication; only a revision
\* that is to be listed is looked into.
Begin(c, kind, r) ==
  /\ promotion[c].phase = "new"
  /\ IF kind = "published" THEN r # 0 /\ r = present.draft
                           ELSE r \in 1 .. present.newest /\ revisions[r].kind # "draft"
  /\ promotion' = [promotion EXCEPT ![c] =
       [phase |-> IF revisions[r].availability = "listed" THEN "begun" ELSE "checked",
        kind |-> kind, source |-> r, expected |-> present.newest]]
  /\ since' = [since EXCEPT ![c] = Facts(routed, ready)]
  /\ UNCHANGED <<present, revisions, routed, ready>>

\* When the view is about another page, that page is read for itself.
RequireListable(c) ==
  LET page == revisions[promotion[c].source].page
  IN /\ promotion[c].phase = "begun"
     /\ IF page = EffectivePage
        THEN Set(c, IF IndexableEligible THEN "checked" ELSE "refused")
        ELSE Set(c, IF Operational THEN "elsewhere" ELSE "refused")
     /\ UNCHANGED <<present, revisions, routed, ready, since>>

ValidatePage(c) ==
  /\ promotion[c].phase = "elsewhere"
  /\ Set(c, IF revisions[promotion[c].source].page \in ready THEN "checked" ELSE "refused")
  /\ UNCHANGED <<present, revisions, routed, ready, since>>

\* The head is still at the revision the command expects, and the draft is
\* still the one it names.
ExpectRevision(c) ==
  LET s == promotion[c]
  IN s.expected = present.newest /\ (s.kind = "published" => s.source = present.draft)

\* The copy and the head, in one commit.
Promote(c) ==
  LET s == promotion[c]
      next == present.newest + 1
      source == revisions[s.source]
  IN /\ s.phase = "checked" /\ Room
     /\ IF ExpectRevision(c)
        THEN /\ revisions' = Added(s.kind, source.availability, source.page, c)
             /\ present' = [newest |-> next, draft |-> 0, published |-> next]
             /\ Set(c, "done")
        ELSE Set(c, "refused") /\ UNCHANGED <<present, revisions>>
     /\ UNCHANGED <<routed, ready, since>>

---------------------------------------------------------------------------
(* Routes and pages, which other parts of the administration change *)

Change(r, p) ==
  /\ routed' = r /\ ready' = p
  /\ since' = [c \in Promotions |-> IF Busy(c) THEN since[c] \cup Facts(r, p) ELSE since[c]]
  /\ UNCHANGED <<present, revisions, promotion>>

Pause == Change(~routed, ready)
Unpublish(page) == page \in ready /\ Change(routed, ready \ {page})
Complete(page) == page \notin ready /\ Change(routed, ready \cup {page})

PresentationNext ==
  \/ \E page \in PlatformPages \cup {NoPage}, availability \in {"preview", "listed"} :
       SaveDraft(availability, page)
  \/ Discard \/ Pause
  \/ \E page \in PlatformPages : Unpublish(page) \/ Complete(page)
  \/ \E c \in Promotions :
       \/ \E kind \in Kinds \ {"draft"}, r \in 1 .. present.newest : Begin(c, kind, r)
       \/ RequireListable(c) \/ ValidatePage(c) \/ Promote(c)

PresentationSpec == PresentationInit /\ [][PresentationNext]_presentationVars

---------------------------------------------------------------------------
(* A revision that lists the platform with a page was made by a command     *)
(* during which that very page was ready and a route could serve the        *)
(* platform: neither another draft nor a discard that comes between the     *)
(* look and the write, nor the page of another revision, makes it listed.   *)
(* (A revision without a page is not covered: see the README.)              *)
ListedWasReady ==
  \A n \in 1 .. Len(revisions) :
    LET v == revisions[n]
    IN (v.by # "editor" /\ v.availability = "listed" /\ v.page # NoPage) =>
         {v.page, "routed"} \subseteq since[v.by]
=============================================================================
