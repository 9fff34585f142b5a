------------------------- MODULE ControlPlane_proofs -------------------------
(***************************************************************************)
(* Proofs about the publications of the administration: the route          *)
(* policies, the content of the site, and the presentation of a platform.  *)
(* Each starts with the inductive invariant and why it holds.              *)
(***************************************************************************)
EXTENDS RoutePolicyPublication, ContentPublication, PlatformPresentation, FiniteSetTheorems, TLAPS

---------------------------------------------------------------------------
(* The route policies.  A command holds the head row of its platform from  *)
(* its lock to its commit, so what it found there still stands when it     *)
(* copies it; and it leaves that part of its life once.                    *)

Holding == {"locked", "numbered"}
Before == {"new"} \cup Holding

\* The commands that have drawn a number of the projection.
Numbered == {c \in Publications : publication[c].phase \notin {"new", "locked"}}

\* A platform's draft is its newest revision, and a draft.
DraftIsNewest(p) ==
  head[p].draft # 0 => /\ head[p].draft = head[p].newest
                       /\ history[p][head[p].newest].kind = "draft"

\* One command at a time holds the head of a platform.
OneHolder ==
  \A c, d \in Publications :
    /\ publication[c].phase \in Holding /\ publication[d].phase \in Holding
    /\ PlatformOf[c] = PlatformOf[d]
    => c = d

\* What a command may copy when it locks the head, it may still copy; there
\* is room for its revision once it has a number.
HeldStands(c) ==
  LET s == publication[c]
      p == PlatformOf[c]
  IN /\ s.phase \in Holding => s.source \in 1 .. head[p].newest /\ Promotable(p, KindOf[c], s.source)
     /\ s.phase = "numbered" => head[p].newest < PolicyBound[p]

\* A command that has not committed is in no history.
NotYet(c) ==
  publication[c].phase \in Before =>
    \A p \in Platforms : \A n \in 1 .. Len(history[p]) : history[p][n].by # c

\* A worker keeps a snapshot it loaded whole, or nothing.
KeepsWhole(w) == Whole(lookup[w].kept) \/ lookup[w].kept = Blank

PolicyInv ==
  /\ PolicyTypeOK
  /\ sequence = Cardinality(Numbered)
  /\ \A p \in Platforms : DraftIsNewest(p)
  /\ OneHolder
  /\ \A c \in Publications : HeldStands(c) /\ NotYet(c)
  /\ \A w \in Servers : KeepsWhole(w)
  /\ PublishesWhatWasSeen

---------------------------------------------------------------------------
(* Types.                                                                  *)

LEMMA Sizes ==
  ASSUME PolicyWorkload
  PROVE  /\ 0 \in Sequenced /\ Sequenced \subseteq Nat /\ Cardinality(Publications) \in Nat
         /\ \A S \in SUBSET Publications : IsFiniteSet(S) /\ Cardinality(S) \in Sequenced
<1>1. IsFiniteSet(Publications) /\ Cardinality(Publications) \in Nat
  BY FS_CardinalityType DEF PolicyWorkload
<1>2. ASSUME NEW S \in SUBSET Publications
      PROVE  IsFiniteSet(S) /\ Cardinality(S) \in Nat /\ Cardinality(S) <= Cardinality(Publications)
  BY <1>1, FS_Subset, FS_CardinalityType
<1> QED  BY <1>1, <1>2 DEF Sequenced

LEMMA BlankSnapshot ==
  ASSUME PolicyWorkload
  PROVE  Blank \in Snaps /\ Blank.revision = 0 /\ ~Whole(Blank)
<1>1. [p \in Platforms |-> 0] \in Orders
  BY DEF Orders
<1>2. Blank.revision = 0 /\ Blank.parts = {}
  BY DEF Blank
<1> QED  BY <1>1, <1>2, Sizes DEF Blank, Snaps, Whole

\* A query fills in one part of a snapshot.
LEMMA QueryTypes ==
  ASSUME PolicyWorkload, PolicyTypeOK, NEW s \in Snaps, NEW part \in {"revision", "policies"}
  PROVE  QueryPart(s, part) \in Snaps
<1>1. [p \in Platforms |-> head[p].published] \in Orders
  BY DEF PolicyTypeOK, Heads, Orders
<1>2. durable \in Sequenced /\ s.parts \cup {part} \in SUBSET {"revision", "policies"}
  BY DEF PolicyTypeOK, Snaps
<1> QED  BY <1>1, <1>2 DEF QueryPart, Snaps

LEMMA FieldTypes ==
  ASSUME PolicyWorkload, PolicyTypeOK
  PROVE  /\ \A p \in Platforms : /\ head[p] \in Heads /\ history[p] \in Seq(Entries)
                                 /\ head[p].newest \in Nat
                                 /\ head[p].newest = Len(history[p])
         /\ \A c \in Publications : /\ publication[c] \in Publishing /\ PlatformOf[c] \in Platforms
                                    /\ KindOf[c] \in {"published", "rollback"}
                                    /\ publication[c].phase \in Phases /\ publication[c].snap \in Snaps
                                    /\ publication[c].projection \in Sequenced
         /\ sequence \in Sequenced /\ durable \in Sequenced /\ projected \in Snaps
         /\ DOMAIN publication = Publications /\ DOMAIN lookup = Servers
         /\ DOMAIN head = Platforms /\ DOMAIN history = Platforms
BY DEF PolicyTypeOK, PolicyWorkload, Heads, Publishing

---------------------------------------------------------------------------
(* Histories.                                                              *)

\* What PublishesWhatWasSeen says of the entry at n of the history h.
AsSeen(h, n) ==
  /\ h[n].kind = "published" => n > 1 /\ h[n - 1].kind = "draft" /\ h[n].content = h[n - 1].content
  /\ h[n].kind = "rollback" => \E o \in 1 .. n - 1 : h[o].kind # "draft" /\ h[o].content = h[n].content
  /\ h[n].by # "editor" => \A o \in 1 .. n - 1 : h[o].by # h[n].by

LEMMA EveryEntryAsSeen ==
  PublishesWhatWasSeen <=> \A p \in Platforms : \A n \in 1 .. Len(history[p]) : AsSeen(history[p], n)
BY DEF PublishesWhatWasSeen, AsSeen

LEMMA AppendForms ==
  ASSUME NEW S, NEW h \in Seq(S), NEW e \in S
  PROVE  /\ Append(h, e) \in Seq(S) /\ Len(Append(h, e)) = Len(h) + 1 /\ Len(h) \in Nat
         /\ Append(h, e)[Len(h) + 1] = e
         /\ \A n \in 1 .. Len(h) : Append(h, e)[n] = h[n]
OBVIOUS

\* A new entry changes nothing about those before it.
LEMMA AppendAsSeen ==
  ASSUME NEW S, NEW h \in Seq(S), NEW e \in S,
         \A n \in 1 .. Len(h) : AsSeen(h, n),
         e.kind = "published" => Len(h) > 0 /\ h[Len(h)].kind = "draft" /\ e.content = h[Len(h)].content,
         e.kind = "rollback" => \E o \in 1 .. Len(h) : h[o].kind # "draft" /\ h[o].content = e.content,
         e.by # "editor" => \A o \in 1 .. Len(h) : h[o].by # e.by
  PROVE  \A n \in 1 .. Len(Append(h, e)) : AsSeen(Append(h, e), n)
<1> DEFINE g == Append(h, e)
           len == Len(h)
<1>1. g[len + 1] = e /\ Len(g) = len + 1 /\ len \in Nat /\ \A n \in 1 .. len : g[n] = h[n]
  BY AppendForms
<1> SUFFICES ASSUME NEW n \in 1 .. len + 1  PROVE AsSeen(g, n)
  BY <1>1
<1>2. CASE n \in 1 .. len
  <2>1. g[n] = h[n] /\ AsSeen(h, n) /\ n - 1 \in Int /\ \A o \in 1 .. n - 1 : o \in 1 .. len /\ g[o] = h[o]
    BY <1>1, <1>2
  <2>2. n > 1 => n - 1 \in 1 .. n - 1
    BY <1>1, <1>2
  <2> HIDE DEF g, len
  <2> QED  BY <2>1, <2>2 DEF AsSeen
<1>3. CASE n = len + 1
  <2>1. g[n] = e /\ n - 1 = len /\ (len > 0 => n > 1 /\ len \in 1 .. len)
    BY <1>1, <1>3
  <2>2. \A o \in 1 .. n - 1 : g[o] = h[o]
    BY <1>1, <2>1
  <2> HIDE DEF g
  <2> QED  BY <2>1, <2>2 DEF AsSeen
<1>4. n \in 1 .. len \/ n = len + 1
  BY <1>1
<1> QED  BY <1>2, <1>3, <1>4

---------------------------------------------------------------------------
(* PolicyInit.                                                                   *)

LEMMA PolicyInitHolds == ASSUME PolicyWorkload, PolicyInit PROVE PolicyInv
<1> DEFINE first == [kind |-> "draft", content |-> 1, by |-> "editor"]
           second == [kind |-> "published", content |-> 1, by |-> "editor"]
           fresh == [phase |-> "new", source |-> 0, projection |-> 0, snap |-> Blank, receipt |-> "none"]
           free == [kept |-> Blank, phase |-> "idle", snap |-> Blank]
<1>1. first \in Entries /\ second \in Entries
  BY DEF Entries, EntryKinds
<1>2. fresh \in Publishing /\ fresh.phase = "new"
  BY Sizes, BlankSnapshot DEF Publishing, Phases
<1>3. free \in [kept : Snaps, phase : {"idle", "read", "loading"}, snap : Snaps] /\ free.kept = Blank
  BY BlankSnapshot
<1>4. ASSUME NEW p \in Platforms
      PROVE  /\ head[p] \in Heads /\ head[p].draft = 0 /\ history[p] \in Seq(Entries)
             /\ head[p].newest = Len(history[p])
             /\ \A n \in 1 .. Len(history[p]) :
                  history[p][n].by = "editor" /\ AsSeen(history[p], n)
  <2>1. CASE p \in Established
    <3>1. history[p] = <<first, second>> /\ head[p] = [newest |-> 2, draft |-> 0, published |-> 2]
      BY <2>1 DEF PolicyInit
    <3>2. history[p] \in Seq(Entries) /\ Len(history[p]) = 2 /\ history[p][1] = first /\ history[p][2] = second
      BY <3>1, <1>1
    <3>3. AsSeen(history[p], 1)
      BY <3>2 DEF AsSeen
    <3>4. AsSeen(history[p], 2)
      BY <3>2 DEF AsSeen
    <3>5. head[p] \in Heads /\ head[p].draft = 0 /\ head[p].newest = 2
      BY <3>1 DEF Heads
    <3>6. \A n \in 1 .. 2 : n = 1 \/ n = 2
      OBVIOUS
    <3> QED  BY <3>2, <3>3, <3>4, <3>5, <3>6
  <2>2. CASE p \notin Established
    <3>1. history[p] = <<>> /\ head[p] = [newest |-> 0, draft |-> 0, published |-> 0]
      BY <2>2 DEF PolicyInit
    <3> QED  BY <3>1 DEF Heads
  <2> QED  BY <2>1, <2>2
<1>5. \A c \in Publications : publication[c] = fresh
  BY DEF PolicyInit
<1>6. \A w \in Servers : lookup[w] = free
  BY DEF PolicyInit
<1>7. /\ head \in [Platforms -> Heads] /\ history \in [Platforms -> Seq(Entries)]
      /\ publication \in [Publications -> Publishing]
      /\ lookup \in [Servers -> [kept : Snaps, phase : {"idle", "read", "loading"}, snap : Snaps]]
  <2>1. head = [p \in Platforms |-> head[p]] /\ history = [p \in Platforms |-> history[p]]
    BY DEF PolicyInit
  <2>2. publication = [c \in Publications |-> publication[c]] /\ lookup = [w \in Servers |-> lookup[w]]
    BY DEF PolicyInit
  <2> HIDE DEF fresh, free
  <2> QED  BY <2>1, <2>2, <1>2, <1>3, <1>4, <1>5, <1>6
<1>8. PolicyTypeOK
  BY <1>4, <1>7, Sizes, BlankSnapshot DEF PolicyTypeOK, PolicyInit
<1> HIDE DEF fresh, free
<1>9. sequence = Cardinality(Numbered)
  <2>1. Numbered = {}
    BY <1>2, <1>5 DEF Numbered
  <2> QED  BY <2>1, FS_EmptySet DEF PolicyInit
<1>10. OneHolder /\ \A c \in Publications : HeldStands(c)
  BY <1>2, <1>5 DEF OneHolder, HeldStands, Holding
<1>11. \A c \in Publications : NotYet(c)
  BY <1>4 DEF NotYet, PolicyWorkload
<1>12. \A w \in Servers : KeepsWhole(w)
  BY <1>3, <1>6 DEF KeepsWhole
<1>13. \A p \in Platforms : DraftIsNewest(p)
  BY <1>4 DEF DraftIsNewest
<1>14. PublishesWhatWasSeen
  BY <1>4, EveryEntryAsSeen
<1> QED  BY <1>8, <1>9, <1>10, <1>11, <1>12, <1>13, <1>14 DEF PolicyInv

---------------------------------------------------------------------------
(* Steps of workers and of Redis.                                          *)

\* What the invariant says of heads and commands, where neither changes.
LEMMA SamePolicies ==
  ASSUME PolicyInv, UNCHANGED <<head, history, sequence, publication>>
  PROVE  /\ (sequence = Cardinality(Numbered))' /\ (\A p \in Platforms : DraftIsNewest(p))' /\ OneHolder'
         /\ (\A c \in Publications : HeldStands(c) /\ NotYet(c))' /\ PublishesWhatWasSeen'
<1>1. (sequence = Cardinality(Numbered))'
  BY DEF PolicyInv, Numbered
<1>2. (\A p \in Platforms : DraftIsNewest(p))'
  BY DEF PolicyInv, DraftIsNewest
<1>3. OneHolder'
  BY DEF PolicyInv, OneHolder
<1>4. (\A c \in Publications : HeldStands(c) /\ NotYet(c))'
  BY DEF PolicyInv, HeldStands, NotYet, Promotable
<1>5. PublishesWhatWasSeen'
  BY DEF PolicyInv, PublishesWhatWasSeen
<1> QED  BY <1>1, <1>2, <1>3, <1>4, <1>5

\* A worker that keeps what it kept, a whole snapshot no older, or nothing.
LEMMA WorkerMoves ==
  ASSUME PolicyWorkload, PolicyInv, NEW w \in Servers,
         NEW kept \in Snaps, NEW phase \in {"idle", "read", "loading"}, NEW snap \in Snaps,
         Whole(kept) \/ kept = Blank,
         SetLookup(w, [kept |-> kept, phase |-> phase, snap |-> snap]),
         Whole(kept) => kept.revision >= lookup[w].kept.revision
  PROVE  PolicyInv' /\ NewerUsed
<1> DEFINE l == [kept |-> kept, phase |-> phase, snap |-> snap]
<1>1. l \in [kept : Snaps, phase : {"idle", "read", "loading"}, snap : Snaps] /\ l.kept = kept
  OBVIOUS
<1> HIDE DEF l
<1>2. lookup' = [lookup EXCEPT ![w] = l]
       /\ UNCHANGED <<head, history, sequence, durable, publication, projected>>
  BY DEF SetLookup, l
<1>3. lookup'[w] = l /\ \A v \in Servers \ {w} : lookup'[v] = lookup[v]
  BY <1>2 DEF PolicyInv, PolicyTypeOK
<1>4. PolicyTypeOK'
  <2>1. lookup' \in [Servers -> [kept : Snaps, phase : {"idle", "read", "loading"}, snap : Snaps]]
    BY <1>1, <1>2 DEF PolicyInv, PolicyTypeOK
  <2> QED  BY <1>2, <2>1 DEF PolicyInv, PolicyTypeOK
<1>5. \A v \in Servers : KeepsWhole(v)'
  BY <1>1, <1>3 DEF PolicyInv, KeepsWhole
<1>6. /\ (sequence = Cardinality(Numbered))' /\ (\A p \in Platforms : DraftIsNewest(p))' /\ OneHolder'
      /\ (\A c \in Publications : HeldStands(c) /\ NotYet(c))' /\ PublishesWhatWasSeen'
  BY <1>2, SamePolicies
<1>7. NewerUsed
  <2> SUFFICES ASSUME NEW v \in Servers, Whole(lookup'[v].kept)
               PROVE  lookup'[v].kept.revision >= lookup[v].kept.revision
    BY DEF NewerUsed
  <2>1. lookup[v].kept.revision \in Nat
    BY Sizes DEF PolicyInv, PolicyTypeOK, Snaps
  <2> QED  BY <1>1, <1>3, <2>1
<1> QED  BY <1>4, <1>5, <1>6, <1>7 DEF PolicyInv

Lookups == [kept : Snaps, phase : {"idle", "read", "loading"}, snap : Snaps]

LEMMA LookupForms ==
  ASSUME NEW l \in Lookups, NEW f, NEW s
  PROVE  [l EXCEPT !.phase = f, !.snap = s] = [kept |-> l.kept, phase |-> f, snap |-> s]
<1> DEFINE m == [l EXCEPT !.phase = f, !.snap = s]
<1>1. m = [x \in {"kept", "phase", "snap"} |-> m[x]]
  BY DEF Lookups
<1>2. m.kept = l.kept /\ m.phase = f /\ m.snap = s
  BY DEF Lookups
<1> HIDE DEF m
<1>3. m = [kept |-> m.kept, phase |-> m.phase, snap |-> m.snap]
  BY <1>1
<1> QED  BY <1>2, <1>3 DEF m

WorkerStep ==
  \E w \in Servers : \/ ReadProjection(w) \/ UseProjection(w) \/ TurnToDatabase(w) \/ QueryDatabase(w)
                     \/ UseDatabase(w) \/ ServerRestart(w)

LEMMA WorkerSteps == ASSUME PolicyWorkload, PolicyInv, WorkerStep PROVE PolicyInv' /\ NewerUsed
<1> PICK w \in Servers : \/ ReadProjection(w) \/ UseProjection(w) \/ TurnToDatabase(w) \/ QueryDatabase(w)
                         \/ UseDatabase(w) \/ ServerRestart(w)
  BY DEF WorkerStep
<1> DEFINE l == lookup[w]
<1>1. /\ l \in [kept : Snaps, phase : {"idle", "read", "loading"}, snap : Snaps]
      /\ l.kept \in Snaps /\ l.snap \in Snaps /\ l.phase \in {"idle", "read", "loading"}
      /\ l = [kept |-> l.kept, phase |-> l.phase, snap |-> l.snap]
      /\ projected \in Snaps /\ (Whole(l.kept) \/ l.kept = Blank)
  BY DEF PolicyInv, PolicyTypeOK, KeepsWhole
<1>2. \A s \in Snaps : s.revision \in Nat
  BY Sizes DEF Snaps
<1>3. Blank \in Snaps /\ Blank.revision = 0 /\ ~Whole(Blank)
  BY BlankSnapshot
<1>4. \A s \in Snaps : ~Whole(l.kept) => s.revision >= l.kept.revision
  BY <1>1, <1>2, <1>3
<1>form. l \in Lookups
  BY <1>1 DEF Lookups
<1>5. CASE ReadProjection(w)
  <2>1. PICK s \in {projected, Blank} : SetLookup(w, [l EXCEPT !.phase = "read", !.snap = s])
    BY <1>5 DEF ReadProjection
  <2>2. [l EXCEPT !.phase = "read", !.snap = s] = [kept |-> l.kept, phase |-> "read", snap |-> s]
    BY <1>form, LookupForms
  <2>3. s \in Snaps /\ l.kept.revision >= l.kept.revision
    BY <1>1, <1>2, <1>3, <2>1
  <2> HIDE DEF l
  <2> QED  BY <2>1, <2>2, <2>3, <1>1, WorkerMoves DEF l
<1>6. CASE UseProjection(w)
  <2>1. SetLookup(w, [kept |-> l.snap, phase |-> "idle", snap |-> Blank])
    BY <1>6 DEF UseProjection
  <2>2. Whole(l.snap) /\ l.snap.revision >= l.kept.revision
    BY <1>6, <1>1, <1>2, <1>4 DEF UseProjection, Usable
  <2> HIDE DEF l
  <2> QED  BY <2>1, <2>2, <1>1, <1>3, WorkerMoves DEF l
<1>7. CASE TurnToDatabase(w)
  <2>1. SetLookup(w, [l EXCEPT !.phase = "loading", !.snap = Blank])
    BY <1>7 DEF TurnToDatabase
  <2>2. [l EXCEPT !.phase = "loading", !.snap = Blank] = [kept |-> l.kept, phase |-> "loading", snap |-> Blank]
    BY <1>form, LookupForms
  <2>3. l.kept.revision >= l.kept.revision
    BY <1>1, <1>2
  <2> HIDE DEF l
  <2> QED  BY <2>1, <2>2, <2>3, <1>1, <1>3, WorkerMoves DEF l
<1>8. CASE QueryDatabase(w)
  <2>1. PICK part \in {"revision", "policies"} : SetLookup(w, [l EXCEPT !.snap = QueryPart(l.snap, part)])
    BY <1>8 DEF QueryDatabase
  <2>2. QueryPart(l.snap, part) \in Snaps
    BY <1>1, QueryTypes DEF PolicyInv
  <2>3. [l EXCEPT !.snap = QueryPart(l.snap, part)]
          = [kept |-> l.kept, phase |-> l.phase, snap |-> QueryPart(l.snap, part)]
    BY <1>1
  <2>4. l.kept.revision >= l.kept.revision
    BY <1>1, <1>2
  <2> HIDE DEF l
  <2> QED  BY <2>1, <2>2, <2>3, <2>4, <1>1, WorkerMoves DEF l
<1>9. CASE UseDatabase(w)
  <2>1. PICK s \in {l.kept} \cup (IF Whole(l.snap) /\ ~(Whole(l.kept) /\ l.snap.revision < l.kept.revision)
                                    THEN {l.snap} ELSE {}) :
          SetLookup(w, [kept |-> s, phase |-> "idle", snap |-> Blank])
    BY <1>9 DEF UseDatabase
  <2>2. CASE s = l.kept
    <3>1. l.kept.revision >= l.kept.revision
      BY <1>1, <1>2
    <3> HIDE DEF l
    <3> QED  BY <2>1, <2>2, <3>1, <1>1, <1>3, WorkerMoves DEF l
  <2>3. CASE s = l.snap /\ Whole(l.snap) /\ ~(Whole(l.kept) /\ l.snap.revision < l.kept.revision)
    <3>1. l.snap.revision >= l.kept.revision
      BY <2>3, <1>1, <1>2, <1>4
    <3> HIDE DEF l
    <3> QED  BY <2>1, <2>3, <3>1, <1>1, <1>3, WorkerMoves DEF l
  <2> QED  BY <2>1, <2>2, <2>3
<1>10. CASE ServerRestart(w)
  <2>1. SetLookup(w, [kept |-> Blank, phase |-> "idle", snap |-> Blank])
    BY <1>10 DEF ServerRestart
  <2> HIDE DEF l
  <2> QED  BY <2>1, <1>3, WorkerMoves
<1> QED  BY <1>5, <1>6, <1>7, <1>8, <1>9, <1>10

LEMMA ExpirySteps == ASSUME PolicyWorkload, PolicyInv, ExpireProjection PROVE PolicyInv'
<1>1. projected' = Blank /\ UNCHANGED <<head, history, sequence, durable, publication, lookup>>
  BY DEF ExpireProjection
<1>2. PolicyTypeOK'
  BY <1>1, BlankSnapshot DEF PolicyInv, PolicyTypeOK
<1>3. (\A w \in Servers : KeepsWhole(w))'
  BY <1>1 DEF PolicyInv, KeepsWhole
<1> QED  BY <1>1, <1>2, <1>3, SamePolicies DEF PolicyInv

---------------------------------------------------------------------------
(* Steps of commands that change no head and no history.                   *)

\* The commands besides c are left alone, and so is every head.  If c holds
\* the head of its platform afterwards, no other command did, and what c may
\* copy is there; it does not come back from its commit.
LEMMA CommandMoves ==
  ASSUME PolicyWorkload, PolicyInv, NEW c \in Publications, NEW s \in Publishing,
         SetPublication(c, s), UNCHANGED <<head, history, lookup>>,
         projected' \in Snaps, durable' \in Sequenced, (sequence = Cardinality(Numbered))',
         s.phase \in Before => publication[c].phase \in Before,
         s.phase \in Holding =>
           /\ s.source \in 1 .. head[PlatformOf[c]].newest
           /\ Promotable(PlatformOf[c], KindOf[c], s.source)
           /\ HeadFree(PlatformOf[c]) \/ publication[c].phase \in Holding,
         s.phase = "numbered" => head[PlatformOf[c]].newest < PolicyBound[PlatformOf[c]]
  PROVE  PolicyInv'
<1>1. publication' = [publication EXCEPT ![c] = s] /\ DOMAIN publication = Publications
  BY FieldTypes DEF SetPublication, PolicyInv
<1>2. publication'[c] = s /\ \A d \in Publications \ {c} : publication'[d] = publication[d]
  BY <1>1
<1>3. PolicyTypeOK'
  <2>1. publication' \in [Publications -> Publishing]
    BY <1>1 DEF PolicyInv, PolicyTypeOK
  <2>2. sequence' \in Sequenced
    <3>1. Numbered' \in SUBSET Publications
      BY DEF Numbered
    <3> QED  BY <3>1, Sizes
  <2> QED  BY <2>1, <2>2 DEF PolicyInv, PolicyTypeOK
<1>4. OneHolder'
  <2> SUFFICES ASSUME NEW d \in Publications, NEW e \in Publications,
                      publication'[d].phase \in Holding, publication'[e].phase \in Holding,
                      PlatformOf[d] = PlatformOf[e]
               PROVE  d = e
    BY DEF OneHolder
  <2>1. HeadFree(PlatformOf[c]) =>
          \A f \in Publications : publication[f].phase \in Holding => PlatformOf[f] # PlatformOf[c]
    BY DEF HeadFree, Holding
  <2>2. CASE d # c /\ e # c
    BY <2>2, <1>2 DEF PolicyInv, OneHolder
  <2>3. CASE d = c /\ e # c
    BY <2>1, <2>3, <1>2 DEF PolicyInv, OneHolder
  <2>4. CASE d # c /\ e = c
    BY <2>1, <2>4, <1>2 DEF PolicyInv, OneHolder
  <2> QED  BY <2>2, <2>3, <2>4
<1>5. \A d \in Publications : HeldStands(d)'
  <2> SUFFICES ASSUME NEW d \in Publications PROVE HeldStands(d)'
    OBVIOUS
  <2>1. CASE d = c
    BY <2>1, <1>2 DEF HeldStands, Promotable
  <2>2. CASE d # c
    BY <2>2, <1>2 DEF PolicyInv, HeldStands, Promotable
  <2> QED  BY <2>1, <2>2
<1>6. \A d \in Publications : NotYet(d)'
  <2> SUFFICES ASSUME NEW d \in Publications PROVE NotYet(d)'
    OBVIOUS
  <2>1. publication'[d].phase \in Before => publication[d].phase \in Before
    BY <1>2
  <2>2. NotYet(d)
    BY DEF PolicyInv
  <2> QED  BY <2>1, <2>2 DEF NotYet
<1>7. /\ (\A p \in Platforms : DraftIsNewest(p))' /\ PublishesWhatWasSeen'
      /\ (\A w \in Servers : KeepsWhole(w))'
  BY DEF PolicyInv, DraftIsNewest, PublishesWhatWasSeen, KeepsWhole
<1> QED  BY <1>3, <1>4, <1>5, <1>6, <1>7 DEF PolicyInv

\* The count of numbers is unchanged when c keeps its side of it.
LEMMA SameNumbered ==
  ASSUME PolicyWorkload, PolicyInv, NEW c \in Publications, NEW s,
         SetPublication(c, s), UNCHANGED sequence,
         s.phase \in {"new", "locked"} <=> publication[c].phase \in {"new", "locked"}
  PROVE  (sequence = Cardinality(Numbered))'
<1>1. publication' = [publication EXCEPT ![c] = s] /\ DOMAIN publication = Publications
  BY FieldTypes DEF SetPublication, PolicyInv
<1>2. publication'[c] = s /\ \A d \in Publications \ {c} : publication'[d] = publication[d]
  BY <1>1
<1>3. \A d \in Publications :
        publication'[d].phase \in {"new", "locked"} <=> publication[d].phase \in {"new", "locked"}
  BY <1>2
<1>4. Numbered' = Numbered
  BY <1>3 DEF Numbered
<1> QED  BY <1>4 DEF PolicyInv

\* The steps of a command on its way to Redis, and the one that rolls it back.
LEMMA OnTheWay ==
  ASSUME PolicyWorkload, PolicyInv, NEW c \in Publications, NEW s \in Publishing,
         SetPublication(c, s), UNCHANGED <<head, history, sequence, durable, lookup>>,
         projected' \in Snaps,
         \/ /\ publication[c].phase \in {"accepted", "loaded", "put"}
            /\ s.phase \in {"accepted", "loaded", "put", "done"}
         \/ publication[c].phase = "locked" /\ s.phase = "new"
  PROVE  PolicyInv'
<1>1. (sequence = Cardinality(Numbered))'
  BY SameNumbered
<1>2. durable' \in Sequenced
  BY DEF PolicyInv, PolicyTypeOK
<1> QED  BY <1>1, <1>2, CommandMoves DEF Before, Holding

WayStep(c) ==
  \/ Abandon(c) \/ Compile(c) \/ Project(c) \/ FinishPropagation(c) \/ PropagationFails(c) \/ Resend(c)

LEMMA WaySteps == ASSUME PolicyWorkload, PolicyInv, NEW c \in Publications, WayStep(c) PROVE PolicyInv'
<1> DEFINE s == publication[c]
<1>1. /\ s \in Publishing /\ s.snap \in Snaps /\ s.phase \in Phases /\ projected \in Snaps
      /\ durable \in Sequenced /\ Blank \in Snaps /\ PolicyTypeOK
  BY FieldTypes, BlankSnapshot DEF PolicyInv
<1> HIDE DEF s
<1>2. CASE Abandon(c)
  <2>0. 0 \in Nat
    OBVIOUS
  <2>1. [s EXCEPT !.phase = "new", !.source = 0] \in Publishing
    BY <1>1, <2>0 DEF Publishing, Phases
  <2>2. [s EXCEPT !.phase = "new", !.source = 0].phase = "new"
    BY <1>1 DEF Publishing
  <2> QED  BY <2>1, <2>2, <1>1, <1>2, OnTheWay DEF Abandon, s
<1>3. CASE Compile(c)
  <2>1. PICK part \in {"revision", "policies"} :
          SetPublication(c, [s EXCEPT !.snap = QueryPart(s.snap, part),
                               !.phase = IF Whole(QueryPart(s.snap, part)) THEN "loaded" ELSE "accepted"])
    BY <1>3 DEF Compile, s
  <2> DEFINE q == QueryPart(s.snap, part)
             f == IF Whole(q) THEN "loaded" ELSE "accepted"
             m == [s EXCEPT !.snap = q, !.phase = f]
  <2>2. q \in Snaps /\ f \in {"loaded", "accepted"}
    BY <1>1, QueryTypes
  <2>3. SetPublication(c, m)
    BY <2>1
  <2> HIDE DEF q, f
  <2>4. m \in Publishing /\ m.phase = f
    BY <2>2, <1>1 DEF Publishing, Phases
  <2>5. s.phase = "accepted" /\ UNCHANGED <<head, history, sequence, durable, projected, lookup>>
    BY <1>3 DEF Compile, s
  <2> HIDE DEF m
  <2> QED  BY <2>2, <2>3, <2>4, <2>5, <1>1, OnTheWay DEF s
<1>4. CASE Project(c)
  <2>1. [s EXCEPT !.phase = "put", !.snap = Blank] \in Publishing
    BY <1>1 DEF Publishing, Phases
  <2>2. [s EXCEPT !.phase = "put", !.snap = Blank].phase = "put"
    BY <1>1 DEF Publishing
  <2> QED  BY <2>1, <2>2, <1>1, <1>4, OnTheWay DEF Project, s
<1>5. CASE FinishPropagation(c)
  <2> DEFINE r == IF Whole(projected) /\ projected.revision = s.projection
                    THEN "propagated" ELSE "propagation_failed"
  <2>1. s.phase = "put" /\ SetPublication(c, [s EXCEPT !.phase = "done", !.receipt = r])
        /\ UNCHANGED <<head, history, sequence, durable, projected, lookup>>
    BY <1>5 DEF FinishPropagation, s
  <2>2. r \in {"propagated", "propagation_failed"}
    OBVIOUS
  <2> HIDE DEF r
  <2>3. [s EXCEPT !.phase = "done", !.receipt = r] \in Publishing
    BY <1>1, <2>2 DEF Publishing, Phases
  <2>4. [s EXCEPT !.phase = "done", !.receipt = r].phase = "done"
    BY <1>1 DEF Publishing
  <2> QED  BY <2>1, <2>3, <2>4, <1>1, OnTheWay DEF s
<1>6. CASE PropagationFails(c)
  <2> DEFINE m == [s EXCEPT !.phase = "done", !.snap = Blank, !.receipt = "propagation_failed"]
  <2>1. m \in Publishing
    BY <1>1 DEF Publishing, Phases
  <2>2. m.phase = "done"
    BY <1>1 DEF Publishing
  <2>3. s.phase \in {"accepted", "loaded", "put"} /\ SetPublication(c, m)
        /\ UNCHANGED <<head, history, sequence, durable, projected, lookup>>
    BY <1>6 DEF PropagationFails, s
  <2> HIDE DEF m
  <2> QED  BY <2>1, <2>2, <2>3, <1>1, OnTheWay DEF s
<1>7. CASE Resend(c)
  <2> DEFINE m == [s EXCEPT !.phase = "accepted", !.snap = Blank, !.projection = durable]
  <2>1. m \in Publishing
    BY <1>1 DEF Publishing, Phases
  <2>2. m.phase = "accepted"
    BY <1>1 DEF Publishing
  <2>3. s.phase \in {"accepted", "loaded", "put"} /\ SetPublication(c, m)
        /\ UNCHANGED <<head, history, sequence, durable, projected, lookup>>
    BY <1>7 DEF Resend, s
  <2> HIDE DEF m
  <2> QED  BY <2>1, <2>2, <2>3, <1>1, OnTheWay DEF s
<1> QED  BY <1>2, <1>3, <1>4, <1>5, <1>6, <1>7 DEF WayStep

LEMMA LockSteps == ASSUME PolicyWorkload, PolicyInv, NEW c \in Publications, Lock(c) PROVE PolicyInv'
<1> DEFINE s == publication[c]
           p == PlatformOf[c]
<1>1. /\ s \in Publishing /\ p \in Platforms /\ head[p].newest \in Nat
      /\ projected \in Snaps /\ durable \in Sequenced
  BY FieldTypes DEF PolicyInv
<1>2. s.phase = "new" /\ HeadFree(p) /\ UNCHANGED <<head, history, sequence, durable, projected, lookup>>
  BY DEF Lock
<1>3. PICK r \in 1 .. head[p].newest :
        Promotable(p, KindOf[c], r) /\ SetPublication(c, [s EXCEPT !.phase = "locked", !.source = r])
  BY DEF Lock
<1> DEFINE m == [s EXCEPT !.phase = "locked", !.source = r]
<1>4. r \in Nat
  BY <1>1, <1>3
<1> HIDE DEF s, p
<1>5. m \in Publishing
  BY <1>1, <1>4 DEF Publishing, Phases
<1>6. m.phase = "locked" /\ m.source = r
  BY <1>1 DEF Publishing
<1>7. SetPublication(c, m)
  BY <1>3
<1> HIDE DEF m
<1>8. (sequence = Cardinality(Numbered))'
  BY <1>2, <1>6, <1>7, SameNumbered DEF s
<1> QED  BY <1>1, <1>2, <1>3, <1>5, <1>6, <1>7, <1>8, CommandMoves DEF Before, Holding, s, p

LEMMA NumberSteps == ASSUME PolicyWorkload, PolicyInv, NEW c \in Publications, Number(c) PROVE PolicyInv'
<1> DEFINE s == publication[c]
           p == PlatformOf[c]
           m == [s EXCEPT !.phase = "numbered", !.projection = sequence + 1]
<1>1. /\ s \in Publishing /\ p \in Platforms /\ projected \in Snaps /\ durable \in Sequenced
      /\ DOMAIN publication = Publications /\ HeldStands(c)
  BY FieldTypes DEF PolicyInv
<1>2. /\ s.phase = "locked" /\ head[p].newest < PolicyBound[p] /\ sequence' = sequence + 1
      /\ SetPublication(c, m) /\ UNCHANGED <<head, history, durable, projected, lookup>>
  BY DEF Number
<1> HIDE DEF s, p
<1>3. m.phase = "numbered" /\ m.source = s.source
  BY <1>1 DEF Publishing
<1>4. publication' = [publication EXCEPT ![c] = m]
  BY <1>2 DEF SetPublication
<1>5. Numbered' = Numbered \cup {c} /\ c \notin Numbered /\ Numbered \in SUBSET Publications
  <2> HIDE DEF m
  <2>1. publication'[c] = m /\ \A d \in Publications \ {c} : publication'[d] = publication[d]
    BY <1>1, <1>4
  <2> QED  BY <2>1, <1>2, <1>3 DEF Numbered, s
<1>6. (sequence = Cardinality(Numbered))' /\ sequence' \in Sequenced
  <2>1. IsFiniteSet(Numbered)
    BY <1>5, Sizes
  <2>2. Cardinality(Numbered') = Cardinality(Numbered) + 1 /\ Numbered' \in SUBSET Publications
    BY <2>1, <1>5, FS_AddElement
  <2> QED  BY <2>2, <1>2, Sizes DEF PolicyInv
<1>7. m \in Publishing
  BY <1>1, <1>2, <1>6 DEF Publishing, Phases
<1> HIDE DEF m
<1>8. s.source \in 1 .. head[p].newest /\ Promotable(p, KindOf[c], s.source)
  BY <1>1, <1>2 DEF HeldStands, Holding, s, p
<1> QED  BY <1>1, <1>2, <1>3, <1>6, <1>7, <1>8, CommandMoves DEF Before, Holding, s, p

---------------------------------------------------------------------------
(* Steps that change the head of a platform.                               *)

\* A head changes with no command holding it, but for the one that commits;
\* the commands that hold the others have what they found.
LEMMA HeadMoves ==
  ASSUME PolicyWorkload, PolicyInv, NEW p \in Platforms,
         \A q \in Platforms \ {p} : head'[q] = head[q] /\ history'[q] = history[q],
         \A d \in Publications : publication'[d].phase \in Holding =>
           publication'[d] = publication[d] /\ PlatformOf[d] # p
  PROVE  OneHolder' /\ \A d \in Publications : HeldStands(d)'
<1>1. \A d \in Publications : PlatformOf[d] \in Platforms
  BY DEF PolicyWorkload
<1>2. OneHolder'
  BY DEF PolicyInv, OneHolder
<1>3. ASSUME NEW d \in Publications PROVE HeldStands(d)'
  <2>1. CASE publication'[d].phase \in Holding
    <3>1. publication'[d] = publication[d] /\ head'[PlatformOf[d]] = head[PlatformOf[d]]
          /\ history'[PlatformOf[d]] = history[PlatformOf[d]]
      BY <2>1, <1>1
    <3>2. HeldStands(d)
      BY DEF PolicyInv
    <3> QED  BY <3>1, <3>2 DEF HeldStands, Promotable
  <2>2. CASE publication'[d].phase \notin Holding
    BY <2>2 DEF HeldStands, Holding
  <2> QED  BY <2>1, <2>2
<1> QED  BY <1>2, <1>3

LEMMA SaveSteps == ASSUME PolicyWorkload, PolicyInv, NEW p \in Platforms, SavePolicyDraft(p) PROVE PolicyInv'
<1> DEFINE next == head[p].newest + 1
           e == [kind |-> "draft", content |-> next, by |-> "editor"]
           h == [head[p] EXCEPT !.newest = next, !.draft = next]
<1>1. /\ HeadFree(p) /\ next < PolicyBound[p] /\ head' = [head EXCEPT ![p] = h]
      /\ history' = [history EXCEPT ![p] = Append(history[p], e)]
      /\ UNCHANGED <<sequence, durable, publication, projected, lookup>>
  BY DEF SavePolicyDraft, Append1
<1>2. /\ PolicyTypeOK /\ head[p] \in Heads /\ history[p] \in Seq(Entries) /\ head[p].newest = Len(history[p])
      /\ DOMAIN head = Platforms /\ DOMAIN history = Platforms /\ head[p].newest \in Nat
      /\ PolicyBound[p] \in Nat
  BY FieldTypes DEF PolicyInv, PolicyWorkload
<1>3. next \in Nat /\ next \in Nat \ {0} /\ next # 0
  BY <1>1, <1>2
<1> HIDE DEF next
<1>4. e \in Entries /\ e.kind = "draft" /\ e.by = "editor"
  BY <1>3 DEF Entries, EntryKinds
<1>5. h \in Heads /\ h.newest = next /\ h.draft = next
  BY <1>2, <1>3 DEF Heads
<1> HIDE DEF e, h
<1> DEFINE g == Append(history[p], e)
<1>6. g \in Seq(Entries) /\ Len(g) = next /\ g[next] = e /\ \A n \in 1 .. Len(history[p]) : g[n] = history[p][n]
  BY <1>2, <1>4, AppendForms DEF next
<1> HIDE DEF g
<1>7. /\ history'[p] = g /\ head'[p] = h
      /\ \A q \in Platforms \ {p} : head'[q] = head[q] /\ history'[q] = history[q]
  BY <1>1, <1>2 DEF g
<1>8. PolicyTypeOK'
  <2>1. head' \in [Platforms -> Heads] /\ history' \in [Platforms -> Seq(Entries)]
    BY <1>1, <1>2, <1>5, <1>6 DEF PolicyTypeOK, g
  <2>2. \A q \in Platforms : head'[q].newest = Len(history'[q])
    BY <1>2, <1>5, <1>6, <1>7 DEF PolicyTypeOK
  <2> QED  BY <2>1, <2>2, <1>1, <1>2 DEF PolicyTypeOK
<1>9. \A q \in Platforms : DraftIsNewest(q)'
  BY <1>4, <1>5, <1>6, <1>7 DEF PolicyInv, DraftIsNewest
<1>10. OneHolder' /\ \A d \in Publications : HeldStands(d)'
  <2>1. \A d \in Publications : publication[d].phase \in Holding => PlatformOf[d] # p
    BY <1>1 DEF HeadFree, Holding
  <2> QED  BY <2>1, <1>1, <1>7, HeadMoves
<1>11. \A d \in Publications : NotYet(d)'
  <2> SUFFICES ASSUME NEW d \in Publications, publication[d].phase \in Before,
                      NEW q \in Platforms, NEW n \in 1 .. Len(history'[q])
               PROVE  history'[q][n].by # d
    BY <1>1 DEF NotYet
  <2>1. \A r \in Platforms : \A m \in 1 .. Len(history[r]) : history[r][m].by # d
    BY DEF PolicyInv, NotYet
  <2>2. d # "editor"
    BY DEF PolicyWorkload
  <2>3. CASE q # p
    BY <2>1, <2>3, <1>7
  <2>4. CASE q = p
    <3>1. n \in 1 .. Len(history[p]) \/ n = next
      BY <2>4, <1>2, <1>6, <1>7 DEF next
    <3> QED  BY <2>1, <2>2, <2>4, <3>1, <1>4, <1>6, <1>7
  <2> QED  BY <2>3, <2>4
<1>12. PublishesWhatWasSeen'
  <2>1. \A n \in 1 .. Len(history[p]) : AsSeen(history[p], n)
    BY EveryEntryAsSeen DEF PolicyInv
  <2>2. \A n \in 1 .. Len(g) : AsSeen(g, n)
    BY <2>1, <1>2, <1>4, AppendAsSeen DEF g
  <2>3. \A q \in Platforms : \A n \in 1 .. Len(history'[q]) : AsSeen(history'[q], n)
    BY <2>2, <1>7, EveryEntryAsSeen DEF PolicyInv
  <2> QED  BY <2>3 DEF PublishesWhatWasSeen, AsSeen
<1>13. (sequence = Cardinality(Numbered))' /\ (\A w \in Servers : KeepsWhole(w))'
  BY <1>1 DEF PolicyInv, Numbered, KeepsWhole
<1> QED  BY <1>8, <1>9, <1>10, <1>11, <1>12, <1>13 DEF PolicyInv

LEMMA DiscardSteps == ASSUME PolicyWorkload, PolicyInv, NEW p \in Platforms, DiscardPolicy(p) PROVE PolicyInv'
<1> DEFINE h == [head[p] EXCEPT !.draft = 0]
<1>1. /\ HeadFree(p) /\ head' = [head EXCEPT ![p] = h]
      /\ UNCHANGED <<history, sequence, durable, publication, projected, lookup>>
  BY DEF DiscardPolicy
<1>2. PolicyTypeOK /\ head[p] \in Heads /\ DOMAIN head = Platforms
  BY FieldTypes DEF PolicyInv
<1>3. 0 \in Nat
  OBVIOUS
<1>4. h \in Heads /\ h.draft = 0 /\ h.newest = head[p].newest
  BY <1>2, <1>3 DEF Heads
<1> HIDE DEF h
<1>5. head'[p] = h /\ \A q \in Platforms \ {p} : head'[q] = head[q]
  BY <1>1, <1>2
<1>6. PolicyTypeOK'
  <2>1. head' \in [Platforms -> Heads]
    BY <1>1, <1>2, <1>4 DEF PolicyTypeOK
  <2>2. \A q \in Platforms : head'[q].newest = head[q].newest
    BY <1>4, <1>5
  <2> QED  BY <2>1, <2>2, <1>1, <1>2 DEF PolicyTypeOK
<1>7. \A q \in Platforms : DraftIsNewest(q)'
  BY <1>1, <1>4, <1>5 DEF PolicyInv, DraftIsNewest
<1>8. OneHolder' /\ \A d \in Publications : HeldStands(d)'
  <2>1. \A d \in Publications : publication[d].phase \in Holding => PlatformOf[d] # p
    BY <1>1 DEF HeadFree, Holding
  <2> QED  BY <2>1, <1>1, <1>5, HeadMoves
<1>9. /\ \A d \in Publications : NotYet(d)'
      /\ PublishesWhatWasSeen' /\ (sequence = Cardinality(Numbered))' /\ (\A w \in Servers : KeepsWhole(w))'
  BY <1>1 DEF PolicyInv, NotYet, PublishesWhatWasSeen, Numbered, KeepsWhole
<1> QED  BY <1>6, <1>7, <1>8, <1>9 DEF PolicyInv

LEMMA PromoteSteps == ASSUME PolicyWorkload, PolicyInv, NEW c \in Publications, PromotePolicy(c) PROVE PolicyInv'
<1> DEFINE s == publication[c]
           p == PlatformOf[c]
           next == head[p].newest + 1
           e == [kind |-> KindOf[c], content |-> history[p][s.source].content, by |-> c]
           h == [newest |-> next, draft |-> 0, published |-> next]
           m == [s EXCEPT !.phase = "accepted", !.receipt = "propagating"]
           g == Append(history[p], e)
<1>1. /\ s.phase = "numbered" /\ head' = [head EXCEPT ![p] = h] /\ history' = [history EXCEPT ![p] = g]
      /\ durable' = s.projection /\ SetPublication(c, m) /\ UNCHANGED <<sequence, projected, lookup>>
  BY DEF PromotePolicy, Append1
<1>2. /\ PolicyTypeOK /\ p \in Platforms /\ head[p] \in Heads /\ history[p] \in Seq(Entries)
      /\ head[p].newest = Len(history[p]) /\ head[p].newest \in Nat
      /\ DOMAIN head = Platforms /\ DOMAIN history = Platforms /\ DOMAIN publication = Publications
      /\ PolicyBound[p] \in Nat /\ KindOf[c] \in {"published", "rollback"} /\ c # "editor"
      /\ s \in Publishing /\ s.projection \in Sequenced
  BY FieldTypes DEF PolicyInv, PolicyWorkload
<1>3. /\ s.source \in 1 .. head[p].newest /\ Promotable(p, KindOf[c], s.source)
      /\ head[p].newest < PolicyBound[p]
  BY <1>1 DEF PolicyInv, HeldStands, Holding
<1> HIDE DEF s, p
<1>4. next \in Nat /\ 0 \in Nat /\ s.source \in 1 .. Len(history[p])
  BY <1>2, <1>3
<1> HIDE DEF next
<1>5. e \in Entries /\ e.kind = KindOf[c] /\ e.by = c /\ e.content = history[p][s.source].content
  <2>1. history[p][s.source] \in Entries
    BY <1>2, <1>4
  <2> QED  BY <2>1, <1>2 DEF Entries, EntryKinds
<1>6. h \in Heads /\ h.newest = next /\ h.draft = 0
  BY <1>4 DEF Heads
<1>7. m \in Publishing /\ m.phase = "accepted"
  BY <1>2 DEF Publishing, Phases
<1> HIDE DEF e, h, m
<1>8. g \in Seq(Entries) /\ Len(g) = next /\ g[next] = e /\ \A n \in 1 .. Len(history[p]) : g[n] = history[p][n]
  BY <1>2, <1>5, AppendForms DEF next
<1> HIDE DEF g
<1>9. /\ history'[p] = g /\ head'[p] = h /\ publication'[c] = m
      /\ \A q \in Platforms \ {p} : head'[q] = head[q] /\ history'[q] = history[q]
      /\ \A d \in Publications \ {c} : publication'[d] = publication[d]
  BY <1>1, <1>2 DEF SetPublication
<1>10. (sequence = Cardinality(Numbered))'
  BY <1>1, <1>7, SameNumbered DEF s
<1>11. PolicyTypeOK'
  <2>1. /\ head' \in [Platforms -> Heads] /\ history' \in [Platforms -> Seq(Entries)]
        /\ publication' \in [Publications -> Publishing]
    BY <1>1, <1>2, <1>6, <1>7, <1>8 DEF PolicyTypeOK, SetPublication
  <2>2. \A q \in Platforms : head'[q].newest = Len(history'[q])
    BY <1>2, <1>6, <1>8, <1>9 DEF PolicyTypeOK
  <2> QED  BY <2>1, <2>2, <1>1, <1>2 DEF PolicyTypeOK
<1>12. \A q \in Platforms : DraftIsNewest(q)'
  BY <1>6, <1>9 DEF PolicyInv, DraftIsNewest
<1>13. OneHolder' /\ \A d \in Publications : HeldStands(d)'
  <2>1. \A d \in Publications : publication'[d].phase \in Holding =>
          publication'[d] = publication[d] /\ PlatformOf[d] # p
    <3>1. publication'[c].phase \notin Holding
      BY <1>7, <1>9 DEF Holding
    <3>2. publication[c].phase \in Holding
      BY <1>1 DEF Holding, s
    <3> QED  BY <3>1, <3>2, <1>9 DEF PolicyInv, OneHolder, p
  <2> QED  BY <2>1, <1>2, <1>9, HeadMoves
<1>14. \A d \in Publications : NotYet(d)'
  <2> SUFFICES ASSUME NEW d \in Publications, publication'[d].phase \in Before,
                      NEW q \in Platforms, NEW n \in 1 .. Len(history'[q])
               PROVE  history'[q][n].by # d
    BY DEF NotYet
  <2>1. d # c /\ publication[d].phase \in Before
    BY <1>7, <1>9 DEF Before, Holding
  <2>2. \A r \in Platforms : \A k \in 1 .. Len(history[r]) : history[r][k].by # d
    BY <2>1 DEF PolicyInv, NotYet
  <2>3. CASE q # p
    BY <2>2, <2>3, <1>9
  <2>4. CASE q = p
    <3>1. n \in 1 .. Len(history[p]) \/ n = next
      BY <2>4, <1>2, <1>8, <1>9 DEF next
    <3> QED  BY <2>1, <2>2, <2>4, <3>1, <1>2, <1>5, <1>8, <1>9
  <2> QED  BY <2>3, <2>4
<1>15. PublishesWhatWasSeen'
  <2>1. \A n \in 1 .. Len(history[p]) : AsSeen(history[p], n)
    BY <1>2, EveryEntryAsSeen DEF PolicyInv
  <2>2. e.kind = "published" => Len(history[p]) > 0 /\ history[p][Len(history[p])].kind = "draft"
                                /\ e.content = history[p][Len(history[p])].content
    <3> SUFFICES ASSUME KindOf[c] = "published"
                 PROVE  /\ Len(history[p]) > 0 /\ history[p][Len(history[p])].kind = "draft"
                        /\ e.content = history[p][Len(history[p])].content
      BY <1>5
    <3>1. s.source = head[p].draft /\ s.source # 0 /\ Len(history[p]) > 0
      BY <1>2, <1>3 DEF Promotable
    <3>2. DraftIsNewest(p)
      BY <1>2 DEF PolicyInv
    <3> QED  BY <3>1, <3>2, <1>2, <1>5 DEF DraftIsNewest
  <2>3. e.kind = "rollback" =>
          \E o \in 1 .. Len(history[p]) : history[p][o].kind # "draft" /\ history[p][o].content = e.content
    BY <1>3, <1>4, <1>5 DEF Promotable
  <2>4. \A o \in 1 .. Len(history[p]) : history[p][o].by # e.by
    <3>1. NotYet(c) /\ publication[c].phase \in Before
      BY <1>1 DEF PolicyInv, Before, Holding, s
    <3> QED  BY <3>1, <1>2, <1>5 DEF NotYet
  <2>5. \A n \in 1 .. Len(g) : AsSeen(g, n)
    BY <2>1, <2>2, <2>3, <2>4, <1>2, <1>5, AppendAsSeen DEF g
  <2>6. \A q \in Platforms : \A n \in 1 .. Len(history'[q]) : AsSeen(history'[q], n)
    BY <2>5, <1>9, EveryEntryAsSeen DEF PolicyInv
  <2> QED  BY <2>6 DEF PublishesWhatWasSeen, AsSeen
<1>16. (\A w \in Servers : KeepsWhole(w))'
  BY <1>1 DEF PolicyInv, KeepsWhole
<1> QED  BY <1>10, <1>11, <1>12, <1>13, <1>14, <1>15, <1>16 DEF PolicyInv

---------------------------------------------------------------------------
(* The theorems.                                                           *)

LEMMA PolicyNextHolds == ASSUME PolicyWorkload, PolicyInv, [PolicyNext]_policyVars PROVE PolicyInv'
<1>1. CASE \E p \in Platforms : SavePolicyDraft(p) \/ DiscardPolicy(p)
  BY <1>1, SaveSteps, DiscardSteps
<1>2. CASE \E c \in Publications : WayStep(c) \/ Lock(c) \/ Number(c) \/ PromotePolicy(c)
  BY <1>2, WaySteps, LockSteps, NumberSteps, PromoteSteps
<1>3. CASE WorkerStep
  BY <1>3, WorkerSteps
<1>4. CASE ExpireProjection
  BY <1>4, ExpirySteps
<1>5. CASE UNCHANGED policyVars
  <2>1. UNCHANGED <<head, history, sequence, durable, publication, projected, lookup>>
    BY <1>5 DEF policyVars
  <2>2. PolicyTypeOK'
    BY <2>1 DEF PolicyInv, PolicyTypeOK
  <2>3. (\A w \in Servers : KeepsWhole(w))'
    BY <2>1 DEF PolicyInv, KeepsWhole
  <2> QED  BY <2>1, <2>2, <2>3, SamePolicies DEF PolicyInv
<1>6. ASSUME NEW c \in Publications,
             \/ Lock(c) \/ Number(c) \/ PromotePolicy(c) \/ Abandon(c) \/ Compile(c)
             \/ Project(c) \/ FinishPropagation(c) \/ PropagationFails(c) \/ Resend(c)
      PROVE  PolicyInv'
  BY <1>2, <1>6 DEF WayStep
<1>7. ASSUME NEW w \in Servers,
             \/ ReadProjection(w) \/ UseProjection(w) \/ TurnToDatabase(w) \/ QueryDatabase(w)
             \/ UseDatabase(w) \/ ServerRestart(w)
      PROVE  PolicyInv'
  BY <1>3, <1>7 DEF WorkerStep
<1> QED  BY <1>1, <1>4, <1>5, <1>6, <1>7 DEF PolicyNext

\* A step that is not a worker's leaves what the workers keep.
LEMMA KeptMoves == ASSUME PolicyWorkload, PolicyInv, [PolicyNext]_policyVars PROVE NewerUsed
<1>1. CASE WorkerStep
  BY <1>1, WorkerSteps
<1>2. CASE UNCHANGED lookup
  <2>1. \A w \in Servers : lookup[w].kept.revision \in Nat
    BY Sizes DEF PolicyInv, PolicyTypeOK, Snaps
  <2> QED  BY <1>2, <2>1 DEF NewerUsed
<1>3. WorkerStep \/ UNCHANGED lookup
  BY DEF PolicyNext, WorkerStep, policyVars, SavePolicyDraft, DiscardPolicy, Lock,
         Number, PromotePolicy, Abandon, Compile, Project,
         FinishPropagation, PropagationFails, Resend, ExpireProjection
<1> QED  BY <1>1, <1>2, <1>3

\* The invariant of the route policies (admin-route-policy.ts): every variable
\* keeps its type, a draft is the newest revision of its platform, one command
\* at a time holds a head, and what it may copy when it locked it stands.
THEOREM PolicyInvariant == ASSUME PolicyWorkload PROVE PolicySpec => []PolicyInv
<1>1. PolicyInit => PolicyInv
  BY PolicyInitHolds
<1>2. PolicyInv /\ [PolicyNext]_policyVars => PolicyInv'
  BY PolicyNextHolds
<1> QED  BY <1>1, <1>2, PTL DEF PolicySpec

\* A publication is the draft its administrator saw, whatever is saved,
\* discarded, published or rolled back around it, and a command resent after
\* a crash adds no second revision (publishRoutePolicy, rollbackRoutePolicy).
THEOREM PublicationsAreAsSeen == ASSUME PolicyWorkload PROVE PolicySpec => []PublishesWhatWasSeen
<1>1. PolicyInv => PublishesWhatWasSeen
  BY DEF PolicyInv
<1> QED  BY <1>1, PolicyInvariant, PTL

\* A worker never goes back to an older projection than one it used, from
\* Redis or from PostgreSQL (RuntimeRoutePolicySource.get).
THEOREM WorkersNeverGoBack == ASSUME PolicyWorkload PROVE PolicySpec => UsedNeverRegresses
<1>1. PolicyInv /\ [PolicyNext]_policyVars => [NewerUsed]_policyVars
  BY KeptMoves
<1> QED  BY <1>1, PolicyInvariant, PTL DEF PolicySpec, UsedNeverRegresses

---------------------------------------------------------------------------
(* The content of the site.  What a snapshot holds stays published once it *)
(* is; and a command whose receipt is on record does not insert again.     *)

\* The pages of v are no unfinished drafts of g.
Sound(g, v) ==
  \A p \in Pages : v[p] # 0 => v[p] \in 1 .. Len(g[p].states) /\ g[p].states[v[p]] # "draft"

\* What a command has or knows of a snapshot, there is a snapshot for.
Underway(s) == s.phase \in {"committed", "accepted", "answered", "marked"} \/ Replayed(s)

\* An acknowledgement is kept until it is used, and is of a homepage.
AcknowledgedHome(s) == s.ok => s.phase \in {"answered", "marked"} /\ s.pages[Home] # 0

ContentInv ==
  /\ ContentTypeOK
  /\ \A c \in ContentCommands :
       /\ Sound(page, order[c].pages) /\ AcknowledgedHome(order[c])
       /\ Underway(order[c]) => Latest > 0
  /\ \A r \in 1 .. Latest : Sound(page, snapshots[r].pages) /\ Replayed(order[snapshots[r].by])
  /\ ActiveHasHomepage
  /\ OneSnapshotPerCommand

LEMMA ContentFields ==
  ASSUME ContentWorkload, ContentTypeOK
  PROVE  /\ Latest \in Nat /\ Latest <= SnapshotBound /\ active \in 0 .. Latest /\ active \in 0 .. SnapshotBound
         /\ DOMAIN order = ContentCommands /\ DOMAIN page = Pages
         /\ \A c \in ContentCommands : order[c] \in Order
         /\ \A p \in Pages : page[p] \in PageRow
         /\ \A r \in 1 .. Latest : snapshots[r] \in Snapshot
         /\ Home \in Pages /\ SnapshotBound \in Nat /\ AttemptLimit \in Nat
BY DEF ContentWorkload, ContentTypeOK, Latest

LEMMA OrderFields ==
  ASSUME NEW s \in Order
  PROVE  /\ s.phase \in {"new", "viewed", "built", "committed", "accepted", "answered", "marked", "done"}
         /\ s.kind \in OrderKinds /\ s.revision \in 0 .. SnapshotBound + 1 /\ s.pages \in Contents
         /\ s.paths \in SUBSET Pages /\ s.previous \in 0 .. SnapshotBound /\ s.ok \in BOOLEAN
         /\ s.receipt \in {"none", "propagating", "propagated", "propagation_failed"}
BY DEF Order

\* Nothing that is published becomes a draft again.
Keeps(g, h) ==
  \A p \in Pages : \A v \in 1 .. Len(g[p].states) :
    g[p].states[v] # "draft" => v \in 1 .. Len(h[p].states) /\ h[p].states[v] # "draft"

LEMMA SoundStays ==
  ASSUME NEW g, NEW h, NEW v, Keeps(g, h), Sound(g, v)
  PROVE  Sound(h, v)
BY DEF Keeps, Sound

\* The pages and their drafts have their types.
PagesOK(g) ==
  /\ g \in [Pages -> PageRow]
  /\ \A p \in Pages : {g[p].draft, g[p].published} \ {0} \subseteq 1 .. Len(g[p].states)

\* A row of the snapshots changes in its state and attempts only; the new row,
\* if there is one, is of a command that had no receipt and has one now.
LEMMA ContentMoves ==
  ASSUME ContentWorkload, ContentInv, NEW c \in ContentCommands, NEW s \in Order,
         order' = [order EXCEPT ![c] = s],
         PagesOK(page'), Keeps(page, page'),
         Sound(page', s.pages), AcknowledgedHome(s), Underway(s) => Latest' > 0,
         Replayed(order[c]) => Replayed(s),
         snapshots' \in Seq(Snapshot), Latest' <= SnapshotBound, Latest <= Latest',
         \A r \in 1 .. Latest : /\ snapshots'[r].pages = snapshots[r].pages
                                /\ snapshots'[r].by = snapshots[r].by,
         \A r \in 1 .. Latest' : r \in 1 .. Latest \/
           /\ r = Latest + 1 /\ snapshots'[r].by = c /\ Sound(page', snapshots'[r].pages)
           /\ ~Replayed(order[c]) /\ Replayed(s),
         active' \in 0 .. Latest,
         active' # 0 => snapshots[active'].pages[Home] # 0
  PROVE  ContentInv'
<1> USE ContentFields DEF ContentInv
<1>1. Latest' \in Nat /\ Latest' = Len(snapshots') /\ Latest \in Nat
  BY DEF Latest
<1>2. ContentTypeOK'
  <2>1. order' \in [ContentCommands -> Order]
    BY DEF ContentTypeOK
  <2>2. active' \in 0 .. Len(snapshots')
    BY <1>1
  <2> QED  BY <2>1, <2>2, <1>1 DEF ContentTypeOK, PagesOK
<1>3. ASSUME NEW d \in ContentCommands
      PROVE  /\ Sound(page', order'[d].pages) /\ AcknowledgedHome(order'[d])
             /\ Underway(order'[d]) => Latest' > 0
             /\ Replayed(order[d]) => Replayed(order'[d])
  <2>1. CASE d = c
    <3>1. order'[d] = s
      BY <2>1
    <3> QED  BY <3>1, <2>1
  <2>2. CASE d # c
    <3>1. order'[d] = order[d]
      BY <2>2
    <3>2. Sound(page', order[d].pages)
      BY SoundStays
    <3> QED  BY <3>1, <3>2, <1>1
  <2> QED  BY <2>1, <2>2
<1>4. order'[c] = s
  OBVIOUS
<1>5. ASSUME NEW r \in 1 .. Latest'
      PROVE  Sound(page', snapshots'[r].pages) /\ Replayed(order'[snapshots'[r].by])
  <2>1. CASE r \in 1 .. Latest
    <3>1. Sound(page', snapshots[r].pages)
      BY <2>1, SoundStays
    <3>2. snapshots[r].by \in ContentCommands /\ Replayed(order[snapshots[r].by])
      BY <2>1 DEF Snapshot
    <3> QED  BY <2>1, <3>1, <3>2, <1>3
  <2> QED  BY <2>1, <1>4
<1>6. ActiveHasHomepage'
  BY <1>1 DEF ActiveHasHomepage
<1>7. OneSnapshotPerCommand'
  <2> SUFFICES ASSUME NEW q \in 1 .. Latest', NEW r \in 1 .. Latest', snapshots'[q].by = snapshots'[r].by
               PROVE  q = r
    BY DEF OneSnapshotPerCommand
  <2>1. CASE q \in 1 .. Latest /\ r \in 1 .. Latest
    BY <2>1 DEF OneSnapshotPerCommand
  <2>2. CASE q \in 1 .. Latest /\ r \notin 1 .. Latest
    <3>1. snapshots[q].by = c /\ ~Replayed(order[c])
      BY <2>2
    <3> QED  BY <3>1, <2>2
  <2>3. CASE q \notin 1 .. Latest /\ r \in 1 .. Latest
    <3>1. snapshots[r].by = c /\ ~Replayed(order[c])
      BY <2>3
    <3> QED  BY <3>1, <2>3
  <2>4. CASE q \notin 1 .. Latest /\ r \notin 1 .. Latest
    BY <2>4
  <2> QED  BY <2>1, <2>2, <2>3, <2>4
<1> QED  BY <1>2, <1>3, <1>5, <1>6, <1>7

LEMMA KeepsItself == ASSUME ContentTypeOK PROVE Keeps(page, page) /\ PagesOK(page)
BY DEF Keeps, PagesOK, ContentTypeOK

\* A step that changes what one command is doing, and nothing else.
LEMMA OrderMoves ==
  ASSUME ContentWorkload, ContentInv, NEW c \in ContentCommands, NEW s \in Order,
         SetOrder(c, s), UNCHANGED <<page, snapshots, active>>,
         Sound(page, s.pages), AcknowledgedHome(s), Underway(s) => Latest > 0,
         Replayed(order[c]) => Replayed(s)
  PROVE  ContentInv'
<1>1. PagesOK(page') /\ Keeps(page, page') /\ Sound(page', s.pages)
  BY KeepsItself DEF ContentInv
<1>2. Latest' = Latest /\ Latest \in Nat /\ Latest <= SnapshotBound /\ snapshots \in Seq(Snapshot)
  BY ContentFields DEF ContentInv, ContentTypeOK, Latest
<1>3. active \in 0 .. Latest /\ (active # 0 => snapshots[active].pages[Home] # 0)
  BY ContentFields DEF ContentInv, ActiveHasHomepage
<1>4. /\ snapshots' \in Seq(Snapshot) /\ Latest' <= SnapshotBound /\ Latest <= Latest'
      /\ Underway(s) => Latest' > 0
  BY <1>2
<1>5. /\ \A r \in 1 .. Latest : /\ snapshots'[r].pages = snapshots[r].pages
                                /\ snapshots'[r].by = snapshots[r].by
      /\ \A r \in 1 .. Latest' : r \in 1 .. Latest
  BY <1>2
<1>6. active' \in 0 .. Latest /\ (active' # 0 => snapshots[active'].pages[Home] # 0)
  BY <1>3
<1>7. order' = [order EXCEPT ![c] = s]
  BY DEF SetOrder
<1> QED  BY <1>1, <1>4, <1>5, <1>6, <1>7, ContentMoves

\* A step of the drafts.
LEMMA PageMoves ==
  ASSUME ContentWorkload, ContentInv, UNCHANGED <<snapshots, active, order>>,
         PagesOK(page'), Keeps(page, page')
  PROVE  ContentInv'
<1>1. Latest' = Latest
  BY DEF Latest
<1>2. ContentTypeOK'
  BY DEF ContentInv, ContentTypeOK, PagesOK
<1>3. \A c \in ContentCommands : Sound(page', order[c].pages)
  BY SoundStays DEF ContentInv
<1>4. \A r \in 1 .. Latest : Sound(page', snapshots[r].pages)
  BY SoundStays DEF ContentInv
<1>5. ActiveHasHomepage' /\ OneSnapshotPerCommand'
  BY <1>1 DEF ContentInv, ActiveHasHomepage, OneSnapshotPerCommand
<1> QED  BY <1>1, <1>2, <1>3, <1>4, <1>5 DEF ContentInv

LEMMA IdleForm ==
  ASSUME ContentWorkload
  PROVE  /\ Idle \in Order /\ Idle.phase = "new" /\ Idle.kind = "publish" /\ Idle.ok = FALSE
         /\ Idle.receipt = "none" /\ \A p \in Pages : Idle.pages[p] = 0
<1>1. [p \in Pages |-> 0] \in Contents /\ 0 \in 0 .. SnapshotBound /\ 0 \in 0 .. SnapshotBound + 1
  BY DEF Contents, ContentWorkload
<1> QED  BY <1>1 DEF Idle, Order, OrderKinds

LEMMA ContentInitHolds == ASSUME ContentWorkload, ContentInit PROVE ContentInv
<1> USE DEF ContentInit
<1>1. Latest = 0 /\ active = 0 /\ snapshots = <<>>
  BY DEF Latest
<1>2. \A p \in Pages : page[p] = [draft |-> 0, published |-> 0, states |-> <<>>]
  OBVIOUS
<1>3. [draft |-> 0, published |-> 0, states |-> <<>>] \in PageRow
  BY DEF PageRow
<1>4. \A c \in ContentCommands : order[c] = Idle
  OBVIOUS
<1>5. ContentTypeOK
  <2>1. order \in [ContentCommands -> Order]
    BY IdleForm
  <2>2. page \in [Pages -> PageRow] /\ \A p \in Pages : {page[p].draft, page[p].published} \ {0} = {}
    BY <1>2, <1>3
  <2>3. snapshots \in Seq(Snapshot) /\ Len(snapshots) = 0 /\ SnapshotBound \in Nat
    BY <1>1 DEF ContentWorkload
  <2> QED  BY <1>1, <2>1, <2>2, <2>3 DEF ContentTypeOK
<1>6. \A c \in ContentCommands :
        Sound(page, order[c].pages) /\ AcknowledgedHome(order[c]) /\ ~Underway(order[c])
  BY <1>4, IdleForm DEF Sound, AcknowledgedHome, Underway, Replayed
<1> QED  BY <1>1, <1>5, <1>6 DEF ContentInv, ActiveHasHomepage, OneSnapshotPerCommand

\* What the service makes of a command it is done with, or that is sent again.
LEMMA FinishMoves ==
  ASSUME ContentWorkload, NEW f \in {"new", "done"}, NEW k \in OrderKinds,
         NEW r \in {"none", "propagating", "propagated", "propagation_failed"},
         NEW s, s = [Idle EXCEPT !.phase = f, !.kind = k, !.receipt = r],
         r # "none" => Latest > 0
  PROVE  /\ s \in Order /\ Sound(page, s.pages) /\ AcknowledgedHome(s) /\ (Underway(s) => Latest > 0)
<1>1. /\ s \in Order /\ s.phase = f /\ s.receipt = r /\ s.ok = FALSE /\ \A p \in Pages : s.pages[p] = 0
  BY IdleForm DEF Order
<1> HIDE DEF Idle
<1> QED  BY <1>1 DEF Sound, AcknowledgedHome, Underway, Replayed

LEMMA FinishOnly ==
  ASSUME ContentWorkload, ContentInv, NEW c \in ContentCommands,
         NEW r \in {"none", "propagating", "propagated", "propagation_failed"},
         Finish(c, r), UNCHANGED <<page, snapshots, active>>,
         r # "none" => Latest > 0, Replayed(order[c]) => r # "none"
  PROVE  ContentInv'
<1> DEFINE s == [Idle EXCEPT !.phase = "done", !.kind = order[c].kind, !.receipt = r]
<1>1. order[c].kind \in OrderKinds
  BY ContentFields, OrderFields DEF ContentInv
<1>2. s.receipt = r
  BY DEF Idle
<1>3. s \in Order /\ Sound(page, s.pages) /\ AcknowledgedHome(s) /\ (Underway(s) => Latest > 0)
  BY <1>1, FinishMoves
<1>4. SetOrder(c, s)
  BY DEF Finish
<1> HIDE DEF s
<1> QED  BY <1>2, <1>3, <1>4, OrderMoves DEF Replayed

---------------------------------------------------------------------------
(* The drafts.                                                             *)

LEMMA PageFields ==
  ASSUME ContentTypeOK, NEW p \in Pages
  PROVE  /\ page[p] \in PageRow /\ page[p].draft \in Nat /\ page[p].published \in Nat
         /\ page[p].states \in Seq({"draft", "ready", "published"}) /\ Len(page[p].states) \in Nat
         /\ page[p].draft # 0 => page[p].draft \in 1 .. Len(page[p].states)
         /\ page[p].published # 0 => page[p].published \in 1 .. Len(page[p].states)
BY DEF ContentTypeOK, PageRow

\* One page that keeps its types and what is published of it.
LEMMA OnePage ==
  ASSUME ContentTypeOK, NEW p \in Pages, NEW h \in PageRow,
         {h.draft, h.published} \ {0} \subseteq 1 .. Len(h.states),
         \A v \in 1 .. Len(page[p].states) :
           page[p].states[v] # "draft" => v \in 1 .. Len(h.states) /\ h.states[v] # "draft"
  PROVE  PagesOK([page EXCEPT ![p] = h]) /\ Keeps(page, [page EXCEPT ![p] = h])
<1> DEFINE g == [page EXCEPT ![p] = h]
<1>1. g \in [Pages -> PageRow] /\ g[p] = h /\ \A q \in Pages : q # p => g[q] = page[q]
  BY DEF ContentTypeOK
<1>2. \A q \in Pages : {page[q].draft, page[q].published} \ {0} \subseteq 1 .. Len(page[q].states)
  BY DEF ContentTypeOK
<1> HIDE DEF g
<1>3. PagesOK(g)
  BY <1>1, <1>2 DEF PagesOK
<1>4. Keeps(page, g)
  BY <1>1 DEF Keeps
<1> QED  BY <1>3, <1>4 DEF g

LEMMA SavePageSteps == ASSUME ContentWorkload, ContentInv, NEW p \in Pages, SavePage(p) PROVE ContentInv'
<1> DEFINE row == page[p]
           next == Len(row.states) + 1
<1>1. ContentTypeOK
  BY DEF ContentInv
<1>2. PICK state \in {"draft", "ready"} :
        page' = [page EXCEPT ![p] = [row EXCEPT !.draft = next, !.states = Append(row.states, state)]]
  BY DEF SavePage
<1> DEFINE added == Append(row.states, state)
           h == [row EXCEPT !.draft = next, !.states = added]
<1>3. next \in Nat \ {0}
  <2>1. next <= PageBound[p] /\ PageBound[p] \in Nat /\ Len(row.states) \in Nat
    BY <1>1, PageFields DEF SavePage, ContentWorkload
  <2> QED  BY <2>1
<1>4. /\ added \in Seq({"draft", "ready", "published"}) /\ Len(added) = next
      /\ \A v \in 1 .. Len(row.states) : v \in 1 .. Len(added) /\ added[v] = row.states[v]
  BY <1>1, PageFields
<1>5. /\ h \in PageRow /\ h.draft = next /\ h.published = row.published /\ h.states = added
  <2>1. row \in [draft : Nat, published : Nat, states : Seq({"draft", "ready", "published"})]
    BY <1>1, PageFields DEF PageRow
  <2>2. next \in Nat
    BY <1>3
  <2> HIDE DEF row, next, added
  <2> QED  BY <1>4, <2>1, <2>2 DEF PageRow
<1>6. {h.draft, h.published} \ {0} \subseteq 1 .. Len(h.states)
  BY <1>1, <1>3, <1>4, <1>5, PageFields
<1>7. page' = [page EXCEPT ![p] = h]
  BY <1>2
<1>8. \A v \in 1 .. Len(row.states) : row.states[v] # "draft"
      => v \in 1 .. Len(h.states) /\ h.states[v] # "draft"
  BY <1>4, <1>5
<1>9. UNCHANGED <<snapshots, active, order>>
  BY DEF SavePage
<1> HIDE DEF h
<1>10. PagesOK(page') /\ Keeps(page, page')
  BY <1>1, <1>5, <1>6, <1>7, <1>8, OnePage
<1> QED  BY <1>9, <1>10, PageMoves

LEMMA DiscardPageSteps == ASSUME ContentWorkload, ContentInv, NEW p \in Pages, DiscardPage(p) PROVE ContentInv'
<1> DEFINE row == page[p]
           h == [row EXCEPT !.draft = 0]
<1>1. ContentTypeOK
  BY DEF ContentInv
<1>2. h \in PageRow /\ h.draft = 0 /\ h.published = row.published /\ h.states = row.states
  <2>1. row \in [draft : Nat, published : Nat, states : Seq({"draft", "ready", "published"})]
    BY <1>1, PageFields DEF PageRow
  <2>2. 0 \in Nat
    OBVIOUS
  <2> HIDE DEF row
  <2> QED  BY <2>1, <2>2 DEF PageRow
<1>3. {h.draft, h.published} \ {0} \subseteq 1 .. Len(h.states)
  BY <1>1, <1>2, PageFields
<1>4. page' = [page EXCEPT ![p] = h] /\ UNCHANGED <<snapshots, active, order>>
  BY DEF DiscardPage
<1> HIDE DEF h
<1>5. PagesOK(page') /\ Keeps(page, page')
  BY <1>1, <1>2, <1>3, <1>4, OnePage
<1> QED  BY <1>4, <1>5, PageMoves

---------------------------------------------------------------------------
(* Steps of a command that change nothing else.                            *)

LEMMA CommandFacts ==
  ASSUME ContentWorkload, ContentInv, NEW c \in ContentCommands
  PROVE  /\ order[c] \in Order /\ Sound(page, order[c].pages) /\ AcknowledgedHome(order[c])
         /\ Underway(order[c]) => Latest > 0
         /\ Latest \in Nat /\ Latest <= SnapshotBound /\ SnapshotBound \in Nat
BY ContentFields DEF ContentInv

\* What is publishable of a page is no unfinished draft.
LEMMA PublishableIsSound ==
  ASSUME ContentTypeOK, NEW p \in Pages, Publishable(p)
  PROVE  /\ Effective(p) \in Nat /\ Effective(p) \in 1 .. Len(page[p].states)
         /\ page[p].states[Effective(p)] # "draft"
BY PageFields DEF Publishable, StateOf, Effective

LEMMA ViewSteps ==
  ASSUME ContentWorkload, ContentInv, NEW c \in ContentCommands, ViewPublication(c)
  PROVE  ContentInv'
<1> DEFINE o == order[c]
           paths == {p \in Pages : StateOf(p) = "ready"}
           s == [o EXCEPT !.phase = "viewed", !.revision = Latest + 1, !.paths = paths]
<1>1. o.phase = "new" /\ SetOrder(c, s) /\ UNCHANGED <<page, snapshots, active>>
  BY DEF ViewPublication
<1>2. /\ o \in Order /\ Sound(page, o.pages) /\ AcknowledgedHome(o) /\ (Underway(o) => Latest > 0)
      /\ Latest + 1 \in 0 .. SnapshotBound + 1 /\ paths \in SUBSET Pages
  BY CommandFacts
<1> HIDE DEF o, paths
<1>3. /\ s \in Order /\ s.pages = o.pages /\ s.phase = "viewed" /\ s.ok = o.ok /\ s.receipt = o.receipt
  BY <1>2 DEF Order
<1> HIDE DEF s
<1>4. AcknowledgedHome(s) /\ (Underway(s) => Latest > 0) /\ (Replayed(order[c]) => Replayed(s))
  BY <1>1, <1>2, <1>3 DEF AcknowledgedHome, Underway, Replayed, o
<1> QED  BY <1>1, <1>2, <1>3, <1>4, OrderMoves

LEMMA BuildSteps ==
  ASSUME ContentWorkload, ContentInv, NEW c \in ContentCommands, BuildSnapshot(c)
  PROVE  ContentInv'
<1> DEFINE o == order[c]
           pages == [p \in Pages |-> IF Publishable(p) THEN Effective(p) ELSE 0]
           s == [o EXCEPT !.phase = "built", !.previous = active, !.pages = pages]
<1>1. o.phase = "viewed" /\ SetOrder(c, s) /\ UNCHANGED <<page, snapshots, active>>
  BY DEF BuildSnapshot
<1>2. ContentTypeOK
  BY DEF ContentInv
<1>3. pages \in Contents /\ Sound(page, pages)
  <2>1. \A p \in Pages : Publishable(p) => /\ Effective(p) \in Nat
                                           /\ Effective(p) \in 1 .. Len(page[p].states)
                                           /\ page[p].states[Effective(p)] # "draft"
    BY <1>2, PublishableIsSound
  <2>2. 0 \in Nat
    OBVIOUS
  <2> QED  BY <2>1, <2>2 DEF Contents, Sound
<1>4. /\ o \in Order /\ AcknowledgedHome(o) /\ (Underway(o) => Latest > 0) /\ active \in 0 .. SnapshotBound
  BY <1>2, CommandFacts, ContentFields
<1> HIDE DEF o, pages
<1>5. /\ s \in Order /\ s.pages = pages /\ s.phase = "built" /\ s.ok = o.ok /\ s.receipt = o.receipt
  BY <1>3, <1>4 DEF Order
<1> HIDE DEF s
<1>6. AcknowledgedHome(s) /\ (Underway(s) => Latest > 0) /\ (Replayed(order[c]) => Replayed(s))
  BY <1>1, <1>4, <1>5 DEF AcknowledgedHome, Underway, Replayed, o
<1> QED  BY <1>1, <1>3, <1>5, <1>6, OrderMoves

LEMMA RefuseSteps ==
  ASSUME ContentWorkload, ContentInv, NEW c \in ContentCommands,
         RefusePublication(c) \/ AnswerReceipt(c) \/ CompletionFails(c)
  PROVE  ContentInv'
<1>1. Finish(c, order[c].receipt) /\ UNCHANGED <<page, snapshots, active>>
  BY DEF RefusePublication, AnswerReceipt, CompletionFails
<1>2. order[c].receipt \in {"none", "propagating", "propagated", "propagation_failed"}
  BY CommandFacts, OrderFields
<1>3. order[c].receipt # "none" => Latest > 0
  BY CommandFacts DEF Underway, Replayed
<1> QED  BY <1>1, <1>2, <1>3, FinishOnly DEF Replayed

LEMMA NewCommandForms ==
  ASSUME NEW s \in Order, s.phase = "new", NEW k, NEW r
  PROVE  [s EXCEPT !.phase = "new", !.kind = k, !.receipt = r] = [s EXCEPT !.receipt = r, !.kind = k]
BY DEF Order

LEMMA ResendSteps ==
  ASSUME ContentWorkload, ContentInv, NEW c \in ContentCommands, ResendCommand(c)
  PROVE  ContentInv'
<1> DEFINE o == order[c]
           kind == IF Replayed(o) THEN o.kind ELSE "publish"
           s == [Idle EXCEPT !.phase = "new", !.kind = kind, !.receipt = o.receipt]
<1>1. SetOrder(c, s) /\ UNCHANGED <<page, snapshots, active>>
  <2>1. SetOrder(c, [Idle EXCEPT !.receipt = o.receipt, !.kind = kind])
    BY DEF ResendCommand
  <2>2. UNCHANGED <<page, snapshots, active>>
    BY DEF ResendCommand
  <2> HIDE DEF o, kind
  <2>3. s = [Idle EXCEPT !.receipt = o.receipt, !.kind = kind]
    BY IdleForm, NewCommandForms
  <2> QED  BY <2>1, <2>2, <2>3
<1>2. o.receipt \in {"none", "propagating", "propagated", "propagation_failed"} /\ kind \in OrderKinds
  BY CommandFacts, OrderFields DEF OrderKinds
<1>3. o.receipt # "none" => Latest > 0
  BY CommandFacts DEF Underway, Replayed
<1>4. s.receipt = o.receipt
  BY DEF Idle
<1>5. s \in Order /\ Sound(page, s.pages) /\ AcknowledgedHome(s) /\ (Underway(s) => Latest > 0)
  <2> HIDE DEF o, kind
  <2> QED  BY <1>2, <1>3, FinishMoves
<1> HIDE DEF s
<1> QED  BY <1>1, <1>4, <1>5, OrderMoves DEF Replayed

LEMMA OnForm ==
  ASSUME ContentWorkload, ContentInv, NEW s \in Order, NEW r \in 1 .. Latest
  PROVE  /\ On(s, r) \in Order /\ On(s, r).pages = snapshots[r].pages /\ Sound(page, On(s, r).pages)
         /\ On(s, r).phase = s.phase /\ On(s, r).ok = s.ok /\ On(s, r).receipt = s.receipt
         /\ On(s, r).kind = s.kind
<1> DEFINE pages == snapshots[r].pages
           paths == snapshots[r].paths
<1>1. snapshots[r] \in Snapshot /\ Latest \in Nat /\ Latest <= SnapshotBound /\ SnapshotBound \in Nat
  BY ContentFields DEF ContentInv
<1>2. pages \in Contents /\ paths \in SUBSET Pages
  BY <1>1 DEF Snapshot
<1>3. r \in 0 .. SnapshotBound + 1
  BY <1>1
<1>4. Sound(page, pages)
  BY DEF ContentInv
<1>5. On(s, r) = [s EXCEPT !.revision = r, !.pages = pages, !.paths = paths]
  BY DEF On
<1> HIDE DEF pages, paths
<1>6. /\ On(s, r) \in Order /\ On(s, r).pages = pages
      /\ On(s, r).phase = s.phase /\ On(s, r).ok = s.ok /\ On(s, r).receipt = s.receipt /\ On(s, r).kind = s.kind
  BY <1>2, <1>3, <1>5 DEF Order
<1> QED  BY <1>4, <1>6 DEF pages

\* A command that has nothing acknowledged takes up a snapshot.
LEMMA TakeUp ==
  ASSUME ContentWorkload, ContentInv, NEW c \in ContentCommands, NEW s \in Order, NEW r \in 1 .. Latest,
         s.ok = FALSE, Replayed(order[c]) => Replayed(s),
         SetOrder(c, On(s, r)), UNCHANGED <<page, snapshots, active>>
  PROVE  ContentInv'
<1> DEFINE t == On(s, r)
<1>1. /\ t \in Order /\ Sound(page, t.pages) /\ t.ok = s.ok /\ t.receipt = s.receipt
  BY OnForm
<1>2. Latest > 0
  BY CommandFacts
<1> HIDE DEF t
<1>3. AcknowledgedHome(t) /\ (Underway(t) => Latest > 0) /\ (Replayed(order[c]) => Replayed(t))
  BY <1>1, <1>2 DEF AcknowledgedHome, Replayed
<1> QED  BY <1>1, <1>3, OrderMoves DEF t

\* A command that is sent, or has only committed, has nothing acknowledged.
LEMMA NothingAcknowledged ==
  ASSUME ContentWorkload, ContentInv, NEW c \in ContentCommands,
         order[c].phase \in {"new", "viewed", "built", "committed", "accepted", "done"}
  PROVE  order[c].ok = FALSE
BY CommandFacts, OrderFields DEF AcknowledgedHome

LEMMA ReceiptForm ==
  ASSUME NEW s \in Order
  PROVE  Receipt(s) \in {"none", "propagating", "propagated", "propagation_failed"} /\ Receipt(s) # "none"
BY OrderFields DEF Receipt, Replayed

LEMMA ChooseSteps ==
  ASSUME ContentWorkload, ContentInv, NEW c \in ContentCommands, ChoosePending(c) \/ ChooseRetry(c)
  PROVE  ContentInv'
<1> DEFINE o == order[c]
<1>1. o \in Order /\ o.ok = FALSE /\ UNCHANGED <<page, snapshots, active>>
  BY CommandFacts, NothingAcknowledged DEF ChoosePending, ChooseRetry
<1>2. Latest \in 1 .. Latest
  <2>1. CASE ChoosePending(c)
    BY <2>1, CommandFacts DEF ChoosePending, Underway
  <2>2. CASE ChooseRetry(c)
    BY <2>2, CommandFacts DEF ChooseRetry, PropagationOf
  <2> QED  BY <2>1, <2>2
<1>3. CASE ChoosePending(c)
  <2> DEFINE s == [o EXCEPT !.phase = "accepted"]
  <2>1. SetOrder(c, On(s, Latest))
    BY <1>3 DEF ChoosePending
  <2> HIDE DEF o
  <2>2. s \in Order /\ s.ok = FALSE /\ s.receipt = o.receipt
    BY <1>1 DEF Order
  <2> HIDE DEF s
  <2> QED  BY <1>1, <1>2, <2>1, <2>2, TakeUp DEF Replayed, o
<1>4. CASE ChooseRetry(c)
  <2> DEFINE s == [o EXCEPT !.phase = "accepted", !.kind = "retry"]
  <2>1. SetOrder(c, On(s, Latest))
    BY <1>4 DEF ChooseRetry
  <2> HIDE DEF o
  <2>2. s \in Order /\ s.ok = FALSE /\ s.receipt = o.receipt
    BY <1>1 DEF Order, OrderKinds
  <2> HIDE DEF s
  <2> QED  BY <1>1, <1>2, <2>1, <2>2, TakeUp DEF Replayed, o
<1> QED  BY <1>3, <1>4

LEMMA InvalidationSteps ==
  ASSUME ContentWorkload, ContentInv, NEW c \in ContentCommands, AcceptInvalidation(c)
  PROVE  ContentInv'
<1> DEFINE o == order[c]
           s == [o EXCEPT !.phase = "accepted", !.kind = "invalidate", !.receipt = "propagating"]
<1>1. o \in Order /\ o.ok = FALSE /\ UNCHANGED <<page, snapshots, active>>
  BY CommandFacts, NothingAcknowledged DEF AcceptInvalidation
<1>2. active \in 1 .. Latest
  BY ContentFields DEF AcceptInvalidation, PropagationOf, ContentInv
<1>3. SetOrder(c, On(s, active))
  BY DEF AcceptInvalidation
<1> HIDE DEF o
<1>4. s \in Order /\ s.ok = FALSE /\ s.receipt = "propagating"
  BY <1>1 DEF Order, OrderKinds
<1> HIDE DEF s
<1> QED  BY <1>1, <1>2, <1>3, <1>4, TakeUp DEF Replayed

LEMMA MarkSteps ==
  ASSUME ContentWorkload, ContentInv, NEW c \in ContentCommands, MarkPropagation(c)
  PROVE  ContentInv'
<1> DEFINE o == order[c]
           s == [o EXCEPT !.phase = "marked", !.receipt = Receipt(o)]
<1>1. o \in Order /\ o.phase = "answered" /\ UNCHANGED <<page, snapshots, active>>
  BY CommandFacts DEF MarkPropagation
<1>2. SetOrder(c, s) \/ (Finish(c, "none") /\ ~Replayed(o))
  BY DEF MarkPropagation
<1>3. CASE SetOrder(c, s)
  <2>1. Receipt(o) \in {"none", "propagating", "propagated", "propagation_failed"} /\ Receipt(o) # "none"
    BY <1>1, ReceiptForm
  <2>2. Sound(page, o.pages) /\ AcknowledgedHome(o) /\ Latest > 0
    BY <1>1, CommandFacts DEF Underway
  <2> HIDE DEF o
  <2>3. s \in Order /\ s.pages = o.pages /\ s.ok = o.ok /\ s.phase = "marked" /\ s.receipt = Receipt(o)
    BY <1>1, <2>1 DEF Order
  <2> HIDE DEF s
  <2>4. AcknowledgedHome(s) /\ Replayed(s)
    BY <2>1, <2>2, <2>3 DEF AcknowledgedHome, Replayed
  <2> QED  BY <1>1, <1>3, <2>2, <2>3, <2>4, OrderMoves
<1>4. CASE Finish(c, "none") /\ ~Replayed(o)
  BY <1>1, <1>4, FinishOnly
<1> QED  BY <1>2, <1>3, <1>4

LEMMA RevalidateSteps ==
  ASSUME ContentWorkload, ContentInv, NEW c \in ContentCommands, Revalidate(c)
  PROVE  ContentInv'
<1> DEFINE o == order[c]
<1>1. PICK ok \in {FALSE, Acknowledges(o)} : SetOrder(c, [o EXCEPT !.phase = "answered", !.ok = ok])
  BY DEF Revalidate
<1> DEFINE s == [o EXCEPT !.phase = "answered", !.ok = ok]
<1>2. o \in Order /\ Sound(page, o.pages) /\ Latest > 0 /\ UNCHANGED <<page, snapshots, active>>
  BY CommandFacts DEF Revalidate, Underway
<1>3. ok \in BOOLEAN /\ (ok => o.pages[Home] # 0)
  BY DEF Acknowledges
<1>4. SetOrder(c, s)
  BY <1>1
<1> HIDE DEF o
<1>5. s \in Order /\ s.pages = o.pages /\ s.ok = ok /\ s.phase = "answered" /\ s.receipt = o.receipt
  BY <1>2, <1>3 DEF Order
<1> HIDE DEF s
<1>6. AcknowledgedHome(s) /\ (Replayed(order[c]) => Replayed(s))
  BY <1>3, <1>5 DEF AcknowledgedHome, Replayed, o
<1> QED  BY <1>2, <1>4, <1>5, <1>6, OrderMoves

---------------------------------------------------------------------------
(* A new snapshot.                                                         *)

\* A command without a receipt appends a snapshot of pages that are published
\* with it, and has a receipt from then on.
LEMMA InsertMoves ==
  ASSUME ContentWorkload, ContentInv, NEW c \in ContentCommands, NEW s \in Order,
         NEW pages \in Contents, NEW paths \in SUBSET Pages,
         InsertSnapshot(c, pages, paths), SetOrder(c, s), active' = active,
         ~Replayed(order[c]), Replayed(s), s.ok = FALSE,
         PagesOK(page'), Keeps(page, page'), Sound(page', pages), Sound(page', s.pages)
  PROVE  ContentInv'
<1> DEFINE row == [pages |-> pages, paths |-> paths, previous |-> active,
                   state |-> "propagating", attempts |-> 0, by |-> c]
<1>1. snapshots \in Seq(Snapshot) /\ active \in 0 .. Latest /\ active \in 0 .. SnapshotBound
  BY ContentFields DEF ContentInv, ContentTypeOK
<1>2. row \in Snapshot /\ row.by = c /\ row.pages = pages
  BY <1>1, ContentFields DEF Snapshot, ContentInv
<1>3. snapshots' = Append(snapshots, row) /\ Latest < SnapshotBound
  BY DEF InsertSnapshot
<1> HIDE DEF row
<1>4. Latest = Len(snapshots) /\ Latest' = Len(snapshots') /\ SnapshotBound \in Nat
  BY DEF Latest, ContentWorkload
<1>5. /\ snapshots' \in Seq(Snapshot) /\ Latest \in Nat /\ Latest' = Latest + 1
      /\ snapshots'[Latest + 1] = row
      /\ \A r \in 1 .. Latest : snapshots'[r] = snapshots[r]
  BY <1>1, <1>2, <1>3, <1>4
<1>6. Latest' <= SnapshotBound /\ Latest <= Latest' /\ Latest' > 0
  BY <1>3, <1>4, <1>5
<1>7. \A r \in 1 .. Latest : snapshots'[r].pages = snapshots[r].pages /\ snapshots'[r].by = snapshots[r].by
  BY <1>5
<1>8. \A r \in 1 .. Latest' : r \in 1 .. Latest \/
        /\ r = Latest + 1 /\ snapshots'[r].by = c /\ Sound(page', snapshots'[r].pages)
        /\ ~Replayed(order[c]) /\ Replayed(s)
  BY <1>2, <1>5
<1>9. active' \in 0 .. Latest /\ (active' # 0 => snapshots[active'].pages[Home] # 0)
  BY <1>1 DEF ContentInv, ActiveHasHomepage
<1>10. AcknowledgedHome(s)
  BY DEF AcknowledgedHome
<1>11. order' = [order EXCEPT ![c] = s]
  BY DEF SetOrder
<1> QED  BY <1>5, <1>6, <1>7, <1>8, <1>9, <1>10, <1>11, ContentMoves

\* The same, of the pages of a snapshot there is.
LEMMA CopyMoves ==
  ASSUME ContentWorkload, ContentInv, NEW c \in ContentCommands, NEW s \in Order, NEW r \in 1 .. Latest,
         InsertSnapshot(c, snapshots[r].pages, snapshots[r].paths), SetOrder(c, s),
         UNCHANGED <<page, active>>,
         ~Replayed(order[c]), Replayed(s), s.ok = FALSE, Sound(page, s.pages)
  PROVE  ContentInv'
<1>1. snapshots[r] \in Snapshot /\ Sound(page, snapshots[r].pages) /\ PagesOK(page) /\ Keeps(page, page)
  BY ContentFields, KeepsItself DEF ContentInv
<1>2. snapshots[r].pages \in Contents /\ snapshots[r].paths \in SUBSET Pages
  BY <1>1 DEF Snapshot
<1>3. page' = page /\ active' = active
  OBVIOUS
<1>4. PagesOK(page') /\ Keeps(page, page') /\ Sound(page', snapshots[r].pages) /\ Sound(page', s.pages)
  BY <1>1, <1>3
<1> DEFINE pages == snapshots[r].pages
           paths == snapshots[r].paths
<1>5. InsertSnapshot(c, pages, paths) /\ pages \in Contents /\ paths \in SUBSET Pages /\ Sound(page', pages)
  BY <1>2, <1>4
<1> HIDE DEF pages, paths
<1> QED  BY <1>3, <1>4, <1>5, InsertMoves

LEMMA RollbackSteps ==
  ASSUME ContentWorkload, ContentInv, NEW c \in ContentCommands, AcceptRollback(c)
  PROVE  ContentInv'
<1> DEFINE o == order[c]
           s == [o EXCEPT !.phase = "committed", !.kind = "rollback", !.receipt = Receipt(o)]
<1>1. /\ o \in Order /\ o.ok = FALSE /\ Sound(page, o.pages) /\ (Underway(o) => Latest > 0)
      /\ SetOrder(c, s) /\ UNCHANGED <<page, active>>
  BY CommandFacts, NothingAcknowledged DEF AcceptRollback
<1>2. Receipt(o) \in {"none", "propagating", "propagated", "propagation_failed"} /\ Receipt(o) # "none"
  BY <1>1, ReceiptForm
<1>3. IF Replayed(o) THEN UNCHANGED snapshots
      ELSE \E r \in 1 .. Latest : InsertSnapshot(c, snapshots[r].pages, snapshots[r].paths)
  BY DEF AcceptRollback
<1>4. s \in Order /\ s.ok = FALSE /\ s.pages = o.pages /\ Replayed(s)
  <2> HIDE DEF o
  <2>1. s \in Order /\ s.ok = FALSE /\ s.pages = o.pages /\ s.receipt = Receipt(o)
    BY <1>1, <1>2 DEF Order, OrderKinds
  <2> HIDE DEF s
  <2> QED  BY <1>2, <2>1 DEF Replayed
<1> HIDE DEF s
<1>5. CASE Replayed(o)
  <2>1. Latest > 0 /\ UNCHANGED snapshots
    BY <1>1, <1>3, <1>5 DEF Underway
  <2> QED  BY <1>1, <1>4, <2>1, OrderMoves DEF AcknowledgedHome
<1>6. CASE ~Replayed(o)
  <2> PICK r \in 1 .. Latest : InsertSnapshot(c, snapshots[r].pages, snapshots[r].paths)
    BY <1>3, <1>6
  <2> QED  BY <1>1, <1>4, <1>6, CopyMoves
<1> QED  BY <1>5, <1>6

LEMMA RebuildSteps ==
  ASSUME ContentWorkload, ContentInv, NEW c \in ContentCommands, AcceptRebuild(c)
  PROVE  ContentInv'
<1> DEFINE o == order[c]
           s == [o EXCEPT !.kind = "rebuild", !.receipt = "propagating"]
           t == On(s, active)
           u == [t EXCEPT !.phase = "accepted", !.revision = Latest + 1]
<1>1. /\ o \in Order /\ o.ok = FALSE /\ ~Replayed(o) /\ UNCHANGED <<page, active>>
      /\ SetOrder(c, u) /\ InsertSnapshot(c, snapshots[active].pages, snapshots[active].paths)
  BY CommandFacts, NothingAcknowledged DEF AcceptRebuild
<1>2. active \in 1 .. Latest
  BY ContentFields DEF AcceptRebuild, PropagationOf, ContentInv
<1>3. s \in Order /\ s.ok = FALSE /\ s.receipt = "propagating"
  <2> HIDE DEF o
  <2> QED  BY <1>1 DEF Order, OrderKinds
<1> HIDE DEF s
<1>4. t \in Order /\ Sound(page, t.pages) /\ t.ok = FALSE /\ t.receipt = "propagating"
  BY <1>2, <1>3, OnForm
<1>5. Latest + 1 \in 0 .. SnapshotBound + 1
  BY CommandFacts
<1> HIDE DEF t
<1>6. u \in Order /\ u.pages = t.pages /\ u.ok = FALSE /\ Replayed(u)
  BY <1>4, <1>5 DEF Order, Replayed
<1> HIDE DEF u
<1> QED  BY <1>1, <1>2, <1>4, <1>6, CopyMoves

LEMMA SameLength ==
  ASSUME NEW S, NEW q \in Seq(S), NEW g \in [1 .. Len(q) -> S]
  PROVE  g \in Seq(S) /\ Len(g) = Len(q)
<1>1. Len(q) \in Nat
  OBVIOUS
<1> QED  BY <1>1

LEMMA PublishedRow ==
  ASSUME NEW d \in Nat, NEW q \in Seq({"draft", "ready", "published"})
  PROVE  [draft |-> 0, published |-> d, states |-> q] \in PageRow
BY DEF PageRow

\* Every ready draft becomes the page's publication.
LEMMA PublishedPages ==
  ASSUME ContentTypeOK,
         page' = [p \in Pages |->
                    IF StateOf(p) = "ready"
                      THEN [draft |-> 0, published |-> page[p].draft,
                            states |-> [page[p].states EXCEPT ![page[p].draft] = "published"]]
                      ELSE page[p]]
  PROVE  PagesOK(page') /\ Keeps(page, page')
<1> SUFFICES ASSUME NEW p \in Pages
             PROVE  /\ page'[p] \in PageRow
                    /\ {page'[p].draft, page'[p].published} \ {0} \subseteq 1 .. Len(page'[p].states)
                    /\ \A v \in 1 .. Len(page[p].states) : page[p].states[v] # "draft" =>
                         v \in 1 .. Len(page'[p].states) /\ page'[p].states[v] # "draft"
  <2>1. page' = [p \in Pages |-> page'[p]]
    OBVIOUS
  <2> QED  BY <2>1 DEF PagesOK, Keeps
<1> DEFINE row == page[p]
           states == [row.states EXCEPT ![row.draft] = "published"]
<1>1. /\ row \in PageRow /\ row.draft \in Nat
      /\ row.states \in Seq({"draft", "ready", "published"}) /\ Len(row.states) \in Nat
      /\ {row.draft, row.published} \ {0} \subseteq 1 .. Len(row.states)
  BY PageFields
<1>2. CASE StateOf(p) # "ready"
  <2>1. page'[p] = row
    BY <1>2
  <2> QED  BY <1>1, <2>1
<1>3. CASE StateOf(p) = "ready"
  <2>1. page'[p] = [draft |-> 0, published |-> row.draft, states |-> states]
    BY <1>3
  <2>2. /\ states \in Seq({"draft", "ready", "published"}) /\ Len(states) = Len(row.states)
        /\ \A v \in 1 .. Len(row.states) : states[v] = row.states[v] \/ states[v] = "published"
    <3> DEFINE q == row.states
               i == row.draft
    <3>1. q \in [1 .. Len(q) -> {"draft", "ready", "published"}] /\ states = [q EXCEPT ![i] = "published"]
      BY <1>1
    <3> HIDE DEF q, i
    <3>2. /\ states \in [1 .. Len(q) -> {"draft", "ready", "published"}]
          /\ \A v \in 1 .. Len(q) : states[v] = q[v] \/ states[v] = "published"
      BY <3>1
    <3> HIDE DEF states
    <3>3. states \in Seq({"draft", "ready", "published"}) /\ Len(states) = Len(q)
      BY <1>1, <3>2, SameLength DEF q
    <3> QED  BY <3>2, <3>3 DEF q
  <2> DEFINE new == [draft |-> 0, published |-> row.draft, states |-> states]
  <2>3. new.draft = 0 /\ new.published = row.draft /\ new.states = states
    OBVIOUS
  <2> HIDE DEF states
  <2>4. new \in PageRow
    BY <1>1, <2>2, PublishedRow
  <2> HIDE DEF new, row
  <2>5. \A v \in 1 .. Len(row.states) : row.states[v] # "draft" => states[v] # "draft"
    BY <2>2
  <2>6. page'[p] = new
    BY <2>1 DEF new
  <2> QED  BY <1>1, <2>2, <2>3, <2>4, <2>5, <2>6 DEF row
<1> QED  BY <1>2, <1>3

LEMMA PublishSteps ==
  ASSUME ContentWorkload, ContentInv, NEW c \in ContentCommands, AcceptPublication(c)
  PROVE  ContentInv'
<1> DEFINE o == order[c]
           s == [o EXCEPT !.phase = "accepted", !.previous = 0, !.receipt = Receipt(o)]
<1>1. /\ o \in Order /\ o.ok = FALSE /\ Sound(page, o.pages) /\ (Underway(o) => Latest > 0)
      /\ SetOrder(c, s) /\ active' = active
  BY CommandFacts, NothingAcknowledged DEF AcceptPublication
<1>2. Receipt(o) \in {"none", "propagating", "propagated", "propagation_failed"} /\ Receipt(o) # "none"
  BY <1>1, ReceiptForm
<1>3. s \in Order /\ s.ok = FALSE /\ s.pages = o.pages /\ Replayed(s)
  <2> HIDE DEF o
  <2>1. 0 \in 0 .. SnapshotBound
    BY DEF ContentWorkload
  <2>2. s \in Order /\ s.ok = FALSE /\ s.pages = o.pages /\ s.receipt = Receipt(o)
    BY <1>1, <1>2, <2>1 DEF Order
  <2> HIDE DEF s
  <2> QED  BY <1>2, <2>2 DEF Replayed
<1> HIDE DEF s
<1>4. CASE Replayed(o)
  <2>1. UNCHANGED <<page, snapshots>>
    BY <1>4 DEF AcceptPublication
  <2>2. Latest > 0
    BY <1>1, <1>4 DEF Underway
  <2> QED  BY <1>1, <1>3, <2>1, <2>2, OrderMoves DEF AcknowledgedHome
<1>5. CASE ~Replayed(o)
  <2>1. InsertSnapshot(c, o.pages, o.paths)
    BY <1>5 DEF AcceptPublication
  <2>2. ContentTypeOK
    BY DEF ContentInv
  <2>3. page' = [p \in Pages |->
                    IF StateOf(p) = "ready"
                      THEN [draft |-> 0, published |-> page[p].draft,
                            states |-> [page[p].states EXCEPT ![page[p].draft] = "published"]]
                      ELSE page[p]]
    BY <1>5 DEF AcceptPublication
  <2>4. PagesOK(page') /\ Keeps(page, page')
    BY <2>2, <2>3, PublishedPages
  <2>5. Sound(page', o.pages) /\ o.pages \in Contents /\ o.paths \in SUBSET Pages
    BY <1>1, <2>4, SoundStays, OrderFields
  <2> DEFINE pages == o.pages
             paths == o.paths
  <2>6. InsertSnapshot(c, pages, paths) /\ pages \in Contents /\ paths \in SUBSET Pages /\ Sound(page', pages)
    BY <2>1, <2>5
  <2>7. Sound(page', s.pages)
    BY <1>3, <2>5
  <2> HIDE DEF pages, paths
  <2> QED  BY <1>1, <1>3, <1>5, <2>4, <2>6, <2>7, InsertMoves
<1> QED  BY <1>4, <1>5

---------------------------------------------------------------------------
(* The end of a command.                                                   *)

\* One row changes in its state and attempts, and the command is done.
LEMMA RowMoves ==
  ASSUME ContentWorkload, ContentInv, NEW c \in ContentCommands, NEW i, NEW row \in Snapshot,
         NEW r \in {"propagating", "propagated", "propagation_failed"},
         snapshots' = [snapshots EXCEPT ![i] = row], Finish(c, r), page' = page,
         i \in 1 .. Latest => row.pages = snapshots[i].pages /\ row.by = snapshots[i].by,
         active' \in 0 .. Latest, active' # 0 => snapshots[active'].pages[Home] # 0,
         Latest > 0
  PROVE  ContentInv'
<1> DEFINE s == [Idle EXCEPT !.phase = "done", !.kind = order[c].kind, !.receipt = r]
<1>1. order[c].kind \in OrderKinds /\ snapshots \in Seq(Snapshot) /\ Latest \in Nat
  BY ContentFields, OrderFields DEF ContentInv, ContentTypeOK
<1>2. s.receipt = r /\ order' = [order EXCEPT ![c] = s]
  BY DEF Idle, Finish, SetOrder
<1>3. s \in Order /\ Sound(page, s.pages) /\ AcknowledgedHome(s)
  <2> DEFINE k == order[c].kind
  <2>1. k \in OrderKinds /\ r \in {"none", "propagating", "propagated", "propagation_failed"}
    BY <1>1
  <2>2. s = [Idle EXCEPT !.phase = "done", !.kind = k, !.receipt = r]
    OBVIOUS
  <2> HIDE DEF s, k
  <2> QED  BY <2>1, <2>2, FinishMoves
<1> HIDE DEF s
<1>4. /\ snapshots' \in Seq(Snapshot) /\ Len(snapshots') = Len(snapshots)
      /\ \A v \in 1 .. Len(snapshots) : snapshots'[v] = IF v = i THEN row ELSE snapshots[v]
  <2>1. snapshots \in [1 .. Len(snapshots) -> Snapshot]
    BY <1>1
  <2>2. /\ snapshots' \in [1 .. Len(snapshots) -> Snapshot]
        /\ \A v \in 1 .. Len(snapshots) : snapshots'[v] = IF v = i THEN row ELSE snapshots[v]
    BY <2>1
  <2>3. snapshots' \in Seq(Snapshot) /\ Len(snapshots') = Len(snapshots)
    BY <1>1, <2>2, SameLength
  <2> QED  BY <2>2, <2>3
<1>5. Latest' = Latest /\ Latest = Len(snapshots) /\ Latest <= SnapshotBound
  BY <1>4, ContentFields DEF Latest, ContentInv
<1>6. \A v \in 1 .. Latest : snapshots'[v].pages = snapshots[v].pages /\ snapshots'[v].by = snapshots[v].by
  BY <1>4, <1>5
<1>7. PagesOK(page') /\ Keeps(page, page') /\ Sound(page', s.pages)
  BY <1>3, KeepsItself DEF ContentInv
<1>8. Replayed(s) /\ Latest' > 0 /\ Latest' <= SnapshotBound /\ Latest <= Latest'
  BY <1>1, <1>2, <1>5 DEF Replayed
<1>9. \A v \in 1 .. Latest' : v \in 1 .. Latest
  BY <1>5
<1> QED  BY <1>2, <1>3, <1>4, <1>6, <1>7, <1>8, <1>9, ContentMoves

LEMMA CompletionSteps ==
  ASSUME ContentWorkload, ContentInv, NEW c \in ContentCommands, CompletePropagation(c)
  PROVE  ContentInv'
<1> DEFINE s == order[c]
           i == s.revision
           old == snapshots[i]
           row == [old EXCEPT !.state = Outcome(s), !.attempts = old.attempts + 1]
<1>1. /\ Found(s) /\ old.attempts < AttemptLimit /\ snapshots' = [snapshots EXCEPT ![i] = row]
      /\ active' = (IF s.ok THEN i ELSE active) /\ Finish(c, Outcome(s)) /\ page' = page
  BY DEF CompletePropagation
<1>2. i \in 1 .. Latest /\ old.pages = s.pages
  BY <1>1 DEF Found
<1>3. old \in Snapshot /\ AttemptLimit \in Nat /\ active \in 0 .. Latest /\ Latest \in Nat
  BY <1>2, ContentFields DEF ContentInv
<1>4. Outcome(s) \in {"propagated", "propagation_failed"}
  BY DEF Outcome
<1>5. row \in Snapshot /\ row.pages = old.pages /\ row.by = old.by
  <2>1. old.attempts + 1 \in 0 .. AttemptLimit
    BY <1>1, <1>3 DEF Snapshot
  <2> HIDE DEF old, s
  <2> QED  BY <1>3, <1>4, <2>1 DEF Snapshot
<1>6. s.ok => s.pages[Home] # 0
  BY CommandFacts DEF AcknowledgedHome
<1>7. active' \in 0 .. Latest /\ (active' # 0 => snapshots[active'].pages[Home] # 0)
  <2>1. CASE s.ok
    BY <1>1, <1>2, <1>3, <1>6, <2>1
  <2>2. CASE ~s.ok
    BY <1>1, <1>3, <2>2 DEF ContentInv, ActiveHasHomepage
  <2> QED  BY <2>1, <2>2
<1>8. Latest > 0
  BY <1>2, <1>3
<1> HIDE DEF row
<1> DEFINE out == Outcome(s)
<1>9. Finish(c, out) /\ out \in {"propagating", "propagated", "propagation_failed"}
  BY <1>1, <1>4
<1> HIDE DEF out
<1> QED  BY <1>1, <1>5, <1>7, <1>8, <1>9, RowMoves

LEMMA CompletedInvalidationSteps ==
  ASSUME ContentWorkload, ContentInv, NEW c \in ContentCommands, CompleteInvalidation(c)
  PROVE  ContentInv'
<1> DEFINE s == order[c]
           i == s.revision
           old == snapshots[i]
           row == [old EXCEPT !.attempts =
                                     IF old.attempts < AttemptLimit THEN old.attempts + 1 ELSE old.attempts]
           out == Outcome(s)
<1>1. /\ Completing(c) /\ snapshots' = [snapshots EXCEPT ![i] = row]
      /\ Finish(c, out) /\ page' = page /\ active' = active
  BY DEF CompleteInvalidation
<1>2. Latest > 0 /\ AttemptLimit \in Nat /\ active \in 0 .. Latest /\ Latest \in Nat
  BY <1>1, CommandFacts, ContentFields DEF Completing, Underway, ContentInv
<1>3. out \in {"propagating", "propagated", "propagation_failed"}
  BY DEF Outcome
<1>4. active' # 0 => snapshots[active'].pages[Home] # 0
  BY <1>1 DEF ContentInv, ActiveHasHomepage
<1>5. CASE i \in 1 .. Latest
  <2>1. old \in Snapshot
    BY <1>5, ContentFields DEF ContentInv
  <2>2. row \in Snapshot /\ row.pages = old.pages /\ row.by = old.by
    <3> HIDE DEF old
    <3> QED  BY <1>2, <2>1 DEF Snapshot
  <2> HIDE DEF row, out
  <2> QED  BY <1>1, <1>2, <1>3, <1>4, <2>2, RowMoves
<1>6. CASE i \notin 1 .. Latest
  <2>1. snapshots \in Seq(Snapshot) /\ Latest = Len(snapshots)
    BY DEF ContentInv, ContentTypeOK, Latest
  <2> HIDE DEF row, out, i
  <2>2. snapshots' = snapshots
    BY <1>1, <1>6, <2>1
  <2> QED  BY <1>1, <1>2, <1>3, <2>2, FinishOnly
<1> QED  BY <1>5, <1>6

LEMMA ContentNextHolds == ASSUME ContentWorkload, ContentInv, [ContentNext]_contentVars PROVE ContentInv'
<1>1. CASE \E p \in Pages : SavePage(p) \/ DiscardPage(p)
  BY <1>1, SavePageSteps, DiscardPageSteps
<1>2. ASSUME NEW c \in ContentCommands,
             ViewPublication(c) \/ BuildSnapshot(c) \/ AcceptPublication(c) \/ RefusePublication(c)
      PROVE  ContentInv'
  BY <1>2, ViewSteps, BuildSteps, PublishSteps, RefuseSteps
<1>3. ASSUME NEW c \in ContentCommands,
             AcceptRollback(c) \/ ChoosePending(c) \/ AcceptRebuild(c) \/ AcceptInvalidation(c)
             \/ AnswerReceipt(c)
      PROVE  ContentInv'
  BY <1>3, RollbackSteps, ChooseSteps, RebuildSteps, InvalidationSteps, RefuseSteps
<1>4. ASSUME NEW c \in ContentCommands,
             ChooseRetry(c) \/ MarkPropagation(c) \/ Revalidate(c) \/ CompletePropagation(c)
      PROVE  ContentInv'
  BY <1>4, ChooseSteps, MarkSteps, RevalidateSteps, CompletionSteps
<1>5. ASSUME NEW c \in ContentCommands,
             CompletionFails(c) \/ CompleteInvalidation(c) \/ ResendCommand(c)
      PROVE  ContentInv'
  BY <1>5, RefuseSteps, CompletedInvalidationSteps, ResendSteps
<1>6. CASE UNCHANGED contentVars
  <2>1. UNCHANGED <<page, snapshots, active, order>> /\ Latest' = Latest
    BY <1>6 DEF contentVars, Latest
  <2>2. PagesOK(page') /\ Keeps(page, page')
    BY <2>1, KeepsItself DEF ContentInv
  <2> QED  BY <2>1, <2>2, PageMoves
<1> QED  BY <1>1, <1>2, <1>3, <1>4, <1>5, <1>6 DEF ContentNext

LEMMA InvariantIsSound == ASSUME ContentInv PROVE SnapshotsAreSound
<1>1. NoDraftPublished
  BY DEF ContentInv, NoDraftPublished, Sound
<1> QED  BY <1>1 DEF ContentInv, SnapshotsAreSound

\* The inductive invariant of the publication of content: types; what a
\* command or a snapshot holds is no unfinished draft; an acknowledgement is
\* of a homepage; a snapshot's command has its receipt.
THEOREM ContentInvariant == ASSUME ContentWorkload PROVE ContentSpec => []ContentInv
<1>1. ContentInit => ContentInv
  BY ContentInitHolds
<1>2. ContentInv /\ [ContentNext]_contentVars => ContentInv'
  BY ContentNextHolds
<1> QED  BY <1>1, <1>2, PTL DEF ContentSpec

\* For any pages, commands and bounds, whatever is edited between the views
\* of a publication and its commit, and however often a command is sent
\* again: no unfinished draft is in a snapshot, the active snapshot has the
\* homepage, and no command makes two snapshots (publish, completePropagation).
THEOREM SnapshotsStaySound == ASSUME ContentWorkload PROVE ContentSpec => []SnapshotsAreSound
<1>1. ContentInv => SnapshotsAreSound
  BY InvariantIsSound
<1> QED  BY <1>1, ContentInvariant, PTL

---------------------------------------------------------------------------
(* The presentation of a platform.  A command has seen what has been true  *)
(* since it began, and what it found of its source still stands, because   *)
(* revisions are only added.                                               *)

\* What a command that looks at the page r has found so far.
LookedAt(c, r) ==
  LET v == revisions[r]
  IN /\ promotion[c].phase = "elsewhere" => "routed" \in since[c]
     /\ promotion[c].phase = "checked" /\ v.availability = "listed" /\ v.page # NoPage =>
          {v.page, "routed"} \subseteq since[c]

PresentationInv ==
  /\ PresentationTypeOK
  /\ present.draft \in 0 .. Len(revisions) /\ present.published \in 0 .. Len(revisions)
  /\ \A c \in Promotions :
       /\ Busy(c) => /\ Facts(routed, ready) \subseteq since[c]
                     /\ promotion[c].source \in 1 .. Len(revisions)
                     /\ LookedAt(c, promotion[c].source)
       /\ promotion[c].phase # "done" => \A n \in 1 .. Len(revisions) : revisions[n].by # c
  /\ ListedWasReady

LEMMA PresentationFields ==
  ASSUME PresentationTypeOK
  PROVE  /\ present \in HeadRow /\ present.newest = Len(revisions) /\ Len(revisions) \in Nat
         /\ DOMAIN promotion = Promotions /\ DOMAIN since = Promotions
         /\ \A c \in Promotions : promotion[c] \in Command
         /\ \A n \in 1 .. Len(revisions) : revisions[n] \in Revision
BY DEF PresentationTypeOK

LEMMA RevisionFields ==
  ASSUME NEW v \in Revision
  PROVE  /\ v.kind \in Kinds /\ v.availability \in Availabilities /\ v.page \in PlatformPages \cup {NoPage}
         /\ v.by \in Promotions \cup {"editor"} /\ v.previous \in Nat
BY DEF Revision

LEMMA CommandFields ==
  ASSUME NEW s \in Command
  PROVE  /\ s.phase \in {"new", "begun", "elsewhere", "checked", "done", "refused"}
         /\ s.kind \in Kinds \ {"draft"} /\ s.source \in Nat /\ s.expected \in Nat
BY DEF Command

\* A draft that is added lists nothing for a command.
LEMMA DraftMoves ==
  ASSUME PresentationWorkload, PresentationInv, NEW e \in Revision, e.by = "editor",
         revisions' = Append(revisions, e), present' \in HeadRow, present'.newest = Len(revisions) + 1,
         present'.draft \in 0 .. Len(revisions) + 1, present'.published \in 0 .. Len(revisions) + 1,
         UNCHANGED <<routed, ready, promotion, since>>
  PROVE  PresentationInv'
<1> DEFINE len == Len(revisions)
<1>1. /\ revisions' \in Seq(Revision) /\ Len(revisions') = len + 1 /\ len \in Nat /\ revisions'[len + 1] = e
      /\ \A n \in 1 .. len : revisions'[n] = revisions[n]
  BY DEF PresentationInv, PresentationTypeOK
<1>2. \A n \in 1 .. len + 1 : n \in 1 .. len \/ n = len + 1
  BY <1>1
<1> HIDE DEF len
<1>3. PresentationTypeOK'
  BY <1>1 DEF PresentationInv, PresentationTypeOK, len
<1>4. ASSUME NEW c \in Promotions
      PROVE  /\ Busy(c)' => /\ Facts(routed', ready') \subseteq since'[c]
                            /\ promotion'[c].source \in 1 .. Len(revisions')
                            /\ LookedAt(c, promotion[c].source)'
             /\ promotion'[c].phase # "done" => \A n \in 1 .. Len(revisions') : revisions'[n].by # c
  <2>1. CASE Busy(c)
    <3>1. /\ Facts(routed, ready) \subseteq since[c] /\ promotion[c].source \in 1 .. len
          /\ LookedAt(c, promotion[c].source)
      BY <2>1 DEF PresentationInv, len
    <3>2. revisions'[promotion[c].source] = revisions[promotion[c].source]
      /\ promotion[c].source \in 1 .. len + 1
      BY <1>1, <3>1
    <3>3. LookedAt(c, promotion[c].source)'
      BY <3>1, <3>2 DEF LookedAt
    <3>4. promotion[c].phase # "done" => \A n \in 1 .. len : revisions[n].by # c
      BY DEF PresentationInv, len
    <3> QED  BY <1>1, <1>2, <3>1, <3>2, <3>3, <3>4 DEF PresentationWorkload
  <2>2. CASE ~Busy(c)
    <3>1. promotion[c].phase # "done" => \A n \in 1 .. len : revisions[n].by # c
      BY DEF PresentationInv, len
    <3>2. ~Busy(c)'
      BY <2>2 DEF Busy
    <3> QED  BY <1>1, <1>2, <3>1, <3>2 DEF PresentationWorkload
  <2> QED  BY <2>1, <2>2
<1>5. ListedWasReady'
  BY <1>1, <1>2 DEF PresentationInv, ListedWasReady, len
<1>6. /\ present'.draft \in 0 .. Len(revisions') /\ present'.published \in 0 .. Len(revisions')
  BY <1>1 DEF len
<1> QED  BY <1>3, <1>4, <1>5, <1>6 DEF PresentationInv

LEMMA DraftSteps ==
  ASSUME PresentationWorkload, PresentationInv, NEW availability \in {"preview", "listed"},
         NEW p \in PlatformPages \cup {NoPage}, SaveDraft(availability, p)
  PROVE  PresentationInv'
<1> DEFINE e == [kind |-> "draft", availability |-> availability, page |-> p, by |-> "editor",
                 previous |-> present.published]
           next == present.newest + 1
<1>1. present \in HeadRow /\ present.newest = Len(revisions) /\ Len(revisions) \in Nat
  BY PresentationFields DEF PresentationInv
<1>2. e \in Revision /\ e.by = "editor"
  BY <1>1 DEF Revision, Kinds, Availabilities, HeadRow
<1>3. revisions' = Append(revisions, e) /\ UNCHANGED <<routed, ready, promotion, since>>
  BY DEF SaveDraft, Added
<1>4. present' = [present EXCEPT !.newest = next, !.draft = next]
  BY DEF SaveDraft
<1>5. /\ present' \in HeadRow /\ present'.newest = next /\ present'.draft = next
      /\ present'.published = present.published
  <2>1. next \in Nat
    BY <1>1
  <2> HIDE DEF next, e
  <2> QED  BY <1>1, <1>4, <2>1 DEF HeadRow
<1>6. present.published \in 0 .. Len(revisions)
  BY DEF PresentationInv
<1> HIDE DEF e
<1>7. /\ present'.newest = Len(revisions) + 1 /\ present'.draft \in 0 .. Len(revisions) + 1
      /\ present'.published \in 0 .. Len(revisions) + 1
  BY <1>1, <1>5, <1>6
<1> QED  BY <1>2, <1>3, <1>5, <1>7, DraftMoves

LEMMA ListingDiscardSteps == ASSUME PresentationInv, Discard PROVE PresentationInv'
<1>1. present \in HeadRow /\ present' = [present EXCEPT !.draft = 0]
  BY PresentationFields DEF PresentationInv, Discard
<1>2. /\ present' \in HeadRow /\ present'.newest = present.newest /\ present'.draft = 0
      /\ present'.published = present.published
  BY <1>1 DEF HeadRow
<1>3. UNCHANGED <<revisions, routed, ready, promotion, since>>
  BY DEF Discard
<1>4. PresentationTypeOK' /\ Len(revisions) \in Nat
  BY <1>2, <1>3, PresentationFields DEF PresentationInv, PresentationTypeOK
<1>5. present'.draft \in 0 .. Len(revisions') /\ present'.published \in 0 .. Len(revisions')
  BY <1>2, <1>3, <1>4 DEF PresentationInv
<1> QED  BY <1>3, <1>4, <1>5 DEF PresentationInv, Busy, LookedAt, ListedWasReady

---------------------------------------------------------------------------
(* A command.                                                              *)

\* A step of one command, which has made no revision yet.
LEMMA PromotionMoves ==
  ASSUME PresentationInv, NEW c \in Promotions, NEW s \in Command,
         NEW seen \in SUBSET (PlatformPages \cup {"routed"}),
         promotion' = [promotion EXCEPT ![c] = s], since' = [since EXCEPT ![c] = seen],
         UNCHANGED <<present, revisions, routed, ready>>,
         promotion[c].phase # "done", s.phase # "done",
         s.phase \in {"begun", "elsewhere", "checked"} =>
           Facts(routed, ready) \subseteq seen /\ s.source \in 1 .. Len(revisions),
         s.phase = "elsewhere" => "routed" \in seen,
         s.phase = "checked" /\ revisions[s.source].availability = "listed"
           /\ revisions[s.source].page # NoPage => {revisions[s.source].page, "routed"} \subseteq seen
  PROVE  PresentationInv'
<1>1. DOMAIN promotion = Promotions /\ DOMAIN since = Promotions
  BY PresentationFields DEF PresentationInv
<1>2. /\ promotion'[c] = s /\ since'[c] = seen
      /\ \A d \in Promotions : d # c => promotion'[d] = promotion[d] /\ since'[d] = since[d]
  BY <1>1
<1>3. PresentationTypeOK'
  <2>1. promotion' \in [Promotions -> Command]
    BY DEF PresentationInv, PresentationTypeOK
  <2>2. since' \in [Promotions -> SUBSET (PlatformPages \cup {"routed"})]
    BY DEF PresentationInv, PresentationTypeOK
  <2> QED  BY <2>1, <2>2 DEF PresentationInv, PresentationTypeOK
<1>4. \A n \in 1 .. Len(revisions) : revisions[n].by # c
  BY DEF PresentationInv
<1>5. ASSUME NEW d \in Promotions
      PROVE  /\ Busy(d)' => /\ Facts(routed, ready) \subseteq since'[d]
                            /\ promotion'[d].source \in 1 .. Len(revisions)
                            /\ LookedAt(d, promotion[d].source)'
             /\ promotion'[d].phase # "done" => \A n \in 1 .. Len(revisions) : revisions[n].by # d
  <2>1. CASE d = c
    BY <1>2, <1>4, <2>1 DEF Busy, LookedAt
  <2>2. CASE d # c
    <3>1. promotion'[d] = promotion[d] /\ since'[d] = since[d]
      BY <1>2, <2>2
    <3> QED  BY <3>1 DEF PresentationInv, Busy, LookedAt
  <2> QED  BY <2>1, <2>2
<1>6. ListedWasReady'
  <2> SUFFICES ASSUME NEW n \in 1 .. Len(revisions), revisions[n].by # "editor",
                      revisions[n].availability = "listed", revisions[n].page # NoPage
               PROVE  {revisions[n].page, "routed"} \subseteq since'[revisions[n].by]
    BY DEF ListedWasReady
  <2>1. {revisions[n].page, "routed"} \subseteq since[revisions[n].by]
    BY DEF PresentationInv, ListedWasReady
  <2>2. revisions[n].by \in Promotions /\ revisions[n].by # c
    BY <1>4, PresentationFields, RevisionFields DEF PresentationInv
  <2> QED  BY <1>2, <2>1, <2>2
<1> QED  BY <1>3, <1>5, <1>6 DEF PresentationInv

LEMMA KeptSince ==
  ASSUME PresentationTypeOK, NEW c \in Promotions
  PROVE  since = [since EXCEPT ![c] = since[c]] /\ since[c] \in SUBSET (PlatformPages \cup {"routed"})
BY DEF PresentationTypeOK

LEMMA BeginSteps ==
  ASSUME PresentationInv, NEW c \in Promotions, NEW kind \in Kinds \ {"draft"},
         NEW r \in 1 .. present.newest, Begin(c, kind, r)
  PROVE  PresentationInv'
<1> DEFINE phase == IF revisions[r].availability = "listed" THEN "begun" ELSE "checked"
           s == [phase |-> phase, kind |-> kind, source |-> r, expected |-> present.newest]
<1>1. /\ promotion[c].phase = "new" /\ promotion' = [promotion EXCEPT ![c] = s]
      /\ since' = [since EXCEPT ![c] = Facts(routed, ready)]
      /\ UNCHANGED <<present, revisions, routed, ready>>
  BY DEF Begin
<1>2. present.newest = Len(revisions) /\ Len(revisions) \in Nat
  BY PresentationFields DEF PresentationInv
<1>3. phase \in {"begun", "checked"} /\ (phase = "checked" => revisions[r].availability # "listed")
  OBVIOUS
<1>4. Facts(routed, ready) \in SUBSET (PlatformPages \cup {"routed"})
  BY DEF PresentationInv, PresentationTypeOK, Facts
<1> HIDE DEF phase
<1>5. s \in Command /\ s.phase = phase /\ s.source = r
  BY <1>2, <1>3 DEF Command
<1> HIDE DEF s
<1>6. s.source \in 1 .. Len(revisions)
  BY <1>2, <1>5
<1> DEFINE seen == Facts(routed, ready)
<1>7. since' = [since EXCEPT ![c] = seen] /\ seen \in SUBSET (PlatformPages \cup {"routed"})
  BY <1>1, <1>4
<1>8. Facts(routed, ready) \subseteq seen
  OBVIOUS
<1> HIDE DEF seen
<1> QED  BY <1>1, <1>3, <1>5, <1>6, <1>7, <1>8, PromotionMoves

\* A step of a command that is under way and looks at what there is.
LEMMA LookMoves ==
  ASSUME PresentationInv, NEW c \in Promotions, NEW phase \in {"elsewhere", "checked", "refused"},
         Busy(c), Set(c, phase), UNCHANGED <<present, revisions, routed, ready, since>>,
         phase = "elsewhere" => "routed" \in since[c],
         LET v == revisions[promotion[c].source]
         IN phase = "checked" /\ v.availability = "listed" /\ v.page # NoPage =>
              {v.page, "routed"} \subseteq since[c]
  PROVE  PresentationInv'
<1> DEFINE o == promotion[c]
           s == [o EXCEPT !.phase = phase]
           seen == since[c]
<1>1. o \in Command /\ promotion' = [promotion EXCEPT ![c] = s] /\ o.phase # "done"
  BY PresentationFields DEF PresentationInv, Set, Busy
<1>2. since' = [since EXCEPT ![c] = seen] /\ seen \in SUBSET (PlatformPages \cup {"routed"})
  BY KeptSince DEF PresentationInv
<1>3. Facts(routed, ready) \subseteq seen /\ o.source \in 1 .. Len(revisions)
  BY DEF PresentationInv
<1> HIDE DEF o
<1>4. s \in Command /\ s.phase = phase /\ s.source = o.source
  BY <1>1 DEF Command
<1>5. s.phase # "done"
  BY <1>4
<1>6. /\ s.phase = "elsewhere" => "routed" \in seen
      /\ s.phase = "checked" /\ revisions[s.source].availability = "listed"
           /\ revisions[s.source].page # NoPage => {revisions[s.source].page, "routed"} \subseteq seen
  BY <1>4 DEF o
<1> HIDE DEF s, seen
<1> QED  BY <1>1, <1>2, <1>3, <1>4, <1>5, <1>6, PromotionMoves DEF o

LEMMA RequireSteps ==
  ASSUME PresentationInv, NEW c \in Promotions, RequireListable(c)
  PROVE  PresentationInv'
<1> DEFINE p == revisions[promotion[c].source].page
<1>1. Busy(c) /\ UNCHANGED <<present, revisions, routed, ready, since>>
  BY DEF RequireListable, Busy
<1>2. Facts(routed, ready) \subseteq since[c]
  BY <1>1 DEF PresentationInv
<1>3. routed => "routed" \in since[c]
  BY <1>2 DEF Facts
<1>4. ready \subseteq since[c]
  BY <1>2 DEF Facts
<1>5. CASE p = EffectivePage /\ IndexableEligible
  <2>1. Set(c, "checked")
    BY <1>5 DEF RequireListable
  <2>2. "routed" \in since[c]
    BY <1>3, <1>5 DEF IndexableEligible, Operational
  <2>3. p # NoPage => p \in ready
    BY <1>5 DEF IndexableEligible, EffectivePage, AssociatedPage, DraftPage
  <2> QED  BY <1>1, <1>4, <2>1, <2>2, <2>3, LookMoves
<1>6. CASE p # EffectivePage /\ Operational
  <2>1. Set(c, "elsewhere") /\ "routed" \in since[c]
    BY <1>3, <1>6 DEF RequireListable, Operational
  <2> QED  BY <1>1, <2>1, LookMoves
<1>7. CASE (p = EffectivePage /\ ~IndexableEligible) \/ (p # EffectivePage /\ ~Operational)
  <2>1. Set(c, "refused")
    BY <1>7 DEF RequireListable
  <2> QED  BY <1>1, <2>1, LookMoves
<1> QED  BY <1>5, <1>6, <1>7

LEMMA ValidateSteps ==
  ASSUME PresentationInv, NEW c \in Promotions, ValidatePage(c)
  PROVE  PresentationInv'
<1> DEFINE p == revisions[promotion[c].source].page
<1>1. Busy(c) /\ UNCHANGED <<present, revisions, routed, ready, since>> /\ promotion[c].phase = "elsewhere"
  BY DEF ValidatePage, Busy
<1>2. Facts(routed, ready) \subseteq since[c] /\ "routed" \in since[c]
  BY <1>1 DEF PresentationInv, LookedAt
<1>3. ready \subseteq since[c]
  BY <1>2 DEF Facts
<1>4. CASE p \in ready
  <2>1. Set(c, "checked")
    BY <1>4 DEF ValidatePage
  <2> QED  BY <1>1, <1>2, <1>3, <1>4, <2>1, LookMoves
<1>5. CASE p \notin ready
  <2>1. Set(c, "refused")
    BY <1>5 DEF ValidatePage
  <2> QED  BY <1>1, <2>1, LookMoves
<1> QED  BY <1>4, <1>5

LEMMA PromoteForms ==
  ASSUME PresentationWorkload, PresentationInv, NEW c \in Promotions, NEW e \in Revision,
         e.by = c, e.availability = "listed" /\ e.page # NoPage => {e.page, "routed"} \subseteq since[c],
         revisions' = Append(revisions, e), Set(c, "done"),
         present' \in HeadRow, present'.newest = Len(revisions) + 1,
         present'.draft \in 0 .. Len(revisions) + 1, present'.published \in 0 .. Len(revisions) + 1,
         UNCHANGED <<routed, ready, since>>
  PROVE  PresentationInv'
<1> DEFINE len == Len(revisions)
           s == [promotion[c] EXCEPT !.phase = "done"]
<1>1. /\ revisions' \in Seq(Revision) /\ Len(revisions') = len + 1 /\ len \in Nat /\ revisions'[len + 1] = e
      /\ \A n \in 1 .. len : revisions'[n] = revisions[n]
  BY DEF PresentationInv, PresentationTypeOK
<1>2. \A n \in 1 .. len + 1 : n \in 1 .. len \/ n = len + 1
  BY <1>1
<1>3. promotion' = [promotion EXCEPT ![c] = s] /\ promotion[c] \in Command /\ DOMAIN promotion = Promotions
  BY PresentationFields DEF PresentationInv, Set
<1>4. s \in Command /\ s.phase = "done"
  BY <1>3 DEF Command
<1> HIDE DEF len, s
<1>5. promotion'[c] = s /\ \A d \in Promotions : d # c => promotion'[d] = promotion[d]
  BY <1>3
<1>6. PresentationTypeOK'
  <2>1. promotion' \in [Promotions -> Command]
    BY <1>3, <1>4 DEF PresentationInv, PresentationTypeOK
  <2> QED  BY <1>1, <2>1 DEF PresentationInv, PresentationTypeOK, len
<1>7. ASSUME NEW d \in Promotions
      PROVE  /\ Busy(d)' => /\ Facts(routed', ready') \subseteq since'[d]
                            /\ promotion'[d].source \in 1 .. Len(revisions')
                            /\ LookedAt(d, promotion[d].source)'
             /\ promotion'[d].phase # "done" => \A n \in 1 .. Len(revisions') : revisions'[n].by # d
  <2>1. CASE d = c
    BY <1>4, <1>5, <2>1 DEF Busy
  <2>2. CASE d # c
    <3>1. promotion'[d] = promotion[d]
      BY <1>5, <2>2
    <3>2. Busy(d)' = Busy(d)
      BY <3>1 DEF Busy
    <3>3. Busy(d) => /\ Facts(routed, ready) \subseteq since[d] /\ promotion[d].source \in 1 .. len
                     /\ LookedAt(d, promotion[d].source)
      BY DEF PresentationInv, len
    <3>4. Busy(d) => LookedAt(d, promotion[d].source)'
      <4>1. Busy(d) => revisions'[promotion[d].source] = revisions[promotion[d].source]
        BY <1>1, <3>3
      <4> QED  BY <3>1, <3>3, <4>1 DEF LookedAt
    <3>5. promotion[d].phase # "done" => \A n \in 1 .. len : revisions[n].by # d
      BY DEF PresentationInv, len
    <3>6. promotion'[d].phase # "done" => \A n \in 1 .. Len(revisions') : revisions'[n].by # d
      BY <1>1, <1>2, <2>2, <3>1, <3>5
    <3>7. Busy(d) => promotion[d].source \in 1 .. Len(revisions')
      BY <1>1, <3>3
    <3> QED  BY <3>1, <3>2, <3>3, <3>4, <3>6, <3>7
  <2> QED  BY <2>1, <2>2
<1>8. ListedWasReady'
  <2> SUFFICES ASSUME NEW n \in 1 .. Len(revisions'), revisions'[n].by # "editor",
                      revisions'[n].availability = "listed", revisions'[n].page # NoPage
               PROVE  {revisions'[n].page, "routed"} \subseteq since[revisions'[n].by]
    BY DEF ListedWasReady
  <2>1. CASE n \in 1 .. len
    BY <1>1, <2>1 DEF PresentationInv, ListedWasReady, len
  <2>2. CASE n = len + 1
    BY <1>1, <2>2
  <2> QED  BY <1>1, <1>2, <2>1, <2>2
<1>9. /\ present'.draft \in 0 .. Len(revisions') /\ present'.published \in 0 .. Len(revisions')
  BY <1>1 DEF len
<1> QED  BY <1>6, <1>7, <1>8, <1>9 DEF PresentationInv

LEMMA PromotionSteps ==
  ASSUME PresentationWorkload, PresentationInv, NEW c \in Promotions, Promote(c)
  PROVE  PresentationInv'
<1> DEFINE o == promotion[c]
           source == revisions[o.source]
<1>1. Busy(c) /\ o.phase = "checked" /\ UNCHANGED <<routed, ready, since>>
  BY DEF Promote, Busy
<1>2. /\ o \in Command /\ o.source \in 1 .. Len(revisions)
      /\ source.availability = "listed" /\ source.page # NoPage => {source.page, "routed"} \subseteq since[c]
      /\ present \in HeadRow /\ present.newest = Len(revisions) /\ Len(revisions) \in Nat
  BY <1>1, PresentationFields DEF PresentationInv, LookedAt
<1>3. CASE ExpectRevision(c)
  <2> DEFINE e == [kind |-> o.kind, availability |-> source.availability, page |-> source.page, by |-> c,
                   previous |-> present.published]
             next == present.newest + 1
  <2>1. /\ revisions' = Append(revisions, e) /\ Set(c, "done")
        /\ present' = [newest |-> next, draft |-> 0, published |-> next]
    BY <1>3 DEF Promote, Added
  <2>2. source \in Revision /\ o.kind \in Kinds /\ present.published \in Nat
    BY <1>2, PresentationFields, CommandFields DEF PresentationInv, HeadRow
  <2>3. next \in Nat /\ next = Len(revisions) + 1 /\ 0 \in Nat
    BY <1>2
  <2> HIDE DEF next, source, o
  <2>4. /\ e \in Revision /\ e.by = c /\ e.availability = source.availability /\ e.page = source.page
    BY <2>2, RevisionFields DEF Revision
  <2>5. /\ present' \in HeadRow /\ present'.newest = next /\ present'.draft = 0 /\ present'.published = next
    BY <2>1, <2>3 DEF HeadRow
  <2>6. 0 \in 0 .. Len(revisions) + 1 /\ next \in 0 .. Len(revisions) + 1
    BY <1>2, <2>3
  <2> HIDE DEF e
  <2> QED  BY <1>1, <1>2, <2>1, <2>3, <2>4, <2>5, <2>6, PromoteForms
<1>4. CASE ~ExpectRevision(c)
  <2>1. Set(c, "refused") /\ UNCHANGED <<present, revisions>>
    BY <1>4 DEF Promote
  <2> QED  BY <1>1, <2>1, LookMoves
<1> QED  BY <1>3, <1>4

---------------------------------------------------------------------------
(* Routes and pages.                                                       *)

LEMMA ChangeSteps ==
  ASSUME PresentationInv, NEW r \in BOOLEAN, NEW p \in SUBSET PlatformPages, Change(r, p)
  PROVE  PresentationInv'
<1>1. /\ routed' = r /\ ready' = p /\ UNCHANGED <<present, revisions, promotion>>
      /\ since' = [c \in Promotions |-> IF Busy(c) THEN since[c] \cup Facts(r, p) ELSE since[c]]
  BY DEF Change
<1>2. Facts(r, p) \in SUBSET (PlatformPages \cup {"routed"})
  BY DEF Facts
<1>3. \A c \in Promotions : since[c] \subseteq since'[c] /\ (Busy(c) => Facts(r, p) \subseteq since'[c])
  BY <1>1
<1>4. PresentationTypeOK'
  <2>1. since' \in [Promotions -> SUBSET (PlatformPages \cup {"routed"})]
    BY <1>1, <1>2 DEF PresentationInv, PresentationTypeOK
  <2> QED  BY <1>1, <2>1 DEF PresentationInv, PresentationTypeOK
<1>5. ASSUME NEW c \in Promotions
      PROVE  /\ Busy(c)' => /\ Facts(routed', ready') \subseteq since'[c]
                            /\ promotion'[c].source \in 1 .. Len(revisions')
                            /\ LookedAt(c, promotion[c].source)'
             /\ promotion'[c].phase # "done" => \A n \in 1 .. Len(revisions') : revisions'[n].by # c
  <2>1. Busy(c)' = Busy(c)
    BY <1>1 DEF Busy
  <2>2. Busy(c) => promotion[c].source \in 1 .. Len(revisions) /\ LookedAt(c, promotion[c].source)
    BY DEF PresentationInv
  <2>3. Busy(c) => LookedAt(c, promotion[c].source)'
    BY <1>1, <1>3, <2>2 DEF LookedAt
  <2>4. promotion[c].phase # "done" => \A n \in 1 .. Len(revisions) : revisions[n].by # c
    BY DEF PresentationInv
  <2> QED  BY <1>1, <1>3, <2>1, <2>2, <2>3, <2>4
<1>6. ListedWasReady'
  <2> SUFFICES ASSUME NEW n \in 1 .. Len(revisions), revisions[n].by # "editor",
                      revisions[n].availability = "listed", revisions[n].page # NoPage
               PROVE  {revisions[n].page, "routed"} \subseteq since'[revisions[n].by]
    BY <1>1 DEF ListedWasReady
  <2>1. {revisions[n].page, "routed"} \subseteq since[revisions[n].by]
    BY DEF PresentationInv, ListedWasReady
  <2>2. revisions[n].by \in Promotions
    BY PresentationFields, RevisionFields DEF PresentationInv
  <2> QED  BY <1>3, <2>1, <2>2
<1>7. present'.draft \in 0 .. Len(revisions') /\ present'.published \in 0 .. Len(revisions')
  BY <1>1 DEF PresentationInv
<1> QED  BY <1>4, <1>5, <1>6, <1>7 DEF PresentationInv

---------------------------------------------------------------------------
LEMMA PresentationInitHolds == ASSUME PresentationWorkload, PresentationInit PROVE PresentationInv
<1> DEFINE s == [phase |-> "new", kind |-> "published", source |-> 0, expected |-> 0]
<1>1. s \in Command /\ s.phase = "new"
  BY DEF Command, Kinds
<1>2. promotion = [c \in Promotions |-> s] /\ since = [c \in Promotions |-> {}]
  BY DEF PresentationInit
<1> HIDE DEF s
<1>3. promotion \in [Promotions -> Command] /\ \A c \in Promotions : promotion[c].phase = "new"
  BY <1>1, <1>2
<1>4. since \in [Promotions -> SUBSET (PlatformPages \cup {"routed"})]
     /\ routed \in BOOLEAN /\ ready \subseteq PlatformPages
  BY <1>2 DEF PresentationInit
<1>5. /\ present \in HeadRow /\ revisions \in Seq(Revision) /\ present.newest = Len(revisions)
      /\ present.draft = 0 /\ present.published \in 0 .. Len(revisions)
      /\ \A n \in 1 .. Len(revisions) : revisions[n].by = "editor"
  <2>1. CASE present = [newest |-> 0, draft |-> 0, published |-> 0] /\ revisions = <<>>
    BY <2>1 DEF HeadRow
  <2>2. CASE /\ present = [newest |-> 2, draft |-> 0, published |-> 2]
             /\ \E q \in PlatformPages \cup {NoPage} :
                  revisions = <<Listed("draft", q), Listed("published", q)>>
    <3> PICK p \in PlatformPages \cup {NoPage} : revisions = <<Listed("draft", p), Listed("published", p)>>
      BY <2>2
    <3> DEFINE x == Listed("draft", p)
               y == Listed("published", p)
    <3>1. x \in Revision /\ y \in Revision /\ x.by = "editor" /\ y.by = "editor"
      BY DEF Listed, Revision, Kinds, Availabilities
    <3> HIDE DEF x, y
    <3>2. /\ revisions \in Seq(Revision) /\ Len(revisions) = 2 /\ revisions[1] = x /\ revisions[2] = y
      BY <3>1 DEF x, y
    <3>3. \A n \in 1 .. 2 : n = 1 \/ n = 2
      OBVIOUS
    <3>4. present \in HeadRow /\ present.newest = 2 /\ present.draft = 0 /\ present.published = 2
      BY <2>2 DEF HeadRow
    <3> QED  BY <3>1, <3>2, <3>3, <3>4
  <2> QED  BY <2>1, <2>2 DEF PresentationInit
<1>6. PresentationTypeOK
  BY <1>3, <1>4, <1>5 DEF PresentationTypeOK
<1>7. \A c \in Promotions : ~Busy(c)
  BY <1>3 DEF Busy
<1>8. ASSUME NEW c \in Promotions
      PROVE \A n \in 1 .. Len(revisions) : revisions[n].by # c
  BY <1>5 DEF PresentationWorkload
<1> QED  BY <1>5, <1>6, <1>7, <1>8 DEF PresentationInv, ListedWasReady

LEMMA PresentationNextHolds ==
  ASSUME PresentationWorkload, PresentationInv, [PresentationNext]_presentationVars
  PROVE  PresentationInv'
<1>1. ASSUME NEW p \in PlatformPages \cup {NoPage}, NEW availability \in {"preview", "listed"},
             SaveDraft(availability, p)
      PROVE  PresentationInv'
  BY <1>1, DraftSteps
<1>2. CASE Discard
  BY <1>2, ListingDiscardSteps
<1>3. CASE Pause
  <2>1. routed \in BOOLEAN /\ ready \in SUBSET PlatformPages
    BY DEF PresentationInv, PresentationTypeOK
  <2>2. Change(~routed, ready)
    BY <1>3 DEF Pause
  <2>3. (~routed) \in BOOLEAN
    BY Zenon
  <2> PICK r \in BOOLEAN : Change(r, ready)
    BY <2>2, <2>3, Zenon
  <2> QED  BY <2>1, ChangeSteps
<1>4. ASSUME NEW q \in PlatformPages, Unpublish(q) \/ Complete(q)
      PROVE  PresentationInv'
  <2>1. PICK p \in SUBSET PlatformPages : Change(routed, p)
    <3>1. ready \ {q} \in SUBSET PlatformPages /\ ready \cup {q} \in SUBSET PlatformPages
      BY DEF PresentationInv, PresentationTypeOK
    <3> QED  BY <1>4, <3>1 DEF Unpublish, Complete
  <2>2. routed \in BOOLEAN
    BY DEF PresentationInv, PresentationTypeOK
  <2> QED  BY <2>1, <2>2, ChangeSteps
<1>5. ASSUME NEW c \in Promotions, NEW kind \in Kinds \ {"draft"}, NEW r \in 1 .. present.newest,
           Begin(c, kind, r)
      PROVE  PresentationInv'
  BY <1>5, BeginSteps
<1>6. ASSUME NEW c \in Promotions, RequireListable(c) \/ ValidatePage(c) \/ Promote(c)
      PROVE  PresentationInv'
  BY <1>6, RequireSteps, ValidateSteps, PromotionSteps
<1>7. CASE UNCHANGED presentationVars
  BY <1>7 DEF presentationVars, PresentationInv, PresentationTypeOK, Busy, LookedAt, ListedWasReady
<1> QED  BY <1>1, <1>2, <1>3, <1>4, <1>5, <1>6, <1>7 DEF PresentationNext

\* The inductive invariant of the presentation of a platform: types; what is
\* true now is among what a busy command has seen; what a command found of
\* its source still stands; a command makes its revision last.
THEOREM PresentationInvariant == ASSUME PresentationWorkload PROVE PresentationSpec => []PresentationInv
<1>1. PresentationInit => PresentationInv
  BY PresentationInitHolds
<1>2. PresentationInv /\ [PresentationNext]_presentationVars => PresentationInv'
  BY PresentationNextHolds
<1> QED  BY <1>1, <1>2, PTL DEF PresentationSpec

\* For any pages, commands and bound, whatever drafts, routes and pages do
\* between the look of a command and its write, a revision that lists the
\* platform with a page was made while that page had been ready and a route
\* could serve the platform (requireListable, promote).
THEOREM ListingsWereReady == ASSUME PresentationWorkload PROVE PresentationSpec => []ListedWasReady
<1>1. PresentationInv => ListedWasReady
  BY DEF PresentationInv
<1> QED  BY <1>1, PresentationInvariant, PTL

=============================================================================
