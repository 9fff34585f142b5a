------------------------ MODULE DeliveryTickets_proofs ------------------------
(***************************************************************************)
(* Theorems about DeliveryTickets, for any number of tickets, visits and   *)
(* completions and any expiries: the nesting of the expiries, the record   *)
(* behind every redirect, the candidate a visit receives, and that the     *)
(* tickets are the one-use tickets of OneUseTicket.                        *)
(***************************************************************************)
EXTENDS DeliveryTickets, SequenceTheorems, TLAPS

Outcome == Verdicts \cup {"succeeded", "redirect_issued", "expired_unredeemed"}

Tells(s, event) == \E i \in DOMAIN s : s[i] = event

(* The steps of a visit that has not recorded what it found. *)
Undecided == {"redeemed", "handing", "streaming", "streamed", "rejecting"}

(* A visit that has redeemed a ticket is the only one, and until it records *)
(* an outcome the ticket has none.                                          *)
VisitInv ==
  \A v \in Visits :
    /\ visit[v].at = "new" => visit[v].ticket = Nobody
    /\ visit[v].at \in Undecided \cup {"broken", "redirected"} => visit[v].ticket # Nobody
    /\ visit[v].ticket # Nobody
         => /\ row[visit[v].ticket] \in {"redeemed", "removed"}
            /\ visit[v].at \in Undecided => visit[v].ticket \notin validated
            /\ visit[v].at = "redirected" => Tells(outcomes[visit[v].ticket], "redirect_issued")
            /\ \A w \in Visits : visit[w].ticket = visit[v].ticket => w = v

(* The columns tell what the anonymous outcomes do. *)
OutcomeInv ==
  \A t \in Tickets :
    /\ t \in validated => row[t] \in {"redeemed", "removed"}
    /\ t \notin validated => \A x \in Verdicts : ~Tells(outcomes[t], x)

DeliveryInv == TicketTypeOK /\ ExpiryIsNested /\ VisitInv /\ OutcomeInv

-----------------------------------------------------------------------------
(* Sequences of outcomes, and the earliest of several expiries *)

LEMMA TellsBoth ==
  ASSUME NEW T, NEW s \in Seq(T), NEW e \in Seq(T)
  PROVE  /\ s \o e \in Seq(T)
         /\ \A x : Tells(s \o e, x) <=> Tells(s, x) \/ Tells(e, x)
<1>1. /\ s \o e \in Seq(T) /\ Len(s \o e) = Len(s) + Len(e)
      /\ \A i \in 1 .. Len(s) + Len(e) :
           (s \o e)[i] = IF i <= Len(s) THEN s[i] ELSE e[i - Len(s)]
  BY ConcatProperties
<1>2. /\ Len(s) \in Nat /\ Len(e) \in Nat
      /\ DOMAIN s = 1 .. Len(s) /\ DOMAIN e = 1 .. Len(e)
      /\ DOMAIN (s \o e) = 1 .. Len(s) + Len(e)
  BY <1>1, LenProperties
<1> SUFFICES ASSUME NEW x PROVE Tells(s \o e, x) <=> Tells(s, x) \/ Tells(e, x)
  BY <1>1
<1>3. ASSUME NEW i \in DOMAIN e, e[i] = x PROVE Tells(s \o e, x)
  <2>1. Len(s) + i \in DOMAIN (s \o e) /\ (s \o e)[Len(s) + i] = e[i]
    BY <1>1, <1>2
  <2> QED
    BY <1>3, <2>1 DEF Tells
<1>4. Tells(s, x) => Tells(s \o e, x)
  BY <1>1, <1>2 DEF Tells
<1>5. ASSUME NEW i \in DOMAIN (s \o e), (s \o e)[i] = x PROVE Tells(s, x) \/ Tells(e, x)
  <2>1. CASE i <= Len(s)
    BY <1>1, <1>2, <1>5, <2>1 DEF Tells
  <2>2. CASE i > Len(s)
    <3>1. i - Len(s) \in DOMAIN e /\ e[i - Len(s)] = x
      BY <1>1, <1>2, <1>5, <2>2
    <3> QED
      BY <3>1 DEF Tells
  <2> QED
    BY <1>2, <2>1, <2>2
<1> QED
  BY <1>3, <1>4, <1>5 DEF Tells

LEMMA ShortLists ==
  ASSUME NEW a, NEW b
  PROVE  /\ <<a>> \o << >> = <<a>> /\ << >> \o <<b>> = <<b>>
         /\ << >> \o << >> = << >> /\ <<a>> \o <<b>> = <<a, b>>
<1>1. <<a>> \in Seq({a, b}) /\ <<b>> \in Seq({a, b}) /\ << >> \in Seq({a, b})
  OBVIOUS
<1>2. <<a>> \o <<b>> = <<a, b>>
  <2>1. /\ <<a>> \o <<b>> \in Seq({a, b}) /\ Len(<<a>> \o <<b>>) = 2
        /\ \A i \in 1 .. 2 : (<<a>> \o <<b>>)[i] = IF i <= 1 THEN <<a>>[i] ELSE <<b>>[i - 1]
    BY <1>1, ConcatProperties
  <2>2. (<<a>> \o <<b>>)[1] = a /\ (<<a>> \o <<b>>)[2] = b
    BY <2>1
  <2>3. /\ <<a, b>> \in Seq({a, b}) /\ Len(<<a, b>>) = 2
        /\ \A i \in 1 .. 2 : (<<a>> \o <<b>>)[i] = <<a, b>>[i]
    BY <2>2
  <2> QED
    BY <2>1, <2>3, SeqEqual
<1>3. <<a>> \o << >> = <<a>> /\ << >> \o <<b>> = <<b>> /\ << >> \o << >> = << >>
  BY <1>1, ConcatEmptySeq
<1> QED
  BY <1>2, <1>3

LEMMA ShortTold ==
  ASSUME NEW a, NEW b, NEW x
  PROVE  /\ ~Tells(<< >>, x)
         /\ Tells(<<a>>, x) <=> x = a
         /\ Tells(<<a, b>>, x) <=> x = a \/ x = b
  BY DEF Tells

LEMMA EarliestOfTwo ==
  ASSUME NEW a \in Int, NEW b \in Int
  PROVE  Min({a, b}) \in {a, b} /\ Min({a, b}) <= a /\ Min({a, b}) <= b
<1>1. \E x \in {a, b} : \A y \in {a, b} : x =< y
  OBVIOUS
<1> QED
  BY <1>1 DEF Min

LEMMA EarliestOfThree ==
  ASSUME NEW a \in Int, NEW b \in Int, NEW c \in Int
  PROVE  /\ Min({a, b, c}) \in {a, b, c}
         /\ Min({a, b, c}) <= a /\ Min({a, b, c}) <= b /\ Min({a, b, c}) <= c
<1>1. \E x \in {a, b, c} : \A y \in {a, b, c} : x =< y
  OBVIOUS
<1> QED
  BY <1>1 DEF Min

-----------------------------------------------------------------------------
(* What a visit does: it goes on, it redeems a ticket, it records. *)

LEMMA Proceeding ==
  ASSUME TicketTypeOK, NEW v \in Visits, NEW step \in Steps, Proceed(v, step)
  PROVE  /\ visit' \in [Visits -> [at : Steps, ticket : Tickets \cup {Nobody}]]
         /\ visit'[v].at = step /\ visit'[v].ticket = visit[v].ticket
         /\ \A w \in Visits : w # v => visit'[w] = visit[w]
         /\ \A w \in Visits : visit'[w].ticket = visit[w].ticket
  BY DEF TicketTypeOK, Proceed

(* Redeeming, answered or not. *)
Redeems(v, t, step) ==
  /\ At(v, "new") /\ Redeemable(t) /\ MarkRedeemed(t)
  /\ visit' = [visit EXCEPT ![v] = [at |-> step, ticket |-> t]]
  /\ UNCHANGED <<taskVars, candidate, now>>

LEMMA Redeeming ==
  ASSUME TicketTypeOK, NEW v \in Visits, NEW t \in Tickets, NEW step \in {"redeemed", "failed"},
         Redeems(v, t, step)
  PROVE  /\ visit' \in [Visits -> [at : Steps, ticket : Tickets \cup {Nobody}]]
         /\ visit'[v].at = step /\ visit'[v].ticket = t
         /\ \A w \in Visits : w # v => visit'[w] = visit[w]
  BY DEF TicketTypeOK, Redeems, Steps

(* Recording, acknowledged or not: a handoff is recorded by the visit that  *)
(* makes it, and passes.                                                    *)
Records(v, result, handoff, step) ==
  /\ visit[v].at \in {"handing", "streamed", "rejecting", "broken"}
  /\ handoff => At(v, "handing") /\ result = "passed"
  /\ RecordOutcome(visit[v].ticket, result, handoff)
  /\ Proceed(v, step)
  /\ step = "redirected" => handoff
  /\ UNCHANGED <<taskVars, candidate, now>>

Ends == {"redirected", "delivered", "refused", "failed", "broken"}

(* Every step is one of a few kinds. *)
Removes == RemoveTicketsOf(stored)
           /\ UNCHANGED <<candidateOf, ticketExpiry, validated, handedOff, outcomes, visit>>

LEMMA RecordingSteps ==
  ASSUME NEW v \in Visits,
         HandOff(v) \/ FinishStream(v) \/ Reject(v)
           \/ (RecordThrows(v) /\ ~UNCHANGED ticketVars)
  PROVE  \E result \in Verdicts, handoff \in BOOLEAN, step \in Ends : Records(v, result, handoff, step)
<1>1. CASE HandOff(v)
  <2>1. Records(v, "passed", TRUE, "redirected")
    BY <1>1 DEF HandOff, Records, At
  <2> QED
    BY <2>1 DEF Verdicts, Ends
<1>2. CASE FinishStream(v)
  <2>1. Records(v, "passed", FALSE, "delivered")
    BY <1>2 DEF FinishStream, Records, At
  <2> QED
    BY <2>1 DEF Verdicts, Ends
<1>3. CASE Reject(v)
  <2> DEFINE result == IF At(v, "broken") THEN "internal_error" ELSE "rejected"
  <2>1. Records(v, result, FALSE, "refused")
    BY <1>3 DEF Reject, Records, At
  <2>2. result \in Verdicts
    BY DEF Verdicts
  <2> HIDE DEF result
  <2> QED
    BY <2>1, <2>2 DEF Ends
<1>4. CASE RecordThrows(v) /\ ~UNCHANGED ticketVars
  <2> DEFINE result == CASE At(v, "rejecting") -> "rejected"
                         [] At(v, "broken") -> "internal_error"
                         [] OTHER -> "passed"
  <2> DEFINE step == IF At(v, "streamed") THEN "broken" ELSE "failed"
  <2>1. Records(v, result, At(v, "handing"), step)
    BY <1>4 DEF RecordThrows, Records, At
  <2>2. result \in Verdicts /\ step \in Ends /\ At(v, "handing") \in BOOLEAN
    BY DEF Verdicts, Ends, At
  <2> HIDE DEF result, step
  <2> QED
    BY <2>1, <2>2
<1> QED
  BY <1>1, <1>2, <1>3, <1>4

(* The events a recording adds: one verdict for a ticket without one, a     *)
(* redirect only beside it, nothing for a ticket that has one.              *)
LEMMA RecordingRow ==
  ASSUME DeliveryInv, NEW v \in Visits, NEW result \in Verdicts, NEW handoff \in BOOLEAN,
         NEW step \in Ends, Records(v, result, handoff, step)
  PROVE  /\ visit[v].ticket \in Tickets /\ row[visit[v].ticket] = "redeemed"
         /\ validated' = validated \cup {visit[v].ticket}
         /\ UNCHANGED <<row, candidateOf, ticketExpiry>>
         /\ handedOff' \subseteq validated'
<1>1. visit[v].ticket \in Tickets /\ row[visit[v].ticket] \in {"redeemed", "removed"}
  BY DEF Records, DeliveryInv, VisitInv, TicketTypeOK, Undecided
<1>2. /\ row[visit[v].ticket] = "redeemed" /\ validated' = validated \cup {visit[v].ticket}
      /\ UNCHANGED <<row, candidateOf, ticketExpiry>>
  BY <1>1 DEF Records, RecordOutcome
<1>3. handedOff' \subseteq validated'
  BY DEF Records, RecordOutcome, DeliveryInv, TicketTypeOK
<1> QED
  BY <1>1, <1>2, <1>3

LEMMA Recording ==
  ASSUME DeliveryInv, NEW v \in Visits, NEW result \in Verdicts, NEW handoff \in BOOLEAN,
         NEW step \in Ends, Records(v, result, handoff, step)
  PROVE  LET t == visit[v].ticket IN
           \/ t \in validated /\ ~handoff /\ UNCHANGED outcomes
           \/ t \notin validated /\ ~handoff /\ Emit(t, <<result>>)
           \/ t \notin validated /\ handoff /\ Emit(t, <<"passed", "redirect_issued">>)
<1> DEFINE t == visit[v].ticket
<1>1. t \in Tickets
  BY RecordingRow
<1>4. handoff => t \notin validated /\ t \notin handedOff /\ result = "passed"
  BY DEF Records, At, DeliveryInv, VisitInv, Undecided, TicketTypeOK
<1>5. Emit(t, (IF t \in validated THEN << >> ELSE <<result>>)
              \o (IF handoff /\ t \notin handedOff THEN <<"redirect_issued">> ELSE << >>))
  BY DEF Records, RecordOutcome, RecordedAs
<1>6. CASE t \in validated
  <2>1. ~handoff /\ Emit(t, << >>)
    BY <1>4, <1>5, <1>6, ShortLists
  <2>2. outcomes[t] \o << >> = outcomes[t]
    BY <1>1, ConcatEmptySeq DEF DeliveryInv, TicketTypeOK
  <2>3. UNCHANGED outcomes
    BY <2>1, <2>2, <1>1 DEF Emit, DeliveryInv, TicketTypeOK
  <2> QED
    BY <1>6, <2>1, <2>3
<1>7. CASE t \notin validated /\ handoff
  <2>1. <<result>> \o <<"redirect_issued">> = <<"passed", "redirect_issued">>
    BY <1>4, <1>7, ShortLists, Zenon
  <2>2. Emit(t, <<"passed", "redirect_issued">>)
    BY <1>4, <1>5, <1>7, <2>1
  <2> QED
    BY <1>7, <2>2
<1>8. CASE t \notin validated /\ ~handoff
  BY <1>5, <1>8, ShortLists
<1> QED
  BY <1>6, <1>7, <1>8

LEMMA RecordingTells ==
  ASSUME DeliveryInv, NEW v \in Visits, NEW result \in Verdicts, NEW handoff \in BOOLEAN,
         NEW step \in Ends, Records(v, result, handoff, step)
  PROVE  /\ outcomes' \in [Tickets -> Seq(Outcome)]
         /\ \A t \in Tickets : \A x : Tells(outcomes[t], x) => Tells(outcomes'[t], x)
         /\ \A t \in Tickets : t # visit[v].ticket => outcomes'[t] = outcomes[t]
         /\ handoff => Tells(outcomes'[visit[v].ticket], "redirect_issued")
<1> DEFINE t == visit[v].ticket
<1>0. outcomes \in [Tickets -> Seq(Outcome)]
  BY DEF DeliveryInv, TicketTypeOK, Outcome
<1>1. /\ t \in Tickets
      /\ \/ ~handoff /\ UNCHANGED outcomes
         \/ ~handoff /\ Emit(t, <<result>>)
         \/ handoff /\ Emit(t, <<"passed", "redirect_issued">>)
  BY Recording, RecordingRow
<1>2. <<result>> \in Seq(Outcome) /\ <<"passed", "redirect_issued">> \in Seq(Outcome)
  BY DEF Outcome, Verdicts
<1>4. Tells(<<"passed", "redirect_issued">>, "redirect_issued")
  BY ShortTold, Zenon
<1>3. ASSUME NEW e \in Seq(Outcome), Emit(t, e)
      PROVE  /\ outcomes' \in [Tickets -> Seq(Outcome)]
             /\ \A u \in Tickets : \A x : Tells(outcomes[u], x) => Tells(outcomes'[u], x)
             /\ \A u \in Tickets : u # t => outcomes'[u] = outcomes[u]
             /\ \A x : Tells(e, x) => Tells(outcomes'[t], x)
  <2>1. /\ outcomes[t] \o e \in Seq(Outcome)
        /\ \A x : Tells(outcomes[t] \o e, x) <=> Tells(outcomes[t], x) \/ Tells(e, x)
    BY <1>0, <1>1, TellsBoth
  <2>2. outcomes' = [outcomes EXCEPT ![t] = outcomes[t] \o e]
    BY <1>3 DEF Emit
  <2> HIDE DEF t
  <2>3. outcomes' \in [Tickets -> Seq(Outcome)] /\ outcomes'[t] = outcomes[t] \o e
    BY <1>0, <1>1, <2>1, <2>2
  <2>4. \A u \in Tickets : u # t => outcomes'[u] = outcomes[u]
    BY <1>0, <2>2
  <2> QED
    BY <2>1, <2>3, <2>4
<1> QED
  BY <1>0, <1>1, <1>2, <1>3, <1>4

-----------------------------------------------------------------------------
(* The invariant holds initially and is kept. *)

LEMMA InitInv == TicketInit => DeliveryInv
<1> SUFFICES ASSUME TicketInit PROVE DeliveryInv
  OBVIOUS
<1> USE DeliveryAssumption
<1>1. TicketTypeOK
  BY DEF TicketInit, TicketTypeOK, Steps
<1>2. ExpiryIsNested
  BY DEF TicketInit, ExpiryIsNested
<1>3. VisitInv
  BY DEF TicketInit, VisitInv, Undecided
<1>4. OutcomeInv
  BY ShortTold DEF TicketInit, OutcomeInv
<1> QED
  BY <1>1, <1>2, <1>3, <1>4 DEF DeliveryInv

(* The type of what the database holds, and of what the handlers do. *)
LEMMA TypeStep ==
  ASSUME DeliveryInv, [TicketNext]_deliveryVars
  PROVE  TicketTypeOK'
<1> USE DeliveryAssumption
<1>t. TicketTypeOK
  BY DEF DeliveryInv
<1>o. Outcome = Verdicts \cup {"succeeded", "redirect_issued", "expired_unredeemed"}
  BY DEF Outcome
<1>0. CASE UNCHANGED deliveryVars
  BY <1>0, <1>t DEF deliveryVars, taskVars, candidate, ticketVars, TicketTypeOK
<1>r. ASSUME NEW g PROVE RemoveTicketsOf(g) => row' \in [Tickets -> {"absent", "open", "redeemed", "removed"}]
  BY <1>t DEF RemoveTicketsOf, TicketTypeOK
<1>e. ASSUME NEW t \in Tickets, NEW x \in Outcome, Emit(t, <<x>>)
      PROVE  outcomes' \in [Tickets -> Seq(Outcome)]
  <2>1. outcomes[t] \o <<x>> \in Seq(Outcome)
    BY <1>t, ConcatProperties DEF TicketTypeOK, Outcome
  <2> QED
    BY <1>e, <1>t, <2>1 DEF Emit, TicketTypeOK, Outcome
<1>1. CASE Complete
  <2>1. \A requested \in now + 1 .. TaskExpiry + 1 : Min({requested, TaskExpiry}) \in 0 .. TaskExpiry
    <3> TAKE requested \in now + 1 .. TaskExpiry + 1
    <3>1. requested \in Nat /\ requested \in Int /\ TaskExpiry \in Nat /\ TaskExpiry \in Int
      BY <1>t DEF TicketTypeOK
    <3>2. /\ Min({requested, TaskExpiry}) = requested \/ Min({requested, TaskExpiry}) = TaskExpiry
          /\ Min({requested, TaskExpiry}) <= TaskExpiry
      BY <3>1, EarliestOfTwo
    <3> QED
      BY <3>1, <3>2
  <2>2. candidateExpiry' \in 0 .. TaskExpiry
    <3>1. \/ \E requested \in now + 1 .. TaskExpiry + 1 : candidateExpiry' = Min({requested, TaskExpiry})
          \/ candidateExpiry' = 0
      BY <1>1 DEF Complete, StoreCandidate
    <3>2. 0 \in 0 .. TaskExpiry
      OBVIOUS
    <3> QED
      BY <2>1, <3>1, <3>2
  <2>3. completions' \in 0 .. MaxCompletions /\ stored' \in {0, completions'}
        /\ candidateOf' \in [Tickets -> 0 .. completions']
    BY <1>1, <1>t DEF Complete, StoreCandidate, TicketTypeOK
  <2> QED
    BY <1>1, <1>t, <1>r, <2>2, <2>3 DEF Complete, StoreCandidate, TicketTypeOK
<1>2. CASE Reopen
  BY <1>2, <1>t DEF Reopen, candidate, ticketVars, TicketTypeOK
<1>3. ASSUME NEW t \in Tickets, IssueTicket(t) PROVE TicketTypeOK'
  <2>1. Min({now + MaximumTtl, candidateExpiry, TaskExpiry}) \in Nat
    <3>1. /\ now + MaximumTtl \in Nat /\ candidateExpiry \in Nat /\ TaskExpiry \in Nat
          /\ now + MaximumTtl \in Int /\ candidateExpiry \in Int /\ TaskExpiry \in Int
      BY <1>t DEF TicketTypeOK
    <3>2. Min({now + MaximumTtl, candidateExpiry, TaskExpiry})
            \in {now + MaximumTtl, candidateExpiry, TaskExpiry}
      BY <3>1, EarliestOfThree
    <3> QED
      BY <3>1, <3>2
  <2>2. outcomes' \in [Tickets -> Seq(Outcome)]
    BY <1>3, <1>e DEF IssueTicket, InsertTicket, Outcome
  <2>3. /\ row' \in [Tickets -> {"absent", "open", "redeemed", "removed"}]
        /\ candidateOf' \in [Tickets -> 0 .. completions] /\ ticketExpiry' \in [Tickets -> Nat]
    BY <1>3, <1>t, <2>1 DEF IssueTicket, InsertTicket, TicketTypeOK
  <2> QED
    BY <1>3, <1>t, <1>o, <2>2, <2>3 DEF IssueTicket, InsertTicket, taskVars, candidate, TicketTypeOK
<1>4. ASSUME NEW v \in Visits, NEW t \in Tickets, NEW step \in {"redeemed", "failed"}, Redeems(v, t, step),
             losses' \in 0 .. MaxLosses
      PROVE  TicketTypeOK'
  <2>1. visit' \in [Visits -> [at : Steps, ticket : Tickets \cup {Nobody}]]
    BY <1>4, <1>t, Redeeming
  <2> QED
    BY <1>4, <1>t, <2>1 DEF Redeems, MarkRedeemed, taskVars, candidate, TicketTypeOK
<1>5. ASSUME NEW v \in Visits, NEW step \in Steps, Proceed(v, step), losses' \in 0 .. MaxLosses,
             UNCHANGED <<taskVars, candidate, ticketVars, now>>
      PROVE  TicketTypeOK'
  <2>1. visit' \in [Visits -> [at : Steps, ticket : Tickets \cup {Nobody}]]
    BY <1>5, <1>t, Proceeding
  <2> QED
    BY <1>5, <1>t, <2>1 DEF taskVars, candidate, ticketVars, TicketTypeOK
<1>6. ASSUME NEW v \in Visits, NEW result \in Verdicts, NEW handoff \in BOOLEAN, NEW step \in Ends,
             Records(v, result, handoff, step), losses' \in 0 .. MaxLosses
      PROVE  TicketTypeOK'
  <2>1. visit' \in [Visits -> [at : Steps, ticket : Tickets \cup {Nobody}]]
    BY <1>6, <1>t, Proceeding DEF Records, Ends, Steps
  <2>2. outcomes' \in [Tickets -> Seq(Outcome)]
    BY <1>6, RecordingTells
  <2>3. /\ UNCHANGED <<row, candidateOf, ticketExpiry>>
        /\ validated' = validated \cup {visit[v].ticket} /\ visit[v].ticket \in Tickets
        /\ handedOff' \subseteq validated'
    BY <1>6, RecordingRow
  <2>4. UNCHANGED <<taskVars, candidate, now>>
    BY <1>6 DEF Records
  <2> QED
    BY <1>6, <1>t, <1>o, <2>1, <2>2, <2>3, <2>4 DEF taskVars, candidate, TicketTypeOK
<1>7. CASE Tick
  BY <1>7, <1>t DEF Tick, taskVars, candidate, ticketVars, TicketTypeOK
<1>8. ASSUME NEW t \in Tickets, CleanTicket(t) PROVE TicketTypeOK'
  <2>1. outcomes' \in [Tickets -> Seq(Outcome)]
    BY <1>8, <1>t, <1>e DEF CleanTicket, TicketTypeOK, Outcome
  <2> QED
    BY <1>8, <1>t, <1>o, <2>1 DEF CleanTicket, taskVars, candidate, TicketTypeOK
<1>9. CASE CleanCandidate \/ HardDeleteTask
  BY <1>9, <1>t, <1>r DEF CleanCandidate, HardDeleteTask, RemoveCandidate, TicketTypeOK
<1>10. CASE ExpireTask
  BY <1>10, <1>t DEF ExpireTask, candidate, ticketVars, TicketTypeOK
<1>l. losses \in 0 .. MaxLosses /\ (Loss => losses' \in 0 .. MaxLosses)
  BY <1>t DEF TicketTypeOK, Loss
<1>11. ASSUME NEW v \in Visits, NEW t \in Tickets, Redeem(v, t) \/ RedeemLost(v, t) PROVE TicketTypeOK'
  BY <1>11, <1>4, <1>l DEF Redeem, RedeemLost, Redeems
<1>12. ASSUME NEW v \in Visits, NEW t \in Tickets, RedeemRefused(v, t) PROVE TicketTypeOK'
  BY <1>12, <1>5, <1>l DEF RedeemRefused, Steps
<1>13. ASSUME NEW v \in Visits, Validate(v) \/ StreamEnds(v) PROVE TicketTypeOK'
  BY <1>13, <1>5, <1>l DEF Validate, StreamEnds, Steps
<1>14. ASSUME NEW v \in Visits, HandOff(v) \/ FinishStream(v) \/ Reject(v) PROVE TicketTypeOK'
  <2>1. losses' \in 0 .. MaxLosses
    BY <1>14, <1>l DEF HandOff, FinishStream, Reject
  <2> QED
    BY <1>14, <1>6, <2>1, RecordingSteps
<1>15. ASSUME NEW v \in Visits, RecordThrows(v) PROVE TicketTypeOK'
  <2>1. losses' \in 0 .. MaxLosses
    BY <1>15, <1>l DEF RecordThrows
  <2>2. CASE UNCHANGED ticketVars
    <3>1. \E step \in Steps : Proceed(v, step)
      BY <1>15 DEF RecordThrows, Steps
    <3>2. UNCHANGED <<taskVars, candidate, now>>
      BY <1>15 DEF RecordThrows
    <3> QED
      BY <2>1, <2>2, <3>1, <3>2, <1>5
  <2>3. CASE ~UNCHANGED ticketVars
    BY <1>15, <1>6, <2>1, <2>3, RecordingSteps
  <2> QED
    BY <2>2, <2>3
<1> QED
  BY <1>0, <1>1, <1>2, <1>3, <1>7, <1>8, <1>9, <1>10, <1>11, <1>12, <1>13, <1>14, <1>15 DEF TicketNext

-----------------------------------------------------------------------------
(* Expiries are nested: what a completion or a cleanup removes with its     *)
(* candidate is every ticket there is.                                      *)
LEMMA NestedStep ==
  ASSUME DeliveryInv, [TicketNext]_deliveryVars
  PROVE  ExpiryIsNested'
<1> USE DeliveryAssumption
<1>t. TicketTypeOK /\ ExpiryIsNested
  BY DEF DeliveryInv
<1>0. ASSUME UNCHANGED <<row, candidateOf, ticketExpiry, candidate>> PROVE ExpiryIsNested'
  BY <1>0, <1>t DEF ExpiryIsNested, candidate
<1>1. ASSUME RemoveTicketsOf(stored), UNCHANGED candidateOf PROVE ExpiryIsNested'
  <2>1. \A t \in Tickets : row'[t] \notin {"open", "redeemed"}
    BY <1>1, <1>t DEF RemoveTicketsOf, ExpiryIsNested
  <2> QED
    BY <2>1 DEF ExpiryIsNested
<1>2. CASE Complete \/ CleanCandidate \/ HardDeleteTask
  BY <1>1, <1>2 DEF Complete, StoreCandidate, CleanCandidate, HardDeleteTask, RemoveCandidate
<1>3. ASSUME NEW t \in Tickets, IssueTicket(t) PROVE ExpiryIsNested'
  <2>1. now + MaximumTtl \in Int /\ candidateExpiry \in Int /\ TaskExpiry \in Int
    BY <1>t DEF TicketTypeOK
  <2>2. /\ Min({now + MaximumTtl, candidateExpiry, TaskExpiry}) <= candidateExpiry
        /\ candidateExpiry <= TaskExpiry
    <3>1. Min({now + MaximumTtl, candidateExpiry, TaskExpiry}) <= candidateExpiry
      BY <2>1, EarliestOfThree
    <3> QED
      BY <3>1, <1>t DEF TicketTypeOK
  <2>3. /\ row' = [row EXCEPT ![t] = "open"] /\ candidateOf' = [candidateOf EXCEPT ![t] = stored]
        /\ ticketExpiry'
             = [ticketExpiry EXCEPT ![t] = Min({now + MaximumTtl, candidateExpiry, TaskExpiry})]
        /\ UNCHANGED candidate
    BY <1>3 DEF IssueTicket, InsertTicket
  <2> HIDE DeliveryAssumption
  <2> QED
    BY <2>2, <2>3, <1>t DEF ExpiryIsNested, TicketTypeOK, candidate
<1>4. ASSUME NEW t \in Tickets, MarkRedeemed(t), Redeemable(t), UNCHANGED candidate PROVE ExpiryIsNested'
  BY <1>4, <1>t DEF MarkRedeemed, Redeemable, ExpiryIsNested, TicketTypeOK, candidate
<1>5. ASSUME NEW v \in Visits, NEW t \in Tickets, Redeem(v, t) \/ RedeemLost(v, t) PROVE ExpiryIsNested'
  BY <1>5, <1>4 DEF Redeem, RedeemLost
<1>6. ASSUME NEW t \in Tickets, CleanTicket(t) PROVE ExpiryIsNested'
  BY <1>6, <1>t DEF CleanTicket, ExpiryIsNested, TicketTypeOK, candidate
<1>7. CASE Reopen \/ ExpireTask \/ Tick \/ UNCHANGED deliveryVars
  BY <1>0, <1>7 DEF Reopen, ExpireTask, Tick, deliveryVars, ticketVars
<1>8. ASSUME NEW v \in Visits, Validate(v) \/ StreamEnds(v) PROVE ExpiryIsNested'
  BY <1>0, <1>8 DEF Validate, StreamEnds, ticketVars
<1>9. ASSUME NEW v \in Visits, HandOff(v) \/ FinishStream(v) \/ Reject(v) \/ RecordThrows(v)
      PROVE  ExpiryIsNested'
  <2>1. UNCHANGED <<row, candidateOf, ticketExpiry>> /\ UNCHANGED candidate
    BY <1>9 DEF HandOff, FinishStream, Reject, RecordThrows, RecordOutcome, ticketVars
  <2> QED
    BY <2>1, <1>0
<1>10. ASSUME NEW v \in Visits, NEW t \in Tickets, RedeemRefused(v, t) PROVE ExpiryIsNested'
  BY <1>0, <1>10 DEF RedeemRefused, ticketVars
<1> QED
  BY <1>2, <1>3, <1>5, <1>6, <1>7, <1>8, <1>9, <1>10 DEF TicketNext

-----------------------------------------------------------------------------
(* A visit and its ticket; what the ticket's outcomes tell.                 *)
VisitsAgree == VisitInv /\ OutcomeInv

LEMMA VisitStep ==
  ASSUME DeliveryInv, [TicketNext]_deliveryVars
  PROVE  VisitsAgree'
<1> USE DeliveryAssumption
<1>t. TicketTypeOK /\ VisitInv /\ OutcomeInv
  BY DEF DeliveryInv
<1>k. \A v \in Visits : visit[v].ticket \in Tickets \cup {Nobody} /\ visit[v].at \in Steps
  BY <1>t DEF TicketTypeOK
<1>0. ASSUME UNCHANGED <<row, validated, outcomes, visit>> PROVE VisitsAgree'
  BY <1>0, <1>t DEF VisitsAgree, VisitInv, OutcomeInv, Tells
(* rows that go, when nothing else changes *)
<1>1. ASSUME \A t \in Tickets : row'[t] = row[t] \/ row'[t] = "removed",
             UNCHANGED <<validated, outcomes, visit>>
      PROVE  VisitsAgree'
  <2>1. VisitInv'
    BY <1>1, <1>t, <1>k DEF VisitInv, Tells
  <2>2. OutcomeInv'
    BY <1>1, <1>t DEF OutcomeInv, Tells
  <2> QED
    BY <2>1, <2>2 DEF VisitsAgree
<1>2. CASE Complete \/ CleanCandidate \/ HardDeleteTask
  <2>1. \A t \in Tickets : row'[t] = row[t] \/ row'[t] = "removed"
    BY <1>2 DEF Complete, CleanCandidate, HardDeleteTask, RemoveCandidate, RemoveTicketsOf
  <2> QED
    BY <1>1, <1>2, <2>1 DEF Complete, StoreCandidate, CleanCandidate, HardDeleteTask, RemoveCandidate
(* events that are no verdict, for a ticket no visit has *)
<1>3. ASSUME NEW t \in Tickets, NEW x \in {"succeeded", "expired_unredeemed"}, Emit(t, <<x>>),
             t \notin validated, row[t] \in {"absent", "open"},
             \A u \in Tickets \ {t} : row'[u] = row[u],
             UNCHANGED <<validated, visit>>
      PROVE  VisitsAgree'
  <2>1. /\ \A y : Tells(outcomes'[t], y) <=> Tells(outcomes[t], y) \/ y = x
        /\ \A u \in Tickets : u # t => outcomes'[u] = outcomes[u]
    <3>1. outcomes[t] \in Seq(Outcome) /\ <<x>> \in Seq(Outcome)
      BY <1>t DEF TicketTypeOK, Outcome
    <3>2. \A y : Tells(outcomes[t] \o <<x>>, y) <=> Tells(outcomes[t], y) \/ Tells(<<x>>, y)
      BY <3>1, TellsBoth
    <3>3. \A y : Tells(outcomes[t] \o <<x>>, y) <=> Tells(outcomes[t], y) \/ y = x
      BY <3>2, ShortTold
    <3> QED
      BY <1>3, <1>t, <3>3 DEF Emit, TicketTypeOK
  <2>2. \A v \in Visits : visit[v].ticket # t
    BY <1>3, <1>t DEF VisitInv
  <2>3. VisitInv'
    <3> SUFFICES ASSUME NEW v \in Visits, visit[v].ticket # Nobody
                 PROVE  /\ row'[visit[v].ticket] = row[visit[v].ticket]
                        /\ outcomes'[visit[v].ticket] = outcomes[visit[v].ticket]
      BY <1>3, <1>t DEF VisitInv
    <3> QED
      BY <1>3, <1>k, <2>1, <2>2
  <2>4. OutcomeInv'
    <3>1. x \notin Verdicts
      BY <1>3 DEF Verdicts
    <3>2. ASSUME NEW u \in Tickets, u # t
          PROVE  row'[u] = row[u] /\ outcomes'[u] = outcomes[u]
      BY <3>2, <1>3, <2>1
    <3> QED
      BY <1>3, <1>t, <2>1, <3>1, <3>2 DEF OutcomeInv
  <2> QED
    BY <2>3, <2>4 DEF VisitsAgree
<1>4. ASSUME NEW t \in Tickets, IssueTicket(t) PROVE VisitsAgree'
  <2>1. t \notin validated /\ row[t] = "absent"
    BY <1>4, <1>t DEF IssueTicket, InsertTicket, OutcomeInv
  <2> QED
    BY <1>3, <1>4, <1>t, <2>1 DEF IssueTicket, InsertTicket, TicketTypeOK
<1>5. ASSUME NEW t \in Tickets, CleanTicket(t) PROVE VisitsAgree'
  <2>1. CASE row[t] = "open"
    <3>1. t \notin validated
      BY <2>1, <1>t DEF OutcomeInv
    <3> QED
      BY <1>3, <1>5, <1>t, <2>1, <3>1 DEF CleanTicket, TicketTypeOK
  <2>2. CASE row[t] # "open"
    BY <1>1, <1>5, <1>t, <2>2 DEF CleanTicket, TicketTypeOK
  <2> QED
    BY <2>1, <2>2
<1>6. ASSUME NEW v \in Visits, NEW t \in Tickets, NEW step \in {"redeemed", "failed"}, Redeems(v, t, step)
      PROVE  VisitsAgree'
  <2>1. /\ visit'[v].at = step /\ visit'[v].ticket = t
        /\ \A w \in Visits : w # v => visit'[w] = visit[w]
    BY <1>6, <1>t, Redeeming
  <2>2. /\ row[t] = "open" /\ row'[t] = "redeemed" /\ \A u \in Tickets : u # t => row'[u] = row[u]
        /\ UNCHANGED <<validated, outcomes>>
    BY <1>6, <1>t DEF Redeems, Redeemable, MarkRedeemed, TicketTypeOK
  <2>3. t \notin validated /\ t # Nobody /\ \A w \in Visits : visit[w].ticket # t
    BY <2>2, <1>t DEF OutcomeInv, VisitInv
  <2>4. VisitInv'
    <3>1. ASSUME NEW w \in Visits, w # v, visit[w].ticket # Nobody
          PROVE  row'[visit[w].ticket] = row[visit[w].ticket]
      BY <3>1, <1>k, <2>2, <2>3
    <3> QED
      BY <2>1, <2>2, <2>3, <3>1, <1>t DEF VisitInv, Undecided
  <2>5. OutcomeInv'
    BY <2>2, <2>3, <1>t DEF OutcomeInv
  <2> QED
    BY <2>4, <2>5 DEF VisitsAgree
(* a visit goes on without a record *)
<1>7. ASSUME NEW v \in Visits, NEW step \in Steps, Proceed(v, step), UNCHANGED <<row, validated, outcomes>>,
             step # "new", step # "redirected",
             step \in Undecided => visit[v].at \in Undecided,
             step = "broken" => visit[v].at \in Undecided \cup {"broken"}
      PROVE  VisitsAgree'
  <2>1. /\ visit'[v].at = step /\ \A w \in Visits : w # v => visit'[w] = visit[w]
        /\ \A w \in Visits : visit'[w].ticket = visit[w].ticket
    BY <1>7, <1>t, Proceeding
  <2>2. VisitInv'
    BY <1>7, <2>1, <1>t DEF VisitInv, Tells
  <2>3. OutcomeInv'
    BY <1>7, <1>t DEF OutcomeInv, Tells
  <2> QED
    BY <2>2, <2>3 DEF VisitsAgree
(* and with one *)
<1>8. ASSUME NEW v \in Visits, NEW result \in Verdicts, NEW handoff \in BOOLEAN, NEW step \in Ends,
             Records(v, result, handoff, step)
      PROVE  VisitsAgree'
  <2>1. /\ visit'[v].at = step /\ \A w \in Visits : w # v => visit'[w] = visit[w]
        /\ \A w \in Visits : visit'[w].ticket = visit[w].ticket
    BY <1>8, <1>t, Proceeding DEF Records, Ends, Steps
  <2>2. /\ visit[v].ticket \in Tickets /\ row[visit[v].ticket] = "redeemed" /\ UNCHANGED row
        /\ validated' = validated \cup {visit[v].ticket}
    BY <1>8, RecordingRow
  <2>3. /\ \A t \in Tickets : \A x : Tells(outcomes[t], x) => Tells(outcomes'[t], x)
        /\ \A t \in Tickets : t # visit[v].ticket => outcomes'[t] = outcomes[t]
        /\ handoff => Tells(outcomes'[visit[v].ticket], "redirect_issued")
    BY <1>8, RecordingTells
  <2>4. step \notin Undecided /\ step # "new" /\ (step = "redirected" => handoff)
        /\ visit[v].ticket # Nobody
    BY <1>8, <2>2 DEF Records, Ends, Undecided
  <2>5. VisitInv'
    <3>1. ASSUME NEW w \in Visits, w # v, visit[w].ticket # Nobody
          PROVE  visit[w].ticket \in Tickets /\ visit[w].ticket # visit[v].ticket
      BY <3>1, <1>k, <1>t DEF VisitInv
    <3>2. \A w \in Visits : w # v => visit'[w] = visit[w] /\ visit'[w].at = visit[w].at
      BY <2>1
    <3> QED
      BY <2>1, <2>2, <2>3, <2>4, <3>1, <3>2, <1>t DEF VisitInv
  <2>6. OutcomeInv'
    BY <2>2, <2>3, <1>t DEF OutcomeInv
  <2> QED
    BY <2>5, <2>6 DEF VisitsAgree
<1>9. ASSUME NEW v \in Visits, NEW t \in Tickets, Redeem(v, t) \/ RedeemLost(v, t) PROVE VisitsAgree'
  BY <1>6, <1>9 DEF Redeem, RedeemLost, Redeems
<1>10. ASSUME NEW v \in Visits, NEW t \in Tickets, RedeemRefused(v, t) PROVE VisitsAgree'
  BY <1>7, <1>10 DEF RedeemRefused, ticketVars, Steps, Undecided
<1>11. ASSUME NEW v \in Visits, Validate(v) \/ StreamEnds(v) PROVE VisitsAgree'
  BY <1>7, <1>11 DEF Validate, StreamEnds, ticketVars, Steps, Undecided, At
<1>12. ASSUME NEW v \in Visits, HandOff(v) \/ FinishStream(v) \/ Reject(v) PROVE VisitsAgree'
  BY <1>8, <1>12, RecordingSteps
<1>13. ASSUME NEW v \in Visits, RecordThrows(v) PROVE VisitsAgree'
  <2>1. CASE UNCHANGED ticketVars
    BY <1>7, <1>13, <2>1 DEF RecordThrows, ticketVars, Steps, Undecided, At
  <2>2. CASE ~UNCHANGED ticketVars
    BY <1>8, <1>13, <2>2, RecordingSteps
  <2> QED
    BY <2>1, <2>2
<1>14. CASE Reopen \/ ExpireTask \/ Tick \/ UNCHANGED deliveryVars
  BY <1>0, <1>14 DEF Reopen, ExpireTask, Tick, deliveryVars, ticketVars
<1> QED
  BY <1>2, <1>4, <1>5, <1>9, <1>10, <1>11, <1>12, <1>13, <1>14 DEF TicketNext

LEMMA InvStep == DeliveryInv /\ [TicketNext]_deliveryVars => DeliveryInv'
<1>1. DeliveryInv /\ [TicketNext]_deliveryVars => TicketTypeOK' /\ ExpiryIsNested' /\ VisitsAgree'
  BY TypeStep, NestedStep, VisitStep
<1> QED
  BY <1>1 DEF DeliveryInv, VisitsAgree

(* The inductive invariant: types, nested expiries, one visit for each used *)
(* ticket, columns that tell what the outcomes do.                          *)
THEOREM DeliveryInvariant == TicketSpec => []DeliveryInv
BY InitInv, InvStep, PTL DEF TicketSpec

(* A ticket expires with its candidate and the candidate with its task at   *)
(* the latest (issueDeliveryTicket), whatever is completed again, removed   *)
(* late or lost.                                                            *)
THEOREM ExpiriesAreNested == TicketSpec => []ExpiryIsNested
<1>1. DeliveryInv => ExpiryIsNested
  BY DEF DeliveryInv
<1> QED
  BY <1>1, DeliveryInvariant, PTL

(* A browser that was redirected is in the evidence of its ticket           *)
(* (apps/delivery/src/app.ts records before it answers).                    *)
THEOREM EveryHandoffIsRecorded == TicketSpec => []HandoffIsRecorded
<1>1. DeliveryInv => HandoffIsRecorded
  BY DEF DeliveryInv, VisitInv, HandoffIsRecorded, At, Tells
<1> QED
  BY <1>1, DeliveryInvariant, PTL

(* A visit only ever receives the candidate of the latest completion, while *)
(* it and its task are unexpired (redeemDeliveryTicket).                    *)
THEOREM VisitsReceiveCurrentCandidates == TicketSpec => RedeemsCurrentCandidate
<1> DEFINE Current ==
      \A v \in Visits :
        visit[v].ticket = Nobody /\ visit'[v].ticket # Nobody
          => /\ candidateOf[visit'[v].ticket] = completions
             /\ now < candidateExpiry /\ now < TaskExpiry
<1>1. DeliveryInv /\ [TicketNext]_deliveryVars => [Current]_deliveryVars
  <2> SUFFICES ASSUME DeliveryInv, TicketNext PROVE Current
    BY DEF deliveryVars
  <2>t. TicketTypeOK /\ ExpiryIsNested /\ VisitInv
    BY DEF DeliveryInv
  <2>1. ASSUME NEW v \in Visits, NEW t \in Tickets, Redeem(v, t) \/ RedeemLost(v, t) PROVE Current
    <3>1. \E step \in {"redeemed", "failed"} : Redeems(v, t, step)
      BY <2>1 DEF Redeem, RedeemLost, Redeems
    <3>2. visit'[v].ticket = t /\ \A w \in Visits : w # v => visit'[w] = visit[w]
      BY <3>1, <2>t, Redeeming
    <3>3. row[t] = "open" /\ stored # 0 /\ now < candidateExpiry /\ now < TaskExpiry
      BY <3>1 DEF Redeems, Redeemable, CandidateUsable
    <3>4. candidateOf[t] = completions
      BY <3>3, <2>t DEF ExpiryIsNested, TicketTypeOK
    <3> QED
      BY <3>2, <3>3, <3>4
  <2>2. ASSUME \A v \in Visits : visit'[v].ticket = visit[v].ticket PROVE Current
    BY <2>2
  <2>3. ASSUME UNCHANGED visit PROVE Current
    BY <2>2, <2>3
  <2>4. ASSUME NEW v \in Visits, NEW step \in Steps, Proceed(v, step) PROVE Current
    BY <2>2, <2>4, <2>t, Proceeding
  <2>5. ASSUME NEW v \in Visits,
               \/ Validate(v) \/ StreamEnds(v) \/ HandOff(v) \/ FinishStream(v) \/ Reject(v)
               \/ RecordThrows(v) \/ \E t \in Tickets : RedeemRefused(v, t)
        PROVE  Current
    <3>1. \E step \in Steps : Proceed(v, step)
      BY <2>5 DEF Validate, StreamEnds, HandOff, FinishStream, Reject, RecordThrows, RedeemRefused, Steps
    <3> QED
      BY <2>4, <3>1
  <2>6. CASE \/ Complete \/ Reopen \/ CleanCandidate \/ ExpireTask \/ HardDeleteTask \/ Tick
             \/ \E t \in Tickets : IssueTicket(t) \/ CleanTicket(t)
    BY <2>3, <2>6 DEF Complete, StoreCandidate, Reopen, CleanCandidate, RemoveCandidate, ExpireTask,
                      HardDeleteTask, Tick, IssueTicket, InsertTicket, CleanTicket
  <2> HIDE DEF Current
  <2> QED
    BY <2>1, <2>5, <2>6 DEF TicketNext
<1> QED
  BY <1>1, DeliveryInvariant, PTL DEF TicketSpec, RedeemsCurrentCandidate

-----------------------------------------------------------------------------
(* The refinement: every step of the code is a step of the one-use tickets, *)
(* or none.                                                                 *)

WinnerOf(visits) ==
  [t \in Tickets |->
     IF \E v \in Visits : visits[v].ticket = t
     THEN CHOOSE v \in Visits : visits[v].ticket = t ELSE Nobody]

LEMMA OneWinner ==
  ASSUME NEW visits, \A v, w \in Visits :
           visits[v].ticket = visits[w].ticket /\ visits[v].ticket # Nobody => v = w
  PROVE  \A t \in Tickets :
           /\ \A v \in Visits : visits[v].ticket = t => WinnerOf(visits)[t] = v
           /\ (\A v \in Visits : visits[v].ticket # t) => WinnerOf(visits)[t] = Nobody
<1> USE DeliveryAssumption
<1> TAKE t \in Tickets
<1>0. t # Nobody
  OBVIOUS
<1>1. ASSUME NEW v \in Visits, visits[v].ticket = t PROVE WinnerOf(visits)[t] = v
  <2>1. WinnerOf(visits)[t] = CHOOSE w \in Visits : visits[w].ticket = t
    BY <1>1 DEF WinnerOf
  <2>2. \A w \in Visits : visits[w].ticket = t <=> w = v
    BY <1>0, <1>1
  <2> QED
    BY <2>1, <2>2
<1>2. (\A v \in Visits : visits[v].ticket # t) => WinnerOf(visits)[t] = Nobody
  BY DEF WinnerOf
<1> QED
  BY <1>1, <1>2

(* Visits that keep their tickets leave the winners. *)
LEMMA SameWinners ==
  ASSUME TicketTypeOK, VisitInv, NEW visits,
         \A v \in Visits : visits[v].ticket = visit[v].ticket
  PROVE  WinnerOf(visits) = Winner
<1>1. \A v, w \in Visits : visit[v].ticket = visit[w].ticket /\ visit[v].ticket # Nobody => v = w
  BY DEF VisitInv
<1>2. \A v, w \in Visits : visits[v].ticket = visits[w].ticket /\ visits[v].ticket # Nobody => v = w
  BY <1>1
<1>3. ASSUME NEW t \in Tickets PROVE WinnerOf(visits)[t] = WinnerOf(visit)[t]
  <2>1. CASE \E v \in Visits : visit[v].ticket = t
    BY <2>1, <1>1, <1>2, OneWinner
  <2>2. CASE \A v \in Visits : visit[v].ticket # t
    BY <2>2, <1>1, <1>2, OneWinner
  <2> QED
    BY <2>1, <2>2
<1>4. WinnerOf(visits) = WinnerOf(visit)
  BY <1>3 DEF WinnerOf
<1> QED
  BY <1>4 DEF Winner, WinnerOf

PhaseOf(state) ==
  CASE state = "absent" -> "none" [] state = "open" -> "open"
    [] state = "redeemed" -> "won" [] OTHER -> "closed"

LEMMA PhaseIs ==
  /\ Phase = [t \in Tickets |-> PhaseOf(row[t])]
  /\ Phase' = [t \in Tickets |-> PhaseOf(row'[t])]
  /\ PhaseOf("absent") = "none" /\ PhaseOf("open") = "open"
  /\ PhaseOf("redeemed") = "won" /\ PhaseOf("removed") = "closed"
  BY DEF Phase, PhaseOf

LEMMA InitRefines == TicketInit => OneUse!Init
<1> SUFFICES ASSUME TicketInit PROVE OneUse!Init
  OBVIOUS
<1>1. Phase = [t \in Tickets |-> "none"]
  BY DEF TicketInit, Phase
<1>2. Winner = [t \in Tickets |-> Nobody]
  BY DeliveryAssumption DEF TicketInit, Winner
<1> QED
  BY <1>1, <1>2 DEF TicketInit, OneUse!Init

LEMMA StepRefines ==
  ASSUME DeliveryInv, DeliveryInv', [TicketNext]_deliveryVars
  PROVE  [OneUse!Next]_OneUse!vars
<1> USE DeliveryAssumption
<1>t. TicketTypeOK /\ VisitInv /\ OutcomeInv /\ TicketTypeOK'
  BY DEF DeliveryInv
<1>w. (\A v \in Visits : visit'[v].ticket = visit[v].ticket) => UNCHANGED Winner
  <2>1. (\A v \in Visits : visit'[v].ticket = visit[v].ticket) => WinnerOf(visit') = Winner
    BY <1>t, SameWinners
  <2> QED
    BY <2>1 DEF Winner, WinnerOf
<1>0. ASSUME UNCHANGED <<row, outcomes>>, \A v \in Visits : visit'[v].ticket = visit[v].ticket
      PROVE  UNCHANGED OneUse!vars
  BY <1>0, <1>w, PhaseIs DEF OneUse!vars
<1>1. ASSUME NEW T \in SUBSET Tickets, \A t \in T : row[t] \in {"open", "redeemed"},
             row' = [t \in Tickets |-> IF t \in T THEN "removed" ELSE row[t]],
             UNCHANGED <<outcomes, visit>>
      PROVE  OneUse!Next
  <2>1. \A t \in T : Phase[t] \in {"open", "won"}
    BY <1>1, PhaseIs
  <2>2. Phase' = [t \in Tickets |-> IF t \in T THEN "closed" ELSE Phase[t]]
    BY <1>1, PhaseIs
  <2>3. UNCHANGED <<Winner, outcomes>>
    BY <1>1, <1>w
  <2>4. OneUse!Close(T)
    BY <2>1, <2>2, <2>3 DEF OneUse!Close
  <2> QED
    BY <2>4 DEF OneUse!Next
<1>2. CASE Complete \/ CleanCandidate \/ HardDeleteTask
  <2> DEFINE T == {t \in Tickets : row[t] \in {"open", "redeemed"} /\ candidateOf[t] = stored}
  <2>1. row' = [t \in Tickets |-> IF t \in T THEN "removed" ELSE row[t]]
    BY <1>2 DEF Complete, CleanCandidate, HardDeleteTask, RemoveCandidate, RemoveTicketsOf
  <2>2. UNCHANGED <<outcomes, visit>>
    BY <1>2 DEF Complete, StoreCandidate, CleanCandidate, HardDeleteTask, RemoveCandidate
  <2> QED
    BY <2>1, <2>2, <1>1
<1>3. ASSUME NEW t \in Tickets, IssueTicket(t) PROVE OneUse!Next
  <2>1. /\ row[t] = "absent" /\ row' = [row EXCEPT ![t] = "open"]
        /\ Emit(t, <<"succeeded">>) /\ UNCHANGED visit
    BY <1>3 DEF IssueTicket, InsertTicket
  <2>2. Phase[t] = "none" /\ Phase' = [Phase EXCEPT ![t] = "open"]
    BY <2>1, <1>t, PhaseIs DEF TicketTypeOK
  <2>3. UNCHANGED Winner
    BY <2>1, <1>w
  <2>4. OneUse!Offer(t)
    BY <2>1, <2>2, <2>3 DEF OneUse!Offer, OneUse!Move, OneUse!Report, Emit
  <2> QED
    BY <2>4 DEF OneUse!Next
<1>4. ASSUME NEW t \in Tickets, CleanTicket(t) PROVE OneUse!Next
  <2>1. CASE row[t] = "open"
    <3>1. /\ row' = [row EXCEPT ![t] = "removed"] /\ Emit(t, <<"expired_unredeemed">>)
          /\ UNCHANGED visit
      BY <1>4, <2>1 DEF CleanTicket
    <3>2. Phase[t] = "open" /\ Phase' = [Phase EXCEPT ![t] = "closed"]
      BY <2>1, <3>1, <1>t, PhaseIs DEF TicketTypeOK
    <3>3. UNCHANGED Winner
      BY <3>1, <1>w
    <3>4. OneUse!ExpireUnredeemed(t)
      BY <3>1, <3>2, <3>3 DEF OneUse!ExpireUnredeemed, OneUse!Move, OneUse!Report, Emit
    <3> QED
      BY <3>4 DEF OneUse!Next
  <2>2. CASE row[t] # "open"
    <3>1. /\ row[t] = "redeemed" /\ UNCHANGED <<outcomes, visit>>
          /\ row' = [u \in Tickets |-> IF u \in {t} THEN "removed" ELSE row[u]]
      BY <1>4, <2>2, <1>t DEF CleanTicket, TicketTypeOK
    <3> QED
      BY <3>1, <1>1
  <2> QED
    BY <2>1, <2>2
<1>5. ASSUME NEW v \in Visits, NEW t \in Tickets, NEW step \in {"redeemed", "failed"}, Redeems(v, t, step)
      PROVE  OneUse!Next
  <2>1. /\ visit[v].ticket = Nobody /\ visit'[v].ticket = t
        /\ \A w \in Visits : w # v => visit'[w] = visit[w]
    BY <1>5, <1>t, Redeeming DEF Redeems, At, VisitInv
  <2>2. /\ row[t] = "open" /\ row' = [row EXCEPT ![t] = "redeemed"] /\ UNCHANGED outcomes
    BY <1>5 DEF Redeems, Redeemable, MarkRedeemed
  <2>3. Phase[t] = "open" /\ Phase' = [Phase EXCEPT ![t] = "won"]
    BY <2>2, <1>t, PhaseIs DEF TicketTypeOK
  <2>4. \A w \in Visits : visit[w].ticket # t
    BY <2>2, <1>t DEF VisitInv
  <2>5. \A w, u \in Visits : visit[w].ticket = visit[u].ticket /\ visit[w].ticket # Nobody => w = u
    BY <1>t DEF VisitInv
  <2>6. \A w, u \in Visits : visit'[w].ticket = visit'[u].ticket /\ visit'[w].ticket # Nobody => w = u
    BY <2>1, <2>4, <2>5
  <2>7. Winner = WinnerOf(visit) /\ Winner' = WinnerOf(visit')
    BY DEF Winner, WinnerOf
  <2>8. \A u \in Tickets : Winner[u] # v
    <3> SUFFICES ASSUME NEW u \in Tickets PROVE Winner[u] # v
      OBVIOUS
    <3>1. CASE \E w \in Visits : visit[w].ticket = u
      BY <3>1, <2>1, <2>5, <2>7, OneWinner
    <3>2. CASE \A w \in Visits : visit[w].ticket # u
      BY <3>2, <2>5, <2>7, OneWinner
    <3> QED
      BY <3>1, <3>2
  <2>9. Winner' = [Winner EXCEPT ![t] = v]
    <3>1. Winner'[t] = v
      BY <2>1, <2>6, <2>7, OneWinner
    <3>2. ASSUME NEW u \in Tickets, u # t PROVE Winner'[u] = Winner[u]
      <4>1. CASE \E w \in Visits : visit[w].ticket = u
        <5>1. PICK w \in Visits : visit[w].ticket = u
          BY <4>1
        <5>2. visit'[w].ticket = u
          BY <5>1, <2>1
        <5> QED
          BY <5>1, <5>2, <2>5, <2>6, <2>7, OneWinner
      <4>2. CASE \A w \in Visits : visit[w].ticket # u
        <5>1. \A w \in Visits : visit'[w].ticket # u
          BY <4>2, <3>2, <2>1
        <5> QED
          BY <5>1, <4>2, <2>5, <2>6, <2>7, OneWinner
      <4> QED
        BY <4>1, <4>2
    <3>3. Winner \in [Tickets -> Visits \cup {Nobody}] /\ DOMAIN Winner' = Tickets
      BY DEF Winner
    <3>4. Winner' = [u \in Tickets |-> Winner'[u]]
      BY DEF Winner
    <3> QED
      BY <3>1, <3>2, <3>3, <3>4
  <2>10. OneUse!Win(t, v)
    BY <2>2, <2>3, <2>8, <2>9 DEF OneUse!Win, OneUse!Move
  <2> QED
    BY <2>10 DEF OneUse!Next
<1>6. ASSUME NEW v \in Visits, NEW step \in Steps, Proceed(v, step), UNCHANGED <<row, outcomes>>
      PROVE  UNCHANGED OneUse!vars
  BY <1>0, <1>6, <1>t, Proceeding
<1>7. ASSUME NEW v \in Visits, NEW result \in Verdicts, NEW handoff \in BOOLEAN, NEW step \in Ends,
             Records(v, result, handoff, step)
      PROVE  OneUse!Next \/ UNCHANGED OneUse!vars
  <2> DEFINE t == visit[v].ticket
  <2>1. t \in Tickets /\ row[t] = "redeemed" /\ UNCHANGED row
    BY <1>7, RecordingRow
  <2>2. \A w \in Visits : visit'[w].ticket = visit[w].ticket
    BY <1>7, <1>t, Proceeding DEF Records, Ends, Steps
  <2>3. \/ UNCHANGED outcomes
        \/ t \notin validated /\ Emit(t, <<result>>)
        \/ t \notin validated /\ Emit(t, <<"passed", "redirect_issued">>)
    BY <1>7, Recording
  <2>4. CASE UNCHANGED outcomes
    BY <1>0, <2>1, <2>2, <2>4
  <2>5. CASE t \notin validated /\ (Emit(t, <<result>>) \/ Emit(t, <<"passed", "redirect_issued">>))
    <3>1. ~OneUse!Reported(t, OneUse!Results)
      <4>1. \A x \in Verdicts : ~Tells(outcomes[t], x)
        BY <2>1, <2>5, <1>t DEF OutcomeInv
      <4> QED
        BY <4>1 DEF OneUse!Reported, OneUse!Results, Verdicts, Tells
    <3>2. Phase[t] = "won" /\ UNCHANGED <<Phase, Winner>>
      BY <2>1, <2>2, <1>w, PhaseIs
    <3>3. \/ \E x \in OneUse!Results : OneUse!Report(t, <<x>>)
          \/ OneUse!Report(t, <<"passed", "redirect_issued">>)
      BY <2>5 DEF OneUse!Results, Verdicts, OneUse!Report, Emit
    <3>4. OneUse!Judge(t)
      BY <3>1, <3>2, <3>3 DEF OneUse!Judge
    <3> HIDE DEF t
    <3> QED
      BY <2>1, <3>4 DEF OneUse!Next
  <2> QED
    BY <2>3, <2>4, <2>5
<1>8. ASSUME NEW v \in Visits, NEW t \in Tickets, Redeem(v, t) \/ RedeemLost(v, t) PROVE OneUse!Next
  BY <1>5, <1>8 DEF Redeem, RedeemLost, Redeems
<1>9. ASSUME NEW v \in Visits,
             Validate(v) \/ StreamEnds(v) \/ \E t \in Tickets : RedeemRefused(v, t)
      PROVE  UNCHANGED OneUse!vars
  BY <1>6, <1>9 DEF Validate, StreamEnds, RedeemRefused, ticketVars, Steps
<1>10. ASSUME NEW v \in Visits, HandOff(v) \/ FinishStream(v) \/ Reject(v) \/ RecordThrows(v)
       PROVE  OneUse!Next \/ UNCHANGED OneUse!vars
  <2>1. CASE RecordThrows(v) /\ UNCHANGED ticketVars
    <3>1. UNCHANGED <<row, outcomes>> /\ \E step \in Steps : Proceed(v, step)
      BY <2>1 DEF RecordThrows, ticketVars, Steps
    <3> QED
      BY <3>1, <1>6
  <2>2. CASE ~(RecordThrows(v) /\ UNCHANGED ticketVars)
    BY <1>7, <1>10, <2>2, RecordingSteps
  <2> QED
    BY <2>1, <2>2
<1>11. CASE Reopen \/ ExpireTask \/ Tick \/ UNCHANGED deliveryVars
  BY <1>0, <1>11 DEF Reopen, ExpireTask, Tick, deliveryVars, ticketVars
<1> QED
  BY <1>2, <1>3, <1>4, <1>8, <1>9, <1>10, <1>11 DEF TicketNext

(* The tickets of the code are the abstract one-use tickets: one winner,    *)
(* one verdict, a redirect only beside a verdict that passed, and no        *)
(* expiry reported of a ticket that was won (ADR-0005, ADR-0009).           *)
THEOREM TicketsAreOneUse == TicketSpec => ImplementsOneUse
<1>1. DeliveryInv /\ DeliveryInv' /\ [TicketNext]_deliveryVars => [OneUse!Next]_OneUse!vars
  BY StepRefines
<1> QED
  BY <1>1, InitRefines, DeliveryInvariant, PTL DEF TicketSpec, ImplementsOneUse, OneUse!Spec
=============================================================================
