---------------------------- MODULE DeliveryTickets ----------------------------
(***************************************************************************)
(* Delivery of the media of one task: issueDeliveryTicket,                 *)
(* redeemDeliveryTicket and recordDeliveryRedemptionOutcome, one           *)
(* transaction each, the GET /d/:token handler of apps/delivery that calls *)
(* the last two with validation in between, the worker that may complete   *)
(* the task again, and the cleanup stages.                                 *)
(*                                                                         *)
(* The task offers one format; candidate g is the one stored by the g-th   *)
(* completion.  A ticket is named by the POST that asks for it.  Deleting  *)
(* a candidate deletes its tickets (ON DELETE CASCADE).                    *)
(*                                                                         *)
(* NOW() is a small clock; every expires_at is a point of it.              *)
(*                                                                         *)
(* Abstracted: encryption, tokens, host and DNS policies (a choice of the  *)
(* verdict), bytes.                                                        *)
(***************************************************************************)
EXTENDS Naturals, Sequences, FiniteSetsExt

CONSTANTS
  Tickets,          \* POST /v1/deliveries requests that find a candidate
  Visits,           \* GET /d/:token requests
  Nobody,
  TaskExpiry,       \* resolve_tasks.expires_at
  MaximumTtl,       \* maximumTtlMs of a ticket
  HardRetention,    \* taskHardRetentionMs
  MaxNow,           \* bound on the clock
  MaxCompletions,   \* bound on completions of the task
  MaxLosses         \* bound on crashes and failed calls

ASSUME DeliveryAssumption ==
  /\ Nobody \notin Visits /\ Nobody \notin Tickets
  /\ TaskExpiry \in Nat \ {0} /\ MaximumTtl \in Nat \ {0} /\ HardRetention \in Nat
  /\ MaxNow \in Nat /\ MaxCompletions \in Nat /\ MaxLosses \in Nat

VARIABLES
  taskStatus,       \* resolve_tasks.status
  completions,      \* completions so far
  stored,           \* the candidate in delivery_candidates, 0 for none
  row,              \* delivery_tickets: "absent", "open", "redeemed", "removed"
  candidateExpiry,  \* expires_at of the stored candidate
  candidateOf,      \* candidate_id of a ticket
  ticketExpiry,     \* expires_at of a ticket
  validated,        \* tickets with redirect_validation_outcome_emitted
  handedOff,        \* tickets with browser_handoff_outcome_emitted
  outcomes,         \* provider_delivery_outcomes, by the ticket they come from
  now,              \* NOW()
  visit,            \* what each GET handler is doing, for which ticket
  losses

taskVars   == <<taskStatus, completions>>
candidate  == <<stored, candidateExpiry>>
ticketVars == <<row, candidateOf, ticketExpiry, validated, handedOff, outcomes>>
deliveryVars == <<taskVars, candidate, ticketVars, now, visit, losses>>

Verdicts == {"passed", "rejected", "internal_error"}
Steps == {"new", "redeemed", "rejecting", "handing", "streaming", "streamed", "broken",
          "redirected", "delivered", "refused", "failed"}

TicketTypeOK ==
  /\ taskStatus \in {"resolving", "succeeded", "failed", "expired", "deleted"}
  /\ completions \in 0 .. MaxCompletions
  /\ stored \in {0, completions}
  /\ row \in [Tickets -> {"absent", "open", "redeemed", "removed"}]
  /\ candidateExpiry \in 0 .. TaskExpiry
  /\ candidateOf \in [Tickets -> 0 .. completions]
  /\ ticketExpiry \in [Tickets -> Nat]
  /\ validated \subseteq Tickets
  /\ handedOff \subseteq validated
  /\ outcomes \in [Tickets -> Seq(Verdicts \cup {"succeeded", "redirect_issued",
                                                "expired_unredeemed"})]
  /\ now \in 0 .. MaxNow
  /\ visit \in [Visits -> [at : Steps, ticket : Tickets \cup {Nobody}]]
  /\ losses \in 0 .. MaxLosses

TicketInit ==
  /\ taskStatus = "resolving" /\ completions = 0
  /\ stored = 0 /\ candidateExpiry = 0
  /\ row = [t \in Tickets |-> "absent"]
  /\ candidateOf = [t \in Tickets |-> 0]
  /\ ticketExpiry = [t \in Tickets |-> 0]
  /\ validated = {} /\ handedOff = {}
  /\ outcomes = [t \in Tickets |-> << >>]
  /\ now = 0
  /\ visit = [v \in Visits |-> [at |-> "new", ticket |-> Nobody]]
  /\ losses = 0

Loss == losses < MaxLosses /\ losses' = losses + 1

Emit(t, events) == outcomes' = [outcomes EXCEPT ![t] = @ \o events]

(* The cascade of a deleted candidate. *)
RemoveTicketsOf(g) ==
  row' = [t \in Tickets |-> IF row[t] \in {"open", "redeemed"} /\ candidateOf[t] = g
                            THEN "removed" ELSE row[t]]

-----------------------------------------------------------------------------
(* The worker.                                                             *)

(* The new result may not offer the format any more; a candidate that is   *)
(* already out of date is refused with the whole transaction.              *)
StoreCandidate ==
  /\ now < TaskExpiry
  /\ completions < MaxCompletions
  /\ taskStatus' = "succeeded"
  /\ completions' = completions + 1
  /\ \/ stored' = completions + 1
        /\ \E requested \in now + 1 .. TaskExpiry + 1 :
             candidateExpiry' = Min({requested, TaskExpiry})
     \/ stored' = 0 /\ candidateExpiry' = 0
  /\ UNCHANGED <<candidateOf, ticketExpiry, validated, handedOff, outcomes, now, visit, losses>>

(* Deviation: the candidates of an earlier completion are kept.            *)
CompleteKeepingTickets == StoreCandidate /\ UNCHANGED row

(* completeWithResolution replaces the candidates of the task.             *)
Complete == StoreCandidate /\ RemoveTicketsOf(stored)

(* A redelivered job: markResolving, then perhaps fail.  Neither touches   *)
(* the candidates.                                                         *)
Reopen ==
  /\ now < TaskExpiry
  /\ \E s \in {"resolving", "failed"} \ {taskStatus} : taskStatus' = s
  /\ UNCHANGED <<completions, candidate, ticketVars, now, visit, losses>>

-----------------------------------------------------------------------------
(* TaskRepository.                                                         *)

CandidateUsable ==
  /\ taskStatus = "succeeded" /\ now < TaskExpiry
  /\ stored # 0 /\ now < candidateExpiry

(* The ticket row and its creation outcome.                                *)
InsertTicket(t, expiry) ==
  /\ row[t] = "absent"
  /\ CandidateUsable
  /\ row' = [row EXCEPT ![t] = "open"]
  /\ candidateOf' = [candidateOf EXCEPT ![t] = stored]
  /\ ticketExpiry' = [ticketExpiry EXCEPT ![t] = expiry]
  /\ Emit(t, <<"succeeded">>)
  /\ UNCHANGED <<taskVars, candidate, validated, handedOff, now, visit, losses>>

(* Deviation: the ticket may outlive its candidate.                        *)
IssueTicketFullTtl(t) == InsertTicket(t, now + MaximumTtl)

IssueTicket(t) == InsertTicket(t, Min({now + MaximumTtl, candidateExpiry, TaskExpiry}))

Redeemable(t) ==
  /\ row[t] = "open" /\ now < ticketExpiry[t]
  /\ CandidateUsable

MarkRedeemed(t) ==
  /\ row' = [row EXCEPT ![t] = "redeemed"]
  /\ UNCHANGED <<candidateOf, ticketExpiry, validated, handedOff, outcomes>>

RecordedAs(t, result, handoff) ==
  Emit(t, (IF t \in validated THEN << >> ELSE <<result>>)
          \o (IF handoff /\ t \notin handedOff THEN <<"redirect_issued">> ELSE << >>))

(* recordDeliveryRedemptionOutcome, for a redeemed ticket still there.     *)
RecordOutcome(t, result, handoff) ==
  /\ row[t] # "removed"
  /\ validated' = validated \cup {t}
  /\ handedOff' = IF handoff THEN handedOff \cup {t} ELSE handedOff
  /\ RecordedAs(t, result, handoff)
  /\ UNCHANGED <<row, candidateOf, ticketExpiry>>

-----------------------------------------------------------------------------
(* GET /d/:token.                                                          *)

At(v, step) == visit[v].at = step
Proceed(v, step) == visit' = [visit EXCEPT ![v].at = step]

(* Deviation: the ticket is not required to be unused.                     *)
RedeemUsed(v, t) ==
  /\ At(v, "new")
  /\ row[t] \in {"open", "redeemed"} /\ now < ticketExpiry[t] /\ CandidateUsable
  /\ MarkRedeemed(t)
  /\ visit' = [visit EXCEPT ![v] = [at |-> "redeemed", ticket |-> t]]
  /\ UNCHANGED <<taskVars, candidate, now, losses>>

Redeem(v, t) ==
  /\ At(v, "new")
  /\ Redeemable(t)
  /\ MarkRedeemed(t)
  /\ visit' = [visit EXCEPT ![v] = [at |-> "redeemed", ticket |-> t]]
  /\ UNCHANGED <<taskVars, candidate, now, losses>>

(* 410 DELIVERY_EXPIRED, for an unknown or used token as well. *)
RedeemRefused(v, t) ==
  /\ At(v, "new")
  /\ row[t] # "absent" /\ ~Redeemable(t)
  /\ Proceed(v, "refused")
  /\ UNCHANGED <<taskVars, candidate, ticketVars, now, losses>>

(* Committed, then the connection or the process is lost. *)
RedeemLost(v, t) ==
  /\ At(v, "new")
  /\ Loss
  /\ Redeemable(t)
  /\ MarkRedeemed(t)
  /\ visit' = [visit EXCEPT ![v] = [at |-> "failed", ticket |-> t]]
  /\ UNCHANGED <<taskVars, candidate, now>>

(* Policy, decryption and DNS decide; the artifact and the relay are sent  *)
(* by the server, redirects and processing plans are handed off.  Two      *)
(* policy mismatches are answered 502 without an outcome.                  *)
Validate(v) ==
  /\ At(v, "redeemed")
  /\ \E step \in {"handing", "streaming", "rejecting", "broken", "refused"} : Proceed(v, step)
  /\ UNCHANGED <<taskVars, candidate, ticketVars, now, losses>>

(* Complete, broken, or closed by the client without another word. *)
StreamEnds(v) ==
  /\ At(v, "streaming")
  /\ \E step \in {"streamed", "broken", "failed"} : Proceed(v, step)
  /\ UNCHANGED <<taskVars, candidate, ticketVars, now, losses>>

(* Deviation: the redirect is sent before its outcome is recorded.         *)
HandOffUnrecorded(v) ==
  /\ At(v, "handing")
  /\ Proceed(v, "redirected")
  /\ UNCHANGED <<taskVars, candidate, ticketVars, now, losses>>

HandOff(v) ==
  /\ At(v, "handing")
  /\ RecordOutcome(visit[v].ticket, "passed", TRUE)
  /\ Proceed(v, "redirected")
  /\ UNCHANGED <<taskVars, candidate, now, losses>>

FinishStream(v) ==
  /\ At(v, "streamed")
  /\ RecordOutcome(visit[v].ticket, "passed", FALSE)
  /\ Proceed(v, "delivered")
  /\ UNCHANGED <<taskVars, candidate, now, losses>>

Reject(v) ==
  /\ visit[v].at \in {"rejecting", "broken"}
  /\ RecordOutcome(visit[v].ticket, IF At(v, "broken") THEN "internal_error" ELSE "rejected", FALSE)
  /\ Proceed(v, "refused")
  /\ UNCHANGED <<taskVars, candidate, now, losses>>

(* Recording throws: the row is gone, the call fails, or its commit is not *)
(* acknowledged.  After a complete stream the catch block records again,   *)
(* this time an internal error.                                            *)
RecordThrows(v) ==
  LET t == visit[v].ticket IN
  /\ visit[v].at \in {"handing", "streamed", "rejecting", "broken"}
  /\ \/ row[t] = "removed" /\ UNCHANGED <<ticketVars, losses>>
     \/ Loss /\ UNCHANGED ticketVars
     \/ Loss /\ RecordOutcome(t, CASE At(v, "rejecting") -> "rejected"
                                    [] At(v, "broken") -> "internal_error"
                                    [] OTHER -> "passed", At(v, "handing"))
  /\ Proceed(v, IF At(v, "streamed") THEN "broken" ELSE "failed")
  /\ UNCHANGED <<taskVars, candidate, now>>

-----------------------------------------------------------------------------
(* The cleanup service: what is expired is removed, late and in any order. *)

Tick ==
  /\ now < MaxNow /\ now' = now + 1
  /\ UNCHANGED <<taskVars, candidate, ticketVars, visit, losses>>

CleanTicket(t) ==
  /\ row[t] \in {"open", "redeemed"} /\ ticketExpiry[t] <= now
  /\ row' = [row EXCEPT ![t] = "removed"]
  /\ IF row[t] = "open" THEN Emit(t, <<"expired_unredeemed">>) ELSE UNCHANGED outcomes
  /\ UNCHANGED <<taskVars, candidate, candidateOf, ticketExpiry, validated, handedOff, now,
                 visit, losses>>

RemoveCandidate ==
  /\ RemoveTicketsOf(stored)
  /\ stored' = 0 /\ candidateExpiry' = 0
  /\ UNCHANGED <<completions, candidateOf, ticketExpiry, validated, handedOff, outcomes, now,
                 visit, losses>>

CleanCandidate ==
  /\ stored # 0 /\ candidateExpiry <= now
  /\ RemoveCandidate
  /\ UNCHANGED taskStatus

ExpireTask ==
  /\ TaskExpiry <= now /\ taskStatus \notin {"expired", "deleted"}
  /\ taskStatus' = "expired"
  /\ UNCHANGED <<completions, candidate, ticketVars, now, visit, losses>>

HardDeleteTask ==
  /\ TaskExpiry + HardRetention <= now /\ taskStatus # "deleted"
  /\ taskStatus' = "deleted"
  /\ RemoveCandidate

-----------------------------------------------------------------------------
TicketNext ==
  \/ Complete \/ Reopen
  \/ \E t \in Tickets : IssueTicket(t) \/ CleanTicket(t)
  \/ \E v \in Visits, t \in Tickets : Redeem(v, t) \/ RedeemRefused(v, t) \/ RedeemLost(v, t)
  \/ \E v \in Visits : \/ Validate(v) \/ StreamEnds(v)
                       \/ HandOff(v) \/ FinishStream(v) \/ Reject(v) \/ RecordThrows(v)
  \/ CleanCandidate \/ ExpireTask \/ HardDeleteTask
  \/ Tick

TicketSpec == TicketInit /\ [][TicketNext]_deliveryVars

-----------------------------------------------------------------------------
Winner == [t \in Tickets |->
  IF \E v \in Visits : visit[v].ticket = t THEN CHOOSE v \in Visits : visit[v].ticket = t ELSE Nobody]

Phase == [t \in Tickets |->
  CASE row[t] = "absent" -> "none" [] row[t] = "open" -> "open"
    [] row[t] = "redeemed" -> "won" [] OTHER -> "closed"]

OneUse == INSTANCE OneUseTicket WITH phase <- Phase, winner <- Winner, reports <- outcomes

(* ADR-0005: redeemable once, concurrent reuse has one winner; ADR-0009:   *)
(* creation, redemption and expiry emit at most one event, and an expired  *)
(* ticket was never redeemed.  The tickets of the code are the abstract    *)
(* one-use tickets, through crashes, cleanup and repeated completions.     *)
ImplementsOneUse == OneUse!Spec

(* ADR-0005: a ticket is bound to one candidate, and a result may not be   *)
(* left pointing at stale candidates.  A visit only ever receives the      *)
(* candidate of the latest completion, while it and its task are unexpired.*)
RedeemsCurrentCandidate ==
  [][\A v \in Visits :
       visit[v].ticket = Nobody /\ visit'[v].ticket # Nobody
         => /\ candidateOf[visit'[v].ticket] = completions
            /\ now < candidateExpiry /\ now < TaskExpiry]_deliveryVars

(* "Logical expiry remains the authorization boundary": a ticket expires   *)
(* with its candidate at the latest, and the candidate with its task, so   *)
(* the check of the ticket alone would do, however late cleanup comes.     *)
ExpiryIsNested ==
  \A t \in Tickets : row[t] \in {"open", "redeemed"}
    => /\ candidateOf[t] = stored
       /\ ticketExpiry[t] <= candidateExpiry /\ candidateExpiry <= TaskExpiry

(* The redirect leaves only after its outcome is committed: a browser that *)
(* was handed off is in the evidence, even if the ticket is gone by now.   *)
HandoffIsRecorded ==
  \A v \in Visits : At(v, "redirected")
    => \E i \in DOMAIN outcomes[visit[v].ticket] :
         outcomes[visit[v].ticket][i] = "redirect_issued"
=============================================================================
