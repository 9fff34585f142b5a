----------------------------- MODULE OneUseTicket -----------------------------
(***************************************************************************)
(* What ADR-0005 and ADR-0009 promise of a delivery ticket: it is bound to *)
(* one winner, it closes for good, and the anonymous outcomes reported of  *)
(* it tell the truth and are reported at most once.                        *)
(***************************************************************************)
EXTENDS Sequences

CONSTANTS Tickets, Visits, Nobody

VARIABLES
  phase,    \* "none", "open", "won", "closed"
  winner,   \* the visit that won the ticket
  reports   \* the outcomes reported, in order

vars == <<phase, winner, reports>>

Results == {"passed", "rejected", "internal_error"}

Reported(t, outcomes) == \E i \in DOMAIN reports[t] : reports[t][i] \in outcomes
Report(t, outcomes) == reports' = [reports EXCEPT ![t] = @ \o outcomes]
Move(t, to) == phase' = [phase EXCEPT ![t] = to]

Init ==
  /\ phase = [t \in Tickets |-> "none"]
  /\ winner = [t \in Tickets |-> Nobody]
  /\ reports = [t \in Tickets |-> << >>]

Offer(t) ==
  /\ phase[t] = "none" /\ Move(t, "open")
  /\ Report(t, <<"succeeded">>)
  /\ UNCHANGED winner

Win(t, v) ==
  /\ phase[t] = "open" /\ Move(t, "won")
  /\ \A u \in Tickets : winner[u] # v
  /\ winner' = [winner EXCEPT ![t] = v]
  /\ UNCHANGED reports

(* One verdict of the winner's validation; a handoff only with "passed". *)
Judge(t) ==
  /\ phase[t] = "won" /\ ~Reported(t, Results)
  /\ \/ \E result \in Results : Report(t, <<result>>)
     \/ Report(t, <<"passed", "redirect_issued">>)
  /\ UNCHANGED <<phase, winner>>

ExpireUnredeemed(t) ==
  /\ phase[t] = "open" /\ Move(t, "closed")
  /\ Report(t, <<"expired_unredeemed">>)
  /\ UNCHANGED winner

(* Removed with its candidate or its task, or after it was won.  One event *)
(* may close several tickets.                                              *)
Close(T) ==
  /\ \A t \in T : phase[t] \in {"open", "won"}
  /\ phase' = [t \in Tickets |-> IF t \in T THEN "closed" ELSE phase[t]]
  /\ UNCHANGED <<winner, reports>>

Next ==
  \/ \E t \in Tickets : Offer(t) \/ Judge(t) \/ ExpireUnredeemed(t)
  \/ \E t \in Tickets, v \in Visits : Win(t, v)
  \/ \E T \in SUBSET Tickets : Close(T)

Spec == Init /\ [][Next]_vars
=============================================================================
