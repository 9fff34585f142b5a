-------------------------------- MODULE MCEdge --------------------------------
(***************************************************************************)
(* The two ends of a visit: the anonymous quotas that a request passes,    *)
(* and the tickets of a finished task's media.  They share no state, so a  *)
(* behaviour here is a behaviour of one of them.                           *)
(*                                                                         *)
(* Three requests: r1 and r2 share a key but not an address, r1 and r3 an  *)
(* address but not a key.  Two tickets of one task, and two visits.        *)
(***************************************************************************)
EXTENDS AdmissionPermits, DeliveryTickets, TLC

CONSTANTS r1, r2, r3, c1, c2, p1, p3, t1, t2, v1, v2

MCClientOf == r1 :> c1 @@ r2 :> c2 @@ r3 :> c1
MCPermitOf == r1 :> p1 @@ r2 :> p1 @@ r3 :> p3

(* Sound: every property is a safety property, none names a ticket or a    *)
(* visit, and Winner chooses the only visit that satisfies it.             *)
MCSymmetry == Permutations({t1, t2}) \cup Permutations({v1, v2})

VARIABLE part

EdgeInit == part \in {"permits", "tickets"} /\ Init /\ TicketInit

EdgeNext ==
  \/ part = "permits" /\ Next /\ UNCHANGED <<part, deliveryVars>>
  \/ part = "tickets" /\ TicketNext /\ UNCHANGED <<part, vars>>

EdgeSpec == EdgeInit /\ [][EdgeNext]_<<part, vars, deliveryVars>>
=============================================================================
