--------------------------- MODULE AdmissionPromise ---------------------------
(***************************************************************************)
(* What ADR-0007 (sections 4 and 5) promises the clients of                *)
(* POST /v1/resolve-tasks, without saying how: a key is bound to at most   *)
(* one task at a time, a source is occupied by at most one task at a time, *)
(* a request that creates a task is answered with that task, and a request *)
(* that does not is answered, if at all, with the task bound to its key    *)
(* for the same source.  TaskLifecycle implements it.                      *)
(***************************************************************************)
CONSTANTS Requests, Sources, Keys, SourceOf, KeyOf, None

VARIABLES
  created,   \* requests that created their task
  bound,     \* the unexpired task each key stands for
  occupant,  \* the task that keeps each source from being submitted again
  answer     \* the task each request was answered 202 with

pvars == <<created, bound, occupant, answer>>

Init ==
  /\ created = {}
  /\ bound = [k \in Keys |-> None]
  /\ occupant = [s \in Sources |-> None]
  /\ answer = [r \in Requests |-> None]

(* Neither the key nor the source is taken. *)
Create(r) ==
  /\ r \notin created /\ answer[r] = None
  /\ KeyOf[r] # None => bound[KeyOf[r]] = None
  /\ occupant[SourceOf[r]] = None
  /\ created' = created \cup {r}
  /\ bound' = [k \in Keys |-> IF k = KeyOf[r] THEN r ELSE bound[k]]
  /\ occupant' = [occupant EXCEPT ![SourceOf[r]] = r]
  /\ UNCHANGED answer

AnswerOwn(r) ==
  /\ r \in created /\ answer[r] = None
  /\ answer' = [answer EXCEPT ![r] = r]
  /\ UNCHANGED <<created, bound, occupant>>

Replay(r) ==
  /\ r \notin created /\ answer[r] = None
  /\ KeyOf[r] # None /\ bound[KeyOf[r]] # None
  /\ SourceOf[bound[KeyOf[r]]] = SourceOf[r]
  /\ answer' = [answer EXCEPT ![r] = bound[KeyOf[r]]]
  /\ UNCHANGED <<created, bound, occupant>>

Vacated(t) == [s \in Sources |-> IF occupant[s] = t THEN None ELSE occupant[s]]

(* The task becomes terminal, or its admission window closes. *)
Release(t) ==
  /\ occupant' = Vacated(t)
  /\ UNCHANGED <<created, bound, answer>>

(* The task expires: its key may be bound again. *)
Expire(t) ==
  /\ t \in created
  /\ bound' = [k \in Keys |-> IF bound[k] = t THEN None ELSE bound[k]]
  /\ occupant' = Vacated(t)
  /\ UNCHANGED <<created, answer>>

Next ==
  \E r \in Requests :
    Create(r) \/ AnswerOwn(r) \/ Replay(r) \/ Release(r) \/ Expire(r)

Spec == Init /\ [][Next]_pvars
=============================================================================
