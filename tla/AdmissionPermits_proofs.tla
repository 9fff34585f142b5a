------------------------ MODULE AdmissionPermits_proofs ------------------------
(***************************************************************************)
(* Theorems about AdmissionPermits, for any requests, clients, permits and *)
(* limits.  The scripts change the permits in five ways (PermitEffect);    *)
(* the inductive invariant is kept by each of them once, and by the steps  *)
(* of the handlers around them.                                            *)
(***************************************************************************)
EXTENDS AdmissionPermits, FiniteSetTheorems, TLAPS

LEMMA ChargeType ==
  ASSUME TypeOK, NEW c \in Clients, Charge(c)
  PROVE  /\ clientRate' \in [Clients -> 0 .. ClientRequestLimit]
         /\ globalRate' \in 0 .. GlobalRequestLimit
BY PermitsAssumption DEF TypeOK, Charge, RateLeft

PermitTypes ==
  /\ clientActive \in [Clients -> SUBSET Permits]
  /\ globalActive \in SUBSET Permits
  /\ identity \in [Permits -> Clients \cup {None}]
  /\ references \in [Permits -> SUBSET Requests]
  /\ overdue \in SUBSET Permits

RateTypes ==
  /\ clientRate \in [Clients -> 0 .. ClientRequestLimit]
  /\ globalRate \in 0 .. GlobalRequestLimit

(* What a step does to the permits. *)
PermitEffect ==
  \/ UNCHANGED permitVars
  \/ \E r \in Requests : \/ JoinPermit(r) \/ GrantPermit(r)
                         \/ r \in references[PermitOf[r]] /\ releaseTask(r)
  \/ \E p \in Permits : PassScore(p) \/ ExpireKeys(p)

LEMMA StepEffect ==
  ASSUME [Next]_vars
  PROVE  PermitEffect
<1>1. CASE UNCHANGED vars
  BY <1>1 DEF vars, PermitEffect
<1>2. CASE Next
  <2>1. ASSUME NEW r \in Requests, RequestStep(r) PROVE PermitEffect
    BY <2>1 DEF RequestStep, PermitEffect, QuotaAccepted, QuotaRateLimited, RefusePermit,
                QuotaConcurrencyLimited, QuotaFailed, QuotaResent, Win, Lose, ReleaseByApi,
                WorkDecided, ReleaseByWorker, ReleaseAgain, Abandon, releaseTask
  <2>2. ASSUME NEW p \in Permits, PassScore(p) \/ ExpireKeys(p) PROVE PermitEffect
    BY <2>2 DEF PermitEffect
  <2>3. ASSUME NEW c \in Clients, EndClientWindow(c) PROVE PermitEffect
    BY <2>3 DEF PermitEffect, EndClientWindow
  <2>4. ASSUME EndGlobalWindow PROVE PermitEffect
    BY <2>4 DEF PermitEffect, EndGlobalWindow
  <2> QED
    BY <1>2, <2>1, <2>2, <2>3, <2>4 DEF Next
<1> QED
  BY <1>1, <1>2

LEMMA PermitTypesStep ==
  ASSUME TypeOK, PermitEffect
  PROVE  PermitTypes'
<1> USE PermitsAssumption DEF TypeOK, PermitTypes
<1>1. CASE UNCHANGED permitVars
  BY <1>1 DEF permitVars
<1>2. ASSUME NEW r \in Requests, JoinPermit(r) PROVE PermitTypes'
  BY <1>2 DEF JoinPermit
<1>3. ASSUME NEW r \in Requests, GrantPermit(r) PROVE PermitTypes'
  BY <1>3 DEF GrantPermit
<1>4. ASSUME NEW r \in Requests, r \in references[PermitOf[r]], releaseTask(r) PROVE PermitTypes'
  <2>1. CASE references[PermitOf[r]] = {r}
    BY <1>4, <2>1 DEF releaseTask, DropPermit
  <2>2. CASE references[PermitOf[r]] # {r}
    BY <1>4, <2>2 DEF releaseTask
  <2> QED
    BY <2>1, <2>2
<1>5. ASSUME NEW p \in Permits, PassScore(p) PROVE PermitTypes'
  BY <1>5 DEF PassScore
<1>6. ASSUME NEW p \in Permits, ExpireKeys(p) PROVE PermitTypes'
  BY <1>6 DEF ExpireKeys
<1> QED
  BY <1>1, <1>2, <1>3, <1>4, <1>5, <1>6 DEF PermitEffect

LEMMA RateTypesStep ==
  ASSUME TypeOK, [Next]_vars
  PROVE  RateTypes'
<1> USE PermitsAssumption DEF TypeOK, RateTypes, rateVars
<1>1. CASE UNCHANGED vars
  BY <1>1 DEF vars
<1>2. CASE Next
  <2>1. ASSUME NEW r \in Requests, RequestStep(r) PROVE RateTypes'
    <3>1. Charge(ClientOf[r]) \/ UNCHANGED rateVars
      BY <2>1 DEF RequestStep, JoinPermit, GrantPermit, RefusePermit, QuotaAccepted,
                  QuotaRateLimited, QuotaConcurrencyLimited, QuotaFailed, QuotaResent, Win, Lose,
                  ReleaseByApi, WorkDecided, ReleaseByWorker, ReleaseAgain, Abandon
    <3> QED
      BY <3>1, ChargeType
  <2>2. ASSUME NEW p \in Permits, PassScore(p) \/ ExpireKeys(p) PROVE RateTypes'
    BY <2>2 DEF PassScore, ExpireKeys
  <2>3. ASSUME NEW c \in Clients, EndClientWindow(c) PROVE RateTypes'
    BY <2>3 DEF EndClientWindow
  <2>4. ASSUME EndGlobalWindow PROVE RateTypes'
    BY <2>4 DEF EndGlobalWindow
  <2> QED
    BY <1>2, <2>1, <2>2, <2>3, <2>4 DEF Next
<1> QED
  BY <1>1, <1>2

LEMMA HistoryTypesStep ==
  ASSUME TypeOK, [Next]_vars
  PROVE  /\ at' \in [Requests -> Stages]
         /\ cut' \in SUBSET Requests /\ leaked' \in SUBSET Requests
         /\ faults' \in 0 .. MaxFaults
<1> DEFINE Goal == /\ at' \in [Requests -> Stages]
                   /\ cut' \in SUBSET Requests /\ leaked' \in SUBSET Requests
                   /\ faults' \in 0 .. MaxFaults
<1> USE PermitsAssumption DEF TypeOK, GoTo, Stages, InFlight
<1>1. CASE UNCHANGED vars
  BY <1>1 DEF vars
<1>2. CASE Next
  <2>1. ASSUME NEW r \in Requests, RequestStep(r) PROVE Goal
    <3>1. CASE QuotaAccepted(r) \/ Win(r) \/ Lose(r) \/ ReleaseByApi(r) \/ WorkDecided(r)
               \/ ReleaseByWorker(r) \/ QuotaConcurrencyLimited(r)
      BY <3>1 DEF QuotaAccepted, Win, Lose, ReleaseByApi, WorkDecided, ReleaseByWorker,
                  QuotaConcurrencyLimited
    <3>2. CASE QuotaRateLimited(r)
      BY <3>2 DEF QuotaRateLimited, Leak
    <3>3. CASE QuotaFailed(r) \/ QuotaResent(r)
      BY <3>3 DEF QuotaFailed, QuotaResent, Fault
    <3>4. CASE ReleaseAgain(r)
      BY <3>4 DEF ReleaseAgain
    <3>5. CASE Abandon(r)
      BY <3>5 DEF Abandon, Leak, Fault
    <3> QED
      BY <2>1, <3>1, <3>2, <3>3, <3>4, <3>5 DEF RequestStep
  <2>2. ASSUME NEW p \in Permits, PassScore(p) \/ ExpireKeys(p) PROVE Goal
    BY <2>2 DEF PassScore, ExpireKeys
  <2>3. ASSUME NEW c \in Clients, EndClientWindow(c) PROVE Goal
    BY <2>3 DEF EndClientWindow
  <2>4. ASSUME EndGlobalWindow PROVE Goal
    BY <2>4 DEF EndGlobalWindow
  <2> QED
    BY <1>2, <2>1, <2>2, <2>3, <2>4 DEF Next
<1> QED
  BY <1>1, <1>2

(* The permits, the windows and the requests are always of their types; in *)
(* particular no window counts more requests than its limit.               *)
THEOREM PermitTypeCorrect == Spec => []TypeOK
<1>1. Init => TypeOK
  BY PermitsAssumption DEF Init, TypeOK, Stages, InFlight
<1>2. TypeOK /\ [Next]_vars => TypeOK'
  BY StepEffect, PermitTypesStep, RateTypesStep, HistoryTypesStep
     DEF TypeOK, PermitTypes, RateTypes
<1> QED
  BY <1>1, <1>2, PTL DEF Spec

-----------------------------------------------------------------------------
(* Who is counted.                                                         *)

LEMMA CountedStep ==
  ASSUME TypeOK, CountedExactly, PermitEffect
  PROVE  CountedExactly'
<1> USE PermitsAssumption DEF TypeOK, CountedExactly
<1>1. CASE UNCHANGED permitVars
  BY <1>1 DEF permitVars
<1>2. ASSUME NEW r \in Requests, JoinPermit(r) PROVE CountedExactly'
  BY <1>2 DEF JoinPermit
<1>3. ASSUME NEW r \in Requests, GrantPermit(r) PROVE CountedExactly'
  <2> DEFINE p == PermitOf[r]
             c == ClientOf[r]
  <2>0. p \in Permits /\ c \in Clients /\ p \notin overdue
    BY <1>3 DEF GrantPermit
  <2>1. /\ identity' = [identity EXCEPT ![p] = c] /\ overdue' = overdue
        /\ references' = [references EXCEPT ![p] = @ \cup {r}]
        /\ globalActive' = globalActive \cup {p}
        /\ clientActive' = [clientActive EXCEPT ![c] = @ \cup {p}]
        /\ identity[p] = None
    BY <1>3 DEF GrantPermit
  <2>2. ASSUME NEW q \in Permits
        PROVE  /\ identity'[q] = None <=> references'[q] = {}
               /\ identity'[q] = None => q \notin overdue'
               /\ q \in globalActive' <=> identity'[q] # None /\ q \notin overdue'
    <3>1. CASE q = p
      <4>1. r \in references'[p]
        BY <2>0, <2>1
      <4> QED
        BY <2>0, <2>1, <3>1, <4>1
    <3>2. CASE q # p
      BY <2>0, <2>1, <3>2
    <3> QED
      BY <3>1, <3>2
  <2>3. ASSUME NEW q \in Permits, NEW d \in Clients
        PROVE  q \in clientActive'[d] <=> identity'[q] = d /\ q \notin overdue'
    <3>1. CASE q = p
      BY <2>0, <2>1, <3>1
    <3>2. CASE q # p
      BY <2>0, <2>1, <3>2
    <3> QED
      BY <3>1, <3>2
  <2> QED
    BY <2>2, <2>3
<1>4. ASSUME NEW r \in Requests, r \in references[PermitOf[r]], releaseTask(r) PROVE CountedExactly'
  <2> DEFINE p == PermitOf[r]
  <2>0. p \in Permits /\ identity[p] \in Clients
    BY <1>4
  <2>1. CASE references[p] = {r}
    BY <1>4, <2>0, <2>1 DEF releaseTask, DropPermit
  <2>2. CASE references[p] # {r}
    BY <1>4, <2>0, <2>2 DEF releaseTask
  <2> QED
    BY <2>1, <2>2
<1>5. ASSUME NEW p \in Permits, PassScore(p) PROVE CountedExactly'
  BY <1>5 DEF PassScore
<1>6. ASSUME NEW p \in Permits, ExpireKeys(p) PROVE CountedExactly'
  BY <1>6 DEF ExpireKeys
<1> QED
  BY <1>1, <1>2, <1>3, <1>4, <1>5, <1>6 DEF PermitEffect

(* The active sets never exceed the limits of the policy. *)
ActiveWithinLimits ==
  /\ IsFiniteSet(globalActive) /\ Cardinality(globalActive) <= GlobalActiveTaskLimit
  /\ \A c \in Clients : /\ IsFiniteSet(clientActive[c])
                       /\ Cardinality(clientActive[c]) <= ClientActiveTaskLimit

LEMMA GrowBelow ==
  ASSUME NEW S, NEW x, NEW n \in Nat, IsFiniteSet(S), Cardinality(S) < n
  PROVE  IsFiniteSet(S \cup {x}) /\ Cardinality(S \cup {x}) <= n
<1>1. Cardinality(S) \in Nat
  BY FS_CardinalityType
<1> QED
  BY <1>1, FS_AddElement

LEMMA ShrinkBelow ==
  ASSUME NEW S, NEW x, NEW n \in Nat, IsFiniteSet(S), Cardinality(S) <= n
  PROVE  IsFiniteSet(S \ {x}) /\ Cardinality(S \ {x}) <= n
<1>1. Cardinality(S) \in Nat
  BY FS_CardinalityType
<1> QED
  BY <1>1, FS_RemoveElement

LEMMA ActiveStep ==
  ASSUME TypeOK, CountedExactly, ActiveWithinLimits, PermitEffect
  PROVE  ActiveWithinLimits'
<1> USE PermitsAssumption DEF TypeOK, ActiveWithinLimits
<1>1. CASE UNCHANGED <<clientActive, globalActive>>
  BY <1>1
<1>2. ASSUME NEW r \in Requests, GrantPermit(r) PROVE ActiveWithinLimits'
  <2>1. globalActive' = globalActive \cup {PermitOf[r]}
    BY <1>2 DEF GrantPermit
  <2>2. ASSUME NEW c \in Clients
        PROVE  \/ clientActive'[c] = clientActive[c]
               \/ /\ clientActive'[c] = clientActive[c] \cup {PermitOf[r]}
                  /\ Cardinality(clientActive[c]) < ClientActiveTaskLimit
    BY <1>2 DEF GrantPermit, ActiveLeft
  <2>3. Cardinality(globalActive) < GlobalActiveTaskLimit
    BY <1>2 DEF GrantPermit, ActiveLeft
  <2>4. IsFiniteSet(globalActive') /\ Cardinality(globalActive') <= GlobalActiveTaskLimit
    BY <2>1, <2>3, GrowBelow
  <2>5. ASSUME NEW c \in Clients
        PROVE  /\ IsFiniteSet(clientActive'[c])
               /\ Cardinality(clientActive'[c]) <= ClientActiveTaskLimit
    <3>1. CASE clientActive'[c] = clientActive[c]
      BY <3>1
    <3>2. CASE Cardinality(clientActive[c]) < ClientActiveTaskLimit
      <4>1. /\ IsFiniteSet(clientActive[c] \cup {PermitOf[r]})
            /\ Cardinality(clientActive[c] \cup {PermitOf[r]}) <= ClientActiveTaskLimit
        BY <3>2, GrowBelow
      <4> QED
        BY <2>2, <3>1, <4>1, Zenon
    <3> QED
      BY <2>2, <3>1, <3>2
  <2> QED
    BY <2>4, <2>5
<1>3. ASSUME NEW p, globalActive' = globalActive \ {p},
             \A c \in Clients : clientActive'[c] \in {clientActive[c], clientActive[c] \ {p}}
      PROVE  ActiveWithinLimits'
  <2>1. IsFiniteSet(globalActive') /\ Cardinality(globalActive') <= GlobalActiveTaskLimit
    BY <1>3, ShrinkBelow
  <2>2. ASSUME NEW c \in Clients
        PROVE  /\ IsFiniteSet(clientActive'[c])
               /\ Cardinality(clientActive'[c]) <= ClientActiveTaskLimit
    <3>1. CASE clientActive'[c] = clientActive[c]
      BY <3>1
    <3>2. CASE clientActive'[c] = clientActive[c] \ {p}
      <4>1. /\ IsFiniteSet(clientActive[c] \ {p})
            /\ Cardinality(clientActive[c] \ {p}) <= ClientActiveTaskLimit
        BY ShrinkBelow
      <4> QED
        BY <3>2, <4>1, Zenon
    <3> QED
      BY <1>3, <3>1, <3>2
  <2> QED
    BY <2>1, <2>2
<1>4. ASSUME NEW r \in Requests, r \in references[PermitOf[r]], releaseTask(r)
      PROVE  ActiveWithinLimits'
  <2>1. CASE references[PermitOf[r]] = {r}
    <3>1. globalActive' = globalActive \ {PermitOf[r]}
      BY <1>4, <2>1 DEF releaseTask, DropPermit
    <3>2. \A c \in Clients :
            clientActive'[c] \in {clientActive[c], clientActive[c] \ {PermitOf[r]}}
      BY <1>4, <2>1 DEF releaseTask, DropPermit
    <3> QED
      BY <3>1, <3>2, <1>3
  <2>2. CASE references[PermitOf[r]] # {r}
    BY <1>1, <1>4, <2>2 DEF releaseTask
  <2> QED
    BY <2>1, <2>2
<1>5. ASSUME NEW p \in Permits, PassScore(p) PROVE ActiveWithinLimits'
  <2>1. /\ globalActive' = globalActive \ {p}
        /\ \A c \in Clients : clientActive'[c] \in {clientActive[c], clientActive[c] \ {p}}
    BY <1>5 DEF PassScore
  <2> QED
    BY <2>1, <1>3
<1> QED
  BY <1>1, <1>2, <1>4, <1>5 DEF PermitEffect, permitVars, JoinPermit, ExpireKeys

-----------------------------------------------------------------------------
(* Who holds a reference.                                                  *)

(* A request between its acceptance and its decision holds its reference,  *)
(* unless the clock took it.                                               *)
WorkHoldsReference ==
  \A r \in Requests :
    at[r] \in {"admitted", "working"} /\ r \notin cut => r \in references[PermitOf[r]]

(* One task per key is in progress. *)
OneWinner ==
  \A r, q \in Requests :
    /\ at[r] = "working" /\ r \notin cut
    /\ at[q] = "working" /\ q \notin cut
    /\ PermitOf[r] = PermitOf[q]
    => r = q

PermitInv ==
  /\ CountedExactly /\ ActiveWithinLimits
  /\ NoStrayReference /\ WorkHoldsReference /\ OneWinner

(* A step of q changes no reference but its own. *)
OnlyReferenceOf(q) ==
  /\ \A p \in Permits, r \in Requests \ {q} : r \in references'[p] <=> r \in references[p]
  /\ \A p \in Permits : p # PermitOf[q] => references'[p] = references[p]

LEMMA OwnReference ==
  ASSUME TypeOK, NEW q \in Requests,
         JoinPermit(q) \/ GrantPermit(q) \/ RefusePermit(q) \/ releaseTask(q)
           \/ UNCHANGED permitVars
  PROVE  OnlyReferenceOf(q)
<1> USE PermitsAssumption DEF TypeOK, OnlyReferenceOf
<1>1. CASE JoinPermit(q)
  BY <1>1 DEF JoinPermit
<1>2. CASE GrantPermit(q)
  BY <1>2 DEF GrantPermit
<1>3. CASE releaseTask(q)
  <2>1. CASE references[PermitOf[q]] = {q}
    BY <1>3, <2>1 DEF releaseTask, DropPermit
  <2>2. CASE references[PermitOf[q]] # {q}
    BY <1>3, <2>2 DEF releaseTask, permitVars
  <2> QED
    BY <2>1, <2>2
<1>4. CASE RefusePermit(q) \/ UNCHANGED permitVars
  BY <1>4 DEF RefusePermit, permitVars
<1> QED
  BY <1>1, <1>2, <1>3, <1>4

LEMMA RequestReferences ==
  ASSUME TypeOK, NEW q \in Requests, RequestStep(q)
  PROVE  /\ OnlyReferenceOf(q)
         /\ \A r \in Requests \ {q} : /\ at'[r] = at[r]
                                      /\ r \in leaked' <=> r \in leaked
                                      /\ r \in cut' <=> r \in cut
<1>1. OnlyReferenceOf(q)
  <2>1. JoinPermit(q) \/ GrantPermit(q) \/ RefusePermit(q) \/ releaseTask(q)
          \/ UNCHANGED permitVars
    BY DEF RequestStep, QuotaAccepted, QuotaRateLimited, QuotaConcurrencyLimited, QuotaFailed,
           QuotaResent, Win, Lose, ReleaseByApi, WorkDecided, ReleaseByWorker, ReleaseAgain,
           Abandon
  <2> QED
    BY <2>1, OwnReference
<1>2. \A r \in Requests \ {q} : at'[r] = at[r]
  BY DEF TypeOK, GoTo, RequestStep, QuotaAccepted, QuotaRateLimited, QuotaConcurrencyLimited,
         QuotaFailed, QuotaResent, Win, Lose, ReleaseByApi, WorkDecided, ReleaseByWorker,
         ReleaseAgain, Abandon
<1>3. \A r \in Requests \ {q} : r \in leaked' <=> r \in leaked
  BY DEF Leak, RequestStep, QuotaAccepted, QuotaRateLimited, QuotaConcurrencyLimited,
         QuotaFailed, QuotaResent, Win, Lose, ReleaseByApi, WorkDecided, ReleaseByWorker,
         ReleaseAgain, Abandon
<1>4. \A r \in Requests \ {q} : r \in cut' <=> r \in cut
  BY DEF RequestStep, QuotaAccepted, QuotaRateLimited, QuotaConcurrencyLimited,
         QuotaFailed, QuotaResent, Win, Lose, ReleaseByApi, WorkDecided, ReleaseByWorker,
         ReleaseAgain, Abandon
<1> QED
  BY <1>1, <1>2, <1>3, <1>4

LEMMA StrayStep ==
  ASSUME TypeOK, CountedExactly, NoStrayReference, [Next]_vars
  PROVE  NoStrayReference'
<1> USE PermitsAssumption DEF TypeOK, NoStrayReference
<1>1. CASE UNCHANGED vars
  BY <1>1 DEF vars, permitVars
<1>2. ASSUME NEW q \in Requests, RequestStep(q) PROVE NoStrayReference'
  <2> SUFFICES ASSUME NEW p \in Permits, NEW r \in references'[p]
               PROVE  PermitOf[r] = p /\ (at'[r] \in InFlight \/ r \in leaked')
    BY DEF NoStrayReference
  <2>0. /\ \A x \in Requests \ {q} : x \in references'[p] <=> x \in references[p]
        /\ p # PermitOf[q] => references'[p] = references[p]
    BY <1>2, RequestReferences DEF OnlyReferenceOf
  <2>3. r \in Requests
    BY <1>2, PermitTypesStep, StepEffect DEF PermitTypes, Next
  <2>1. CASE r # q
    <3>1. r \in references[p]
      BY <2>0, <2>1, <2>3
    <3>2. r \in Requests \ {q}
      BY <2>1, <2>3
    <3>3. at'[r] = at[r] /\ (r \in leaked' <=> r \in leaked)
      BY <1>2, <3>2, RequestReferences
    <3> QED
      BY <3>1, <3>3
  <2>2. CASE r = q
    <3>1. PermitOf[q] = p
      BY <2>0, <2>2
    <3>2. CASE QuotaAccepted(q) \/ Win(q) \/ Lose(q) \/ WorkDecided(q) \/ QuotaFailed(q)
               \/ QuotaResent(q)
      BY <2>2, <3>1, <3>2 DEF QuotaAccepted, Win, Lose, WorkDecided, QuotaFailed, QuotaResent,
                              GoTo, InFlight
    <3>3. CASE QuotaRateLimited(q) \/ Abandon(q)
      BY <2>2, <3>1, <3>3 DEF QuotaRateLimited, Abandon, Leak, permitVars
    <3>4. CASE QuotaConcurrencyLimited(q)
      BY <2>2, <3>1, <3>4 DEF QuotaConcurrencyLimited, RefusePermit, permitVars, CountedExactly
    <3>5. CASE ReleaseByApi(q) \/ ReleaseByWorker(q) \/ ReleaseAgain(q)
      BY <2>2, <3>1, <3>5 DEF ReleaseByApi, ReleaseByWorker, ReleaseAgain, releaseTask,
                              DropPermit, permitVars
    <3> QED
      BY <1>2, <3>2, <3>3, <3>4, <3>5 DEF RequestStep
  <2> QED
    BY <2>1, <2>2
<1>3. ASSUME NEW p \in Permits, PassScore(p) PROVE NoStrayReference'
  BY <1>3 DEF PassScore
<1>4. ASSUME NEW p \in Permits, ExpireKeys(p) PROVE NoStrayReference'
  BY <1>4 DEF ExpireKeys
<1>5. ASSUME NEW c \in Clients, EndClientWindow(c) PROVE NoStrayReference'
  BY <1>5 DEF EndClientWindow, permitVars
<1>6. ASSUME EndGlobalWindow PROVE NoStrayReference'
  BY <1>6 DEF EndGlobalWindow, permitVars
<1> QED
  BY <1>1, <1>2, <1>3, <1>4, <1>5, <1>6 DEF Next

LEMMA HoldsStep ==
  ASSUME TypeOK, CountedExactly, WorkHoldsReference, [Next]_vars
  PROVE  WorkHoldsReference'
<1> USE PermitsAssumption DEF TypeOK, WorkHoldsReference
<1>1. CASE UNCHANGED vars
  BY <1>1 DEF vars, permitVars
<1>2. ASSUME NEW q \in Requests, RequestStep(q) PROVE WorkHoldsReference'
  <2> SUFFICES ASSUME NEW r \in Requests, at'[r] \in {"admitted", "working"}, r \notin cut'
               PROVE  r \in references'[PermitOf[r]]
    BY DEF WorkHoldsReference
  <2>1. CASE r # q
    <3>1. at'[r] = at[r] /\ (r \in cut' <=> r \in cut)
      BY <1>2, <2>1, RequestReferences
    <3>2. \A p \in Permits, x \in Requests \ {q} : x \in references'[p] <=> x \in references[p]
      BY <1>2, RequestReferences DEF OnlyReferenceOf
    <3> QED
      BY <2>1, <3>1, <3>2
  <2>2. CASE r = q
    <3>1. QuotaAccepted(q) \/ Win(q)
      BY <1>2, <2>2 DEF RequestStep, GoTo, QuotaRateLimited, QuotaConcurrencyLimited,
                        QuotaFailed, QuotaResent, Lose, ReleaseByApi, WorkDecided,
                        ReleaseByWorker, ReleaseAgain, Abandon
    <3>2. CASE QuotaAccepted(q)
      BY <2>2, <3>2 DEF QuotaAccepted, JoinPermit, GrantPermit
    <3>3. CASE Win(q)
      BY <2>2, <3>3 DEF Win, permitVars
    <3> QED
      BY <3>1, <3>2, <3>3
  <2> QED
    BY <2>1, <2>2
<1>3. ASSUME NEW p \in Permits, PassScore(p) PROVE WorkHoldsReference'
  BY <1>3 DEF PassScore
<1>4. ASSUME NEW p \in Permits, ExpireKeys(p) PROVE WorkHoldsReference'
  BY <1>4 DEF ExpireKeys
<1>5. ASSUME NEW c \in Clients, EndClientWindow(c) PROVE WorkHoldsReference'
  BY <1>5 DEF EndClientWindow, permitVars
<1>6. ASSUME EndGlobalWindow PROVE WorkHoldsReference'
  BY <1>6 DEF EndGlobalWindow, permitVars
<1> QED
  BY <1>1, <1>2, <1>3, <1>4, <1>5, <1>6 DEF Next

LEMMA WinnerStep ==
  ASSUME TypeOK, OneWinner, [Next]_vars
  PROVE  OneWinner'
<1> USE DEF TypeOK, OneWinner
<1> DEFINE Winning(r) == at[r] = "working" /\ r \notin cut
<1>1. ASSUME \A r \in Requests : Winning(r)' => Winning(r) PROVE OneWinner'
  BY <1>1
<1>2. CASE UNCHANGED vars
  BY <1>2 DEF vars
<1>3. ASSUME NEW q \in Requests, RequestStep(q) PROVE OneWinner'
  <2>1. CASE Win(q)
    BY <2>1 DEF Win, GoTo
  <2>2. CASE ~Win(q)
    <3>1. ASSUME NEW r \in Requests, Winning(r)' PROVE Winning(r)
      <4>1. CASE r # q
        BY <1>3, <3>1, <4>1, RequestReferences
      <4>2. CASE r = q
        BY <1>3, <2>2, <3>1, <4>2 DEF RequestStep, GoTo, QuotaAccepted, QuotaRateLimited,
              QuotaConcurrencyLimited, QuotaFailed, QuotaResent, Lose, ReleaseByApi,
              WorkDecided, ReleaseByWorker, ReleaseAgain, Abandon
      <4> QED
        BY <4>1, <4>2
    <3> QED
      BY <1>1, <3>1
  <2> QED
    BY <2>1, <2>2
<1>4. ASSUME at' = at, cut \subseteq cut' PROVE OneWinner'
  BY <1>4
<1> QED
  BY <1>2, <1>3, <1>4 DEF Next, PassScore, ExpireKeys, EndClientWindow, EndGlobalWindow

-----------------------------------------------------------------------------
(* The inductive invariant and what follows from it.                       *)

(* Permits are counted exactly, the active sets stay below their limits,   *)
(* and references belong to the requests that the handlers answer for.     *)
THEOREM PermitInvariant == Spec => []PermitInv
<1>1. Init => PermitInv
  BY PermitsAssumption, FS_EmptySet
     DEF Init, PermitInv, CountedExactly, ActiveWithinLimits, NoStrayReference,
         WorkHoldsReference, OneWinner
<1>2. TypeOK /\ PermitInv /\ [Next]_vars => PermitInv'
  BY StepEffect, CountedStep, ActiveStep, StrayStep, HoldsStep, WinnerStep DEF PermitInv
<1> QED
  BY <1>1, <1>2, PermitTypeCorrect, PTL DEF Spec

(* A permit is counted once, for the client that opened it, exactly while  *)
(* its keys exist and its time is not up.                                  *)
THEOREM PermitsCountedExactly == Spec => []CountedExactly
<1>1. PermitInv => CountedExactly
  BY DEF PermitInv
<1> QED
  BY <1>1, PermitInvariant, PTL

(* Without a fault no reference outlives its request.                      *)
THEOREM ReferencesReleased == Spec => []NoStrayReference
<1>1. PermitInv => NoStrayReference
  BY DEF PermitInv
<1> QED
  BY <1>1, PermitInvariant, PTL

LEMMA ProgressIsCounted ==
  ASSUME TypeOK, PermitInv, NEW r \in InProgress
  PROVE  /\ PermitOf[r] \in globalActive
         /\ identity[PermitOf[r]] \in Clients
         /\ PermitOf[r] \in clientActive[identity[PermitOf[r]]]
<1>1. r \in Requests /\ PermitOf[r] \in Permits /\ PermitOf[r] \notin overdue
  BY PermitsAssumption DEF InProgress
<1>2. r \in references[PermitOf[r]]
  BY DEF InProgress, PermitInv, WorkHoldsReference
<1>3. identity[PermitOf[r]] # None
  BY <1>1, <1>2 DEF PermitInv, CountedExactly
<1> QED
  BY <1>1, <1>3 DEF PermitInv, CountedExactly, TypeOK

(* Tasks in progress have different permits, so they are no more than the  *)
(* members of any set that counts their permits.                           *)
LEMMA ProgressBelowCount ==
  ASSUME PermitInv, NEW S \in SUBSET InProgress, NEW T, IsFiniteSet(T),
         \A r \in S : PermitOf[r] \in T
  PROVE  IsFiniteSet(S) /\ Cardinality(S) <= Cardinality(T)
<1> DEFINE f == [r \in S |-> PermitOf[r]]
<1>1. f \in [S -> T]
  OBVIOUS
<1>2. \A r, q \in S : f[r] = f[q] => r = q
  BY DEF PermitInv, OneWinner, InProgress
<1> HIDE DEF f
<1>3. f \in Injection(S, T)
  BY <1>1, <1>2 DEF Injection, IsInjective
<1> QED
  BY <1>3, FS_Injection

(* The tasks in progress never exceed the active limits of the policy, in  *)
(* all and per client, whatever is replayed, released twice or lost.       *)
THEOREM WorkStaysWithinLimits == Spec => []WorkWithinLimits
<1>1. ASSUME TypeOK, PermitInv PROVE WorkWithinLimits
  <2>1. ASSUME NEW S \in SUBSET InProgress, NEW T, NEW n \in Nat,
               IsFiniteSet(T), Cardinality(T) <= n, \A r \in S : PermitOf[r] \in T
        PROVE  Cardinality(S) <= n
    <3>1. IsFiniteSet(S) /\ Cardinality(S) <= Cardinality(T)
      BY <1>1, <2>1, ProgressBelowCount
    <3>2. Cardinality(S) \in Nat /\ Cardinality(T) \in Nat
      BY <2>1, <3>1, FS_CardinalityType
    <3> QED
      BY <2>1, <3>1, <3>2
  <2>2. Cardinality(InProgress) <= GlobalActiveTaskLimit
    <3>1. \A r \in InProgress : PermitOf[r] \in globalActive
      BY <1>1, ProgressIsCounted
    <3> QED
      BY PermitsAssumption, <1>1, <2>1, <3>1 DEF PermitInv, ActiveWithinLimits
  <2>3. ASSUME NEW c \in Clients
        PROVE  Cardinality({r \in InProgress : identity[PermitOf[r]] = c}) <= ClientActiveTaskLimit
    <3> DEFINE S == {r \in InProgress : identity[PermitOf[r]] = c}
    <3>1. \A r \in S : PermitOf[r] \in clientActive[c]
      BY <1>1, ProgressIsCounted
    <3>2. S \in SUBSET InProgress
      OBVIOUS
    <3>3. IsFiniteSet(clientActive[c]) /\ Cardinality(clientActive[c]) <= ClientActiveTaskLimit
      BY <1>1 DEF PermitInv, ActiveWithinLimits
    <3> HIDE DEF S
    <3>4. Cardinality(S) <= ClientActiveTaskLimit
      BY PermitsAssumption, <2>1, <3>1, <3>2, <3>3
    <3> QED
      BY <3>4 DEF S
  <2>4. \A r \in InProgress : PermitOf[r] \in globalActive
    BY <1>1, ProgressIsCounted
  <2> QED
    BY <2>2, <2>3, <2>4 DEF WorkWithinLimits
<1> QED
  BY <1>1, PermitTypeCorrect, PermitInvariant, PTL

(* The counts that every admission is decided by are exact: each permit is *)
(* counted while it lives, and it lives only as long as work needs it.     *)
THEOREM PermitsStayExact == Spec => []PermitsAreExact
  BY PermitsCountedExactly, ReferencesReleased, PTL DEF PermitsAreExact

(* A request is refused for concurrency only when no task of its key is in *)
(* progress: its permit is absent, so nothing unexpired refers to it.      *)
THEOREM ReplayIsNotRefused == Spec => ReplayNotRefused
<1> DEFINE Refusal == \A r \in Requests :
              at[r] = "new" /\ at'[r] = "refused"
                => \A q \in InProgress : PermitOf[q] # PermitOf[r]
<1>1. ASSUME TypeOK, PermitInv, Next PROVE Refusal
  <2> SUFFICES ASSUME NEW r \in Requests, at[r] = "new", at'[r] = "refused"
               PROVE  \A q \in InProgress : PermitOf[q] # PermitOf[r]
    OBVIOUS
  <2>1. PICK x \in Requests : RequestStep(x)
    BY <1>1 DEF Next, PassScore, ExpireKeys, EndClientWindow, EndGlobalWindow
  <2>2. x = r
    BY <1>1, <2>1, RequestReferences
  <2>3. QuotaConcurrencyLimited(r)
    BY <1>1, <2>1, <2>2 DEF RequestStep, GoTo, TypeOK, QuotaAccepted, QuotaRateLimited,
          QuotaFailed, QuotaResent, Win, Lose, ReleaseByApi, WorkDecided, ReleaseByWorker,
          ReleaseAgain, Abandon
  <2>4. identity[PermitOf[r]] = None
    BY <2>3 DEF QuotaConcurrencyLimited, RefusePermit
  <2> QED
    BY <1>1, <2>4, ProgressIsCounted, PermitsAssumption
<1>2. TypeOK /\ PermitInv /\ [Next]_vars => [Refusal]_vars
  BY <1>1
<1> QED
  BY <1>2, PermitTypeCorrect, PermitInvariant, PTL DEF Spec, ReplayNotRefused
=============================================================================
