---------------------------- MODULE JobAndPage_proofs -------------------------
(***************************************************************************)
(* Theorems about ProviderRoute, for any number of jobs, providers enabled,*)
(* attempts of a run and polls, and about ResolvePage with the gateway its *)
(* downloads go through, for any number of links, edits, tasks, downloads  *)
(* and bytes that PageWorkload allows.                                     *)
(*                                                                         *)
(* The adapters are looked at once: Program is all that the proofs about   *)
(* the router know of them, and every one of the nineteen is shown to be   *)
(* such a program.                                                         *)
(***************************************************************************)
EXTENDS ProviderRoute, ResolvePage, FiniteSetTheorems, TLAPS

-----------------------------------------------------------------------------
(* What the router relies on in an adapter.                                *)

Gates == {"gate", "reserve"}

\* The stages before the first request that needs a slot.
BeforeGate(p, gate) == {"start", gate} \cup (IF p = "locoloader" THEN {"landing"} ELSE {})

\* A stage is past the gate of its adapter, if it has one.
Past(p, A, s) == \E gate \in Gates \cap DOMAIN A.steps : s \notin BeforeGate(p, gate)

\* A failure that may be tried again lets other providers try as well.
FallsBack(o) == o.retryable => o.fallback

\* What a stage may lead to: the end of the call, or one of S.
Leads(o, S) == FallsBack(o) /\ (o = Resolved \/ o.to \in {"failed", "raw"} \cup S)

\* Stages lead to stages; only the gates lead past themselves.
Program(p, A) ==
  /\ "start" \in DOMAIN A.steps /\ ~Past(p, A, "start")
  /\ FallsBack(A.aborted) /\ FallsBack(A.broken)
  /\ \A s \in DOMAIN A.steps \ Gates : \A o \in A.steps[s] :
       Leads(o, {t \in DOMAIN A.steps : Past(p, A, t) <=> Past(p, A, s)})
  /\ \A s \in DOMAIN A.steps \cap Gates :
       /\ ~Past(p, A, s)
       /\ \A o \in A.steps[s] : o.to \in DOMAIN A.steps /\ Past(p, A, o.to)

Programs == \A f \in DOMAIN AdapterTable, p \in Provider : Program(p, AdapterTable[f][p])

-----------------------------------------------------------------------------
(* The invariant.                                                          *)

\* Every variable of the jobs has a value for each of them, and all the jobs
\* ask for one platform, whose enabled providers have the slots.
Shape ==
  /\ DOMAIN status = Job /\ DOMAIN run = Job /\ DOMAIN left = Job /\ DOMAIN attempts = Job
  /\ DOMAIN call = Job /\ DOMAIN signal = Job /\ DOMAIN last = Job
  /\ DOMAIN calls = Job /\ DOMAIN made = Job
  /\ \A j \in Job : DOMAIN calls[j] = DOMAIN slots
  /\ \E w \in Workloads :
       /\ enabled = w.enabled /\ platform = [j \in Job |-> w.platform]
       /\ DOMAIN slots = {p \in w.enabled : w.platform \in Serves[p]}

\* The counters are numbers.
Numbers(j) ==
  /\ run[j] \in Nat \ {0} /\ attempts[j] \in Nat /\ made[j] \in Nat
  /\ \A p \in DOMAIN slots : calls[j][p] \in Nat

\* A job that calls is at a stage of a provider that has slots.
AtStage(j) ==
  Calling(j) => call[j].provider \in DOMAIN slots /\ call[j].stage \in DOMAIN AdapterOf(j).steps

\* The last attempt that let no other provider try ended its job.
LastWord(j) == ~last[j].fallback => status[j] = "failed"

\* A job has the slots of its call and no others.
Slotted(j) ==
  \A p \in DOMAIN slots :
    j \in slots[p] <=> Calling(j) /\ call[j].provider = p /\ Past(p, AdapterOf(j), call[j].stage)

\* The calls of all runs so far, of those before this one, and of this one.
Within(j) == made[j] <= MaxAttempts * run[j] /\ \A p \in DOMAIN slots : calls[j][p] <= run[j]
Before(j, p) == calls[j][p] <= run[j] - 1
SoFar(j) == MaxAttempts * (run[j] - 1) + attempts[j]
Spent(j) ==
  /\ left[j] \subseteq DOMAIN slots /\ attempts[j] <= MaxAttempts
  /\ status[j] = "queued" => attempts[j] = 0 /\ \A p \in DOMAIN slots : Before(j, p)
  /\ status[j] \in {"ranked", "calling"} => \A p \in left[j] : Before(j, p)
  /\ status[j] \in {"queued", "ranked"} => made[j] <= SoFar(j)
  /\ status[j] = "calling" => attempts[j] < MaxAttempts /\ made[j] <= SoFar(j) + 1

JobInv(j) == Numbers(j) /\ AtStage(j) /\ LastWord(j) /\ Slotted(j) /\ Within(j) /\ Spent(j)

RouteInv ==
  /\ Shape /\ \A p \in DOMAIN slots : slots[p] \subseteq Job
  /\ \A j \in Job : JobInv(j)

-----------------------------------------------------------------------------
(* The adapters.                                                           *)

\* All the named failures that end a call, with leave to try again only where
\* What every stage may lead to: failures, a resolution, or its next stage.
LEMMA Outcomes ==
  ASSUME NEW S
  PROVE  /\ \A o \in Text \cup TextAnyStatus \cup Redirect : Leads(o, S)
         /\ Leads(Unavailable, S) /\ Leads(TimedOut, S) /\ Leads(RateLimited, S) /\ Leads(Challenge, S)
         /\ Leads(SchemaChanged, S) /\ Leads(InvalidOnce, S) /\ Leads(InvalidHere, S) /\ Leads(Unsupported, S)
         /\ Leads(UnsupportedContent, S) /\ Leads(Private, S) /\ Leads(NotFound, S) /\ Leads(NeedsLogin, S)
         /\ Leads(Resolved, S) /\ \A n : Leads(Building(n), S)
         /\ \A code, again : Leads(Failure(code, again, TRUE), S) /\ Leads(Failure(code, FALSE, FALSE), S)
         /\ \A s \in S : Leads(Go(s), S)
<1>1. \A code, again : Leads(Failure(code, again, TRUE), S) /\ Leads(Failure(code, FALSE, FALSE), S)
  BY DEF Leads, FallsBack, Failure
<1>2. /\ Leads(Unavailable, S) /\ Leads(TimedOut, S) /\ Leads(RateLimited, S) /\ Leads(Challenge, S)
      /\ Leads(SchemaChanged, S) /\ Leads(InvalidOnce, S) /\ Leads(InvalidHere, S) /\ Leads(Unsupported, S)
      /\ Leads(UnsupportedContent, S) /\ Leads(Private, S) /\ Leads(NotFound, S) /\ Leads(NeedsLogin, S)
  BY <1>1 DEF Unavailable, TimedOut, RateLimited, Challenge, SchemaChanged, InvalidOnce, InvalidHere, Unsupported,
              UnsupportedContent, Private, NotFound, NeedsLogin
<1>3. Leads(Resolved, S) /\ Leads(Raw, S) /\ \A s \in S : Leads(Go(s), S)
  BY DEF Leads, FallsBack, Resolved, Raw, Go
<1>4. \A n : Leads(Building(n), S)
  BY <1>2, <1>3 DEF Building
<1>5. \A o \in Text \cup TextAnyStatus \cup Redirect : Leads(o, S)
  BY <1>2, <1>3, <1>4 DEF Text, TextAnyStatus, Redirecting, Answering, Redirect
<1>. QED BY <1>1, <1>2, <1>3, <1>4, <1>5

\* What an aborted and a broken exchange become.
LEMMA Faults ==
  FallsBack(Raw) /\ FallsBack(TimedOut) /\ FallsBack(Unavailable) /\ FallsBack(Failure("provider_schema_changed", FALSE, TRUE))
  BY DEF FallsBack, Raw, Go, TimedOut, Unavailable, Failure

\* An adapter without a gate: its stages lead to stages.
LEMMA Ungated ==
  ASSUME NEW p, NEW A, "start" \in DOMAIN A.steps, Gates \cap DOMAIN A.steps = {},
         FallsBack(A.aborted), FallsBack(A.broken),
         \A s \in DOMAIN A.steps : \A o \in A.steps[s] : Leads(o, DOMAIN A.steps)
  PROVE  Program(p, A)
<1>1. \A s : ~Past(p, A, s)
  BY DEF Past
<1>2. \A s : {t \in DOMAIN A.steps : Past(p, A, t) <=> Past(p, A, s)} = DOMAIN A.steps
  BY <1>1
<1>. QED BY <1>1 DEF Program

\* An adapter with one: what is before it leads no further than to it, what
\* is past it stays there.
LEMMA Gated ==
  ASSUME NEW p, NEW A, NEW B, NEW C, NEW gate \in Gates, Gates \cap DOMAIN A.steps = {gate},
         DOMAIN A.steps = B \cup C, gate \in B, "start" \in B, B \subseteq BeforeGate(p, gate), C \cap BeforeGate(p, gate) = {},
         FallsBack(A.aborted), FallsBack(A.broken),
         \A s \in B \ {gate} : \A o \in A.steps[s] : Leads(o, B),
         \A s \in C : \A o \in A.steps[s] : Leads(o, C),
         \A o \in A.steps[gate] : o.to \in C
  PROVE  Program(p, A)
<1>1. \A s : Past(p, A, s) <=> s \notin BeforeGate(p, gate)
  BY DEF Past
<1>2. (\A s \in B : ~Past(p, A, s)) /\ (\A s \in C : Past(p, A, s))
  BY <1>1
<1>3. ASSUME NEW s \in DOMAIN A.steps \ Gates, NEW o \in A.steps[s]
      PROVE  Leads(o, {t \in DOMAIN A.steps : Past(p, A, t) <=> Past(p, A, s)})
  <2>1. CASE s \in B
    <3>1. Leads(o, B)
      BY <2>1, <1>3
    <3>. QED BY <3>1, <2>1, <1>2 DEF Leads
  <2>2. CASE s \in C
    <3>1. Leads(o, C)
      BY <2>2, <1>3
    <3>. QED BY <3>1, <2>2, <1>2 DEF Leads
  <2>. QED BY <1>3, <2>1, <2>2
<1>4. \A s \in DOMAIN A.steps \cap Gates :
        ~Past(p, A, s) /\ \A o \in A.steps[s] : o.to \in DOMAIN A.steps /\ Past(p, A, o.to)
  BY <1>2
<1>. QED BY <1>2, <1>3, <1>4 DEF Program

LEMMA FreeSiteProgram ==
  Program("snapinsta", FreeSite(TRUE)) /\ Program("tikvid", FreeSite(TRUE))
<1>. DEFINE A == FreeSite(TRUE)
            S == {"start", "landing", "submit"}
<1>1. /\ DOMAIN A.steps = S
      /\ A.aborted = Raw /\ A.broken = Raw
      /\ A.steps["start"] = Approval(TRUE, "landing")
      /\ A.steps["landing"] = Text \cup SiteForm
      /\ A.steps["submit"] = Text \cup SiteResult
  BY DEF FreeSite, Adapter
<1>2. "start" \in S /\ "landing" \in S /\ "submit" \in S
  OBVIOUS
<1>. HIDE DEF A, S
<1>3. \A o \in A.steps["start"] : Leads(o, S)
  BY <1>1, <1>2, Outcomes DEF Approval
<1>4. \A o \in A.steps["landing"] : Leads(o, S)
  BY <1>1, <1>2, Outcomes DEF SiteForm
<1>5. \A o \in A.steps["submit"] : Leads(o, S)
  BY <1>1, <1>2, Outcomes DEF SiteResult, SiteContent
<1>6. \A p : Program(p, A)
  BY <1>1, <1>3, <1>4, <1>5, Ungated, Faults DEF S, Gates
<1>. QED BY <1>6 DEF A

LEMMA DLPandaProgram ==
  Program("dlpanda", DLPanda(TRUE))
<1>. DEFINE A == DLPanda(TRUE)
            S == {"start", "landing", "submit"}
<1>1. /\ DOMAIN A.steps = S
      /\ A.aborted = Raw /\ A.broken = Raw
      /\ A.steps["start"] = Approval(TRUE, "landing")
      /\ A.steps["landing"] = Text \cup PandaToken
      /\ A.steps["submit"] = Text \cup {Unsupported, NeedsLogin} \cup PandaParse
  BY DEF DLPanda, Adapter
<1>2. "start" \in S /\ "landing" \in S /\ "submit" \in S
  OBVIOUS
<1>. HIDE DEF A, S
<1>3. \A o \in A.steps["start"] : Leads(o, S)
  BY <1>1, <1>2, Outcomes DEF Approval
<1>4. \A o \in A.steps["landing"] : Leads(o, S)
  BY <1>1, <1>2, Outcomes DEF PandaToken
<1>5. \A o \in A.steps["submit"] : Leads(o, S)
  BY <1>1, <1>2, Outcomes DEF PandaParse
<1>6. Program("dlpanda", A)
  BY <1>1, <1>3, <1>4, <1>5, Ungated, Faults DEF S, Gates
<1>. QED BY <1>6 DEF A

LEMMA TikCDProgram ==
  Program("tikcd", TikCD(TRUE))
<1>. DEFINE A == TikCD(TRUE)
            S == {"start", "api"}
<1>1. /\ DOMAIN A.steps = S
      /\ A.aborted = Raw /\ A.broken = Raw
      /\ A.steps["start"] = {Go("api")}
      /\ A.steps["api"] = Text \cup TikCDParse
  BY DEF TikCD, Adapter
<1>2. "start" \in S /\ "api" \in S
  OBVIOUS
<1>. HIDE DEF A, S
<1>3. \A o \in A.steps["start"] : Leads(o, S)
  BY <1>1, <1>2, Outcomes
<1>4. \A o \in A.steps["api"] : Leads(o, S)
  BY <1>1, <1>2, Outcomes DEF TikCDParse
<1>5. Program("tikcd", A)
  BY <1>1, <1>3, <1>4, Ungated, Faults DEF S, Gates
<1>. QED BY <1>5 DEF A

LEMMA SnapTikMonsterProgram ==
  Program("snaptik", SnapTikMonster(TRUE))
<1>. DEFINE A == SnapTikMonster(TRUE)
            S == {"start", "landing", "submit"}
<1>1. /\ DOMAIN A.steps = S
      /\ A.aborted = Raw /\ A.broken = Raw
      /\ A.steps["start"] = {Go("landing")}
      /\ A.steps["landing"] = Text \cup MonsterToken
      /\ A.steps["submit"] = Text \cup MonsterParse
  BY DEF SnapTikMonster, Adapter
<1>2. "start" \in S /\ "landing" \in S /\ "submit" \in S
  OBVIOUS
<1>. HIDE DEF A, S
<1>3. \A o \in A.steps["start"] : Leads(o, S)
  BY <1>1, <1>2, Outcomes
<1>4. \A o \in A.steps["landing"] : Leads(o, S)
  BY <1>1, <1>2, Outcomes DEF MonsterToken
<1>5. \A o \in A.steps["submit"] : Leads(o, S)
  BY <1>1, <1>2, Outcomes DEF MonsterParse
<1>6. Program("snaptik", A)
  BY <1>1, <1>3, <1>4, <1>5, Ungated, Faults DEF S, Gates
<1>. QED BY <1>6 DEF A

LEMMA LocoLoaderProgram ==
  Program("locoloader", LocoLoader(TRUE))
<1>. DEFINE A == LocoLoader(TRUE)
            B == {"start", "landing", "reserve"}
            C == {"extract"}
<1>1. /\ DOMAIN A.steps = B \cup C
      /\ A.aborted = Raw /\ A.broken = Raw
      /\ A.steps["start"] = LocoApproval(TRUE)
      /\ A.steps["landing"] = Text \cup {Go("reserve")}
      /\ A.steps["reserve"] = {Go("extract")}
      /\ A.steps["extract"] = Text \cup LocoParse \cup Redirect
  BY DEF LocoLoader, Adapter
<1>2. "start" \in B /\ "landing" \in B /\ "reserve" \in B /\ "extract" \in C
  OBVIOUS
<1>. HIDE DEF A, B, C
<1>3. \A o \in A.steps["start"] : Leads(o, B)
  <2>1. A.steps["start"] = LocoApproval(TRUE)
    BY <1>1
  <2>. QED BY <2>1, <1>2, Outcomes DEF LocoApproval, Approval
<1>4. \A o \in A.steps["landing"] : Leads(o, B)
  BY <1>1, <1>2, Outcomes
<1>5. \A o \in A.steps["reserve"] : o.to \in C
  BY <1>1, <1>2 DEF Go
<1>6. \A o \in A.steps["extract"] : Leads(o, C)
  <2>1. A.steps["extract"] = Text \cup LocoParse \cup Redirect
    BY <1>1
  <2>. QED BY <2>1, <1>2, Outcomes DEF LocoParse, LocoCode
<1>7. /\ Gates \cap DOMAIN A.steps = {"reserve"} /\ B \subseteq BeforeGate("locoloader", "reserve")
      /\ C \cap BeforeGate("locoloader", "reserve") = {} /\ "reserve" \in Gates
  BY <1>1 DEF B, C, Gates, BeforeGate
<1>8. \A s \in B \ {"reserve"} : \A o \in A.steps[s] : Leads(o, B)
  BY <1>3, <1>4 DEF B
<1>9. \A s \in C : \A o \in A.steps[s] : Leads(o, C)
  BY <1>6 DEF C
<1>10. Program("locoloader", A)
  <2>1. DOMAIN A.steps = B \cup C /\ FallsBack(A.aborted) /\ FallsBack(A.broken)
    BY <1>1, Faults
  <2>. QED BY <2>1, <1>2, <1>5, <1>7, <1>8, <1>9, Gated
<1>. QED BY <1>10 DEF A

LEMMA SocialDownloaderProgram ==
  Program("social", SocialDownloader(TRUE))
<1>. DEFINE A == SocialDownloader(TRUE)
            B == {"start", "reserve"}
            C == {"extract"}
<1>1. /\ DOMAIN A.steps = B \cup C
      /\ A.aborted = TimedOut /\ A.broken = Unavailable
      /\ A.steps["start"] = SocialApproval(TRUE)
      /\ A.steps["reserve"] = {Go("extract")}
      /\ A.steps["extract"] = TextAnyStatus \cup SocialParse \cup {Building(1)}
  BY DEF SocialDownloader, Adapter
<1>2. "start" \in B /\ "reserve" \in B /\ "extract" \in C
  OBVIOUS
<1>. HIDE DEF A, B, C
<1>3. \A o \in A.steps["start"] : Leads(o, B)
  <2>1. A.steps["start"] = SocialApproval(TRUE)
    BY <1>1
  <2>. QED BY <2>1, <1>2, Outcomes DEF SocialApproval, Approval
<1>4. \A o \in A.steps["reserve"] : o.to \in C
  BY <1>1, <1>2 DEF Go
<1>5. \A o \in A.steps["extract"] : Leads(o, C)
  <2>1. A.steps["extract"] = TextAnyStatus \cup SocialParse \cup {Building(1)}
    BY <1>1
  <2>. QED BY <2>1, <1>2, Outcomes DEF SocialParse, SocialFailure
<1>6. /\ Gates \cap DOMAIN A.steps = {"reserve"} /\ B \subseteq BeforeGate("social", "reserve")
      /\ C \cap BeforeGate("social", "reserve") = {} /\ "reserve" \in Gates
  BY <1>1 DEF B, C, Gates, BeforeGate
<1>7. \A s \in B \ {"reserve"} : \A o \in A.steps[s] : Leads(o, B)
  BY <1>3 DEF B
<1>8. \A s \in C : \A o \in A.steps[s] : Leads(o, C)
  BY <1>5 DEF C
<1>9. Program("social", A)
  BY <1>1, <1>2, <1>6, <1>7, <1>8, <1>4, Gated, Faults
<1>. QED BY <1>9 DEF A

LEMMA CobaltProgram ==
  ASSUME NEW v
  PROVE  Program("cobalt", Cobalt(v))
<1>. DEFINE A == Cobalt(v)
            S == {"start", "request", "thumbnail", "build"}
<1>1. /\ DOMAIN A.steps = S
      /\ A.aborted = TimedOut /\ A.broken = Unavailable
      /\ A.steps["start"] = CobaltApproval(v # {})
      /\ A.steps["request"] = CobaltExchange \cup CobaltAnswer(v)
      /\ A.steps["thumbnail"] = CobaltThumbnail
      /\ A.steps["build"] = CobaltBuild
  BY DEF Cobalt, Adapter
<1>2. "start" \in S /\ "request" \in S /\ "thumbnail" \in S /\ "build" \in S
  OBVIOUS
<1>. HIDE DEF A, S
<1>3. \A o \in A.steps["start"] : Leads(o, S)
  BY <1>1, <1>2, Outcomes DEF CobaltApproval, Approval
<1>4. \A o \in A.steps["request"] : Leads(o, S)
  BY <1>1, <1>2, Outcomes DEF CobaltExchange, CobaltAnswer, CobaltStatus, CobaltError, CobaltPlan, CobaltFormats, CobaltMode
<1>5. \A o \in A.steps["thumbnail"] : Leads(o, S)
  BY <1>1, <1>2, Outcomes DEF CobaltThumbnail
<1>6. \A o \in A.steps["build"] : Leads(o, S)
  BY <1>1, <1>2, Outcomes DEF CobaltBuild
<1>7. Program("cobalt", A)
  BY <1>1, <1>3, <1>4, <1>5, <1>6, Ungated, Faults DEF S, Gates
<1>. QED BY <1>7 DEF A

LEMMA YtDlpIsolatedProgram ==
  Program("ytdlp", YtDlpIsolated(TRUE))
<1>. DEFINE A == YtDlpIsolated(TRUE)
            S == {"start", "request"}
<1>1. /\ DOMAIN A.steps = S
      /\ A.aborted = Unavailable /\ A.broken = Failure("provider_schema_changed", FALSE, TRUE)
      /\ A.steps["start"] = RunnerApproval(TRUE)
      /\ A.steps["request"] = {Unavailable} \cup RunnerFailure \cup RunnerAnswer
  BY DEF YtDlpIsolated, Adapter
<1>2. "start" \in S /\ "request" \in S
  OBVIOUS
<1>. HIDE DEF A, S
<1>3. \A o \in A.steps["start"] : Leads(o, S)
  BY <1>1, <1>2, Outcomes DEF RunnerApproval, Approval
<1>4. \A o \in A.steps["request"] : Leads(o, S)
  BY <1>1, <1>2, Outcomes DEF RunnerFailure, RunnerAnswer
<1>5. Program("ytdlp", A)
  BY <1>1, <1>3, <1>4, Ungated, Faults DEF S, Gates
<1>. QED BY <1>5 DEF A

LEMMA SnapYTProgram ==
  Program("snapyt", SnapYT(TRUE))
<1>. DEFINE A == SnapYT(TRUE)
            B == {"start", "gate"}
            C == {"landing", "resolve", "result", "probe"}
<1>1. /\ DOMAIN A.steps = B \cup C
      /\ A.aborted = Raw /\ A.broken = Unavailable
      /\ A.steps["start"] = SnapApproval(TRUE)
      /\ A.steps["gate"] = {Go("landing")}
      /\ A.steps["landing"] = Text \cup SnapNonce
      /\ A.steps["resolve"] = Text \cup SnapAjax
      /\ A.steps["result"] = Text \cup SnapResult
      /\ A.steps["probe"] = SnapMedia
  BY DEF SnapYT, Adapter
<1>2. "start" \in B /\ "gate" \in B /\ "landing" \in C /\ "resolve" \in C /\ "result" \in C /\ "probe" \in C
  OBVIOUS
<1>. HIDE DEF A, B, C
<1>3. \A o \in A.steps["start"] : Leads(o, B)
  <2>1. A.steps["start"] = SnapApproval(TRUE)
    BY <1>1
  <2>. QED BY <2>1, <1>2, Outcomes DEF SnapApproval, Approval
<1>4. \A o \in A.steps["gate"] : o.to \in C
  BY <1>1, <1>2 DEF Go
<1>5. \A o \in A.steps["landing"] : Leads(o, C)
  <2>1. A.steps["landing"] = Text \cup SnapNonce
    BY <1>1
  <2>. QED BY <2>1, <1>2, Outcomes DEF SnapNonce
<1>6. \A o \in A.steps["resolve"] : Leads(o, C)
  <2>1. A.steps["resolve"] = Text \cup SnapAjax
    BY <1>1
  <2>. QED BY <2>1, <1>2, Outcomes DEF SnapAjax, SnapFailure
<1>7. \A o \in A.steps["result"] : Leads(o, C)
  <2>1. A.steps["result"] = Text \cup SnapResult
    BY <1>1
  <2>. QED BY <2>1, <1>2, Outcomes DEF SnapResult
<1>8. \A o \in A.steps["probe"] : Leads(o, C)
  <2>1. A.steps["probe"] = SnapMedia
    BY <1>1
  <2>. QED BY <2>1, <1>2, Outcomes DEF SnapMedia, SnapProbe, SnapRejected
<1>9. /\ Gates \cap DOMAIN A.steps = {"gate"} /\ B \subseteq BeforeGate("snapyt", "gate")
      /\ C \cap BeforeGate("snapyt", "gate") = {} /\ "gate" \in Gates
  BY <1>1 DEF B, C, Gates, BeforeGate
<1>10. \A s \in B \ {"gate"} : \A o \in A.steps[s] : Leads(o, B)
  BY <1>3 DEF B
<1>11. \A s \in C : \A o \in A.steps[s] : Leads(o, C)
  BY <1>5, <1>6, <1>7, <1>8 DEF C
<1>12. Program("snapyt", A)
  BY <1>1, <1>2, <1>9, <1>10, <1>11, <1>4, Gated, Faults
<1>. QED BY <1>12 DEF A

LEMMA NoAdsDLProgram ==
  Program("noadsdl", NoAdsDL(TRUE))
<1>. DEFINE A == NoAdsDL(TRUE)
            B == {"start", "gate"}
            C == {"info", "job", "poll", "second", "secondpoll", "build"}
<1>1. /\ DOMAIN A.steps = B \cup C
      /\ A.aborted = TimedOut /\ A.broken = Unavailable
      /\ A.steps["start"] = NoAdsApproval(TRUE)
      /\ A.steps["gate"] = {Go("info")}
      /\ A.steps["info"] = TextAnyStatus \cup NoAdsInfo
      /\ A.steps["job"] = NoAdsFirst
      /\ A.steps["poll"] = NoAdsFirst
      /\ A.steps["second"] = NoAdsSecond
      /\ A.steps["secondpoll"] = NoAdsSecond
      /\ A.steps["build"] = NoAdsBuild
  BY DEF NoAdsDL, Adapter
<1>2. /\ "start" \in B /\ "gate" \in B /\ "info" \in C /\ "job" \in C
      /\ "poll" \in C /\ "second" \in C /\ "secondpoll" \in C /\ "build" \in C
  OBVIOUS
<1>. HIDE DEF A, B, C
<1>3. \A o \in A.steps["start"] : Leads(o, B)
  <2>1. A.steps["start"] = NoAdsApproval(TRUE)
    BY <1>1
  <2>. QED BY <2>1, <1>2, Outcomes DEF NoAdsApproval, Approval
<1>4. \A o \in A.steps["gate"] : o.to \in C
  BY <1>1, <1>2 DEF Go
<1>5. \A o \in A.steps["info"] : Leads(o, C)
  <2>1. A.steps["info"] = TextAnyStatus \cup NoAdsInfo
    BY <1>1
  <2>. QED BY <2>1, <1>2, Outcomes DEF NoAdsInfo, NoAdsFailure
<1>6. \A o \in A.steps["job"] : Leads(o, C)
  <2>1. A.steps["job"] = NoAdsFirst
    BY <1>1
  <2>. QED BY <2>1, <1>2, Outcomes DEF NoAdsFirst, NoAdsJob, NoAdsFailure, NoAdsPrepared
<1>7. \A o \in A.steps["poll"] : Leads(o, C)
  <2>1. A.steps["poll"] = NoAdsFirst
    BY <1>1
  <2>. QED BY <2>1, <1>2, Outcomes DEF NoAdsFirst, NoAdsJob, NoAdsFailure, NoAdsPrepared
<1>8. \A o \in A.steps["second"] : Leads(o, C)
  <2>1. A.steps["second"] = NoAdsSecond
    BY <1>1
  <2>. QED BY <2>1, <1>2, Outcomes DEF NoAdsSecond
<1>9. \A o \in A.steps["secondpoll"] : Leads(o, C)
  <2>1. A.steps["secondpoll"] = NoAdsSecond
    BY <1>1
  <2>. QED BY <2>1, <1>2, Outcomes DEF NoAdsSecond
<1>10. \A o \in A.steps["build"] : Leads(o, C)
  <2>1. A.steps["build"] = NoAdsBuild
    BY <1>1
  <2>. QED BY <2>1, <1>2, Outcomes DEF NoAdsBuild
<1>11. /\ Gates \cap DOMAIN A.steps = {"gate"} /\ B \subseteq BeforeGate("noadsdl", "gate")
      /\ C \cap BeforeGate("noadsdl", "gate") = {} /\ "gate" \in Gates
  BY <1>1 DEF B, C, Gates, BeforeGate
<1>12. \A s \in B \ {"gate"} : \A o \in A.steps[s] : Leads(o, B)
  BY <1>3 DEF B
<1>13. \A s \in C : \A o \in A.steps[s] : Leads(o, C)
  BY <1>5, <1>6, <1>7, <1>8, <1>9, <1>10 DEF C
<1>14. Program("noadsdl", A)
  BY <1>1, <1>2, <1>11, <1>12, <1>13, <1>4, Gated, Faults
<1>. QED BY <1>14 DEF A

LEMMA NineXBuddyProgram ==
  ASSUME NEW ok
  PROVE  Program("ninexbuddy", NineXBuddy(ok))
<1>. DEFINE A == NineXBuddy(ok)
            B == {"start", "gate"}
            C == {"landing", "token", "extract", "extractagain", "inspect", "prepare", "progress", "cancel", "build"}
<1>1. /\ DOMAIN A.steps = B \cup C
      /\ A.aborted = TimedOut /\ A.broken = Unavailable
      /\ A.steps["start"] = BuddyApproval(ok)
      /\ A.steps["gate"] = {Go("landing")}
      /\ A.steps["landing"] = Text \cup BuddyBootstrap
      /\ A.steps["token"] = BuddyToken
      /\ A.steps["extract"] = BuddyExtract(Go("extractagain"))
      /\ A.steps["extractagain"] = BuddyExtract(Unavailable)
      /\ A.steps["inspect"] = BuddyInspect
      /\ A.steps["prepare"] = BuddyJson \cup BuddyPrepared
      /\ A.steps["progress"] = BuddyProgress
      /\ A.steps["cancel"] = BuddyCancel
      /\ A.steps["build"] = BuddyBuild
  BY DEF NineXBuddy, Adapter
<1>2. /\ "start" \in B /\ "gate" \in B /\ "landing" \in C /\ "token" \in C
      /\ "extract" \in C /\ "extractagain" \in C /\ "inspect" \in C /\ "prepare" \in C
      /\ "progress" \in C /\ "cancel" \in C /\ "build" \in C
  OBVIOUS
<1>. HIDE DEF A, B, C
<1>3. \A o \in A.steps["start"] : Leads(o, B)
  <2>1. A.steps["start"] = BuddyApproval(ok)
    BY <1>1
  <2>. QED BY <2>1, <1>2, Outcomes DEF BuddyApproval, Approval
<1>4. \A o \in A.steps["gate"] : o.to \in C
  BY <1>1, <1>2 DEF Go
<1>5. \A o \in A.steps["landing"] : Leads(o, C)
  <2>1. A.steps["landing"] = Text \cup BuddyBootstrap
    BY <1>1
  <2>. QED BY <2>1, <1>2, Outcomes DEF BuddyBootstrap
<1>6. \A o \in A.steps["token"] : Leads(o, C)
  <2>1. A.steps["token"] = BuddyToken
    BY <1>1
  <2>. QED BY <2>1, <1>2, Outcomes DEF BuddyToken, BuddyJson
<1>7. \A o \in A.steps["extract"] : Leads(o, C)
  <2>1. A.steps["extract"] = BuddyExtract(Go("extractagain"))
    BY <1>1
  <2>. QED BY <2>1, <1>2, Outcomes DEF BuddyExtract, BuddyJson, BuddyContent, BuddyDescriptor
<1>8. \A o \in A.steps["extractagain"] : Leads(o, C)
  <2>1. A.steps["extractagain"] = BuddyExtract(Unavailable)
    BY <1>1
  <2>. QED BY <2>1, <1>2, Outcomes DEF BuddyExtract, BuddyJson, BuddyContent, BuddyDescriptor
<1>9. \A o \in A.steps["inspect"] : Leads(o, C)
  <2>1. A.steps["inspect"] = BuddyInspect
    BY <1>1
  <2>. QED BY <2>1, <1>2, Outcomes DEF BuddyInspect, BuddyJson, BuddyPrepared
<1>10. \A o \in A.steps["prepare"] : Leads(o, C)
  <2>1. A.steps["prepare"] = BuddyJson \cup BuddyPrepared
    BY <1>1
  <2>. QED BY <2>1, <1>2, Outcomes DEF BuddyJson, BuddyPrepared
<1>11. \A o \in A.steps["progress"] : Leads(o, C)
  <2>1. A.steps["progress"] = BuddyProgress
    BY <1>1
  <2>. QED BY <2>1, <1>2, Outcomes DEF BuddyProgress, BuddyJson
<1>12. \A o \in A.steps["cancel"] : Leads(o, C)
  <2>1. A.steps["cancel"] = BuddyCancel
    BY <1>1
  <2>. QED BY <2>1, <1>2, Outcomes DEF BuddyCancel
<1>13. \A o \in A.steps["build"] : Leads(o, C)
  <2>1. A.steps["build"] = BuddyBuild
    BY <1>1
  <2>. QED BY <2>1, <1>2, Outcomes DEF BuddyBuild
<1>14. /\ Gates \cap DOMAIN A.steps = {"gate"} /\ B \subseteq BeforeGate("ninexbuddy", "gate")
      /\ C \cap BeforeGate("ninexbuddy", "gate") = {} /\ "gate" \in Gates
  BY <1>1 DEF B, C, Gates, BeforeGate
<1>15. \A s \in B \ {"gate"} : \A o \in A.steps[s] : Leads(o, B)
  BY <1>3 DEF B
<1>16. \A s \in C : \A o \in A.steps[s] : Leads(o, C)
  BY <1>5, <1>6, <1>7, <1>8, <1>9, <1>10, <1>11, <1>12, <1>13 DEF C
<1>17. Program("ninexbuddy", A)
  BY <1>1, <1>2, <1>14, <1>15, <1>16, <1>4, Gated, Faults
<1>. QED BY <1>17 DEF A

LEMMA VidDownProgram ==
  Program("viddown", VidDown(TRUE))
<1>. DEFINE A == VidDown(TRUE)
            S == {"start", "landing", "token", "loader"}
<1>1. /\ DOMAIN A.steps = S
      /\ A.aborted = Raw /\ A.broken = Raw
      /\ A.steps["start"] = {Go("landing")}
      /\ A.steps["landing"] = Text \cup VidDownToken
      /\ A.steps["token"] = Text \cup VidDownLegacy
      /\ A.steps["loader"] = Text \cup VidDownLoader \cup Redirect
  BY DEF VidDown, Adapter
<1>2. "start" \in S /\ "landing" \in S /\ "token" \in S /\ "loader" \in S
  OBVIOUS
<1>. HIDE DEF A, S
<1>3. \A o \in A.steps["start"] : Leads(o, S)
  BY <1>1, <1>2, Outcomes
<1>4. \A o \in A.steps["landing"] : Leads(o, S)
  BY <1>1, <1>2, Outcomes DEF VidDownToken
<1>5. \A o \in A.steps["token"] : Leads(o, S)
  BY <1>1, <1>2, Outcomes DEF VidDownLegacy
<1>6. \A o \in A.steps["loader"] : Leads(o, S)
  BY <1>1, <1>2, Outcomes DEF VidDownLoader, VidDownFailure
<1>7. Program("viddown", A)
  BY <1>1, <1>3, <1>4, <1>5, <1>6, Ungated, Faults DEF S, Gates
<1>. QED BY <1>7 DEF A

LEMMA SaveFromInsProgram ==
  Program("savefromins", SaveFromIns(TRUE))
<1>. DEFINE A == SaveFromIns(TRUE)
            S == {"start", "request"}
<1>1. /\ DOMAIN A.steps = S
      /\ A.aborted = Raw /\ A.broken = Raw
      /\ A.steps["start"] = {Go("request")}
      /\ A.steps["request"] = Text \cup InsPayload
  BY DEF SaveFromIns, Adapter
<1>2. "start" \in S /\ "request" \in S
  OBVIOUS
<1>. HIDE DEF A, S
<1>3. \A o \in A.steps["start"] : Leads(o, S)
  BY <1>1, <1>2, Outcomes
<1>4. \A o \in A.steps["request"] : Leads(o, S)
  BY <1>1, <1>2, Outcomes DEF InsPayload, InsFailure, InsResources
<1>5. Program("savefromins", A)
  BY <1>1, <1>3, <1>4, Ungated, Faults DEF S, Gates
<1>. QED BY <1>5 DEF A

LEMMA FDownIsuruProgram ==
  Program("fdown", FDownIsuru(TRUE))
<1>. DEFINE A == FDownIsuru(TRUE)
            S == {"start", "request"}
<1>1. /\ DOMAIN A.steps = S
      /\ A.aborted = TimedOut /\ A.broken = Unavailable
      /\ A.steps["start"] = {Go("request")}
      /\ A.steps["request"] = TextAnyStatus \cup FDownParse \cup FDownDeadline \cup {Building(1), Unavailable}
  BY DEF FDownIsuru, Adapter
<1>2. "start" \in S /\ "request" \in S
  OBVIOUS
<1>. HIDE DEF A, S
<1>3. \A o \in A.steps["start"] : Leads(o, S)
  BY <1>1, <1>2, Outcomes
<1>4. \A o \in A.steps["request"] : Leads(o, S)
  <2>1. \A o \in FDownParse \cup FDownDeadline : Leads(o, S)
    BY Outcomes DEF FDownParse, FDownFailure, FDownDeadline
  <2>2. \A o \in TextAnyStatus \cup {Building(1), Unavailable} : Leads(o, S)
    BY Outcomes
  <2>. QED BY <1>1, <2>1, <2>2
<1>5. Program("fdown", A)
  BY <1>1, <1>3, <1>4, Ungated, Faults DEF S, Gates
<1>. QED BY <1>5 DEF A

LEMMA SSSTwitterProgram ==
  Program("ssstwitter", SSSTwitter(TRUE))
<1>. DEFINE A == SSSTwitter(TRUE)
            S == {"start", "landing", "submit", "thumbnail", "build"}
<1>1. /\ DOMAIN A.steps = S
      /\ A.aborted = Raw /\ A.broken = Raw
      /\ A.steps["start"] = {Go("landing")}
      /\ A.steps["landing"] = Text \cup SSSForm
      /\ A.steps["submit"] = Text \cup SSSResult
      /\ A.steps["thumbnail"] = SSSThumbnail
      /\ A.steps["build"] = SSSBuild
  BY DEF SSSTwitter, Adapter
<1>2. "start" \in S /\ "landing" \in S /\ "submit" \in S /\ "thumbnail" \in S /\ "build" \in S
  OBVIOUS
<1>. HIDE DEF A, S
<1>3. \A o \in A.steps["start"] : Leads(o, S)
  BY <1>1, <1>2, Outcomes
<1>4. \A o \in A.steps["landing"] : Leads(o, S)
  BY <1>1, <1>2, Outcomes DEF SSSForm
<1>5. \A o \in A.steps["submit"] : Leads(o, S)
  BY <1>1, <1>2, Outcomes DEF SSSResult
<1>6. \A o \in A.steps["thumbnail"] : Leads(o, S)
  BY <1>1, <1>2, Outcomes DEF SSSThumbnail
<1>7. \A o \in A.steps["build"] : Leads(o, S)
  BY <1>1, <1>2, Outcomes DEF SSSBuild
<1>8. Program("ssstwitter", A)
  BY <1>1, <1>3, <1>4, <1>5, <1>6, <1>7, Ungated, Faults DEF S, Gates
<1>. QED BY <1>8 DEF A

LEMMA TwitterSaverProgram ==
  Program("twittersaver", TwitterSaver(TRUE))
<1>. DEFINE A == TwitterSaver(TRUE)
            S == {"start", "landing", "search"}
<1>1. /\ DOMAIN A.steps = S
      /\ A.aborted = Raw /\ A.broken = Raw
      /\ A.steps["start"] = {Go("landing")}
      /\ A.steps["landing"] = Text \cup SaverLanding
      /\ A.steps["search"] = Text \cup SaverSearch
  BY DEF TwitterSaver, Adapter
<1>2. "start" \in S /\ "landing" \in S /\ "search" \in S
  OBVIOUS
<1>. HIDE DEF A, S
<1>3. \A o \in A.steps["start"] : Leads(o, S)
  BY <1>1, <1>2, Outcomes
<1>4. \A o \in A.steps["landing"] : Leads(o, S)
  BY <1>1, <1>2, Outcomes DEF SaverLanding
<1>5. \A o \in A.steps["search"] : Leads(o, S)
  BY <1>1, <1>2, Outcomes DEF SaverSearch, SaverFailure
<1>6. Program("twittersaver", A)
  BY <1>1, <1>3, <1>4, <1>5, Ungated, Faults DEF S, Gates
<1>. QED BY <1>6 DEF A

LEMMA GetXHamsterProgram ==
  Program("getxhamster", GetXHamster(TRUE))
<1>. DEFINE A == GetXHamster(TRUE)
            B == {"start", "gate"}
            C == {"request"}
<1>1. /\ DOMAIN A.steps = B \cup C
      /\ A.aborted = Raw /\ A.broken = Raw
      /\ A.steps["start"] = XHamsterApproval(TRUE)
      /\ A.steps["gate"] = {Go("request")}
      /\ A.steps["request"] = Text \cup XHamsterParse
  BY DEF GetXHamster, Adapter
<1>2. "start" \in B /\ "gate" \in B /\ "request" \in C
  OBVIOUS
<1>. HIDE DEF A, B, C
<1>3. \A o \in A.steps["start"] : Leads(o, B)
  <2>1. A.steps["start"] = XHamsterApproval(TRUE)
    BY <1>1
  <2>. QED BY <2>1, <1>2, Outcomes DEF XHamsterApproval, Approval
<1>4. \A o \in A.steps["gate"] : o.to \in C
  BY <1>1, <1>2 DEF Go
<1>5. \A o \in A.steps["request"] : Leads(o, C)
  <2>1. A.steps["request"] = Text \cup XHamsterParse
    BY <1>1
  <2>. QED BY <2>1, <1>2, Outcomes DEF XHamsterParse
<1>6. /\ Gates \cap DOMAIN A.steps = {"gate"} /\ B \subseteq BeforeGate("getxhamster", "gate")
      /\ C \cap BeforeGate("getxhamster", "gate") = {} /\ "gate" \in Gates
  BY <1>1 DEF B, C, Gates, BeforeGate
<1>7. \A s \in B \ {"gate"} : \A o \in A.steps[s] : Leads(o, B)
  BY <1>3 DEF B
<1>8. \A s \in C : \A o \in A.steps[s] : Leads(o, C)
  BY <1>5 DEF C
<1>9. Program("getxhamster", A)
  BY <1>1, <1>2, <1>6, <1>7, <1>8, <1>4, Gated, Faults
<1>. QED BY <1>9 DEF A

LEMMA PinterestVideoDownloaderProgram ==
  Program("pinterest", PinterestVideoDownloader(TRUE))
<1>. DEFINE A == PinterestVideoDownloader(TRUE)
            S == {"start", "expand", "pin"}
<1>1. /\ DOMAIN A.steps = S
      /\ A.aborted = Raw /\ A.broken = Raw
      /\ A.steps["start"] = PinStart
      /\ A.steps["expand"] = Text \cup PinExpand
      /\ A.steps["pin"] = Text \cup PinParse
  BY DEF PinterestVideoDownloader, Adapter
<1>2. "start" \in S /\ "expand" \in S /\ "pin" \in S
  OBVIOUS
<1>. HIDE DEF A, S
<1>3. \A o \in A.steps["start"] : Leads(o, S)
  BY <1>1, <1>2, Outcomes DEF PinStart
<1>4. \A o \in A.steps["expand"] : Leads(o, S)
  BY <1>1, <1>2, Outcomes DEF PinExpand
<1>5. \A o \in A.steps["pin"] : Leads(o, S)
  BY <1>1, <1>2, Outcomes DEF PinParse
<1>6. Program("pinterest", A)
  BY <1>1, <1>3, <1>4, <1>5, Ungated, Faults DEF S, Gates
<1>. QED BY <1>6 DEF A

\* Every adapter, on every platform, is such a program: a failure the queue may try
\* again also lets the router fall back, and only a gate leads past itself.
THEOREM AdaptersArePrograms == Programs
<1>. SUFFICES ASSUME NEW f \in DOMAIN AdapterTable, NEW p \in Provider
              PROVE  Program(p, AdapterTable[f][p])
  BY DEF Programs
<1>. DEFINE ok == f \in Delivers("ninexbuddy")
<1>1. /\ AdapterTable[f]["twittersaver"] = TwitterSaver(TRUE) /\ AdapterTable[f]["ssstwitter"] = SSSTwitter(TRUE)
      /\ AdapterTable[f]["savefromins"] = SaveFromIns(TRUE) /\ AdapterTable[f]["snapinsta"] = FreeSite(TRUE)
      /\ AdapterTable[f]["dlpanda"] = DLPanda(TRUE) /\ AdapterTable[f]["snaptik"] = SnapTikMonster(TRUE)
      /\ AdapterTable[f]["tikvid"] = FreeSite(TRUE) /\ AdapterTable[f]["tikcd"] = TikCD(TRUE)
  BY DEF AdapterTable, Adapters
<1>2. /\ AdapterTable[f]["fdown"] = FDownIsuru(TRUE) /\ AdapterTable[f]["social"] = SocialDownloader(TRUE)
      /\ AdapterTable[f]["pinterest"] = PinterestVideoDownloader(TRUE) /\ AdapterTable[f]["viddown"] = VidDown(TRUE)
      /\ AdapterTable[f]["locoloader"] = LocoLoader(TRUE) /\ AdapterTable[f]["ninexbuddy"] = NineXBuddy(ok)
      /\ AdapterTable[f]["getxhamster"] = GetXHamster(TRUE) /\ AdapterTable[f]["snapyt"] = SnapYT(TRUE)
  BY DEF AdapterTable, Adapters
<1>3. /\ AdapterTable[f]["noadsdl"] = NoAdsDL(TRUE) /\ AdapterTable[f]["cobalt"] = Cobalt(CobaltModesOf(f))
      /\ AdapterTable[f]["ytdlp"] = YtDlpIsolated(TRUE)
  BY DEF AdapterTable, Adapters
<1>4. \/ p \in {"twittersaver", "ssstwitter", "savefromins", "snapinsta", "dlpanda", "snaptik", "tikvid", "tikcd"}
      \/ p \in {"fdown", "social", "pinterest", "viddown", "locoloader", "ninexbuddy", "getxhamster", "snapyt"}
      \/ p \in {"noadsdl", "cobalt", "ytdlp"}
  BY DEF Provider, Serves
<1>5. CASE p \in {"twittersaver", "ssstwitter", "savefromins", "snapinsta", "dlpanda", "snaptik", "tikvid", "tikcd"}
  BY <1>5, <1>1, TwitterSaverProgram, SSSTwitterProgram, SaveFromInsProgram, FreeSiteProgram, DLPandaProgram,
     SnapTikMonsterProgram, TikCDProgram
<1>6. CASE p \in {"fdown", "social", "pinterest", "viddown", "locoloader", "ninexbuddy", "getxhamster", "snapyt"}
  BY <1>6, <1>2, FDownIsuruProgram, SocialDownloaderProgram, PinterestVideoDownloaderProgram, VidDownProgram,
     LocoLoaderProgram, NineXBuddyProgram, GetXHamsterProgram, SnapYTProgram
<1>7. CASE p \in {"noadsdl", "cobalt", "ytdlp"}
  BY <1>7, <1>3, NoAdsDLProgram, CobaltProgram, YtDlpIsolatedProgram
<1>. QED BY <1>4, <1>5, <1>6, <1>7

-----------------------------------------------------------------------------
(* What a reachable state knows of its adapters.                           *)

\* The provider a job calls runs its program, at one of its stages.
LEMMA CallRuns ==
  ASSUME Shape, NEW j \in Job, AtStage(j), Calling(j)
  PROVE  /\ Program(call[j].provider, AdapterOf(j))
         /\ call[j].provider \in DOMAIN slots /\ call[j].stage \in DOMAIN AdapterOf(j).steps
<1>1. PICK w \in Workloads : /\ enabled = w.enabled /\ platform = [i \in Job |-> w.platform]
                             /\ DOMAIN slots = {p \in w.enabled : w.platform \in Serves[p]}
  BY DEF Shape
<1>2. call[j].provider \in DOMAIN slots /\ call[j].stage \in DOMAIN AdapterOf(j).steps
  BY DEF AtStage
<1>3. call[j].provider \in Provider
  BY <1>1, <1>2, WorkloadAssumption
<1>4. platform[j] \in DOMAIN AdapterTable
  BY <1>1 DEF AdapterTable
<1>. QED BY <1>2, <1>3, <1>4, AdaptersArePrograms DEF Programs, AdapterOf

\* The providers a job may be given have slots.
LEMMA ManifestHasSlots ==
  ASSUME Shape, NEW j \in Job PROVE Manifest(j) = DOMAIN slots /\ Eligible(j) \subseteq DOMAIN slots
  BY DEF Shape, Manifest, Eligible

-----------------------------------------------------------------------------
(* The jobs that do not move.                                              *)

JobStep(j) ==
  \/ Rank(j) \/ GiveUp(j)
  \/ \E p \in DOMAIN slots : Skip(j, p) \/ Call(j, p)
  \/ \E by \in {"provider", "route"} : Cut(j, by)
  \/ Step(j) \/ Admit(j) \/ Refuse(j) \/ Interrupt(j) \/ Break(j)

\* What the invariant says of a job is the same before and after.
Same(j) ==
  /\ status'[j] = status[j] /\ run'[j] = run[j] /\ left'[j] = left[j] /\ attempts'[j] = attempts[j]
  /\ call'[j] = call[j] /\ last'[j] = last[j] /\ calls'[j] = calls[j] /\ made'[j] = made[j]
  /\ \A p \in DOMAIN slots : j \in slots'[p] <=> j \in slots[p]

\* The jobs, the platform and the providers with slots stay.
Fixed ==
  /\ Shape' /\ DOMAIN slots' = DOMAIN slots /\ platform' = platform
  /\ \A p \in DOMAIN slots' : slots'[p] \subseteq Job

Others(j) == \A i \in Job \ {j} : Same(i)

LEMMA SameJobKeeps ==
  ASSUME NEW j \in Job, Fixed, Same(j), JobInv(j) PROVE JobInv(j)'
<1>1. AdapterOf(j)' = AdapterOf(j) /\ Calling(j)' = Calling(j)
  BY DEF AdapterOf, Fixed, Same, Calling
<1>2. Numbers(j)' /\ LastWord(j)' /\ Within(j)' /\ Spent(j)'
  BY DEF Fixed, Same, JobInv, Numbers, LastWord, Within, Spent, Before, SoFar
<1>3. AtStage(j)' /\ Slotted(j)'
  BY <1>1 DEF Fixed, Same, JobInv, AtStage, Slotted
<1>. QED BY <1>2, <1>3 DEF JobInv

\* A step that gives no job a slot of another keeps the shape.
LEMMA ShapeKept ==
  ASSUME RouteInv, UNCHANGED <<platform, enabled>>,
         DOMAIN status' = Job, DOMAIN run' = Job, DOMAIN left' = Job, DOMAIN attempts' = Job, DOMAIN call' = Job,
         DOMAIN signal' = Job, DOMAIN last' = Job, DOMAIN calls' = Job, DOMAIN made' = Job,
         DOMAIN slots' = DOMAIN slots, \A i \in Job : DOMAIN calls'[i] = DOMAIN calls[i],
         \A p \in DOMAIN slots : slots'[p] \subseteq Job
  PROVE  Fixed
  BY DEF RouteInv, Shape, Fixed

LEMMA EndRouteOthers ==
  ASSUME Shape, NEW j \in Job, NEW retryable, NEW p, EndRoute(j, retryable, p)
  PROVE  /\ DOMAIN status' = Job /\ DOMAIN run' = Job /\ DOMAIN left' = Job /\ DOMAIN attempts' = Job
         /\ DOMAIN signal' = Job
         /\ \A i \in Job \ {j} : /\ status'[i] = status[i] /\ run'[i] = run[i] /\ left'[i] = left[i]
                                 /\ attempts'[i] = attempts[i]
         /\ left'[j] = {} /\ attempts'[j] = 0
         /\ \/ status'[j] = "queued" /\ run'[j] = run[j] + 1 /\ retryable
            \/ status'[j] = "failed" /\ run'[j] = run[j]
  BY DEF Shape, EndRoute

LEMMA LeaveOthers ==
  ASSUME RouteInv, NEW j \in Job, Calling(j), Leave(j)
  PROVE  /\ DOMAIN call' = Job /\ DOMAIN slots' = DOMAIN slots
         /\ \A p \in DOMAIN slots : slots'[p] \subseteq Job /\ j \notin slots'[p]
         /\ \A i \in Job \ {j} : call'[i] = call[i] /\ \A p \in DOMAIN slots : i \in slots'[p] <=> i \in slots[p]
<1>1. DOMAIN call = Job /\ Slotted(j) /\ AtStage(j) /\ \A p \in DOMAIN slots : slots[p] \subseteq Job
  BY DEF RouteInv, Shape, JobInv
<1>2. slots' = [slots EXCEPT ![call[j].provider] = @ \ {j}] /\ call' = [call EXCEPT ![j] = NoCall]
  BY DEF Leave
<1>3. call[j].provider \in DOMAIN slots /\ \A p \in DOMAIN slots : j \in slots[p] => p = call[j].provider
  BY <1>1 DEF AtStage, Slotted
<1>. QED BY <1>1, <1>2, <1>3

-----------------------------------------------------------------------------
(* The job that moves: its calls and its budget.                           *)

LEMMA Budget == ASSUME NEW r \in Nat \ {0} PROVE MaxAttempts * (r - 1) + MaxAttempts = MaxAttempts * r
  BY RouteAssumption

LEMMA Bounds == ASSUME NEW r \in Nat \ {0}
  PROVE MaxAttempts * (r - 1) \in Nat /\ MaxAttempts * r \in Nat /\ MaxAttempts * r <= MaxAttempts * (r + 1)
<1>1. \A a, b \in Nat : a * b \in Nat
  OBVIOUS
<1>2. r - 1 \in Nat /\ r \in Nat /\ MaxAttempts \in Nat
  BY RouteAssumption
<1>3. MaxAttempts * (r + 1) = MaxAttempts * r + MaxAttempts
  BY <1>2
<1>. QED BY <1>1, <1>2, <1>3

\* A run that ends has made no more calls than it may, so the next one starts
\* within its budget.
LEMMA EndedWithin ==
  ASSUME RouteInv, NEW j \in Job, NEW retryable, NEW p, EndRoute(j, retryable, p),
         DOMAIN slots' = DOMAIN slots, calls' = calls, made' = made
  PROVE  Numbers(j)' /\ Within(j)' /\ Spent(j)'
<1>. DEFINE r == run[j]
            m == MaxAttempts * r
<1>1. Numbers(j) /\ Within(j) /\ Shape
  BY DEF RouteInv, JobInv
<1>2. /\ left'[j] = {} /\ attempts'[j] = 0
      /\ \/ status'[j] = "queued" /\ run'[j] = r + 1
         \/ status'[j] = "failed" /\ run'[j] = r
  BY <1>1, EndRouteOthers
<1>3. /\ r \in Nat \ {0} /\ m \in Nat /\ m <= MaxAttempts * (r + 1) /\ (r + 1) - 1 = r
      /\ made[j] \in Nat /\ made[j] <= m
      /\ \A q \in DOMAIN slots : calls[j][q] \in Nat /\ calls[j][q] <= r
  BY <1>1, Bounds DEF Numbers, Within
<1>4. MaxAttempts \in Nat
  BY RouteAssumption
<1>5. CASE status'[j] = "queued" /\ run'[j] = r + 1
  <2>1. Numbers(j)'
    BY <1>2, <1>3, <1>5 DEF Numbers
  <2>2. Within(j)'
    <3>1. made[j] <= MaxAttempts * (r + 1)
      <4>1. MaxAttempts * (r + 1) \in Nat
        BY <1>3, Bounds, <1>4
      <4>. QED BY <1>3, <4>1
    <3>. QED BY <3>1, <1>3, <1>5 DEF Within
  <2>3. SoFar(j)' = m
    <3>1. SoFar(j)' = MaxAttempts * ((r + 1) - 1) + 0
      BY <1>2, <1>5 DEF SoFar
    <3>. QED BY <3>1, <1>3
  <2>4. \A q \in DOMAIN slots : Before(j, q)'
    BY <1>3, <1>5 DEF Before
  <2>. QED BY <2>1, <2>2, <2>3, <2>4, <1>2, <1>3, <1>4, <1>5 DEF Spent
<1>6. CASE status'[j] = "failed" /\ run'[j] = r
  <2>1. Numbers(j)'
    BY <1>2, <1>3, <1>6 DEF Numbers
  <2>2. Within(j)'
    BY <1>3, <1>6 DEF Within
  <2>. QED BY <2>1, <2>2, <1>2, <1>4, <1>6 DEF Spent
<1>. QED BY <1>2, <1>5, <1>6

\* A job that does not call has no slot.
LEMMA NoCallNoSlot ==
  ASSUME NEW j \in Job, ~Calling(j)', \A p \in DOMAIN slots' : j \notin slots'[p]
  PROVE  AtStage(j)' /\ Slotted(j)'
  BY DEF AtStage, Slotted

LEMMA RouteEnds ==
  ASSUME RouteInv, NEW j \in Job, NEW retryable, NEW p, ~Calling(j), last[j].fallback, EndRoute(j, retryable, p),
         UNCHANGED <<enabled, platform, call, last, slots, calls, made>>
  PROVE  Fixed /\ Others(j) /\ JobInv(j)'
<1>1. Shape /\ Slotted(j) /\ \A q \in DOMAIN slots : slots[q] \subseteq Job
  BY DEF RouteInv, JobInv
<1>2. Numbers(j)' /\ Within(j)' /\ Spent(j)'
  BY EndedWithin
<1>3. Fixed
  BY <1>1, EndRouteOthers, ShapeKept DEF Shape
<1>4. Others(j)
  BY <1>1, EndRouteOthers DEF Others, Same
<1>5. status'[j] \in {"queued", "failed"}
  BY <1>1, EndRouteOthers
<1>6. AtStage(j)' /\ Slotted(j)'
  BY <1>1, <1>5, NoCallNoSlot DEF Calling, Slotted
<1>7. LastWord(j)'
  BY DEF LastWord
<1>. QED BY <1>2, <1>3, <1>4, <1>6, <1>7 DEF JobInv

LEMMA RankKeeps ==
  ASSUME RouteInv, NEW j \in Job, Rank(j) PROVE Fixed /\ Others(j) /\ JobInv(j)'
<1>1. Shape /\ JobInv(j) /\ status[j] = "queued" /\ last[j].fallback
  BY DEF RouteInv, Rank, JobInv, LastWord
<1>2. PICK allowed \in SUBSET Eligible(j), unavailable \in BOOLEAN : \E ranked \in SUBSET allowed :
        IF ranked # {}
        THEN /\ status' = [status EXCEPT ![j] = "ranked"] /\ left' = [left EXCEPT ![j] = ranked]
             /\ UNCHANGED <<run, attempts, signal>>
        ELSE EndRoute(j, ~(Manifest(j) # {} /\ allowed = {} /\ ~unavailable), "none")
  BY DEF Rank
<1>3. PICK ranked \in SUBSET allowed :
        IF ranked # {}
        THEN /\ status' = [status EXCEPT ![j] = "ranked"] /\ left' = [left EXCEPT ![j] = ranked]
             /\ UNCHANGED <<run, attempts, signal>>
        ELSE EndRoute(j, ~(Manifest(j) # {} /\ allowed = {} /\ ~unavailable), "none")
  BY <1>2
<1>4. UNCHANGED <<enabled, platform, call, last, slots, calls, made>>
  BY DEF Rank
<1>5. CASE ranked = {}
  BY <1>1, <1>3, <1>4, <1>5, RouteEnds DEF Calling
<1>6. CASE ranked # {}
  <2>1. /\ status' = [status EXCEPT ![j] = "ranked"] /\ left' = [left EXCEPT ![j] = ranked]
        /\ UNCHANGED <<run, attempts, signal>>
    BY <1>3, <1>6
  <2>2. Fixed
    BY <1>1, <1>4, <2>1, ShapeKept DEF Shape, RouteInv
  <2>3. Others(j)
    BY <1>1, <1>4, <2>1 DEF Others, Same, Shape
  <2>4. status'[j] = "ranked" /\ left'[j] = ranked /\ ranked \subseteq DOMAIN slots
    BY <1>1, <2>1, ManifestHasSlots DEF Shape
  <2>5. Numbers(j)' /\ Within(j)' /\ LastWord(j)'
    BY <1>1, <1>4, <2>1 DEF JobInv, Numbers, Within, LastWord
  <2>6. AtStage(j)' /\ Slotted(j)'
    BY <1>1, <1>4, <2>4, NoCallNoSlot DEF Calling, JobInv, Slotted
  <2>7. Spent(j)'
    BY <1>1, <1>4, <2>1, <2>4 DEF JobInv, Spent, Before, SoFar
  <2>. QED BY <2>2, <2>3, <2>5, <2>6, <2>7 DEF JobInv
<1>. QED BY <1>5, <1>6

LEMMA GiveUpKeeps ==
  ASSUME RouteInv, NEW j \in Job, GiveUp(j) PROVE Fixed /\ Others(j) /\ JobInv(j)'
<1>1. status[j] = "ranked" /\ LastWord(j)
  BY DEF GiveUp, RouteInv, JobInv
<1>2. UNCHANGED <<enabled, platform, call, last, slots, calls, made>>
  BY DEF GiveUp
<1>3. EndRoute(j, TRUE, "none") \/ EndRoute(j, last[j].retryable, last[j].provider)
  BY DEF GiveUp
<1>. QED BY <1>1, <1>2, <1>3, RouteEnds DEF LastWord, Calling

LEMMA SkipKeeps ==
  ASSUME RouteInv, NEW j \in Job, NEW p, Skip(j, p) PROVE Fixed /\ Others(j) /\ JobInv(j)'
<1>1. Shape /\ JobInv(j) /\ status[j] = "ranked"
  BY DEF RouteInv, Skip, InLoop
<1>2. /\ left' = [left EXCEPT ![j] = @ \ {p}]
      /\ UNCHANGED <<enabled, platform, status, run, attempts, call, signal, last, slots, calls, made>>
  BY DEF Skip
<1>3. Fixed
  BY <1>1, <1>2, ShapeKept DEF Shape, RouteInv
<1>4. Others(j)
  BY <1>1, <1>2 DEF Others, Same, Shape
<1>5. left'[j] = left[j] \ {p}
  BY <1>1, <1>2 DEF Shape
<1>6. Numbers(j)' /\ Within(j)' /\ LastWord(j)' /\ AtStage(j)' /\ Slotted(j)'
  BY <1>1, <1>2 DEF JobInv, Numbers, Within, LastWord, AtStage, Slotted, Calling
<1>7. Spent(j)'
  BY <1>1, <1>2, <1>5 DEF JobInv, Spent, Before, SoFar
<1>. QED BY <1>3, <1>4, <1>6, <1>7 DEF JobInv

LEMMA CutKeeps ==
  ASSUME RouteInv, NEW j \in Job, NEW by, Cut(j, by) PROVE Fixed /\ \A i \in Job : Same(i)
<1>1. Shape
  BY DEF RouteInv
<1>2. /\ signal' = [signal EXCEPT ![j] = by]
      /\ UNCHANGED <<enabled, platform, status, run, left, attempts, call, last, slots, calls, made>>
  BY DEF Cut
<1>3. Fixed
  BY <1>1, <1>2, ShapeKept DEF Shape, RouteInv
<1>. QED BY <1>2, <1>3 DEF Same

\* A call is of a provider the run has not called, within its attempts, and
\* starts before any gate.
LEMMA CallKeeps ==
  ASSUME RouteInv, NEW j \in Job, NEW p, Call(j, p) PROVE Fixed /\ Others(j) /\ JobInv(j)'
<1>. DEFINE c == [provider |-> p, stage |-> "start", polls |-> 0, late |-> signal[j] # "live"]
<1>1. Shape /\ JobInv(j) /\ status[j] = "ranked" /\ attempts[j] < MaxAttempts /\ p \in left[j]
  BY DEF RouteInv, Call, InLoop
<1>2. /\ left' = [left EXCEPT ![j] = @ \ {p}] /\ status' = [status EXCEPT ![j] = "calling"]
      /\ call' = [call EXCEPT ![j] = c]
      /\ calls' = [calls EXCEPT ![j] = [calls[j] EXCEPT ![p] = @ + 1]] /\ made' = [made EXCEPT ![j] = @ + 1]
      /\ UNCHANGED <<enabled, platform, run, attempts, signal, last, slots>>
  BY DEF Call
<1>3. c.provider = p /\ c.stage = "start"
  OBVIOUS
<1>. HIDE DEF c
<1>4. p \in DOMAIN slots
  BY <1>1 DEF JobInv, Spent
<1>5. /\ left'[j] = left[j] \ {p} /\ status'[j] = "calling" /\ call'[j] = c /\ made'[j] = made[j] + 1
      /\ calls'[j] = [calls[j] EXCEPT ![p] = @ + 1]
  <2>1. left'[j] = left[j] \ {p} /\ status'[j] = "calling" /\ call'[j] = c /\ made'[j] = made[j] + 1
    BY <1>1, <1>2 DEF Shape
  <2>2. calls' = [calls EXCEPT ![j] = [calls[j] EXCEPT ![p] = @ + 1]]
    BY <1>2
  <2>3. calls'[j] = [calls[j] EXCEPT ![p] = @ + 1]
    BY <1>1, <2>2 DEF Shape
  <2>. QED BY <2>1, <2>3
<1>6. DOMAIN calls'[j] = DOMAIN slots
  BY <1>1, <1>5 DEF Shape
<1>7. Fixed
  <2>1. \A i \in Job : DOMAIN calls'[i] = DOMAIN calls[i]
    BY <1>1, <1>2, <1>6 DEF Shape
  <2>2. /\ DOMAIN status' = Job /\ DOMAIN run' = Job /\ DOMAIN left' = Job /\ DOMAIN attempts' = Job
        /\ DOMAIN call' = Job /\ DOMAIN signal' = Job /\ DOMAIN last' = Job /\ DOMAIN calls' = Job
        /\ DOMAIN made' = Job
    BY <1>1, <1>2 DEF Shape
  <2>. QED BY <2>1, <2>2, <1>2, ShapeKept DEF RouteInv
<1>8. Others(j)
  BY <1>1, <1>2 DEF Others, Same, Shape
<1>9. \A q \in DOMAIN slots : calls'[j][q] = IF q = p THEN calls[j][p] + 1 ELSE calls[j][q]
  BY <1>1, <1>4, <1>5 DEF Shape
<1>10. /\ run[j] \in Nat \ {0} /\ made[j] \in Nat /\ attempts[j] \in Nat /\ MaxAttempts \in Nat
       /\ \A q \in DOMAIN slots : calls[j][q] \in Nat
  BY <1>1, RouteAssumption DEF JobInv, Numbers
<1>11. Numbers(j)'
  BY <1>2, <1>5, <1>9, <1>10 DEF Numbers
<1>12. calls[j][p] + 1 <= run[j]
  BY <1>1, <1>4, <1>10 DEF JobInv, Spent, Before
<1>13. made[j] + 1 <= SoFar(j) + 1 /\ made[j] + 1 <= MaxAttempts * run[j]
  <2>1. made[j] <= SoFar(j)
    BY <1>1 DEF JobInv, Spent
  <2>. DEFINE n == MaxAttempts * (run[j] - 1)
  <2>2. n \in Nat /\ n + MaxAttempts = MaxAttempts * run[j]
    BY <1>10, Bounds, Budget
  <2>3. SoFar(j) = n + attempts[j]
    BY DEF SoFar
  <2>. HIDE DEF n
  <2>. QED BY <2>1, <2>2, <2>3, <1>1, <1>10
<1>14. Within(j)'
  BY <1>1, <1>2, <1>5, <1>9, <1>12, <1>13 DEF JobInv, Within
<1>15. Spent(j)'
  <2>1. SoFar(j)' = SoFar(j)
    BY <1>2 DEF SoFar
  <2>2. \A q \in left'[j] : Before(j, q)'
    BY <1>1, <1>2, <1>5, <1>9 DEF JobInv, Spent, Before
  <2>3. left'[j] \subseteq DOMAIN slots /\ attempts[j] <= MaxAttempts
    BY <1>1, <1>5 DEF JobInv, Spent
  <2>. QED BY <2>1, <2>2, <2>3, <1>1, <1>2, <1>5, <1>13 DEF Spent
<1>16. LastWord(j)'
  BY <1>1, <1>2 DEF JobInv, LastWord
<1>17. Program(p, AdapterOf(j)')
  <2>1. AdapterOf(j)' = AdapterTable[platform[j]][p]
    BY <1>2, <1>3, <1>5 DEF AdapterOf
  <2>2. PICK w \in Workloads : /\ enabled = w.enabled /\ platform = [i \in Job |-> w.platform]
                               /\ DOMAIN slots = {q \in w.enabled : w.platform \in Serves[q]}
    BY <1>1 DEF Shape
  <2>3. p \in Provider
    BY <2>2, <1>4, WorkloadAssumption
  <2>4. platform[j] \in DOMAIN AdapterTable
    BY <2>2 DEF AdapterTable
  <2>. QED BY <2>1, <2>3, <2>4, AdaptersArePrograms DEF Programs
<1>18. AtStage(j)' /\ Slotted(j)'
  <2>1. "start" \in DOMAIN AdapterOf(j)'.steps /\ ~Past(p, AdapterOf(j)', "start")
    BY <1>17 DEF Program
  <2>2. \A q \in DOMAIN slots : j \notin slots[q]
    BY <1>1 DEF JobInv, Slotted, Calling
  <2>3. AtStage(j)'
    BY <2>1, <1>2, <1>3, <1>4, <1>5 DEF AtStage
  <2>4. Slotted(j)'
    BY <2>1, <2>2, <1>2, <1>3, <1>5 DEF Slotted
  <2>. QED BY <2>3, <2>4
<1>. QED BY <1>7, <1>8, <1>11, <1>14, <1>15, <1>16, <1>18 DEF JobInv

-----------------------------------------------------------------------------
(* The end of a call.                                                      *)

LEMMA NamedCoherent ==
  ASSUME NEW j, NEW o, FallsBack(o) PROVE FallsBack(Named(j, o))
  BY DEF Named, FallsBack, TimedOut, Failure

\* A failure gives the slot back, and lets the loop go on only with leave.
LEMMA FailsKeeps ==
  ASSUME RouteInv, NEW j \in Job, NEW o, Calling(j), FallsBack(o), Fails(j, o),
         UNCHANGED <<enabled, platform, calls, made>>
  PROVE  Fixed /\ Others(j) /\ JobInv(j)'
<1>. DEFINE e == Named(j, o)
            l == [provider |-> call[j].provider, retryable |-> e.retryable, fallback |-> e.fallback]
<1>1. Shape /\ JobInv(j) /\ status[j] = "calling"
  BY DEF RouteInv, Calling
<1>2. /\ Leave(j) /\ last' = [last EXCEPT ![j] = l]
      /\ IF signal[j] = "route" \/ ~e.fallback
         THEN EndRoute(j, e.retryable, call[j].provider)
         ELSE /\ status' = [status EXCEPT ![j] = "ranked"]
              /\ attempts' = [attempts EXCEPT ![j] = @ + 1]
              /\ signal' = [signal EXCEPT ![j] = "live"]
              /\ UNCHANGED <<run, left>>
  BY DEF Fails
<1>3. l.fallback = e.fallback /\ (e.retryable => e.fallback)
  BY NamedCoherent DEF FallsBack
<1>. HIDE DEF e, l
<1>4. /\ DOMAIN call' = Job /\ DOMAIN slots' = DOMAIN slots
      /\ \A p \in DOMAIN slots : slots'[p] \subseteq Job /\ j \notin slots'[p]
      /\ \A i \in Job \ {j} : call'[i] = call[i] /\ \A p \in DOMAIN slots : i \in slots'[p] <=> i \in slots[p]
  BY <1>2, LeaveOthers
<1>5. DOMAIN last' = Job /\ last'[j] = l /\ \A i \in Job \ {j} : last'[i] = last[i]
  BY <1>1, <1>2 DEF Shape
<1>6. CASE signal[j] = "route" \/ ~e.fallback
  <2>1. EndRoute(j, e.retryable, call[j].provider)
    BY <1>2, <1>6
  <2>2. Numbers(j)' /\ Within(j)' /\ Spent(j)'
    BY <2>1, <1>4, EndedWithin
  <2>3. Fixed
    BY <1>1, <1>4, <1>5, <2>1, EndRouteOthers, ShapeKept DEF Shape
  <2>4. Others(j)
    BY <1>1, <1>4, <1>5, <2>1, EndRouteOthers DEF Others, Same
  <2>5. status'[j] = "failed" \/ (status'[j] = "queued" /\ e.retryable)
    BY <1>1, <2>1, EndRouteOthers
  <2>6. LastWord(j)'
    BY <1>3, <1>5, <2>5 DEF LastWord
  <2>7. AtStage(j)' /\ Slotted(j)'
    BY <2>5, <1>4, NoCallNoSlot DEF Calling
  <2>. QED BY <2>2, <2>3, <2>4, <2>6, <2>7 DEF JobInv
<1>7. CASE ~(signal[j] = "route" \/ ~e.fallback)
  <2>1. /\ status' = [status EXCEPT ![j] = "ranked"] /\ attempts' = [attempts EXCEPT ![j] = @ + 1]
        /\ signal' = [signal EXCEPT ![j] = "live"] /\ UNCHANGED <<run, left>>
    BY <1>2, <1>7
  <2>2. status'[j] = "ranked" /\ attempts'[j] = attempts[j] + 1
    BY <1>1, <2>1 DEF Shape
  <2>3. Fixed
    BY <1>1, <1>4, <1>5, <2>1, ShapeKept DEF Shape
  <2>4. Others(j)
    BY <1>1, <1>4, <1>5, <2>1 DEF Others, Same, Shape
  <2>5. Numbers(j)' /\ Within(j)'
    BY <1>1, <1>4, <2>1, <2>2 DEF JobInv, Numbers, Within
  <2>6. LastWord(j)'
    BY <1>3, <1>5, <1>7 DEF LastWord
  <2>7. AtStage(j)' /\ Slotted(j)'
    BY <2>2, <1>4, NoCallNoSlot DEF Calling
  <2>8. Spent(j)'
    <3>. DEFINE n == MaxAttempts * (run[j] - 1)
    <3>1. /\ n \in Nat /\ attempts[j] \in Nat /\ made[j] \in Nat /\ MaxAttempts \in Nat
          /\ attempts[j] < MaxAttempts /\ made[j] <= (n + attempts[j]) + 1
      BY <1>1, Bounds, RouteAssumption DEF JobInv, Numbers, Spent, SoFar
    <3>2. SoFar(j)' = n + (attempts[j] + 1)
      BY <2>1, <2>2 DEF SoFar
    <3>. HIDE DEF n
    <3>3. made[j] <= n + (attempts[j] + 1) /\ attempts[j] + 1 <= MaxAttempts
      BY <3>1
    <3>4. left[j] \subseteq DOMAIN slots /\ \A p \in left[j] : Before(j, p)'
      BY <1>1, <2>1 DEF JobInv, Spent, Before
    <3>. QED BY <3>2, <3>3, <3>4, <1>4, <2>1, <2>2 DEF Spent
  <2>. QED BY <2>3, <2>4, <2>5, <2>6, <2>7, <2>8 DEF JobInv
<1>. QED BY <1>6, <1>7

LEMMA SucceedsKeeps ==
  ASSUME RouteInv, NEW j \in Job, Calling(j), Succeeds(j), UNCHANGED <<enabled, platform, calls, made>>
  PROVE  Fixed /\ Others(j) /\ JobInv(j)'
<1>1. Shape /\ JobInv(j) /\ status[j] = "calling"
  BY DEF RouteInv, Calling
<1>2. /\ Leave(j) /\ status' = [status EXCEPT ![j] = "resolved"]
      /\ UNCHANGED <<run, left, attempts, signal, last>>
  BY DEF Succeeds
<1>3. /\ DOMAIN call' = Job /\ DOMAIN slots' = DOMAIN slots
      /\ \A p \in DOMAIN slots : slots'[p] \subseteq Job /\ j \notin slots'[p]
      /\ \A i \in Job \ {j} : call'[i] = call[i] /\ \A p \in DOMAIN slots : i \in slots'[p] <=> i \in slots[p]
  BY <1>2, LeaveOthers
<1>4. status'[j] = "resolved"
  BY <1>1, <1>2 DEF Shape
<1>5. Fixed
  BY <1>1, <1>2, <1>3, ShapeKept DEF Shape
<1>6. Others(j)
  BY <1>1, <1>2, <1>3 DEF Others, Same, Shape
<1>7. Numbers(j)' /\ Within(j)' /\ LastWord(j)'
  BY <1>1, <1>2, <1>3 DEF JobInv, Numbers, Within, LastWord
<1>8. AtStage(j)' /\ Slotted(j)'
  BY <1>3, <1>4, NoCallNoSlot DEF Calling
<1>9. Spent(j)'
  BY <1>1, <1>2, <1>3, <1>4 DEF JobInv, Spent
<1>. QED BY <1>5, <1>6, <1>7, <1>8, <1>9 DEF JobInv

-----------------------------------------------------------------------------
(* A call that goes on.                                                    *)

LEMMA MovesOn ==
  ASSUME RouteInv, NEW j \in Job, NEW s, Calling(j), Proceed(j, s), s \in DOMAIN AdapterOf(j).steps,
         UNCHANGED <<enabled, platform, calls, made>>,
         DOMAIN slots' = DOMAIN slots, \A p \in DOMAIN slots : slots'[p] \subseteq Job,
         \A i \in Job \ {j} : \A p \in DOMAIN slots : i \in slots'[p] <=> i \in slots[p],
         \A p \in DOMAIN slots : j \in slots'[p] <=> call[j].provider = p /\ Past(p, AdapterOf(j), s)
  PROVE  Fixed /\ Others(j) /\ JobInv(j)'
<1>. DEFINE c == [provider |-> call[j].provider, stage |-> s, late |-> signal[j] # "live",
                  polls |-> IF s = call[j].stage THEN call[j].polls + 1 ELSE 0]
<1>1. Shape /\ JobInv(j) /\ status[j] = "calling"
  BY DEF RouteInv, Calling
<1>2. call' = [call EXCEPT ![j] = c] /\ UNCHANGED <<status, run, left, attempts, signal, last>>
  BY DEF Proceed
<1>3. c.provider = call[j].provider /\ c.stage = s
  OBVIOUS
<1>. HIDE DEF c
<1>4. call'[j] = c /\ \A i \in Job \ {j} : call'[i] = call[i]
  BY <1>1, <1>2 DEF Shape
<1>5. Fixed
  BY <1>1, <1>2, ShapeKept DEF Shape
<1>6. Others(j)
  BY <1>2, <1>4 DEF Others, Same
<1>7. Numbers(j)' /\ Within(j)' /\ LastWord(j)' /\ Spent(j)'
  BY <1>1, <1>2 DEF JobInv, Numbers, Within, LastWord, Spent, Before, SoFar
<1>8. AdapterOf(j)' = AdapterOf(j) /\ Calling(j)'
  BY <1>1, <1>2, <1>3, <1>4 DEF AdapterOf, Calling
<1>9. AtStage(j)'
  BY <1>1, <1>3, <1>4, <1>8 DEF JobInv, AtStage
<1>10. Slotted(j)'
  BY <1>3, <1>4, <1>8 DEF Slotted
<1>. QED BY <1>5, <1>6, <1>7, <1>9, <1>10 DEF JobInv

LEMMA StepKeeps ==
  ASSUME RouteInv, NEW j \in Job, Step(j) PROVE Fixed /\ Others(j) /\ JobInv(j)'
<1>. DEFINE A == AdapterOf(j)
            s == call[j].stage
<1>1. Shape /\ JobInv(j) /\ Calling(j) /\ s \notin Gates /\ UNCHANGED <<enabled, platform, calls, made>>
  BY DEF RouteInv, Step, Gates
<1>2. PICK o \in A.steps[s] :
        CASE o = Resolved -> Succeeds(j) \/ Fails(j, InvalidOnce)
          [] o.to \in {"failed", "raw"} -> Fails(j, o)
          [] OTHER -> /\ o.to = call[j].stage => call[j].polls < PollBound
                      /\ Proceed(j, o.to) /\ UNCHANGED slots
  BY DEF Step
<1>3. Program(call[j].provider, A) /\ call[j].provider \in DOMAIN slots /\ s \in DOMAIN A.steps
  BY <1>1, CallRuns DEF JobInv
<1>4. Leads(o, {t \in DOMAIN A.steps : Past(call[j].provider, A, t) <=> Past(call[j].provider, A, s)})
  BY <1>1, <1>2, <1>3 DEF Program
<1>5. CASE o = Resolved
  <2>1. FallsBack(InvalidOnce)
    BY DEF FallsBack, InvalidOnce, Failure
  <2>2. Resolved.to = "resolved"
    BY DEF Resolved, Go
  <2>3. Succeeds(j) \/ Fails(j, InvalidOnce)
    BY <1>2, <1>5, <2>2
  <2>. QED BY <2>1, <2>3, <1>1, SucceedsKeeps, FailsKeeps
<1>6. CASE o # Resolved /\ o.to \in {"failed", "raw"}
  <2>1. Fails(j, o) /\ FallsBack(o)
    BY <1>2, <1>4, <1>6 DEF Leads
  <2>. QED BY <2>1, <1>1, FailsKeeps
<1>7. CASE o # Resolved /\ o.to \notin {"failed", "raw"}
  <2>1. Proceed(j, o.to) /\ UNCHANGED slots
    BY <1>2, <1>7
  <2>2. o.to \in DOMAIN A.steps /\ (Past(call[j].provider, A, o.to) <=> Past(call[j].provider, A, s))
    BY <1>4, <1>7 DEF Leads
  <2>3. \A p \in DOMAIN slots : j \in slots'[p] <=> call[j].provider = p /\ Past(p, A, o.to)
    BY <1>1, <2>1, <2>2 DEF JobInv, Slotted
  <2>. HIDE DEF A
  <2>4. /\ DOMAIN slots' = DOMAIN slots /\ \A p \in DOMAIN slots : slots'[p] \subseteq Job
        /\ \A i \in Job \ {j} : \A p \in DOMAIN slots : i \in slots'[p] <=> i \in slots[p]
    BY <2>1 DEF RouteInv
  <2>. QED BY <2>1, <2>2, <2>3, <2>4, <1>1, MovesOn DEF A
<1>. QED BY <1>5, <1>6, <1>7

\* A gate takes a free slot, and leads past itself.
LEMMA AdmitKeeps ==
  ASSUME RouteInv, NEW j \in Job, Admit(j) PROVE Fixed /\ Others(j) /\ JobInv(j)'
<1>. DEFINE A == AdapterOf(j)
            s == call[j].stage
            q == call[j].provider
<1>1. /\ Shape /\ JobInv(j) /\ Calling(j) /\ s \in Gates /\ UNCHANGED <<enabled, platform, calls, made>>
      /\ slots[q] = {} /\ slots' = [slots EXCEPT ![q] = @ \cup {j}]
  BY DEF RouteInv, Admit, Gates
<1>2. PICK o \in A.steps[s] : Proceed(j, o.to)
  BY DEF Admit
<1>3. Program(q, A) /\ q \in DOMAIN slots /\ s \in DOMAIN A.steps
  BY <1>1, CallRuns DEF JobInv
<1>4. ~Past(q, A, s) /\ o.to \in DOMAIN A.steps /\ Past(q, A, o.to)
  BY <1>1, <1>2, <1>3 DEF Program
<1>5. \A p \in DOMAIN slots : slots'[p] = IF p = q THEN slots[p] \cup {j} ELSE slots[p]
  BY <1>1
<1>6. \A p \in DOMAIN slots : j \in slots'[p] <=> q = p /\ Past(p, A, o.to)
  BY <1>1, <1>4, <1>5 DEF JobInv, Slotted
<1>7. /\ DOMAIN slots' = DOMAIN slots /\ \A p \in DOMAIN slots : slots'[p] \subseteq Job
      /\ \A i \in Job \ {j} : \A p \in DOMAIN slots : i \in slots'[p] <=> i \in slots[p]
  BY <1>1, <1>5 DEF RouteInv
<1>. QED BY <1>1, <1>2, <1>4, <1>6, <1>7, MovesOn

\* A refusal at the gate, an abort and a broken exchange are failures.
LEMMA FaultsKeep ==
  ASSUME RouteInv, NEW j \in Job, Refuse(j) \/ Interrupt(j) \/ Break(j) PROVE Fixed /\ Others(j) /\ JobInv(j)'
<1>1. Calling(j) /\ UNCHANGED <<enabled, platform, calls, made>>
  BY DEF Refuse, Interrupt, Break
<1>2. Shape /\ AtStage(j)
  BY DEF RouteInv, JobInv
<1>3. FallsBack(AdapterOf(j).aborted) /\ FallsBack(AdapterOf(j).broken)
  BY <1>1, <1>2, CallRuns DEF Program
<1>4. FallsBack(Unavailable) /\ FallsBack(RateLimited)
  BY DEF FallsBack, Unavailable, RateLimited, Failure
<1>5. PICK o : FallsBack(o) /\ Fails(j, o)
  BY <1>3, <1>4 DEF Refuse, Interrupt, Break
<1>. QED BY <1>1, <1>5, FailsKeeps

LEMMA JobStepKeeps ==
  ASSUME RouteInv, NEW j \in Job, JobStep(j) PROVE RouteInv'
<1>1. CASE \E by \in {"provider", "route"} : Cut(j, by)
  <2>1. Fixed /\ \A i \in Job : Same(i)
    BY <1>1, CutKeeps
  <2>2. \A i \in Job : JobInv(i)'
    BY <2>1, SameJobKeeps DEF RouteInv
  <2>. QED BY <2>1, <2>2 DEF RouteInv, Fixed
<1>2. CASE ~\E by \in {"provider", "route"} : Cut(j, by)
  <2>1. Fixed /\ Others(j) /\ JobInv(j)'
    BY <1>2, RankKeeps, GiveUpKeeps, SkipKeeps, CallKeeps, StepKeeps, AdmitKeeps, FaultsKeep DEF JobStep
  <2>2. \A i \in Job \ {j} : JobInv(i)'
    BY <2>1, SameJobKeeps DEF RouteInv, Others
  <2>. QED BY <2>1, <2>2 DEF RouteInv, Fixed
<1>. QED BY <1>1, <1>2

\* A worker that starts, and a step of none, leave the jobs alone.
LEMMA QuietKeeps ==
  ASSUME RouteInv, UNCHANGED <<enabled, platform, status, run, left, attempts, call, signal, last, slots, calls, made>>
  PROVE  RouteInv'
<1>1. Fixed
  BY ShapeKept DEF RouteInv, Shape
<1>2. \A i \in Job : Same(i)
  BY DEF Same
<1>3. \A i \in Job : JobInv(i)'
  BY <1>1, <1>2, SameJobKeeps DEF RouteInv
<1>. QED BY <1>1, <1>3 DEF RouteInv, Fixed

LEMMA NextRoute == RouteInv /\ [Next]_vars => RouteInv'
<1>. SUFFICES ASSUME RouteInv, [Next]_vars PROVE RouteInv'
  OBVIOUS
<1>1. CASE Start \/ UNCHANGED vars
  BY <1>1, QuietKeeps DEF Start, vars
<1>2. CASE \E j \in Job : JobStep(j)
  BY <1>2, JobStepKeeps
<1>. QED BY <1>1, <1>2 DEF Next, JobStep

LEMMA InitRoute == Init => RouteInv
<1>. SUFFICES ASSUME Given PROVE RouteInv
  BY DEF Init
<1>1. PICK w \in Workloads :
        /\ enabled = w.enabled /\ platform = [j \in Job |-> w.platform]
        /\ status = [j \in Job |-> IF j \in w.jobs THEN "queued" ELSE "absent"]
        /\ LET asked == {p \in w.enabled : w.platform \in Serves[p]} IN
             slots = [p \in asked |-> {}] /\ calls = [j \in Job |-> [p \in asked |-> 0]]
  BY DEF Given
<1>. DEFINE asked == {p \in w.enabled : w.platform \in Serves[p]}
<1>2. slots = [p \in asked |-> {}] /\ calls = [j \in Job |-> [p \in asked |-> 0]]
  BY <1>1
<1>. HIDE DEF asked
<1>3. /\ run = [j \in Job |-> 1] /\ left = [j \in Job |-> {}] /\ attempts = [j \in Job |-> 0]
      /\ call = [j \in Job |-> NoCall] /\ signal = [j \in Job |-> "live"] /\ last = [j \in Job |-> NoAttempt]
      /\ made = [j \in Job |-> 0]
  BY DEF Given
<1>4. Shape
  <2>1. DOMAIN slots = {p \in w.enabled : w.platform \in Serves[p]}
    BY <1>2 DEF asked
  <2>2. \A j \in Job : DOMAIN calls[j] = DOMAIN slots
    BY <1>2
  <2>. QED BY <1>1, <1>2, <1>3, <2>1, <2>2 DEF Shape
<1>5. ASSUME NEW j \in Job PROVE JobInv(j)
  <2>1. /\ run[j] = 1 /\ left[j] = {} /\ attempts[j] = 0 /\ made[j] = 0 /\ last[j] = NoAttempt
        /\ status[j] \in {"queued", "absent"} /\ \A p \in DOMAIN slots : calls[j][p] = 0 /\ slots[p] = {}
    BY <1>1, <1>2, <1>3
  <2>2. MaxAttempts \in Nat /\ MaxAttempts * 1 = MaxAttempts /\ MaxAttempts * (1 - 1) = 0
    BY RouteAssumption
  <2>3. Numbers(j) /\ Within(j)
    BY <2>1, <2>2 DEF Numbers, Within
  <2>4. Spent(j)
    BY <2>1, <2>2 DEF Spent, Before, SoFar
  <2>5. LastWord(j)
    BY <2>1 DEF LastWord, NoAttempt
  <2>6. AtStage(j) /\ Slotted(j)
    BY <2>1 DEF AtStage, Slotted, Calling
  <2>. QED BY <2>3, <2>4, <2>5, <2>6 DEF JobInv
<1>. QED BY <1>2, <1>4, <1>5 DEF RouteInv

-----------------------------------------------------------------------------
(* The theorems.                                                           *)

\* The inductive invariant of routing: a job that calls stands at a stage of
\* its adapter's program and holds a slot exactly past the gate, its calls are
\* within the budget of the runs it has had, and its last attempt, if final,
\* has ended it.
THEOREM RouteInvariant == Spec => []RouteInv
  BY InitRoute, NextRoute, PTL DEF Spec

\* Whichever way the calls of an adapter end, its slots are those of the calls
\* past its gate; and over all runs of a job, fallbacks and queue retries
\* together, a provider is called at most once a run and a run calls at most
\* MaxAttempts (ProviderRouter's loop, the finally blocks of the adapters).
THEOREM SlotsAndCallsAreBounded == Spec => []CallsAreBounded
<1>1. RouteInv => CallsAreBounded
  <2>. SUFFICES ASSUME RouteInv PROVE SlotsMatchCalls /\ CallsWithinBudget
    BY DEF CallsAreBounded
  <2>1. CallsWithinBudget
    BY DEF RouteInv, JobInv, Within, CallsWithinBudget
  <2>2. ASSUME NEW p \in DOMAIN slots
        PROVE  slots[p] = {j \in Job : Calling(j) /\ call[j].provider = p /\ Past(p, AdapterOf(j), call[j].stage)}
    BY DEF RouteInv, JobInv, Slotted
  <2>3. SlotsMatchCalls
    BY <2>2 DEF SlotsMatchCalls, Past, Gates, BeforeGate
  <2>. QED BY <2>1, <2>3
<1>. QED BY <1>1, RouteInvariant, PTL

\* Once a provider has said that no other would help, its job calls none again:
\* neither the router falls back nor the queue runs the job once more.
THEOREM FinalWordsEndJobs == Spec => FinalFailureEndsTheJob
<1>1. RouteInv /\ [Next]_vars => \A j \in Job : ~last[j].fallback => UNCHANGED calls[j]
  <2>. SUFFICES ASSUME RouteInv, [Next]_vars, NEW j \in Job, ~last[j].fallback PROVE calls'[j] = calls[j]
    OBVIOUS
  <2>1. status[j] = "failed" /\ DOMAIN calls = Job
    BY DEF RouteInv, JobInv, LastWord, Shape
  <2>2. calls' = calls \/ \E i \in Job, p \in DOMAIN slots : Call(i, p)
    BY DEF Next, vars, Start, Rank, GiveUp, Skip, Cut, Step, Admit, Refuse, Interrupt, Break
  <2>3. ASSUME NEW i \in Job, NEW p \in DOMAIN slots, Call(i, p) PROVE calls'[j] = calls[j]
    <3>1. i # j
      BY <2>1, <2>3 DEF Call, InLoop
    <3>. QED BY <3>1, <2>1, <2>3 DEF Call
  <2>. QED BY <2>2, <2>3
<1>. QED BY <1>1, RouteInvariant, PTL DEF Spec, FinalFailureEndsTheJob

-----------------------------------------------------------------------------
(* The gateway: what a visit has reached and sent, from its ticket to its   *)
(* end, which is its last.                                                  *)

Delivered(v) ==
  /\ v.answer \in {"plan", "redirect"} => v.phase = "closed" /\ v.outcome = "passed"
  /\ v.outcome = "passed" /\ v.answer = "body" => v.total \in 1 .. ByteLimit /\ v.declared \in {v.total, Undeclared}
  /\ v.phase # "closed" => v.outcome = "none" /\ v.answer = "none"
  /\ v.total <= ByteLimit
  /\ v.reached \subseteq {"reviewed"}

GatewayInv == GatewayTypeOK /\ \A d \in Downloads : Delivered(visit[d])

\* A visit that has not ended becomes another that may stand.
Visiting(d) ==
  /\ visit[d].phase # "closed"
  /\ \E w \in Visits(d) : Delivered(w) /\ visit' = [visit EXCEPT ![d] = w]

OpenPhases == {"issued", "file", "plan", "target", "relay", "body"}

LEMMA VisitFields ==
  ASSUME PageWorkload, NEW d \in Downloads, NEW v \in Visits(d)
  PROVE  /\ v.reached \subseteq Addresses /\ v.hops \in 0 .. HopLimit
         /\ v.declared \in Sizes \cup {Undeclared} /\ v.total \in Sizes
         /\ v.outcome \in Verdicts /\ v.answer \in Answers
         /\ v.phase \in {"none", "closed"} \cup OpenPhases
         /\ v.phase \in OpenPhases =>
              /\ v.candidate \in Candidates(d) /\ v.candidate.address \in Addresses
              /\ v.candidate.size \in Sizes \ {0}
  BY DEF Visits, OpenPhases, Candidates

LEMMA OpenVisits ==
  ASSUME PageWorkload, NEW d \in Downloads, NEW c \in Candidates(d), NEW phase \in OpenPhases,
         NEW reached \in SUBSET {"reviewed"}, NEW hops \in 0 .. HopLimit,
         NEW declared \in Sizes \cup {Undeclared}, NEW total \in 0 .. ByteLimit
  PROVE  /\ Underway(c, phase, reached, hops, declared, total) \in Visits(d)
         /\ Delivered(Underway(c, phase, reached, hops, declared, total))
<1>. DEFINE w == Underway(c, phase, reached, hops, declared, total)
<1>1. reached \subseteq Addresses /\ total \in Sizes /\ total <= ByteLimit
  BY DEF Addresses, Sizes, PageWorkload, GatewayAssumption
<1>2. w \in Visits(d)
  BY <1>1 DEF Visits, OpenPhases, Verdicts, Answers, Underway
<1>3. /\ w.phase = phase /\ w.reached = reached /\ w.total = total
      /\ w.outcome = "none" /\ w.answer = "none"
  BY DEF Underway
<1>. HIDE DEF w
<1>4. Delivered(w)
  BY <1>1, <1>3 DEF Delivered, OpenPhases
<1>. QED BY <1>2, <1>4 DEF w

LEMMA ClosedVisits ==
  ASSUME PageWorkload, NEW d \in Downloads,
         NEW reached \in SUBSET {"reviewed"}, NEW declared \in Sizes \cup {Undeclared},
         NEW total \in 0 .. ByteLimit, NEW outcome \in Verdicts, NEW answer \in Answers,
         answer \in {"plan", "redirect"} => outcome = "passed",
         outcome = "passed" /\ answer = "body" => total # 0 /\ declared \in {total, Undeclared}
  PROVE  /\ Closed(reached, declared, total, outcome, answer) \in Visits(d)
         /\ Delivered(Closed(reached, declared, total, outcome, answer))
<1>. DEFINE w == Closed(reached, declared, total, outcome, answer)
<1>1. reached \subseteq Addresses /\ total \in Sizes /\ 0 \in 0 .. HopLimit
  BY DEF Addresses, Sizes, PageWorkload, GatewayAssumption
<1>2. w \in Visits(d)
  BY <1>1 DEF Visits, Closed
<1>3. /\ w.phase = "closed" /\ w.reached = reached /\ w.declared = declared
      /\ w.total = total /\ w.outcome = outcome /\ w.answer = answer
  BY DEF Closed
<1>4. total # 0 => total \in 1 .. ByteLimit
  BY DEF PageWorkload, GatewayAssumption
<1>5. total <= ByteLimit
  BY DEF PageWorkload, GatewayAssumption
<1>. HIDE DEF w
<1>6. Delivered(w)
  BY <1>3, <1>4, <1>5 DEF Delivered
<1>. QED BY <1>2, <1>6 DEF w

\* A visit ends with what it had reached and sent.
LEMMA Ends ==
  ASSUME PageWorkload, GatewayInv, NEW d \in Downloads, visit[d].phase # "closed",
         NEW outcome \in Verdicts, NEW answer \in Answers \ {"plan", "redirect"}, End(d, outcome, answer),
         outcome = "passed" /\ answer = "body"
           => visit[d].total # 0 /\ visit[d].declared \in {visit[d].total, Undeclared}
  PROVE  Visiting(d)
<1>1. visit[d] \in Visits(d) /\ Delivered(visit[d])
  BY DEF GatewayInv, GatewayTypeOK
<1>2. visit[d].declared \in Sizes \cup {Undeclared} /\ visit[d].total \in Sizes
  BY <1>1, VisitFields
<1>3. visit[d].reached \in SUBSET {"reviewed"} /\ visit[d].total \in 0 .. ByteLimit
  BY <1>1, <1>2 DEF Delivered, Sizes, PageWorkload, GatewayAssumption
<1>. DEFINE w == Closed(visit[d].reached, visit[d].declared, visit[d].total, outcome, answer)
<1>4. w \in Visits(d) /\ Delivered(w)
  BY <1>2, <1>3, ClosedVisits
<1>5. visit' = [visit EXCEPT ![d] = w]
  BY DEF End, Set
<1>. QED BY <1>4, <1>5 DEF Visiting

\* The browser is sent to a reviewed address.
LEMMA Hands ==
  ASSUME PageWorkload, GatewayInv, NEW d \in Downloads, visit[d].phase \in OpenPhases,
         NEW answer \in {"plan", "redirect"}, Accepted(visit[d].candidate.address), Hand(d, answer)
  PROVE  Visiting(d)
<1>1. visit[d].phase # "closed" /\ Undeclared \in Sizes \cup {Undeclared} /\ 0 \in 0 .. ByteLimit
  BY DEF OpenPhases, PageWorkload, GatewayAssumption
<1>2. {visit[d].candidate.address} \in SUBSET {"reviewed"} /\ "passed" \in Verdicts /\ answer \in Answers
  BY DEF Accepted, Verdicts, Answers
<1>. DEFINE w == Closed({visit[d].candidate.address}, Undeclared, 0, "passed", answer)
<1>3. w \in Visits(d) /\ Delivered(w)
  BY <1>1, <1>2, ClosedVisits
<1>4. visit' = [visit EXCEPT ![d] = w]
  BY DEF Hand, Set
<1>. QED BY <1>1, <1>3, <1>4 DEF Visiting

\* A visit goes on.
LEMMA GoesOn ==
  ASSUME PageWorkload, GatewayInv, NEW d \in Downloads, visit[d].phase \in OpenPhases,
         NEW phase \in OpenPhases, NEW reached \in SUBSET {"reviewed"}, NEW hops \in 0 .. HopLimit,
         NEW declared \in Sizes \cup {Undeclared}, NEW total \in 0 .. ByteLimit,
         Continue(d, phase, reached, hops, declared, total)
  PROVE  Visiting(d)
<1>1. visit[d].phase # "closed" /\ visit[d].candidate \in Candidates(d)
  BY VisitFields DEF GatewayInv, GatewayTypeOK, OpenPhases
<1>. DEFINE w == Underway(visit[d].candidate, phase, reached, hops, declared, total)
<1>2. w \in Visits(d) /\ Delivered(w)
  BY <1>1, OpenVisits
<1>3. visit' = [visit EXCEPT ![d] = w]
  BY DEF Continue, Set
<1>. QED BY <1>1, <1>2, <1>3 DEF Visiting
LEMMA OpenFacts ==
  ASSUME PageWorkload, GatewayInv, NEW d \in Downloads, visit[d].phase \in OpenPhases
  PROVE  /\ visit[d] \in Visits(d) /\ Delivered(visit[d]) /\ visit[d].phase # "closed"
         /\ visit[d].reached \in SUBSET {"reviewed"} /\ visit[d].hops \in 0 .. HopLimit
         /\ visit[d].declared \in Sizes \cup {Undeclared} /\ visit[d].total \in 0 .. ByteLimit
         /\ visit[d].candidate.address \in Addresses /\ visit[d].candidate.size \in Sizes \ {0}
         /\ 0 \in 0 .. HopLimit
<1>1. visit[d] \in Visits(d) /\ Delivered(visit[d])
  BY DEF GatewayInv, GatewayTypeOK
<1>2. visit[d].total <= ByteLimit /\ visit[d].reached \subseteq {"reviewed"}
  BY <1>1 DEF Delivered
<1>3. ByteLimit \in Nat /\ HopLimit \in Nat
  BY DEF PageWorkload, GatewayAssumption
<1>. QED BY <1>1, <1>2, <1>3, VisitFields DEF Sizes, OpenPhases

LEMMA Verdict ==
  /\ "none" \in Verdicts /\ "mode_rejected" \in Verdicts /\ "host_rejected" \in Verdicts
  /\ "dns_rejected" \in Verdicts /\ "internal_error" \in Verdicts /\ "passed" \in Verdicts
  /\ \A answer \in {"refused", "rejected", "body"} : answer \in Answers \ {"plan", "redirect"}
  BY DEF Verdicts, Answers

LEMMA TicketSteps ==
  ASSUME PageWorkload, GatewayInv, NEW d \in Downloads, Issue(d) \/ Open(d)
  PROVE  Visiting(d)
<1>1. CASE Issue(d)
  <2>1. visit[d].phase = "none" /\ visit[d].phase # "closed"
    BY <1>1 DEF Issue
  <2>2. ASSUME NEW c \in Candidates(d), Set(d, Underway(c, "issued", {}, 0, Undeclared, 0)) PROVE Visiting(d)
    <3>1. "issued" \in OpenPhases /\ {} \in SUBSET {"reviewed"} /\ 0 \in 0 .. HopLimit /\ 0 \in 0 .. ByteLimit
      BY DEF OpenPhases, PageWorkload, GatewayAssumption
    <3>2. LET w == Underway(c, "issued", {}, 0, Undeclared, 0) IN w \in Visits(d) /\ Delivered(w)
      BY <3>1, OpenVisits
    <3>. QED BY <2>1, <2>2, <3>2 DEF Set, Visiting
  <2>3. ASSUME End(d, "none", "refused") PROVE Visiting(d)
    BY <2>1, <2>3, Verdict, Ends
  <2>. QED BY <1>1, <2>2, <2>3 DEF Issue
<1>2. CASE Open(d)
  <2>. DEFINE v == visit[d]
  <2>1. v.phase = "issued" /\ v.phase \in OpenPhases /\ v.phase # "closed"
    BY <1>2 DEF Open, OpenPhases
  <2>2. ASSUME NEW outcome \in {"none", "mode_rejected", "host_rejected"}, NEW answer \in {"refused", "rejected"},
               End(d, outcome, answer)
        PROVE  Visiting(d)
    <3>1. outcome \in Verdicts /\ outcome # "passed" /\ answer \in Answers \ {"plan", "redirect"}
      BY Verdict
    <3>. QED BY <2>1, <2>2, <3>1, Ends
  <2>3. ASSUME NEW way \in {"file", "plan", "target"}, Continue(d, way, {}, 0, Undeclared, 0) PROVE Visiting(d)
    <3>1. way \in OpenPhases /\ {} \in SUBSET {"reviewed"} /\ 0 \in 0 .. ByteLimit
      BY DEF OpenPhases, PageWorkload, GatewayAssumption
    <3>. QED BY <2>1, <2>3, <3>1, OpenFacts, GoesOn
  <2>4. CASE v.candidate.kind = "artifact"
    BY <1>2, <2>2, <2>3, <2>4 DEF Open, Reject
  <2>5. CASE v.candidate.kind = "processing"
    BY <1>2, <2>2, <2>3, <2>5 DEF Open, Reject
  <2>6. CASE v.candidate.kind \notin {"artifact", "processing"}
    BY <1>2, <2>2, <2>3, <2>6 DEF Open, Reject
  <2>. QED BY <2>4, <2>5, <2>6
<1>. QED BY <1>1, <1>2

LEMMA AnswerSteps ==
  ASSUME PageWorkload, GatewayInv, NEW d \in Downloads, OpenArtifact(d) \/ SendPlan(d) \/ CheckTarget(d)
  PROVE  Visiting(d)
<1>. DEFINE v == visit[d]
<1>1. v.phase \in {"file", "plan", "target"} /\ v.phase \in OpenPhases /\ v.phase # "closed"
  BY DEF OpenArtifact, SendPlan, CheckTarget, OpenPhases
<1>2. ASSUME NEW outcome \in {"none", "mode_rejected", "host_rejected", "dns_rejected", "internal_error"},
             Reject(d, outcome)
      PROVE  Visiting(d)
  <2>1. outcome \in Verdicts /\ outcome # "passed" /\ "rejected" \in Answers \ {"plan", "redirect"}
    BY Verdict
  <2>. QED BY <1>1, <1>2, <2>1, Ends DEF Reject
<1>3. {} \in SUBSET {"reviewed"} /\ 0 \in 0 .. HopLimit /\ 0 \in 0 .. ByteLimit
  BY DEF PageWorkload, GatewayAssumption
<1>4. CASE OpenArtifact(d)
  <2>1. ASSUME v.candidate.size <= ByteLimit, Continue(d, "body", {}, 0, v.candidate.size, 0) PROVE Visiting(d)
    <3>1. "body" \in OpenPhases /\ v.candidate.size \in Sizes \cup {Undeclared}
      BY <1>1, OpenFacts DEF OpenPhases
    <3>. QED BY <1>1, <1>3, <2>1, <3>1, GoesOn
  <2>2. v.candidate.size \in Nat /\ ByteLimit \in Nat
    BY <1>1, OpenFacts DEF Sizes, PageWorkload, GatewayAssumption
  <2>. QED BY <1>2, <1>4, <2>1, <2>2 DEF OpenArtifact
<1>5. CASE SendPlan(d)
  BY <1>1, <1>2, <1>5, Hands DEF SendPlan
<1>6. CASE CheckTarget(d)
  <2>1. ASSUME Accepted(v.candidate.address), Continue(d, "relay", {v.candidate.address}, 0, Undeclared, 0)
        PROVE  Visiting(d)
    <3>1. "relay" \in OpenPhases /\ {v.candidate.address} \in SUBSET {"reviewed"}
      BY <2>1 DEF OpenPhases, Accepted
    <3>. QED BY <1>1, <1>3, <2>1, <3>1, GoesOn
  <2>2. ASSUME Accepted(v.candidate.address), Hand(d, "redirect") PROVE Visiting(d)
    BY <1>1, <2>2, Hands
  <2>. QED BY <1>2, <1>6, <2>1, <2>2 DEF CheckTarget
<1>. QED BY <1>4, <1>5, <1>6

LEMMA RelaySteps ==
  ASSUME PageWorkload, GatewayInv, NEW d \in Downloads, Follow(d) \/ StartBody(d) \/ RelayFails(d)
  PROVE  Visiting(d)
<1>. DEFINE v == visit[d]
<1>1. v.phase = "relay" /\ v.phase \in OpenPhases /\ v.phase # "closed"
  BY DEF Follow, StartBody, RelayFails, OpenPhases
<1>2. ASSUME Reject(d, "internal_error") PROVE Visiting(d)
  BY <1>1, <1>2, Verdict, Ends DEF Reject
<1>4. CASE Follow(d)
  <2>1. ASSUME NEW x \in Addresses, v.hops < HopLimit, Accepted(x),
               Continue(d, "relay", v.reached \cup {x}, v.hops + 1, Undeclared, 0)
        PROVE  Visiting(d)
    <3>1. v.reached \cup {x} \in SUBSET {"reviewed"} /\ v.hops + 1 \in 0 .. HopLimit /\ 0 \in 0 .. ByteLimit
      BY <1>1, <2>1, OpenFacts DEF Accepted, PageWorkload, GatewayAssumption
    <3>. QED BY <1>1, <2>1, <3>1, GoesOn
  <2>. QED BY <1>2, <1>4, <2>1 DEF Follow
<1>5. CASE StartBody(d)
  <2>1. ASSUME NEW n \in 1 .. ByteLimit \cup {Undeclared}, Continue(d, "body", v.reached, 0, n, 0) PROVE Visiting(d)
    <3>1. n \in Sizes \cup {Undeclared} /\ "body" \in OpenPhases /\ 0 \in 0 .. ByteLimit
      BY DEF Sizes, OpenPhases, PageWorkload, GatewayAssumption
    <3>. QED BY <1>1, <2>1, <3>1, OpenFacts, GoesOn
  <2>. QED BY <1>5, <2>1 DEF StartBody
<1>. QED BY <1>2, <1>4, <1>5 DEF RelayFails

LEMMA BodySteps ==
  ASSUME PageWorkload, GatewayInv, NEW d \in Downloads, Chunk(d) \/ EndBody(d) \/ BodyStops(d)
  PROVE  Visiting(d)
<1>. DEFINE v == visit[d]
<1>1. v.phase = "body" /\ v.phase \in OpenPhases /\ v.phase # "closed"
  BY DEF Chunk, EndBody, BodyStops, OpenPhases
<1>2. ASSUME NEW outcome \in {"none", "internal_error"}, End(d, outcome, "body") PROVE Visiting(d)
  <2>1. outcome \in Verdicts /\ outcome # "passed" /\ "body" \in Answers \ {"plan", "redirect"}
    BY Verdict
  <2>. QED BY <1>1, <1>2, <2>1, Ends
<1>3. CASE Chunk(d)
  <2>1. ASSUME v.total < ByteLimit, Continue(d, "body", v.reached, 0, v.declared, v.total + 1) PROVE Visiting(d)
    <3>1. v.total + 1 \in 0 .. ByteLimit
      BY <1>1, <2>1, OpenFacts DEF PageWorkload, GatewayAssumption
    <3>. QED BY <1>1, <2>1, <3>1, OpenFacts, GoesOn
  <2>. QED BY <1>2, <1>3, <2>1 DEF Chunk
<1>4. CASE EndBody(d)
  <2>. DEFINE whole == v.total > 0 /\ v.declared \in {v.total, Undeclared}
  <2>1. ASSUME whole, End(d, "passed", "body") PROVE Visiting(d)
    <3>1. v.total # 0 /\ v.declared \in {v.total, Undeclared}
      BY <2>1, <1>1, OpenFacts
    <3>. QED BY <1>1, <2>1, <3>1, Verdict, Ends
  <2>2. CASE whole
    BY <1>4, <2>1, <2>2 DEF EndBody
  <2>3. CASE ~whole
    BY <1>2, <1>4, <2>3 DEF EndBody
  <2>. QED BY <2>2, <2>3
<1>5. CASE BodyStops(d)
  BY <1>2, <1>5 DEF BodyStops
<1>. QED BY <1>3, <1>4, <1>5

LEMMA GatewayMoves ==
  ASSUME PageWorkload, GatewayInv, NEW d \in Downloads, Issue(d) \/ Open(d) \/ GatewayStep(d)
  PROVE  Visiting(d)
  BY TicketSteps, AnswerSteps, RelaySteps, BodySteps DEF GatewayStep

\* A visit that goes on keeps the invariant, and leaves those that ended.
LEMMA VisitingKeeps ==
  ASSUME GatewayInv, NEW d \in Downloads, Visiting(d)
  PROVE  /\ GatewayInv'
         /\ \A e \in Downloads : visit[e].phase = "closed" => visit'[e] = visit[e]
<1>1. PICK w \in Visits(d) : Delivered(w) /\ visit' = [visit EXCEPT ![d] = w]
  BY DEF Visiting
<1>2. DOMAIN visit = Downloads /\ DOMAIN visit' = Downloads
  BY <1>1 DEF GatewayInv, GatewayTypeOK
<1>3. visit'[d] = w /\ \A e \in Downloads \ {d} : visit'[e] = visit[e]
  BY <1>1, <1>2
<1>4. ASSUME NEW e \in Downloads PROVE visit'[e] \in Visits(e) /\ Delivered(visit'[e])
  BY <1>1, <1>3 DEF GatewayInv, GatewayTypeOK
<1>5. GatewayTypeOK'
  BY <1>2, <1>4 DEF GatewayTypeOK
<1>6. (\A e \in Downloads : Delivered(visit[e]))'
  BY <1>4
<1>. QED BY <1>3, <1>5, <1>6 DEF GatewayInv, Visiting

-----------------------------------------------------------------------------
(* The form.  A key stands for the tasks of one entry of the link until an *)
(* answer names one of them; only the entry the form has can be submitted. *)

Unseen(t, k) == ~t[k].seen /\ t[k].status # "expired"

\* Keys are drawn in order, and entries too.
InOrderOf(f, s, t) ==
  /\ f.held.link \in {"none", f.link} /\ f.held.key <= f.keys
  /\ s.key <= f.keys /\ s.edit <= f.edit
  /\ \A k \in 1 .. Len(t) : t[k].key <= f.keys /\ t[k].edit <= f.edit

\* A key has one live task; a task of the form's own entry that the page does
\* not know of is one of the key it holds.
KeysTell(f, t) ==
  /\ \A k, l \in 1 .. Len(t) :
       t[k].key = t[l].key /\ t[k].status # "expired" /\ t[l].status # "expired" => k = l
  /\ \A k \in 1 .. Len(t) :
       Unseen(t, k) /\ t[k].edit = f.edit => f.held.link = t[k].link /\ f.held.key = t[k].key

\* A submission under way has the key of the form, unless the link was edited
\* since; either way it is the key of the unseen tasks of its entry, and what
\* is answered is its one live task.
SubmissionTells(f, s, t) ==
  /\ s.phase \in {"sent", "answered"} =>
       /\ s.link \in Links
       /\ IF s.edit = f.edit THEN f.held.link = s.link /\ f.held.key = s.key ELSE f.held.link = "none"
       /\ \A k \in 1 .. Len(t) : Unseen(t, k) /\ t[k].edit = s.edit => t[k].key = s.key
  /\ s.phase = "answered" =>
       /\ s.task \in 0 .. Len(t)
       /\ s.task # 0 => \A k \in 1 .. Len(t) : t[k].key = s.key /\ t[k].status # "expired" => k = s.task
  /\ s.phase = "polling" => s.task \in 1 .. Len(t)

OneUnseen(t) ==
  \A k, l \in 1 .. Len(t) : Unseen(t, k) /\ Unseen(t, l) /\ t[k].edit = t[l].edit => k = l

SubmissionInv(f, s, t) ==
  /\ f \in Forms /\ s \in Submissions /\ t \in Seq(Tasks)
  /\ InOrderOf(f, s, t) /\ KeysTell(f, t) /\ SubmissionTells(f, s, t) /\ OneUnseen(t)

\* What the buttons change of a form is nothing the invariant is about.
SameEntry(f, g) == g \in Forms /\ g.link = f.link /\ g.edit = f.edit /\ g.keys = f.keys /\ g.held = f.held

LEMMA SameEntryKeeps ==
  ASSUME NEW f, NEW g, NEW s, NEW t, SubmissionInv(f, s, t), SameEntry(f, g)
  PROVE  SubmissionInv(g, s, t)
  BY DEF SubmissionInv, SameEntry, InOrderOf, KeysTell, SubmissionTells

LEMMA IdleKeeps ==
  ASSUME NEW f, NEW s, NEW t, SubmissionInv(f, s, t)
  PROVE  SubmissionInv(f, Idle, t)
<1>1. Idle \in Submissions /\ Idle.phase = "idle" /\ Idle.key = 0 /\ Idle.edit = 0
  BY DEF Idle, Submissions
<1>2. f.keys \in Nat /\ f.edit \in Nat
  BY DEF SubmissionInv, Forms
<1>3. InOrderOf(f, Idle, t)
  BY <1>1, <1>2 DEF InOrderOf, SubmissionInv
<1>4. SubmissionTells(f, Idle, t)
  BY <1>1 DEF SubmissionTells
<1>. QED BY <1>1, <1>3, <1>4 DEF SubmissionInv

LEMMA FormFields ==
  ASSUME NEW f \in Forms
  PROVE  /\ f.link \in Links \cup {"none"} /\ f.edit \in Nat /\ f.keys \in Nat
         /\ f.held.link \in Links \cup {"none"} /\ f.held.key \in Nat
         /\ f.task \in Nat /\ f.status \in Statuses \cup {"none"} /\ f.error \in BOOLEAN
         /\ f.delivering \in BOOLEAN /\ f.saving \in BOOLEAN /\ f.fallback \in BOOLEAN
  BY DEF Forms

LEMMA Buttons ==
  ASSUME NEW f \in Forms
  PROVE  /\ SameEntry(f, Forget(f))
         /\ SameEntry(f, ForgetTask(f))
         /\ SameEntry(f, [f EXCEPT !.error = TRUE])
         /\ SameEntry(f, [f EXCEPT !.delivering = TRUE])
         /\ SameEntry(f, [f EXCEPT !.delivering = FALSE])
         /\ \A x \in BOOLEAN : SameEntry(f, [f EXCEPT !.saving = FALSE, !.fallback = x])
         /\ \A n \in Nat, x \in Statuses : SameEntry(f, [f EXCEPT !.task = n, !.status = x])
<1>. DEFINE g == Forget(f)
<1>1. SameEntry(f, g)
  BY DEF SameEntry, Forms, Forget
<1>2. ForgetTask(f) = [g EXCEPT !.task = 0, !.status = "none", !.error = FALSE]
  BY DEF ForgetTask
<1>. HIDE DEF g
<1>3. SameEntry(f, ForgetTask(f))
  <2>1. g \in Forms /\ "none" \in Statuses \cup {"none"} /\ 0 \in Nat
    BY <1>1 DEF SameEntry
  <2>2. [g EXCEPT !.task = 0, !.status = "none", !.error = FALSE] \in Forms
    BY <2>1 DEF Forms
  <2>3. LET h == [g EXCEPT !.task = 0, !.status = "none", !.error = FALSE]
        IN h.link = g.link /\ h.edit = g.edit /\ h.keys = g.keys /\ h.held = g.held
    BY <2>1 DEF Forms
  <2>. QED BY <1>1, <1>2, <2>2, <2>3 DEF SameEntry
<1>4. SameEntry(f, [f EXCEPT !.error = TRUE])
  BY DEF SameEntry, Forms
<1>5. SameEntry(f, [f EXCEPT !.delivering = TRUE]) /\ SameEntry(f, [f EXCEPT !.delivering = FALSE])
  BY DEF SameEntry, Forms
<1>6. ASSUME NEW x \in BOOLEAN PROVE SameEntry(f, [f EXCEPT !.saving = FALSE, !.fallback = x])
  BY DEF SameEntry, Forms
<1>7. ASSUME NEW n \in Nat, NEW x \in Statuses PROVE SameEntry(f, [f EXCEPT !.task = n, !.status = x])
  BY DEF SameEntry, Forms
<1>. QED BY <1>1, <1>3, <1>4, <1>5, <1>6, <1>7 DEF g

LEMMA TaskFields ==
  ASSUME NEW t \in Seq(Tasks)
  PROVE  \A k \in 1 .. Len(t) :
           /\ t[k] \in Tasks /\ t[k].link \in Links /\ t[k].key \in Nat /\ t[k].edit \in Nat
           /\ t[k].status \in Statuses /\ t[k].seen \in BOOLEAN
<1>1. ASSUME NEW k \in 1 .. Len(t) PROVE t[k] \in Tasks
  OBVIOUS
<1>. QED BY <1>1 DEF Tasks

LEMMA EditKeeps ==
  ASSUME PageWorkload, SubmissionInv(form, submission, tasks), NEW link \in Links \cup {"none"}, Edit(link)
  PROVE  SubmissionInv(form, submission, tasks)'
<1>. DEFINE g == ForgetTask(form)
<1>1. form \in Forms /\ submission \in Submissions /\ tasks \in Seq(Tasks)
  BY DEF SubmissionInv
<1>2. SameEntry(form, g)
  BY <1>1, Buttons
<1>3. form' = [g EXCEPT !.link = link, !.edit = @ + 1, !.held = NoKey] /\ UNCHANGED <<submission, tasks>>
  BY DEF Edit
<1>. HIDE DEF g
<1>4. form' \in Forms /\ form'.link = link /\ form'.edit = g.edit + 1 /\ form'.held = NoKey /\ form'.keys = g.keys
  <2>1. NoKey \in [link : Links \cup {"none"}, key : Nat] /\ g \in Forms /\ g.edit + 1 \in Nat
    BY <1>2, FormFields DEF NoKey, SameEntry
  <2>. QED BY <1>3, <2>1 DEF Forms
<1>5. form'.edit = form.edit + 1 /\ form'.keys = form.keys /\ form.edit \in Nat /\ form.keys \in Nat
      /\ form'.held.link = "none" /\ form'.held.key = 0
  BY <1>1, <1>2, <1>4, FormFields DEF SameEntry, NoKey
<1>6. \A k \in 1 .. Len(tasks) : tasks[k] \in Tasks /\ tasks[k].edit <= form.edit /\ tasks[k].edit \in Nat
  BY <1>1, TaskFields DEF SubmissionInv, InOrderOf
<1>7. submission.edit \in Nat /\ submission.edit <= form.edit
  BY <1>1 DEF SubmissionInv, InOrderOf, Submissions
<1>8. InOrderOf(form', submission, tasks)
  BY <1>5, <1>6, <1>7 DEF SubmissionInv, InOrderOf
<1>9. KeysTell(form', tasks)
  BY <1>5, <1>6 DEF SubmissionInv, KeysTell
<1>10. SubmissionTells(form', submission, tasks)
  BY <1>5, <1>7 DEF SubmissionInv, SubmissionTells
<1>. QED BY <1>1, <1>3, <1>4, <1>8, <1>9, <1>10 DEF SubmissionInv

\* A key is drawn, or the one the entry holds is used again.
LEMMA SubmitKeeps ==
  ASSUME PageWorkload, SubmissionInv(form, submission, tasks), Submit
  PROVE  SubmissionInv(form, submission, tasks)'
<1>. DEFINE g == ForgetTask(form)
            key == KeyFor(form)
<1>1. form \in Forms /\ tasks \in Seq(Tasks) /\ form.link \in Links /\ form.link # "none"
  BY DEF SubmissionInv, Submit, PageWorkload
<1>2. SameEntry(form, g)
  BY <1>1, Buttons
<1>3. form' = [g EXCEPT !.held = [link |-> form.link, key |-> key], !.keys = IF key > @ THEN key ELSE @]
      /\ tasks' = tasks
      /\ submission' = [phase |-> "sent", link |-> form.link, edit |-> form.edit, key |-> key,
                        task |-> 0, attempt |-> 0]
  BY DEF Submit
<1>4. form.keys \in Nat /\ form.held.key \in Nat /\ form.edit \in Nat /\ form.held.key <= form.keys
      /\ form.held.link \in {"none", form.link}
  BY <1>1, FormFields DEF SubmissionInv, InOrderOf
<1>5. key \in Nat /\ (form.held.link = form.link => key = form.held.key)
  BY <1>4 DEF KeyFor
<1>. DEFINE top == IF key > form.keys THEN key ELSE form.keys
<1>6. top \in Nat /\ key <= top /\ form.keys <= top
  BY <1>4, <1>5
<1>. HIDE DEF g, key
<1>7. form' \in Forms /\ form'.link = form.link /\ form'.edit = form.edit /\ form'.keys = top
      /\ form'.held = [link |-> form.link, key |-> key]
  <2>. DEFINE h == [link |-> form.link, key |-> key]
  <2>1. h \in [link : Links \cup {"none"}, key : Nat] /\ g \in Forms
    BY <1>1, <1>2, <1>5 DEF SameEntry
  <2>2. form' = [g EXCEPT !.held = h, !.keys = top]
    BY <1>2, <1>3 DEF SameEntry
  <2>. HIDE DEF top, h
  <2>3. form' \in Forms /\ form'.link = g.link /\ form'.edit = g.edit /\ form'.keys = top /\ form'.held = h
    BY <1>6, <2>1, <2>2 DEF Forms
  <2>. USE DEF h
  <2>. QED BY <1>2, <2>3 DEF SameEntry
<1>. HIDE DEF top
<1>8. form'.held.link = form.link /\ form'.held.key = key
  BY <1>7
<1>9. submission' \in Submissions /\ submission'.phase = "sent" /\ submission'.link = form.link
      /\ submission'.edit = form.edit /\ submission'.key = key
  BY <1>1, <1>3, <1>4, <1>5 DEF Submissions
<1>10. \A k \in 1 .. Len(tasks) : tasks[k] \in Tasks /\ tasks[k].key \in Nat /\ tasks[k].key <= form.keys
                                  /\ tasks[k].edit <= form.edit /\ tasks[k].link # "none"
  BY <1>1, TaskFields DEF SubmissionInv, InOrderOf, PageWorkload
<1>11. ASSUME NEW k \in 1 .. Len(tasks), Unseen(tasks, k), tasks[k].edit = form.edit
       PROVE  tasks[k].key = key /\ tasks[k].link = form.link
  <2>1. form.held.link = tasks[k].link /\ form.held.key = tasks[k].key
    BY <1>11 DEF SubmissionInv, KeysTell
  <2>. QED BY <2>1, <1>4, <1>5, <1>10
<1>12. InOrderOf(form', submission', tasks)
  BY <1>4, <1>5, <1>6, <1>7, <1>8, <1>9, <1>10 DEF InOrderOf
<1>13. KeysTell(form', tasks)
  BY <1>7, <1>8, <1>11 DEF SubmissionInv, KeysTell
<1>14. SubmissionTells(form', submission', tasks)
  <2>1. \A k \in 1 .. Len(tasks) : Unseen(tasks, k) /\ tasks[k].edit = submission'.edit => tasks[k].key = submission'.key
    BY <1>9, <1>11
  <2>2. submission'.edit = form'.edit /\ form'.held.link = submission'.link /\ form'.held.key = submission'.key
        /\ submission'.link \in Links
    BY <1>1, <1>7, <1>8, <1>9
  <2>. QED BY <1>9, <2>1, <2>2 DEF SubmissionTells
<1>. QED BY <1>1, <1>3, <1>7, <1>9, <1>12, <1>13, <1>14 DEF SubmissionInv

\* The answer is the live task of the key, or a new one, or none.
LEMMA ArriveKeeps ==
  ASSUME PageWorkload, SubmissionInv(form, submission, tasks), Arrive
  PROVE  SubmissionInv(form, submission, tasks)'
<1>. DEFINE replayed == {k \in DOMAIN tasks : tasks[k].key = submission.key /\ tasks[k].status # "expired"}
            new == [link |-> submission.link, key |-> submission.key, edit |-> submission.edit,
                    status |-> "queued", seen |-> FALSE]
<1>1. form \in Forms /\ submission \in Submissions /\ tasks \in Seq(Tasks) /\ DOMAIN tasks = 1 .. Len(tasks)
      /\ Len(tasks) \in Nat
  BY DEF SubmissionInv
<1>2. submission.phase = "sent" /\ form' = form
  BY DEF Arrive
<1>4. ASSUME tasks' = tasks, NEW n \in 0 .. Len(tasks), n # 0 => n \in replayed,
             submission' = [submission EXCEPT !.phase = "answered", !.task = n]
      PROVE  SubmissionInv(form, submission, tasks)'
  <2>0. n \in Nat
    BY <1>1
  <2>. HIDE DEF replayed
  <2>1. /\ submission' \in Submissions /\ submission'.phase = "answered" /\ submission'.task = n
        /\ submission'.key = submission.key /\ submission'.edit = submission.edit
        /\ submission'.link = submission.link
    BY <1>1, <1>4, <2>0 DEF Submissions
  <2>. USE DEF replayed
  <2>2. n # 0 => \A k \in 1 .. Len(tasks) : tasks[k].key = submission.key /\ tasks[k].status # "expired" => k = n
    BY <1>1, <1>4 DEF SubmissionInv, KeysTell
  <2>3. SubmissionTells(form, submission', tasks)
    BY <1>2, <1>4, <2>1, <2>2 DEF SubmissionInv, SubmissionTells
  <2>4. InOrderOf(form, submission', tasks)
    BY <2>1 DEF SubmissionInv, InOrderOf
  <2>. QED BY <1>2, <1>4, <2>1, <2>3, <2>4 DEF SubmissionInv
<1>5. ASSUME replayed = {}, tasks' = Append(tasks, new), submission.link \in Links,
             submission' = [submission EXCEPT !.phase = "answered", !.task = Len(tasks) + 1]
      PROVE  SubmissionInv(form, submission, tasks)'
  <2>. DEFINE m == Len(tasks) + 1
  <2>0. m \in Nat /\ submission' = [submission EXCEPT !.phase = "answered", !.task = m]
    BY <1>1, <1>5
  <2>. HIDE DEF m
  <2>1. /\ submission' \in Submissions /\ submission'.phase = "answered" /\ submission'.task = m
        /\ submission'.key = submission.key /\ submission'.edit = submission.edit
        /\ submission'.link = submission.link
    BY <1>1, <2>0 DEF Submissions
  <2>. USE DEF m
  <2>2. submission.key \in Nat /\ submission.edit \in Nat
    BY <1>1 DEF Submissions
  <2>3. new \in Tasks
    BY <1>5, <2>2 DEF Tasks, Statuses
  <2>4. tasks' \in Seq(Tasks) /\ Len(tasks') = m /\ tasks'[m] = new
        /\ \A k \in 1 .. Len(tasks) : tasks'[k] = tasks[k]
    BY <1>1, <1>5, <2>3
  <2>5. 1 .. Len(tasks') = (1 .. Len(tasks)) \cup {m}
    BY <1>1, <2>4
  <2>6. new.link = submission.link /\ new.key = submission.key /\ new.edit = submission.edit
        /\ new.status = "queued" /\ new.seen = FALSE
    OBVIOUS
  <2>. HIDE DEF new, m
  <2>7. \A k \in 1 .. Len(tasks) : tasks[k].status # "expired" => tasks[k].key # submission.key
    BY <1>1, <1>5
  <2>8. \A k \in 1 .. Len(tasks) : Unseen(tasks, k) => tasks[k].edit # submission.edit
    BY <1>2, <2>7 DEF SubmissionInv, SubmissionTells, Unseen
  <2>9. InOrderOf(form, submission', tasks')
    BY <2>1, <2>4, <2>5, <2>6 DEF SubmissionInv, InOrderOf
  <2>10. KeysTell(form, tasks')
    <3>1. \A k, l \in 1 .. Len(tasks') :
            tasks'[k].key = tasks'[l].key /\ tasks'[k].status # "expired" /\ tasks'[l].status # "expired" => k = l
      BY <2>4, <2>5, <2>6, <2>7 DEF SubmissionInv, KeysTell
    <3>2. submission.edit = form.edit => form.held.link = submission.link /\ form.held.key = submission.key
      BY <1>2 DEF SubmissionInv, SubmissionTells
    <3>3. \A k \in 1 .. Len(tasks') :
            Unseen(tasks', k) /\ tasks'[k].edit = form.edit => form.held.link = tasks'[k].link /\ form.held.key = tasks'[k].key
      BY <2>4, <2>5, <2>6, <3>2 DEF SubmissionInv, KeysTell, Unseen
    <3>. QED BY <3>1, <3>3 DEF KeysTell
  <2>11. OneUnseen(tasks')
    BY <2>4, <2>5, <2>6, <2>8 DEF SubmissionInv, OneUnseen, Unseen
  <2>12. SubmissionTells(form, submission', tasks')
    <3>1. m \in 0 .. Len(tasks')
      BY <1>1, <2>4 DEF m
    <3>2. \A k \in 1 .. Len(tasks') : Unseen(tasks', k) /\ tasks'[k].edit = submission.edit => tasks'[k].key = submission.key
      BY <2>4, <2>5, <2>6, <2>8 DEF Unseen
    <3>3. \A k \in 1 .. Len(tasks') : tasks'[k].key = submission.key /\ tasks'[k].status # "expired" => k = m
      BY <2>4, <2>5, <2>7
    <3>4. IF submission.edit = form.edit THEN form.held.link = submission.link /\ form.held.key = submission.key
          ELSE form.held.link = "none"
      BY <1>2 DEF SubmissionInv, SubmissionTells
    <3>5. submission'.link \in Links
      BY <1>5, <2>1
    <3>6. \A k \in 1 .. Len(tasks') : Unseen(tasks', k) /\ tasks'[k].edit = submission'.edit => tasks'[k].key = submission'.key
      BY <2>1, <3>2
    <3>. QED BY <2>1, <3>1, <3>3, <3>4, <3>5, <3>6 DEF SubmissionTells
  <2>. QED BY <1>1, <1>2, <2>1, <2>4, <2>9, <2>10, <2>11, <2>12 DEF SubmissionInv
<1>6. submission.phase = "sent" => submission.link \in Links
  BY DEF SubmissionInv, SubmissionTells
<1>7. ASSUME NEW k \in replayed PROVE k \in 0 .. Len(tasks)
  BY <1>1
<1>8. 0 \in 0 .. Len(tasks) /\ submission.link \in Links
  BY <1>1, <1>2, <1>6
<1>. QED BY <1>4, <1>5, <1>7, <1>8 DEF Arrive

\* The page knows the task: none of its entry is left that it does not know.
LEMMA AnswerKeeps ==
  ASSUME PageWorkload, SubmissionInv(form, submission, tasks), Answer
  PROVE  SubmissionInv(form, submission, tasks)'
<1>. DEFINE k == submission.task
<1>1. form \in Forms /\ submission \in Submissions /\ tasks \in Seq(Tasks) /\ DOMAIN tasks = 1 .. Len(tasks)
      /\ submission.phase = "answered" /\ k \in 0 .. Len(tasks)
  BY DEF SubmissionInv, SubmissionTells, Answer
<1>2. CASE k = 0
  <2>1. form' = [form EXCEPT !.error = TRUE] /\ submission' = Idle /\ tasks' = tasks
    BY <1>2 DEF Answer, Fail
  <2>2. SameEntry(form, form')
    BY <1>1, <2>1, Buttons
  <2>3. SubmissionInv(form', submission, tasks)
    BY <2>2, SameEntryKeeps
  <2>. QED BY <2>1, <2>3, IdleKeeps
<1>3. CASE k # 0
  <2>1. k \in 1 .. Len(tasks) /\ tasks[k] \in Tasks /\ k \in Nat
    BY <1>1, <1>3, TaskFields
  <2>2. form' = [form EXCEPT !.held = NoKey, !.task = k, !.status = tasks[k].status]
        /\ submission' = [submission EXCEPT !.phase = "polling"]
        /\ tasks' = [tasks EXCEPT ![k] = [tasks[k] EXCEPT !.seen = TRUE]]
    BY <1>3 DEF Answer, SetTask
  <2>3. NoKey \in [link : Links \cup {"none"}, key : Nat] /\ NoKey.link = "none" /\ NoKey.key = 0
        /\ tasks[k].status \in Statuses
    BY <1>1, <2>1, TaskFields DEF NoKey
  <2>. DEFINE seen == [tasks[k] EXCEPT !.seen = TRUE]
  <2>4. seen \in Tasks /\ seen.link = tasks[k].link /\ seen.key = tasks[k].key /\ seen.edit = tasks[k].edit
        /\ seen.status = tasks[k].status /\ seen.seen = TRUE
    BY <2>1 DEF Tasks
  <2>. HIDE DEF k, seen
  <2>5. form' \in Forms /\ form'.link = form.link /\ form'.edit = form.edit /\ form'.keys = form.keys
        /\ form'.held = NoKey
    BY <1>1, <2>1, <2>2, <2>3 DEF Forms
  <2>6. submission' \in Submissions /\ submission'.phase = "polling" /\ submission'.task = submission.task
        /\ submission'.key = submission.key /\ submission'.edit = submission.edit
    BY <1>1, <2>2 DEF Submissions
  <2>7. tasks' = [tasks EXCEPT ![k] = seen]
    BY <2>2 DEF seen
  <2>8. tasks' \in Seq(Tasks) /\ Len(tasks') = Len(tasks) /\ tasks'[k] = seen
        /\ \A l \in 1 .. Len(tasks) : l # k => tasks'[l] = tasks[l]
    BY <1>1, <2>1, <2>4, <2>7
  <2>9. \A l \in 1 .. Len(tasks) : /\ tasks'[l].key = tasks[l].key /\ tasks'[l].edit = tasks[l].edit
                                   /\ tasks'[l].status = tasks[l].status /\ tasks'[l].link = tasks[l].link
                                   /\ Unseen(tasks', l) => l # k /\ Unseen(tasks, l)
    BY <2>4, <2>8 DEF Unseen
  <2>10. ASSUME NEW l \in 1 .. Len(tasks), Unseen(tasks', l), tasks'[l].edit = form.edit PROVE FALSE
    <3>1. Unseen(tasks, l) /\ l # k /\ tasks[l].edit = form.edit
      BY <2>9, <2>10
    <3>2. form.held.link = tasks[l].link /\ tasks[l].link # "none"
      BY <1>1, <3>1, TaskFields DEF SubmissionInv, KeysTell, PageWorkload
    <3>3. submission.edit = form.edit
      BY <1>1, <3>2 DEF SubmissionInv, SubmissionTells
    <3>4. tasks[l].key = submission.key
      BY <1>1, <3>1, <3>3 DEF SubmissionInv, SubmissionTells
    <3>5. l = k
      BY <1>1, <1>3, <3>1, <3>4 DEF SubmissionInv, SubmissionTells, Unseen, k
    <3>. QED BY <3>1, <3>5
  <2>11. form.keys \in Nat
    BY <1>1, FormFields
  <2>12. InOrderOf(form', submission', tasks')
    BY <2>3, <2>5, <2>6, <2>8, <2>9, <2>11 DEF SubmissionInv, InOrderOf
  <2>13. KeysTell(form', tasks')
    BY <2>5, <2>8, <2>9, <2>10 DEF SubmissionInv, KeysTell
  <2>14. SubmissionTells(form', submission', tasks')
    BY <2>1, <2>6, <2>8 DEF SubmissionTells, k
  <2>15. OneUnseen(tasks')
    BY <2>8, <2>9 DEF SubmissionInv, OneUnseen
  <2>. QED BY <2>5, <2>6, <2>8, <2>12, <2>13, <2>14, <2>15 DEF SubmissionInv
<1>. QED BY <1>2, <1>3

\* A task that settles or expires keeps its key and its entry.
LEMMA SettleKeeps ==
  ASSUME PageWorkload, SubmissionInv(form, submission, tasks), Settle
  PROVE  SubmissionInv(form, submission, tasks)'
<1>1. tasks \in Seq(Tasks) /\ DOMAIN tasks = 1 .. Len(tasks) /\ form' = form /\ submission' = submission
  BY DEF SubmissionInv, Settle
<1>2. PICK k \in 1 .. Len(tasks), x \in Statuses :
        tasks[k].status # "expired" /\ tasks' = [tasks EXCEPT ![k] = [tasks[k] EXCEPT !.status = x]]
  <2>1. PICK k \in DOMAIN tasks :
          \/ tasks[k].status = "queued" /\ \E s \in {"succeeded", "failed"} : SetTask(k, [tasks[k] EXCEPT !.status = s])
          \/ tasks[k].status # "expired" /\ SetTask(k, [tasks[k] EXCEPT !.status = "expired"])
    BY DEF Settle
  <2>. QED BY <1>1, <2>1 DEF SetTask, Statuses
<1>. DEFINE new == [tasks[k] EXCEPT !.status = x]
<1>3. tasks[k] \in Tasks
  BY <1>1, TaskFields
<1>4. new \in Tasks /\ new.link = tasks[k].link /\ new.key = tasks[k].key /\ new.edit = tasks[k].edit
      /\ new.seen = tasks[k].seen
  BY <1>3 DEF Tasks
<1>5. tasks' = [tasks EXCEPT ![k] = new]
  BY <1>2
<1>. HIDE DEF new
<1>6. tasks' \in Seq(Tasks) /\ Len(tasks') = Len(tasks) /\ tasks'[k] = new
      /\ \A l \in 1 .. Len(tasks) : l # k => tasks'[l] = tasks[l]
  BY <1>1, <1>4, <1>5
<1>7. \A l \in 1 .. Len(tasks) : /\ tasks'[l].key = tasks[l].key /\ tasks'[l].edit = tasks[l].edit
                                 /\ tasks'[l].seen = tasks[l].seen /\ tasks'[l].link = tasks[l].link
                                 /\ tasks'[l].status # "expired" => tasks[l].status # "expired"
  BY <1>2, <1>4, <1>6
<1>8. InOrderOf(form, submission, tasks')
  BY <1>6, <1>7 DEF SubmissionInv, InOrderOf
<1>9. KeysTell(form, tasks')
  BY <1>6, <1>7 DEF SubmissionInv, KeysTell, Unseen
<1>10. SubmissionTells(form, submission, tasks')
  BY <1>6, <1>7 DEF SubmissionInv, SubmissionTells, Unseen
<1>11. OneUnseen(tasks')
  BY <1>6, <1>7 DEF SubmissionInv, OneUnseen, Unseen
<1>. QED BY <1>1, <1>6, <1>8, <1>9, <1>10, <1>11 DEF SubmissionInv

LEMMA PollKeeps ==
  ASSUME PageWorkload, SubmissionInv(form, submission, tasks), Poll
  PROVE  SubmissionInv(form, submission, tasks)'
<1>. DEFINE k == submission.task
<1>1. form \in Forms /\ submission \in Submissions /\ tasks \in Seq(Tasks) /\ k \in 1 .. Len(tasks) /\ k \in Nat
      /\ submission.phase = "polling" /\ tasks' = tasks
  BY DEF SubmissionInv, SubmissionTells, Poll, Submissions
<1>2. tasks[k].status \in Statuses
  BY <1>1, TaskFields
<1>3. form' = [form EXCEPT !.task = k, !.status = tasks[k].status]
  BY DEF Poll
<1>4. SameEntry(form, form')
  BY <1>1, <1>2, <1>3, Buttons
<1>5. SubmissionInv(form', submission, tasks)
  BY <1>4, SameEntryKeeps
<1>6. CASE submission' = Idle
  BY <1>1, <1>5, <1>6, IdleKeeps
<1>7. CASE submission' = [submission EXCEPT !.attempt = @ + 1]
  <2>1. submission.attempt + 1 \in Nat
    BY <1>1 DEF Submissions
  <2>2. submission' \in Submissions /\ submission'.phase = "polling" /\ submission'.task = k
        /\ submission'.key = submission.key /\ submission'.edit = submission.edit
    BY <1>1, <1>7, <2>1 DEF Submissions
  <2>3. InOrderOf(form', submission', tasks) /\ SubmissionTells(form', submission', tasks)
    BY <1>1, <1>5, <2>2 DEF SubmissionInv, InOrderOf, SubmissionTells
  <2>. QED BY <1>1, <1>5, <2>2, <2>3 DEF SubmissionInv
<1>. QED BY <1>6, <1>7 DEF Poll

\* The form gets out of its submission, or its buttons change.
LEMMA FormKeeps ==
  ASSUME SubmissionInv(form, submission, tasks), SameEntry(form, form'), tasks' = tasks,
         submission' \in {submission, Idle}
  PROVE  SubmissionInv(form, submission, tasks)'
<1>1. SubmissionInv(form', submission, tasks)
  BY SameEntryKeeps
<1>. QED BY <1>1, IdleKeeps

LEMMA ExchangeKeeps ==
  ASSUME PageWorkload, SubmissionInv(form, submission, tasks), Exchange
  PROVE  SubmissionInv(form, submission, tasks)' /\ UNCHANGED <<download, visit>>
<1>1. form \in Forms
  BY DEF SubmissionInv
<1>2. UNCHANGED <<download, visit>>
  BY DEF Exchange, Type, Edit, Submit, Arrive, Answer, Lose, Poll, StopPolling, Settle, Select
<1>3. CASE Type
  BY <1>2, <1>3, EditKeeps DEF Type
<1>4. CASE Submit
  BY <1>2, <1>4, SubmitKeeps
<1>5. CASE Arrive
  BY <1>2, <1>5, ArriveKeeps
<1>6. CASE Answer
  BY <1>2, <1>6, AnswerKeeps
<1>7. CASE Lose \/ StopPolling
  <2>1. form' = [form EXCEPT !.error = TRUE] /\ submission' = Idle /\ tasks' = tasks
    BY <1>7 DEF Lose, StopPolling, Fail
  <2>2. SameEntry(form, form')
    BY <1>1, <2>1, Buttons
  <2>. QED BY <1>2, <2>1, <2>2, FormKeeps
<1>8. CASE Poll
  BY <1>2, <1>8, PollKeeps
<1>9. CASE Settle
  BY <1>2, <1>9, SettleKeeps
<1>10. CASE Select
  <2>1. form' = Forget(form) /\ submission' = submission /\ tasks' = tasks
    BY <1>10 DEF Select
  <2>2. SameEntry(form, form')
    BY <1>1, <2>1, Buttons
  <2>. QED BY <1>2, <2>1, <2>2, FormKeeps
<1>. QED BY <1>3, <1>4, <1>5, <1>6, <1>7, <1>8, <1>9, <1>10 DEF Exchange

-----------------------------------------------------------------------------
(* The downloads.  Inputs come from a visit that was answered with them, and *)
(* such a visit has ended.                                                  *)

Transferred(t, v) ==
  /\ t.phase \in {"none", "asking"} => t.inputs = 0 /\ t.total = 0
  /\ (t.phase \in Fetched /\ t.inputs > 0) \/ t.phase = "saved" => v.answer \in {"plan", "redirect"}
  /\ t.total <= ClientLimit
  /\ t.phase = "saved" => t.total # 0

PageInv ==
  /\ SubmissionInv(form, submission, tasks)
  /\ download \in [Downloads -> Transfers]
  /\ GatewayInv
  /\ \A d \in Downloads : Transferred(download[d], visit[d])

LEMMA TransferFields ==
  ASSUME NEW t \in Transfers
  PROVE  /\ t.phase \in {"none", "asking", "saved", "left", "done"} \cup Fetched
         /\ t.kind \in {"none", "download", "fallback"} /\ t.inputs \in Nat /\ t.total \in Nat
  BY DEF Transfers

\* One download moves, with the buttons of the form.
Moving(d) ==
  /\ SameEntry(form, form')
  /\ UNCHANGED <<submission, tasks, visit>>
  /\ \E t \in Transfers : Transferred(t, visit[d]) /\ download' = [download EXCEPT ![d] = t]

LEMMA MovingKeeps ==
  ASSUME PageInv, NEW d \in Downloads, Moving(d)
  PROVE  PageInv'
<1>1. SubmissionInv(form', submission', tasks')
  BY FormKeeps DEF PageInv, Moving
<1>2. PICK t \in Transfers : Transferred(t, visit[d]) /\ download' = [download EXCEPT ![d] = t]
  BY DEF Moving
<1>3. download' \in [Downloads -> Transfers] /\ download'[d] = t
      /\ \A e \in Downloads : e # d => download'[e] = download[e]
  BY <1>2 DEF PageInv
<1>4. visit' = visit
  BY DEF Moving
<1>5. GatewayInv'
  BY <1>4 DEF PageInv, GatewayInv, GatewayTypeOK
<1>6. \A e \in Downloads : Transferred(download'[e], visit'[e])
  BY <1>2, <1>3, <1>4 DEF PageInv
<1>. QED BY <1>1, <1>3, <1>5, <1>6 DEF PageInv

LEMMA AskMoves ==
  ASSUME PageWorkload, PageInv, NEW d \in Downloads,
         (\E kind \in {"download", "fallback"} : Ask(d, kind)) /\ visit' = visit
  PROVE  Moving(d)
<1>1. PICK kind \in {"download", "fallback"} : Ask(d, kind)
  OBVIOUS
<1>2. form \in Forms /\ download[d] \in Transfers /\ Transferred(download[d], visit[d]) /\ download[d].phase = "none"
  BY <1>1 DEF PageInv, SubmissionInv, Ask
<1>3. form' = [form EXCEPT !.delivering = TRUE] /\ UNCHANGED <<submission, tasks>>
      /\ download' = [download EXCEPT ![d] = [download[d] EXCEPT !.phase = "asking", !.kind = kind]]
  BY <1>1 DEF Ask, SetDownload
<1>. DEFINE t == [download[d] EXCEPT !.phase = "asking", !.kind = kind]
<1>4. t \in Transfers /\ t.phase = "asking" /\ t.inputs = download[d].inputs /\ t.total = download[d].total
  BY <1>2 DEF Transfers
<1>5. download' = [download EXCEPT ![d] = t]
  BY <1>3
<1>. HIDE DEF t
<1>6. Transferred(t, visit[d])
  BY <1>2, <1>4 DEF Transferred, Fetched
<1>7. SameEntry(form, form')
  BY <1>2, <1>3, Buttons
<1>. QED BY <1>3, <1>4, <1>5, <1>6, <1>7 DEF Moving

LEMMA BecomeMoves ==
  ASSUME PageWorkload, PageInv, NEW d \in Downloads, NEW phase \in {"left", "done"} \cup Fetched,
         Become(d, phase), phase \in Fetched => download[d].inputs = 0,
         SameEntry(form, form'), UNCHANGED <<submission, tasks, visit>>
  PROVE  Moving(d)
<1>1. download[d] \in Transfers /\ Transferred(download[d], visit[d])
  BY DEF PageInv
<1>. DEFINE t == [download[d] EXCEPT !.phase = phase]
<1>2. t \in Transfers /\ t.phase = phase /\ t.inputs = download[d].inputs /\ t.total = download[d].total
  BY <1>1 DEF Transfers
<1>3. download' = [download EXCEPT ![d] = t]
  BY DEF Become, SetDownload
<1>. HIDE DEF t
<1>4. Transferred(t, visit[d])
  BY <1>1, <1>2 DEF Transferred, Fetched
<1>. QED BY <1>2, <1>3, <1>4 DEF Moving

LEMMA TicketMoves ==
  ASSUME PageWorkload, PageInv, NEW d \in Downloads, Ticket(d), visit' = visit
  PROVE  Moving(d)
<1>. DEFINE handoff == PolicyOf(visit[d]).handoff
            fetched == download[d].kind = "download" /\ handoff \in Fetched
            answered == [form EXCEPT !.delivering = FALSE]
<1>1. form \in Forms /\ download[d].phase = "asking" /\ download[d].inputs = 0
      /\ UNCHANGED <<submission, tasks, visit>>
  BY DEF PageInv, SubmissionInv, Ticket, Transferred
<1>2. Become(d, IF fetched THEN handoff ELSE "left")
  BY DEF Ticket
<1>3. form' = IF fetched THEN [answered EXCEPT !.saving = TRUE]
              ELSE [answered EXCEPT !.fallback = @ /\ download[d].kind # "fallback"]
  BY DEF Ticket
<1>4. answered \in Forms /\ SameEntry(form, answered)
  BY <1>1, Buttons DEF SameEntry
<1>. HIDE DEF answered
<1>5. SameEntry(form, [answered EXCEPT !.saving = TRUE])
  BY <1>4 DEF SameEntry, Forms
<1>6. ASSUME NEW x \in BOOLEAN PROVE SameEntry(form, [answered EXCEPT !.fallback = x])
  BY <1>4 DEF SameEntry, Forms
<1>7. (answered.fallback /\ download[d].kind # "fallback") \in BOOLEAN
  BY Zenon
<1>8. SameEntry(form, form')
  BY <1>3, <1>5, <1>6, <1>7
<1>9. CASE fetched
  BY <1>1, <1>2, <1>8, <1>9, BecomeMoves
<1>10. CASE ~fetched
  BY <1>1, <1>2, <1>8, <1>10, BecomeMoves DEF Fetched
<1>. QED BY <1>9, <1>10

LEMMA FinishedKeepsEntry ==
  ASSUME NEW d \in Downloads, NEW saved \in BOOLEAN, form \in Forms, Finished(d, saved)
  PROVE  SameEntry(form, form')
<1>1. (~saved /\ download[d].phase = "cors-download") \in BOOLEAN
  BY Zenon
<1>. QED BY <1>1, Buttons DEF Finished

LEMMA InputsMoves ==
  ASSUME PageWorkload, PageInv, NEW d \in Downloads, Inputs(d), visit' = visit
  PROVE  Moving(d)
<1>1. PICK n \in 1 .. InputLimit :
        /\ visit[d].answer \in {"plan", "redirect"}
        /\ download' = [download EXCEPT ![d] = [download[d] EXCEPT !.inputs = n]]
  BY DEF Inputs, SetDownload
<1>2. form \in Forms /\ form' = form /\ UNCHANGED <<submission, tasks>> /\ download[d].phase \in Fetched
      /\ download[d] \in Transfers /\ Transferred(download[d], visit[d])
  BY DEF PageInv, SubmissionInv, Inputs
<1>. DEFINE t == [download[d] EXCEPT !.inputs = n]
<1>3. n \in Nat
  BY DEF PageWorkload
<1>4. t \in Transfers /\ t.phase = download[d].phase /\ t.inputs = n /\ t.total = download[d].total
  BY <1>2, <1>3 DEF Transfers
<1>. HIDE DEF t
<1>5. Transferred(t, visit[d])
  BY <1>1, <1>2, <1>4 DEF Transferred, Fetched
<1>. QED BY <1>1, <1>2, <1>4, <1>5 DEF Moving, SameEntry, t

LEMMA ReadMoves ==
  ASSUME PageWorkload, PageInv, NEW d \in Downloads, Read(d), visit' = visit
  PROVE  Moving(d)
<1>. DEFINE ended == Processed(d)
            next == IF ended THEN "saved" ELSE download[d].phase
<1>1. PICK n \in 1 .. ClientLimit :
        /\ Fits(d, n)
        /\ download' = [download EXCEPT ![d] = [phase |-> next, kind |-> download[d].kind,
                                                inputs |-> download[d].inputs - 1, total |-> download[d].total + n]]
  BY DEF Read, SetDownload
<1>2. form \in Forms /\ UNCHANGED <<submission, tasks>> /\ download[d].phase \in Fetched
      /\ download[d] \in Transfers /\ Transferred(download[d], visit[d]) /\ download[d].inputs > 0
  BY DEF PageInv, SubmissionInv, Read
<1>3. download[d].inputs \in Nat /\ download[d].total \in Nat /\ ClientLimit \in Nat
  BY <1>2, TransferFields DEF PageWorkload
<1>4. download[d].inputs - 1 \in Nat /\ download[d].total + n \in 1 .. ClientLimit /\ download[d].total + n \in Nat
      /\ (~ended => download[d].inputs - 1 > 0)
  BY <1>1, <1>2, <1>3 DEF Fits, Processed
<1>5. next \in {"saved"} \cup Fetched
  BY <1>2
<1>. DEFINE t == [phase |-> next, kind |-> download[d].kind, inputs |-> download[d].inputs - 1,
                  total |-> download[d].total + n]
<1>6. download' = [download EXCEPT ![d] = t]
  BY <1>1
<1>7. t \in Transfers
  BY <1>2, <1>4, <1>5, TransferFields DEF Transfers
<1>8. Transferred(t, visit[d])
  BY <1>2, <1>3, <1>4, <1>5 DEF Transferred, Fetched
<1>9. SameEntry(form, form')
  <2>1. CASE ended
    BY <1>2, <2>1, FinishedKeepsEntry DEF Read
  <2>2. CASE ~ended
    BY <1>2, <2>2 DEF Read, SameEntry
  <2>. QED BY <2>1, <2>2
<1>. QED BY <1>2, <1>6, <1>7, <1>8, <1>9 DEF Moving

\* A visit moves, and the page does not.
LEMMA VisitingKeepsPage ==
  ASSUME PageInv, NEW d \in Downloads, Visiting(d), UNCHANGED pageVars
  PROVE  PageInv'
<1>1. GatewayInv /\ GatewayInv' /\ \A e \in Downloads : visit[e].phase = "closed" => visit'[e] = visit[e]
  BY VisitingKeeps DEF PageInv
<1>2. form' = form /\ submission' = submission /\ tasks' = tasks /\ download' = download
  BY DEF pageVars
<1>3. ASSUME NEW e \in Downloads PROVE Transferred(download[e], visit'[e])
  <2>1. visit[e].answer \in {"plan", "redirect"} => visit'[e] = visit[e]
    BY <1>1 DEF GatewayInv, Delivered
  <2>. QED BY <2>1 DEF PageInv, Transferred
<1>. QED BY <1>1, <1>2, <1>3 DEF PageInv

LEMMA DeliverKeeps ==
  ASSUME PageWorkload, PageInv, NEW d \in Downloads, Deliver(d)
  PROVE  PageInv'
<1>1. form \in Forms /\ GatewayInv
  BY DEF PageInv, SubmissionInv
<1>2. CASE (\E kind \in {"download", "fallback"} : Ask(d, kind)) /\ visit' = visit
  BY <1>2, AskMoves, MovingKeeps
<1>3. CASE AskFails(d) /\ visit' = visit
  <2>1. form' = [form EXCEPT !.delivering = FALSE] /\ Become(d, "done") /\ UNCHANGED <<submission, tasks, visit>>
    BY <1>3 DEF AskFails
  <2>2. SameEntry(form, form')
    BY <1>1, <2>1, Buttons
  <2>. QED BY <2>1, <2>2, BecomeMoves, MovingKeeps DEF Fetched
<1>4. CASE Ticket(d) /\ visit' = visit
  BY <1>4, TicketMoves, MovingKeeps
<1>5. CASE Inputs(d) /\ visit' = visit
  BY <1>5, InputsMoves, MovingKeeps
<1>6. CASE Read(d) /\ visit' = visit
  BY <1>6, ReadMoves, MovingKeeps
<1>7. CASE Abort(d) /\ visit' = visit
  <2>1. Finished(d, FALSE) /\ Become(d, "done") /\ UNCHANGED <<submission, tasks, visit>>
    BY <1>7 DEF Abort
  <2>2. SameEntry(form, form')
    BY <1>1, <2>1, FinishedKeepsEntry
  <2>. QED BY <2>1, <2>2, BecomeMoves, MovingKeeps DEF Fetched
<1>8. CASE (Issue(d) \/ Open(d) \/ GatewayStep(d)) /\ UNCHANGED pageVars
  BY <1>1, <1>8, GatewayMoves, VisitingKeepsPage
<1>. QED BY <1>2, <1>3, <1>4, <1>5, <1>6, <1>7, <1>8 DEF Deliver, AskGateway, OpenTicket

LEMMA PageNextHolds == ASSUME PageWorkload PROVE PageInv /\ [PageNext]_allVars => PageInv'
<1>. SUFFICES ASSUME PageInv, [PageNext]_allVars PROVE PageInv'
  OBVIOUS
<1>1. CASE Exchange
  <2>1. SubmissionInv(form, submission, tasks)' /\ UNCHANGED <<download, visit>>
    BY <1>1, ExchangeKeeps DEF PageInv
  <2>2. GatewayInv'
    BY <2>1 DEF PageInv, GatewayInv, GatewayTypeOK
  <2>. QED BY <2>1, <2>2 DEF PageInv
<1>2. ASSUME NEW d \in Downloads, Deliver(d) PROVE PageInv'
  BY <1>2, DeliverKeeps
<1>3. CASE UNCHANGED allVars
  BY <1>3 DEF allVars, pageVars, PageInv, SubmissionInv, InOrderOf, KeysTell, SubmissionTells, OneUnseen, Unseen,
              GatewayInv, GatewayTypeOK
<1>. QED BY <1>1, <1>2, <1>3 DEF PageNext

LEMMA PageInitHolds == ASSUME PageWorkload PROVE PageInitial => PageInv
<1>. SUFFICES ASSUME PageInitial PROVE PageInv
  OBVIOUS
<1>1. NoKey \in [link : Links \cup {"none"}, key : Nat] /\ NoKey.link = "none" /\ NoKey.key = 0
  BY DEF NoKey
<1>2. form = [link |-> "none", edit |-> 0, keys |-> 0, held |-> NoKey, task |-> 0, status |-> "none",
              error |-> FALSE, delivering |-> FALSE, saving |-> FALSE, fallback |-> FALSE]
  BY DEF PageInitial, PageInit
<1>3. form \in Forms /\ form.link = "none" /\ form.edit = 0 /\ form.keys = 0 /\ form.held = NoKey
  BY <1>1, <1>2 DEF Forms
<1>4. submission = Idle /\ tasks = <<>> /\ Len(tasks) = 0 /\ tasks \in Seq(Tasks)
  BY DEF PageInitial, PageInit
<1>5. Idle \in Submissions /\ Idle.phase = "idle" /\ Idle.key = 0 /\ Idle.edit = 0
  BY DEF Idle, Submissions
<1>6. SubmissionInv(form, submission, tasks)
  BY <1>1, <1>3, <1>4, <1>5 DEF SubmissionInv, InOrderOf, KeysTell, SubmissionTells, OneUnseen
<1>7. ASSUME NEW d \in Downloads PROVE download[d] = Waiting /\ visit[d] = Unasked
  BY DEF PageInitial, PageInit, GatewayInit
<1>8. Waiting \in Transfers /\ Waiting.phase = "none" /\ Waiting.inputs = 0 /\ Waiting.total = 0
  BY DEF Waiting, Transfers
<1>9. download \in [Downloads -> Transfers] /\ DOMAIN visit = Downloads
  BY <1>7, <1>8 DEF PageInitial, PageInit, GatewayInit
<1>10. ASSUME NEW d \in Downloads PROVE Unasked \in Visits(d) /\ Delivered(Unasked)
  BY DEF Unasked, Visits, Delivered, Sizes, Verdicts, Answers, PageWorkload, GatewayAssumption
<1>11. GatewayInv
  BY <1>7, <1>9, <1>10 DEF GatewayInv, GatewayTypeOK
<1>12. ASSUME NEW d \in Downloads PROVE Transferred(download[d], visit[d])
  <2>1. 0 <= ClientLimit
    BY DEF PageWorkload
  <2>2. download[d].phase = "none" /\ download[d].inputs = 0 /\ download[d].total = 0
    BY <1>7, <1>8
  <2>. QED BY <2>1, <2>2 DEF Transferred, Fetched
<1>. QED BY <1>6, <1>9, <1>11, <1>12 DEF PageInv

\* The inductive invariant of the page and its gateway: a key has one live
\* task, the unseen tasks of the form's entry are those of the key it holds,
\* and inputs come from visits that ended with them.
THEOREM PageInvariant == ASSUME PageWorkload PROVE PageSpec => []PageInv
<1>1. PageInitial => PageInv
  BY PageInitHolds
<1>2. PageInv /\ [PageNext]_allVars => PageInv'
  BY PageNextHolds
<1>. QED BY <1>1, <1>2, PTL DEF PageSpec

\* A submission that was lost and is sent again replays its task: an entry of
\* the link has at most one live task that the page does not know of, however
\* the answers, the edits and the expiry of tasks interleave (submit).
THEOREM RetriesStayOneTask == ASSUME PageWorkload PROVE PageSpec => []RetriesCreateOneTask
<1>1. PageInv => RetriesCreateOneTask
  <2>. SUFFICES ASSUME PageInv, NEW e \in 0 .. VisitLimit
                PROVE  Cardinality({k \in DOMAIN tasks : tasks[k].edit = e /\ ~tasks[k].seen
                                                         /\ tasks[k].status # "expired"}) <= 1
    BY DEF RetriesCreateOneTask
  <2>. DEFINE U == {k \in DOMAIN tasks : tasks[k].edit = e /\ ~tasks[k].seen /\ tasks[k].status # "expired"}
  <2>1. \A k, l \in U : k = l
    BY DEF PageInv, SubmissionInv, OneUnseen, Unseen
  <2>. HIDE DEF U
  <2>2. ASSUME U = {} PROVE Cardinality(U) <= 1
    <3>1. Cardinality({}) = 0
      BY FS_EmptySet
    <3>. QED BY <2>2, <3>1
  <2>3. ASSUME NEW k \in U PROVE Cardinality(U) <= 1
    <3>1. U = {k}
      BY <2>1
    <3>. QED BY <3>1, FS_Singleton
  <2>. QED BY <2>2, <2>3 DEF U
<1>. QED BY <1>1, PageInvariant, PTL

\* A file is saved from a ticket on record as passed, all its inputs together
\* within the client's limit (startDownload, downloadCorsBlob).
THEOREM SavedFilesAreBounded == ASSUME PageWorkload PROVE PageSpec => []SavedIsBounded
<1>1. PageInv => SavedIsBounded
  <2>. SUFFICES ASSUME PageInv, NEW d \in Downloads, download[d].phase = "saved"
                PROVE  /\ visit[d].outcome = "passed" /\ visit[d].answer \in {"plan", "redirect"}
                       /\ download[d].total \in 1 .. ClientLimit
    BY DEF SavedIsBounded
  <2>1. download[d] \in Transfers /\ Transferred(download[d], visit[d]) /\ Delivered(visit[d])
    BY DEF PageInv, GatewayInv
  <2>2. download[d].total \in Nat /\ ClientLimit \in Nat
    BY <2>1, TransferFields DEF PageWorkload
  <2>. QED BY <2>1, <2>2 DEF Transferred, Delivered
<1>. QED BY <1>1, PageInvariant, PTL

\* A body on record as passed was sent whole and within its policy's limit,
\* and every address reached or handed out was reviewed, at each hop of a
\* relay (GET /d/:token, assertDeliveryTargetPolicy).
THEOREM DeliveriesAreReviewed == ASSUME PageWorkload PROVE PageSpec => []DeliveredAsReviewed
<1>1. PageInv => DeliveredAsReviewed
  BY DEF PageInv, GatewayInv, Delivered, DeliveredAsReviewed, PassedMeansWhole, ReachesReviewedOnly
<1>. QED BY <1>1, PageInvariant, PTL

=============================================================================
