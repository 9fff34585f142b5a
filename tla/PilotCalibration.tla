--------------------------- MODULE PilotCalibration ---------------------------
(***************************************************************************)
(* What a provider's promotion rests on, for one provider, platform and    *)
(* region: the daily summaries of its internal traffic, how they are       *)
(* sealed and, when their time is over, deleted; the calibration proposals *)
(* that cite three of them, the policies locked from these, and the        *)
(* owner's reviews that move the qualification from stage to stage.        *)
(*                                                                         *)
(* The service reads the state before the transaction it then asks for.    *)
(* That transaction looks for the qualification's row, which it locks if   *)
(* there is one; it locks nothing while there is none, so that of several  *)
(* first commands each saves its own outcome over those of the others.     *)
(*                                                                         *)
(* A day is a number.  A summary is the number of observations it counts,  *)
(* and a day without any has no row.                                       *)
(***************************************************************************)
EXTENDS Integers, FiniteSets

CONSTANTS
  Reviews,                  \* requests of the administration to review or lock
  FirstDay, LastDay,        \* the first and the last day of the search
  RebuildDays,              \* days an evidence cycle builds again; 4 by default, 35 at most
  Retention,                \* days after which a summary's time is over; 401
  MinimumSamples,           \* a day's samples that a policy asks for
  Windows,                  \* <<first, last>> day of the windows that are proposed
  ProposalBound,            \* bound on the search: proposals
  ObservationBound, RevisionBound,  \* bounds on the search, for each day
  ReviewBound               \* bound on the search: revisions of the qualification

VARIABLES
  today,       \* the UTC day
  observed,    \* source rows of each day, and those ingested after its sealing time
  evidence,    \* provider_daily_evidence with provider_late_evidence_counts
  proposals,   \* provider_calibration_proposals, oldest first, and the policies locked from them
  qualified,   \* provider_qualification_reviews
  review       \* what each request is doing

Days == 1 .. LastDay

\* What the properties need of the constants.  No cycle comes back to a day
\* whose summary may be deleted.
CalibrationWorkload ==
  /\ FirstDay \in Nat \ {0} /\ LastDay \in Nat /\ FirstDay <= LastDay
  /\ RebuildDays \in Nat /\ Retention \in Nat /\ Retention > RebuildDays
  /\ Windows \subseteq Days \X Days
  /\ ProposalBound \in Nat
  /\ RevisionBound \in [Days -> Nat]
  /\ ReviewBound \in Nat \ {0}

calibrationVars == <<today, observed, evidence, proposals, qualified, review>>

Stages == 0 .. 5   \* candidate, fixture-ready, canary-ready, internal, limited, stable
Candidate == 0     \* what a tuple without a row is shown as
Internal == 3
Limited == 4

Numbers == 1 .. ProposalBound
Places == 1 .. 3
\* Three days in order.
Triples == {t \in [Places -> Days] : t[1] < t[2] /\ t[2] < t[3]}
DaysOf(t) == {t[1], t[2], t[3]}

SourceRows == [all : Nat, late : Nat]
DailyEvidence == [completeness : {"none", "open", "complete", "sealed"},
                  revision : Nat, samples : Nat, late : Nat]
\* A policy has the number of its proposal for a version.  It was locked on the
\* days `found` then; without a policy there are none.
Proposal ==
  [ status : {"proposed", "locked", "rejected"}, window : Days \X Days,
    days : Triples, revisions : [Places -> Nat], samples : [Places -> Nat],
    found : SUBSET Days, live : BOOLEAN ]
Qualification == [stage : Stages, revision : 0 .. ReviewBound, paused : BOOLEAN]
Command == [phase : {"new", "checked"}, kind : {"approve", "hold", "lock"},
            target : Stages, expected : 0 .. ReviewBound - 1, proposal : 0 .. ProposalBound]

NewReview == [phase |-> "new", kind |-> "hold", target |-> 0, expected |-> 0, proposal |-> 0]
NoProposal == [status |-> "none", found |-> {}, live |-> FALSE]

CalibrationTypeOK ==
  /\ today \in FirstDay .. LastDay
  /\ observed \in [Days -> SourceRows] /\ evidence \in [Days -> DailyEvidence]
  /\ proposals \in [Numbers -> Proposal \cup {NoProposal}]
  /\ qualified \in Qualification
  /\ review \in [Reviews -> Command]

Summary(completeness, revision, samples, late) ==
  [completeness |-> completeness, revision |-> revision, samples |-> samples, late |-> late]
NoSummary == Summary("none", 0, 0, 0)

\* A day is sealed 48 hours after its end.
Completeness(d, now) ==
  IF now <= d THEN "open" ELSE IF now < d + 3 THEN "complete" ELSE "sealed"

\* All days before FirstDay but the last have their summary.  Nobody has
\* reviewed the tuple.
CalibrationInit ==
  /\ today = FirstDay
  /\ observed = [d \in Days |-> [all |-> IF d + 2 <= FirstDay THEN 1 ELSE 0, late |-> 0]]
  /\ evidence = [d \in Days |->
       IF d + 2 > FirstDay THEN NoSummary
       ELSE Summary(Completeness(d, FirstDay), IF d + 3 <= FirstDay THEN 2 ELSE 1, 1, 0)]
  /\ proposals = [n \in Numbers |-> NoProposal]
  /\ qualified = [stage |-> Candidate, revision |-> 0, paused |-> TRUE]
  /\ review = [r \in Reviews |-> NewReview]

---------------------------------------------------------------------------
(* Daily summaries.                                                        *)

NextDay ==
  /\ today < LastDay /\ today' = today + 1
  /\ UNCHANGED <<observed, evidence, proposals, qualified, review>>

\* An outcome of the day is ingested, possibly days after it occurred.
RecordOutcome(d) ==
  /\ d <= today /\ observed[d].all < ObservationBound[d]
  /\ observed' = [observed EXCEPT ![d] =
       [all |-> observed[d].all + 1,
        late |-> IF Completeness(d, today) = "sealed" THEN observed[d].late + 1 ELSE observed[d].late]]
  /\ UNCHANGED <<today, evidence, proposals, qualified, review>>

Sealed(d) == evidence[d].completeness = "sealed"

\* A fault: a day is built again as long as cycles come to it.
NeverExcluded(d) == FALSE

\* The days a rebuild leaves as they are.
Excluded(d) == Sealed(d)

\* One day of an evidence cycle that began on the day `now`.  A sealed summary
\* stays and what came late is counted beside it.  A cycle builds its days in
\* order, and may fail at any of them.
RebuildUtcDay(d, now) ==
  /\ d \in now - RebuildDays + 1 .. now
  /\ IF Excluded(d)
       THEN evidence' = [evidence EXCEPT ![d] =
              Summary(evidence[d].completeness, evidence[d].revision, evidence[d].samples, observed[d].late)]
       ELSE /\ observed[d].all > 0 /\ evidence[d].revision < RevisionBound[d]
            /\ evidence' = [evidence EXCEPT ![d] =
                 Summary(Completeness(d, now), evidence[d].revision + 1, observed[d].all, evidence[d].late)]
  /\ UNCHANGED <<today, observed, proposals, qualified, review>>

\* The summary's time is over: nobody is shown it any more, and a cleanup
\* deletes it with what was counted beside it.
Lapsed(d) == today >= d + Retention
Visible == {d \in Days : evidence[d].completeness # "none" /\ ~Lapsed(d)}

RemoveEvidence(d) ==
  /\ evidence[d].completeness # "none" /\ Lapsed(d)
  /\ evidence' = [evidence EXCEPT ![d] = NoSummary]
  /\ UNCHANGED <<today, observed, proposals, qualified, review>>

---------------------------------------------------------------------------
(* Proposals and policies.                                                 *)

VisibleIn(window) == {d \in Visible : d \in window[1] .. window[2]}
Revisions(t) == [i \in Places |-> evidence[t[i]].revision]
Samples(t) == [i \in Places |-> evidence[t[i]].samples]
\* The days are the three sealed ones of the window.
SealedDays(t, window) == VisibleIn(window) = DaysOf(t) /\ \A i \in Places : Sealed(t[i])

Made == {n \in Numbers : proposals[n].status # "none"}
Newest(n) == n \in Made /\ \A m \in Made : m <= n

\* The owner's tooling proposes whatever else is proposed or locked already.
CreateCalibrationProposal(n) ==
  /\ n \notin Made /\ \A m \in Numbers : m < n => m \in Made
  /\ \E window \in Windows, t \in Triples :
       /\ SealedDays(t, window)
       /\ proposals' = [proposals EXCEPT ![n] =
            [status |-> "proposed", window |-> window, days |-> t, revisions |-> Revisions(t),
             samples |-> Samples(t), found |-> {}, live |-> FALSE]]
  /\ UNCHANGED <<today, observed, evidence, qualified, review>>

Decided(n, status, found) ==
  LET p == proposals[n]
  IN [status |-> status, window |-> p.window, days |-> p.days, revisions |-> p.revisions,
      samples |-> p.samples, found |-> found, live |-> found # {}]

\* The evidence owner's own review of a proposal writes no policy.
ReviewCalibrationProposal(n) ==
  \E status \in {"locked", "rejected"} :
    /\ proposals[n].status = "proposed"
    /\ proposals' = [proposals EXCEPT ![n] = Decided(n, status, {})]
    /\ UNCHANGED <<today, observed, evidence, qualified, review>>

HasPolicy(n) == proposals[n].found # {}

\* The policy of the highest version is the tuple's policy.
PolicyLocked ==
  \E n \in Numbers : /\ HasPolicy(n) /\ proposals[n].live
                     /\ \A m \in Numbers : HasPolicy(m) => m <= n

---------------------------------------------------------------------------
(* View and commands.                                                      *)

\* The three days a view shows are the latest that have a row.
ShownDays == {d \in Visible : Cardinality({e \in Visible : e > d}) < 3}

\* They are consecutive; the newest proposal is compared with them by its
\* revisions, not by its days.
CalibrationComplete ==
  \E d \in Days, n \in Numbers :
    /\ ShownDays = d .. d + 2 /\ Newest(n)
    /\ \A i \in Places : /\ Sealed(d + i - 1) /\ evidence[d + i - 1].samples >= MinimumSamples
                         /\ evidence[d + i - 1].revision = proposals[n].revisions[i]

\* The prerequisites of a stage, without the canary and the guard: these are
\* other components', with any answer at any time.
Prerequisites(target) == target >= Limited => CalibrationComplete /\ PolicyLocked

\* A hold or a denial keeps the stage.
Keeps(target) == target = qualified.stage

\* The service's checks of a review, on the state it has read.
CheckReview(r) ==
  \E kind \in {"approve", "hold"}, target \in Stages :
    /\ review[r].phase = "new" /\ qualified.revision < ReviewBound
    /\ kind = "hold" => Keeps(target)
    /\ kind = "approve" => target = qualified.stage + 1 /\ Prerequisites(target)
    /\ review' = [review EXCEPT ![r] = [phase |-> "checked", kind |-> kind, target |-> target,
                                        expected |-> qualified.revision, proposal |-> 0]]
    /\ UNCHANGED <<today, observed, evidence, proposals, qualified>>

CheckLock(r) ==
  \E n \in Numbers :
    /\ review[r].phase = "new" /\ qualified.revision < ReviewBound
    /\ CalibrationComplete /\ Newest(n) /\ proposals[n].status = "proposed"
    /\ review' = [review EXCEPT ![r] = [phase |-> "checked", kind |-> "lock", target |-> 0,
                                        expected |-> qualified.revision, proposal |-> n]]
    /\ UNCHANGED <<today, observed, evidence, proposals, qualified>>

\* The command may go on.  When it expects no row, it may have looked for one
\* while there was none, and it saves whatever there is by now; otherwise it
\* holds the row's lock from the comparison of the revisions on.
Passed(c) == c.phase = "checked" /\ (c.expected = 0 \/ c.expected = qualified.revision)

\* A request is free for the next command once it is answered.
Answer(r) == review' = [review EXCEPT ![r] = NewReview]

\* Only the revision is checked again, and that a hold does not move the stage
\* of a row that was found.
CommitReview(r) ==
  LET c == review[r]
  IN /\ c.kind # "lock" /\ Passed(c)
     /\ c.kind = "hold" /\ c.expected # 0 => c.target = qualified.stage
     /\ qualified' = [stage |-> c.target, revision |-> c.expected + 1, paused |-> c.kind # "approve"]
     /\ Answer(r)
     /\ UNCHANGED <<today, observed, evidence, proposals>>

\* The exact three sealed revisions are looked for again.  A tuple without a
\* row becomes an internal one.
CommitLock(r) ==
  LET c == review[r]
      n == c.proposal
  IN /\ c.kind = "lock" /\ Passed(c)
     /\ n \in Numbers /\ proposals[n].status = "proposed"
     /\ \E t \in Triples :
          /\ SealedDays(t, proposals[n].window) /\ Revisions(t) = proposals[n].revisions
          /\ proposals' = [proposals EXCEPT ![n] = Decided(n, "locked", DaysOf(t))]
     /\ qualified' = [stage |-> IF qualified.revision = 0 THEN Internal ELSE qualified.stage,
                      revision |-> c.expected + 1,
                      paused |-> qualified.revision = 0 \/ qualified.paused]
     /\ Answer(r)
     /\ UNCHANGED <<today, observed, evidence>>

\* The state has changed since it was checked, or the transaction fails.
RefuseCommand(r) ==
  /\ review[r].phase # "new"
  /\ Answer(r)
  /\ UNCHANGED <<today, observed, evidence, proposals, qualified>>

PolicyExpires(n) ==
  LET p == proposals[n]
  IN /\ p.live
     /\ proposals' = [proposals EXCEPT ![n] =
          [status |-> p.status, window |-> p.window, days |-> p.days, revisions |-> p.revisions,
           samples |-> p.samples, found |-> p.found, live |-> FALSE]]
     /\ UNCHANGED <<today, observed, evidence, qualified, review>>

CalibrationNext ==
  \/ NextDay
  \/ \E d \in Days : RecordOutcome(d) \/ RemoveEvidence(d)
  \/ \E d \in Days, now \in {today - 1, today} \cap Days : RebuildUtcDay(d, now)
  \/ \E n \in Numbers : CreateCalibrationProposal(n) \/ ReviewCalibrationProposal(n) \/ PolicyExpires(n)
  \/ \E r \in Reviews : \/ CheckReview(r) \/ CheckLock(r) \/ CommitReview(r)
                        \/ CommitLock(r) \/ RefuseCommand(r)

CalibrationSpec == CalibrationInit /\ [][CalibrationNext]_calibrationVars

---------------------------------------------------------------------------
(* Properties.                                                             *)

\* The three days that a proposal cites are in order, and each summary is the
\* sealed one its owner saw as long as there is one: whatever is observed or
\* rebuilt afterwards, by whichever cycle, does not move what was calibrated
\* on.  A summary that is gone was deleted after its time, and none comes back
\* in its place.
CalibrationStands ==
  \A n \in Made : \A i \in Places :
    LET day == proposals[n].days[i]
    IN \/ /\ Sealed(day) /\ evidence[day].revision = proposals[n].revisions[i]
          /\ evidence[day].samples = proposals[n].samples[i]
       \/ evidence[day].completeness = "none" /\ Lapsed(day)

\* A policy is locked on the very days that its proposal cites, however many
\* proposals there are, and however late it is locked; only when the time of
\* one of these days is over may three others have taken their place.
LockedAsProposed ==
  \A n \in Made :
    HasPolicy(n) => \/ proposals[n].found = DaysOf(proposals[n].days)
                    \/ \E i \in Places : Lapsed(proposals[n].days[i])

\* A tuple has limited or stable traffic only after a calibration was locked
\* as a policy, by whatever sequence of reviews, holds, locks and refused
\* commands of several administrators it came there, first commands that
\* overwrite each other included.
TrafficIsCalibrated == qualified.stage >= Limited => \E n \in Numbers : HasPolicy(n)

\* All three: what a calibration rests on stands, a policy rests on what was
\* proposed, and public traffic has a locked policy.
CalibrationHolds == CalibrationStands /\ LockedAsProposed /\ TrafficIsCalibrated

=============================================================================
