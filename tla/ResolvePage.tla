------------------------------ MODULE ResolvePage ------------------------------
(***************************************************************************)
(* The page of apps/web: the form that asks for a resolve task, polls it   *)
(* and downloads a format of its result through the delivery gateway, of   *)
(* which DeliveryGateway is the other half.                                *)
(*                                                                         *)
(* The form allows one submission at a time.  A download goes on when the  *)
(* link is edited or another format selected, so that two may run.  What   *)
(* the page only shows (messages, the ticket, the thumbnail) is left out.  *)
(* A request the page gives up has reached the API by then, or never will. *)
(***************************************************************************)
EXTENDS DeliveryGateway, FiniteSets

CONSTANTS
  Links,        \* links of a platform that is detected
  PollLimit,    \* resolvePollMaxAttempts
  ClientLimit,  \* CLIENT_DOWNLOAD_MAX_BYTES
  VisitLimit,   \* a bound: edits of the link, tasks and tickets, together
  InputLimit    \* a bound: inputs of a plan

VARIABLES
  form,         \* the link, its idempotency key, the task shown, the buttons
  submission,   \* the submission under way
  tasks,        \* the tasks of the API, in order
  download      \* what the page does with each ticket

pageVars == <<form, submission, tasks, download>>

\* What the theorems and the runs assume.
PageWorkload ==
  /\ GatewayAssumption
  /\ "none" \notin Links
  /\ PollLimit \in Nat /\ ClientLimit \in Nat /\ VisitLimit \in Nat /\ InputLimit \in Nat

NoKey == [link |-> "none", key |-> 0]
Idle == [phase |-> "idle", link |-> "none", edit |-> 0, key |-> 0, task |-> 0, attempt |-> 0]
Waiting == [phase |-> "none", kind |-> "none", inputs |-> 0, total |-> 0]
Statuses == {"queued", "succeeded", "failed", "expired"}
Fetched == {"cors-download", "client-process"}
Busy == submission.phase # "idle"
Visited == form.edit + Len(tasks) + Cardinality({d \in Downloads : download[d].phase # "none"})

Forms ==
  [link : Links \cup {"none"}, edit : Nat, keys : Nat, held : [link : Links \cup {"none"}, key : Nat],
   task : Nat, status : Statuses \cup {"none"}, error : BOOLEAN,
   delivering : BOOLEAN, saving : BOOLEAN, fallback : BOOLEAN]
Submissions ==
  [phase : {"idle", "sent", "answered", "polling"}, link : Links \cup {"none"}, edit : Nat, key : Nat,
   task : Nat, attempt : Nat]
Tasks == [link : Links, key : Nat, edit : Nat, status : Statuses, seen : BOOLEAN]
Transfers ==
  [phase : {"none", "asking", "saved", "left", "done"} \cup Fetched, kind : {"none", "download", "fallback"},
   inputs : Nat, total : Nat]

PageTypeOK ==
  /\ form \in Forms
  /\ submission \in Submissions
  /\ tasks \in Seq(Tasks)
  /\ download \in [Downloads -> Transfers]

PageInit ==
  /\ form = [link |-> "none", edit |-> 0, keys |-> 0, held |-> NoKey, task |-> 0, status |-> "none",
             error |-> FALSE, delivering |-> FALSE, saving |-> FALSE, fallback |-> FALSE]
  /\ submission = Idle
  /\ tasks = <<>>
  /\ download = [d \in Downloads |-> Waiting]

\* What an edit, a new submission or a new selection forgets; the download
\* under way is not stopped.
Forget(f) == [f EXCEPT !.saving = FALSE, !.fallback = FALSE]
ForgetTask(f) == [Forget(f) EXCEPT !.task = 0, !.status = "none", !.error = FALSE]

---------------------------------------------------------------------------
(* The submission.                                                         *)

\* onChange and clearLink.
Edit(link) ==
  /\ Visited < VisitLimit
  /\ form' = [ForgetTask(form) EXCEPT !.link = link, !.edit = @ + 1, !.held = NoKey]
  /\ UNCHANGED <<submission, tasks, download>>

\* A fault: every submission has a key of its own.
KeyForEach(f) == f.keys + 1

\* crypto.randomUUID, unless this link has a key that was not answered.
KeyFor(f) == IF f.held.link = f.link THEN f.held.key ELSE f.keys + 1

Submit ==
  LET key == KeyFor(form)
  IN /\ form.link \in Links /\ ~Busy
     /\ form' = [ForgetTask(form) EXCEPT !.held = [link |-> form.link, key |-> key],
                                         !.keys = IF key > @ THEN key ELSE @]
     /\ submission' = [phase |-> "sent", link |-> form.link, edit |-> form.edit, key |-> key,
                        task |-> 0, attempt |-> 0]
     /\ UNCHANGED <<tasks, download>>

\* The API: a key replays its task, a link that is being resolved is a
\* duplicate, the limits may refuse, and else there is a new task.
Arrive ==
  LET replayed == {k \in DOMAIN tasks : tasks[k].key = submission.key /\ tasks[k].status # "expired"}
      active == \E k \in DOMAIN tasks : tasks[k].link = submission.link /\ tasks[k].status = "queued"
      answer(k) == submission' = [submission EXCEPT !.phase = "answered", !.task = k]
      new == [link |-> submission.link, key |-> submission.key, edit |-> submission.edit,
              status |-> "queued", seen |-> FALSE]
  IN /\ submission.phase = "sent"
     /\ \/ replayed # {} /\ (\E k \in replayed : answer(k)) /\ tasks' = tasks
        \/ replayed = {} /\ answer(0) /\ tasks' = tasks
        \/ replayed = {} /\ ~active /\ Visited < VisitLimit
           /\ tasks' = Append(tasks, new) /\ answer(Len(tasks) + 1)
     /\ UNCHANGED <<form, download>>

SetTask(k, t) == tasks' = [tasks EXCEPT ![k] = t]

Fail ==
  /\ form' = [form EXCEPT !.error = TRUE]
  /\ submission' = Idle

\* The answer: a refusal keeps the key, a task makes it obsolete.
Answer ==
  LET k == submission.task
  IN /\ submission.phase = "answered"
     /\ IF k = 0 THEN Fail /\ tasks' = tasks
        ELSE /\ form' = [form EXCEPT !.held = NoKey, !.task = k, !.status = tasks[k].status]
             /\ submission' = [submission EXCEPT !.phase = "polling"]
             /\ SetTask(k, [tasks[k] EXCEPT !.seen = TRUE])
     /\ UNCHANGED download

\* The request, its answer or a poll is lost, or the answer to the poll is
\* not a task.
Lose ==
  /\ Busy
  /\ Fail
  /\ UNCHANGED <<tasks, download>>

\* One round of pollTask.  The task is shown whatever link the form has now.
Poll ==
  LET k == submission.task
      over == tasks[k].status # "queued"
  IN /\ submission.phase = "polling" /\ submission.attempt < PollLimit
     /\ form' = [form EXCEPT !.task = k, !.status = tasks[k].status]
     /\ submission' = IF over THEN Idle ELSE [submission EXCEPT !.attempt = @ + 1]
     /\ UNCHANGED <<tasks, download>>

\* A fault: the polls are not counted out.
NeverGiveUp ==
  /\ submission.phase = "polling" /\ submission.attempt = PollLimit
  /\ submission' = [submission EXCEPT !.attempt = 0]
  /\ UNCHANGED <<form, tasks, download>>

\* RESOLUTION_TIMEOUT
StopPolling ==
  /\ submission.phase = "polling" /\ submission.attempt = PollLimit
  /\ Fail
  /\ UNCHANGED <<tasks, download>>

\* The worker and the cleanup, in what the page can tell of them.
Settle ==
  /\ \E k \in DOMAIN tasks :
       \/ /\ tasks[k].status = "queued"
          /\ \E s \in {"succeeded", "failed"} : SetTask(k, [tasks[k] EXCEPT !.status = s])
       \/ tasks[k].status # "expired" /\ SetTask(k, [tasks[k] EXCEPT !.status = "expired"])
  /\ UNCHANGED <<form, submission, download>>

---------------------------------------------------------------------------
(* The download.                                                           *)

\* The result and its buttons are on the page.
Ready == form.status = "succeeded" /\ ~form.error /\ ~Busy

\* selectFormat and moveFormatSelection.
Select ==
  /\ Ready
  /\ form' = Forget(form)
  /\ UNCHANGED <<submission, tasks, download>>

SetDownload(d, r) == download' = [download EXCEPT ![d] = r]
Become(d, phase) == SetDownload(d, [download[d] EXCEPT !.phase = phase])

\* requestDelivery, for the download button or for the fallback.
Ask(d, kind) ==
  /\ Ready /\ ~form.delivering /\ ~form.saving /\ download[d].phase = "none"
  /\ Visited < VisitLimit /\ \A e \in Downloads : e < d => download[e].phase # "none"
  /\ kind = "fallback" => form.fallback
  /\ SetDownload(d, [download[d] EXCEPT !.phase = "asking", !.kind = kind])
  /\ form' = [form EXCEPT !.delivering = TRUE]
  /\ UNCHANGED <<submission, tasks>>

\* No ticket, or one that has expired on its way.
AskFails(d) ==
  /\ download[d].phase = "asking"
  /\ form' = [form EXCEPT !.delivering = FALSE]
  /\ Become(d, "done")
  /\ UNCHANGED <<submission, tasks>>

\* The ticket: the page fetches it, or leaves it to the browser.
Ticket(d) ==
  LET handoff == PolicyOf(visit[d]).handoff
      fetched == download[d].kind = "download" /\ handoff \in Fetched
      answered == [form EXCEPT !.delivering = FALSE]
  IN /\ download[d].phase = "asking" /\ visit[d].phase = "issued"
     /\ Become(d, IF fetched THEN handoff ELSE "left")
     /\ form' = IF fetched THEN [answered EXCEPT !.saving = TRUE]
                ELSE [answered EXCEPT !.fallback = @ /\ download[d].kind # "fallback"]
     /\ UNCHANGED <<submission, tasks>>

\* The gateway has sent the page to the file, or sent it the plan.
Inputs(d) ==
  /\ download[d].phase \in Fetched /\ download[d].inputs = 0 /\ download[d].total = 0
  /\ \E n \in 1 .. InputLimit :
       /\ IF download[d].phase = "client-process" THEN visit[d].answer = "plan"
          ELSE visit[d].answer = "redirect" /\ n = 1
       /\ SetDownload(d, [download[d] EXCEPT !.inputs = n])
  /\ UNCHANGED <<form, submission, tasks>>

\* What the form shows at the end of a download, whose task it may not show
\* any more: a file that failed has a fallback, a plan has none.
Finished(d, saved) ==
  form' = [form EXCEPT !.saving = FALSE, !.fallback = ~saved /\ download[d].phase = "cors-download"]

\* A fault: the limit is that of each input.
FitsAlone(d, n) == n \in 1 .. ClientLimit

\* readBounded, and the loop of downloadCorsBlob.
Fits(d, n) == n \in 1 .. ClientLimit - download[d].total

\* The last input is there: a plan's output is made of them by the processor
\* of its operation, and saved.
Processed(d) == download[d].inputs = 1

\* An input is read whole; with the last one the file is saved.
Read(d) ==
  LET last == Processed(d)
  IN /\ download[d].phase \in Fetched /\ download[d].inputs > 0
     /\ \E n \in 1 .. ClientLimit :
          /\ Fits(d, n)
          /\ SetDownload(d, [phase |-> IF last THEN "saved" ELSE download[d].phase, kind |-> download[d].kind,
                            inputs |-> download[d].inputs - 1, total |-> download[d].total + n])
     /\ IF last THEN Finished(d, TRUE) ELSE form' = form
     /\ UNCHANGED <<submission, tasks>>

\* The status, the type, the size, the processor or the network will not do,
\* or the timeout has passed.
Abort(d) ==
  /\ download[d].phase \in Fetched
  /\ Become(d, "done")
  /\ Finished(d, FALSE)
  /\ UNCHANGED <<submission, tasks>>

---------------------------------------------------------------------------
(* The page and the gateway.                                               *)

AskGateway(d) == download[d].phase = "asking" /\ Issue(d) /\ UNCHANGED pageVars
OpenTicket(d) == download[d].phase \in Fetched \cup {"left"} /\ Open(d) /\ UNCHANGED pageVars

PageInitial == PageInit /\ GatewayInit

Type == \E link \in Links \cup {"none"} : Edit(link)

Exchange ==
  (Type \/ Submit \/ Arrive \/ Answer \/ Lose \/ Poll \/ StopPolling \/ Settle \/ Select) /\ UNCHANGED visit

Deliver(d) ==
  \/ /\ \E kind \in {"download", "fallback"} : Ask(d, kind)
     /\ UNCHANGED visit
  \/ (AskFails(d) \/ Ticket(d) \/ Inputs(d) \/ Read(d) \/ Abort(d)) /\ UNCHANGED visit
  \/ AskGateway(d)
  \/ OpenTicket(d)
  \/ GatewayStep(d) /\ UNCHANGED pageVars

PageNext == Exchange \/ \E d \in Downloads : Deliver(d)

allVars == <<pageVars, visit>>

\* A request is answered or lost, an interval passes, and downloads time out.
PageFairness ==
  /\ WF_allVars((Arrive \/ Answer \/ Poll \/ StopPolling) /\ UNCHANGED visit)
  /\ \A d \in Downloads : WF_allVars((AskFails(d) \/ Ticket(d) \/ Abort(d)) /\ UNCHANGED visit)

PageSpec == PageInitial /\ [][PageNext]_allVars /\ PageFairness

---------------------------------------------------------------------------
(* Properties.                                                             *)

\* However often a submission is lost and sent again, the visitor has at most
\* one live task the page does not know of for a link as it was entered.
RetriesCreateOneTask ==
  \A e \in 0 .. VisitLimit :
    Cardinality({k \in DOMAIN tasks : tasks[k].edit = e /\ ~tasks[k].seen
                                      /\ tasks[k].status # "expired"}) <= 1

\* A file the page saves came through a ticket on record as passed, and all of
\* its inputs together are within the limit of the client.
SavedIsBounded ==
  \A d \in Downloads :
    download[d].phase = "saved" =>
      /\ visit[d].outcome = "passed" /\ visit[d].answer \in {"plan", "redirect"}
      /\ download[d].total \in 1 .. ClientLimit

\* The form gets out of every submission, and its buttons out of every
\* download.
WorkingEnds ==
  /\ []<>~Busy
  /\ []<>~(form.delivering \/ form.saving)

===============================================================================
