-------------------------------- MODULE AiJobs --------------------------------
(***************************************************************************)
(* The AI jobs of one document: ai_policies, ai_history, and the requests  *)
(* that stream an answer.  The three stream routes are coroutines of one   *)
(* event loop, so between two awaits nothing else of the loop runs; cancel, *)
(* feedback and policy run in worker threads and may come in anywhere.     *)
(* A request and the row it inserts have the same name, its job id.        *)
(***************************************************************************)
EXTENDS Accounts, FiniteSets, Naturals

CONSTANTS
  Grants,       \* the roles the owner may give ("none": access is taken away)
  Jobs,         \* job ids, which bounds the requests
  Workers,      \* the threads that run cancel and feedback
  Policies,     \* the policies the owner may set
  Chunks,       \* how many tokens an answer has
  MaxDay        \* bound: no midnight after it

VARIABLES
  policy,    \* the ai_policies row
  role,      \* resolve_document_for_user, for each user
  job,       \* ai_history: job id -> row
  stream,    \* the request that made the job, and where event_stream is in it
  handler,   \* what each thread has read and not yet written
  today      \* the day of datetime.now()

aiVars == <<policy, role, job, stream, handler, today>>

Roles == {"viewer", "editor", "owner"}
Feedback == {"accepted", "edited", "rejected"}
Status == {"streaming", "completed", "cancelled", "failed"} \cup Feedback

Policy == [enabled : BOOLEAN, allowed : SUBSET Roles, quota : Nat \ {0}]

\* output is how much of the answer output_text holds; a row starts with NULL.
JobRow == [user : Users, status : Status, output : 0..Chunks \cup {NoRow}, day : Nat]

\* The program points at which a request holds the event loop: it has read the
\* database and will write to it without an await in between.
Writing == {"insert", "complete", "cancel", "fail"}

\* The ends: refused (4xx), done, error, closed (return), dropped (task cancelled).
Ended == {"refused", "done", "error", "closed", "dropped"}

\* client is what the server knows of it; quota is policy["dailyQuota"] as it was read.
Stream == [pc : {"chunk"} \cup Writing \cup Ended, user : Users, quota : Nat \ {0},
           client : {"there", "gone"}, sent : 0..Chunks]

Handler == [job : Jobs, status : {"cancelled"} \cup Feedback]

ASSUME AiAssumption ==
  /\ Owner \in Users
  /\ Grants \subseteq {"none", "viewer", "editor"}
  /\ IsFiniteSet(Jobs)
  /\ Policies \subseteq Policy
  /\ Chunks \in Nat \ {0}
  /\ MaxDay \in Nat
  /\ NoRow \notin JobRow \cup Stream \cup Handler \cup Nat

------------------------------------------------------------------------------

JobsOf(u) == {j \in Jobs : job[j] # NoRow /\ job[j].user = u /\ job[j].day = today}

\* used_today: every row counts, cancelled and failed ones too.
UsedToday(u) == Cardinality(JobsOf(u))

At(j, pc) == stream[j] # NoRow /\ stream[j].pc = pc

GoTo(j, pc) == stream' = [stream EXCEPT ![j].pc = pc]

\* Mutant: the stream routes are "def", so each runs in a thread of its own.
LoopFreeNever(j) == TRUE

\* No other request is between two awaits.
LoopFree(j) == \A k \in Jobs \ {j} : \A pc \in Writing : ~At(k, pc)

SetStatus(j, status) == job' = [job EXCEPT ![j].status = status]

\* get_ai_policy inserts this row when the document has none.
DefaultPolicy == [enabled |-> TRUE, allowed |-> {"owner", "editor"}, quota |-> 5]

AiInit ==
  /\ policy = DefaultPolicy
  /\ role = [u \in Users |-> IF u = Owner THEN "owner" ELSE "none"]
  /\ job = [j \in Jobs |-> NoRow]
  /\ stream = [j \in Jobs |-> NoRow]
  /\ handler = [w \in Workers |-> NoRow]
  /\ today = 0

------------------------------------------------------------------------------
(* POST /ai/.../stream: prepare_ai_request, then event_stream *)

Admits(u) ==
  /\ policy.enabled
  /\ role[u] \in policy.allowed
  /\ UsedToday(u) < policy.quota

\* prepare_ai_request has read the role, the policy and the count.
Request(j, u) ==
  /\ stream[j] = NoRow
  /\ LoopFree(j)
  /\ stream' = [stream EXCEPT ![j] =
       [pc |-> IF Admits(u) THEN "insert" ELSE "refused", user |-> u,
        quota |-> policy.quota, client |-> "there", sent |-> 0]]
  /\ UNCHANGED <<policy, role, job, handler, today>>

InsertJob(j) ==
  /\ At(j, "insert")
  /\ job' = [job EXCEPT ![j] =
       [user |-> stream[j].user, status |-> "streaming", output |-> NoRow, day |-> today]]
  /\ GoTo(j, "chunk")
  /\ UNCHANGED <<policy, role, handler, today>>

\* request.is_disconnected() or is_ai_job_cancelled().
Stopped(j) == stream[j].client = "gone" \/ job[j].status = "cancelled"

\* httpx.post blocks the loop until it answers or times out, before the first token.
ProviderFails(j) ==
  /\ At(j, "chunk") /\ LoopFree(j)
  /\ stream[j].sent = 0
  /\ GoTo(j, "fail")
  /\ UNCHANGED <<policy, role, job, handler, today>>

SendToken(j) ==
  /\ At(j, "chunk") /\ LoopFree(j)
  /\ stream[j].sent < Chunks
  /\ ~Stopped(j)
  /\ stream' = [stream EXCEPT ![j].sent = @ + 1]
  /\ UNCHANGED <<policy, role, job, handler, today>>

\* The check after the last token.
FinalCheck(j) ==
  /\ At(j, "chunk") /\ LoopFree(j)
  /\ stream[j].sent = Chunks
  /\ ~Stopped(j)
  /\ GoTo(j, "complete")
  /\ UNCHANGED <<policy, role, job, handler, today>>

\* complete_ai_request updates the row whatever its status, then yields "done".
CompleteJob(j) ==
  /\ At(j, "complete")
  /\ job' = [job EXCEPT ![j].status = "completed", ![j].output = stream[j].sent]
  /\ GoTo(j, "done")
  /\ UNCHANGED <<policy, role, handler, today>>

Cancellable == {"streaming", "completed"}

\* Mutant: "break" for "return", so that what was sent so far becomes the answer.
StopStreamBreaks(j) ==
  /\ At(j, "chunk") /\ LoopFree(j)
  /\ Stopped(j)
  /\ GoTo(j, "complete")
  /\ UNCHANGED <<policy, role, job, handler, today>>

\* A check stops the stream: cancel_ai_job reads the row and raises when the user
\* has lost access, which "except Exception" turns into a failed job.
StopStream(j) ==
  /\ At(j, "chunk") /\ LoopFree(j)
  /\ Stopped(j)
  /\ GoTo(j, IF role[stream[j].user] = "none" THEN "fail"
             ELSE IF job[j].status \in Cancellable THEN "cancel" ELSE "closed")
  /\ UNCHANGED <<policy, role, job, handler, today>>

CancelStream(j) ==
  /\ At(j, "cancel")
  /\ SetStatus(j, "cancelled")
  /\ GoTo(j, "closed")
  /\ UNCHANGED <<policy, role, handler, today>>

\* Mutant: the error is sent, and the row is left as it was.
FailJobSilently(j) ==
  /\ At(j, "fail")
  /\ GoTo(j, "error")
  /\ UNCHANGED <<policy, role, job, handler, today>>

\* fail_ai_request updates the row whatever its status, then yields "error".
FailJob(j) ==
  /\ At(j, "fail")
  /\ SetStatus(j, "failed")
  /\ GoTo(j, "error")
  /\ UNCHANGED <<policy, role, handler, today>>

\* Starlette cancels the task of a client that is gone; CancelledError is no
\* Exception, so nothing is written.
DropStream(j) ==
  /\ At(j, "chunk") /\ LoopFree(j)
  /\ stream[j].client = "gone"
  /\ GoTo(j, "dropped")
  /\ UNCHANGED <<policy, role, job, handler, today>>

StreamStep(j) ==
  InsertJob(j) \/ ProviderFails(j) \/ SendToken(j) \/ FinalCheck(j) \/ CompleteJob(j)
    \/ StopStream(j) \/ CancelStream(j) \/ FailJob(j) \/ DropStream(j)

\* The server learns that the client of an open response is gone.
Disconnect(j) ==
  /\ stream[j] # NoRow /\ stream[j].client = "there" /\ stream[j].pc \notin Ended
  /\ stream' = [stream EXCEPT ![j].client = "gone"]
  /\ UNCHANGED <<policy, role, job, handler, today>>

------------------------------------------------------------------------------
(* POST /ai/jobs/{id}/cancel and /feedback *)

\* cancel_ai_job has read a row it may cancel; otherwise it answers "false".
CancelReads(w, u, j) ==
  /\ handler[w] = NoRow
  /\ job[j] # NoRow
  /\ role[u] # "none"
  /\ job[j].status \in Cancellable
  /\ handler' = [handler EXCEPT ![w] = [job |-> j, status |-> "cancelled"]]
  /\ UNCHANGED <<policy, role, job, stream, today>>

\* What a client says it did with the answer: applied the whole text, another text,
\* sent no appliedText, or rejected it.
Disposition == {"whole", "other", "omitted", "rejected"}

FeedbackStatus(j, disposition) ==
  IF disposition = "rejected" THEN "rejected"
  ELSE IF disposition = "omitted" \/ (disposition = "whole" /\ job[j].output # NoRow)
       THEN "accepted" ELSE "edited"

\* record_ai_feedback reads output_text, not status.
FeedbackReads(w, u, j, disposition) ==
  /\ handler[w] = NoRow
  /\ job[j] # NoRow
  /\ role[u] # "none"
  /\ handler' = [handler EXCEPT ![w] = [job |-> j, status |-> FeedbackStatus(j, disposition)]]
  /\ UNCHANGED <<policy, role, job, stream, today>>

\* The UPDATE and the commit of either.
HandlerWrites(w) ==
  /\ handler[w] # NoRow
  /\ SetStatus(handler[w].job, handler[w].status)
  /\ handler' = [handler EXCEPT ![w] = NoRow]
  /\ UNCHANGED <<policy, role, stream, today>>

------------------------------------------------------------------------------
(* What changes around the jobs *)

UpdateAiPolicy(p) ==
  /\ policy' = p
  /\ UNCHANGED <<role, job, stream, handler, today>>

\* Grants and revocations; module Sharing models them.
ChangeRole(u, r) ==
  /\ u # Owner
  /\ role' = [role EXCEPT ![u] = r]
  /\ UNCHANGED <<policy, job, stream, handler, today>>

Midnight ==
  /\ today < MaxDay
  /\ today' = today + 1
  /\ UNCHANGED <<policy, role, job, stream, handler>>

\* The process dies: connections and handlers are gone, committed rows stay.
Restart ==
  /\ stream' = [j \in Jobs |->
       IF stream[j] = NoRow \/ stream[j].pc \in Ended THEN stream[j]
       ELSE [stream[j] EXCEPT !.pc = "dropped", !.client = "gone"]]
  /\ handler' = [w \in Workers |-> NoRow]
  /\ UNCHANGED <<policy, role, job, today>>

AiNext ==
  \/ \E j \in Jobs : \/ \E u \in Users : Request(j, u)
                     \/ StreamStep(j)
                     \/ Disconnect(j)
  \/ \E w \in Workers :
       \/ \E u \in Users, j \in Jobs :
            \/ CancelReads(w, u, j)
            \/ \E d \in Disposition : FeedbackReads(w, u, j, d)
       \/ HandlerWrites(w)
  \/ \E p \in Policies : UpdateAiPolicy(p)
  \/ \E u \in Users, r \in Grants : ChangeRole(u, r)
  \/ Midnight
  \/ Restart

AiSpec == AiInit /\ [][AiNext]_aiVars

------------------------------------------------------------------------------
(* Properties *)

AiTypeOK ==
  /\ policy \in Policy
  /\ role \in [Users -> Roles \cup {"none"}]
  /\ job \in [Jobs -> JobRow \cup {NoRow}]
  /\ stream \in [Jobs -> Stream \cup {NoRow}]
  /\ handler \in [Workers -> Handler \cup {NoRow}]
  /\ today \in 0..MaxDay

\* A user's requests of a day never exceed the quota that admitted one of them
\* (prepare_ai_request counts and inserts in two statements, while the owner
\* changes the policy and other requests of the user arrive).
QuotaRespected ==
  \A u \in Users : JobsOf(u) # {} =>
    \E j \in JobsOf(u) : UsedToday(u) <= stream[j].quota

\* The stored answer is the whole answer and only that, and it is stored exactly for
\* the clients that were sent "done", never for one that was sent "error"
\* (event_stream's cancellation, disconnection and failure paths).
AnswerAgreesWithRow ==
  \A j \in Jobs : job[j] # NoRow =>
    /\ job[j].output # NoRow => job[j].output = Chunks
    /\ job[j].output # NoRow <=> stream[j].pc = "done"
    /\ job[j].status = "completed" => job[j].output # NoRow

Streaming(j) == job[j] # NoRow /\ job[j].status = "streaming"

\* While its client stays, a job does not stay "streaming": an answer, a failure of
\* the provider or a cancellation is recorded.
ConnectedSettles ==
  \A j \in Jobs :
    Streaming(j) ~> (~Streaming(j) \/ stream[j].client = "gone")

\* The rows and the event streams that still run, as answers.
AnsweredJobs == {j \in Jobs : job[j] # NoRow}

JobAnswers == INSTANCE AiAnswers WITH
  Answers <- Jobs, Labels <- {"cancelled"} \cup Feedback, Nothing <- NoRow, Whole <- Chunks,
  streams <- {j \in AnsweredJobs : stream[j].pc \notin Ended},
  rows <- [j \in AnsweredJobs |-> [status |-> job[j].status, text |-> job[j].output]]

\* Whatever comes between two awaits of event_stream, and however late cancel and
\* feedback write, this backend keeps the promise of AiAnswers.
KeepsAnswers == JobAnswers!AnswersSpec /\ JobAnswers!RowsAreFinal
==============================================================================
