------------------------------- MODULE ExpressAi -------------------------------
(***************************************************************************)
(* The AI side of the Express backend beside its documents: queued jobs    *)
(* (ai_jobs, run after the answer by setImmediate), streamed jobs          *)
(* (ai_history, run while the response is written), cancellation, feedback *)
(* and the policy.  Other handlers run whenever a job awaits its provider; *)
(* when the process stops, the rows stay and what ran in memory is gone.   *)
(* All requests are made on one day.                                       *)
(***************************************************************************)
EXTENDS ExpressDocuments, FiniteSets

CONSTANTS
  Jobs,         \* the ids makeId("aijob") returns
  Chunks,       \* how many chunks of text the provider has
  Policies,     \* the policies the owner chooses from
  MaxRestarts   \* bound

VARIABLES
  policy,    \* the row of ai_policies
  queued,    \* ai_jobs
  history,   \* ai_history
  runner,    \* runJob and streamHistoryJob between two awaits
  client,    \* the response of each stream, and what was said about it
  restarts   \* bound, and the name of the running process

aiVars == <<policy, queued, history, runner, client>>
vars == <<documentVars, served, aiVars, restarts>>

Policy == [aiEnabled : BOOLEAN, allowedRolesForAI : SUBSET AllRoles, dailyQuota : Nat]
QueuedRow == [user : Users, status : {"PENDING", "RUNNING", "SUCCEEDED", "FAILED"}, born : Nat]

\* text counts the tokens of output_text, 0 for NULL.
HistoryRow == [user : Users, text : Nat, born : Nat,
               status : {"streaming", "completed", "accepted", "edited", "rejected", "cancelled", "failed"}]

\* chunks is the local list of that name.  dropped: the runner ended by an error of the
\* database, which left the row as it was.
Runner == [pc : {"idle", "queued", "generating", "streaming", "dropped"}, chunks : Nat]

\* open: the response is neither ended (streamFinished) nor closed by its reader.  History:
\* an answer or the close said that the job is cancelled; somebody gave feedback.
Client == [open : BOOLEAN, cancelled : BOOLEAN, judged : BOOLEAN]

ASSUME ExpressAssumption ==
  /\ NoRow \notin QueuedRow \cup HistoryRow
  /\ Policies \subseteq Policy
  /\ Chunks \in Nat /\ MaxRestarts \in Nat

Idle == [pc |-> "idle", chunks |-> 0]
Dropped == [pc |-> "dropped", chunks |-> 0]
NoClient == [open |-> FALSE, cancelled |-> FALSE, judged |-> FALSE]

AiInit ==
  /\ policy = [aiEnabled |-> TRUE, allowedRolesForAI |-> {"owner", "editor"}, dailyQuota |-> 5]
  /\ queued = [j \in Jobs |-> NoRow]
  /\ history = [j \in Jobs |-> NoRow]
  /\ runner = [j \in Jobs |-> Idle]
  /\ client = [j \in Jobs |-> NoClient]
  /\ restarts = 0

------------------------------------------------------------------------------
(* Handlers *)

Rows(table, user) == {j \in Jobs : table[j] # NoRow /\ table[j].user = user}
CountAiJobsToday(user) == Cardinality(Rows(queued, user)) + Cardinality(Rows(history, user))

\* enforceAiAccess
EnforceAiAccess(user) ==
  /\ Access(user, "viewer")
  /\ policy.aiEnabled
  /\ Role(user) \in policy.allowedRolesForAI
  /\ CountAiJobsToday(user) < policy.dailyQuota

\* A fresh id: which of them, makes no difference.
Unused == {j \in Jobs : queued[j] = NoRow /\ history[j] = NoRow}
NewId(j) == Unused # {} /\ j = CHOOSE i \in Unused : TRUE

UpdateAiPolicy(user, newPolicy) ==
  /\ Serve
  /\ Access(user, "owner")
  /\ policy' = newPolicy
  /\ UNCHANGED <<documentVars, queued, history, runner, client, restarts>>

\* createJob; the runner starts once the handlers of this turn have returned.
CreateJob(user, j) ==
  /\ Serve
  /\ EnforceAiAccess(user)
  /\ NewId(j)
  /\ queued' = [queued EXCEPT ![j] = [user |-> user, status |-> "PENDING", born |-> restarts]]
  /\ runner' = [runner EXCEPT ![j].pc = "queued"]
  /\ UNCHANGED <<documentVars, policy, history, client, restarts>>

\* createHistoryEntry, up to the first await of streamHistoryJob.
StartStream(user, j) ==
  /\ Serve
  /\ EnforceAiAccess(user)
  /\ NewId(j)
  /\ history' = [history EXCEPT ![j] = [user |-> user, status |-> "streaming", text |-> 0,
                                        born |-> restarts]]
  /\ runner' = [runner EXCEPT ![j] = [pc |-> "streaming", chunks |-> 0]]
  /\ client' = [client EXCEPT ![j].open = TRUE]
  /\ UNCHANGED <<documentVars, policy, queued, restarts>>

\* cancelAiHistory answers whether the row was still streaming.
CancelAiHistory(j) ==
  IF history[j].status = "streaming"
  THEN /\ history' = [history EXCEPT ![j].status = "cancelled"]
       /\ client' = [client EXCEPT ![j].cancelled = TRUE]
  ELSE UNCHANGED <<history, client>>

\* cancelStreamJob; a queued job is answered cancelled: false.
CancelStreamJob(user, j) ==
  /\ Serve
  /\ history[j] # NoRow
  /\ Access(user, "viewer")
  /\ CancelAiHistory(j)
  /\ UNCHANGED <<documentVars, policy, queued, runner, restarts>>

\* req "close": the reader's own cancellation, whose refusal is swallowed.
ClientCloses(j) ==
  /\ client[j].open
  /\ IF Access(history[j].user, "viewer") /\ history[j].status = "streaming"
     THEN /\ history' = [history EXCEPT ![j].status = "cancelled"]
          /\ client' = [client EXCEPT ![j].open = FALSE, ![j].cancelled = TRUE]
     ELSE /\ client' = [client EXCEPT ![j].open = FALSE]
          /\ UNCHANGED history
  /\ UNCHANGED <<documentVars, served, policy, queued, runner, restarts>>

\* recordAiJobFeedback writes the row of a stream whatever its status is; feedback on
\* a queued job is only logged.
RecordJobFeedback(user, j, status) ==
  /\ Serve
  /\ history[j] # NoRow
  /\ Access(user, "viewer")
  /\ history' = [history EXCEPT ![j].status = status]
  /\ client' = [client EXCEPT ![j].judged = TRUE]
  /\ UNCHANGED <<documentVars, policy, queued, runner, restarts>>

------------------------------------------------------------------------------
(* runJob *)

RunJob(j) ==
  /\ runner[j].pc = "queued"
  /\ queued' = [queued EXCEPT ![j].status = "RUNNING"]
  /\ runner' = [runner EXCEPT ![j].pc = "generating"]
  /\ UNCHANGED <<documentVars, served, policy, history, client, restarts>>

\* Mutant: an error of the provider is only logged.
KeepStatus(j, status) == IF status = "FAILED" THEN queued[j].status ELSE status
FinalStatus(j, status) == status

JobFinishes(j, status) ==
  /\ runner[j].pc = "generating"
  /\ queued' = [queued EXCEPT ![j].status = FinalStatus(j, status)]
  /\ runner' = [runner EXCEPT ![j] = Idle]
  /\ UNCHANGED <<documentVars, served, policy, history, client, restarts>>

------------------------------------------------------------------------------
(* streamHistoryJob *)

\* Mutant: cancellation is looked for between chunks only.
WantedAnyway(j) == runner[j].chunks = Chunks \/ history[j].status # "cancelled"
Wanted(j) == history[j].status # "cancelled"

Streaming(j) ==
  /\ runner[j].pc = "streaming"
  /\ UNCHANGED <<documentVars, served, policy, queued, restarts>>

\* The generator returns, and writeSseStream ends the response.
EndStream(j) ==
  /\ runner' = [runner EXCEPT ![j] = Idle]
  /\ client' = [client EXCEPT ![j].open = FALSE]

StreamGivenUp(j) ==
  /\ Streaming(j)
  /\ ~Wanted(j)
  /\ EndStream(j)
  /\ UNCHANGED history

ChunkArrives(j) ==
  /\ Streaming(j)
  /\ Wanted(j)
  /\ runner[j].chunks < Chunks
  /\ runner' = [runner EXCEPT ![j].chunks = @ + 1]
  /\ UNCHANGED <<history, client>>

\* completeAiHistory
StreamCompletes(j) ==
  /\ Streaming(j)
  /\ Wanted(j)
  /\ runner[j].chunks = Chunks /\ Chunks > 0
  /\ history' = [history EXCEPT ![j].status = "completed", ![j].text = runner[j].chunks]
  /\ EndStream(j)

\* failAiHistory: the provider failed, timed out, or had no text at all.
StreamFails(j) ==
  /\ Streaming(j)
  /\ Wanted(j)
  /\ history' = [history EXCEPT ![j].status = "failed"]
  /\ EndStream(j)

\* An update of the row fails: the first of runJob, or one in the catch of either
\* function.  queueJobExecution logs the error; a stream's response stays open until it
\* is closed.
RunnerDrops(j) ==
  /\ runner[j].pc \in {"queued", "generating", "streaming"}
  /\ runner' = [runner EXCEPT ![j] = Dropped]
  /\ UNCHANGED <<documentVars, served, policy, queued, history, client, restarts>>

------------------------------------------------------------------------------
(* The process *)

\* No row is repaired when the server starts again.
Restart ==
  /\ restarts < MaxRestarts
  /\ restarts' = restarts + 1
  /\ runner' = [j \in Jobs |-> Idle]
  /\ client' = [j \in Jobs |-> [client[j] EXCEPT !.open = FALSE]]

ServerStops == Restart /\ UNCHANGED <<documentVars, served, policy, queued, history>>

RevocationStops ==
  /\ Restart
  /\ \E user, target \in Users : RevokeStopsEarly(user, target)
  /\ UNCHANGED <<policy, queued, history>>

Init == DocumentsInit /\ AiInit

AiRequest ==
  \E user \in Users :
    \/ \E p \in Policies : UpdateAiPolicy(user, p)
    \/ \E j \in Jobs :
         \/ CreateJob(user, j)
         \/ StartStream(user, j)
         \/ CancelStreamJob(user, j)
         \/ \E status \in {"accepted", "edited", "rejected"} : RecordJobFeedback(user, j, status)

RunnerStep(j) ==
  \/ RunJob(j)
  \/ \E status \in {"SUCCEEDED", "FAILED"} : JobFinishes(j, status)
  \/ StreamGivenUp(j)
  \/ ChunkArrives(j)
  \/ StreamCompletes(j)
  \/ StreamFails(j)

Next ==
  \/ DocumentsStep /\ UNCHANGED <<aiVars, restarts>>
  \/ AiRequest
  \/ \E j \in Jobs : RunnerStep(j) \/ RunnerDrops(j) \/ ClientCloses(j)
  \/ ServerStops
  \/ RevocationStops

Spec == Init /\ [][Next]_vars

\* The event loop turns, and a provider answers or fails: LM Studio's has a timeout.
Fairness == \A j \in Jobs : WF_vars(RunnerStep(j))

FairSpec == Spec /\ Fairness

------------------------------------------------------------------------------
(* Properties *)

ExpressTypeOK ==
  /\ DocumentsTypeOK
  /\ policy \in Policy
  /\ queued \in [Jobs -> QueuedRow \cup {NoRow}]
  /\ history \in [Jobs -> HistoryRow \cup {NoRow}]
  /\ runner \in [Jobs -> Runner]
  /\ client \in [Jobs -> Client]
  /\ restarts \in 0..MaxRestarts

\* Once somebody, or the closing of the response, was told that a stream is cancelled, it
\* never completes or fails, wherever between two chunks the cancellation fell: unless
\* feedback is given on it, which takes the row out of 'cancelled' (recordAiJobFeedback).
CancelledStays ==
  \A j \in Jobs :
    client[j].cancelled /\ ~client[j].judged => history[j].status = "cancelled"

Unfinished(j) ==
  /\ runner[j].pc # "dropped"
  /\ \/ queued[j] # NoRow /\ queued[j].born = restarts /\ queued[j].status \in {"PENDING", "RUNNING"}
     \/ history[j] # NoRow /\ history[j].born = restarts /\ history[j].status = "streaming"

\* A job of the running process does not stay unfinished: only a restart, or an error of
\* the database that is only logged, leaves rows that say PENDING, RUNNING or streaming
\* for ever (runJob, streamHistoryJob).
JobsFinish == \A j \in Jobs : Unfinished(j) ~> ~Unfinished(j)

\* The rows of ai_history and the streams that still run, as answers.
BegunStreams == {j \in Jobs : history[j] # NoRow}

StreamAnswers == INSTANCE AiAnswers WITH
  Answers <- Jobs, Labels <- {"cancelled", "accepted", "edited", "rejected"},
  Nothing <- 0, Whole <- Chunks,
  streams <- {j \in Jobs : runner[j].pc = "streaming"},
  rows <- [j \in BegunStreams |-> [status |-> history[j].status, text |-> history[j].text]]

\* Express makes the same promise of its answers as the other backend, restarts and
\* closing readers included.
KeepsAnswers == StreamAnswers!AnswersSpec /\ StreamAnswers!RowsAreFinal
===============================================================================
