-------------------------------- MODULE AiPanel --------------------------------
(***************************************************************************)
(* One mount of the browser's AI panel (AiPanel.tsx, services/ai.ts, the   *)
(* apply and feedback handlers of DocumentPage.tsx) with the jobs of the   *)
(* server.  A run of the panel has the name of the job its request makes.  *)
(* React handlers run to completion; what they await is a step of its own. *)
(***************************************************************************)
EXTENDS AiJobs

CONSTANTS
  Me,       \* the user of the panel
  Faults    \* whether connections break, requests are lost and the server restarts

VARIABLES
  panel,     \* the panel's state and refs
  run,       \* the invocations of handleRun, with the session and stream of each
  requests   \* cancel and feedback requests on their way, and feedback's answers

panelVars == <<panel, run, requests>>
allVars == <<aiVars, panelVars>>

\* editableSuggestion: of which run it is, and whether all of its answer.
Draft == [of : Jobs, whole : BOOLEAN]

\* snapshot is the run whose runSnapshot is kept; session is activeSessionRef.
Panel == [open : BOOLEAN, phase : {"idle", "streaming", "completed", "cancelled", "error"},
          jobId : Jobs \cup {NoRow}, text : Draft \cup {NoRow},
          snapshot : Jobs \cup {NoRow}, session : Jobs \cup {NoRow}]

\* keepsId: the closure of handleRun saw no jobId; knowsId: the stream's currentJobId;
\* read: how many tokens were read; aborted: the AbortController fired.
Run == [pc : {"idle", "starting", "reading", "ended"}, keepsId : BOOLEAN,
        knowsId : BOOLEAN, read : 0..Chunks, aborted : BOOLEAN]

Message == [op : {"cancel", "answer"}, job : Jobs]
           \cup [op : {"feedback"}, job : Jobs, disposition : Disposition]

ASSUME PanelAssumption ==
  /\ Me \in Users
  /\ Faults \in BOOLEAN
  /\ NoRow \notin Jobs \cup Draft

PanelInit ==
  /\ AiInit
  /\ panel = [open |-> TRUE, phase |-> "idle", jobId |-> NoRow, text |-> NoRow,
              snapshot |-> NoRow, session |-> NoRow]
  /\ run = [r \in Jobs |-> [pc |-> "idle", keepsId |-> FALSE, knowsId |-> FALSE,
                            read |-> 0, aborted |-> FALSE]]
  /\ requests = {}

\* Setting the state of an unmounted component does nothing.
Show(change) == panel' = IF panel.open THEN change ELSE panel

------------------------------------------------------------------------------
(* activeSessionRef.current?.cancel() *)

Aborted ==
  IF panel.session # NoRow /\ run[panel.session].pc = "reading"
  THEN [run EXCEPT ![panel.session].aborted = TRUE] ELSE run

CancelRequests ==
  IF panel.session # NoRow /\ run[panel.session].knowsId
  THEN {[op |-> "cancel", job |-> panel.session]} ELSE {}

\* The unmount cleanup, when the panel is closed after the other messages changed to rest.
CloseWith(rest) ==
  /\ panel' = [panel EXCEPT !.open = FALSE]
  /\ run' = Aborted
  /\ requests' = rest \cup CancelRequests

------------------------------------------------------------------------------
(* The user *)

\* A read that was aborted rejects before the next click is handled.
CanClick ==
  /\ panel.open
  /\ \A r \in Jobs : run[r].pc = "reading" => ~run[r].aborted

\* handleRun up to its first await; its closure keeps the jobId of the last render.
ClickRun(r) ==
  /\ CanClick
  /\ panel.phase \notin {"streaming", "completed"}
  /\ run[r].pc = "idle"
  /\ panel' = [panel EXCEPT !.phase = "streaming", !.jobId = NoRow, !.text = NoRow,
                            !.snapshot = r]
  /\ run' = [Aborted EXCEPT ![r].pc = "starting", ![r].keepsId = panel.jobId = NoRow]
  /\ requests' = requests \cup CancelRequests
  /\ UNCHANGED aiVars

\* handleCancel.
ClickCancel ==
  /\ CanClick
  /\ panel.phase = "streaming"
  /\ panel' = [panel EXCEPT !.phase = "cancelled"]
  /\ run' = Aborted
  /\ requests' = requests \cup CancelRequests
  /\ UNCHANGED aiVars

\* A tab of another action; a running stream goes on.
ClickTab ==
  /\ CanClick
  /\ panel' = [panel EXCEPT !.phase = "idle", !.text = NoRow]
  /\ UNCHANGED <<aiVars, run, requests>>

ClickClose ==
  /\ CanClick
  /\ CloseWith(requests)
  /\ UNCHANGED aiVars

\* recordAiFeedback sends nothing without a jobId; the panel closes after the answer.
SendFeedback(disposition) ==
  IF panel.jobId = NoRow THEN CloseWith(requests)
  ELSE /\ requests' = requests \cup
            {[op |-> "feedback", job |-> panel.jobId, disposition |-> disposition]}
       /\ UNCHANGED <<panel, run>>

\* handleApply and handleAiApply: the source text is still there and the save succeeds.
ClickApply(disposition) ==
  /\ CanClick
  /\ panel.phase = "completed" /\ panel.text # NoRow
  /\ disposition = "whole" => panel.text.whole
  /\ SendFeedback(disposition)
  /\ UNCHANGED aiVars

\* handleAiApply throws: somebody changed the source text.
ApplyIsStale ==
  /\ CanClick
  /\ panel.phase = "completed" /\ panel.text # NoRow
  /\ panel' = [panel EXCEPT !.phase = "error"]
  /\ UNCHANGED <<aiVars, run, requests>>

\* handleSave returns false: no feedback, and the panel closes.
ApplyIsNotSaved ==
  /\ CanClick
  /\ panel.phase = "completed" /\ panel.text # NoRow
  /\ CloseWith(requests)
  /\ UNCHANGED aiVars

ClickReject ==
  /\ CanClick
  /\ panel.phase = "completed"
  /\ SendFeedback("rejected")
  /\ UNCHANGED aiVars

\* onClose once recordAiFeedback is done, whether it was answered or failed.
FeedbackDone(m) ==
  /\ m.op = "answer" \/ (m.op = "feedback" /\ (Faults \/ role[Me] = "none"))
  /\ IF panel.open THEN CloseWith(requests \ {m})
     ELSE requests' = requests \ {m} /\ UNCHANGED <<panel, run>>
  /\ UNCHANGED aiVars

------------------------------------------------------------------------------
(* handleRun after its first await *)

\* The response begins, once prepare_ai_request has inserted the row.
RunStarted(r) ==
  /\ run[r].pc = "starting"
  /\ stream[r] # NoRow /\ stream[r].pc \notin {"insert", "refused"}
  /\ run' = [run EXCEPT ![r].pc = "reading"]
  /\ panel' = [panel EXCEPT !.session = r, !.jobId = IF panel.open THEN NoRow ELSE @]
  /\ UNCHANGED <<aiVars, requests>>

\* startAiStream throws: refused, or no connection.
RunRefused(r) ==
  /\ run[r].pc = "starting"
  /\ At(r, "refused") \/ Faults
  /\ run' = [run EXCEPT ![r].pc = "ended"]
  /\ Show([panel EXCEPT !.phase = "error"])
  /\ UNCHANGED <<aiVars, requests>>

\* if (chunk.jobId && !jobId) setJobId(chunk.jobId), with the jobId of the closure.
KnownId(r) == IF run[r].keepsId THEN r ELSE panel.jobId

ReadToken(r) ==
  /\ run[r].pc = "reading" /\ ~run[r].aborted
  /\ run[r].read < stream[r].sent
  /\ run' = [run EXCEPT ![r].read = @ + 1, ![r].knowsId = TRUE]
  /\ Show([panel EXCEPT !.text = [of |-> r, whole |-> FALSE], !.jobId = KnownId(r)])
  /\ UNCHANGED <<aiVars, requests>>

AllRead(r) ==
  /\ run[r].pc = "reading" /\ ~run[r].aborted
  /\ run[r].read = stream[r].sent

\* "done" or "error" is read, and the loop is left.
ReadDone(r) ==
  /\ AllRead(r) /\ At(r, "done")
  /\ run' = [run EXCEPT ![r].pc = "ended", ![r].knowsId = TRUE]
  /\ Show([panel EXCEPT !.phase = "completed", !.jobId = KnownId(r),
                        !.text = [of |-> r, whole |-> TRUE]])
  /\ UNCHANGED <<aiVars, requests>>

ReadError(r) ==
  /\ AllRead(r) /\ At(r, "error")
  /\ run' = [run EXCEPT ![r].pc = "ended", ![r].knowsId = TRUE]
  /\ Show([panel EXCEPT !.phase = "error", !.jobId = KnownId(r)])
  /\ UNCHANGED <<aiVars, requests>>

\* Mutant: the end of the stream leaves the phase as it is.
ReadEndUnnoticed(r) ==
  /\ AllRead(r) /\ At(r, "closed")
  /\ run' = [run EXCEPT ![r].pc = "ended"]
  /\ UNCHANGED <<aiVars, panel, requests>>

\* The response ends with neither.
ReadEnd(r) ==
  /\ AllRead(r) /\ At(r, "closed")
  /\ run' = [run EXCEPT ![r].pc = "ended"]
  /\ Show([panel EXCEPT !.phase = "cancelled"])
  /\ UNCHANGED <<aiVars, requests>>

\* reader.read() rejects: aborted by cancel(), or the connection broke.
ReadRejects(r) ==
  /\ run[r].pc = "reading"
  /\ run[r].aborted \/ stream[r].client = "gone"
  /\ run' = [run EXCEPT ![r].pc = "ended", ![r].aborted = FALSE]
  /\ Show([panel EXCEPT !.phase = "error"])
  /\ UNCHANGED <<aiVars, requests>>

RunStep(r) ==
  RunStarted(r) \/ RunRefused(r) \/ ReadToken(r) \/ ReadDone(r) \/ ReadError(r)
    \/ ReadEnd(r) \/ ReadRejects(r)

------------------------------------------------------------------------------
(* The server, and the requests on their way to it *)

RequestArrives(r) ==
  run[r].pc = "starting" /\ Request(r, Me) /\ UNCHANGED panelVars

\* The server learns of an abort, or the connection breaks.
ConnectionEnds(r) ==
  /\ run[r].pc = "ended" \/ run[r].aborted \/ Faults
  /\ Disconnect(r)
  /\ UNCHANGED panelVars

CancelArrives(w, m) ==
  /\ m.op = "cancel"
  /\ \/ CancelReads(w, Me, m.job)
     \/ /\ role[Me] = "none" \/ job[m.job].status \notin Cancellable
        /\ UNCHANGED aiVars
  /\ requests' = requests \ {m}
  /\ UNCHANGED <<panel, run>>

FeedbackArrives(w, m) ==
  /\ m.op = "feedback"
  /\ FeedbackReads(w, Me, m.job, m.disposition)
  /\ requests' = requests \ {m}
  /\ UNCHANGED <<panel, run>>

\* Any other user with access may cancel a job.
OtherCancels(w, r) ==
  /\ \E u \in Users \ {Me} : CancelReads(w, u, r)
  /\ UNCHANGED panelVars

ServerStep(r) == StreamStep(r) /\ UNCHANGED panelVars

WorkerWrites(w) ==
  /\ HandlerWrites(w)
  /\ requests' = IF handler[w].status \in Feedback
                  THEN requests \cup {[op |-> "answer", job |-> handler[w].job]} ELSE requests
  /\ UNCHANGED <<panel, run>>

AccessChanges == (\E u \in Users, g \in Grants : ChangeRole(u, g)) /\ UNCHANGED panelVars
ServerRestarts == Faults /\ Restart /\ UNCHANGED panelVars

PanelNext ==
  \/ \E r \in Jobs : ClickRun(r) \/ RunStep(r) \/ RequestArrives(r) \/ ServerStep(r)
                       \/ ConnectionEnds(r)
  \/ ClickCancel \/ ClickTab \/ ClickClose \/ ClickReject
  \/ \E d \in {"whole", "other"} : ClickApply(d)
  \/ ApplyIsStale \/ ApplyIsNotSaved
  \/ \E m \in requests : FeedbackDone(m)
  \/ \E w \in Workers :
       \/ \E m \in requests : CancelArrives(w, m) \/ FeedbackArrives(w, m)
       \/ \E r \in Jobs : OtherCancels(w, r)
       \/ WorkerWrites(w)
  \/ AccessChanges
  \/ ServerRestarts

PanelSpec == PanelInit /\ [][PanelNext]_allVars

\* The browser runs what it awaited, requests arrive or fail, the loop's tasks run.
PanelFairness ==
  \A r \in Jobs : WF_allVars(RunStep(r)) /\ WF_allVars(RequestArrives(r)) /\ WF_allVars(ServerStep(r))

PanelFairSpec == PanelSpec /\ PanelFairness

------------------------------------------------------------------------------
(* Properties *)

PanelTypeOK ==
  /\ panel \in Panel
  /\ run \in [Jobs -> Run]
  /\ requests \subseteq Message

\* "AI results are applied only if the current text inside the target range still matches
\* the source text that the suggestion was generated from" (assignment2-contracts.md): what
\* the user may apply is an answer to the selection that is kept, whose range and source
\* text handleApply hands over with it.
SuggestionIsTheRuns ==
  panel.open /\ panel.phase = "completed" /\ panel.text # NoRow =>
    panel.text.of = panel.snapshot

\* The panel does not wait for ever: a run ends in an answer, an error or "cancelled".
StreamingEnds == panel.phase = "streaming" ~> (panel.phase # "streaming" \/ ~panel.open)
==============================================================================
