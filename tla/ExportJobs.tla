------------------------------ MODULE ExportJobs ------------------------------
(***************************************************************************)
(* Exporting one document: the panel of the browser (ExportPanel.tsx) with *)
(* the export handlers of either backend, exports.py or exportService.js,  *)
(* which keep the same table.  Text formats are answered at once; the      *)
(* others are a job that runs after its request was answered, in memory:   *)
(* when the server stops the job is lost and its row stays.  A file is     *)
(* known by the text that was exported.                                    *)
(***************************************************************************)
EXTENDS Naturals

CONSTANTS
  Jobs,         \* the ids jobs get
  MaxAttempts,  \* how often the panel asks for a job's status: 20 in the code
  MaxEdits,     \* bound: changes of the text, which is known by their number
  MaxRoles,     \* bound: how often the user loses or regains access
  MaxStops,     \* bound: how often the server stops and starts
  Absent        \* "the table has no row under this key"; NULL

VARIABLES
  backend,   \* the backend that runs
  text,      \* documents.content
  access,    \* whether the user may read the document, and how often that changed
  rows,      \* export_jobs
  tasks,     \* BackgroundTasks of exports.py, timers of exportService.js
  panel,     \* the state of ExportPanel
  files,     \* history: what was saved in the browser, with the text it was asked for
  stops      \* bound

serverVars == <<backend, text, access, rows, tasks, stops>>
panelVars == <<panel, files>>
vars == <<serverVars, panelVars>>

Status == {"PENDING", "RUNNING", "SUCCEEDED", "FAILED"}
Texts == 0..MaxEdits
Row == [status : Status, result : Texts \cup {Absent}]

\* What a job holds on to while it waits: the document as its request read it.
Task == [pc : {"none", "waiting", "running"}, document : Texts]

\* job is jobStatus, with its status; asked is history: the text when it was requested.
Panel == [phase : {"idle", "requesting", "polling", "ready", "error"},
          job : Jobs \cup {Absent}, status : Status \cup {Absent}, attempt : 0..MaxAttempts,
          asked : Texts]

ASSUME ExportAssumption ==
  /\ MaxAttempts \in Nat \ {0}
  /\ {MaxEdits, MaxRoles, MaxStops} \subseteq Nat
  /\ Absent \notin Texts /\ Absent \notin Jobs /\ Absent \notin Status /\ Absent \notin Row

Init ==
  /\ backend \in {"fastapi", "express"}
  /\ text = 0
  /\ access = [granted |-> TRUE, changes |-> 0]
  /\ rows = [j \in Jobs |-> Absent]
  /\ tasks = [j \in Jobs |-> [pc |-> "none", document |-> 0]]
  /\ panel = [phase |-> "idle", job |-> Absent, status |-> Absent, attempt |-> 0, asked |-> 0]
  /\ files = {}
  /\ stops = 0

------------------------------------------------------------------------------
(* The document's other handlers *)

Edit ==
  /\ text < MaxEdits
  /\ text' = text + 1
  /\ UNCHANGED <<backend, access, rows, tasks, stops, panelVars>>

ChangeAccess ==
  /\ access.changes < MaxRoles
  /\ access' = [granted |-> ~access.granted, changes |-> access.changes + 1]
  /\ UNCHANGED <<backend, text, rows, tasks, stops, panelVars>>

------------------------------------------------------------------------------
(* handleExportRequest *)

Fails == panel' = [panel EXCEPT !.phase = "error"]

\* "Start export" is shown until a job succeeded, and disabled during a request.
ClickStart ==
  /\ panel.status # "SUCCEEDED"
  /\ panel.phase \notin {"requesting", "polling"}
  /\ panel' = [panel EXCEPT !.phase = "requesting", !.job = Absent, !.status = Absent]
  /\ UNCHANGED <<serverVars, files>>

\* create_export of a text format: the answer is the file.  (Express also leaves a row
\* that is SUCCEEDED, under an id that nobody is told.)
ExportNow ==
  /\ panel.phase = "requesting"
  /\ access.granted
  /\ panel' = [panel EXCEPT !.phase = "ready", !.asked = text]
  /\ files' = files \cup {[asked |-> text, content |-> text]}
  /\ UNCHANGED serverVars

\* create_export of another format: a row, a task to run after the answer.
InsertJob(j) ==
  /\ rows[j] = Absent
  /\ rows' = [rows EXCEPT ![j] = [status |-> "PENDING", result |-> Absent]]
  /\ tasks' = [tasks EXCEPT ![j] = [pc |-> "waiting", document |-> text]]
  /\ UNCHANGED <<backend, text, access, stops>>

ExportLater(j) ==
  /\ panel.phase = "requesting"
  /\ access.granted
  /\ InsertJob(j)
  /\ panel' = [panel EXCEPT !.phase = "polling", !.job = j, !.attempt = 0, !.asked = text]
  /\ UNCHANGED files

\* The same, but the answer is lost.
AnswerIsLost(j) ==
  /\ panel.phase = "requesting"
  /\ access.granted
  /\ InsertJob(j)
  /\ Fails
  /\ UNCHANGED files

RequestRefused ==
  /\ panel.phase = "requesting"
  /\ ~access.granted
  /\ Fails
  /\ UNCHANGED <<serverVars, files>>

RequestIsLost ==
  /\ panel.phase = "requesting"
  /\ Fails
  /\ UNCHANGED <<serverVars, files>>

------------------------------------------------------------------------------
(* pollExportJob *)

\* Mutant: an attempt that finds the job unfinished is not counted.
AttemptsOfUnfinished == panel.attempt
AttemptsMade == panel.attempt + 1

\* Between two timers of 300 ms: get_export_status, and what is made of it.
Poll ==
  /\ panel.phase = "polling"
  /\ panel.attempt < MaxAttempts
  /\ access.granted
  /\ LET status == rows[panel.job].status IN
     panel' = [panel EXCEPT !.status = status,
                            !.attempt = IF status \in {"SUCCEEDED", "FAILED"} THEN 0 ELSE AttemptsMade,
                            !.phase = CASE status = "SUCCEEDED" -> "ready"
                                        [] status = "FAILED"    -> "error"
                                        [] OTHER                -> "polling"]
  /\ UNCHANGED <<serverVars, files>>

PollRefused ==
  /\ panel.phase = "polling"
  /\ panel.attempt < MaxAttempts
  /\ ~access.granted
  /\ Fails
  /\ UNCHANGED <<serverVars, files>>

PollIsLost ==
  /\ panel.phase = "polling"
  /\ panel.attempt < MaxAttempts
  /\ Fails
  /\ UNCHANGED <<serverVars, files>>

\* "Export job did not finish in time."
PollGivesUp ==
  /\ panel.phase = "polling"
  /\ panel.attempt = MaxAttempts
  /\ Fails
  /\ UNCHANGED <<serverVars, files>>

------------------------------------------------------------------------------
(* handleDownloadAsyncExport *)

Downloadable(j) == access.granted /\ rows[j].status = "SUCCEEDED" /\ rows[j].result # Absent

\* download_export
ClickDownload ==
  /\ panel.status = "SUCCEEDED"
  /\ Downloadable(panel.job)
  /\ files' = files \cup {[asked |-> panel.asked, content |-> rows[panel.job].result]}
  /\ UNCHANGED <<serverVars, panel>>

\* No connection, or refused.
DownloadFails ==
  /\ panel.status = "SUCCEEDED"
  /\ Fails
  /\ UNCHANGED <<serverVars, files>>

------------------------------------------------------------------------------
(* The jobs *)

\* Mutant: the job reads the document when it runs.
ExportedNow(j) == text
Exported(j) == tasks[j].document

Update(j, status, result) == rows' = [rows EXCEPT ![j] = [status |-> status, result |-> result]]
Ends(j) == tasks' = [tasks EXCEPT ![j].pc = "none"]

JobAlone == UNCHANGED <<backend, text, access, stops, panelVars>>

\* finalize_export_job: RUNNING and SUCCEEDED are one commit.
FinalizeExportJob(j) ==
  /\ backend = "fastapi" /\ tasks[j].pc = "waiting"
  /\ Update(j, "SUCCEEDED", Exported(j))
  /\ Ends(j)
  /\ JobAlone

\* Rendering fails: the connection is closed without a commit, nothing catches the error.
RenderingFails(j) ==
  /\ backend = "fastapi" /\ tasks[j].pc = "waiting"
  /\ Ends(j)
  /\ UNCHANGED rows
  /\ JobAlone

\* The timer of createExportJob: two commits of one turn of the event loop, in which no
\* request is served; only the process may stop between them.
TimerFires(j) ==
  /\ backend = "express" /\ tasks[j].pc = "waiting"
  /\ \A i \in Jobs : tasks[i].pc # "running"
  /\ Update(j, "RUNNING", Absent)
  /\ tasks' = [tasks EXCEPT ![j].pc = "running"]
  /\ JobAlone

TimerFinishes(j) ==
  /\ backend = "express" /\ tasks[j].pc = "running"
  /\ \/ Update(j, "SUCCEEDED", Exported(j))
     \/ Update(j, "FAILED", Absent)
  /\ Ends(j)
  /\ JobAlone

ServerStops ==
  /\ stops < MaxStops
  /\ stops' = stops + 1
  /\ tasks' = [j \in Jobs |-> [tasks[j] EXCEPT !.pc = "none"]]
  /\ UNCHANGED <<backend, text, access, rows, panelVars>>

------------------------------------------------------------------------------

\* A turn of Express is under way, in which nothing else is served.
InTurn == \E j \in Jobs : tasks[j].pc = "running"

RequestAnswered == ~InTurn /\ (ExportNow \/ (\E j \in Jobs : ExportLater(j)) \/ RequestRefused)
PollAnswered == ~InTurn /\ (Poll \/ PollRefused)

JobStep(j) ==
  \/ FinalizeExportJob(j)
  \/ RenderingFails(j)
  \/ TimerFires(j)
  \/ TimerFinishes(j)

Next ==
  \/ ~InTurn /\ (Edit \/ ChangeAccess \/ ClickDownload)
  \/ ClickStart
  \/ DownloadFails
  \/ RequestAnswered
  \/ \E j \in Jobs : ~InTurn /\ AnswerIsLost(j)
  \/ RequestIsLost
  \/ PollAnswered
  \/ PollIsLost
  \/ PollGivesUp
  \/ \E j \in Jobs : JobStep(j)
  \/ ServerStops

Spec == Init /\ [][Next]_vars

\* A request whose connection stays is answered, the panel's timers fire, and a turn of
\* Express ends.  Nothing says that a job is ever run.
ExportFairness ==
  /\ WF_vars(RequestAnswered) /\ WF_vars(PollAnswered) /\ WF_vars(PollGivesUp)
  /\ \A j \in Jobs : WF_vars(TimerFinishes(j))

FairSpec == Spec /\ ExportFairness

------------------------------------------------------------------------------
(* Properties *)

ExportTypeOK ==
  /\ backend \in {"fastapi", "express"}
  /\ text \in Texts
  /\ access \in [granted : BOOLEAN, changes : 0..MaxRoles]
  /\ rows \in [Jobs -> Row \cup {Absent}]
  /\ tasks \in [Jobs -> Task]
  /\ panel \in Panel
  /\ files \subseteq [asked : Texts, content : Texts]
  /\ stops \in 0..MaxStops

\* However long a job waits, and whatever is edited, reverted or restarted meanwhile, a
\* downloaded file holds the text that the document had when the export was requested
\* (finalize_export_job and the timer keep the document that create_export read).
FilesAreAsRequested == \A file \in files : file.content = file.asked

\* The panel stops preparing, also when the job's row stays PENDING or RUNNING for ever
\* because the server stopped or rendering failed (pollExportJob counts its attempts).
PreparingEnds == panel.phase \in {"requesting", "polling"} ~> panel.phase \in {"ready", "error"}
===============================================================================
