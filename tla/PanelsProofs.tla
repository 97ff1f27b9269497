--------------------------- MODULE PanelsProofs ---------------------------
(***************************************************************************)
(* What is downloaded is what was asked for, for any number of jobs, of    *)
(* polls, of edits and of restarts; and the sharing panel shows its own    *)
(* changes, for any number of its handlers under way at once.              *)
(***************************************************************************)
EXTENDS ExportJobs, PermissionsPanel, TLAPS

(* A job keeps the document its request read, also after it ended; its row is made  *)
(* with it and never loses it.                                                      *)
JobsHaveRows == \A j \in Jobs : tasks[j].pc # "none" => rows[j] # Absent
ResultsAreOfTheirJob ==
  \A j \in Jobs : rows[j] # Absent => rows[j].result \in {Absent, tasks[j].document}

\* The panel shows a job it asked for, and none while it asks for another.
PanelKnowsItsJob ==
  /\ panel.phase = "requesting" => panel.job = Absent
  /\ panel.phase = "polling" \/ panel.status # Absent => panel.job # Absent
  /\ panel.job # Absent =>
       rows[panel.job] # Absent /\ tasks[panel.job].document = panel.asked

ExportInv ==
  /\ ExportTypeOK
  /\ JobsHaveRows
  /\ ResultsAreOfTheirJob
  /\ PanelKnowsItsJob
  /\ FilesAreAsRequested

LEMMA ExportInvInit == Init => ExportInv
<1> SUFFICES ASSUME Init PROVE ExportInv
    OBVIOUS
<1>1. 0 \in Texts /\ 0 \in 0..MaxRoles /\ 0 \in 0..MaxStops /\ 0 \in 0..MaxAttempts
  BY ExportAssumption DEF Texts
<1>2. ExportTypeOK
  BY <1>1 DEF Init, ExportTypeOK, Task, Panel
<1>3. JobsHaveRows /\ ResultsAreOfTheirJob /\ PanelKnowsItsJob /\ FilesAreAsRequested
  BY DEF Init, JobsHaveRows, ResultsAreOfTheirJob, PanelKnowsItsJob, FilesAreAsRequested
<1> QED
  BY <1>2, <1>3 DEF ExportInv

\* The other handlers of the document disturb no job.
LEMMA DocumentKeepsExportInv ==
  ASSUME ExportInv, Edit \/ ChangeAccess
  PROVE  ExportInv'
<1>1. UNCHANGED <<backend, rows, tasks, stops, panel, files>>
  BY DEF Edit, ChangeAccess, panelVars
<1>2. text' \in Texts
  BY ExportAssumption DEF ExportInv, ExportTypeOK, Edit, ChangeAccess, Texts
<1>3. access' \in [granted : BOOLEAN, changes : 0..MaxRoles]
  <2>1. CASE access' = access
    BY <2>1 DEF ExportInv, ExportTypeOK
  <2>2. CASE ChangeAccess
    <3>1. access.changes + 1 \in 0..MaxRoles
      BY <2>2, ExportAssumption DEF ExportInv, ExportTypeOK, ChangeAccess
    <3>2. (~access.granted) \in BOOLEAN
      OBVIOUS
    <3> QED
      BY <2>2, <3>1, <3>2, Zenon DEF ChangeAccess
  <2> QED
    BY <2>1, <2>2 DEF Edit
<1>4. ExportTypeOK'
  BY <1>1, <1>2, <1>3 DEF ExportInv, ExportTypeOK
<1> QED
  BY <1>1, <1>4 DEF ExportInv, JobsHaveRows, ResultsAreOfTheirJob, PanelKnowsItsJob,
                    FilesAreAsRequested

\* A step of the panel alone.
LEMMA PanelKeepsExportInv ==
  ASSUME ExportInv, UNCHANGED serverVars, panel' \in Panel, PanelKnowsItsJob',
         files' \subseteq [asked : Texts, content : Texts], FilesAreAsRequested'
  PROVE  ExportInv'
  BY DEF ExportInv, ExportTypeOK, serverVars, JobsHaveRows, ResultsAreOfTheirJob

LEMMA FailsKeepsExportInv ==
  ASSUME ExportInv, Fails, UNCHANGED <<serverVars, files>>
  PROVE  ExportInv'
<1>1. panel' \in Panel
  BY DEF ExportInv, ExportTypeOK, Fails, Panel
<1>2. PanelKnowsItsJob'
  BY DEF ExportInv, ExportTypeOK, Fails, Panel, PanelKnowsItsJob, serverVars
<1>3. files' \subseteq [asked : Texts, content : Texts] /\ FilesAreAsRequested'
  BY DEF ExportInv, ExportTypeOK, FilesAreAsRequested
<1> QED
  BY <1>1, <1>2, <1>3, PanelKeepsExportInv

LEMMA ClickStartKeepsExportInv ==
  ASSUME ExportInv, ClickStart
  PROVE  ExportInv'
<1>1. panel' \in Panel /\ PanelKnowsItsJob'
  BY DEF ExportInv, ExportTypeOK, ClickStart, Panel, PanelKnowsItsJob, serverVars
<1>2. files' \subseteq [asked : Texts, content : Texts] /\ FilesAreAsRequested'
  BY DEF ClickStart, ExportInv, ExportTypeOK, FilesAreAsRequested
<1> QED
  BY <1>1, <1>2, PanelKeepsExportInv DEF ClickStart

LEMMA ExportNowKeepsExportInv ==
  ASSUME ExportInv, ExportNow
  PROVE  ExportInv'
<1>1. panel' \in Panel /\ PanelKnowsItsJob'
  BY DEF ExportInv, ExportTypeOK, ExportNow, Panel, PanelKnowsItsJob, serverVars
<1>2. files' \subseteq [asked : Texts, content : Texts] /\ FilesAreAsRequested'
  BY DEF ExportNow, ExportInv, ExportTypeOK, FilesAreAsRequested
<1> QED
  BY <1>1, <1>2, PanelKeepsExportInv DEF ExportNow

\* A job is made under an id no panel knows.
LEMMA InsertJobKeepsTables ==
  ASSUME ExportInv, NEW j \in Jobs, InsertJob(j)
  PROVE  /\ rows' \in [Jobs -> Row \cup {Absent}] /\ tasks' \in [Jobs -> Task]
         /\ JobsHaveRows' /\ ResultsAreOfTheirJob'
         /\ rows'[j] # Absent /\ tasks'[j].document = text
         /\ \A i \in Jobs \ {j} : rows'[i] = rows[i] /\ tasks'[i] = tasks[i]
<1> DEFINE row == [status |-> "PENDING", result |-> Absent]
           task == [pc |-> "waiting", document |-> text]
<1>1. row \in Row /\ row # Absent /\ task \in Task
  BY ExportAssumption DEF ExportInv, ExportTypeOK, Row, Task, Status
<1>2. rows' = [rows EXCEPT ![j] = row] /\ tasks' = [tasks EXCEPT ![j] = task]
  BY DEF InsertJob
<1>3. row.result = Absent /\ task.document = text
  OBVIOUS
<1> HIDE DEF row, task
<1> QED
  BY <1>1, <1>2, <1>3 DEF ExportInv, ExportTypeOK, JobsHaveRows, ResultsAreOfTheirJob

LEMMA RequestKeepsExportInv ==
  ASSUME ExportInv, NEW j \in Jobs, ExportLater(j) \/ AnswerIsLost(j)
  PROVE  ExportInv'
<1>1. /\ InsertJob(j) /\ panel.phase = "requesting" /\ panel.job = Absent /\ files' = files
      /\ UNCHANGED <<backend, text, access, stops>>
  BY DEF ExportInv, PanelKnowsItsJob, ExportLater, AnswerIsLost, InsertJob
<1>2. /\ rows' \in [Jobs -> Row \cup {Absent}] /\ tasks' \in [Jobs -> Task]
      /\ JobsHaveRows' /\ ResultsAreOfTheirJob'
      /\ rows'[j] # Absent /\ tasks'[j].document = text
  BY <1>1, InsertJobKeepsTables
<1>3. panel' \in Panel
  <2>1. panel \in Panel /\ text \in Texts /\ 0 \in 0..MaxAttempts
    BY ExportAssumption DEF ExportInv, ExportTypeOK
  <2>2. CASE ExportLater(j)
    BY <2>1, <2>2 DEF ExportLater, Panel
  <2>3. CASE AnswerIsLost(j)
    BY <2>1, <2>3 DEF AnswerIsLost, Fails, Panel
  <2> QED
    BY <2>2, <2>3
<1>4. PanelKnowsItsJob'
  <2>1. CASE ExportLater(j)
    BY <1>2, <2>1, ExportAssumption
       DEF ExportLater, ExportInv, ExportTypeOK, PanelKnowsItsJob, Panel
  <2>2. CASE AnswerIsLost(j)
    BY <1>1, <2>2 DEF AnswerIsLost, Fails, ExportInv, ExportTypeOK, PanelKnowsItsJob, Panel
  <2> QED
    BY <2>1, <2>2
<1> QED
  BY <1>1, <1>2, <1>3, <1>4 DEF ExportInv, ExportTypeOK, FilesAreAsRequested

LEMMA PollKeepsExportInv ==
  ASSUME ExportInv, Poll
  PROVE  ExportInv'
<1> DEFINE found == rows[panel.job].status
<1>1. panel \in Panel /\ panel.phase = "polling" /\ panel.job \in Jobs
  BY DEF Poll, ExportInv, ExportTypeOK, PanelKnowsItsJob, Panel
<1>2. found \in Status
  BY <1>1, ExportAssumption DEF ExportInv, ExportTypeOK, PanelKnowsItsJob, Row
<1>3. /\ panel'.job = panel.job /\ panel'.asked = panel.asked /\ panel'.status = found
      /\ panel'.phase \in {"ready", "error", "polling"}
      /\ panel'.attempt \in {0, panel.attempt + 1}
      /\ panel' = [phase |-> panel'.phase, job |-> panel.job, status |-> found,
                   attempt |-> panel'.attempt, asked |-> panel.asked]
  BY <1>1 DEF Poll, Panel, AttemptsMade
<1>4. panel.attempt + 1 \in 0..MaxAttempts /\ 0 \in 0..MaxAttempts
  BY <1>1, ExportAssumption DEF Poll, Panel
<1>5. panel' \in Panel
  BY <1>1, <1>2, <1>3, <1>4 DEF Panel
<1>6. PanelKnowsItsJob'
  BY <1>1, <1>3, ExportAssumption DEF Poll, serverVars, ExportInv, PanelKnowsItsJob
<1>7. files' \subseteq [asked : Texts, content : Texts] /\ FilesAreAsRequested'
  BY DEF Poll, ExportInv, ExportTypeOK, FilesAreAsRequested
<1> QED
  BY <1>5, <1>6, <1>7, PanelKeepsExportInv DEF Poll

LEMMA DownloadKeepsExportInv ==
  ASSUME ExportInv, ClickDownload
  PROVE  ExportInv'
<1> DEFINE file == [asked |-> panel.asked, content |-> rows[panel.job].result]
<1>1. panel.job \in Jobs /\ rows[panel.job] # Absent /\ rows[panel.job].result # Absent
  BY ExportAssumption
     DEF ClickDownload, Downloadable, ExportInv, ExportTypeOK, PanelKnowsItsJob, Panel, Status
<1>2. rows[panel.job].result \in Texts /\ panel.asked \in Texts
  BY <1>1 DEF ExportInv, ExportTypeOK, Panel, Row
<1>3. rows[panel.job].result = panel.asked
  BY <1>1, ExportAssumption DEF ExportInv, ResultsAreOfTheirJob, PanelKnowsItsJob
<1>4. files' = files \cup {file} /\ UNCHANGED <<serverVars, panel>>
  BY DEF ClickDownload
<1>5. files' \subseteq [asked : Texts, content : Texts] /\ FilesAreAsRequested'
  BY <1>2, <1>3, <1>4 DEF ExportInv, ExportTypeOK, FilesAreAsRequested
<1>6. panel' \in Panel /\ PanelKnowsItsJob'
  BY <1>4 DEF ExportInv, ExportTypeOK, PanelKnowsItsJob, serverVars
<1> QED
  BY <1>4, <1>5, <1>6, PanelKeepsExportInv

\* A job ends or goes on with the document it holds.
LEMMA JobKeepsExportInv ==
  ASSUME ExportInv, NEW j \in Jobs, JobStep(j)
  PROVE  ExportInv'
<1> DEFINE result == rows'[j].result
<1>1. UNCHANGED <<backend, text, access, stops, panel, files>> /\ tasks[j].pc # "none"
  BY DEF JobStep, JobAlone, panelVars, FinalizeExportJob, RenderingFails, TimerFires,
         TimerFinishes
<1>2. \E pc \in {"none", "running"} : tasks' = [tasks EXCEPT ![j].pc = pc]
  BY DEF JobStep, FinalizeExportJob, RenderingFails, TimerFires, TimerFinishes, Ends
<1>3. \/ rows' = rows
      \/ \E found \in Status, value \in {Absent, tasks[j].document} :
           rows' = [rows EXCEPT ![j] = [status |-> found, result |-> value]]
  BY DEF JobStep, FinalizeExportJob, RenderingFails, TimerFires, TimerFinishes, Update,
         Exported, Status
<1>4. /\ tasks' \in [Jobs -> Task]
      /\ \A i \in Jobs : tasks'[i].document = tasks[i].document
      /\ \A i \in Jobs \ {j} : tasks'[i] = tasks[i]
  BY <1>2 DEF ExportInv, ExportTypeOK, Task
<1>5. rows[j] # Absent /\ tasks[j].document \in Texts
  BY <1>1 DEF ExportInv, JobsHaveRows, ExportTypeOK, Task
<1>6. /\ rows' \in [Jobs -> Row \cup {Absent}]
      /\ rows'[j] # Absent /\ rows'[j].result \in {Absent, tasks[j].document}
      /\ \A i \in Jobs \ {j} : rows'[i] = rows[i]
  <2>1. CASE rows' = rows
    BY <1>5, <2>1 DEF ExportInv, ExportTypeOK, ResultsAreOfTheirJob
  <2>2. ASSUME NEW found \in Status, NEW value \in {Absent, tasks[j].document},
               rows' = [rows EXCEPT ![j] = [status |-> found, result |-> value]]
        PROVE  <1>6!:
    <3> DEFINE row == [status |-> found, result |-> value]
    <3>1. row \in Row /\ row.result = value /\ row # Absent
      BY <1>5, <2>2, ExportAssumption DEF Row
    <3> HIDE DEF row
    <3> QED
      BY <2>2, <3>1 DEF ExportInv, ExportTypeOK, row
  <2> QED
    BY <1>3, <2>1, <2>2
<1>7. ExportTypeOK'
  BY <1>1, <1>4, <1>6 DEF ExportInv, ExportTypeOK
<1>8. JobsHaveRows' /\ ResultsAreOfTheirJob'
  BY <1>4, <1>6 DEF ExportInv, JobsHaveRows, ResultsAreOfTheirJob
<1>9. PanelKnowsItsJob'
  BY <1>1, <1>4, <1>6 DEF ExportInv, ExportTypeOK, PanelKnowsItsJob, Panel
<1> QED
  BY <1>1, <1>7, <1>8, <1>9 DEF ExportInv, FilesAreAsRequested

LEMMA StopKeepsExportInv ==
  ASSUME ExportInv, ServerStops
  PROVE  ExportInv'
<1>1. /\ UNCHANGED <<backend, text, access, rows, panel, files>>
      /\ tasks' = [j \in Jobs |-> [tasks[j] EXCEPT !.pc = "none"]]
      /\ stops' \in 0..MaxStops
  BY ExportAssumption DEF ServerStops, panelVars, ExportInv, ExportTypeOK
<1>2. /\ tasks' \in [Jobs -> Task]
      /\ \A j \in Jobs : tasks'[j].pc = "none" /\ tasks'[j].document = tasks[j].document
  BY <1>1 DEF ExportInv, ExportTypeOK, Task
<1>3. ExportTypeOK'
  BY <1>1, <1>2 DEF ExportInv, ExportTypeOK
<1>4. JobsHaveRows' /\ ResultsAreOfTheirJob'
  BY <1>1, <1>2 DEF ExportInv, JobsHaveRows, ResultsAreOfTheirJob
<1>5. PanelKnowsItsJob'
  BY <1>1, <1>2 DEF ExportInv, ExportTypeOK, PanelKnowsItsJob, Panel
<1> QED
  BY <1>1, <1>3, <1>4, <1>5 DEF ExportInv, FilesAreAsRequested

LEMMA ExportStep == ExportInv /\ [Next]_vars => ExportInv'
<1> SUFFICES ASSUME ExportInv, [Next]_vars PROVE ExportInv'
    OBVIOUS
<1>1. CASE Edit \/ ChangeAccess
  BY <1>1, DocumentKeepsExportInv
<1>2. CASE ClickStart \/ ExportNow \/ Poll \/ ClickDownload
  BY <1>2, ClickStartKeepsExportInv, ExportNowKeepsExportInv, PollKeepsExportInv,
     DownloadKeepsExportInv
<1>3. CASE RequestRefused \/ RequestIsLost \/ PollRefused \/ PollIsLost \/ PollGivesUp \/ DownloadFails
  BY <1>3, FailsKeepsExportInv
     DEF RequestRefused, RequestIsLost, PollRefused, PollIsLost, PollGivesUp, DownloadFails
<1>4. CASE \E j \in Jobs : ExportLater(j) \/ AnswerIsLost(j)
  BY <1>4, RequestKeepsExportInv
<1>5. CASE (\E j \in Jobs : JobStep(j)) \/ ServerStops
  BY <1>5, JobKeepsExportInv, StopKeepsExportInv
<1>6. CASE UNCHANGED vars
  BY <1>6 DEF vars, serverVars, panelVars, ExportInv, ExportTypeOK, JobsHaveRows,
              ResultsAreOfTheirJob, PanelKnowsItsJob, FilesAreAsRequested
<1> QED
  BY <1>1, <1>2, <1>3, <1>4, <1>5, <1>6 DEF Next, RequestAnswered, PollAnswered

(* For any number of jobs and restarts, and however late a job runs: a downloaded   *)
(* file is the text that was exported (finalize_export_job, exportService.js).      *)
THEOREM FilesAreSafe == Spec => []FilesAreAsRequested
<1>1. ExportInv => FilesAreAsRequested
  BY DEF ExportInv
<1> QED
  BY <1>1, ExportInvInit, ExportStep, PTL DEF Spec
(***************************************************************************)
(* The sharing panel                                                       *)
(***************************************************************************)

(* Answers tell of changes that were made.                                          *)
AnswersAreOfThePast ==
  /\ acked <= changes
  /\ \A k \in Handlers : handlers[k] # None /\ ~Loading(handlers[k]) => handlers[k].at <= changes

(* Unless reloads overlapped there is at most one, and its lists are recent.        *)
ReloadsAreRecent ==
  ~mixed => \A k \in Handlers : Loading(handlers[k]) =>
    /\ handlers[k].members # None => handlers[k].members >= acked
    /\ handlers[k].links # None => handlers[k].links >= acked
    /\ \A i \in Handlers : Loading(handlers[i]) => i = k

SharingPanelInv ==
  /\ TypeOK
  /\ AnswersAreOfThePast
  /\ ReloadsAreRecent /\ ShowsOwnChanges

\* A call under way is of one of these kinds, and a click or an answer keeps its kind.
Requests == {"upsert", "remove", "create", "revoke"}
LEMMA CallFields ==
  ASSUME NEW h \in Call
  PROVE  /\ h # None
         /\ h.op \in Requests => h.stage \in {"sent", "done", "failed"} /\ h.at \in Changes
         /\ h.op \in {"upsert", "remove"} => h.user \in Collaborators
         /\ h.op = "create" => h.link \in ShareLinks \cup {None}
         /\ h.op = "revoke" => h.link \in ShareLinks /\ h.withAccess \in BOOLEAN /\ h.sawUrl \in BOOLEAN
         /\ h.op \notin Requests =>
              /\ h.op \in {"effect", "user", "link"} /\ h.stage = "loading"
              /\ h.members \in Changes \cup {None} /\ h.links \in Changes \cup {None}
              /\ h.rows \subseteq Collaborators /\ h.active \subseteq ShareLinks
         /\ Loading(h) <=> h.op \notin Requests
<1>1. h # None
  BY PermissionsPanelAssumption
<1> QED
  BY <1>1 DEF Call, Requests, Loading

LEMMA AnsweredCall ==
  ASSUME NEW h \in Call, h.op \in Requests, NEW stage \in {"done", "failed"}, NEW n \in Changes
  PROVE  /\ Answered(h, stage, n) \in Call /\ Answered(h, stage, n).op = h.op
         /\ Answered(h, stage, n).stage = stage /\ Answered(h, stage, n).at = n
<1>1. CASE h \in [op : {"upsert", "remove"}, user : Collaborators, stage : {"sent", "done", "failed"}, at : Changes]
  BY <1>1 DEF Call, Answered
<1>2. CASE h \in [op : {"create"}, link : ShareLinks \cup {None}, stage : {"sent", "done", "failed"}, at : Changes]
  BY <1>2 DEF Call, Answered
<1>3. CASE h \in [op : {"revoke"}, link : ShareLinks, withAccess : BOOLEAN, sawUrl : BOOLEAN,
                  stage : {"sent", "done", "failed"}, at : Changes]
  BY <1>3 DEF Call, Answered
<1> QED
  BY <1>1, <1>2, <1>3 DEF Call, Requests

LEMMA CreatedCall ==
  ASSUME NEW h \in Call, h.op = "create", NEW l \in ShareLinks
  PROVE  LET a == [h EXCEPT !.link = l] IN a \in Call /\ a.op = "create" /\ a.at = h.at
BY DEF Call

WithMembers(h, n, listed) == [h EXCEPT !.members = n, !.rows = listed]
LEMMA MembersListed ==
  ASSUME NEW h \in Call, h.op \notin Requests, NEW n \in Changes, NEW listed \in SUBSET Collaborators
  PROVE  LET a == WithMembers(h, n, listed) IN
         /\ a \in Call /\ a.op = h.op
         /\ a.members = n /\ a.links = h.links
<1>1. h \in [op : {"effect", "user", "link"}, stage : {"loading"},
             members : Changes \cup {None}, links : Changes \cup {None},
             rows : SUBSET Collaborators, active : SUBSET ShareLinks]
  BY DEF Call, Requests
<1> QED
  BY <1>1 DEF WithMembers, Call

WithLinks(h, n, active) == [h EXCEPT !.links = n, !.active = active]
LEMMA LinksListed ==
  ASSUME NEW h \in Call, h.op \notin Requests, NEW n \in Changes, NEW active \in SUBSET ShareLinks
  PROVE  LET a == WithLinks(h, n, active) IN
         /\ a \in Call /\ a.op = h.op
         /\ a.links = n /\ a.members = h.members
<1>1. h \in [op : {"effect", "user", "link"}, stage : {"loading"},
             members : Changes \cup {None}, links : Changes \cup {None},
             rows : SUBSET Collaborators, active : SUBSET ShareLinks]
  BY DEF Call, Requests
<1> QED
  BY <1>1 DEF WithLinks, Call

LEMMA LoadIsCall ==
  ASSUME NEW from \in {"effect", "user", "link"}
  PROVE  /\ Load(from) \in Call /\ Loading(Load(from)) /\ Load(from).op = from
         /\ Load(from).members = None /\ Load(from).links = None
<1>1. Load(from) \in Call
  BY DEF Load, Call
<1> QED
  BY <1>1, CallFields DEF Load, Loading

\* One handler takes a step and the others stay as they are.
LEMMA OneHandler ==
  ASSUME TypeOK, NEW k \in Handlers, NEW v \in Call \cup {None}, handlers' = [handlers EXCEPT ![k] = v]
  PROVE  /\ handlers' \in [Handlers -> Call \cup {None}]
         /\ handlers'[k] = v
         /\ \A i \in Handlers : i # k => handlers'[i] = handlers[i]
BY DEF TypeOK

LEMMA SharingPanelInvInit == PermissionsInit => SharingPanelInv
<1> SUFFICES ASSUME PermissionsInit PROVE SharingPanelInv
  OBVIOUS
<1>1. PICK k \in Handlers : handlers = [i \in Handlers |-> IF i = k THEN Load("effect") ELSE None]
  BY DEF PermissionsInit
<1>2. /\ handlers \in [Handlers -> Call \cup {None}]
      /\ \A i \in Handlers : handlers[i] = IF i = k THEN Load("effect") ELSE None
  BY <1>1, LoadIsCall
<1>3. /\ \A i \in Handlers : Loading(handlers[i]) <=> i = k
      /\ \A i \in Handlers : handlers[i] # None => i = k
      /\ handlers[k] = Load("effect") /\ handlers[k] \in Call
  BY <1>2, LoadIsCall DEF Loading
<1>4. TypeOK
  <2>1. 0 \in Changes
    BY PermissionsPanelAssumption DEF Changes
  <2> QED
    BY <1>2, <2>1 DEF PermissionsInit, TypeOK, PanelState, LinkStatus
<1>5. AnswersAreOfThePast
  BY <1>3 DEF PermissionsInit, AnswersAreOfThePast
<1>6. ReloadsAreRecent /\ ShowsOwnChanges
  BY <1>3, LoadIsCall DEF PermissionsInit, ReloadsAreRecent, ShowsOwnChanges
<1> QED
  BY <1>4, <1>5, <1>6 DEF SharingPanelInv

\* A step that leaves what is on screen and the reloads under way as they are.
LEMMA ReloadsUntouched ==
  ASSUME SharingPanelInv, acked' = acked, mixed' = mixed,
         shown'.phase = shown.phase, shown'.members = shown.members, shown'.links = shown.links,
         \A i \in Handlers : /\ Loading(handlers'[i]) <=> Loading(handlers[i])
                             /\ Loading(handlers[i]) => handlers'[i] = handlers[i]
  PROVE  ReloadsAreRecent' /\ ShowsOwnChanges'
BY DEF SharingPanelInv, ReloadsAreRecent, ShowsOwnChanges, Reloading

\* A click begins a call; what the panel shows stays.
CallStarts(k) ==
  /\ handlers[k] = None /\ UNCHANGED <<server, history>>
  /\ shown' \in PanelState
  /\ shown'.phase = shown.phase
  /\ shown'.members = shown.members /\ shown'.links = shown.links
  /\ \E v \in Call : /\ handlers' = [handlers EXCEPT ![k] = v]
                     /\ v.op \in Requests /\ v.at = 0

LEMMA ClickStarts ==
  ASSUME TypeOK, NEW k \in Handlers, Click(k)
  PROVE  CallStarts(k)
<1>1. 0 \in Changes /\ shown \in PanelState
  BY PermissionsPanelAssumption DEF TypeOK, Changes
<1>2. ASSUME NEW v \in Call, v.op \in Requests, v.at = 0, Starts(k, v), UNCHANGED <<server, history>>,
             \/ \E u \in Collaborators : shown' = [shown EXCEPT !.savingTarget = u]
             \/ \E l \in ShareLinks \cup {Creating} : shown' = [shown EXCEPT !.savingLink = l]
      PROVE  CallStarts(k)
  <2>1. /\ shown' \in PanelState /\ shown'.phase = shown.phase
        /\ shown'.members = shown.members /\ shown'.links = shown.links
    BY <1>1, <1>2 DEF PanelState
  <2> QED
    BY <1>2, <2>1 DEF Starts, CallStarts
<1>3. CASE \E u \in Collaborators : HandleUpsertPermission(k, u) \/ HandleRevokePermission(k, u)
  <2>1. PICK u \in Collaborators, op \in {"upsert", "remove"} :
          /\ Starts(k, [op |-> op, user |-> u, stage |-> "sent", at |-> 0])
          /\ shown' = [shown EXCEPT !.savingTarget = u] /\ UNCHANGED <<server, history>>
    BY <1>3 DEF HandleUpsertPermission, HandleRevokePermission
  <2> DEFINE call == [op |-> op, user |-> u, stage |-> "sent", at |-> 0]
  <2>2. call \in Call /\ call.op \in Requests /\ call.at = 0
    BY <1>1 DEF Call, Requests
  <2> HIDE DEF call
  <2>3. Starts(k, call)
    BY <2>1 DEF call
  <2> QED
    BY <1>2, <2>1, <2>2, <2>3
<1>4. CASE HandleCreateShareLink(k)
  <2> DEFINE call == [op |-> "create", link |-> None, stage |-> "sent", at |-> 0]
  <2>1. call \in Call /\ call.op \in Requests /\ call.at = 0
    BY <1>1 DEF Call, Requests
  <2>2. Starts(k, call) /\ shown' = [shown EXCEPT !.savingLink = Creating] /\ UNCHANGED <<server, history>>
    BY <1>4 DEF HandleCreateShareLink
  <2> HIDE DEF call
  <2> QED
    BY <1>2, <2>1, <2>2
<1>5. ASSUME NEW l \in ShareLinks, NEW flag \in BOOLEAN, HandleRevokeShareLink(k, l, flag)
      PROVE  CallStarts(k)
  <2> DEFINE saw == shown.latestUrl # None
             call == [op |-> "revoke", link |-> l, withAccess |-> flag, sawUrl |-> saw,
                      stage |-> "sent", at |-> 0]
  <2>1. Starts(k, call) /\ shown' = [shown EXCEPT !.savingLink = l] /\ UNCHANGED <<server, history>>
    BY <1>5 DEF HandleRevokeShareLink
  <2>2. saw \in BOOLEAN
    OBVIOUS
  <2>3. call \in Call /\ call.op \in Requests /\ call.at = 0
    <3> HIDE DEF saw
    <3> QED
      BY <1>1, <2>2 DEF Call, Requests
  <2> HIDE DEF call
  <2> QED
    BY <1>2, <2>1, <2>3
<1> QED
  BY <1>3, <1>4, <1>5 DEF Click

LEMMA ClickKeepsPanel ==
  ASSUME SharingPanelInv, NEW k \in Handlers, Click(k)
  PROVE  SharingPanelInv'
<1>1. /\ TypeOK /\ handlers[k] = None
      /\ UNCHANGED <<granted, status, accepting, changes, acked, mixed>>
      /\ shown' \in PanelState /\ shown'.phase = shown.phase
      /\ shown'.members = shown.members /\ shown'.links = shown.links
  BY ClickStarts DEF SharingPanelInv, CallStarts, server, history
<1>2. PICK v \in Call : handlers' = [handlers EXCEPT ![k] = v] /\ v.op \in Requests /\ v.at = 0
  BY <1>1, ClickStarts DEF CallStarts
<1>3. /\ handlers' \in [Handlers -> Call \cup {None}] /\ handlers'[k] = v
      /\ \A i \in Handlers : i # k => handlers'[i] = handlers[i]
      /\ ~Loading(v) /\ ~Loading(handlers[k])
  BY <1>1, <1>2, OneHandler, CallFields DEF Loading
<1>4. TypeOK'
  BY <1>1, <1>3 DEF TypeOK
<1>5. AnswersAreOfThePast'
  BY <1>1, <1>2, <1>3 DEF SharingPanelInv, AnswersAreOfThePast, TypeOK, Changes
<1>6. ReloadsAreRecent' /\ ShowsOwnChanges'
  BY <1>1, <1>3, ReloadsUntouched
<1> QED
  BY <1>4, <1>5, <1>6 DEF SharingPanelInv

\* The server's steps: a change counts up, and the request that made it is answered.
LEMMA ChangedCounts ==
  ASSUME TypeOK, Changed
  PROVE  changes \in Nat /\ changes' \in Changes /\ changes' = changes + 1
BY PermissionsPanelAssumption DEF TypeOK, Changed, Changes

LEMMA SentIsRequest ==
  ASSUME TypeOK, NEW k \in Handlers, NEW op \in Requests, Sent(k, op)
  PROVE  handlers[k] \in Call /\ handlers[k].op = op /\ ~Loading(handlers[k])
BY DEF TypeOK, Sent, Loading

LEMMA ChangedKeepsThePast ==
  ASSUME SharingPanelInv, Changed, acked' = acked,
         \A i \in Handlers : handlers'[i] # None /\ ~Loading(handlers'[i]) =>
           handlers'[i] = handlers[i] \/ handlers'[i].at = changes'
  PROVE  AnswersAreOfThePast'
<1>1. changes \in Nat /\ changes' = changes + 1
  BY ChangedCounts DEF SharingPanelInv
<1>2. acked \in Nat /\ \A i \in Handlers :
        handlers[i] # None /\ ~Loading(handlers[i]) => handlers[i].at \in Nat
  BY CallFields DEF SharingPanelInv, TypeOK, Changes, Loading
<1> QED
  BY <1>1, <1>2 DEF SharingPanelInv, AnswersAreOfThePast

\* The request of handler k makes a change and is answered.
LEMMA AnswerKeepsPanel ==
  ASSUME SharingPanelInv, NEW k \in Handlers, NEW op \in Requests, Sent(k, op), Changed,
         NEW v \in Call, v.op = op, v.at = changes', handlers' = [handlers EXCEPT ![k] = v],
         granted' \in [Collaborators -> ShareLinks \cup {ByOwner, None}],
         status' \in [ShareLinks -> LinkStatus], UNCHANGED <<accepting, shown, history>>
  PROVE  SharingPanelInv'
<1>1. TypeOK /\ changes' \in Changes /\ shown' = shown /\ acked' = acked /\ mixed' = mixed
  BY ChangedCounts DEF SharingPanelInv, history
<1>2. /\ handlers' \in [Handlers -> Call \cup {None}] /\ handlers'[k] = v
      /\ \A i \in Handlers : i # k => handlers'[i] = handlers[i]
      /\ ~Loading(handlers[k]) /\ ~Loading(v)
  BY <1>1, OneHandler, SentIsRequest, CallFields
<1>3. TypeOK'
  BY <1>1, <1>2 DEF TypeOK
<1>4. AnswersAreOfThePast'
  BY <1>1, <1>2, ChangedKeepsThePast
<1>5. ReloadsAreRecent' /\ ShowsOwnChanges'
  BY <1>1, <1>2, ReloadsUntouched
<1> QED
  BY <1>3, <1>4, <1>5 DEF SharingPanelInv

LEMMA AnswersFacts ==
  ASSUME TypeOK, Changed, NEW k \in Handlers, NEW op \in Requests, Sent(k, op), Answers(k)
  PROVE  \E v \in Call : v.op = op /\ v.at = changes' /\ handlers' = [handlers EXCEPT ![k] = v]
<1>1. PICK stage \in {"done", "failed"} :
        handlers' = [handlers EXCEPT ![k] = Answered(handlers[k], stage, changes')]
  BY DEF Answers
<1> DEFINE v == Answered(handlers[k], stage, changes')
<1>2. v \in Call /\ v.op = op /\ v.at = changes'
  BY ChangedCounts, SentIsRequest, AnsweredCall
<1>3. handlers' = [handlers EXCEPT ![k] = v]
  BY <1>1
<1> HIDE DEF v
<1> QED
  BY <1>2, <1>3

LEMMA AccessKeepsPanel ==
  ASSUME SharingPanelInv, NEW k \in Handlers, AccessGiven(k) \/ AccessRemoved(k) \/ LinkRevoked(k)
  PROVE  SharingPanelInv'
<1>1. PICK op \in {"upsert", "remove", "revoke"} : Sent(k, op)
  BY DEF AccessGiven, AccessRemoved, LinkRevoked
<1>2. /\ TypeOK /\ op \in Requests /\ Changed /\ Answers(k)
      /\ UNCHANGED <<accepting, shown, history>>
  BY DEF SharingPanelInv, AccessGiven, AccessRemoved, LinkRevoked, Requests
<1>3. PICK v \in Call : v.op = op /\ v.at = changes' /\ handlers' = [handlers EXCEPT ![k] = v]
  BY <1>1, <1>2, AnswersFacts
<1>4. granted' \in [Collaborators -> ShareLinks \cup {ByOwner, None}]
  BY <1>2 DEF AccessGiven, AccessRemoved, LinkRevoked, TypeOK
<1>5. status' \in [ShareLinks -> LinkStatus]
  BY <1>2 DEF AccessGiven, AccessRemoved, LinkRevoked, TypeOK, LinkStatus
<1> QED
  BY <1>1, <1>2, <1>3, <1>4, <1>5, AnswerKeepsPanel

LEMMA LinkCreatedKeepsPanel ==
  ASSUME SharingPanelInv, NEW k \in Handlers, NEW l \in ShareLinks, LinkCreated(k, l)
  PROVE  SharingPanelInv'
<1>1. /\ TypeOK /\ Changed /\ Sent(k, "create") /\ "create" \in Requests
      /\ status' \in [ShareLinks -> LinkStatus]
      /\ granted' \in [Collaborators -> ShareLinks \cup {ByOwner, None}]
      /\ UNCHANGED <<accepting, shown, history>>
  BY DEF SharingPanelInv, TypeOK, LinkStatus, LinkCreated, Requests
<1>2. PICK stage \in {"done", "failed"} : handlers' =
        [handlers EXCEPT ![k] = [Answered(handlers[k], stage, changes') EXCEPT !.link = l]]
  BY DEF LinkCreated
<1> DEFINE answered == Answered(handlers[k], stage, changes')
           v == [answered EXCEPT !.link = l]
<1>3. v \in Call /\ v.op = "create" /\ v.at = changes'
  <2>1. answered \in Call /\ answered.op = "create" /\ answered.at = changes'
    BY <1>1, ChangedCounts, SentIsRequest, AnsweredCall
  <2> HIDE DEF answered
  <2> QED
    BY <2>1, CreatedCall
<1>4. handlers' = [handlers EXCEPT ![k] = v]
  BY <1>2
<1> HIDE DEF v
<1> QED
  BY <1>1, <1>3, <1>4, AnswerKeepsPanel

\* What a collaborator does with a link reaches the panel by its lists alone.
LEMMA AcceptKeepsPanel ==
  ASSUME SharingPanelInv, NEW u \in Collaborators,
         (\E l \in ShareLinks : AcceptReads(u, l)) \/ AcceptCommits(u) \/ AcceptFails(u)
  PROVE  SharingPanelInv'
<1>1. /\ TypeOK /\ UNCHANGED <<status, handlers, shown>> /\ acked' = acked /\ mixed' = mixed
  BY DEF SharingPanelInv, AcceptReads, AcceptCommits, AcceptFails, history
<1>2. accepting' \in [Collaborators -> ShareLinks \cup {None}]
  BY <1>1 DEF TypeOK, AcceptReads, AcceptCommits, AcceptFails
<1>3. granted' \in [Collaborators -> ShareLinks \cup {ByOwner, None}]
  BY <1>1 DEF TypeOK, AcceptReads, AcceptCommits, AcceptFails
<1>4. changes' \in Changes /\ AnswersAreOfThePast'
  <2>1. CASE Changed
    BY <1>1, <2>1, ChangedCounts, ChangedKeepsThePast
  <2>2. CASE UNCHANGED changes
    BY <1>1, <2>2 DEF SharingPanelInv, AnswersAreOfThePast, TypeOK
  <2> QED
    BY <2>1, <2>2 DEF AcceptReads, AcceptCommits, AcceptFails
<1>5. TypeOK'
  BY <1>1, <1>2, <1>3, <1>4 DEF TypeOK
<1>6. ReloadsAreRecent' /\ ShowsOwnChanges'
  BY <1>1, ReloadsUntouched
<1> QED
  BY <1>4, <1>5, <1>6 DEF SharingPanelInv

LEMMA EndedPanel ==
  ASSUME NEW p \in PanelState, NEW h
  PROVE  /\ Ended(p, h) \in PanelState
         /\ Ended(p, h).phase = p.phase
         /\ Ended(p, h).members = p.members /\ Ended(p, h).links = p.links
BY DEF Ended, PanelState

\* A list arrives: it tells of every change so far.
LEMMA ListsKeepPanel ==
  ASSUME SharingPanelInv, NEW k \in Handlers, ListPermissions(k) \/ ListShareLinks(k)
  PROVE  SharingPanelInv'
<1>1. /\ TypeOK /\ Loading(handlers[k]) /\ handlers[k] \in Call
      /\ UNCHANGED <<granted, status, accepting, changes, shown, acked, mixed>>
  BY DEF SharingPanelInv, ListPermissions, ListShareLinks, server, history, TypeOK, Loading
<1>2. changes \in Changes /\ acked <= changes
  BY DEF SharingPanelInv, AnswersAreOfThePast, TypeOK
<1>3. PICK v \in Call :
        /\ handlers' = [handlers EXCEPT ![k] = v] /\ Loading(v)
        /\ v.members \in {changes, handlers[k].members}
        /\ v.links \in {changes, handlers[k].links}
  <2> DEFINE h == handlers[k]
  <2>1. CASE ListPermissions(k)
    <3> DEFINE listed == {u \in Collaborators : granted[u] # None}
               v == WithMembers(h, changes, listed)
    <3>1. handlers' = [handlers EXCEPT ![k] = v] /\ h \in Call /\ h.op \notin Requests
      BY <1>1, <2>1, CallFields DEF ListPermissions, WithMembers
    <3>2. listed \in SUBSET Collaborators
      OBVIOUS
    <3> HIDE DEF listed, h
    <3>3. v \in Call /\ v.op = h.op /\ v.members = changes /\ v.links = h.links
      BY <1>2, <3>1, <3>2, MembersListed
    <3> HIDE DEF v
    <3> QED
      BY <3>1, <3>3, CallFields DEF h
  <2>2. CASE ListShareLinks(k)
    <3> DEFINE active == {l \in ShareLinks : status[l] = "active"}
               v == WithLinks(h, changes, active)
    <3>1. handlers' = [handlers EXCEPT ![k] = v] /\ h \in Call /\ h.op \notin Requests
      BY <1>1, <2>2, CallFields DEF ListShareLinks, WithLinks
    <3>2. active \in SUBSET ShareLinks
      OBVIOUS
    <3> HIDE DEF active, h
    <3>3. v \in Call /\ v.op = h.op /\ v.links = changes /\ v.members = h.members
      BY <1>2, <3>1, <3>2, LinksListed
    <3> HIDE DEF v
    <3> QED
      BY <3>1, <3>3, CallFields DEF h
  <2> QED
    BY <2>1, <2>2
<1>4. /\ handlers' \in [Handlers -> Call \cup {None}] /\ handlers'[k] = v
      /\ \A i \in Handlers : i # k => handlers'[i] = handlers[i]
  BY <1>1, <1>3, OneHandler
<1>5. TypeOK'
  BY <1>1, <1>4 DEF TypeOK
<1>6. AnswersAreOfThePast'
  BY <1>1, <1>3, <1>4 DEF SharingPanelInv, AnswersAreOfThePast
<1>7. \A i \in Handlers : Loading(handlers'[i]) <=> Loading(handlers[i])
  BY <1>1, <1>3, <1>4
<1>8. ReloadsAreRecent'
  <2>1. acked \in Nat /\ changes \in Nat
    BY <1>1 DEF TypeOK, Changes
  <2> QED
    BY <1>1, <1>2, <1>3, <1>4, <1>7, <2>1 DEF SharingPanelInv, ReloadsAreRecent
<1>9. ShowsOwnChanges'
  BY <1>1, <1>7 DEF SharingPanelInv, ShowsOwnChanges, Reloading
<1> QED
  BY <1>5, <1>6, <1>8, <1>9 DEF SharingPanelInv

\* An answer is taken up: the reload that follows knows of every change so far.
LEMMA ProceedsKeepsPanel ==
  ASSUME SharingPanelInv, NEW k \in Handlers, Proceeds(k)
  PROVE  SharingPanelInv'
<1> DEFINE h == handlers[k]
           v == Load(Flag(h))
           url == UrlAfter(h)
<1>1. /\ TypeOK /\ h \in Call /\ h # None /\ h.stage = "done"
      /\ handlers' = [handlers EXCEPT ![k] = v]
      /\ shown' = [shown EXCEPT !.phase = "loading", !.latestUrl = url]
      /\ UNCHANGED <<granted, status, accepting, changes>>
      /\ acked' = IF h.at > acked THEN h.at ELSE acked
      /\ mixed' = Reloading
  BY DEF SharingPanelInv, Proceeds, server, TypeOK
<1>2. h.op \in Requests /\ h.at \in Changes /\ h.at <= changes
  <2>1. h.op \in Requests /\ ~Loading(h) /\ h.at \in Changes
    BY <1>1, CallFields
  <2> QED
    BY <1>1, <2>1 DEF SharingPanelInv, AnswersAreOfThePast
<1>3. v \in Call /\ Loading(v) /\ v.members = None /\ v.links = None
  <2>1. Flag(h) \in {"effect", "user", "link"}
    BY DEF Flag
  <2> QED
    BY <2>1, LoadIsCall
<1>4. /\ handlers' \in [Handlers -> Call \cup {None}] /\ handlers'[k] = v
      /\ \A i \in Handlers : i # k => handlers'[i] = handlers[i]
  BY <1>1, <1>3, OneHandler
<1>5. url \in ShareLinks \cup {None}
  BY <1>1, CallFields DEF UrlAfter, TypeOK, PanelState
<1> HIDE DEF h, v, url
<1>6. shown' \in PanelState /\ shown'.phase = "loading"
  BY <1>1, <1>5 DEF TypeOK, PanelState
<1>7. acked' \in Changes /\ acked' <= changes
  BY <1>1, <1>2 DEF SharingPanelInv, AnswersAreOfThePast, TypeOK
<1>8. TypeOK'
  <2>1. mixed' \in BOOLEAN
    BY <1>1 DEF Reloading
  <2> QED
    BY <1>1, <1>4, <1>6, <1>7, <2>1 DEF TypeOK
<1>9. AnswersAreOfThePast'
  BY <1>1, <1>3, <1>4, <1>7 DEF SharingPanelInv, AnswersAreOfThePast
<1>10. ReloadsAreRecent'
  BY <1>1, <1>3, <1>4 DEF ReloadsAreRecent, Reloading
<1>11. ShowsOwnChanges'
  BY <1>3, <1>4 DEF ShowsOwnChanges, Reloading
<1> QED
  BY <1>8, <1>9, <1>10, <1>11 DEF SharingPanelInv

\* A handler ends, by a failure or by the reload it waited for.
LEMMA EndsKeepPanel ==
  ASSUME SharingPanelInv, NEW k \in Handlers, CallFailed(k) \/ Loaded(k) \/ LoadFailed(k)
  PROVE  SharingPanelInv'
<1> DEFINE h == handlers[k]
<1>1. /\ TypeOK /\ h \in Call /\ h # None /\ shown \in PanelState
      /\ handlers' = [handlers EXCEPT ![k] = None]
      /\ UNCHANGED <<granted, status, accepting, changes, acked, mixed>>
  BY DEF SharingPanelInv, CallFailed, Loaded, LoadFailed, Loading, server, history, TypeOK
<1>2. /\ handlers' \in [Handlers -> Call \cup {None}] /\ handlers'[k] = None
      /\ \A i \in Handlers : i # k => handlers'[i] = handlers[i]
  BY <1>1, OneHandler
<1>3. /\ shown' \in PanelState
      /\ \/ /\ ~Loading(h) /\ shown'.phase = shown.phase
            /\ shown'.members = shown.members /\ shown'.links = shown.links
         \/ Loading(h) /\ shown'.phase = "error"
         \/ /\ Loading(h)
            /\ shown'.members = h.members /\ h.members # None
            /\ shown'.links = h.links /\ h.links # None
  <2> DEFINE p == Ended(shown, h)
  <2>1. /\ p \in PanelState /\ p.phase = shown.phase
        /\ p.members = shown.members /\ p.links = shown.links
    BY <1>1, EndedPanel
  <2>2. CASE CallFailed(k)
    <3>1. shown' = p /\ ~Loading(h)
      BY <2>2 DEF CallFailed, Loading
    <3> HIDE DEF p
    <3> QED
      BY <2>1, <3>1
  <2>3. CASE LoadFailed(k)
    <3>1. shown' = [p EXCEPT !.phase = "error"] /\ Loading(h)
      BY <2>3 DEF LoadFailed
    <3> HIDE DEF p, h
    <3>2. shown' \in PanelState /\ shown'.phase = "error"
      BY <2>1, <3>1 DEF PanelState
    <3> QED
      BY <3>1, <3>2
  <2>4. CASE Loaded(k)
    <3>1. /\ shown' = [p EXCEPT !.phase = "loaded", !.rows = h.rows, !.active = h.active,
                                !.members = h.members, !.links = h.links]
          /\ Loading(h) /\ h.members # None /\ h.links # None
      BY <2>4 DEF Loaded
    <3>2. /\ h.members \in Changes /\ h.links \in Changes
          /\ h.rows \subseteq Collaborators /\ h.active \subseteq ShareLinks
      BY <1>1, <3>1, CallFields
    <3> HIDE DEF p, h
    <3>3. /\ shown' \in PanelState
          /\ shown'.members = h.members /\ shown'.links = h.links
      BY <2>1, <3>1, <3>2 DEF PanelState
    <3> QED
      BY <3>1, <3>3
  <2> QED
    BY <2>2, <2>3, <2>4
<1> HIDE DEF h
<1>4. TypeOK'
  BY <1>1, <1>2, <1>3 DEF TypeOK
<1>5. AnswersAreOfThePast'
  BY <1>1, <1>2 DEF SharingPanelInv, AnswersAreOfThePast
<1>6. \A i \in Handlers : Loading(handlers'[i]) => i # k /\ Loading(handlers[i]) /\ handlers'[i] = handlers[i]
  BY <1>2 DEF Loading
<1>7. ReloadsAreRecent'
  BY <1>1, <1>6 DEF SharingPanelInv, ReloadsAreRecent
<1>8. ShowsOwnChanges'
  <2> SUFFICES ASSUME shown'.phase = "loaded", ~Reloading', ~mixed
               PROVE  shown'.members >= acked /\ shown'.links >= acked
    BY <1>1 DEF ShowsOwnChanges
  <2>1. CASE ~Loading(h)
    <3>1. ~Reloading
      BY <1>2, <2>1 DEF Reloading, h
    <3> QED
      BY <1>3, <2>1, <3>1 DEF SharingPanelInv, ShowsOwnChanges
  <2>2. CASE Loading(h)
    BY <1>3, <2>2 DEF SharingPanelInv, ReloadsAreRecent, h
  <2> QED
    BY <2>1, <2>2
<1> QED
  BY <1>4, <1>5, <1>7, <1>8 DEF SharingPanelInv

\* The invariant of the sharing panel, for any number of collaborators, links, handlers
\* under way and changes of the server.
THEOREM SharingPanelInvariance == PermissionsSpec => []SharingPanelInv
<1>1. ASSUME SharingPanelInv, [PermissionsNext]_permissionsVars PROVE SharingPanelInv'
  <2>1. CASE UNCHANGED permissionsVars
    BY <1>1, <2>1 DEF permissionsVars, server, history, SharingPanelInv, TypeOK, AnswersAreOfThePast,
      ReloadsAreRecent, Loading, ShowsOwnChanges, Reloading
  <2>2. ASSUME NEW u \in Collaborators,
               (\E l \in ShareLinks : AcceptReads(u, l)) \/ AcceptCommits(u) \/ AcceptFails(u)
        PROVE  SharingPanelInv'
    BY <1>1, <2>2, AcceptKeepsPanel
  <2>3. ASSUME NEW k \in Handlers, Click(k) \/ Answer(k) \/ Resume(k)
        PROVE  SharingPanelInv'
    <3>1. CASE Click(k)
      BY <1>1, <3>1, ClickKeepsPanel
    <3>2. CASE Answer(k)
      BY <1>1, <3>2, AccessKeepsPanel, LinkCreatedKeepsPanel, ListsKeepPanel DEF Answer
    <3>3. CASE Resume(k)
      BY <1>1, <3>3, ProceedsKeepsPanel, EndsKeepPanel DEF Resume
    <3> QED
      BY <2>3, <3>1, <3>2, <3>3
  <2> QED
    BY <1>1, <2>1, <2>2, <2>3 DEF PermissionsNext
<1> QED
  BY <1>1, SharingPanelInvInit, PTL DEF PermissionsSpec

\* The type of the sharing panel and of what it sees of the server.
THEOREM PermissionsTypesCorrect == PermissionsSpec => []TypeOK
BY SharingPanelInvariance, PTL DEF SharingPanelInv

\* The panel shows its own changes: a list on screen after loadMembers knows of every
\* change whose answer was taken up, unless reloads overlapped (loadMembers).
THEOREM OwnChangesAreShown == PermissionsSpec => []ShowsOwnChanges
BY SharingPanelInvariance, PTL DEF SharingPanelInv
===============================================================================
