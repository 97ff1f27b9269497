# A verification project for collaborative-editor-ai

TLA+ models of the parts of this repository that are hard to test, the TLC
configurations that check them on small instances, and TLAPS proofs of the
properties that matter most for instances of any size. The source is the
reference: every definition translates code, and `PROJECT.json` ("map") names
the lines. Paths below are relative to the root of the repository.

## 1. The system

A browser editor (`frontend/`), a FastAPI backend (`backend_fastapi/`) and a
Node relay for WebSockets (`realtime/`) share one SQLite database file. The
backend and the relay never call each other: they meet in the tables
`documents`, `document_permissions` and `realtime_events`. The repository also keeps
the Express backend it began with (`backend/`). FastAPI is the authoritative one
(`docs/adr/ADR-003-repo-structure.md:2`); Express is modelled as the reference it is,
with the same promises, and no model runs the two together.

| component | state it keeps | operations | what must hold |
|---|---|---|---|
| document store: `routers/document_crud.py`, `routers/versions.py`, `idempotency.py` | `documents`, `document_versions`, `idempotency_requests`, `realtime_events` | create, get, save, revert | no text is overwritten unread; a request counts once; history only grows |
| sharing: `routers/permissions.py`, `routers/share_links.py` | `document_permissions`, `share_links`, `realtime_events` | grant, revoke, create link, revoke link, accept link | what the owner asks for is done whole; an accept gives what a link that was on offer gives |
| relay: `realtime/src/server.js`, `ws/*.js` | sockets with a copy of their role, rooms with a Yjs document and a cleanup timer; nothing on disk | connect, message, error, close, timer, poll | a role that stays comes to rule the sockets; a revert reaches the room |
| realtime client: `services/realtime.ts`, `useRealtimeDocument.ts` | service, socket, reconnect timer, Yjs document | mount, session, open, message, close, edit, revert | it has the room's text once nothing is under way to it, and what it sent arrives; it comes back |
| editor page: `pages/DocumentPage.tsx`, `VersionHistoryPanel.tsx` | document, fallback and live text, save state | load, type, autosave, retry after 409, apply a suggestion, revert | feedback is true; a save out of live sync takes out nothing; autosaves end |
| AI jobs: `ai/service.py`, `routers/ai.py` | `ai_history`, `ai_policies`; the running stream | start, token, complete, fail, cancel, feedback, policy | a stored answer is whole; the quota holds; jobs settle |
| AI panel: `AiPanel.tsx`, `services/ai.ts` | phase, text, job id, snapshot, sessions of its runs | run, cancel, apply, reject, close | it stops streaming; what it asks for keeps the answers whole |
| exports: `routers/exports.py`, `exportService.js`, `ExportPanel.tsx` | `export_jobs`, tasks in memory, the panel | create, run, status, download | a file is what was asked for; the panel stops waiting |
| authentication: `routers/auth.py`, `deps.py`, `AuthContext.tsx`, `authAdapter.ts` | `users`, `refresh_tokens`, reset tokens, revoked access tokens; tabs and `localStorage` | register, login, refresh, logout, reset | one live session per sign-in; a reset cuts; late answers sign nobody in |
| rate limit: `rate_limit.py` | `rate_limit_events` | count an attempt | no window admits more than the limit |
| Express backend, for reference: `backend/src/` | tables like those, `ai_jobs`, runners in memory | save, revert, grant, revoke, queued and streamed AI jobs | one chain of versions; roles are told; jobs finish |
| AI service: `ai-service/src/` | jobs in a `Map`, calls that await a provider | create, run, reset | what is shown of a job fits together; RUNNING is under way |
| sharing panel: `PermissionsPanel.tsx` | two lists, two flags, the latest URL | grant, remove, create link, revoke link, reload | it shows its own changes |
| pages: `App.tsx`, `ShareLinkPage.tsx`, `HomePage.tsx`, `LoginPage.tsx` | the location, the page that is mounted, calls of pages that were left | navigate, sign in, preview, accept, create, load, save | an invitation shown is the address's; text stays in its document |
| toolbar: `lib/richTextToolbar.ts`, whose types the application imports and whose functions only tests call | none: functions of a text and a selection | toggle a format, toggle a list | markers never overlap; what was put on comes off |

How they interact:

- HTTP handlers run in worker threads of FastAPI, each with a connection of its
  own. SQLite lets one of them write at a time, from its first write statement
  (or `BEGIN IMMEDIATE`) to its commit. Reads and timestamps taken before that
  may be stale at commit. The AI stream routes are coroutines of one event loop.
- The handlers of the Express backend are synchronous JavaScript over a synchronous
  driver: no two of them interleave, but AI jobs await their provider between them.
- The relay polls `realtime_events` every 1.2 s in the order of `created_at`,
  acts on each event and marks it delivered. It reads a role once per socket, at
  connect, and the text of a document once per room, when the room is made.
- The client holds a revision and sends it back with a save; the backend answers
  409 if it is not the current one. Retries of a request bear the same `requestId`.
- The Express backend takes its AI providers from `ai-service/`, which can also run
  jobs of its own.
- A page shares its text with other pages through the relay's room, and stores it
  with a save of its own: two ways that meet only in the stored row.

What is hard: overlapping handlers, answers that are lost and requests that are
sent again, events applied late or in another order than the commits they tell
of, roles cached on sockets, timers that outlive their handle, sockets that still
report when their successor is under way, closures over an old render, jobs that
run in memory only, restarts of a process that keeps nothing, panels whose handlers
overlap, pages that are left while they wait. `PROJECT.json`
("hazards") lists each at its line with the properties that cover it, and says of
those without one why.

## 2. Modules

| module | what it is |
|---|---|
| `Accounts` | the constants two models of the same users share: `Users`, `Owner`, `NoRow` |
| `VersionHistory` | the abstract specification: a document is an append-only log of snapshots. `HistorySpec` appends what a save changed, or a revert; `RecordingSpec` also lets a store record a save that changed nothing, and back up the replaced text |
| `AccessControl` | the abstract specification of sharing: what the owner asks for is one step; a guest follows a link on offer, is weighed against it, and joins by it, with anything in between |
| `SignIns` | the abstract specification of sessions: every sign-in holds one token at most, no token is issued twice, and what has ended stays ended |
| `AiAnswers` | the abstract specification of AI answers: a row from the start, written once, whole, by its own stream, as its last act |
| `DocumentStore` | the store's handlers on one document; implements `VersionHistory` |
| `Sharing` | the handlers that decide who may do what, in any number of threads under SQLite's write lock; implements `AccessControl` |
| `RealtimeRelay` | extends `Sharing` with sockets, the room, the poller and restarts |
| `RealtimeClient` | the browser's realtime services, their sockets and the text of the room |
| `DocumentPage` | pages that load, save, retry, apply and revert, with the row and the room's text |
| `AiJobs` | the AI policy, quota and jobs of a document, and the requests that stream an answer; implements `AiAnswers` |
| `AiPanel` | extends `AiJobs` with the browser's AI panel; implements it |
| `RateLimiter` | the rows that count attempts |
| `AuthSessions` | extends `RateLimiter` with the sessions of one account and the tabs that use them; implements `SignIns` |
| `ExportJobs` | the export panel with the export handlers of either backend |
| `ExpressDocuments` | one document of the Express backend; implements `VersionHistory`'s `RecordingSpec` |
| `ExpressAi` | extends `ExpressDocuments` with AI jobs, policy and stops of the process; implements `AiAnswers` |
| `AiService` | the AI service's store and the calls that run its jobs |
| `PermissionsPanel` | the sharing panel with the server as it sees it, and the accepts of others |
| `Pages` | the pages of one tab, and the calls they await when they are left |
| `Toolbar` | the edits a toolbar action makes of a text and a selection |
| `*Proofs` | the theorems: `AiProofs` about `AiJobs`, `AiPanel` and `AiService`, `RealtimeRelayProofs` also about `Sharing`, `AuthSessionsProofs` also about `RateLimiter` and `Pages`, `PanelsProofs` about `ExportJobs` and `PermissionsPanel`, `DocumentPageProofs` also about `Toolbar`, `ExpressProofs` about both Express modules |
| `MC*` | the instances TLC checks. `MCFastApi`, `MCPanels`, `MCBrowserTab`, `MCAiJobs`, `MCRealtime` and `MCDocumentPage` check models side by side that share no state; the others are the instances of the violations |

Four modules say what a user may rely on without the mechanism. Each leaves out what the
detailed modules differ in: `VersionHistory` is implemented by `DocumentStore` and, with
backups, by `ExpressDocuments`; `AiAnswers` by `AiJobs` and by `ExpressAi`. The refinement
mappings read the tables: a row of `document_permissions` is an entry of `access`, a row
of `share_links` one of `gives`, open until it is revoked; a refresh token that is active
is held by the sign-in its chain began with; a row of `ai_history` is an answer, whose stream is open while its request has come
to none of its ends. Only `asked` of `AccessControl` is of the handlers: the accepts that
have read their link and not yet committed, which "join" if they will write.

### DocumentStore

One document; documents do not interact. `PUT /content` and `POST /revert`
require a `requestId`, so each runs inside one `BEGIN IMMEDIATE` transaction:
one atomic step, and any error rolls back to a step that changes nothing. What
is not atomic is the client, so the model gives every user a growing set `seen`
of (revision, text) pairs answered so far: a request may be built from any of
them, arrive at any time and be sent again (`UpdateReplayed`), and an answer may
be lost (`Answered`).

| code | model |
|---|---|
| `documents` | `doc` |
| `document_versions` | `versions`, by version number; `version_id` is its number, `rev_n` is `n` |
| `idempotency_requests` | `idempotency`, by (scope, user, requestId); the payload stands for its hash |
| `create_document` | `Init` |
| `get_document` | `GetDocument` |
| `update_document` | `UpdateReplayed`, `UpdateUnchanged`, `UpdateContent` |
| `revert_document` | `RevertDocument` |
| the sharing handlers | `RoleCommitted`: the role (`roleOf`) may change between any two steps |

`applied` is a history variable: how often each request changed the document.

### Sharing

Handlers that write first and read later are one step (`RevokePermission`,
`RevokeShareLink`). Handlers that read first are two or three:
`UpdatePermissionStart` takes the timestamp and `UpdatePermissionCommit` writes;
`AcceptReadsLink`, `AcceptReadsRole` and `AcceptCommit` are the two reads and the
transaction of `accept_share_link`. `Workers` is the set of threads, so an accept may
commit after a revocation of its link, or after a change of its user's role, that it has
not seen. `HandlerFails` is a handler that ends before its commit. `clock` counts the
timestamps taken, so that their order is the order of `created_at`. `cut` remembers that
a link was revoked with its grants.

### RealtimeRelay

The rooms of different documents do not interact: one room. Node runs one
callback at a time, so a poll is never interleaved with a connect, a message or
a timer (`Idle`), but the backend may commit between two events of a poll. An
event that is handled and not yet marked when the process stops is handled again;
since all that handling changed is lost with the process, a restart before the
event is handled is the same behaviour, and `DeliverNext` does both at once.

| code | model |
|---|---|
| `clients`, `client.role` | `client`; a closing socket stays until ws reports its close |
| `rooms`, the Yjs text | `relayRoom`: the revision the text was last set from, and who edited since |
| `room.cleanupTimer` | `armed`; `leaked` counts timers whose handle was overwritten |
| `processRealtimeEvents` | `PollStarts`, `DeliverNext`, `PollFindsNothing`; `batch` is what is left of `events` |
| a stopped and restarted process | `Restart` |

`lately`, `sincePoll` and `held` are history variables: the roles each user held since
the last finished poll began, since the last poll began, and ever. They say what "a poll
ago" means without a clock. What the sockets exchange, and what a merge gives, is `RealtimeClient`; here an
edit only arrives (`EditArrives`).

### RealtimeClient

A Yjs document is the set of the items it has been given. An item without all
earlier items of the same client stays pending (`Applied`): it is part of no text
and announced to nobody, which is what makes an update dropped by `sendBinary`
matter later. A connect of the hook makes a service with a document of its own, so
a service is also what Yjs calls a client. Channels are first in, first out, as TCP
is; a broken connection loses what is under way. `close()` only begins the closing
handshake: until the other side has read it, what either side has sent still arrives, and
the browser holds the socket for open (`OpenHere`), so that it may send more. `lost` is a
history variable: the edits that were not sent, because there was no open socket, or that
went with a broken connection, a dropped room or the relay's process.

| code | model |
|---|---|
| state of `useRealtimeDocument` | `page`; the effect that connects is `Mount`, its cleanup `Unmount` |
| `RealtimeService`: `shouldReconnect`, `reconnectTimer`, `socket`, the pending `createSession` | `service`: `wanted`, `timer`, `socket`, `awaiting` |
| `connect`, `disconnect`, `scheduleReconnect` | `Connecting`, `Disconnected` and `Disconnect`, `ScheduleReconnect` |
| after the await of `connect` | `OpenSocket`, `SessionFails` |
| `onopen` with the relay's "connection" | `Accept`, `Refuse` |
| `onmessage` | `ClientReceives`, `ClientIsReverted` (`connectionEpoch`) |
| `onclose` | `ClientNoticesClose` |
| `applyLocalChange`, `sendBinary` | `Edit` |
| `handleSyncMessage`, `ydoc.on("update")` | `RelayReceives`, `Broadcast` |
| `removeClient`, the cleanup timer, `applyDocumentReset`, `access_revoked` | `RelayNoticesClose`, `DropRoom`, `Revert`, `LoseAccess` |

The handlers of a socket compare it with the service's own (`Current`), which is
how late events of an older socket are ignored. `Accept` is both ends of a successful
handshake; what the relay sends from then on waits in the channel.

### DocumentPage

A text is a set of marks that nobody deletes; a text that a revert brings back counts
as a new mark. Of a revision nothing matters but its text and whether it is still the
current one. The model has every page's `loadDocument` and `handleSave` between their
awaits, with what their closures hold: the text they save, `collaborationReady` and
the revision.

| code | model |
|---|---|
| `document`, `fallbackContent`, the realtime text | `document`, `fallback`, `live`; `Shown` is what the editor shows |
| `loadDocument` | `Answer`, `Arrive`, `Loaded` |
| the autosave effect, the Save button | `Unsaved`, `Autosave` |
| `handleSave` | `StartSave`; `PutAccepted`, `PutRefused`, `PutFails`; `SaveContinues` after its own GET |
| `handleEditorChange`, `handleAiApply` | `Type`, `AiApply`, `Recorded` |
| the first sync message, later ones, a lost socket | `Connect`, `Sync`, `Break` |
| `handleRevert`, `revert_document` | `Revert` |
| the poller and `onDocumentReverted` | `RelayReverts`, `Told` |
| `update_document` | `Accepted`, `Stored` |

### AiJobs

The three stream routes are `async def` with no await outside `event_stream`, so
all of them share the one event loop of the process, and from one await to the next
no other stream request runs. Cancel, feedback and policy are `def` and run in
worker threads beside it, each with its own connection. The steps of a request are
therefore its database statements, ordered by `LoopFree`: a request that has read
(`Writing`) writes before another one goes on, but a worker may write in between.
The database session of a request stays open until its response has ended, which
the repository's streaming tests rely on.

| code | model |
|---|---|
| `ai_policies`, `ai_history` | `policy`, `job`; `output` counts the tokens in `output_text` |
| `prepare_ai_request` | `Request` (role, policy, count), `InsertJob` |
| `event_stream` | `SendToken`, `FinalCheck`, `CompleteJob`; `StopStream`, `CancelStream`; `ProviderFails`, `FailJob`; `DropStream` when Starlette cancels the task |
| `cancel_ai_job`, `record_ai_feedback` | `CancelReads`, `FeedbackReads`, then `HandlerWrites` |
| `update_ai_policy`, sharing, a new day, a restarted process | `UpdateAiPolicy`, `ChangeRole`, `Midnight`, `Restart` |

A request that is refused makes no row and keeps only its name. The provider of
the tests never fails; the other blocks the loop in `httpx.post`, which has a
timeout, so its failure is a step of its own before the first token.

### AiPanel

One mount of the panel. A click handler, and a part of an async function between two
awaits, is one step; setters of one step are applied together, as React does before
the next event. A run has the name of the job its request makes. `keepsId` is what
the closure of `handleRun` saw: `jobId` is a constant of one render. `session` is
`activeSessionRef`, `snapshot` the run whose selection `runSnapshot` holds, and
`text` (a `Draft`) says whose answer the text box shows, and whether all of it. The user
may click whenever a button is enabled, also before a run's response has begun.

| code | model |
|---|---|
| `useState`, `useRef` of `AiPanel` | `panel` |
| each call of `handleRun` with its session and stream | `run` |
| `handleRun` | `ClickRun`; `RunStarted` or `RunRefused`; `ReadToken`, `ReadDone`, `ReadError`, `ReadEnd`, `ReadRejects` |
| `handleCancel`, tabs, close | `ClickCancel`, `ClickTab`, `ClickClose` |
| `handleApply` with `handleAiApply` | `ClickApply`, `ApplyIsStale`, `ApplyIsNotSaved` |
| `handleReject`, `recordAiFeedback`, `onClose` | `ClickReject`, `SendFeedback`, `FeedbackDone` |
| `fetch` of cancel and feedback | `requests`: on their way, in no order |

Applying and its save are one step here (`DocumentPage` has the save): the save only
delays when feedback is sent, and a message may stay on its way as long as it likes.
A rejection whose history or usage cannot be loaded leaves the panel open; that is an
answer which is never handled. `Faults` says whether connections break, requests are lost
and the server restarts.

### RateLimiter and AuthSessions

One scope and key of the limiter, composed with the login handler. The clock is read
before the write lock is taken, so a handler may work with a second that lies up to
`MaxLag` back (`Times`). Refused attempts leave rows too; `admitted` is a history
variable.

One account: session `n` is the `n`-th row of `refresh_tokens` with the tokens issued
for it. `refresh_session` and `reset_password` run under `BEGIN IMMEDIATE`, so each
is one step; `login_user` verifies the password first and inserts later, so a reset
may commit in between (`late`).

| code | model |
|---|---|
| `register_user`, `login_user` | `Register`; `LoginVerify`, `LoginInsert` |
| `refresh_session`, `logout` | `Refresh` (`Rotated`), `Logout` |
| `forgot_password`, `reset_password`, expiry | `ForgotPassword`, `ResetPassword` (`RevokeAll`), `SessionExpires`, `ResetTokenExpires` |
| `get_current_user` | `CurrentUser` |
| `AuthProvider` and its `ApiClient` in each tab, `localStorage` | `tab`, `stored` |
| `restoreSession`, the refresh timer, `login` and `register`, `logout` | `OpenTab`, `TimerFires`, `SignIn`, `SignOut`; `Receive`, `ReceiveLogout` |
| the effect's `cancelled` flag | `Cancelled`: the timer's session is no longer the tab's |
| a login or register that fails | `NotSignedIn`: the status alone; session, token and storage stay |
| a page that is closed, a call that fails | `CloseTab`, `LoseCall` |

### ExportJobs

Both backends keep the same table and differ in when a job runs: `BackgroundTasks`
after the answer (`FinalizeExportJob`, `RenderingFails`) or a timer (`TimerFires`,
`TimerFinishes`, two commits of one turn of the event loop, in which nothing else is
served). The panel is `ClickStart`, the answers to its request, `Poll` and its three
failures, `ClickDownload`. A file is known by the text that was exported.

### ExpressDocuments and ExpressAi

Handlers are synchronous, so each is one step. `updateContent`, `revertDocument` and
`updatePermission` are transactions; `revokePermission` is not, so the process may
stop after its first statement (`RevokeStopsEarly`). What interleaves is the jobs:
`runJob` and `streamHistoryJob` between their awaits (`runner`), with the response of
a stream, its reader's close, other users' cancels and feedback. A request that is
refused or replayed changes nothing and is not a step. `RunnerDrops` is a database error
in an update of `runJob` or of a stream: it is only logged and leaves the row as it is, so
such a job, like one of a stopped process, is none that must finish.

| code | model |
|---|---|
| `getEffectiveRole`, `ensureDocumentAccess` | `Role`, `Access` |
| `updateContent`, `updateDocumentContent` | `UpdateContent`, `Record`, `Backup` |
| `revertDocument` | `RevertDocument` |
| `updatePermission`, `revokePermission` | `UpdatePermission`, `RevokePermission`, `RevokeStopsEarly` |
| `createJob`, `runJob` | `CreateJob`, `RunJob`, `JobFinishes` |
| `streamHistoryJob`, `writeSseStream` | `StartStream`, `ChunkArrives`, `StreamGivenUp`, `StreamCompletes`, `StreamFails` |
| `cancelStreamJob`, `req.on("close")` | `CancelStreamJob`, `ClientCloses` |
| `recordAiJobFeedback`, `updateAiPolicy` | `RecordJobFeedback`, `UpdateAiPolicy` |
| a stopped process | `ServerStops`, `RevocationStops` |

### AiService

One process and one thread: a call of `runAiJob` lets others run only while it awaits
the provider. Nothing stops two calls of one job, and `resetAiJobsStore` does not
wait for calls. `overlapped` is a history variable: the jobs that a second call took
up during a first.

| code | model |
|---|---|
| `jobsById`, `makeAiJobId` | `jobs`, `issued` |
| `validateCreateInput`, `insertAiJob` | `Issues`, `CreateAiJob`; what is refused is not stored |
| `runAiJob` before its await and after it | `RunAiJob`; `ProviderAnswered`, `ProviderFailed` |
| `updateAiJob` with the three updaters | `UpdateAiJob`; `Running`, `Succeeded`, `Failed` |
| `requestCompletion`, the stub, `normalizeAiError` | `Responses`, `ErrorOf`, `NormalizeAiError` |
| `resetAiJobsStore`, `toAiJobResponse` | `ResetAiJobsStore`, `ToAiJobResponse` |

### PermissionsPanel

Each click starts a handler that awaits its call and then, if it succeeded, a reload of
both lists. A click disables only some of the buttons, so handlers overlap. Each request
of the owner is one step of the server here: `Sharing` has its inside. Every change of what
a list would say counts up (`changes`), so that how old a list is can be said.

| code | model |
|---|---|
| `useState` of the panel, `savingTargetUserId`, `savingShareLinkId`, `latestShareUrl` | `shown` |
| the four handlers, `disabled` of their buttons | `HandleUpsertPermission` ...; `UpsertEnabled` ... |
| their requests, and the answers that are lost | `AccessGiven`, `AccessRemoved`, `LinkCreated`, `LinkRevoked` |
| `loadMembers`: `Promise.all`, its end, its `catch` | `ListPermissions`, `ListShareLinks`; `Loaded`; `LoadFailed` |
| after an await; `catch` and `finally` of a handler | `Proceeds`; `CallFailed`, `Ended` |
| somebody who follows a link | `AcceptReads`; `AcceptCommits`, also after the link was revoked or the role changed, or `AcceptFails` |

`acked` and `mixed` are history variables: the newest change an answer told of, and
whether the last reload began beside another one.

### Pages

One tab: the session as the pages see it, the location, the state of the page that is
mounted, and the calls of pages that may be gone by now. React keeps the state of a
page when only the parameter of its route changes, and drops it when another page takes
its place; a handler that awaits goes on either way.

| code | model |
|---|---|
| `ProtectedRoute`, `AuthEntryRoute` | `Mounted`, `Redirected` |
| a page that is mounted, gets another parameter or is left | `Goes` with `ShareFollows`, `EditorFollows`, `KeepsCalls` |
| `restoreSession`, the refresh timer, `login` and `register`, `logout` | `RefreshAnswered`, `RefreshDue`, `HandleSubmit` and `LoginAnswered`, `SessionEnds` |
| `loadPreview` and its clean-up, `handleAccept` | `PreviewArrives`, `PreviewFails`, `Abandoned`; `HandleAccept`, `AcceptAnswered`, `AcceptFails` |
| `handleCreate` of the dashboard | `HandleCreate`, `CreateAnswered`, `CreateFails` |
| `loadDocument`, `handleSave` of a page that may change its document | `LoadArrives`, `LoadFails`; `HandleSave`, `SaveAccepted`, `SaveFails` |

### Toolbar

A text is a sequence of symbols: a tag and the prefix of a list line are one symbol
each, while `*` and `~` are symbols of their own, because what they mean depends on
their neighbours. `MarkerRanges` is the recursion of `collectInlineMarkerRanges` as a
function on the spans it is called with; `SelectedLines` and `ToggledLines` are the list
actions. `normalizeInlineSelection` widens a selection in a loop until nothing changes;
the model takes the smallest selection around it that clips no range. That the loop ends
there, and that there is one, is the theorem `WideningEndsAtSmallest`.

## 3. What the runs show

| run | instance | shows | states |
|---|---|---|---|
| `fastapi` | store: 2 users, 2 texts, 2 requestIds, 4 versions; AI: the owner's panel with 1 run of 1 token, a collaborator, 2 threads, faults, fair; limiter: limit 1 in windows of 3 s, lag 1 s, 4 attempts in 4 s | no text is lost, no request counts twice, replayed answers stay true, and the refinement of `VersionHistory`; the backend keeps `AiAnswers` behind its panel, the panel stops streaming, a job whose client stays is settled; no window admits more than the limit, also with clocks read before the lock | 345,000 |
| `panels` | exports: 2 jobs, 2 attempts, 2 edits, 1 stop, fair; sharing panel: 2 handlers, 2 changes; sharing: 2 users, 2 links, 2 threads, 3 timestamps | a file has the text that was asked for, and the export panel does not wait for ever; the sharing panel shows its own changes; however handlers overlap, sharing refines `AccessControl` | 1,148,000 |
| `browser_tab` | sessions: 2 tabs, 2 sessions, 1 reset, 2 calls, limit 1 in 1 s; pages: 2 links, 1 document, 2 awaited calls; toolbar: 3 formats, 2 kinds of list | the refinement of `SignIns`; what a reset cuts; who may sign a tab in; an invitation is the address's; a format put on overlaps none and comes off again | 757,000 |
| `ai_jobs` | AI: 2 users, 2 requests, 1 worker, 2 days; AI service: 2 jobs, 2 calls | the stored answer is whole, and stored for exactly the clients that were told so; nobody gets past the quota; what is shown of a job of the service fits together, and RUNNING is under way | 3,826,000 |
| `realtime` | relay: 2 users, 2 sockets, 1 worker, no links, 2 timestamps, 2 revisions, 1 lost timer, 1 restart, fair; clients: 2 hooks, 2 services, 4 sockets, 3 items, 1 fault, fair | reverts reach the room; nobody loses the room; whoever edits could write a poll ago; a role that stays comes to rule every socket; a service to which nothing is under way has the room's text, and what was sent arrives; who was revoked stays away; pages come back | 663,000 |
| `document_page` | pages: 2 pages, 3 units of work, fair; Express: owner, collaborator, admin, 3 requests, 2 jobs of 2 chunks, 1 stop, fair | feedback is true; saves out of live sync take out nothing; undisturbed autosaves end; one chain of versions; roles are told; cancelled streams stay so; jobs of the running process finish | 656,000 |
| `document_page_overwrites` | 2 pages, 2 units of work | a violation: a retry overwrites another page's text | |
| `pages_text` | 2 documents, 2 links, 3 awaited calls, 1 edit | a violation: a page stores one document's text in another one | |
| `sharing_cut_link` | as `panels` | a violation: access by a link that was cut | |
| `relay_agrees` | 2 users, 2 sockets, 2 threads, 1 link, 3 timestamps | a violation: a socket keeps a role the table no longer has | |
| `ai_suggestion` | a panel with 2 runs of 1 token | a violation: one run's answer beside the other run's selection | |
| `offline_edits` | 2 hooks, 2 services, 4 sockets, 2 items, 1 fault | a violation: connected pages with different texts | |

The passing runs check models side by side that share no state. While one of them moves the
others are in an initial state, so that their states add up instead of multiplying; a
property of one of them says in the run what it says of that model alone.

A property that a theorem proves and that TLC agrees with is not always run again: the
type invariants, `HeadIsLatestVersion`, `RevisionDenotesContent`, `RevertsAnnounced`,
`HistoryAppendOnly`, `GrantsMatchTheirLink`, `AuthorsCouldWrite`,
`OneLiveSessionPerSignIn`, `RecordsHistory`, `StoredJobsAreExecutable` and Express's
`KeepsAnswers` are theorems and in no run. TLC agreed with each of them on the instance of
a run here before it was proved.

**Bounds.** Constants whose comment says "bound" are guards that stop an unbounded
counter; `CHECK_DEADLOCK FALSE` is said because a bounded model stops there, and
because users may just stop.

- Two users are enough for interference: the owner's role never changes, and every
  other user is like the one collaborator (nothing relates two of them). Express
  has an administrator besides, whose role does not come from the table.
- `fastapi`, store: four versions admit a save, a revert with its backup and a save
  against each; longer histories, with reverts of reverts, are covered by the proofs.
- `fastapi`, limiter: a window spans four ticks, of which a handler may have read the one
  before it got the lock; four attempts are two that are admitted in windows that overlap
  by a second and two that are refused.
- `fastapi`, AI: one request, since another one only delays it, for no task keeps the
  event loop across an await; two threads, for a cancel and a feedback that overlap.
- `panels`: two handlers of the sharing panel overlap in every pair of clicks, and two
  changes are enough for an older list that arrives last. In `Sharing`, three timestamps
  with two threads and two links admit an accept beside another one, beside a revocation
  or beside a change of the role. The export panel asks 2 times instead of 20; one more
  attempt only waits.
- `browser_tab`, sessions: two tabs that share a session are enough for two refreshes of
  one token; two sessions for a rotation. Its limiter is small, as `fastapi` has it in full.
- `browser_tab`, pages: two awaited calls admit two previews that come in either order, or
  a preview and an accept; one document and no second edit, as the second document is what
  `pages_text` is about. Toolbar texts: every way to nest or set beside one another two
  of the formats around one letter, and all texts of up to four letters, breaks and list
  prefixes, with every selection. Italic is left out of the run, not of the theorems: its
  marker inside of `**a**` is a part of bold's.
- `ai_jobs`: `MaxDay` admits one midnight. One token is enough for a stream that is cut
  off before its answer is whole, and two requests against a quota of one for two that
  count before either is stored. The service's selections are around 0 and around an empty
  one, with a missing language, field and action; two calls of one job are what it takes
  to overlap.
- `realtime`, relay: two timestamps admit a grant and its revocation, or two changes of
  one user, and `MaxRevision` 2 one revert that is delivered late. One timer whose handle
  was lost and one that is armed is what it takes to drop a room in use. It has one worker
  and no links: `EditsAreAuthorised` and `RolesConverge` say what the relay does with
  events that tell the truth in the order of their commits. With two threads or a cut link
  they are not true; that is `relay_agrees`.
- `realtime`, clients: `Restless` is the hook that leaves or loses access, so that the
  other is the one whose text may be missed. The first item is the text of the room. Two
  edits after it admit one that is dropped while the socket is down and one that is sent
  and stays pending in the room, or an edit on a socket that is being closed. To keep the
  run small the third item is an edit made before any page was left or lost access, and
  none of that comes after it (`ThirdIfCalm`). Four sockets admit two reconnects of each
  of two services, or three of one.
- `document_page`, pages: `MaxWork` counts an edit as 1, a lost socket or a lost save as 2
  and a revert as 3, so that a run has three edits, or an edit and a fault, or a
  revert between loads and saves of both pages. `p1` may revert, `p2` may apply.
- `document_page`, Express: three requests that change something are a save, a retry of it
  and a save of somebody else, or a stream, its cancellation and feedback on it.

Symmetry is used for the AI requests of `ai_jobs` and the tabs of `browser_tab`, which the
code treats alike; these two runs have no liveness.

**Fairness.** Nobody has to click, type, apply, revert or disconnect.

- `fastapi` (`PanelFairness`): steps of a stream, because asyncio runs every task that is ready
  and the provider's call times out; steps of a run, because the browser resumes what
  it awaited; a request arrives or fails.
- `panels` (`ExportFairness`): a request of the export panel whose connection stays is
  answered, the panel's timers fire
  and a turn of Express ends. Nothing says that a job is ever run.
- `realtime`, relay (`Fairness`): `PollStarts` and `DeliverNext`, because `setInterval`
  keeps polling and a poll is a loop without I/O waits; the close of a closing socket,
  because ws destroys a socket whose peer does not answer the close frame.
- `realtime`, clients (`ClientFairness`): session requests are answered or fail, timers
  fire, what is sent on a socket arrives, and each end notices a close.
- `document_page`, pages (`PageFairness`): requests are answered, the autosave timer fires,
  sockets come back and deliver. `AutosavesSettle` asks besides that nothing was lost or
  reverted and that the pages are in sync, which is when nothing but autosaves is left to
  happen.
- `document_page`, Express (`Fairness`): the event loop turns, and a provider answers or
  times out. The pages, which load from the start, are asked to be fair only in behaviours in
  which it is not Express that moves. In the other runs nothing that is fair is enabled in
  an initial state, so that the fairness of the models that rest asks for nothing.

Every property of a passing run has a mutant: a changed definition, such as a
dropped guard or a wrong version number, under which TLC finds it violated. The
mutated definitions stand before the ones they replace, marked "Mutant".

## 4. What is proved

For any number of users, texts, requests, versions, links, threads, sockets, timers,
AI requests, tokens, runs, pages, tabs, sessions, jobs and restarts, from the named
assumptions on the constants (`StoreAssumption`, `SharingAssumption`,
`RelayAssumption`, `AiAssumption`, `PanelAssumption`, `LimiterAssumption`,
`AuthAssumption`, `ClientAssumption`, `PageAssumption`, `ExportAssumption`, `DocumentsAssumption`,
`ExpressAssumption`, `AiServiceAssumption`, `PermissionsPanelAssumption`,
`PagesAssumption`: the owner is a user, the bounds are numbers, the value for "no
row" is not a row, a link leads to a document):

- `DocumentStoreProofs`: all the safety properties of the store, that versions
  are only appended, and the refinement. The inductive invariant `StoreInv` conjoins
  them with what they need of one another: `HeadIsLatestVersion` fixes the number the
  next version gets, `NoLostUpdate` the form of the rows before it, and
  `AppliedAtMostOnce` that a request without a stored answer was never applied. Each
  handler is shown to preserve each conjunct; the refinement then maps a save to
  `Append1`, a revert to `AppendRevert` and every other step to a stutter.
- `RealtimeRelayProofs`, sharing: types, and `GrantsMatchTheirLink` for overlapping
  handlers. What makes it inductive is `AcceptMatchesLink`: a handler that read a link
  keeps a role that is the link's own or none the merge raises. `SharingInv` is the three.
- `SharingImplementsAccessControl`: `SharingSpec => ImplementsAccessControl`, for any number
  of threads. An accept is a `Follow` when it reads the link, a `Weigh` when it reads a role
  that the link's is more than, a `Join` at a commit that writes and a `Quit` at any other
  end; a handler of the owner takes effect at its commit. `AccessInv` adds to `SharingInv`
  that no handler is about the owner (`HandlersAreOfGuests`). The promise is as weak as
  the code: between `Weigh` and `Join` the owner may change the role, which the accept then
  lowers, or withdraw the link, which then gives access all the same. What an accept never
  does is give another role than its link's, through a link that was not on offer when it
  asked, or to somebody who had as much when it was weighed. `RelayKeepsAccessControl` is
  the same beside the relay, whose steps are stutters.
- `RealtimeRelayProofs`, the relay, for any number of threads and links: types;
  `ServedSocketsHaveTheRoom` and `RevertsReachTheRoom` by `RoomInv`, which is the two with
  the types. `OnlyWritersEdit` is `AuthorsCouldWrite`: whoever's edit is in the room had a
  role that may write at some time. `HeldInv` says that every role an event, a socket or an
  accept that will write nothing speaks of was held (`RolesWereHeld`), and no handler is
  about the owner. That the role was held a poll ago (`EditsAreAuthorised`) is checked with one
  thread and no links, and is not true otherwise.
- `AiProofs`, the jobs: types, `AnswerAgreesWithRow` and `QuotaRespected`. `AiInv` adds
  that at most one request is between two awaits (`LoopHeldByOne`), that a request
  which was admitted has its row (`RowsExist`) and that one about to complete has sent
  every token (`AllSentAtTheEnd`). For the quota, `StillBelowQuota` says that a
  request which is about to insert still finds its user below the quota it read: no
  other request can have inserted since, and a new day only takes rows away.
- `AiProofs`, the panel: `PanelSpec => AiSpec`, so that what is proved of the jobs
  holds under any panel, and types.
- `AiKeepsAnswers`: `AiSpec => KeepsAnswers`, the refinement of `AiAnswers` with its
  `RowsAreFinal`. `AiInv` is what it needs: a request that streams has a row
  (`RowsExist`), so `InsertJob` is a `Start` and each of the ends an `Ends`; one that
  completes has sent every token (`AllSentAtTheEnd`), so what it stores is `Whole`; a
  handler's late write is of a row (`RowsExist`) and touches its status only, so it is a
  `Label`, whatever the stream does meanwhile. A restart is `AllEnd`. `PanelKeepsAnswers`
  follows by `PanelSpec => AiSpec`. `ExpressKeepsAnswers` is the same promise of the other
  backend, with the same lemma for finality: there a cancellation is a `Label`, which the
  stream notices later, and the end of a stream that nobody wants is `IsGivenUp`.
- `AiProofs`, the AI service: types, `SnapshotsAreConsistent`, `RunningIsUnderWay` and
  that only executable jobs are stored. `ServiceInv` adds that a stored job's id was
  issued (`JobsAreIssued`), so a call that outlives a reset never meets another job of
  that id, and that a job nobody took up twice is RUNNING while a call has it
  (`CallsRunTheirJob`): the answer then replaces no text and no error of another call.
- `RealtimeClientProofs`: `ClientTypeOK`, `RevokedStaysAway` and both halves of
  `SettledServicesAgree`. For the first half, `ClientInv` says that what a service sends it
  made itself (`SentIsOwn`) and still holds while it may yet connect (`OwnItemsKept`): a
  document is given up only with the service. So an item the room shows for the first time
  was either just sent on by the relay or is its sender's own, and a socket whose SyncStep1
  was answered has, or will have read, all the room shows (`EveryoneIsServed`). A
  service that was told of a revocation has no timer left (`RevokedIsIdle`). For the second,
  `ArrivalInv` says that every item ever made is in the room, lost, or sent on a socket the
  relay still listens to (`Arrives`). It needs that a socket which is open or has something
  to read is a member of the room and that one which is opening or broken carries nothing
  (`LinkStates`), that a SyncStep1 carries no items (`StepsAreEmpty`), that without a room
  there is no text (`Vacant`), and that nobody holds an item that was not made
  (`DocsAreKnown`).
- `DocumentPageProofs`: `PageTypeOK`, `AppliedIsKept` and `OfflineSavesKeepText`, for
  any number of pages. `PageInv` adds that a suggestion whose save was accepted is in a
  version already (`SuggestionIsSaved`), and that what a page out of live sync saves
  contains the text of the revision it saves against (`OfflineSaveHasTheText`), since
  its fallback text was loaded with that revision and has only grown.
- `DocumentPageProofs`, the toolbar, for any text and selection: `MarkedRangesStand`,
  every range the recursive search finds at any depth has its markers standing in the
  text; `WideningEndsAtSmallest`; and `FormatsPutOnComeOff`, toggling twice gives back
  the text and the selection as long as the new selection clips none of the ranges of
  the new text. That the recursion has a value at every span, and that its value has the
  property, is shown by the least span for which it would fail, as the libraries'
  induction theorems cannot be instantiated here. `ListsPutOnComeOff` is the lines of a
  list: whichever were listed before, unless all were, and as far as there are numbers,
  what `ToggledLines` adds it recognises and takes off.
- `AuthSessionsProofs`: the limiter's bound, alone and inside the login handler
  (`LimiterInv`: an admitted attempt keeps its row until it expires), types,
  `OneLiveSessionPerSignIn`, `ResetCutsEarlierSignIns` and `OnlyAwaitedAnswersSignIn`.
  `AuthInv` adds that a chain of refreshes began no later than its rows
  (`RootsAreEarlier`) and that a refresh presents a session (`RenewalsPresentOne`).
- `SessionsImplementSignIns`: `AuthSpec => ImplementsSignIns`. With `RootsAreEarlier` a
  new row is of a sign-in that was never begun (`Begin`); a refresh replaces the row it
  presents (`Renew`), a logout and an expiry are an `End`, a password reset is `EndAll`,
  and a refused token changes nothing. That a sign-in never holds two tokens is then
  `SignIns`' own doing: no action of it gives one to a sign-in that has one.
- `AuthSessionsProofs`, the pages: types, which say that a page has state exactly while
  it is mounted, and `ReadyIsCurrent`. `PagesInv` adds that an open call finds the page it
  belongs to (`CallsFindTheirPage`): a preview that was not cancelled is of the
  present address, an accept or a save whose page was not left has it still.
- `PanelsProofs`: `FilesAreAsRequested`. `ExportInv` says that a task holds the
  text its request read, that a result is of its own job and that the panel polls for
  the job it asked for.
- `PanelsProofs`, the sharing panel: types and `ShowsOwnChanges`, for any number of
  handlers that overlap. `SharingPanelInv` says that no answer tells of a change to come
  (`AnswersAreOfThePast`) and that the lists of a reload which began alone know of all that
  was answered before (`ReloadsAreRecent`).
- `ExpressProofs`: types, `VersionsAreChained`, `RolesAreTold` and `CancelledStays`.
  Its invariant says that backups stand just before the version that replaced their
  text (`BackupsStandAlone`), that no version is of a request without a stored answer
  (`RequestsAreOfOneVersion`) and that a runner has a row (`RunnersHaveRows`).
  `ExpressRecordsHistory` is the refinement: versions that are linked and end in the
  present text are the log, so a save maps to `Append1` or `AppendAfterBackup`, a revert to
  the latter and every other step to a stutter.

Only model-checked:

- liveness (`RolesConverge`, `StreamingEnds`, `ConnectedSettles`, `PagesComeBack`,
  `AutosavesSettle`, `JobsFinish`, `PreparingEnds`) and ENABLED, which are out of the
  prover's reach;
- `EditsAreAuthorised`, which holds of one thread and no links only;
- the toolbar's `WidenedEnough` and `OnAndOff`: they ask which ranges the *edited* text
  has, that is how a recursive search changes when markers are put into its input, and
  the list part cuts a text into lines and folds them together again, by induction over
  data. `FormatsPutOnComeOff` and `ListsPutOnComeOff` have the steps that do not depend on
  it: the first with it as a hypothesis, the second on lines.

Every other safety property of a passing run is stated by a theorem, with no condition
but the assumptions named above. No module declares a
RECURSIVE operator.

## 5. Findings

`document_page_overwrites` (`RetriesKeepText`): a page in live sync whose save is
answered 409 fetches the document and puts the text it already had against the
revision it has just read (`DocumentPage.tsx:287-301`). The revision check then
passes, and text that another page stored in between is replaced by one that never
contained it, if the room's update is still on its way or the other page is out of
sync. The requirements say that the client resynchronises "instead of silently
overwriting newer persisted content" and that "Simultaneous edits do not silently
discard one collaborator's changes"
(`final-report/sections/03-requirements-engineering.tex:70-71`, `:93`).

`pages_text` (`TextStaysInItsDocument`): a document page whose route goes from one
document to another stays mounted, and `loadDocument` takes whichever answer comes
last. If that is the first document's, the page has its text and revision with the
second one's address; the next save is refused, and in live sync retried with the
second one's revision (`DocumentPage.tsx:267`): the first one's text replaces the
second one's. The checklist says "Pause typing and confirm autosave persists the
current text" (`docs/manual-testing-checklist.md:62`), and the requirements are those
quoted above.

`sharing_cut_link` (`CutLinkGrantsNothing`): with two threads, an accept that read a link
before it was revoked together with its grants inserts a row granted by that link
afterwards (`share_links.py:192-204`), which no later revocation finds. The panel says that
"collaborators whose current access came from that share link will also lose access"
(`PermissionsPanel.tsx:279`).

`relay_agrees` (`RelayAgreesWhenDelivered`): cutting a link with its grants sends no event,
so collaborators who are connected keep editing (`share_links.py:160`); and of two
overlapping role changes of one user, whose timestamps are taken before the write lock
(`permissions.py:44`), the events may be delivered in the other order than the commits, so
the socket keeps the wrong role. The requirements say "Permission changes affect
collaboration behavior promptly" (`final-report/sections/03-requirements-engineering.tex:126`).

`ai_suggestion` (`SuggestionIsTheRuns`): a run that is cancelled before its response
begins is not in `activeSessionRef` yet (`AiPanel.tsx:113`), goes on beside the next run,
and its answer is shown and can be applied with the next run's selection. The contract says
"AI results are applied only if the current text inside the target range still matches the
source text that the suggestion was generated from" (`docs/assignment2-contracts.md:333`).

`offline_edits` (`ConnectedClientsConverge`): an edit made while the socket is down is
dropped (`realtime.ts:158`), and the relay's SyncStep1 after the reconnect, to which the
client's answer would hold it, has that answer thrown away (`realtime.ts:340`): two
connected pages have different texts and nothing is under way. The requirements say "All
connected clients converge to the same content after the final update is applied"
(`final-report/sections/03-requirements-engineering.tex:94`).

Observations: what the code does and nothing in the repository plainly forbids. They
are the reason for what some properties leave open, and have no run of their own.

Sharing and relay:

- An accept writes the role it merged with the one it read: it lowers a role the owner
  raised meanwhile, and gives access to a user whom the owner removed meanwhile
  (`share_links.py:192-204`). A link that was revoked alone gives access once more in the
  same way. Hence `Weigh` and `Join` in `AccessControl`.
- The sharing panel: `finally` of one handler clears the flag another one set, so a
  button comes back while its call is under way; of two reloads that overlap the older
  may arrive last (`loadMembers` has no guard). Hence `mixed` in `ShowsOwnChanges`, which
  says nothing of overlapping reloads.
- A click on "Revoke" keeps the `latestShareUrl` of its render (`PermissionsPanel.tsx:182`): a
  URL whose create is answered after that click stays on offer although its link is
  the one that was revoked, and a URL of another link that is still live is cleared. The
  URL of a link whose revocation lost its answer stays too. No property forbids either.

AI jobs and panel:

- The second run of a panel never knows its job id, because the loop over the stream
  reads `jobId` from the closure of an old render (`AiPanel.tsx:118`); its suggestion
  is applied, no feedback is sent, and the closing panel cancels the job.
- Cancelling a stream aborts the read; the rejection makes the `catch` of `handleRun`
  replace "Generation cancelled" by "Generation failed" (`AiPanel.tsx:147-149`).
- `complete_ai_request` overwrites a cancel that commits after the last check of
  `event_stream`; that cancel was answered `"cancelled": true`.
- With two worker threads, a cancel that read "completed" before feedback was written
  replaces it (`ai/service.py:190`): `KeepsAnswers` says of such labels only that they leave
  the answer as it is.
- The AI service lets two calls run one job; the error of the one that fails first then
  stays beside the text of the other (`ai-service/src/service.js:248`). Hence `overlapped`
  in `SnapshotsAreConsistent`, which says of such jobs only what holds of them too.

Editor page and realtime client:

- A page becomes ready with the first sync message, before the room's text has
  arrived; for so long it shows, and may autosave, an empty text. When it becomes
  ready or loads, text typed into the fallback is gone.
- After a revert, an autosave of a page that does not know of it yet may put the old
  text back, and the poller then resets the room to what is stored by now
  (`eventPoller.js:24`).
- A load that was asked before a save and answered after it, or a lost answer of a
  PUT, can leave every page "saved" while another text is stored. Hence the conditions
  of `AutosavesSettle`.
- A suggestion applied while another save is under way is never recorded as feedback.
- `disconnect()` does not tell a `createSession` under way, whose answer then opens a
  socket of a service nobody uses and makes the page ready (`realtime.ts:220`), so that what
  is typed into the service it does use may be dropped until that one has a socket.
- A relay that was restarted, or a room that was dropped while a page was away, is filled
  with the stored text as an item of its own, which a client adds to the same text in the
  document it still has.

Sessions:

- Two tabs that refresh the same stored token: the one that is refused erases the
  session the other one has just stored (`AuthContext.tsx:117-119`, `:141`).
- A refresh whose answer comes after a sign-out leaves its token in the `ApiClient`
  (`authAdapter.ts:108`) and its session live in the table.
- `ProtectedRoute` unmounts the editor whenever a session is being refreshed
  (`App.tsx:24`, `AuthContext.tsx:155`), with the text that only the page had.
- `ShareLinkPage.tsx:68` accepts the link of the present address while the invitation of
  an earlier one may still be on screen; an answer to an accept or a create takes the
  user along from wherever they are by then. `handleExpiredSession`
  (`AuthContext.tsx:216`) is never called.

Toolbar (the application imports its types only): a list put on an empty first line
doubles the break (`richTextToolbar.ts:356`), hence `LeadingBreak` in `OnAndOff`; several
formats toggled one after the other can overlap, and italic inside of `**a**` takes bold's
markers for its own, hence the formats of the run and the word "stored" in
`WidenedEnough`.

Exports: a rendering failure of the FastAPI backend leaves the row PENDING, never
FAILED (`exports.py:123`); `expiresAt` is not enforced; after an export that
succeeded in the background the panel offers only its download.

Express backend: a stop leaves PENDING, RUNNING and streaming rows for ever, and they
count against the quota; feedback takes a cancelled stream out of "cancelled", and a
stream that completes overwrites feedback (`aiRepository.js:270-311`); a stop in the
middle of `revokePermission` leaves the relay untold (`permissionsRepository.js:126`);
a reader who has lost access and closes the response does not cancel its stream; a database
error in an update of a running job is only logged (`aiService.js:134`), and its row stays
unfinished.

## 6. What is not modelled

- Presence (awareness) frames, and the text diff that turns an edit into Yjs items.
  `onopen` announces presence only if it changed (`realtime.ts:276`).
- Titles, metadata and listing handlers; creating a second document.
- Signatures and expiry of the realtime session token, password hashing.
- Prompts, the provider's text and its chunking; what PDF and DOCX files look like.
- Rendering, forms, pagination, and the selection of the editor's widgets as the DOM has it.
- The dashboard's lists and their filters, the debounced search for users.
- Users, tokens, request validation and logging of the Express backend.

`PROJECT.json` ("components") says for each component what is left out and why. What
is left would be data (text diffs, pagination, validation) or display; it has no
states of its own that these models' properties speak about.

## 7. What could come next

1. How `MarkerRanges` changes under a toggle: the lemma that would give `OnAndOff` and
   `WidenedEnough` for texts of any length; then the list actions by the same induction.
2. `AutosavesSettle` for three pages, and reverts in it, once the poller's reset no
   longer races an autosave.
3. The text of one document page with its routing (`Pages`) and its retries
   (`DocumentPage`) in one model.
