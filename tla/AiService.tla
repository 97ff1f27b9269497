------------------------------- MODULE AiService -------------------------------
(***************************************************************************)
(* The AI execution core in ai-service/: jobs in a Map, each executed by   *)
(* one or more calls of runAiJob.  The process is one thread; a call lets  *)
(* others run only while it awaits the provider.                           *)
(***************************************************************************)
EXTENDS Integers

CONSTANTS
  JobIds,    \* the ids makeAiJobId returns, each once
  Calls,     \* the calls of runAiJob that may be under way at once
  Inputs,    \* what createAiJob is called with
  Answers,   \* what a provider may write, trimmed
  None       \* undefined; "no job"

VARIABLES
  jobs,        \* jobsById
  issued,      \* the ids made so far
  calls,       \* what each call of runAiJob awaits
  overlapped   \* history: jobs that a second call took up during a first

vars == <<jobs, issued, calls, overlapped>>

Actions == {"rewrite", "summarize", "translate"}
Required == {"documentId", "requestId", "baseVersionId", "userId", "selectedText"}

\* blank: the required fields without text; language: targetLanguage has text.
Input == [action : Actions \cup {None}, start : Int \cup {None}, end : Int \cup {None},
          blank : SUBSET Required, language : BOOLEAN]

ServiceStatus == {"PENDING", "RUNNING", "SUCCEEDED", "FAILED"}
ErrorCodes == {"AI_FAILED", "AI_TIMEOUT", "QUOTA_EXCEEDED", "AI_ROLE_FORBIDDEN", "AI_DISABLED"}

\* What a provider wrote, and for which job's selection.
Suggestion == [text : Answers, of : JobIds]

Job == [input : Input, status : ServiceStatus, proposed : Suggestion \cup {None},
        error : ErrorCodes \cup {None}]

ASSUME AiServiceAssumption ==
  /\ Inputs \subseteq Input
  /\ None \notin Job \cup Suggestion \cup ErrorCodes \cup JobIds \cup Int \cup Actions

------------------------------------------------------------------------------
(* validateCreateInput *)

Issue(path, code) == [path |-> path, code |-> code]

SelectionIssues(input) ==
  LET start == input.start
      end   == input.end
  IN
  {Issue("selection.start", "invalid_type") : x \in {start} \ Nat}
  \cup {Issue("selection.end", "invalid_type") : x \in {end} \ (Nat \ {0})}
  \cup {Issue("selection.end", "custom") :
          x \in {e \in {end} \cap (Nat \ {0}) : start \in Int /\ e <= start}}

Issues(input) ==
  {Issue(path, "invalid_type") : path \in input.blank}
  \cup {Issue("action", "invalid_enum") : x \in {input.action} \ Actions}
  \cup SelectionIssues(input)
  \cup {Issue("targetLanguage", "custom") :
          x \in {l \in {input.language} : input.action = "translate" /\ ~l}}

------------------------------------------------------------------------------
(* Providers *)

\* What requestCompletion may meet: the timer's abort, an error of fetch, or an answer.
LmStudioResponses ==
  [outcome : {"aborted", "unreachable"}]
  \cup [outcome : {"answered"}, http : {200, 429, 500}, text : Answers \cup {None}]

\* The stub derives a text from the selection; as that has one, so has its answer.
StubResponses == [outcome : {"answered"}, http : {200}, text : Answers]

Responses == LmStudioResponses \cup StubResponses

\* normalizeAiError: other codes and plain errors become AI_FAILED.
NormalizeAiError(error) == IF error \in ErrorCodes THEN error ELSE "AI_FAILED"

\* The error of a response; None if generateText returns its text.
ErrorOf(response) ==
  CASE response.outcome = "aborted" -> NormalizeAiError("AI_TIMEOUT")
    [] response.outcome = "unreachable" -> NormalizeAiError("fetch failed")
    [] OTHER -> IF response.http = 429 THEN "QUOTA_EXCEEDED"
                ELSE IF response.http # 200 \/ response.text = None THEN "AI_FAILED"
                ELSE None

------------------------------------------------------------------------------
(* The store *)

Init ==
  /\ jobs = [j \in JobIds |-> None]
  /\ issued = {}
  /\ calls = [c \in Calls |-> None]
  /\ overlapped = {}

\* insertAiJob of a validated input.  What is refused is not stored.
CreateAiJob(j, input) ==
  /\ Issues(input) = {}
  /\ j \notin issued
  /\ issued' = issued \cup {j}
  /\ jobs' = [jobs EXCEPT ![j] =
       [input |-> input, status |-> "PENDING", proposed |-> None, error |-> None]]
  /\ UNCHANGED <<calls, overlapped>>

\* The updaters of runAiJob: each keeps what it does not name.
Running(job) == [job EXCEPT !.status = "RUNNING", !.error = None]

Succeeded(job, suggestion) == [job EXCEPT !.status = "SUCCEEDED", !.proposed = suggestion]

\* Mutant: the suggestion of an earlier run stays.
FailedKeepsText(job, code) == [job EXCEPT !.status = "FAILED", !.error = code]

Failed(job, code) == [job EXCEPT !.status = "FAILED", !.proposed = None, !.error = code]

\* updateAiJob does nothing to a job that is gone.
UpdateAiJob(j, next) == jobs' = IF jobs[j] = None THEN jobs ELSE [jobs EXCEPT ![j] = next]

\* runAiJob up to the await.
RunAiJob(c, j) ==
  /\ calls[c] = None
  /\ jobs[j] # None
  /\ UpdateAiJob(j, Running(jobs[j]))
  /\ calls' = [calls EXCEPT ![c] = j]
  /\ overlapped' = overlapped \cup {i \in {j} : \E d \in Calls : calls[d] = i}
  /\ UNCHANGED issued

\* Mutant: a failure is only logged.
ProviderFailedUnrecorded(c, response) ==
  /\ calls[c] # None
  /\ ErrorOf(response) # None
  /\ calls' = [calls EXCEPT ![c] = None]
  /\ UNCHANGED <<jobs, issued, overlapped>>

\* The rest of it; if the job is gone the call throws.
ProviderAnswered(c, response) ==
  LET j == calls[c] IN
  /\ j # None
  /\ ErrorOf(response) = None
  /\ UpdateAiJob(j, Succeeded(jobs[j], [text |-> response.text, of |-> j]))
  /\ calls' = [calls EXCEPT ![c] = None]
  /\ UNCHANGED <<issued, overlapped>>

ProviderFailed(c, response) ==
  LET j == calls[c] IN
  /\ j # None
  /\ ErrorOf(response) # None
  /\ UpdateAiJob(j, Failed(jobs[j], ErrorOf(response)))
  /\ calls' = [calls EXCEPT ![c] = None]
  /\ UNCHANGED <<issued, overlapped>>

\* resetAiJobsStore, also while calls are under way.
ResetAiJobsStore ==
  /\ jobs' = [j \in JobIds |-> None]
  /\ UNCHANGED <<issued, calls, overlapped>>

Returns(c) == \E response \in Responses : ProviderAnswered(c, response) \/ ProviderFailed(c, response)

Next ==
  \/ \E j \in JobIds, input \in Inputs : CreateAiJob(j, input)
  \/ \E c \in Calls, j \in JobIds : RunAiJob(c, j)
  \/ \E c \in Calls : Returns(c)
  \/ ResetAiJobsStore

Spec == Init /\ [][Next]_vars

------------------------------------------------------------------------------
(* Properties *)

\* toAiJobResponse: an error is shown whatever the status is.
ToAiJobResponse(job) ==
  [status |-> job.status, proposed |-> job.proposed, error |-> job.error]

TypeOK ==
  /\ jobs \in [JobIds -> Job \cup {None}]
  /\ issued \subseteq JobIds
  /\ calls \in [Calls -> issued \cup {None}]
  /\ overlapped \subseteq issued

Consistent(shown) ==
  /\ shown.status = "PENDING" => shown.proposed = None /\ shown.error = None
  /\ shown.status = "RUNNING" => shown.error = None
  /\ shown.status = "SUCCEEDED" => shown.proposed # None /\ shown.error = None
  /\ shown.status = "FAILED" => shown.proposed = None /\ shown.error # None

\* What a caller is shown of a job fits together (store.js, toAiJobResponse), through
\* any number of runs, unless two runs of it overlapped: then the error of the one
\* that failed first stays beside the text of the other.
SnapshotsAreConsistent ==
  \A j \in JobIds : jobs[j] # None =>
    /\ j \notin overlapped => Consistent(ToAiJobResponse(jobs[j]))
    /\ jobs[j].status = "FAILED" => jobs[j].proposed = None
    /\ jobs[j].proposed # None => jobs[j].proposed.of = j

\* A job that says RUNNING is executed by a call that will report: no order of starts,
\* answers and resets strands it.
RunningIsUnderWay ==
  \A j \in JobIds : jobs[j] # None /\ jobs[j].status = "RUNNING" => \E c \in Calls : calls[c] = j

\* What was stored can be executed: a selection with text in it, and a language to
\* translate to (validateCreateInput).
StoredJobsAreExecutable ==
  \A j \in JobIds : jobs[j] # None =>
    LET input == jobs[j].input IN
    /\ input.start \in Nat /\ input.end \in Nat /\ input.start < input.end
    /\ input.action = "translate" => input.language
    /\ input.blank = {}
==============================================================================
