-------------------------------- MODULE AiProofs --------------------------------
(***************************************************************************)
(* The quota and the answers of AiJobs, for any number of users, jobs and  *)
(* threads.  Both rest on LoopHeldByOne: what a request reads before it    *)
(* writes is still true of the other requests when it writes.  Then the    *)
(* panel, which implements AiJobs, and AiAnswers, which both implement.    *)
(* Last the separate AI service: its snapshots and what it runs.           *)
(***************************************************************************)
EXTENDS AiPanel, AiService, FiniteSetTheorems, TLAPS

LoopHeldByOne ==
  \A j, k \in Jobs : j # k /\ stream[j] # NoRow /\ stream[k] # NoRow
    => stream[j].pc \notin Writing \/ stream[k].pc \notin Writing

\* Rows are made by "insert" and stay; requests past it and handlers have one.
RowsExist ==
  /\ \A j \in Jobs : job[j] # NoRow =>
       stream[j] # NoRow /\ stream[j].pc \notin {"insert", "refused"}
  /\ \A j \in Jobs : stream[j] # NoRow /\ job[j] = NoRow =>
       stream[j].pc \in {"insert", "refused", "dropped"}
  /\ \A w \in Workers : handler[w] # NoRow => job[handler[w].job] # NoRow

AllSentAtTheEnd == \A j \in Jobs : At(j, "complete") => stream[j].sent = Chunks

AiInv == AiTypeOK /\ LoopHeldByOne /\ RowsExist /\ AllSentAtTheEnd /\ AnswerAgreesWithRow

NotInTheFuture == \A j \in Jobs : job[j] # NoRow => job[j].day <= today

\* The count that admitted a request is still below its quota when the row is inserted.
StillBelowQuota ==
  \A j \in Jobs, u \in Users :
    At(j, "insert") /\ stream[j].user = u => UsedToday(u) < stream[j].quota

QuotaInv == NotInTheFuture /\ StillBelowQuota /\ QuotaRespected

LEMMA AiInitInv == AiInit => AiInv
  <1> SUFFICES ASSUME AiInit PROVE AiInv
    OBVIOUS
  <1> USE AiAssumption DEF AiInit
  <1>1. AiTypeOK
    BY DEF AiTypeOK, Policy, Roles, DefaultPolicy
  <1>2. LoopHeldByOne /\ RowsExist /\ AllSentAtTheEnd /\ AnswerAgreesWithRow
    BY DEF LoopHeldByOne, RowsExist, AllSentAtTheEnd, AnswerAgreesWithRow, At
  <1> QED
    BY <1>1, <1>2 DEF AiInv

LEMMA AiStepInv == AiInv /\ [AiNext]_aiVars => AiInv'
  <1> SUFFICES ASSUME AiInv, [AiNext]_aiVars PROVE AiInv'
    OBVIOUS
  <1> USE AiAssumption DEF AiInv
  <1> USE DEF AiTypeOK, LoopHeldByOne, RowsExist, AllSentAtTheEnd, AnswerAgreesWithRow,
          At, GoTo, LoopFree, Writing, Ended, Stream, JobRow, Status, Handler
  <1>1. ASSUME NEW j \in Jobs, NEW u \in Users, Request(j, u)
      PROVE AiInv'
    <2>1. PICK pc \in {"insert", "refused"} :
            stream' = [stream EXCEPT ![j] = [pc |-> pc, user |-> u, quota |-> policy.quota,
                                             client |-> "there", sent |-> 0]]
      BY <1>1 DEF Request
    <2>2. policy.quota \in Nat \ {0}
      BY DEF Policy
    <2>3. stream[j] = NoRow /\ LoopFree(j) /\ UNCHANGED <<policy, role, job, handler, today>>
      BY <1>1 DEF Request
    <2>4. AiTypeOK'
      BY <2>1, <2>2, <2>3
    <2>5. LoopHeldByOne' /\ RowsExist' /\ AllSentAtTheEnd' /\ AnswerAgreesWithRow'
      BY <2>1, <2>3
    <2> QED
      BY <2>4, <2>5
  <1>2. ASSUME NEW j \in Jobs, InsertJob(j)
      PROVE AiInv'
    BY <1>2 DEF InsertJob
  <1>3. ASSUME NEW j \in Jobs, ProviderFails(j)
      PROVE AiInv'
    BY <1>3 DEF ProviderFails
  <1>4. ASSUME NEW j \in Jobs, SendToken(j)
      PROVE AiInv'
    BY <1>4 DEF SendToken
  <1>5. ASSUME NEW j \in Jobs, FinalCheck(j)
      PROVE AiInv'
    BY <1>5 DEF FinalCheck
  <1>6. ASSUME NEW j \in Jobs, CompleteJob(j)
      PROVE AiInv'
    BY <1>6 DEF CompleteJob
  <1>7. ASSUME NEW j \in Jobs, StopStream(j)
      PROVE AiInv'
    BY <1>7 DEF StopStream
  <1>8. ASSUME NEW j \in Jobs, CancelStream(j)
      PROVE AiInv'
    BY <1>8 DEF CancelStream, SetStatus
  <1>9. ASSUME NEW j \in Jobs, FailJob(j)
      PROVE AiInv'
    <2>1. /\ At(j, "fail") /\ job[j] # NoRow
          /\ job' = [job EXCEPT ![j].status = "failed"]
          /\ stream' = [stream EXCEPT ![j].pc = "error"]
          /\ UNCHANGED <<policy, role, handler, today>>
      BY <1>9 DEF FailJob, SetStatus
    <2>2. AiTypeOK' /\ LoopHeldByOne' /\ AllSentAtTheEnd'
      BY <2>1
    <2>3. RowsExist'
      BY <2>1
    <2>4. AnswerAgreesWithRow'
      BY <2>1
    <2> QED
      BY <2>2, <2>3, <2>4
  <1>10. ASSUME NEW j \in Jobs, DropStream(j)
      PROVE AiInv'
    BY <1>10 DEF DropStream
  <1>11. ASSUME NEW j \in Jobs, Disconnect(j)
      PROVE AiInv'
    BY <1>11 DEF Disconnect
  <1>12. ASSUME NEW w \in Workers, NEW u \in Users, NEW j \in Jobs, CancelReads(w, u, j)
      PROVE AiInv'
    BY <1>12 DEF CancelReads
  <1>13. ASSUME NEW w \in Workers, NEW u \in Users, NEW j \in Jobs,
                      NEW d \in Disposition, FeedbackReads(w, u, j, d)
      PROVE AiInv'
    <2>1. FeedbackStatus(j, d) \in Feedback
      BY DEF FeedbackStatus, Feedback
    <2>2. [job |-> j, status |-> FeedbackStatus(j, d)] \in Handler
      BY <2>1
    <2>3. /\ job[j] # NoRow
          /\ handler' = [handler EXCEPT ![w] = [job |-> j, status |-> FeedbackStatus(j, d)]]
          /\ UNCHANGED <<policy, role, job, stream, today>>
      BY <1>13 DEF FeedbackReads
    <2>4. AiTypeOK'
      BY <2>2, <2>3
    <2>5. LoopHeldByOne' /\ AllSentAtTheEnd' /\ AnswerAgreesWithRow'
      BY <2>3
    <2>6. RowsExist'
      BY <2>3
    <2> QED
      BY <2>4, <2>5, <2>6
  <1>14. ASSUME NEW w \in Workers, HandlerWrites(w)
      PROVE AiInv'
    BY <1>14 DEF HandlerWrites, SetStatus, Feedback
  <1>15. ASSUME NEW p \in Policies, UpdateAiPolicy(p)
      PROVE AiInv'
    BY <1>15 DEF UpdateAiPolicy
  <1>16. ASSUME NEW u \in Users, NEW r \in Grants, ChangeRole(u, r)
      PROVE AiInv'
    BY <1>16 DEF ChangeRole, Roles
  <1>17. ASSUME Midnight
      PROVE AiInv'
    BY <1>17 DEF Midnight
  <1>18. ASSUME Restart
      PROVE AiInv'
    <2>1. /\ stream' = [j \in Jobs |->
                IF stream[j] = NoRow \/ stream[j].pc \in Ended THEN stream[j]
                ELSE [stream[j] EXCEPT !.pc = "dropped", !.client = "gone"]]
          /\ handler' = [w \in Workers |-> NoRow]
          /\ UNCHANGED <<policy, role, job, today>>
      BY <1>18 DEF Restart
    <2>2. ASSUME NEW j \in Jobs
          PROVE  /\ stream'[j] \in Stream \cup {NoRow}
                 /\ stream'[j] = NoRow <=> stream[j] = NoRow
                 /\ stream[j] # NoRow =>
                      stream'[j].pc = IF stream[j].pc \in Ended THEN stream[j].pc ELSE "dropped"
      <3>1. CASE stream[j] = NoRow \/ stream[j].pc \in Ended
        BY <2>1, <3>1
      <3>2. CASE ~(stream[j] = NoRow \/ stream[j].pc \in Ended)
        <4>1. stream[j] \in Stream
          BY <3>2
        <4>2. stream'[j] = [stream[j] EXCEPT !.pc = "dropped", !.client = "gone"]
          BY <2>1, <3>2
        <4>3. stream'[j] \in Stream /\ stream'[j].pc = "dropped"
          BY <4>1, <4>2
        <4>4. stream'[j] # NoRow
          BY <4>3
        <4> QED
          BY <4>3, <4>4, <3>2
      <3> QED
        BY <3>1, <3>2
    <2>3. AiTypeOK'
      BY <2>1, <2>2
    <2>4. LoopHeldByOne' /\ AllSentAtTheEnd'
      BY <2>2
    <2>5. RowsExist'
      <3>1. ASSUME NEW j \in Jobs, job[j] # NoRow
            PROVE  stream'[j] # NoRow /\ stream'[j].pc \notin {"insert", "refused"}
        BY <2>2, <3>1
      <3>2. ASSUME NEW j \in Jobs, stream'[j] # NoRow, job[j] = NoRow
            PROVE  stream'[j].pc \in {"insert", "refused", "dropped"}
        BY <2>2, <3>2
      <3> QED
        BY <2>1, <3>1, <3>2
    <2>6. ASSUME NEW j \in Jobs, job[j] # NoRow
          PROVE  stream'[j].pc = "done" <=> stream[j].pc = "done"
      BY <2>2, <2>6
    <2>7. AnswerAgreesWithRow'
      BY <2>1, <2>6
    <2> QED
      BY <2>3, <2>4, <2>5, <2>7
  <1>19. ASSUME UNCHANGED aiVars PROVE AiInv'
    BY <1>19 DEF aiVars
  <1> HIDE DEF AiInv, AiTypeOK, LoopHeldByOne, RowsExist, AllSentAtTheEnd,
               AnswerAgreesWithRow, At, GoTo, LoopFree, Writing, Ended, Stream, JobRow, Status,
               Handler
  <1>20. CASE \E j \in Jobs : StreamStep(j)
    BY <1>20, <1>2, <1>3, <1>4, <1>5, <1>6, <1>7, <1>8, <1>9, <1>10 DEF StreamStep
  <1> QED
    BY <1>1, <1>11, <1>12, <1>13, <1>14, <1>15, <1>16, <1>17, <1>18, <1>19, <1>20
       DEF AiNext

------------------------------------------------------------------------------
(* Types, and the answers *)

\* The invariant of every reachable state.
THEOREM AiInvariant == AiSpec => []AiInv
  <1> QED
    BY AiInitInv, AiStepInv, PTL DEF AiSpec

\* Every variable keeps its type (the rows, requests and handlers of AiJobs).
THEOREM AiTypesCorrect == AiSpec => []AiTypeOK
  <1>1. AiInv => AiTypeOK
    BY DEF AiInv
  <1> QED
    BY <1>1, AiInvariant, PTL

\* Whatever is cancelled, lost or failing, a row has an answer exactly when its client
\* was sent "done", and then the whole of it (event_stream).
THEOREM AnswersCorrect == AiSpec => []AnswerAgreesWithRow
  <1>1. AiInv => AnswerAgreesWithRow
    BY DEF AiInv
  <1> QED
    BY <1>1, AiInvariant, PTL

------------------------------------------------------------------------------
(* The quota *)

LEMMA JobsOfFinite ==
  ASSUME NEW u PROVE IsFiniteSet(JobsOf(u)) /\ UsedToday(u) \in Nat
  <1>1. JobsOf(u) \subseteq Jobs
    BY DEF JobsOf
  <1>2. IsFiniteSet(JobsOf(u))
    BY <1>1, AiAssumption, FS_Subset
  <1> QED
    BY <1>2, FS_CardinalityType DEF UsedToday

\* A step that keeps the owner and the day of every row keeps every count.
LEMMA CountKept ==
  ASSUME today' = today,
         \A j \in Jobs : job'[j] = NoRow <=> job[j] = NoRow,
         \A j \in Jobs : job[j] # NoRow =>
           job'[j].user = job[j].user /\ job'[j].day = job[j].day
  PROVE  \A u \in Users : JobsOf(u)' = JobsOf(u) /\ UsedToday(u)' = UsedToday(u)
  <1> SUFFICES ASSUME NEW u \in Users PROVE JobsOf(u)' = JobsOf(u)
    BY DEF UsedToday
  <1> QED
    BY DEF JobsOf

\* What a step keeps that inserts no row and admits no request.
Kept ==
  /\ today' = today
  /\ \A j \in Jobs : job'[j] = NoRow <=> job[j] = NoRow
  /\ \A j \in Jobs : job[j] # NoRow =>
       job'[j].user = job[j].user /\ job'[j].day = job[j].day
  /\ \A j \in Jobs : stream[j] # NoRow =>
       stream'[j].user = stream[j].user /\ stream'[j].quota = stream[j].quota
  /\ \A j \in Jobs : At(j, "insert")' => At(j, "insert")

LEMMA KeptQuota == AiInv /\ AiInv' /\ QuotaInv /\ Kept => QuotaInv'
  <1> SUFFICES ASSUME AiInv, AiInv', QuotaInv, Kept PROVE QuotaInv'
    OBVIOUS
  <1>1. \A u \in Users : JobsOf(u)' = JobsOf(u) /\ UsedToday(u)' = UsedToday(u)
    BY CountKept DEF Kept
  <1>2. NotInTheFuture'
    BY DEF QuotaInv, NotInTheFuture, Kept
  <1>3. StillBelowQuota'
    <2> SUFFICES ASSUME NEW j \in Jobs, NEW u \in Users, At(j, "insert")', stream'[j].user = u
                 PROVE  UsedToday(u)' < stream'[j].quota
      BY DEF StillBelowQuota
    <2>1. At(j, "insert") /\ stream[j] # NoRow
      BY DEF Kept, At
    <2>2. stream'[j].user = stream[j].user /\ stream'[j].quota = stream[j].quota
      BY <2>1 DEF Kept
    <2> QED
      BY <1>1, <2>1, <2>2 DEF QuotaInv, StillBelowQuota
  <1>4. QuotaRespected'
    <2> SUFFICES ASSUME NEW u \in Users, JobsOf(u)' # {}
                 PROVE  \E j \in JobsOf(u)' : UsedToday(u)' <= stream'[j].quota
      BY DEF QuotaRespected
    <2>1. PICK j \in JobsOf(u) : UsedToday(u) <= stream[j].quota
      BY <1>1 DEF QuotaInv, QuotaRespected
    <2>2. stream[j] # NoRow /\ j \in Jobs
      BY DEF JobsOf, AiInv, RowsExist
    <2> QED
      BY <1>1, <2>1, <2>2 DEF Kept
  <1> QED
    BY <1>2, <1>3, <1>4 DEF QuotaInv

LEMMA RequestQuota ==
  ASSUME AiInv, QuotaInv, NEW j \in Jobs, NEW u \in Users, Request(j, u)
  PROVE  QuotaInv'
  <1>1. \A v \in Users : JobsOf(v)' = JobsOf(v) /\ UsedToday(v)' = UsedToday(v)
    BY CountKept DEF Request
  <1>2. NotInTheFuture'
    BY DEF QuotaInv, NotInTheFuture, Request
  <1>3. StillBelowQuota'
    <2> SUFFICES ASSUME NEW k \in Jobs, NEW v \in Users, At(k, "insert")', stream'[k].user = v
                 PROVE  UsedToday(v)' < stream'[k].quota
      BY DEF StillBelowQuota
    <2>1. CASE k = j
      <3>1. stream'[j] = [pc |-> IF Admits(u) THEN "insert" ELSE "refused", user |-> u,
                          quota |-> policy.quota, client |-> "there", sent |-> 0]
        BY DEF Request, AiInv, AiTypeOK
      <3>2. Admits(u)
        BY <2>1, <3>1 DEF At
      <3> QED
        BY <1>1, <2>1, <3>1, <3>2 DEF Admits
    <2>2. CASE k # j
      BY <2>2 DEF Request, LoopFree, Writing, At, AiInv, AiTypeOK
    <2> QED
      BY <2>1, <2>2
  <1>4. QuotaRespected'
    <2> SUFFICES ASSUME NEW v \in Users, JobsOf(v)' # {}
                 PROVE  \E k \in JobsOf(v)' : UsedToday(v)' <= stream'[k].quota
      BY DEF QuotaRespected
    <2>1. PICK k \in JobsOf(v) : UsedToday(v) <= stream[k].quota
      BY <1>1 DEF QuotaInv, QuotaRespected
    <2>2. k # j /\ k \in Jobs
      BY DEF JobsOf, AiInv, RowsExist, Request
    <2>3. stream'[k] = stream[k]
      BY <2>2 DEF Request, AiInv, AiTypeOK
    <2> QED
      BY <1>1, <2>1, <2>3
  <1> QED
    BY <1>2, <1>3, <1>4 DEF QuotaInv

LEMMA InsertQuota ==
  ASSUME AiInv, QuotaInv, NEW j \in Jobs, InsertJob(j)
  PROVE  QuotaInv'
  <1>0. PICK u \in Users : u = stream[j].user
    BY AiAssumption DEF InsertJob, At, AiInv, AiTypeOK, Stream
  <1>1. /\ stream[j] \in Stream /\ stream[j].pc = "insert" /\ job[j] = NoRow
        /\ stream' = [stream EXCEPT ![j].pc = "chunk"] /\ today' = today
        /\ job' = [job EXCEPT ![j] =
              [user |-> u, status |-> "streaming", output |-> NoRow, day |-> today]]
    BY <1>0 DEF InsertJob, GoTo, At, AiInv, AiTypeOK, RowsExist
  <1>2. job \in [Jobs -> JobRow \cup {NoRow}] /\ stream \in [Jobs -> Stream \cup {NoRow}]
    BY DEF AiInv, AiTypeOK
  <1>3. [user |-> u, status |-> "streaming", output |-> NoRow, day |-> today] \in JobRow
    BY <1>1, AiAssumption DEF AiInv, AiTypeOK, JobRow, Stream, Status
  <1>4. /\ job'[j] # NoRow /\ job'[j].user = u /\ job'[j].day = today
        /\ \A k \in Jobs \ {j} : job'[k] = job[k]
    BY <1>1, <1>2, <1>3, AiAssumption
  <1>5. stream'[j].quota = stream[j].quota /\ \A k \in Jobs \ {j} : stream'[k] = stream[k]
    BY <1>1, <1>2 DEF Stream
  <1>6. JobsOf(u)' = JobsOf(u) \cup {j} /\ j \notin JobsOf(u)
    BY <1>1, <1>4 DEF JobsOf
  <1>7. UsedToday(u)' = UsedToday(u) + 1
    BY <1>6, JobsOfFinite, FS_AddElement DEF UsedToday
  <1>8. \A v \in Users \ {u} : JobsOf(v)' = JobsOf(v) /\ UsedToday(v)' = UsedToday(v)
    <2> SUFFICES ASSUME NEW v \in Users \ {u} PROVE JobsOf(v)' = JobsOf(v)
      BY DEF UsedToday
    <2> QED
      BY <1>1, <1>4 DEF JobsOf
  <1>9. NotInTheFuture'
    BY <1>1, <1>4 DEF QuotaInv, NotInTheFuture, AiInv, AiTypeOK
  <1>10. StillBelowQuota'
    <2> SUFFICES ASSUME NEW k \in Jobs, NEW v \in Users, At(k, "insert")' PROVE FALSE
      BY DEF StillBelowQuota
    <2>1. k # j
      BY <1>1, <1>2 DEF At, Stream
    <2>2. stream[k] # NoRow /\ stream[k].pc = "insert"
      BY <1>5, <2>1 DEF At
    <2>3. stream[j] # NoRow
      BY <1>1, AiAssumption
    <2> QED
      BY <1>1, <2>1, <2>2, <2>3 DEF AiInv, LoopHeldByOne, Writing
  <1>11. QuotaRespected'
    <2> SUFFICES ASSUME NEW v \in Users, JobsOf(v)' # {}
                 PROVE  \E k \in JobsOf(v)' : UsedToday(v)' <= stream'[k].quota
      BY DEF QuotaRespected
    <2>1. CASE v = u
      <3>1. UsedToday(u) < stream[j].quota
        BY <1>0, <1>1, AiAssumption DEF QuotaInv, StillBelowQuota, At
      <3>2. stream[j].quota \in Nat /\ UsedToday(u) \in Nat
        BY <1>1, JobsOfFinite DEF Stream
      <3>3. UsedToday(u)' <= stream'[j].quota
        BY <1>5, <1>7, <3>1, <3>2
      <3> QED
        BY <1>6, <2>1, <3>3
    <2>2. CASE v # u
      <3>1. PICK k \in JobsOf(v) : UsedToday(v) <= stream[k].quota
        BY <1>8, <2>2 DEF QuotaInv, QuotaRespected
      <3>2. k \in Jobs \ {j}
        BY <1>1 DEF JobsOf
      <3>3. k \in JobsOf(v)' /\ UsedToday(v)' = UsedToday(v)
        BY <1>8, <2>2
      <3>4. stream'[k].quota = stream[k].quota
        BY <1>5, <3>2
      <3>5. UsedToday(v)' <= stream'[k].quota
        BY <3>1, <3>3, <3>4
      <3> QED
        BY <3>3, <3>5
    <2> QED
      BY <2>1, <2>2
  <1> QED
    BY <1>9, <1>10, <1>11 DEF QuotaInv

LEMMA MidnightQuota ==
  ASSUME AiInv, QuotaInv, Midnight
  PROVE  QuotaInv'
  <1>1. today \in Nat /\ today' = today + 1 /\ UNCHANGED <<policy, role, job, stream>>
    BY AiAssumption DEF Midnight, AiInv, AiTypeOK
  <1>2. \A k \in Jobs : job[k] # NoRow => job[k].day \in Nat /\ job[k].day <= today
    BY DEF AiInv, AiTypeOK, JobRow, QuotaInv, NotInTheFuture
  <1>3. \A u \in Users : JobsOf(u)' = {}
    BY <1>1, <1>2 DEF JobsOf
  <1>4. \A u \in Users : UsedToday(u)' = 0
    BY <1>3, FS_EmptySet DEF UsedToday
  <1>5. NotInTheFuture'
    BY <1>1, <1>2 DEF NotInTheFuture
  <1>6. StillBelowQuota'
    BY <1>1, <1>4, AiAssumption DEF StillBelowQuota, At, AiInv, AiTypeOK, Stream
  <1>7. QuotaRespected'
    BY <1>3 DEF QuotaRespected
  <1> QED
    BY <1>5, <1>6, <1>7 DEF QuotaInv

LEMMA QuotaStep == AiInv /\ QuotaInv /\ [AiNext]_aiVars /\ AiInv' => QuotaInv'
  <1> SUFFICES ASSUME AiInv, QuotaInv, [AiNext]_aiVars, AiInv' PROVE QuotaInv'
    OBVIOUS
  <1>1. CASE \E j \in Jobs, u \in Users : Request(j, u)
    BY <1>1, RequestQuota
  <1>2. CASE \E j \in Jobs : InsertJob(j)
    BY <1>2, InsertQuota
  <1>3. CASE Midnight
    BY <1>3, MidnightQuota
  <1>4. ASSUME NEW j \in Jobs,
               \/ ProviderFails(j) \/ SendToken(j) \/ FinalCheck(j) \/ CompleteJob(j)
               \/ StopStream(j) \/ CancelStream(j) \/ FailJob(j) \/ DropStream(j)
               \/ Disconnect(j)
        PROVE  Kept
    <2>1. today' = today
      BY <1>4 DEF ProviderFails, SendToken, FinalCheck, CompleteJob, StopStream, CancelStream,
                  FailJob, DropStream, Disconnect
    <2>2. \A k \in Jobs : /\ job'[k] = NoRow <=> job[k] = NoRow
                          /\ job[k] # NoRow =>
                               job'[k].user = job[k].user /\ job'[k].day = job[k].day
      BY <1>4, AiAssumption
         DEF ProviderFails, SendToken, FinalCheck, CompleteJob, StopStream, CancelStream,
             FailJob, DropStream, Disconnect, SetStatus, At, AiInv, AiTypeOK, RowsExist, JobRow,
             Status, Stream
    <2>3. \A k \in Jobs : stream[k] # NoRow =>
            stream'[k].user = stream[k].user /\ stream'[k].quota = stream[k].quota
      BY <1>4 DEF ProviderFails, SendToken, FinalCheck, CompleteJob, StopStream, CancelStream,
                  FailJob, DropStream, Disconnect, GoTo, AiInv, AiTypeOK, Stream
    <2>4. \A k \in Jobs : At(k, "insert")' => At(k, "insert")
      BY <1>4 DEF ProviderFails, SendToken, FinalCheck, CompleteJob, StopStream, CancelStream,
                  FailJob, DropStream, Disconnect, GoTo, At, AiInv, AiTypeOK, Stream
    <2> QED
      BY <2>1, <2>2, <2>3, <2>4 DEF Kept
  <1>5. ASSUME NEW w \in Workers, HandlerWrites(w) PROVE Kept
    BY <1>5, AiAssumption DEF HandlerWrites, SetStatus, Kept, At, AiInv, AiTypeOK, RowsExist,
                              Handler, JobRow, Status
  <1>6. ASSUME UNCHANGED <<job, stream, today>> PROVE Kept
    BY <1>6 DEF Kept, At
  <1>7. ASSUME Restart PROVE Kept
    BY <1>7 DEF Restart, Kept, At, Ended, AiInv, AiTypeOK, Stream
  <1>8. \/ \E j \in Jobs, u \in Users : Request(j, u)
        \/ \E j \in Jobs : InsertJob(j)
        \/ Midnight
        \/ Kept
    BY <1>4, <1>5, <1>6, <1>7 DEF AiNext, StreamStep, aiVars, CancelReads, FeedbackReads,
                                  UpdateAiPolicy, ChangeRole
  <1> QED
    BY <1>1, <1>2, <1>3, <1>8, KeptQuota

LEMMA QuotaInit == AiInit => QuotaInv
  BY DEF AiInit, QuotaInv, NotInTheFuture, StillBelowQuota, QuotaRespected, At, JobsOf

\* No interleaving of requests, policy changes and midnights takes a user over the quota
\* that admitted one of the requests counted (prepare_ai_request).
THEOREM QuotaCorrect == AiSpec => []QuotaRespected
  <1>1. QuotaInv => QuotaRespected
    BY DEF QuotaInv
  <1> QED
    BY <1>1, AiInitInv, AiStepInv, QuotaInit, QuotaStep, PTL DEF AiSpec

------------------------------------------------------------------------------
(* The panel: types *)

ReadersHaveStreams == \A r \in Jobs : run[r].pc = "reading" => stream[r] # NoRow

PanelTypes == PanelTypeOK /\ ReadersHaveStreams

\* A request that was made stays, and one that is done stays done.
LEMMA StreamsStay ==
  ASSUME AiInv, [AiNext]_aiVars, NEW r \in Jobs, stream[r] # NoRow
  PROVE  stream'[r] # NoRow /\ (stream[r].pc = "done" => stream'[r].pc = "done")
  <1>1. AiInv' /\ stream \in [Jobs -> Stream \cup {NoRow}] /\ stream[r] \in Stream
    BY AiStepInv DEF AiInv, AiTypeOK
  <1>2. ASSUME NEW change \in Stream, NEW j \in Jobs, stream' = [stream EXCEPT ![j] = change],
               j = r => stream[r].pc # "done"
        PROVE  stream'[r] # NoRow /\ (stream[r].pc = "done" => stream'[r].pc = "done")
    BY <1>1, <1>2, AiAssumption
  <1>3. ASSUME NEW j \in Jobs, StreamStep(j) \/ Disconnect(j) \/ \E u \in Users : Request(j, u)
        PROVE  stream'[r] # NoRow /\ (stream[r].pc = "done" => stream'[r].pc = "done")
    <2>1. CASE j # r
      BY <1>1, <1>3, <2>1
         DEF StreamStep, InsertJob, ProviderFails, SendToken, FinalCheck, CompleteJob,
             StopStream, CancelStream, FailJob, DropStream, Disconnect, Request, GoTo
    <2>2. CASE j = r
      <3>1. stream[r].pc # "done"
        BY <1>3, <2>2
           DEF StreamStep, InsertJob, ProviderFails, SendToken, FinalCheck, CompleteJob,
               StopStream, CancelStream, FailJob, DropStream, Disconnect, Request, At, Ended
      <3>2. stream'[r] \in Stream
        BY <1>1, <1>3, <2>2, AiAssumption
           DEF StreamStep, InsertJob, ProviderFails, SendToken, FinalCheck, CompleteJob,
               StopStream, CancelStream, FailJob, DropStream, Disconnect, Request, GoTo,
               Stream, Writing, Ended
      <3> QED
        BY <3>1, <3>2, AiAssumption
    <2> QED
      BY <2>1, <2>2
  <1>4. CASE Restart
    BY <1>1, <1>4, AiAssumption DEF Restart, Ended, Stream
  <1>5. CASE UNCHANGED stream
    BY <1>5
  <1> QED
    BY <1>3, <1>4, <1>5
       DEF AiNext, aiVars, CancelReads, FeedbackReads, HandlerWrites, UpdateAiPolicy,
           ChangeRole, Midnight

\* What the server does in a step of the panel, AiJobs allows.
LEMMA PanelStepIsAiStep ==
  ASSUME PanelTypeOK, [PanelNext]_allVars
  PROVE  [AiNext]_aiVars
  <1> USE DEF AiNext, aiVars
  <1>1. CASE UNCHANGED aiVars
    BY <1>1
  <1>2. ASSUME NEW r \in Jobs, RequestArrives(r) \/ ServerStep(r) \/ ConnectionEnds(r)
        PROVE  AiNext
    BY <1>2, PanelAssumption DEF RequestArrives, ServerStep, ConnectionEnds
  <1>3. ASSUME NEW w \in Workers, NEW m \in requests, CancelArrives(w, m) \/ FeedbackArrives(w, m)
        PROVE  [AiNext]_aiVars
    <2>1. m \in Message
      BY DEF PanelTypeOK
    <2>2. m.job \in Jobs /\ (m.op = "feedback" => m.disposition \in Disposition)
      BY <2>1 DEF Message
    <2> QED
      BY <1>3, <2>2, PanelAssumption DEF CancelArrives, FeedbackArrives
  <1>4. ASSUME NEW w \in Workers, WorkerWrites(w) \/ \E r \in Jobs : OtherCancels(w, r)
        PROVE  AiNext
    BY <1>4 DEF WorkerWrites, OtherCancels
  <1>5. CASE AccessChanges \/ ServerRestarts
    BY <1>5 DEF AccessChanges, ServerRestarts
  <1>6. ASSUME NEW r \in Jobs, ClickRun(r) \/ RunStep(r)
        PROVE  UNCHANGED aiVars
    BY <1>6 DEF ClickRun, RunStep, RunStarted, RunRefused, ReadToken, ReadDone, ReadError,
                ReadEnd, ReadRejects
  <1>7. ASSUME \/ ClickCancel \/ ClickTab \/ ClickClose \/ ClickReject
               \/ \E d \in {"whole", "other"} : ClickApply(d)
               \/ ApplyIsStale \/ ApplyIsNotSaved
               \/ \E m \in requests : FeedbackDone(m)
        PROVE  UNCHANGED aiVars
    BY <1>7 DEF ClickCancel, ClickTab, ClickClose, ClickReject, ClickApply, ApplyIsStale,
                ApplyIsNotSaved, FeedbackDone
  <1> HIDE DEF AiNext, aiVars
  <1> QED
    BY <1>1, <1>2, <1>3, <1>4, <1>5, <1>6, <1>7 DEF PanelNext, allVars

LEMMA AbortedTypes ==
  ASSUME PanelTypeOK
  PROVE  /\ Aborted \in [Jobs -> Run] /\ CancelRequests \subseteq Message
         /\ \A r \in Jobs : Aborted[r] = [run[r] EXCEPT !.aborted = Aborted[r].aborted]
  <1>1. run \in [Jobs -> Run] /\ panel.session \in Jobs \cup {NoRow}
    BY DEF PanelTypeOK, Panel
  <1>2. CancelRequests \subseteq Message
    BY <1>1 DEF CancelRequests, Message
  <1>3. CASE Aborted = run
    BY <1>1, <1>2, <1>3 DEF Run
  <1>4. CASE Aborted # run
    <2>1. panel.session \in Jobs /\ Aborted = [run EXCEPT ![panel.session].aborted = TRUE]
      BY <1>1, <1>4 DEF Aborted
    <2> QED
      BY <1>1, <1>2, <2>1 DEF Run
  <1> QED
    BY <1>3, <1>4

\* The steps of the user.
LEMMA UserStepTypes ==
  ASSUME PanelTypes,
         \/ \E r \in Jobs : ClickRun(r)
         \/ ClickCancel \/ ClickTab \/ ClickClose \/ ClickReject
         \/ \E d \in {"whole", "other"} : ClickApply(d)
         \/ ApplyIsStale \/ ApplyIsNotSaved
         \/ \E m \in requests : FeedbackDone(m)
  PROVE  PanelTypes'
  <1> USE DEF PanelTypes, PanelTypeOK, ReadersHaveStreams
  <1>1. /\ panel \in Panel /\ run \in [Jobs -> Run] /\ requests \subseteq Message
        /\ Aborted \in [Jobs -> Run] /\ CancelRequests \subseteq Message
        /\ \A r \in Jobs : Aborted[r].pc = run[r].pc
    BY AbortedTypes DEF Run
  <1>2. ASSUME NEW rest, rest \subseteq Message, CloseWith(rest), UNCHANGED aiVars
        PROVE  PanelTypes'
    BY <1>1, <1>2 DEF CloseWith, Panel, aiVars
  <1>3. ASSUME NEW d \in Disposition, SendFeedback(d), UNCHANGED aiVars
        PROVE  PanelTypes'
    <2>1. CASE panel.jobId = NoRow
      BY <1>1, <1>2, <1>3, <2>1 DEF SendFeedback
    <2>2. CASE panel.jobId # NoRow
      <3>1. panel.jobId \in Jobs
        BY <1>1, <2>2 DEF Panel
      <3>2. [op |-> "feedback", job |-> panel.jobId, disposition |-> d] \in Message
        BY <3>1 DEF Message
      <3> QED
        BY <1>1, <1>3, <2>2, <3>2 DEF SendFeedback, aiVars
    <2> QED
      BY <2>1, <2>2
  <1>4. ASSUME NEW r \in Jobs, ClickRun(r)
        PROVE  PanelTypes'
    <2>1. panel' \in Panel
      BY <1>1, <1>4 DEF ClickRun, Panel
    <2>2. PICK keeps \in BOOLEAN :
            run' = [Aborted EXCEPT ![r].pc = "starting", ![r].keepsId = keeps]
      BY <1>4 DEF ClickRun
    <2>3. Aborted[r] \in Run
      BY <1>1
    <2>4. /\ run' \in [Jobs -> Run]
          /\ \A q \in Jobs : run'[q].pc = "reading" => run[q].pc = "reading"
      BY <1>1, <2>2, <2>3 DEF Run
    <2>5. requests' \subseteq Message /\ UNCHANGED aiVars
      BY <1>1, <1>4 DEF ClickRun
    <2> QED
      BY <2>1, <2>4, <2>5 DEF aiVars
  <1>5. CASE ClickCancel
    BY <1>1, <1>5 DEF ClickCancel, Panel, aiVars
  <1>6. CASE ClickTab \/ ApplyIsStale
    BY <1>1, <1>6 DEF ClickTab, ApplyIsStale, Panel, aiVars
  <1>7. CASE ClickClose \/ ApplyIsNotSaved
    BY <1>1, <1>2, <1>7 DEF ClickClose, ApplyIsNotSaved
  <1>8. CASE ClickReject \/ \E d \in {"whole", "other"} : ClickApply(d)
    BY <1>3, <1>8 DEF ClickReject, ClickApply, Disposition
  <1>9. ASSUME NEW m \in requests, FeedbackDone(m)
        PROVE  PanelTypes'
    <2>1. requests \ {m} \subseteq Message
      BY <1>1
    <2> QED
      BY <1>1, <1>2, <1>9, <2>1 DEF FeedbackDone, aiVars
  <1> QED
    BY <1>4, <1>5, <1>6, <1>7, <1>8, <1>9

\* A run goes on: its own fields change, what is shown, and the session.
LEMMA RunStepTypes ==
  ASSUME AiInv, PanelTypes, NEW r \in Jobs, RunStep(r)
  PROVE  PanelTypes'
  <1> USE DEF PanelTypes, PanelTypeOK, ReadersHaveStreams
  <1>1. panel \in Panel /\ run \in [Jobs -> Run] /\ requests \subseteq Message /\ run[r] \in Run
    OBVIOUS
  <1>2. KnownId(r) \in Jobs \cup {NoRow}
    BY <1>1 DEF KnownId, Panel
  <1>3. CASE RunStarted(r)
    BY <1>1, <1>3 DEF RunStarted, Panel, Run, aiVars
  <1>4. CASE RunRefused(r) \/ ReadEnd(r) \/ ReadRejects(r)
    BY <1>1, <1>4 DEF RunRefused, ReadEnd, ReadRejects, Show, Panel, Run, aiVars
  <1>5. CASE ReadToken(r)
    <2>1. stream[r] \in Stream /\ run[r].read \in Nat /\ run[r].read < stream[r].sent
      BY <1>1, <1>5, AiAssumption DEF ReadToken, AiInv, AiTypeOK, Run
    <2>2. run[r].read + 1 \in 0 .. Chunks
      BY <2>1, AiAssumption DEF Stream
    <2>3. [of |-> r, whole |-> FALSE] \in Draft
      BY DEF Draft
    <2> QED
      BY <1>1, <1>2, <1>5, <2>2, <2>3 DEF ReadToken, Show, Panel, Run, aiVars
  <1>6. CASE ReadDone(r) \/ ReadError(r)
    <2>1. [of |-> r, whole |-> TRUE] \in Draft
      BY DEF Draft
    <2>2. panel' \in Panel
      BY <1>1, <1>2, <1>6, <2>1 DEF ReadDone, ReadError, Show, Panel
    <2>3. run' = [run EXCEPT ![r].pc = "ended", ![r].knowsId = TRUE]
      BY <1>6 DEF ReadDone, ReadError
    <2>4. /\ run' \in [Jobs -> Run]
          /\ \A q \in Jobs : run'[q].pc = "reading" => run[q].pc = "reading"
      BY <1>1, <2>3 DEF Run
    <2> QED
      BY <1>6, <2>2, <2>4 DEF ReadDone, ReadError, aiVars
  <1> QED
    BY <1>3, <1>4, <1>5, <1>6 DEF RunStep

\* What the server and the network do.
LEMMA ServerStepTypes ==
  ASSUME AiInv, PanelTypes, [PanelNext]_allVars, UNCHANGED <<panel, run>>,
         requests' \subseteq Message
  PROVE  PanelTypes'
  <1>1. [AiNext]_aiVars
    BY PanelStepIsAiStep DEF PanelTypes
  <1> QED
    BY <1>1, StreamsStay DEF PanelTypes, PanelTypeOK, ReadersHaveStreams

LEMMA PanelStepTypes == AiInv /\ PanelTypes /\ [PanelNext]_allVars => PanelTypes'
  <1> SUFFICES ASSUME AiInv, PanelTypes, [PanelNext]_allVars PROVE PanelTypes'
    OBVIOUS
  <1>1. requests \subseteq Message
    BY DEF PanelTypes, PanelTypeOK
  <1>2. ASSUME NEW w \in Workers, WorkerWrites(w)
        PROVE  requests' \subseteq Message /\ UNCHANGED <<panel, run>>
    <2>1. handler[w].job \in Jobs
      BY <1>2 DEF WorkerWrites, HandlerWrites, AiInv, AiTypeOK, Handler
    <2>2. [op |-> "answer", job |-> handler[w].job] \in Message
      BY <2>1 DEF Message
    <2> QED
      BY <1>1, <1>2, <2>2 DEF WorkerWrites
  <1>3. ASSUME \/ \E r \in Jobs : RequestArrives(r) \/ ServerStep(r) \/ ConnectionEnds(r)
               \/ \E w \in Workers :
                    \/ \E m \in requests : CancelArrives(w, m) \/ FeedbackArrives(w, m)
                    \/ \E r \in Jobs : OtherCancels(w, r)
               \/ AccessChanges \/ ServerRestarts \/ UNCHANGED allVars
        PROVE  requests' \subseteq Message /\ UNCHANGED <<panel, run>>
    BY <1>1, <1>3 DEF RequestArrives, ServerStep, ConnectionEnds, CancelArrives, FeedbackArrives,
                      OtherCancels, AccessChanges, ServerRestarts, allVars, panelVars
  <1> QED
    BY <1>2, <1>3, UserStepTypes, RunStepTypes, ServerStepTypes DEF PanelNext

LEMMA PanelInitTypes == PanelInit => AiInv /\ PanelTypes
  <1> SUFFICES ASSUME PanelInit PROVE AiInv /\ PanelTypes
    OBVIOUS
  <1>1. AiInv
    BY AiInitInv DEF PanelInit
  <1>2. panel \in Panel /\ run \in [Jobs -> Run] /\ requests \subseteq Message
    BY AiAssumption DEF PanelInit, Panel, Run
  <1>3. ReadersHaveStreams
    BY DEF PanelInit, ReadersHaveStreams
  <1> QED
    BY <1>1, <1>2, <1>3 DEF PanelTypes, PanelTypeOK

LEMMA PanelTypesInvariant == PanelSpec => [](AiInv /\ PanelTypes)
  <1>1. AiInv /\ PanelTypes /\ [PanelNext]_allVars => (AiInv /\ PanelTypes)'
    BY AiStepInv, PanelStepIsAiStep, PanelStepTypes DEF PanelTypes
  <1> QED
    BY <1>1, PanelInitTypes, PTL DEF PanelSpec

\* The panel's state, its runs and the requests on their way keep their types.
THEOREM PanelTypesCorrect == PanelSpec => []PanelTypeOK
  <1>1. PanelTypes => PanelTypeOK
    BY DEF PanelTypes
  <1> QED
    BY <1>1, PanelTypesInvariant, PTL

\* Whatever the panel sends, cancels, loses and sends again, the server goes through
\* steps of AiJobs: so all that is proved of the jobs holds with the panel at work.
THEOREM PanelImplementsJobs == PanelSpec => AiSpec
  <1>1. AiInv /\ PanelTypes /\ [PanelNext]_allVars => [AiNext]_aiVars
    BY PanelStepIsAiStep DEF PanelTypes
  <1>2. PanelInit => AiInit
    BY DEF PanelInit
  <1> QED
    BY <1>1, <1>2, PanelTypesInvariant, PTL DEF PanelSpec, AiSpec

------------------------------------------------------------------------------
(* What a user can rely on of an answer: AiAnswers *)

OpenJobs == {j \in AnsweredJobs : stream[j].pc \notin Ended}
AnswerRows == [j \in AnsweredJobs |-> [status |-> job[j].status, text |-> job[j].output]]

\* An UPDATE of the status and, if it has one, of the text of a row.
LEMMA RowUpdated ==
  ASSUME AiTypeOK, NEW j \in AnsweredJobs, NEW status \in Status,
         NEW text \in 0..Chunks \cup {NoRow},
         job' = [job EXCEPT ![j].status = status, ![j].output = text]
  PROVE  /\ AnsweredJobs' = AnsweredJobs
         /\ AnswerRows' = [AnswerRows EXCEPT ![j] = [status |-> status, text |-> text]]
<1>1. j \in Jobs /\ job[j] \in JobRow
  BY DEF AnsweredJobs, AiTypeOK
<1>2. /\ job'[j] \in JobRow /\ job'[j] # NoRow
      /\ job'[j].status = status /\ job'[j].output = text
  <2> DEFINE labelled == [job[j] EXCEPT !.status = status]
  <2>1. job'[j] = [labelled EXCEPT !.output = text]
    BY <1>1 DEF AiTypeOK
  <2>2. labelled \in JobRow /\ labelled.status = status
    BY <1>1 DEF JobRow
  <2> HIDE DEF labelled
  <2>3. job'[j] \in JobRow /\ job'[j].status = status /\ job'[j].output = text
    BY <2>1, <2>2 DEF JobRow
  <2> QED
    BY <2>3, AiAssumption
<1>3. \A k \in Jobs \ {j} : job'[k] = job[k]
  BY <1>1 DEF AiTypeOK
<1>4. AnsweredJobs' = AnsweredJobs
  BY <1>1, <1>2, <1>3 DEF AnsweredJobs
<1>5. AnswerRows' = [AnswerRows EXCEPT ![j] = [status |-> status, text |-> text]]
  BY <1>2, <1>3, <1>4 DEF AnswerRows, AnsweredJobs
<1> QED
  BY <1>4, <1>5

LEMMA StatusUpdated ==
  ASSUME AiTypeOK, NEW j \in AnsweredJobs, NEW status \in Status, SetStatus(j, status)
  PROVE  /\ AnsweredJobs' = AnsweredJobs
         /\ AnswerRows' = [AnswerRows EXCEPT ![j] = [status |-> status, text |-> AnswerRows[j].text]]
<1>1. j \in Jobs /\ job[j] \in JobRow
  BY DEF AnsweredJobs, AiTypeOK
<1>2. job[j].output \in 0..Chunks \cup {NoRow} /\ AnswerRows[j].text = job[j].output
  BY <1>1 DEF JobRow, AnswerRows
<1>3. [job[j] EXCEPT !.status = status] = [job[j] EXCEPT !.status = status, !.output = job[j].output]
  BY <1>1 DEF JobRow
<1>4. job' = [job EXCEPT ![j].status = status, ![j].output = job[j].output]
  BY <1>1, <1>3 DEF SetStatus, AiTypeOK
<1> QED
  BY <1>2, <1>4, RowUpdated

\* A request moves on, and is over exactly if it has come to one of the ends.
LEMMA RequestMoves ==
  ASSUME AiInv, NEW j \in Jobs, NEW pc, AnsweredJobs' = AnsweredJobs,
         stream[j] # NoRow, stream[j].pc \notin Ended, job[j] # NoRow, GoTo(j, pc)
  PROVE  /\ j \in OpenJobs
         /\ OpenJobs' = IF pc \in Ended THEN OpenJobs \ {j} ELSE OpenJobs
<1>1. stream[j] \in Stream
  BY DEF AiInv, AiTypeOK
<1>2. stream'[j].pc = pc /\ \A k \in Jobs \ {j} : stream'[k] = stream[k]
  BY <1>1 DEF GoTo, AiInv, AiTypeOK, Stream
<1>3. j \in OpenJobs
  BY DEF OpenJobs, AnsweredJobs
<1>4. ASSUME NEW k \in AnsweredJobs
      PROVE  k \in OpenJobs' <=> (IF k = j THEN pc \notin Ended ELSE k \in OpenJobs)
  BY <1>2, <1>4 DEF OpenJobs, AnsweredJobs
<1>5. \A k : k \in OpenJobs \/ k \in OpenJobs' => k \in AnsweredJobs
  BY DEF OpenJobs
<1> QED
  BY <1>3, <1>4, <1>5

LEMMA OpenHasRow ==
  ASSUME AiInv, NEW j \in Jobs, NEW pc \in {"chunk", "complete", "cancel", "fail"}, At(j, pc)
  PROVE  /\ stream[j] # NoRow /\ stream[j].pc \notin Ended
         /\ job[j] # NoRow /\ j \in AnsweredJobs /\ job[j] \in JobRow
BY DEF AiInv, AiTypeOK, RowsExist, At, Ended, AnsweredJobs

LEMMA AnswersStep ==
  ASSUME AiInv, [AiNext]_aiVars
  PROVE  [JobAnswers!AnswersNext]_<<OpenJobs, AnswerRows>>
<1> DEFINE Abstract == [JobAnswers!AnswersNext]_<<OpenJobs, AnswerRows>>
<1> USE DEF AiInv
<1>1. ASSUME job' = job, NEW pc, pc \notin Ended, NEW j \in Jobs, stream[j] # NoRow,
             stream[j].pc \notin Ended, job[j] # NoRow, GoTo(j, pc)
      PROVE  Abstract
  <2>1. AnsweredJobs' = AnsweredJobs /\ AnswerRows' = AnswerRows
    BY <1>1 DEF AnsweredJobs, AnswerRows
  <2> QED
    BY <1>1, <2>1, RequestMoves
<1>2. ASSUME NEW j \in Jobs, NEW u \in Users, Request(j, u)
      PROVE  Abstract
  <2>1. stream[j] = NoRow /\ job' = job /\ \A k \in Jobs \ {j} : stream'[k] = stream[k]
    BY <1>2 DEF Request, AiTypeOK
  <2>2. job[j] = NoRow
    BY <2>1 DEF RowsExist
  <2>3. AnsweredJobs' = AnsweredJobs /\ AnswerRows' = AnswerRows /\ j \notin AnsweredJobs
    BY <2>1, <2>2 DEF AnsweredJobs, AnswerRows
  <2>4. OpenJobs' = OpenJobs
    BY <2>1, <2>3 DEF OpenJobs, AnsweredJobs
  <2> QED
    BY <2>3, <2>4
<1>3. ASSUME NEW j \in Jobs, InsertJob(j)
      PROVE  Abstract
  <2>1. /\ stream[j] # NoRow /\ stream[j].pc = "insert" /\ stream[j] \in Stream
        /\ job' = [job EXCEPT ![j] = [user |-> stream[j].user, status |-> "streaming",
                                      output |-> NoRow, day |-> today]]
        /\ GoTo(j, "chunk")
    BY <1>3 DEF InsertJob, At, AiTypeOK
  <2>2. job[j] = NoRow
    BY <2>1 DEF RowsExist
  <2>3. /\ job'[j] # NoRow /\ job'[j].status = "streaming" /\ job'[j].output = NoRow
        /\ stream'[j].pc = "chunk"
        /\ \A k \in Jobs \ {j} : job'[k] = job[k] /\ stream'[k] = stream[k]
    <3>1. [user |-> stream[j].user, status |-> "streaming", output |-> NoRow, day |-> today]
            \in JobRow
      BY <2>1 DEF JobRow, Stream, Status, AiTypeOK
    <3> QED
      BY <2>1, <3>1, AiAssumption DEF AiTypeOK, GoTo, Stream
  <2>4. j \notin AnsweredJobs /\ AnsweredJobs' = AnsweredJobs \cup {j}
    BY <2>2, <2>3 DEF AnsweredJobs
  <2>5. OpenJobs' = OpenJobs \cup {j}
    <3>1. \A k \in AnsweredJobs : k \in OpenJobs' <=> k \in OpenJobs
      BY <2>3, <2>4 DEF OpenJobs, AnsweredJobs
    <3>2. j \in OpenJobs'
      BY <2>3, <2>4 DEF OpenJobs, Ended
    <3>3. OpenJobs \subseteq AnsweredJobs /\ OpenJobs' \subseteq AnsweredJobs \cup {j}
      BY <2>4 DEF OpenJobs
    <3> QED
      BY <3>1, <3>2, <3>3
  <2>6. AnswerRows' = [k \in AnsweredJobs \cup {j} |->
          IF k = j THEN [status |-> "streaming", text |-> NoRow] ELSE AnswerRows[k]]
    BY <2>3, <2>4 DEF AnswerRows, AnsweredJobs
  <2>7. DOMAIN AnswerRows = AnsweredJobs
    BY DEF AnswerRows
  <2>8. JobAnswers!Start(j)
    BY <2>4, <2>5, <2>6, <2>7 DEF JobAnswers!Start, JobAnswers!Began, OpenJobs, AnswerRows
  <2> QED
    BY <2>8 DEF JobAnswers!AnswersNext
<1>4. ASSUME NEW j \in Jobs, ProviderFails(j) \/ FinalCheck(j)
      PROVE  Abstract
  <2>1. PICK pc \in {"fail", "complete"} : GoTo(j, pc) /\ At(j, "chunk") /\ job' = job
    BY <1>4 DEF ProviderFails, FinalCheck
  <2> QED
    BY <1>1, <2>1, OpenHasRow DEF Ended
<1>5. ASSUME NEW j \in Jobs, SendToken(j) \/ Disconnect(j)
      PROVE  Abstract
  <2>1. job' = job /\ \A k \in Jobs : stream[k] # NoRow => stream'[k].pc = stream[k].pc
    BY <1>5 DEF SendToken, Disconnect, AiTypeOK, Stream
  <2>2. AnsweredJobs' = AnsweredJobs /\ AnswerRows' = AnswerRows
    BY <2>1 DEF AnsweredJobs, AnswerRows
  <2>3. OpenJobs' = OpenJobs
    BY <2>1, <2>2 DEF OpenJobs, AnsweredJobs, RowsExist
  <2> QED
    BY <2>2, <2>3
<1>6. ASSUME NEW j \in Jobs, CompleteJob(j)
      PROVE  Abstract
  <2>1. /\ At(j, "complete") /\ stream[j].sent = Chunks
        /\ job' = [job EXCEPT ![j].status = "completed", ![j].output = stream[j].sent]
        /\ GoTo(j, "done")
    BY <1>6 DEF CompleteJob, AllSentAtTheEnd
  <2>2. /\ stream[j] # NoRow /\ stream[j].pc \notin Ended
        /\ job[j] # NoRow /\ j \in AnsweredJobs
    BY <2>1, OpenHasRow
  <2>3. /\ AnsweredJobs' = AnsweredJobs
        /\ AnswerRows' = [AnswerRows EXCEPT ![j] = [status |-> "completed", text |-> Chunks]]
    <3>1. "completed" \in Status /\ Chunks \in 0..Chunks \cup {NoRow}
      BY AiAssumption DEF Status
    <3> QED
      BY <2>1, <2>2, <3>1, RowUpdated
  <2>4. j \in OpenJobs /\ OpenJobs' = OpenJobs \ {j}
    BY <2>1, <2>2, <2>3, RequestMoves DEF Ended
  <2>5. JobAnswers!Completes(j)
    BY <2>3, <2>4 DEF JobAnswers!Completes, JobAnswers!Ends, JobAnswers!Row, OpenJobs, AnswerRows
  <2> QED
    BY <2>5 DEF JobAnswers!AnswersNext
<1>7. ASSUME NEW j \in Jobs, FailJob(j)
      PROVE  Abstract
  <2>1. At(j, "fail") /\ SetStatus(j, "failed") /\ GoTo(j, "error")
    BY <1>7 DEF FailJob
  <2>2. /\ stream[j] # NoRow /\ stream[j].pc \notin Ended
        /\ job[j] # NoRow /\ j \in AnsweredJobs
    BY <2>1, OpenHasRow
  <2>3. /\ AnsweredJobs' = AnsweredJobs
        /\ AnswerRows' = [AnswerRows EXCEPT ![j] = [status |-> "failed", text |-> AnswerRows[j].text]]
    BY <2>1, <2>2, StatusUpdated DEF Status
  <2>4. j \in OpenJobs /\ OpenJobs' = OpenJobs \ {j}
    BY <2>1, <2>2, <2>3, RequestMoves DEF Ended
  <2>5. JobAnswers!Fails(j)
    BY <2>3, <2>4 DEF JobAnswers!Fails, JobAnswers!Ends, JobAnswers!Row, OpenJobs, AnswerRows
  <2> QED
    BY <2>5 DEF JobAnswers!AnswersNext
<1>8. ASSUME NEW j \in Jobs, CancelStream(j)
      PROVE  Abstract
  <2>1. At(j, "cancel") /\ SetStatus(j, "cancelled") /\ GoTo(j, "closed")
    BY <1>8 DEF CancelStream
  <2>2. /\ stream[j] # NoRow /\ stream[j].pc \notin Ended
        /\ job[j] # NoRow /\ j \in AnsweredJobs
    BY <2>1, OpenHasRow
  <2>3. /\ AnsweredJobs' = AnsweredJobs
        /\ AnswerRows' = [AnswerRows EXCEPT ![j] = [status |-> "cancelled", text |-> AnswerRows[j].text]]
    BY <2>1, <2>2, StatusUpdated DEF Status
  <2>4. j \in OpenJobs /\ OpenJobs' = OpenJobs \ {j}
    BY <2>1, <2>2, <2>3, RequestMoves DEF Ended
  <2>5. JobAnswers!IsGivenUp(j)
    BY <2>3, <2>4 DEF JobAnswers!IsGivenUp, JobAnswers!Ends, JobAnswers!Row, OpenJobs, AnswerRows
  <2> QED
    BY <2>5 DEF JobAnswers!AnswersNext
<1>9. ASSUME NEW j \in Jobs, job' = job, At(j, "chunk"), NEW pc \in Ended, GoTo(j, pc)
      PROVE  Abstract
  <2>1. /\ stream[j] # NoRow /\ stream[j].pc \notin Ended
        /\ job[j] # NoRow /\ j \in AnsweredJobs
    BY <1>9, OpenHasRow
  <2>2. AnsweredJobs' = AnsweredJobs /\ AnswerRows' = AnswerRows
    BY <1>9 DEF AnsweredJobs, AnswerRows
  <2>3. j \in OpenJobs /\ OpenJobs' = OpenJobs \ {j}
    BY <1>9, <2>1, <2>2, RequestMoves
  <2>4. AnswerRows[j] = [status |-> AnswerRows[j].status, text |-> AnswerRows[j].text]
    BY <2>1 DEF AnswerRows
  <2>5. AnswerRows' = [AnswerRows EXCEPT ![j] = [status |-> AnswerRows[j].status,
                                                 text |-> AnswerRows[j].text]]
    BY <2>2, <2>4 DEF AnswerRows
  <2>6. JobAnswers!IsGivenUp(j)
    BY <2>3, <2>5 DEF JobAnswers!IsGivenUp, JobAnswers!Ends, JobAnswers!Row, OpenJobs, AnswerRows
  <2> QED
    BY <2>6 DEF JobAnswers!AnswersNext
<1>10. ASSUME NEW j \in Jobs, StopStream(j) \/ DropStream(j)
      PROVE  Abstract
  <2>1. PICK pc \in {"fail", "cancel", "closed", "dropped"} :
          GoTo(j, pc) /\ At(j, "chunk") /\ job' = job
    BY <1>10 DEF StopStream, DropStream
  <2>2. CASE pc \in Ended
    BY <1>9, <2>1, <2>2
  <2>3. CASE pc \notin Ended
    BY <1>1, <2>1, <2>3, OpenHasRow
  <2> QED
    BY <2>2, <2>3
<1>11. ASSUME NEW w \in Workers, HandlerWrites(w)
      PROVE  Abstract
  <2>1. PICK j \in Jobs, label \in {"cancelled"} \cup Feedback :
          SetStatus(j, label) /\ job[j] # NoRow /\ stream' = stream
    <3>1. handler[w] \in Handler /\ job[handler[w].job] # NoRow
      BY <1>11 DEF HandlerWrites, AiTypeOK, RowsExist
    <3>2. handler[w].job \in Jobs /\ handler[w].status \in {"cancelled"} \cup Feedback
      BY <3>1 DEF Handler
    <3> QED
      BY <1>11, <3>1, <3>2 DEF HandlerWrites
  <2>2. j \in AnsweredJobs
    BY <2>1 DEF AnsweredJobs
  <2>3. /\ AnsweredJobs' = AnsweredJobs
        /\ AnswerRows' = [AnswerRows EXCEPT ![j] = [status |-> label, text |-> AnswerRows[j].text]]
    BY <2>1, <2>2, StatusUpdated DEF Status
  <2>4. OpenJobs' = OpenJobs /\ j \in DOMAIN AnswerRows
    BY <2>1, <2>2, <2>3 DEF OpenJobs, AnswerRows
  <2>5. JobAnswers!Label(j, label)
    BY <2>3, <2>4 DEF JobAnswers!Label, JobAnswers!Began, JobAnswers!Row, OpenJobs, AnswerRows
  <2> QED
    BY <2>5 DEF JobAnswers!AnswersNext
<1>12. ASSUME Restart
      PROVE  Abstract
  <2>1. job' = job /\ \A j \in Jobs : stream[j] # NoRow =>
          stream'[j].pc = IF stream[j].pc \in Ended THEN stream[j].pc ELSE "dropped"
    BY <1>12 DEF Restart, AiTypeOK, Stream
  <2>2. AnsweredJobs' = AnsweredJobs /\ AnswerRows' = AnswerRows
    BY <2>1 DEF AnsweredJobs, AnswerRows
  <2>3. OpenJobs' = {}
    BY <2>1, <2>2 DEF OpenJobs, AnsweredJobs, RowsExist, Ended
  <2>4. JobAnswers!AllEnd
    BY <2>2, <2>3 DEF JobAnswers!AllEnd, OpenJobs, AnswerRows
  <2> QED
    BY <2>4 DEF JobAnswers!AnswersNext
<1>13. ASSUME job' = job, stream' = stream
      PROVE  Abstract
  BY <1>13 DEF OpenJobs, AnswerRows, AnsweredJobs
<1>14. ASSUME NEW w \in Workers, NEW u \in Users, NEW j \in Jobs,
              CancelReads(w, u, j) \/ \E d \in Disposition : FeedbackReads(w, u, j, d)
      PROVE  Abstract
  BY <1>13, <1>14 DEF CancelReads, FeedbackReads
<1>15. ASSUME \/ \E p \in Policies : UpdateAiPolicy(p)
              \/ \E u \in Users, r \in Grants : ChangeRole(u, r)
              \/ Midnight
              \/ UNCHANGED aiVars
      PROVE  Abstract
  BY <1>13, <1>15 DEF UpdateAiPolicy, ChangeRole, Midnight, aiVars
<1> HIDE DEF AiInv
<1> SUFFICES Abstract
  OBVIOUS
<1> HIDE DEF Abstract
<1>16. CASE \E j \in Jobs : StreamStep(j)
  BY <1>16, <1>3, <1>4, <1>5, <1>6, <1>7, <1>8, <1>10 DEF StreamStep
<1>17. ASSUME NEW j \in Jobs, (\E u \in Users : Request(j, u)) \/ Disconnect(j)
       PROVE  Abstract
  BY <1>17, <1>2, <1>5
<1> QED
  BY <1>11, <1>12, <1>14, <1>15, <1>16, <1>17 DEF AiNext

\* Where a stream is over, nothing but a label of its users changes the row.
LEMMA AnsweredIsFinal ==
  [JobAnswers!AnswersNext]_<<OpenJobs, AnswerRows>>
    => [\A a \in DOMAIN AnswerRows \ OpenJobs :
          /\ a \in (DOMAIN AnswerRows)' \ OpenJobs'
          /\ AnswerRows'[a].text = AnswerRows[a].text
          /\ AnswerRows'[a].status \in {"cancelled"} \cup Feedback \cup {AnswerRows[a].status}
       ]_<<OpenJobs, AnswerRows>>
<1> SUFFICES ASSUME JobAnswers!AnswersNext, NEW a \in DOMAIN AnswerRows, a \notin OpenJobs
             PROVE  /\ a \in DOMAIN AnswerRows' /\ a \notin OpenJobs'
                    /\ AnswerRows'[a].text = AnswerRows[a].text
                    /\ AnswerRows'[a].status
                         \in {"cancelled"} \cup Feedback \cup {AnswerRows[a].status}
  OBVIOUS
<1>1. ASSUME NEW b, JobAnswers!Start(b)
      PROVE  /\ a \in DOMAIN AnswerRows' /\ a \notin OpenJobs' /\ AnswerRows'[a] = AnswerRows[a]
  BY <1>1 DEF JobAnswers!Start, JobAnswers!Began, OpenJobs, AnswerRows
<1>2. ASSUME NEW b, JobAnswers!Completes(b) \/ JobAnswers!Fails(b) \/ JobAnswers!IsGivenUp(b)
      PROVE  /\ a \in DOMAIN AnswerRows' /\ a \notin OpenJobs' /\ AnswerRows'[a] = AnswerRows[a]
  BY <1>2 DEF JobAnswers!Completes, JobAnswers!Fails, JobAnswers!IsGivenUp, JobAnswers!Ends,
              JobAnswers!Row, OpenJobs, AnswerRows
<1>3. ASSUME NEW b, NEW label \in {"cancelled"} \cup Feedback, JobAnswers!Label(b, label)
      PROVE  /\ a \in DOMAIN AnswerRows' /\ a \notin OpenJobs'
             /\ AnswerRows'[a].text = AnswerRows[a].text
             /\ AnswerRows'[a].status \in {label, AnswerRows[a].status}
  BY <1>3 DEF JobAnswers!Label, JobAnswers!Began, JobAnswers!Row, OpenJobs, AnswerRows
<1>4. CASE JobAnswers!AllEnd
  BY <1>4 DEF JobAnswers!AllEnd, OpenJobs, AnswerRows
<1> QED
  BY <1>1, <1>2, <1>3, <1>4 DEF JobAnswers!AnswersNext

\* However a stream ends and however late cancel and feedback write, an answer is stored
\* once, whole and by its own stream, and is final when the stream is over (event_stream,
\* cancel_ai_job, record_ai_feedback): the backend implements AiAnswers.
THEOREM AiKeepsAnswers == AiSpec => KeepsAnswers
<1>1. AiInit => JobAnswers!AnswersInit
  BY DEF AiInit, JobAnswers!AnswersInit, AnsweredJobs
<1>2. AiInv /\ [AiNext]_aiVars => [JobAnswers!AnswersNext]_(JobAnswers!answersVars)
  BY AnswersStep DEF JobAnswers!answersVars, OpenJobs, AnswerRows
<1>3. [JobAnswers!AnswersNext]_(JobAnswers!answersVars)
        => [\A a \in JobAnswers!Began \ OpenJobs :
              /\ a \in (JobAnswers!Began)' \ OpenJobs'
              /\ AnswerRows'[a].text = AnswerRows[a].text
              /\ AnswerRows'[a].status \in {"cancelled"} \cup Feedback \cup {AnswerRows[a].status}
           ]_(JobAnswers!answersVars)
  BY AnsweredIsFinal DEF JobAnswers!answersVars, JobAnswers!Began, OpenJobs, AnswerRows
<1> QED
  BY <1>1, <1>2, <1>3, AiInvariant, PTL
     DEF AiSpec, KeepsAnswers, JobAnswers!AnswersSpec, JobAnswers!RowsAreFinal, OpenJobs, AnswerRows

\* With the panel's clients behind it, it does too (useAi of the document page).
THEOREM PanelKeepsAnswers == PanelSpec => KeepsAnswers
BY AiKeepsAnswers, PanelImplementsJobs

(***************************************************************************)
(* The AI service                                                          *)
(***************************************************************************)

(* A job is stored under an id made for it.  A call under way whose job is there  *)
(* finds it RUNNING, and is its only one, unless two calls of it overlapped.      *)
JobsAreIssued == \A j \in JobIds : jobs[j] # None => j \in issued
CallsRunTheirJob ==
  \A c \in Calls : LET j == calls[c] IN
    j # None /\ j \notin overlapped =>
      /\ jobs[j] # None => jobs[j].status = "RUNNING"
      /\ \A d \in Calls : calls[d] = j => d = c

ServiceInv ==
  /\ TypeOK
  /\ JobsAreIssued
  /\ CallsRunTheirJob
  /\ RunningIsUnderWay
  /\ SnapshotsAreConsistent
  /\ StoredJobsAreExecutable

LEMMA ServiceInvInit == Init => ServiceInv
<1> SUFFICES ASSUME Init PROVE ServiceInv
  OBVIOUS
<1>1. TypeOK
  BY DEF Init, TypeOK
<1>2. JobsAreIssued /\ RunningIsUnderWay /\ SnapshotsAreConsistent /\ StoredJobsAreExecutable
  BY DEF Init, JobsAreIssued, RunningIsUnderWay, SnapshotsAreConsistent, StoredJobsAreExecutable
<1>3. CallsRunTheirJob
  BY DEF Init, CallsRunTheirJob
<1> QED
  BY <1>1, <1>2, <1>3 DEF ServiceInv

\* What validateCreateInput finds nothing wrong with can be executed.
LEMMA ValidatedIsExecutable ==
  ASSUME NEW input \in Input, Issues(input) = {}
  PROVE  /\ input.start \in Nat /\ input.end \in Nat /\ input.start < input.end
         /\ input.action = "translate" => input.language
         /\ input.blank = {}
<1>1. SelectionIssues(input) = {}
  BY DEF Issues
<1>2. input.start \in Nat
  BY <1>1 DEF SelectionIssues
<1>3. input.end \in Nat \ {0}
  BY <1>1 DEF SelectionIssues
<1>4. ~(input.end <= input.start)
  BY <1>1, <1>2, <1>3 DEF SelectionIssues
<1>5. input.blank = {}
  <2>1. {Issue(path, "invalid_type") : path \in input.blank} = {}
    BY DEF Issues
  <2> QED
    BY <2>1
<1>6. input.action = "translate" => input.language
  <2>1. {Issue("targetLanguage", "custom") :
           x \in {l \in {input.language} : input.action = "translate" /\ ~l}} = {}
    BY DEF Issues
  <2>2. ~(input.language \in {l \in {input.language} : input.action = "translate" /\ ~l})
    BY <2>1
  <2>3. input.language \in BOOLEAN
    BY DEF Input
  <2> QED
    BY <2>2, <2>3
<1> QED
  BY <1>2, <1>3, <1>4, <1>5, <1>6

\* A response is one of the errors a job may have, or a text.
LEMMA ResponsesAreUnderstood ==
  ASSUME NEW response \in Responses
  PROVE  /\ ErrorOf(response) \in ErrorCodes \cup {None}
         /\ ErrorOf(response) = None => response.text \in Answers
<1>1. CASE response \in [outcome : {"aborted", "unreachable"}]
  <2>1. ErrorOf(response) \in ErrorCodes
    BY <1>1 DEF ErrorOf, NormalizeAiError, ErrorCodes
  <2> QED
    BY <2>1, AiServiceAssumption
<1>2. CASE response \in [outcome : {"answered"}, http : {200, 429, 500}, text : Answers \cup {None}]
  BY <1>2, AiServiceAssumption DEF ErrorOf, ErrorCodes
<1>3. CASE response \in StubResponses
  BY <1>3, AiServiceAssumption DEF ErrorOf, ErrorCodes, StubResponses
<1> QED
  BY <1>1, <1>2, <1>3 DEF Responses, LmStudioResponses

LEMMA CreateKeepsService ==
  ASSUME ServiceInv, NEW j \in JobIds, NEW input \in Inputs, CreateAiJob(j, input)
  PROVE  ServiceInv'
<1> DEFINE written == [input |-> input, status |-> "PENDING", proposed |-> None, error |-> None]
<1>1. /\ input \in Input /\ Issues(input) = {}
      /\ j \notin issued /\ jobs[j] = None
      /\ jobs' = [jobs EXCEPT ![j] = written] /\ issued' = issued \cup {j}
      /\ calls' = calls /\ overlapped' = overlapped
      /\ \A c \in Calls : calls[c] # j
  BY AiServiceAssumption DEF ServiceInv, TypeOK, JobsAreIssued, CreateAiJob
<1>2. written \in Job /\ written # None
  BY <1>1, AiServiceAssumption DEF Job, ServiceStatus
<1>3. /\ written.status = "PENDING" /\ written.proposed = None /\ written.error = None /\ written.input = input
  OBVIOUS
<1> HIDE DEF written
<1>4. /\ jobs'[j] = written
      /\ \A i \in JobIds : i # j => jobs'[i] = jobs[i]
  BY <1>1 DEF ServiceInv, TypeOK
<1>5. TypeOK'
  BY <1>1, <1>2 DEF ServiceInv, TypeOK
<1>6. JobsAreIssued'
  BY <1>1, <1>4 DEF ServiceInv, JobsAreIssued
<1>7. CallsRunTheirJob'
  BY <1>1, <1>4 DEF ServiceInv, TypeOK, CallsRunTheirJob
<1>8. RunningIsUnderWay'
  BY <1>1, <1>3, <1>4 DEF ServiceInv, RunningIsUnderWay
<1>9. SnapshotsAreConsistent'
  BY <1>1, <1>3, <1>4 DEF ServiceInv, SnapshotsAreConsistent, Consistent, ToAiJobResponse
<1>10. StoredJobsAreExecutable'
  BY <1>1, <1>3, <1>4, ValidatedIsExecutable DEF ServiceInv, StoredJobsAreExecutable
<1> QED
  BY <1>5, <1>6, <1>7, <1>8, <1>9, <1>10 DEF ServiceInv

LEMMA RunKeepsService ==
  ASSUME ServiceInv, NEW c \in Calls, NEW j \in JobIds, RunAiJob(c, j)
  PROVE  ServiceInv'
<1> DEFINE written == Running(jobs[j])
<1>1. /\ jobs[j] \in Job /\ jobs[j] # None /\ j \in issued /\ j # None /\ calls[c] = None
      /\ jobs' = [jobs EXCEPT ![j] = written] /\ issued' = issued
      /\ calls' = [calls EXCEPT ![c] = j]
      /\ overlapped' = overlapped \cup {i \in {j} : \E d \in Calls : calls[d] = i}
  BY AiServiceAssumption DEF ServiceInv, TypeOK, JobsAreIssued, RunAiJob, UpdateAiJob
<1>2. /\ written \in Job /\ written # None
      /\ written.status = "RUNNING" /\ written.error = None
      /\ written.proposed = jobs[j].proposed /\ written.input = jobs[j].input
  BY <1>1, AiServiceAssumption DEF Job, ServiceStatus, Running
<1> HIDE DEF written
<1>3. /\ jobs'[j] = written
      /\ \A i \in JobIds : i # j => jobs'[i] = jobs[i]
      /\ calls'[c] = j
      /\ \A d \in Calls : d # c => calls'[d] = calls[d]
  BY <1>1 DEF ServiceInv, TypeOK
<1>4. TypeOK'
  BY <1>1, <1>2 DEF ServiceInv, TypeOK
<1>5. JobsAreIssued'
  BY <1>1, <1>3 DEF ServiceInv, JobsAreIssued
<1>6. CallsRunTheirJob'
  <2> SUFFICES ASSUME NEW d \in Calls, calls'[d] # None, calls'[d] \notin overlapped'
               PROVE  /\ jobs'[calls'[d]] # None => jobs'[calls'[d]].status = "RUNNING"
                      /\ \A e \in Calls : calls'[e] = calls'[d] => e = d
    BY DEF CallsRunTheirJob
  <2>1. CASE d = c
    BY <1>1, <1>2, <1>3, <2>1
  <2>2. CASE d # c
    <3>1. calls'[d] = calls[d] /\ calls[d] # j /\ calls[d] \in JobIds
      BY <1>1, <1>3, <2>2 DEF ServiceInv, TypeOK
    <3> QED
      BY <1>1, <1>3, <2>2, <3>1 DEF ServiceInv, CallsRunTheirJob
  <2> QED
    BY <2>1, <2>2
<1>7. RunningIsUnderWay'
  <2> SUFFICES ASSUME NEW i \in JobIds, jobs'[i] # None, jobs'[i].status = "RUNNING"
               PROVE  \E d \in Calls : calls'[d] = i
    BY DEF RunningIsUnderWay
  <2>1. CASE i = j
    BY <1>3, <2>1
  <2>2. CASE i # j
    <3>1. PICK d \in Calls : calls[d] = i
      BY <1>3, <2>2 DEF ServiceInv, RunningIsUnderWay
    <3>2. i # None
      BY AiServiceAssumption
    <3> QED
      BY <1>1, <1>3, <3>1, <3>2
  <2> QED
    BY <2>1, <2>2
<1>8. SnapshotsAreConsistent'
  BY <1>1, <1>2, <1>3 DEF ServiceInv, SnapshotsAreConsistent, Consistent, ToAiJobResponse
<1>9. StoredJobsAreExecutable'
  BY <1>1, <1>2, <1>3 DEF ServiceInv, StoredJobsAreExecutable
<1> QED
  BY <1>4, <1>5, <1>6, <1>7, <1>8, <1>9 DEF ServiceInv

\* A call that returns leaves a text or an error with its job, and one error beside a
\* text only if two calls of it overlapped.
LEMMA ReturnKeepsService ==
  ASSUME ServiceInv, NEW c \in Calls, Returns(c)
  PROVE  ServiceInv'
<1> DEFINE j == calls[c]
<1>1. PICK response \in Responses : ProviderAnswered(c, response) \/ ProviderFailed(c, response)
  BY DEF Returns
<1> DEFINE written == IF ErrorOf(response) = None
                  THEN Succeeded(jobs[j], [text |-> response.text, of |-> j])
                  ELSE Failed(jobs[j], ErrorOf(response))
<1>2. /\ j \in JobIds /\ j # None /\ j \in issued
      /\ issued' = issued /\ overlapped' = overlapped
      /\ calls' = [calls EXCEPT ![c] = None]
      /\ jobs' = IF jobs[j] = None THEN jobs ELSE [jobs EXCEPT ![j] = written]
  BY <1>1 DEF ServiceInv, TypeOK, ProviderAnswered, ProviderFailed, UpdateAiJob
<1>3. ASSUME jobs[j] # None
      PROVE  /\ written \in Job /\ written # None
             /\ written.input = jobs[j].input
             /\ \/ /\ written.status = "SUCCEEDED" /\ written.error = jobs[j].error
                   /\ written.proposed # None /\ written.proposed.of = j
                \/ /\ written.status = "FAILED" /\ written.error # None /\ written.proposed = None
  <2>1. jobs[j] \in Job
    BY <1>2, <1>3 DEF ServiceInv, TypeOK
  <2>2. CASE ErrorOf(response) = None
    <3> DEFINE suggestion == [text |-> response.text, of |-> j]
    <3>1. suggestion \in Suggestion /\ suggestion # None /\ suggestion.of = j
      BY <1>2, <2>2, ResponsesAreUnderstood, AiServiceAssumption DEF Suggestion
    <3> HIDE DEF suggestion
    <3>2. written = [jobs[j] EXCEPT !.status = "SUCCEEDED", !.proposed = suggestion]
      BY <2>2 DEF Succeeded, suggestion
    <3> HIDE DEF written
    <3>3. written \in Job
      BY <2>1, <3>1, <3>2 DEF Job, ServiceStatus
    <3> QED
      BY <2>1, <3>1, <3>2, <3>3, AiServiceAssumption DEF Job
  <2>3. CASE ErrorOf(response) # None
    <3>1. ErrorOf(response) \in ErrorCodes
      BY <2>3, ResponsesAreUnderstood
    <3>2. written = [jobs[j] EXCEPT !.status = "FAILED", !.proposed = None, !.error = ErrorOf(response)]
      BY <2>3 DEF Failed
    <3> HIDE DEF written
    <3>3. written \in Job
      BY <2>1, <3>1, <3>2 DEF Job, ServiceStatus
    <3> QED
      BY <2>1, <2>3, <3>1, <3>2, <3>3, AiServiceAssumption DEF Job
  <2> QED
    BY <2>2, <2>3
<1>4. /\ \A i \in JobIds : i # j => jobs'[i] = jobs[i]
      /\ jobs'[j] = IF jobs[j] = None THEN None ELSE written
      /\ calls'[c] = None
      /\ \A d \in Calls : d # c => calls'[d] = calls[d]
  BY <1>2 DEF ServiceInv, TypeOK
<1> HIDE DEF written, j
<1>5. TypeOK'
  BY <1>2, <1>3 DEF ServiceInv, TypeOK
<1>6. JobsAreIssued'
  BY <1>2, <1>4 DEF ServiceInv, JobsAreIssued
<1>7. CallsRunTheirJob'
  <2> SUFFICES ASSUME NEW d \in Calls, calls'[d] # None, calls'[d] \notin overlapped'
               PROVE  /\ jobs'[calls'[d]] # None => jobs'[calls'[d]].status = "RUNNING"
                      /\ \A e \in Calls : calls'[e] = calls'[d] => e = d
    BY DEF CallsRunTheirJob
  <2>1. d # c /\ calls'[d] = calls[d] /\ calls[d] \in JobIds /\ calls[d] \notin overlapped
    BY <1>2, <1>4 DEF ServiceInv, TypeOK
  <2>2. calls[d] # j
    BY <1>2, <2>1 DEF ServiceInv, CallsRunTheirJob, j
  <2>3. /\ jobs[calls[d]] # None => jobs[calls[d]].status = "RUNNING"
        /\ \A e \in Calls : calls[e] = calls[d] => e = d
    BY <1>4, <2>1 DEF ServiceInv, CallsRunTheirJob
  <2> QED
    BY <1>4, <2>1, <2>2, <2>3
<1>8. RunningIsUnderWay'
  <2> SUFFICES ASSUME NEW i \in JobIds, jobs'[i] # None, jobs'[i].status = "RUNNING"
               PROVE  \E d \in Calls : calls'[d] = i
    BY DEF RunningIsUnderWay
  <2>1. i # j
    BY <1>3, <1>4
  <2>2. PICK d \in Calls : calls[d] = i
    BY <1>4, <2>1 DEF ServiceInv, RunningIsUnderWay
  <2> QED
    BY <1>4, <2>1, <2>2 DEF j
<1>9. SnapshotsAreConsistent'
  <2>1. ASSUME jobs[j] # None, j \notin overlapped
        PROVE  jobs[j].error = None
    <3>1. jobs[j].status = "RUNNING"
      BY <1>2, <2>1 DEF ServiceInv, CallsRunTheirJob, j
    <3> QED
      BY <1>2, <2>1, <3>1 DEF ServiceInv, SnapshotsAreConsistent, Consistent, ToAiJobResponse
  <2> SUFFICES ASSUME NEW i \in JobIds, jobs'[i] # None
               PROVE  /\ i \notin overlapped' => Consistent(ToAiJobResponse(jobs'[i]))
                      /\ jobs'[i].status = "FAILED" => jobs'[i].proposed = None
                      /\ jobs'[i].proposed # None => jobs'[i].proposed.of = i
    BY DEF SnapshotsAreConsistent, Consistent, ToAiJobResponse
  <2>2. CASE i # j
    BY <1>2, <1>4, <2>2 DEF ServiceInv, SnapshotsAreConsistent
  <2>3. CASE i = j
    <3>1. jobs'[i] = written /\ jobs[j] # None
      BY <1>4, <2>3
    <3>2. i \notin overlapped' => Consistent(ToAiJobResponse(written))
      BY <1>2, <1>3, <2>1, <2>3, <3>1 DEF Consistent, ToAiJobResponse
    <3> QED
      BY <1>3, <2>3, <3>1, <3>2
  <2> QED
    BY <2>2, <2>3
<1>10. StoredJobsAreExecutable'
  BY <1>2, <1>3, <1>4 DEF ServiceInv, StoredJobsAreExecutable
<1> QED
  BY <1>5, <1>6, <1>7, <1>8, <1>9, <1>10 DEF ServiceInv

LEMMA ResetKeepsService ==
  ASSUME ServiceInv, ResetAiJobsStore
  PROVE  ServiceInv'
<1>1. /\ jobs' = [i \in JobIds |-> None]
      /\ issued' = issued /\ calls' = calls /\ overlapped' = overlapped
  BY DEF ResetAiJobsStore
<1>2. TypeOK'
  BY <1>1 DEF ServiceInv, TypeOK
<1>3. JobsAreIssued' /\ RunningIsUnderWay' /\ SnapshotsAreConsistent' /\ StoredJobsAreExecutable'
  BY <1>1 DEF JobsAreIssued, RunningIsUnderWay, SnapshotsAreConsistent, StoredJobsAreExecutable
<1>4. CallsRunTheirJob'
  BY <1>1 DEF ServiceInv, TypeOK, CallsRunTheirJob
<1> QED
  BY <1>2, <1>3, <1>4 DEF ServiceInv

\* The invariant of the AI service (ai-service/): it holds for any number of jobs, of
\* calls of runAiJob and of resets.
THEOREM ServiceInvariance == Spec => []ServiceInv
<1>1. ASSUME ServiceInv, [Next]_vars PROVE ServiceInv'
  <2>1. CASE UNCHANGED vars
    BY <1>1, <2>1 DEF vars, ServiceInv, TypeOK, JobsAreIssued, CallsRunTheirJob, RunningIsUnderWay,
      SnapshotsAreConsistent, StoredJobsAreExecutable
  <2>2. CASE Next
    BY <1>1, <2>2, CreateKeepsService, RunKeepsService, ReturnKeepsService, ResetKeepsService
      DEF Next
  <2> QED
    BY <1>1, <2>1, <2>2
<1> QED
  BY <1>1, ServiceInvInit, PTL DEF Spec

\* The type of the AI service's state.
THEOREM ServiceTypesCorrect == Spec => []TypeOK
BY ServiceInvariance, PTL DEF ServiceInv

\* What a caller is shown of a job fits together, whatever runs, answers and resets came
\* before (toAiJobResponse).
THEOREM ServiceSnapshotsAreConsistent == Spec => []SnapshotsAreConsistent
BY ServiceInvariance, PTL DEF ServiceInv

\* No job is left RUNNING without a call of runAiJob that will report.
THEOREM RunningJobsAreUnderWay == Spec => []RunningIsUnderWay
BY ServiceInvariance, PTL DEF ServiceInv

\* Every stored job has a selection with text in it, and a language if it is to be
\* translated (validateCreateInput).
THEOREM OnlyExecutableJobsAreStored == Spec => []StoredJobsAreExecutable
BY ServiceInvariance, PTL DEF ServiceInv
===============================================================================
