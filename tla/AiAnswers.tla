------------------------------ MODULE AiAnswers ------------------------------
(***************************************************************************)
(* What either backend promises of the AI answers it streams, with models, *)
(* clients, quotas and threads left out: an answer has a row from its      *)
(* start; it is written once, whole, and only by the stream that made it,  *)
(* as its last act.  Users label the row when they like, but cannot bring  *)
(* a stream back, nor make one of theirs.                                  *)
(***************************************************************************)
CONSTANTS
  Answers,
  Labels,    \* what users make of an answer
  Nothing,   \* the text of a row that has none
  Whole      \* the text of an answer that was sent to its end

VARIABLES
  streams,   \* the answers that are being streamed
  rows       \* an answer that was begun -> its status and its text

answersVars == <<streams, rows>>

Began == DOMAIN rows

Row(a, status, text) == rows' = [rows EXCEPT ![a] = [status |-> status, text |-> text]]

AnswersInit == streams = {} /\ rows = [a \in {} |-> Nothing]

Start(a) ==
  /\ a \notin Began
  /\ streams' = streams \cup {a}
  /\ rows' = [b \in Began \cup {a} |->
       IF b = a THEN [status |-> "streaming", text |-> Nothing] ELSE rows[b]]

\* A stream ends: with its answer stored, with a failure, or without another word.
Ends(a) == a \in streams /\ streams' = streams \ {a}

Completes(a) == Ends(a) /\ Row(a, "completed", Whole)
Fails(a) == Ends(a) /\ Row(a, "failed", rows[a].text)
IsGivenUp(a) ==
  Ends(a) /\ \E status \in {"cancelled", rows[a].status} : Row(a, status, rows[a].text)

Label(a, label) == a \in Began /\ Row(a, label, rows[a].text) /\ UNCHANGED streams

\* The process stops.
AllEnd == streams' = {} /\ UNCHANGED rows

AnswersNext ==
  \/ \E a \in Answers : Start(a) \/ Completes(a) \/ Fails(a) \/ IsGivenUp(a)
  \/ \E a \in Answers, label \in Labels : Label(a, label)
  \/ AllEnd

AnswersSpec == AnswersInit /\ [][AnswersNext]_answersVars

\* A row is never lost; once its stream has ended its text is final, and nothing
\* starts it, completes it or fails it again.
RowsAreFinal ==
  [][\A a \in Began \ streams :
       /\ a \in Began' \ streams'
       /\ rows'[a].text = rows[a].text
       /\ rows'[a].status \in Labels \cup {rows[a].status}]_answersVars
==============================================================================
