-------------------------- MODULE AuthSessionsProofs --------------------------
(***************************************************************************)
(* The limiter for every limit, window and lock wait, and the sessions of  *)
(* one account for any number of tabs, sessions, resets and requests.      *)
(* Then the pages of one tab, for any number of links and documents.       *)
(***************************************************************************)
EXTENDS AuthSessions, Pages, FiniteSetTheorems, SequenceTheorems, TLAPS

------------------------------------------------------------------------------
(* The limiter *)

(* A row is committed at most MaxLag seconds after it was stamped, and the row of   *)
(* an attempt that was let through is only deleted when it has expired.             *)
RowsAreStamped ==
  \A r \in rows \cup admitted :
    r.at <= r.committed /\ r.committed <= r.at + MaxLag /\ r.committed <= clock

AdmittedStayUntilExpired == \A r \in admitted : r \in rows \/ r.at + Window <= clock

LimiterInv ==
  /\ LimiterTypeOK
  /\ RowsAreStamped
  /\ AdmittedStayUntilExpired
  /\ WindowAdmitsAtMostLimit

LEMMA LimiterInvInit == LimiterInit => LimiterInv
<1> SUFFICES ASSUME LimiterInit PROVE LimiterInv
    OBVIOUS
<1>1. LimiterTypeOK
  BY FS_EmptySet DEF LimiterInit, LimiterTypeOK
<1>2. RowsAreStamped /\ AdmittedStayUntilExpired
  BY DEF LimiterInit, RowsAreStamped, AdmittedStayUntilExpired
<1>3. WindowAdmitsAtMostLimit
  <2>1. \A first \in 0 .. clock : AdmittedBetween(first, first + Window - MaxLag) = {}
    BY DEF LimiterInit, AdmittedBetween
  <2> QED
    BY <2>1, FS_EmptySet, LimiterAssumption DEF WindowAdmitsAtMostLimit
<1> QED
  BY <1>1, <1>2, <1>3 DEF LimiterInv

\* The row an attempt leaves, and the rows it keeps.
LEMMA EnforceTypes ==
  ASSUME LimiterTypeOK, NEW now \in Times
  PROVE  /\ RowAt(now) \in Row /\ now \in Nat
         /\ Unexpired(now) \subseteq rows
         /\ IsFiniteSet(Unexpired(now) \cup {RowAt(now)})
<1>1. now \in Nat /\ RowAt(now) \in Row
  BY DEF LimiterTypeOK, Times, RowAt, Row
<1>2. Unexpired(now) \subseteq rows
  BY DEF Unexpired
<1>3. IsFiniteSet(Unexpired(now))
  BY <1>2, FS_Subset DEF LimiterTypeOK
<1>4. IsFiniteSet(Unexpired(now) \cup {RowAt(now)})
  BY <1>3, FS_AddElement
<1> QED
  BY <1>1, <1>2, <1>4

\* An attempt that is let through was counted with every other one of its window.
LEMMA WindowIsCounted ==
  ASSUME LimiterInv, NEW now \in Times, NEW first \in 0 .. clock,
         clock < first + Window - MaxLag
  PROVE  {r \in admitted : first <= r.committed} \subseteq Unexpired(now)
<1> SUFFICES ASSUME NEW r \in admitted, first <= r.committed
             PROVE  r \in Unexpired(now)
    OBVIOUS
<1>1. r.at \in Nat /\ r.committed \in Nat /\ clock \in Nat /\ now \in Nat
  BY DEF LimiterInv, LimiterTypeOK, Row, Times
<1>2. r.committed <= r.at + MaxLag
  BY DEF LimiterInv, RowsAreStamped
<1>3. clock < r.at + Window /\ now <= clock
  BY <1>1, <1>2, LimiterAssumption DEF Times
<1>4. r \in rows
  BY <1>1, <1>3, LimiterAssumption DEF LimiterInv, AdmittedStayUntilExpired
<1> QED
  BY <1>1, <1>3, <1>4, LimiterAssumption DEF Unexpired

LEMMA EnforceKeepsLimiterInv ==
  ASSUME LimiterInv, NEW now \in Times, EnforceRateLimit(now)
  PROVE  LimiterInv'
<1> DEFINE new == RowAt(now)
<1>0. /\ new \in Row /\ now \in Nat /\ Unexpired(now) \subseteq rows
      /\ IsFiniteSet(Unexpired(now) \cup {new})
  BY EnforceTypes DEF LimiterInv
<1>1. /\ rows' = Unexpired(now) \cup {new} /\ clock' = clock /\ attempts' = attempts + 1
      /\ admitted' = IF LetsThrough(now) THEN admitted \cup {new} ELSE admitted
  BY DEF EnforceRateLimit
<1>2. admitted' \in {admitted, admitted \cup {new}}
  BY <1>1
<1>3. LimiterTypeOK'
  <2>1. clock' \in Nat /\ attempts' \in Nat
    BY <1>1 DEF LimiterInv, LimiterTypeOK
  <2>2. rows' \subseteq Row /\ IsFiniteSet(rows')
    BY <1>0, <1>1 DEF LimiterInv, LimiterTypeOK
  <2>3. admitted' \subseteq Row /\ IsFiniteSet(admitted')
    BY <1>0, <1>2, FS_AddElement DEF LimiterInv, LimiterTypeOK
  <2> QED
    BY <2>1, <2>2, <2>3 DEF LimiterTypeOK
<1>4. new.at <= new.committed /\ new.committed <= new.at + MaxLag /\ new.committed = clock
  BY DEF RowAt, Times
<1>5. RowsAreStamped'
  BY <1>0, <1>1, <1>2, <1>4 DEF LimiterInv, LimiterTypeOK, RowsAreStamped
<1>6. AdmittedStayUntilExpired'
  <2> SUFFICES ASSUME NEW r \in admitted', r \notin rows'
               PROVE  r.at + Window <= clock'
      BY DEF AdmittedStayUntilExpired
  <2>1. r \in admitted /\ r.at \in Nat /\ clock \in Nat
    BY <1>1, <1>2 DEF LimiterInv, LimiterTypeOK, Row
  <2>2. CASE r \notin rows
    BY <1>1, <2>1, <2>2 DEF LimiterInv, AdmittedStayUntilExpired
  <2>3. CASE r \in rows
    <3>1. ~(r.at + Window > now)
      BY <1>1, <2>3 DEF Unexpired
    <3> QED
      BY <1>0, <1>1, <2>1, <3>1, LimiterAssumption DEF Times
  <2> QED
    BY <2>2, <2>3
<1>7. WindowAdmitsAtMostLimit'
  <2> SUFFICES ASSUME NEW first \in 0 .. clock
               PROVE  Cardinality(AdmittedBetween(first, first + Window - MaxLag)') <= Limit
      BY <1>1 DEF WindowAdmitsAtMostLimit, AdmittedBetween
  <2> DEFINE end == first + Window - MaxLag
             then == AdmittedBetween(first, end)
  <2>1. Cardinality(then) <= Limit
    BY DEF LimiterInv, WindowAdmitsAtMostLimit
  <2>2. CASE admitted' = admitted
    BY <2>1, <2>2 DEF AdmittedBetween
  <2>3. CASE end <= clock
    <3>1. end \in Int /\ clock \in Nat
      BY LimiterAssumption DEF LimiterInv, LimiterTypeOK
    <3>2. ~(new.committed < end)
      BY <1>4, <2>3, <3>1
    <3>3. AdmittedBetween(first, end)' = then
      BY <1>2, <3>2 DEF AdmittedBetween
    <3> QED
      BY <2>1, <3>3
  <2>4. CASE LetsThrough(now) /\ clock < end
    <3>1. {r \in admitted : first <= r.committed} \subseteq Unexpired(now)
      BY <2>4, WindowIsCounted
    <3>2. AdmittedBetween(first, end)' \subseteq Unexpired(now) \cup {new}
      BY <1>2, <3>1 DEF AdmittedBetween
    <3>3. Cardinality(AdmittedBetween(first, end)') <= Cardinality(Unexpired(now) \cup {new})
      BY <1>0, <3>2, FS_Subset
    <3>4. /\ Cardinality(AdmittedBetween(first, end)') \in Nat
          /\ Cardinality(Unexpired(now) \cup {new}) \in Nat
      BY <1>0, <3>2, FS_Subset, FS_CardinalityType
    <3> QED
      BY <2>4, <3>3, <3>4, LimiterAssumption DEF LetsThrough
  <2>5. end \in Int /\ clock \in Nat
    BY LimiterAssumption DEF LimiterInv, LimiterTypeOK
  <2> QED
    BY <1>1, <2>2, <2>3, <2>4, <2>5
<1> QED
  BY <1>3, <1>5, <1>6, <1>7 DEF LimiterInv

LEMMA TickKeepsLimiterInv ==
  ASSUME LimiterInv, Tick
  PROVE  LimiterInv'
<1>1. clock \in Nat /\ clock' = clock + 1 /\ rows' = rows /\ admitted' = admitted
  BY DEF Tick, LimiterInv, LimiterTypeOK
<1>2. LimiterTypeOK'
  BY <1>1 DEF Tick, LimiterInv, LimiterTypeOK
<1>3. RowsAreStamped'
  BY <1>1 DEF LimiterInv, LimiterTypeOK, RowsAreStamped, Row
<1>4. AdmittedStayUntilExpired'
  BY <1>1, LimiterAssumption DEF LimiterInv, LimiterTypeOK, AdmittedStayUntilExpired, Row
<1>5. WindowAdmitsAtMostLimit'
  <2> SUFFICES ASSUME NEW first \in 0 .. clock + 1
               PROVE  Cardinality(AdmittedBetween(first, first + Window - MaxLag)) <= Limit
      BY <1>1 DEF WindowAdmitsAtMostLimit, AdmittedBetween
  <2>1. CASE first \in 0 .. clock
    BY <2>1 DEF LimiterInv, WindowAdmitsAtMostLimit
  <2>2. CASE first = clock + 1
    <3>1. \A r \in admitted : r.committed \in Nat /\ r.committed <= clock
      BY DEF LimiterInv, LimiterTypeOK, RowsAreStamped, Row
    <3>2. AdmittedBetween(first, first + Window - MaxLag) = {}
      BY <1>1, <2>2, <3>1 DEF AdmittedBetween
    <3> QED
      BY <3>2, FS_EmptySet, LimiterAssumption
  <2> QED
    BY <1>1, <2>1, <2>2
<1> QED
  BY <1>2, <1>3, <1>4, <1>5 DEF LimiterInv

LEMMA LimiterUnchanged ==
  ASSUME LimiterInv, UNCHANGED limiterVars
  PROVE  LimiterInv'
  BY DEF limiterVars, LimiterInv, LimiterTypeOK, RowsAreStamped, AdmittedStayUntilExpired,
         WindowAdmitsAtMostLimit, AdmittedBetween

LEMMA LimiterStep == LimiterInv /\ [LimiterNext]_limiterVars => LimiterInv'
  BY EnforceKeepsLimiterInv, TickKeepsLimiterInv, LimiterUnchanged DEF LimiterNext

(* For every limit, window and wait for the write lock, any Window - MaxLag         *)
(* consecutive seconds let at most Limit attempts through (enforce_rate_limit).     *)
THEOREM LimiterIsSafe == LimiterSpec => []WindowAdmitsAtMostLimit
<1>1. LimiterInv => WindowAdmitsAtMostLimit
  BY DEF LimiterInv
<1> QED
  BY <1>1, LimiterInvInit, LimiterStep, PTL DEF LimiterSpec

------------------------------------------------------------------------------
(* The invariant of the sessions *)

(* The chain a session belongs to began with it or with an earlier one: a sign-in   *)
(* starts a chain no live session is in.                                            *)
RootsAreEarlier == \A n \in DOMAIN sessions : sessions[n].root <= n

\* A renewal by the timer presents a session.
RenewalsPresentOne == \A c \in calls : c.op = "refresh" => c.sid # 0

AuthInv ==
  /\ LimiterInv
  /\ AuthTypeOK
  /\ RootsAreEarlier
  /\ OneLiveSessionPerSignIn
  /\ ResetCutsEarlierSignIns
  /\ RenewalsPresentOne

\* What the tables of sessions must satisfy, apart from how requests stand.
SessionsInv == RootsAreEarlier /\ OneLiveSessionPerSignIn /\ ResetCutsEarlierSignIns

------------------------------------------------------------------------------
(* Initial states *)

LEMMA AuthInvInit == AuthInit => AuthInv
<1> SUFFICES ASSUME AuthInit PROVE AuthInv
    OBVIOUS
<1>1. LimiterInv
  BY LimiterInvInit DEF AuthInit
<1>2. AuthTypeOK
  <2>1. sessions \in Seq(Session) /\ Len(sessions) <= MaxSessions
    BY AuthAssumption DEF AuthInit
  <2>2. 0 \in Optional /\ Closed \in Tab
    BY AuthAssumption DEF Optional, Tab, Closed
  <2>3. /\ tab \in [Tabs -> Tab] /\ stored \in Optional
        /\ \A t \in Tabs : tab[t].session = 0 /\ ~tab[t].timer /\ tab[t].status = "closed"
    BY <2>2 DEF AuthInit, Closed
  <2>4. resets \in 0 .. MaxResets
    BY AuthAssumption DEF AuthInit
  <2>5. revoked \subseteq SessionIds /\ calls \subseteq Call
    BY DEF AuthInit
  <2>6. registered \in BOOLEAN /\ resetToken \in BOOLEAN
    BY Zenon DEF AuthInit
  <2> QED
    BY <1>1, <2>1, <2>3, <2>4, <2>5, <2>6 DEF AuthTypeOK, LimiterInv
<1>3. SessionsInv
  BY DEF AuthInit, SessionsInv, RootsAreEarlier, OneLiveSessionPerSignIn,
         ResetCutsEarlierSignIns, Active
<1>4. RenewalsPresentOne
  BY DEF AuthInit, RenewalsPresentOne
<1> QED
  BY <1>1, <1>2, <1>3, <1>4 DEF AuthInv, SessionsInv

------------------------------------------------------------------------------
(* What happens to the table of sessions *)

\* The answer of a request is one the type allows.
LEMMA AnsweredTypes ==
  ASSUME AuthTypeOK, RenewalsPresentOne, NEW c \in calls, NEW n \in Optional,
         calls' = Answered(c, n)
  PROVE  calls' \subseteq Call /\ RenewalsPresentOne'
<1>1. \A x \in calls' : x \in calls \/ x = [c EXCEPT !.stage = "answered", !.answer = n]
  BY DEF Answered
<1>2. [c EXCEPT !.stage = "answered", !.answer = n] \in Call
  BY DEF AuthTypeOK, Call
<1>3. /\ [c EXCEPT !.stage = "answered", !.answer = n].op = c.op
      /\ [c EXCEPT !.stage = "answered", !.answer = n].sid = c.sid
  BY DEF AuthTypeOK, Call
<1> QED
  BY <1>1, <1>2, <1>3 DEF AuthTypeOK, RenewalsPresentOne

\* A sign-in begins a chain of its own.
LEMMA IssueKeepsSessions ==
  ASSUME AuthTypeOK, SessionsInv, NEW epoch \in 0 .. MaxResets, IssueSession(epoch),
         resets' = resets
  PROVE  /\ SessionsInv' /\ NextId \in Optional
         /\ sessions' \in Seq(Session) /\ Len(sessions') <= MaxSessions
<1> DEFINE new == [root |-> NextId, live |-> TRUE, epoch |-> epoch, late |-> epoch # resets]
<1>1. /\ Len(sessions) \in Nat /\ Len(sessions) < MaxSessions
      /\ sessions' = Append(sessions, new) /\ sessions \in Seq(Session)
  BY DEF IssueSession, AuthTypeOK
<1>2. NextId \in SessionIds /\ NextId \in Optional
  BY <1>1, AuthAssumption DEF NextId, SessionIds, Optional
<1>3. new \in Session
  BY <1>2 DEF Session
<1>4. /\ sessions' \in Seq(Session) /\ Len(sessions') = NextId
      /\ sessions'[NextId] = new
      /\ \A n \in 1 .. Len(sessions) : sessions'[n] = sessions[n]
      /\ DOMAIN sessions' = 1 .. NextId /\ DOMAIN sessions = 1 .. Len(sessions)
  BY <1>1, <1>3 DEF NextId
<1>5. \A n \in 1 .. Len(sessions) : sessions[n].root \in Nat /\ sessions[n].root <= Len(sessions)
  <2> TAKE n \in 1 .. Len(sessions)
  <2>1. sessions[n].root <= n /\ sessions[n] \in Session
    BY <1>1, <1>4 DEF SessionsInv, RootsAreEarlier
  <2>2. sessions[n].root \in Nat
    BY <2>1, AuthAssumption DEF Session, SessionIds
  <2> QED
    BY <1>1, <2>1, <2>2
<1>6. RootsAreEarlier'
  BY <1>1, <1>4 DEF SessionsInv, RootsAreEarlier, NextId
<1>7. OneLiveSessionPerSignIn'
  BY <1>1, <1>4, <1>5 DEF SessionsInv, OneLiveSessionPerSignIn, Active, NextId
<1>8. ResetCutsEarlierSignIns'
  <2>1. new.epoch = resets \/ new.late
    OBVIOUS
  <2> QED
    BY <1>1, <1>4, <2>1 DEF SessionsInv, ResetCutsEarlierSignIns, Active, NextId
<1> QED
  BY <1>1, <1>2, <1>4, <1>6, <1>7, <1>8 DEF SessionsInv, SessionIds

\* A renewal ends one session of the chain and begins the next.
LEMMA RotateKeepsSessions ==
  ASSUME AuthTypeOK, SessionsInv, NEW c \in calls, Active(c.sid),
         Len(sessions) < MaxSessions, sessions' = Rotated(c), resets' = resets
  PROVE  /\ SessionsInv' /\ NextId \in Optional
         /\ sessions' \in Seq(Session) /\ Len(sessions') <= MaxSessions
<1> DEFINE cut == [sessions EXCEPT ![c.sid].live = FALSE]
<1>1. sessions \in Seq(Session) /\ Len(sessions) \in Nat /\ DOMAIN sessions = 1 .. Len(sessions)
  BY DEF AuthTypeOK
<1>2. c.sid \in 1 .. Len(sessions) /\ sessions[c.sid] \in Session /\ sessions[c.sid].live
  BY <1>1 DEF Active
<1>3. [sessions[c.sid] EXCEPT !.live = FALSE] \in Session
  BY <1>2 DEF Session
<1>4. /\ cut \in Seq(Session) /\ Len(cut) = Len(sessions)
      /\ cut[c.sid] = [sessions[c.sid] EXCEPT !.live = FALSE]
      /\ \A n \in 1 .. Len(sessions) : n # c.sid => cut[n] = sessions[n]
  <2> DEFINE row == [sessions[c.sid] EXCEPT !.live = FALSE]
  <2>1. cut = [sessions EXCEPT ![c.sid] = row]
    OBVIOUS
  <2> HIDE DEF row, cut
  <2>2. row \in Session
    BY <1>3 DEF row
  <2> QED
    <3>1. /\ cut \in Seq(Session) /\ Len(cut) = Len(sessions) /\ cut[c.sid] = row
          /\ \A n \in 1 .. Len(sessions) : n # c.sid => cut[n] = sessions[n]
      BY <1>1, <1>2, <2>1, <2>2, ExceptSeq
    <3> QED
      BY <3>1 DEF row
<1>5. sessions' = Append(cut, sessions[c.sid])
  BY DEF Rotated
<1> HIDE DEF cut
<1>6. /\ sessions' \in Seq(Session) /\ Len(sessions') = NextId
      /\ sessions'[NextId] = sessions[c.sid]
      /\ \A n \in 1 .. Len(sessions) : sessions'[n] = cut[n]
      /\ DOMAIN sessions' = 1 .. NextId
  BY <1>1, <1>2, <1>4, <1>5 DEF NextId
<1>7. ~sessions'[c.sid].live /\ sessions'[c.sid].root = sessions[c.sid].root
  BY <1>2, <1>4, <1>6 DEF Session
<1>8. RootsAreEarlier'
  <2>1. sessions[c.sid].root \in Nat /\ sessions[c.sid].root <= c.sid
    BY <1>1, <1>2 DEF SessionsInv, RootsAreEarlier, Session, SessionIds
  <2> QED
    BY <1>1, <1>2, <1>4, <1>6, <1>7, <2>1 DEF SessionsInv, RootsAreEarlier, NextId
<1>9. OneLiveSessionPerSignIn'
  <2>1. \A n \in 1 .. Len(sessions) : cut[n].root = sessions[n].root
                                     /\ (cut[n].live => sessions[n].live /\ n # c.sid)
    <3>1. ~cut[c.sid].live /\ cut[c.sid].root = sessions[c.sid].root
      BY <1>2, <1>4 DEF Session
    <3> QED
      BY <1>4, <3>1, Zenon
  <2>2. \A m \in 1 .. Len(sessions) : cut[m].live => cut[m].root # sessions[c.sid].root
    BY <1>1, <1>2, <2>1 DEF SessionsInv, OneLiveSessionPerSignIn, Active
  <2>3. \A m, n \in 1 .. Len(sessions) :
          cut[m].live /\ cut[n].live /\ cut[m].root = cut[n].root => m = n
    BY <1>1, <2>1 DEF SessionsInv, OneLiveSessionPerSignIn, Active
  <2>4. SUFFICES ASSUME NEW m \in 1 .. NextId, NEW n \in 1 .. NextId,
                        sessions'[m].live, sessions'[n].live,
                        sessions'[m].root = sessions'[n].root
                 PROVE  m = n
    BY <1>6 DEF OneLiveSessionPerSignIn, Active
  <2>5. \A i \in 1 .. NextId : i = NextId \/ i \in 1 .. Len(sessions)
    BY <1>1 DEF NextId
  <2>6. CASE m \in 1 .. Len(sessions) /\ n \in 1 .. Len(sessions)
    BY <1>6, <2>3, <2>4, <2>6, Zenon
  <2>7. CASE m \in 1 .. Len(sessions) /\ n = NextId
    BY <1>6, <2>2, <2>4, <2>7, Zenon
  <2>8. CASE m = NextId /\ n \in 1 .. Len(sessions)
    BY <1>6, <2>2, <2>4, <2>8, Zenon
  <2> QED
    BY <2>5, <2>6, <2>7, <2>8, Zenon
<1>10. ResetCutsEarlierSignIns'
  BY <1>1, <1>2, <1>4, <1>6, <1>7 DEF SessionsInv, ResetCutsEarlierSignIns, Active, NextId
<1>11. NextId \in Optional /\ Len(sessions') <= MaxSessions
  BY <1>1, <1>6, AuthAssumption DEF NextId, Optional
<1> QED
  BY <1>6, <1>8, <1>9, <1>10, <1>11 DEF SessionsInv

\* Sessions end and nothing else happens to them: signing out, expiry and a reset.
LEMMA EndingKeepsSessions ==
  ASSUME AuthTypeOK, SessionsInv,
         sessions' \in Seq(Session), Len(sessions') = Len(sessions),
         \A n \in DOMAIN sessions :
           sessions'[n] \in {sessions[n], [sessions[n] EXCEPT !.live = FALSE]},
         resets' = resets \/ \A n \in DOMAIN sessions : ~sessions'[n].live
  PROVE  SessionsInv'
<1>1. /\ DOMAIN sessions = 1 .. Len(sessions) /\ DOMAIN sessions' = DOMAIN sessions
      /\ \A n \in DOMAIN sessions : sessions[n] \in Session
  BY DEF AuthTypeOK
<1>2. \A n \in DOMAIN sessions :
        /\ sessions'[n].root = sessions[n].root /\ sessions'[n].epoch = sessions[n].epoch
        /\ sessions'[n].late = sessions[n].late
        /\ sessions'[n].live => sessions[n].live
  BY <1>1 DEF Session
<1> QED
  BY <1>1, <1>2 DEF SessionsInv, RootsAreEarlier, OneLiveSessionPerSignIn,
                    ResetCutsEarlierSignIns, Active

LEMMA EndOneKeepsSessions ==
  ASSUME AuthTypeOK, SessionsInv, NEW n \in DOMAIN sessions,
         sessions' = [sessions EXCEPT ![n].live = FALSE], resets' = resets
  PROVE  SessionsInv' /\ sessions' \in Seq(Session) /\ Len(sessions') <= MaxSessions
<1>1. sessions \in Seq(Session) /\ n \in 1 .. Len(sessions) /\ sessions[n] \in Session
  BY DEF AuthTypeOK
<1>2. [sessions[n] EXCEPT !.live = FALSE] \in Session
  BY <1>1 DEF Session
<1>3. sessions' \in Seq(Session) /\ Len(sessions') = Len(sessions)
  BY <1>1, <1>2
<1>4. \A m \in DOMAIN sessions :
        sessions'[m] \in {sessions[m], [sessions[m] EXCEPT !.live = FALSE]}
  BY <1>1
<1> QED
  BY <1>3, <1>4, EndingKeepsSessions DEF AuthTypeOK

------------------------------------------------------------------------------
(* Steps *)

\* A step that leaves the limiter alone.
LEMMA LimiterKept ==
  ASSUME LimiterInv, UNCHANGED limiterVars
  PROVE  LimiterInv' /\ LimiterTypeOK'
  BY LimiterUnchanged DEF LimiterInv

\* What the handlers may do to the rest of the state.
LEMMA HandlerKeepsAuthInv ==
  ASSUME AuthInv, NEW c \in calls, Handler(c)
  PROVE  AuthInv'
<1>0. AuthTypeOK /\ LimiterInv /\ SessionsInv /\ RenewalsPresentOne /\ 0 \in Optional
  BY AuthAssumption DEF AuthInv, SessionsInv, Optional
<1>1. CASE Register(c)
  <2>1. /\ UNCHANGED <<resets, resetToken, revoked, stored, tab, limiterVars>>
        /\ registered' = TRUE
    BY <1>1 DEF Register
  <2>2. LimiterInv' /\ LimiterTypeOK'
    BY <1>0, <2>1, LimiterKept
  <2>3. CASE ~registered
    <3>1. IssueSession(resets) /\ calls' = Answered(c, NextId) /\ resets \in 0 .. MaxResets
      BY <1>0, <1>1, <2>3 DEF Register, AuthTypeOK
    <3>2. /\ SessionsInv' /\ NextId \in Optional
          /\ sessions' \in Seq(Session) /\ Len(sessions') <= MaxSessions
      BY <1>0, <2>1, <3>1, IssueKeepsSessions
    <3>3. calls' \subseteq Call /\ RenewalsPresentOne'
      BY <1>0, <3>1, <3>2, AnsweredTypes
    <3> QED
      BY <1>0, <2>1, <2>2, <3>2, <3>3 DEF AuthInv, AuthTypeOK, SessionsInv
  <2>4. CASE registered
    <3>1. calls' = Answered(c, 0) /\ UNCHANGED sessions
      BY <1>1, <2>4 DEF Register
    <3>2. calls' \subseteq Call /\ RenewalsPresentOne'
      BY <1>0, <3>1, AnsweredTypes
    <3>3. SessionsInv'
      BY <1>0, <2>1, <3>1 DEF SessionsInv, RootsAreEarlier, OneLiveSessionPerSignIn,
                             ResetCutsEarlierSignIns, Active
    <3> QED
      BY <1>0, <2>1, <2>2, <3>1, <3>2, <3>3 DEF AuthInv, AuthTypeOK, SessionsInv
  <2> QED
    BY <2>3, <2>4
<1>2. CASE \E password \in 0 .. MaxResets, now \in Times : LoginVerify(c, password, now)
  <2>1. PICK password \in 0 .. MaxResets, now \in Times : LoginVerify(c, password, now)
    BY <1>2
  <2>2. EnforceRateLimit(now) /\ UNCHANGED <<serverVars, stored, tab>>
    BY <2>1 DEF LoginVerify
  <2>3. LimiterInv' /\ LimiterTypeOK'
    BY <1>0, <2>2, EnforceKeepsLimiterInv DEF LimiterInv
  <2>4. calls' \subseteq Call /\ RenewalsPresentOne'
    <3> DEFINE passed == [c EXCEPT !.stage = "verified", !.epoch = resets]
    <3>1. calls' = (calls \ {c}) \cup {passed} \/ calls' = Answered(c, 0)
      BY <2>1 DEF LoginVerify
    <3>2. passed \in Call /\ passed.op = c.op /\ passed.sid = c.sid
      BY <1>0 DEF AuthTypeOK, Call
    <3>3. CASE calls' = (calls \ {c}) \cup {passed}
      BY <1>0, <3>2, <3>3 DEF AuthTypeOK, RenewalsPresentOne
    <3>4. CASE calls' = Answered(c, 0)
      BY <1>0, <3>4, AnsweredTypes
    <3> QED
      BY <3>1, <3>3, <3>4
  <2>5. SessionsInv'
    BY <1>0, <2>2 DEF serverVars, SessionsInv, RootsAreEarlier, OneLiveSessionPerSignIn,
                     ResetCutsEarlierSignIns, Active
  <2> QED
    BY <1>0, <2>2, <2>3, <2>4, <2>5 DEF AuthInv, AuthTypeOK, SessionsInv, serverVars
<1>3. CASE LoginInsert(c)
  <2>1. /\ IssueSession(c.epoch) /\ calls' = Answered(c, NextId)
        /\ UNCHANGED <<registered, resets, resetToken, revoked, stored, tab, limiterVars>>
    BY <1>3 DEF LoginInsert
  <2>2. c.epoch \in 0 .. MaxResets
    BY <1>0 DEF AuthTypeOK, Call
  <2>3. /\ SessionsInv' /\ NextId \in Optional
        /\ sessions' \in Seq(Session) /\ Len(sessions') <= MaxSessions
    BY <1>0, <2>1, <2>2, IssueKeepsSessions
  <2>4. calls' \subseteq Call /\ RenewalsPresentOne'
    BY <1>0, <2>1, <2>3, AnsweredTypes
  <2>5. LimiterInv' /\ LimiterTypeOK'
    BY <1>0, <2>1, LimiterKept
  <2> QED
    BY <1>0, <2>1, <2>3, <2>4, <2>5 DEF AuthInv, AuthTypeOK, SessionsInv
<1>4. CASE Refresh(c)
  <2>1. UNCHANGED <<registered, resets, resetToken, revoked, stored, tab, limiterVars>>
    BY <1>4 DEF Refresh
  <2>2. LimiterInv' /\ LimiterTypeOK'
    BY <1>0, <2>1, LimiterKept
  <2>3. CASE Active(c.sid)
    <3>1. Len(sessions) < MaxSessions /\ sessions' = Rotated(c) /\ calls' = Answered(c, NextId)
      BY <1>4, <2>3 DEF Refresh
    <3>2. /\ SessionsInv' /\ NextId \in Optional
          /\ sessions' \in Seq(Session) /\ Len(sessions') <= MaxSessions
      BY <1>0, <2>1, <2>3, <3>1, RotateKeepsSessions
    <3>3. calls' \subseteq Call /\ RenewalsPresentOne'
      BY <1>0, <3>1, <3>2, AnsweredTypes
    <3> QED
      BY <1>0, <2>1, <2>2, <3>2, <3>3 DEF AuthInv, AuthTypeOK, SessionsInv
  <2>4. CASE ~Active(c.sid)
    <3>1. calls' = Answered(c, 0) /\ UNCHANGED sessions
      BY <1>4, <2>4 DEF Refresh
    <3>2. calls' \subseteq Call /\ RenewalsPresentOne'
      BY <1>0, <3>1, AnsweredTypes
    <3>3. SessionsInv'
      BY <1>0, <2>1, <3>1 DEF SessionsInv, RootsAreEarlier, OneLiveSessionPerSignIn,
                             ResetCutsEarlierSignIns, Active
    <3> QED
      BY <1>0, <2>1, <2>2, <3>1, <3>2, <3>3 DEF AuthInv, AuthTypeOK, SessionsInv
  <2> QED
    BY <2>3, <2>4
<1>5. CASE Logout(c)
  <2>1. UNCHANGED <<registered, resets, resetToken, stored, tab, limiterVars>>
    BY <1>5 DEF Logout
  <2>2. LimiterInv' /\ LimiterTypeOK'
    BY <1>0, <2>1, LimiterKept
  <2>3. calls' \subseteq Call /\ RenewalsPresentOne'
    BY <1>0, <1>5, AnsweredTypes DEF Logout
  <2>4. revoked' \subseteq SessionIds
    <3>1. CASE CurrentUser(c.access)
      <4>1. c.access \in 1 .. Len(sessions) /\ Len(sessions) <= MaxSessions
        BY <1>0, <3>1 DEF CurrentUser, Active, AuthTypeOK
      <4>2. Len(sessions) \in Nat /\ MaxSessions \in Nat
        BY <1>0, AuthAssumption DEF AuthTypeOK
      <4>3. c.access \in SessionIds
        BY <4>1, <4>2 DEF SessionIds
      <4>4. revoked' = revoked \cup ({c.access} \ {c.sid})
        BY <1>5, <3>1 DEF Logout
      <4> QED
        BY <1>0, <4>3, <4>4 DEF AuthTypeOK
    <3>2. CASE ~CurrentUser(c.access)
      BY <1>0, <1>5, <3>2 DEF Logout, AuthTypeOK
    <3> QED
      BY <3>1, <3>2
  <2>5. \/ sessions' = sessions
        \/ Active(c.sid) /\ sessions' = [sessions EXCEPT ![c.sid].live = FALSE]
    BY <1>5 DEF Logout
  <2>6. SessionsInv' /\ sessions' \in Seq(Session) /\ Len(sessions') <= MaxSessions
    <3>1. CASE sessions' = sessions
      BY <1>0, <2>1, <3>1 DEF SessionsInv, RootsAreEarlier, OneLiveSessionPerSignIn,
                             ResetCutsEarlierSignIns, Active, AuthTypeOK
    <3>2. CASE Active(c.sid) /\ sessions' = [sessions EXCEPT ![c.sid].live = FALSE]
      BY <1>0, <2>1, <3>2, EndOneKeepsSessions DEF Active
    <3> QED
      BY <2>5, <3>1, <3>2
  <2> QED
    BY <1>0, <2>1, <2>2, <2>3, <2>4, <2>6 DEF AuthInv, AuthTypeOK, SessionsInv
<1> QED
  BY <1>1, <1>2, <1>3, <1>4, <1>5 DEF Handler

\* Steps that touch the account's rows without a request of a tab.
LEMMA AccountKeepsAuthInv ==
  ASSUME AuthInv,
         \/ ForgotPassword \/ ResetPassword \/ ResetTokenExpires
         \/ \E n \in SessionIds : SessionExpires(n)
  PROVE  AuthInv'
<1>0. AuthTypeOK /\ LimiterInv /\ SessionsInv /\ RenewalsPresentOne
  BY DEF AuthInv, SessionsInv
<1>1. /\ UNCHANGED <<registered, revoked, stored, tab, calls, limiterVars>>
  BY DEF ForgotPassword, ResetPassword, ResetTokenExpires, SessionExpires, clientVars
<1>2. LimiterInv' /\ LimiterTypeOK' /\ RenewalsPresentOne'
  BY <1>0, <1>1, LimiterKept DEF RenewalsPresentOne
<1>3. resetToken' \in BOOLEAN
  BY <1>0 DEF ForgotPassword, ResetPassword, ResetTokenExpires, SessionExpires, AuthTypeOK
<1>4. CASE (ForgotPassword \/ ResetTokenExpires)
  <2>1. UNCHANGED <<resets, sessions>>
    BY <1>4 DEF ForgotPassword, ResetTokenExpires
  <2>2. SessionsInv'
    BY <1>0, <2>1 DEF SessionsInv, RootsAreEarlier, OneLiveSessionPerSignIn,
                     ResetCutsEarlierSignIns, Active
  <2> QED
    BY <1>0, <1>1, <1>2, <1>3, <2>1, <2>2 DEF AuthInv, AuthTypeOK, SessionsInv
<1>5. CASE ResetPassword
  <2>1. resets' \in 0 .. MaxResets
    BY <1>0, <1>5, AuthAssumption DEF ResetPassword, AuthTypeOK
  <2>2. sessions' = [n \in 1 .. Len(sessions) |-> [sessions[n] EXCEPT !.live = FALSE]]
    BY <1>0, <1>5 DEF ResetPassword, RevokeAll, AuthTypeOK
  <2>3. \A n \in 1 .. Len(sessions) : [sessions[n] EXCEPT !.live = FALSE] \in Session
    <3>1. \A n \in 1 .. Len(sessions) : sessions[n] \in Session
      BY <1>0 DEF AuthTypeOK
    <3> QED
      BY <3>1 DEF Session
  <2>4. sessions' \in Seq(Session) /\ Len(sessions') = Len(sessions)
    BY <1>0, <2>2, <2>3 DEF AuthTypeOK
  <2>5. \A n \in DOMAIN sessions :
          /\ sessions'[n] = [sessions[n] EXCEPT !.live = FALSE]
          /\ ~sessions'[n].live
    BY <1>0, <2>2 DEF AuthTypeOK, Session
  <2>6. SessionsInv'
    BY <1>0, <2>4, <2>5, EndingKeepsSessions
  <2> QED
    BY <1>0, <1>1, <1>2, <1>3, <2>1, <2>4, <2>6 DEF AuthInv, AuthTypeOK, SessionsInv
<1>6. CASE \E n \in SessionIds : SessionExpires(n)
  <2>1. PICK n \in SessionIds : SessionExpires(n)
    BY <1>6
  <2>2. n \in DOMAIN sessions /\ sessions' = [sessions EXCEPT ![n].live = FALSE] /\ resets' = resets
    BY <2>1 DEF SessionExpires, Active
  <2>3. SessionsInv' /\ sessions' \in Seq(Session) /\ Len(sessions') <= MaxSessions
    BY <1>0, <2>2, EndOneKeepsSessions
  <2> QED
    BY <1>0, <1>1, <1>2, <1>3, <2>2, <2>3 DEF AuthInv, AuthTypeOK, SessionsInv
<1> QED
  BY <1>4, <1>5, <1>6

------------------------------------------------------------------------------
(* Steps of the tabs *)

\* What the type says of one tab.
TabOK(state) ==
  /\ state \in Tab
  /\ state.session = 0 => ~state.timer /\ state.status # "authenticated"
  /\ state.session # 0 => state.status # "closed"

LEMMA TabsAreOK == AuthTypeOK => \A t \in Tabs : TabOK(tab[t])
  BY DEF AuthTypeOK, TabOK

\* A step of the pages keeps the invariant when it keeps their part of the type.
LEMMA ClientKeepsAuthInv ==
  ASSUME AuthInv, UNCHANGED <<serverVars, limiterVars>>,
         stored' \in Optional, tab' \in [Tabs -> Tab], \A t \in Tabs : TabOK(tab'[t]),
         calls' \subseteq Call, RenewalsPresentOne'
  PROVE  AuthInv'
<1>1. LimiterInv' /\ LimiterTypeOK'
  BY LimiterKept DEF AuthInv
<1>2. SessionsInv'
  BY DEF AuthInv, serverVars, SessionsInv, RootsAreEarlier, OneLiveSessionPerSignIn,
         ResetCutsEarlierSignIns, Active
<1>3. AuthTypeOK'
  BY <1>1 DEF AuthInv, AuthTypeOK, serverVars, TabOK
<1> QED
  BY <1>1, <1>2, <1>3 DEF AuthInv, SessionsInv

LEMMA AdoptTypes ==
  ASSUME AuthTypeOK, NEW t \in Tabs \cup {NoTab}, NEW n \in Optional, NEW status,
         status = (IF n = 0 THEN "anonymous" ELSE "authenticated"), Adopt(t, n, status)
  PROVE  stored' \in Optional /\ tab' \in [Tabs -> Tab] /\ \A u \in Tabs : TabOK(tab'[u])
<1> DEFINE new == [status |-> status, session |-> n, api |-> n, timer |-> n # 0]
<1>1. new.timer \in BOOLEAN /\ (n = 0 => ~new.timer)
  BY Zenon
<1>2. TabOK(new)
  BY <1>1 DEF TabOK, Tab
<1>3. tab' = [tab EXCEPT ![t] = new] /\ stored' = n
  BY DEF Adopt
<1> HIDE DEF new
<1> QED
  BY <1>2, <1>3, TabsAreOK DEF AuthTypeOK, TabOK

LEMMA SendTypes ==
  ASSUME AuthTypeOK, RenewalsPresentOne, NEW t \in Tabs, NEW sid \in Optional,
         NEW access \in Optional, NEW op \in {"register", "login", "restore", "refresh", "logout"},
         op = "refresh" => sid # 0, Send(t, op, sid, access)
  PROVE  calls' \subseteq Call /\ RenewalsPresentOne'
<1> DEFINE new == [tab |-> t, op |-> op, sid |-> sid, access |-> access,
                   stage |-> "sent", epoch |-> 0, answer |-> 0]
<1>1. new \in Call /\ new.op = op /\ new.sid = sid
  BY AuthAssumption DEF Call, Optional
<1>2. calls' = calls \cup {new}
  BY DEF Send
<1> HIDE DEF new
<1> QED
  BY <1>1, <1>2 DEF AuthTypeOK, RenewalsPresentOne

LEMMA TabKeepsAuthInv ==
  ASSUME AuthInv, NEW t \in Tabs,
         \/ \E due \in BOOLEAN : OpenTab(t, due)
         \/ CloseTab(t) \/ TimerFires(t) \/ SignOut(t)
         \/ \E op \in {"register", "login"} : SignIn(t, op)
  PROVE  AuthInv'
<1>0. AuthTypeOK /\ RenewalsPresentOne /\ 0 \in Optional
      /\ stored \in Optional /\ tab \in [Tabs -> Tab] /\ \A u \in Tabs : TabOK(tab[u])
  BY AuthAssumption, TabsAreOK DEF AuthInv, Optional, AuthTypeOK
<1>1. UNCHANGED <<serverVars, limiterVars>>
  BY DEF OpenTab, CloseTab, TimerFires, SignOut, SignIn
<1>2. TabOK(Closed) /\ TabOK([Closed EXCEPT !.status = "refreshing"])
  BY <1>0 DEF TabOK, Tab, Closed
<1>3. ASSUME NEW due \in BOOLEAN, OpenTab(t, due) PROVE AuthInv'
  <2>1. CASE stored # 0 /\ due
    <3>1. /\ tab' = [tab EXCEPT ![t] = [Closed EXCEPT !.status = "refreshing"]]
          /\ stored' = 0 /\ Send(t, "restore", stored, 0)
      BY <1>3, <2>1 DEF OpenTab
    <3>2. tab' \in [Tabs -> Tab] /\ \A u \in Tabs : TabOK(tab'[u])
      BY <1>0, <1>2, <3>1 DEF TabOK
    <3>3. calls' \subseteq Call /\ RenewalsPresentOne'
      BY <1>0, <3>1, SendTypes
    <3> QED
      BY <1>0, <1>1, <3>1, <3>2, <3>3, ClientKeepsAuthInv
  <2>2. CASE ~(stored # 0 /\ due)
    <3>1. /\ Adopt(t, stored, IF stored = 0 THEN "anonymous" ELSE "authenticated")
          /\ UNCHANGED calls
      BY <1>3, <2>2 DEF OpenTab
    <3>2. stored' \in Optional /\ tab' \in [Tabs -> Tab] /\ \A u \in Tabs : TabOK(tab'[u])
      BY <1>0, <3>1, AdoptTypes
    <3>3. calls' \subseteq Call /\ RenewalsPresentOne'
      BY <1>0, <3>1 DEF AuthTypeOK, RenewalsPresentOne
    <3> QED
      BY <1>1, <3>2, <3>3, ClientKeepsAuthInv
  <2> QED
    BY <2>1, <2>2
<1>4. CASE CloseTab(t)
  <2>1. /\ tab' = [tab EXCEPT ![t] = Closed] /\ stored' = stored
        /\ \A x \in calls' : x \in calls \/ \E c \in calls : x = [c EXCEPT !.tab = NoTab]
    BY <1>4 DEF CloseTab
  <2>2. tab' \in [Tabs -> Tab] /\ \A u \in Tabs : TabOK(tab'[u])
    BY <1>0, <1>2, <2>1 DEF TabOK
  <2>3. \A c \in calls :
          /\ [c EXCEPT !.tab = NoTab] \in Call
          /\ [c EXCEPT !.tab = NoTab].op = c.op /\ [c EXCEPT !.tab = NoTab].sid = c.sid
    BY <1>0 DEF AuthTypeOK, Call
  <2>4. \A x \in calls' : x \in Call /\ (x.op = "refresh" => x.sid # 0)
    <3> SUFFICES ASSUME NEW x \in calls', x \notin calls
                 PROVE  x \in Call /\ (x.op = "refresh" => x.sid # 0)
        BY <1>0 DEF AuthTypeOK, RenewalsPresentOne
    <3>1. PICK c \in calls : x = [c EXCEPT !.tab = NoTab]
      BY <2>1
    <3>2. x \in Call /\ x.op = c.op /\ x.sid = c.sid
      BY <2>3, <3>1
    <3> QED
      BY <1>0, <3>2 DEF RenewalsPresentOne
  <2>5. calls' \subseteq Call /\ RenewalsPresentOne'
    BY <2>4 DEF RenewalsPresentOne
  <2> QED
    BY <1>0, <1>1, <2>1, <2>2, <2>5, ClientKeepsAuthInv
<1>5. CASE TimerFires(t)
  <2>1. /\ tab[t].timer /\ stored' = stored /\ Send(t, "refresh", tab[t].session, 0)
        /\ tab' = [tab EXCEPT ![t].timer = FALSE, ![t].status = "refreshing"]
    BY <1>5 DEF TimerFires
  <2>2. TabOK(tab[t]) /\ tab[t].session \in Optional /\ tab[t].session # 0
    BY <1>0, <2>1 DEF TabOK, Tab
  <2>3. TabOK([tab[t] EXCEPT !.timer = FALSE, !.status = "refreshing"])
    BY <2>2 DEF TabOK, Tab
  <2>4. tab' = [tab EXCEPT ![t] = [tab[t] EXCEPT !.timer = FALSE, !.status = "refreshing"]]
    BY <1>0, <2>1, <2>2 DEF TabOK, Tab
  <2>5. tab' \in [Tabs -> Tab] /\ \A u \in Tabs : TabOK(tab'[u])
    BY <1>0, <2>3, <2>4 DEF TabOK
  <2>6. calls' \subseteq Call /\ RenewalsPresentOne'
    BY <1>0, <2>1, <2>2, SendTypes
  <2> QED
    BY <1>0, <1>1, <2>1, <2>5, <2>6, ClientKeepsAuthInv
<1>6. CASE SignOut(t)
  <2>1. /\ Send(t, "logout", tab[t].session, tab[t].api) /\ UNCHANGED <<stored, tab>>
    BY <1>6 DEF SignOut
  <2>2. tab[t].session \in Optional /\ tab[t].api \in Optional
    BY <1>0 DEF TabOK, Tab
  <2>3. calls' \subseteq Call /\ RenewalsPresentOne'
    BY <1>0, <2>1, <2>2, SendTypes
  <2> QED
    BY <1>0, <1>1, <2>1, <2>3, ClientKeepsAuthInv
<1>7. ASSUME NEW op \in {"register", "login"}, SignIn(t, op) PROVE AuthInv'
  <2>1. /\ tab[t].status = "anonymous" /\ stored' = stored /\ Send(t, op, 0, 0)
        /\ tab' = [tab EXCEPT ![t].status = "refreshing"]
    BY <1>7 DEF SignIn
  <2>2. TabOK([tab[t] EXCEPT !.status = "refreshing"])
    BY <1>0, <2>1 DEF TabOK, Tab
  <2>3. tab' \in [Tabs -> Tab] /\ \A u \in Tabs : TabOK(tab'[u])
    BY <1>0, <2>1, <2>2 DEF TabOK
  <2>4. calls' \subseteq Call /\ RenewalsPresentOne'
    BY <1>0, <2>1, SendTypes
  <2> QED
    BY <1>0, <1>1, <2>1, <2>3, <2>4, ClientKeepsAuthInv
<1> QED
  BY <1>3, <1>4, <1>5, <1>6, <1>7

LEMMA AnswerKeepsAuthInv ==
  ASSUME AuthInv, NEW c \in calls, Receive(c) \/ ReceiveLogout(c) \/ LoseCall(c)
  PROVE  AuthInv'
<1>0. /\ AuthTypeOK /\ RenewalsPresentOne /\ 0 \in Optional
      /\ stored \in Optional /\ tab \in [Tabs -> Tab] /\ \A u \in Tabs : TabOK(tab[u])
      /\ c \in Call /\ c.tab \in Tabs \cup {NoTab} /\ c.answer \in Optional
  BY AuthAssumption, TabsAreOK DEF AuthInv, Optional, AuthTypeOK, Call
<1>1. UNCHANGED <<serverVars, limiterVars>>
  BY DEF Receive, ReceiveLogout, LoseCall
<1>2. calls' \subseteq Call /\ RenewalsPresentOne'
  <2>1. CASE calls' = calls \ {c}
    BY <1>0, <2>1 DEF AuthTypeOK, RenewalsPresentOne
  <2>2. CASE LoseCall(c)
    <3> DEFINE lost == [c EXCEPT !.stage = "answered", !.answer = 0]
    <3>1. calls' = (calls \ {c}) \cup {lost}
      BY <2>2 DEF LoseCall
    <3>2. lost \in Call /\ lost.op = c.op /\ lost.sid = c.sid
      BY <1>0 DEF Call
    <3> HIDE DEF lost
    <3> QED
      BY <1>0, <3>1, <3>2 DEF AuthTypeOK, RenewalsPresentOne
  <2> QED
    BY <2>1, <2>2 DEF Receive, ReceiveLogout
<1>6. ASSUME NotSignedIn(c.tab)
      PROVE  stored' \in Optional /\ tab' \in [Tabs -> Tab] /\ \A u \in Tabs : TabOK(tab'[u])
  <2>1. \A u \in Tabs : TabOK([tab[u] EXCEPT !.status = "anonymous"])
    BY <1>0 DEF TabOK, Tab
  <2>2. \A u \in Tabs : tab'[u] = tab[u] \/ tab'[u] = [tab[u] EXCEPT !.status = "anonymous"]
    BY <1>0, <1>6 DEF NotSignedIn
  <2>3. \A u \in Tabs : TabOK(tab'[u])
    BY <1>0, <2>1, <2>2
  <2>4. tab' \in [Tabs -> Tab]
    <3>1. \A u \in Tabs : tab'[u] \in Tab
      BY <2>3 DEF TabOK
    <3> QED
      BY <1>0, <1>6, <3>1 DEF NotSignedIn
  <2> QED
    BY <1>0, <1>6, <2>3, <2>4 DEF NotSignedIn
<1>3. CASE Receive(c)
  <2>3. CASE NotSignedIn(c.tab)
    BY <1>1, <1>2, <1>6, <2>3, ClientKeepsAuthInv
  <2> DEFINE Fails == c.op \in {"login", "register"} /\ c.answer = 0
  <2>4. Fails => NotSignedIn(c.tab)
    BY <1>3 DEF Receive
  <2>1. CASE ~Fails /\ ~Cancelled(c)
    <3>1. Adopt(c.tab, c.answer, IF c.answer = 0 THEN "anonymous" ELSE "authenticated")
      BY <1>3, <2>1 DEF Receive
    <3>2. stored' \in Optional /\ tab' \in [Tabs -> Tab] /\ \A u \in Tabs : TabOK(tab'[u])
      BY <1>0, <3>1, AdoptTypes
    <3> QED
      BY <1>1, <1>2, <3>2, ClientKeepsAuthInv
  <2>2. CASE ~Fails /\ Cancelled(c)
    <3>1. stored' = stored /\ tab' \in {tab, [tab EXCEPT ![c.tab].api = c.answer]}
      BY <1>3, <2>2 DEF Receive
    <3>2. tab' \in [Tabs -> Tab] /\ \A u \in Tabs : TabOK(tab'[u])
      <4>1. \A u \in Tabs : TabOK([tab[u] EXCEPT !.api = c.answer])
        BY <1>0 DEF TabOK, Tab
      <4>2. \A u \in Tabs : tab'[u] \in {tab[u], [tab[u] EXCEPT !.api = c.answer]}
        BY <1>0, <3>1
      <4>3. \A u \in Tabs : TabOK(tab'[u])
        <5> TAKE u \in Tabs
        <5>1. TabOK(tab[u]) /\ TabOK([tab[u] EXCEPT !.api = c.answer])
          BY <1>0, <4>1
        <5> QED
          BY <4>2, <5>1, Zenon
      <4>4. tab' \in [Tabs -> Tab]
        <5>1. \A u \in Tabs : tab'[u] \in Tab
          BY <4>3 DEF TabOK
        <5> QED
          BY <1>0, <3>1, <5>1
      <4> QED
        BY <4>3, <4>4
    <3> QED
      BY <1>0, <1>1, <1>2, <3>1, <3>2, ClientKeepsAuthInv
  <2> QED
    BY <2>1, <2>2, <2>3, <2>4
<1>4. CASE ReceiveLogout(c)
  <2>1. stored' \in Optional /\ tab' \in [Tabs -> Tab] /\ \A u \in Tabs : TabOK(tab'[u])
    BY <1>0, <1>4, <1>6, AdoptTypes DEF ReceiveLogout
  <2> QED
    BY <1>1, <1>2, <2>1, ClientKeepsAuthInv
<1>5. CASE LoseCall(c)
  BY <1>0, <1>1, <1>2, <1>5, ClientKeepsAuthInv DEF LoseCall
<1> QED
  BY <1>3, <1>4, <1>5

------------------------------------------------------------------------------
(* Theorems *)

LEMMA AuthUnchanged ==
  ASSUME AuthInv, UNCHANGED authVars
  PROVE  AuthInv'
  BY ClientKeepsAuthInv, TabsAreOK
     DEF authVars, clientVars, AuthInv, AuthTypeOK, RenewalsPresentOne

LEMMA TickKeepsAuthInv ==
  ASSUME AuthInv, Tick, UNCHANGED <<serverVars, clientVars>>
  PROVE  AuthInv'
<1>1. LimiterInv' /\ LimiterTypeOK'
  BY TickKeepsLimiterInv DEF AuthInv, LimiterInv
<1>2. SessionsInv' /\ RenewalsPresentOne'
  BY DEF AuthInv, serverVars, clientVars, SessionsInv, RootsAreEarlier, Active,
         OneLiveSessionPerSignIn, ResetCutsEarlierSignIns, RenewalsPresentOne
<1>3. AuthTypeOK'
  BY <1>1 DEF AuthInv, AuthTypeOK, serverVars, clientVars
<1> QED
  BY <1>1, <1>2, <1>3 DEF AuthInv, SessionsInv

LEMMA AuthStep == AuthInv /\ [AuthNext]_authVars => AuthInv'
  BY HandlerKeepsAuthInv, AnswerKeepsAuthInv, AccountKeepsAuthInv, TabKeepsAuthInv,
     TickKeepsAuthInv, AuthUnchanged DEF AuthNext

LEMMA AuthInvariant == AuthSpec => []AuthInv
  BY AuthInvInit, AuthStep, PTL DEF AuthSpec

(* Whatever the tabs send and lose, the rows, tokens and pages keep their shape.    *)
THEOREM AuthIsTyped == AuthSpec => []AuthTypeOK
<1>1. AuthInv => AuthTypeOK
  BY DEF AuthInv
<1> QED
  BY <1>1, AuthInvariant, PTL

(* login_user is limited also when it runs between the other handlers: any          *)
(* Window - MaxLag consecutive seconds check at most Limit passwords.               *)
THEOREM LoginsAreLimited == AuthSpec => []WindowAdmitsAtMostLimit
<1>1. AuthInv => WindowAdmitsAtMostLimit
  BY DEF AuthInv, LimiterInv
<1> QED
  BY <1>1, AuthInvariant, PTL

(* For every number of tabs that present a refresh token, and however often: of the *)
(* sessions that descend from one sign-in at most one is live (auth.py:97).         *)
THEOREM RotationKeepsOneLive == AuthSpec => []OneLiveSessionPerSignIn
<1>1. AuthInv => OneLiveSessionPerSignIn
  BY DEF AuthInv
<1> QED
  BY <1>1, AuthInvariant, PTL

(* A password reset cuts off every session that descends from an earlier sign-in.   *)
THEOREM ResetCuts == AuthSpec => []ResetCutsEarlierSignIns
<1>1. AuthInv => ResetCutsEarlierSignIns
  BY DEF AuthInv
<1> QED
  BY <1>1, AuthInvariant, PTL

\* The step behind the next theorem.
LEMMA StepSignsInWhenAwaited ==
  ASSUME AuthInv, AuthNext, NEW t \in Tabs, tab[t].session = 0, tab'[t].session # 0,
         tab[t].status # "closed"
  PROVE  \E c \in calls \ calls' :
           c.tab = t /\ c.op # "refresh" /\ c.answer = tab'[t].session
<1>0. tab \in [Tabs -> Tab] /\ TabOK(tab[t])
  BY TabsAreOK DEF AuthInv, AuthTypeOK
<1>1. CASE \E c \in calls : Receive(c)
  <2>1. PICK c \in calls : Receive(c)
    BY <1>1
  <2>4. CASE NotSignedIn(c.tab)
    BY <1>0, <2>4 DEF NotSignedIn, TabOK, Tab
  <2> DEFINE Fails == c.op \in {"login", "register"} /\ c.answer = 0
  <2>5. Fails => NotSignedIn(c.tab)
    BY <2>1 DEF Receive
  <2>2. CASE ~Fails /\ ~Cancelled(c)
    <3>1. c.tab = t /\ c.answer = tab'[t].session
      BY <1>0, <2>1, <2>2 DEF Receive, Adopt
    <3>2. c.op # "refresh"
      BY <2>2, <3>1 DEF Cancelled, AuthInv, RenewalsPresentOne
    <3>3. c \in calls \ calls'
      BY <2>1 DEF Receive
    <3> QED
      BY <3>1, <3>2, <3>3
  <2>3. CASE ~Fails /\ Cancelled(c)
    <3>1. tab' = tab \/ tab' = [tab EXCEPT ![c.tab] = [tab[c.tab] EXCEPT !.api = c.answer]]
      BY <2>1, <2>3 DEF Receive
    <3>2. tab'[t] \in {tab[t], [tab[t] EXCEPT !.api = c.answer]}
      BY <1>0, <3>1
    <3> QED
      BY <1>0, <3>2 DEF TabOK, Tab
  <2> QED
    BY <2>2, <2>3, <2>4, <2>5
<1>2. CASE \E c \in calls : ReceiveLogout(c) \/ LoseCall(c) \/ Handler(c)
  <2>1. PICK c \in calls : ReceiveLogout(c) \/ LoseCall(c) \/ Handler(c)
    BY <1>2
  <2>2. tab' = tab \/ Adopt(c.tab, 0, "anonymous") \/ NotSignedIn(c.tab)
    BY <2>1 DEF ReceiveLogout, LoseCall, Handler, Register, LoginVerify, LoginInsert, Refresh, Logout
  <2> QED
    BY <1>0, <2>2 DEF Adopt, NotSignedIn, TabOK, Tab
<1>3. CASE \E u \in Tabs, due \in BOOLEAN : OpenTab(u, due)
  <2>1. PICK u \in Tabs, due \in BOOLEAN : OpenTab(u, due)
    BY <1>3
  <2>2. u # t
    BY <2>1 DEF OpenTab
  <2>3. tab'[t] = tab[t]
    BY <1>0, <2>1, <2>2 DEF OpenTab, Adopt
  <2> QED
    BY <2>3
<1>4. CASE \E u \in Tabs : CloseTab(u) \/ TimerFires(u) \/ SignOut(u)
  <2>1. PICK u \in Tabs : CloseTab(u) \/ TimerFires(u) \/ SignOut(u)
    BY <1>4
  <2>2. tab'[t] \in {tab[t], Closed, [tab[t] EXCEPT !.timer = FALSE, !.status = "refreshing"]}
    BY <1>0, <2>1 DEF CloseTab, TimerFires, SignOut, TabOK, Tab
  <2>3. Closed.session = 0
    BY DEF Closed
  <2>4. [tab[t] EXCEPT !.timer = FALSE, !.status = "refreshing"].session = tab[t].session
    BY <1>0 DEF TabOK, Tab
  <2> QED
    BY <2>2, <2>3, <2>4
<1>5. CASE \E u \in Tabs, op \in {"register", "login"} : SignIn(u, op)
  <2>1. tab'[t] \in {tab[t], [tab[t] EXCEPT !.status = "refreshing"]}
    BY <1>0, <1>5 DEF SignIn, TabOK, Tab
  <2> QED
    BY <1>0, <2>1 DEF TabOK, Tab
<1>6. CASE \/ ForgotPassword \/ ResetPassword \/ ResetTokenExpires
           \/ \E n \in SessionIds : SessionExpires(n)
           \/ Tick /\ UNCHANGED <<serverVars, clientVars>>
  BY <1>6 DEF ForgotPassword, ResetPassword, ResetTokenExpires, SessionExpires, clientVars
<1> QED
  BY <1>1, <1>2, <1>3, <1>4, <1>5, <1>6 DEF AuthNext

(* A renewal that is answered late never signs a tab in again that is signed out:   *)
(* only an answer the page waits for does (the cancelled flag, AuthContext.tsx:145).*)
THEOREM LateRenewalsSignNobodyIn == AuthSpec => OnlyAwaitedAnswersSignIn
<1>1. AuthInv /\ [AuthNext]_authVars =>
        [\A t \in Tabs :
           tab[t].session = 0 /\ tab'[t].session # 0 =>
             \/ tab[t].status = "closed"
             \/ \E c \in calls \ calls' :
                  c.tab = t /\ c.op # "refresh" /\ c.answer = tab'[t].session]_authVars
  BY StepSignsInWhenAwaited
<1> QED
  BY <1>1, AuthInvariant, PTL DEF AuthSpec, OnlyAwaitedAnswersSignIn

------------------------------------------------------------------------------
(* The table of sessions implements SignIns *)

Held(n) == [signIn |-> sessions[n].root, token |-> n]
Holds == {Held(n) : n \in {m \in DOMAIN sessions : Active(m)}}
Begun == {sessions[n].root : n \in DOMAIN sessions}

\* What a step that adds the next row does to the three sets.
LEMMA AddedRow ==
  ASSUME AuthTypeOK, SessionsInv, NEW ended \in SUBSET DOMAIN sessions, NEW row \in Session,
         Len(sessions) < MaxSessions, row.live,
         sessions' \in Seq(Session), Len(sessions') = NextId, sessions'[NextId] = row,
         \A n \in DOMAIN sessions :
           /\ sessions'[n].root = sessions[n].root
           /\ sessions'[n].live <=> sessions[n].live /\ n \notin ended
  PROVE  /\ NextId \in SessionIds \ DOMAIN sessions
         /\ DOMAIN sessions' = DOMAIN sessions \cup {NextId}
         /\ Begun' = Begun \cup {row.root}
         /\ Holds' = (Holds \ {Held(n) : n \in ended})
                       \cup {[signIn |-> row.root, token |-> NextId]}
<1>1. /\ Len(sessions) \in Nat /\ DOMAIN sessions = 1 .. Len(sessions)
      /\ DOMAIN sessions' = 1 .. NextId /\ NextId = Len(sessions) + 1
  BY DEF AuthTypeOK, NextId
<1>2. /\ NextId \in SessionIds \ DOMAIN sessions
      /\ DOMAIN sessions' = DOMAIN sessions \cup {NextId}
  BY <1>1, AuthAssumption DEF SessionIds
<1>3. Begun' = Begun \cup {row.root}
  BY <1>2 DEF Begun
<1>4. PICK next \in SessionIds : next = NextId
  BY <1>2
<1>5. /\ \A m \in DOMAIN sessions : Active(m)' <=> Active(m) /\ m \notin ended
      /\ Active(next)'
      /\ \A n \in DOMAIN sessions : Held(n)' = Held(n)
      /\ Held(next)' = [signIn |-> row.root, token |-> next]
  BY <1>2, <1>4 DEF Active, Held
<1>6. \A m, n \in DOMAIN sessions : Held(m) = Held(n) => m = n
  BY DEF Held
<1>7. ASSUME NEW x
      PROVE  x \in Holds' <=> \/ x \in Holds \ {Held(n) : n \in ended}
                              \/ x = [signIn |-> row.root, token |-> next]
  <2>1. x \in Holds' <=> \/ \E n \in DOMAIN sessions : Active(n)' /\ x = Held(n)'
                         \/ x = Held(next)'
    BY <1>2, <1>4, <1>5, Zenon DEF Holds
  <2>2. x \in Holds \ {Held(n) : n \in ended} <=>
          \E n \in DOMAIN sessions : Active(n) /\ n \notin ended /\ x = Held(n)
    BY <1>6, Zenon DEF Holds
  <2> QED
    BY <1>5, <2>1, <2>2, Zenon
<1> QED
  BY <1>2, <1>3, <1>4, <1>7

LEMMA IssueIsBegin ==
  ASSUME AuthTypeOK, SessionsInv, NEW epoch \in 0 .. MaxResets, IssueSession(epoch)
  PROVE  SignIns!SignInsNext
<1> DEFINE new == [root |-> NextId, live |-> TRUE, epoch |-> epoch, late |-> epoch # resets]
<1>1. /\ Len(sessions) \in Nat /\ Len(sessions) < MaxSessions
      /\ sessions' = Append(sessions, new) /\ sessions \in Seq(Session)
  BY DEF IssueSession, AuthTypeOK
<1>2. new \in Session /\ new.live /\ new.root = NextId
  BY <1>1, AuthAssumption DEF NextId, SessionIds, Session
<1> HIDE DEF new
<1>3. /\ sessions' \in Seq(Session) /\ Len(sessions') = NextId /\ sessions'[NextId] = new
      /\ \A n \in DOMAIN sessions : sessions'[n] = sessions[n]
  BY <1>1, <1>2 DEF NextId
<1>4. /\ NextId \in SessionIds \ DOMAIN sessions
      /\ DOMAIN sessions' = DOMAIN sessions \cup {NextId}
      /\ Begun' = Begun \cup {NextId}
      /\ Holds' = Holds \cup {[signIn |-> NextId, token |-> NextId]}
  <2>1. \A n \in DOMAIN sessions :
          /\ sessions'[n].root = sessions[n].root
          /\ sessions'[n].live <=> sessions[n].live /\ n \notin {}
    BY <1>3
  <2>2. /\ NextId \in SessionIds \ DOMAIN sessions
        /\ DOMAIN sessions' = DOMAIN sessions \cup {NextId}
        /\ Begun' = Begun \cup {new.root}
        /\ Holds' = (Holds \ {Held(n) : n \in {}}) \cup {[signIn |-> new.root, token |-> NextId]}
    <3>1. {} \in SUBSET DOMAIN sessions
      OBVIOUS
    <3> QED
      BY <1>1, <1>2, <1>3, <2>1, <3>1, AddedRow
  <2> QED
    BY <1>2, <2>2
<1>5. NextId \notin Begun
  BY <1>1 DEF Begun, SessionsInv, RootsAreEarlier, NextId
<1>6. ASSUME NEW s \in SessionIds, s = NextId PROVE SignIns!Begin(s, s)
  BY <1>4, <1>5, <1>6 DEF SignIns!Begin, SignIns!Hold, Begun, Holds, Held
<1> QED
  BY <1>4, <1>6 DEF SignIns!SignInsNext

LEMMA RotateIsRenew ==
  ASSUME AuthTypeOK, SessionsInv, NEW c \in calls, Active(c.sid),
         Len(sessions) < MaxSessions, sessions' = Rotated(c)
  PROVE  SignIns!SignInsNext
<1> DEFINE sid == c.sid
           row == [sessions[sid] EXCEPT !.live = FALSE]
           cut == [sessions EXCEPT ![sid] = row]
<1>1. /\ sessions \in Seq(Session) /\ Len(sessions) \in Nat
      /\ DOMAIN sessions = 1 .. Len(sessions)
  BY DEF AuthTypeOK
<1>2. sid \in 1 .. Len(sessions) /\ sessions[sid] \in Session /\ sessions[sid].live
  BY <1>1 DEF Active
<1>3. row \in Session /\ ~row.live /\ row.root = sessions[sid].root
  BY <1>2 DEF Session
<1>4. sessions' = Append(cut, sessions[sid])
  BY DEF Rotated
<1> HIDE DEF row
<1>5. /\ cut \in Seq(Session) /\ Len(cut) = Len(sessions) /\ cut[sid] = row
      /\ \A n \in 1 .. Len(sessions) : n # sid => cut[n] = sessions[n]
  BY <1>1, <1>2, <1>3, ExceptSeq
<1> HIDE DEF cut
<1>6. /\ sessions' \in Seq(Session) /\ Len(sessions') = NextId
      /\ sessions'[NextId] = sessions[sid]
      /\ \A n \in 1 .. Len(sessions) : sessions'[n] = cut[n]
  BY <1>1, <1>2, <1>4, <1>5 DEF NextId
<1>7. \A n \in DOMAIN sessions :
        /\ sessions'[n].root = sessions[n].root
        /\ sessions'[n].live <=> sessions[n].live /\ n \notin {sid}
  <2>1. \A n \in DOMAIN sessions : n # sid => sessions'[n] = sessions[n]
    BY <1>1, <1>5, <1>6
  <2>2. sessions'[sid] = row
    BY <1>2, <1>5, <1>6
  <2> QED
    BY <1>3, <2>1, <2>2
<1>8. /\ NextId \in SessionIds \ DOMAIN sessions
      /\ DOMAIN sessions' = DOMAIN sessions \cup {NextId}
      /\ Begun' = Begun \cup {sessions[sid].root}
      /\ Holds' = (Holds \ {Held(n) : n \in {sid}})
                    \cup {[signIn |-> sessions[sid].root, token |-> NextId]}
  <2>1. {sid} \in SUBSET DOMAIN sessions
    BY <1>1, <1>2
  <2> QED
    BY <1>1, <1>2, <1>6, <1>7, <2>1, AddedRow
<1>9. Begun' = Begun /\ Held(sid) \in Holds /\ {Held(n) : n \in {sid}} = {Held(sid)}
  BY <1>1, <1>2, <1>8 DEF Begun, Holds, Active
<1>10. ASSUME NEW h \in Holds, NEW t \in SessionIds, h = Held(sid), t = NextId
       PROVE  SignIns!Renew(h, t)
  <2>1. h.signIn = sessions[sid].root
    BY <1>10 DEF Held
  <2> QED
    BY <1>8, <1>9, <1>10, <2>1 DEF SignIns!Renew, SignIns!Hold, Begun, Holds, Held
<1> QED
  BY <1>8, <1>9, <1>10 DEF SignIns!SignInsNext, Holds, Held

\* Rows that end: what stays is what they were.
LEMMA EndedRows ==
  ASSUME AuthTypeOK, NEW ended \in SUBSET DOMAIN sessions,
         DOMAIN sessions' = DOMAIN sessions,
         \A n \in DOMAIN sessions :
           sessions'[n] = IF n \in ended THEN [sessions[n] EXCEPT !.live = FALSE]
                          ELSE sessions[n]
  PROVE  Begun' = Begun /\ Holds' = Holds \ {Held(n) : n \in ended}
<1>1. \A n \in DOMAIN sessions : /\ sessions'[n].root = sessions[n].root
                                 /\ sessions'[n].live <=> sessions[n].live /\ n \notin ended
  <2>1. \A n \in DOMAIN sessions : sessions[n] \in Session
    BY DEF AuthTypeOK
  <2> QED
    BY <2>1 DEF Session
<1>2. Begun' = Begun
  BY <1>1 DEF Begun
<1>3. /\ {m \in DOMAIN sessions' : Active(m)'} = {m \in DOMAIN sessions : Active(m)} \ ended
      /\ \A n \in DOMAIN sessions : Held(n)' = Held(n)
  BY <1>1 DEF Active, Held
<1>4. \A m, n \in DOMAIN sessions : Held(m) = Held(n) => m = n
  BY DEF Held
<1> HIDE DEF Held
<1> QED
  BY <1>2, <1>3, <1>4 DEF Holds

LEMMA EndOneIsEnd ==
  ASSUME AuthTypeOK, NEW n \in DOMAIN sessions, Active(n),
         sessions' = [sessions EXCEPT ![n].live = FALSE]
  PROVE  SignIns!SignInsNext
<1>1. sessions \in Seq(Session)
  BY DEF AuthTypeOK
<1>2. DOMAIN sessions' = DOMAIN sessions
  BY <1>1
<1>3. \A m \in DOMAIN sessions :
        sessions'[m] = IF m \in {n} THEN [sessions[m] EXCEPT !.live = FALSE] ELSE sessions[m]
  BY <1>1
<1>4. Begun' = Begun /\ Holds' = Holds \ {Held(m) : m \in {n}}
  BY <1>2, <1>3, EndedRows
<1>5. ASSUME NEW h \in Holds, h = Held(n) PROVE SignIns!End(h)
  BY <1>2, <1>4, <1>5 DEF SignIns!End, Begun, Holds, Held
<1>6. Held(n) \in Holds
  BY DEF Holds
<1> QED
  BY <1>5, <1>6 DEF SignIns!SignInsNext, Holds, Held

LEMMA ResetIsEndAll ==
  ASSUME AuthTypeOK, ResetPassword
  PROVE  SignIns!SignInsNext
<1>1. sessions' = [n \in DOMAIN sessions |-> [sessions[n] EXCEPT !.live = FALSE]]
  BY DEF ResetPassword, RevokeAll
<1>2. Begun' = Begun /\ Holds' = Holds \ {Held(n) : n \in DOMAIN sessions}
  BY <1>1, EndedRows
<1>3. Holds' = {}
  BY <1>2 DEF Holds
<1>4. SignIns!EndAll
  BY <1>1, <1>2, <1>3 DEF SignIns!EndAll, Begun, Holds, Held
<1> QED
  BY <1>4 DEF SignIns!SignInsNext

LEMMA SignInsStep ==
  ASSUME AuthInv, [AuthNext]_authVars
  PROVE  [SignIns!SignInsNext]_(SignIns!signInVars)
<1>1. AuthTypeOK /\ SessionsInv
  BY DEF AuthInv, SessionsInv
<1>2. CASE UNCHANGED sessions
  BY <1>2 DEF SignIns!signInVars, Active
<1>3. ASSUME NEW c \in calls, Register(c) \/ LoginInsert(c), sessions' # sessions
      PROVE  SignIns!SignInsNext
  <2>1. PICK epoch \in 0 .. MaxResets : IssueSession(epoch)
    BY <1>1, <1>3 DEF Register, LoginInsert, AuthTypeOK, Call
  <2> QED
    BY <1>1, <2>1, IssueIsBegin
<1>4. ASSUME NEW c \in calls, Refresh(c), sessions' # sessions
      PROVE  SignIns!SignInsNext
  BY <1>1, <1>4, RotateIsRenew DEF Refresh
<1>5. ASSUME NEW n \in DOMAIN sessions, Active(n), sessions' = [sessions EXCEPT ![n].live = FALSE]
      PROVE  SignIns!SignInsNext
  BY <1>1, <1>5, EndOneIsEnd
<1>6. ASSUME NEW c \in calls, Logout(c), sessions' # sessions
      PROVE  SignIns!SignInsNext
  BY <1>5, <1>6 DEF Logout, Active
<1>7. ASSUME NEW n \in SessionIds, SessionExpires(n) PROVE SignIns!SignInsNext
  BY <1>5, <1>7 DEF SessionExpires, Active
<1>8. CASE ResetPassword
  BY <1>1, <1>8, ResetIsEndAll
<1>9. ASSUME NEW c \in calls, Handler(c), sessions' # sessions PROVE SignIns!SignInsNext
  BY <1>3, <1>4, <1>6, <1>9 DEF Handler, LoginVerify, serverVars
<1>10. UNCHANGED serverVars => UNCHANGED sessions
  BY DEF serverVars
<1>11. CASE \/ \E c \in calls : Receive(c) \/ ReceiveLogout(c) \/ LoseCall(c)
            \/ ForgotPassword \/ ResetTokenExpires
            \/ \E t \in Tabs, due \in BOOLEAN : OpenTab(t, due)
            \/ \E t \in Tabs : CloseTab(t) \/ TimerFires(t) \/ SignOut(t)
            \/ \E t \in Tabs, op \in {"register", "login"} : SignIn(t, op)
            \/ Tick /\ UNCHANGED <<serverVars, clientVars>>
  BY <1>2, <1>10, <1>11 DEF Receive, ReceiveLogout, LoseCall, ForgotPassword, OpenTab,
     ResetTokenExpires, CloseTab, TimerFires, SignOut, SignIn
<1> QED
  BY <1>2, <1>7, <1>8, <1>9, <1>10, <1>11 DEF AuthNext, authVars

(* Whatever tabs, timers and lost answers do, refresh_tokens is the table of SignIns: *)
(* a token works until it is renewed, signed out, reset or expires, and never again.  *)
THEOREM SessionsImplementSignIns == AuthSpec => ImplementsSignIns
<1>1. AuthInit => SignIns!SignInsInit
  BY DEF AuthInit, SignIns!SignInsInit, Active
<1>2. AuthInv /\ [AuthNext]_authVars => [SignIns!SignInsNext]_(SignIns!signInVars)
  BY SignInsStep
<1> QED
  BY <1>1, <1>2, AuthInvariant, PTL DEF AuthSpec, ImplementsSignIns, SignIns!SignInsSpec

------------------------------------------------------------------------------
(* The pages of one tab *)

(* A preview that is not cancelled is of the link on screen, and what a page awaits *)
(* finds it mounted, unless it was told that it is not.                             *)
CallsFindTheirPage ==
  /\ \A p \in previews : ~p.cancelled => share # None /\ route = Share(p.link)
  /\ \A c \in accepts : c.mounted => share # None
  /\ \A l \in loads : editor # None
  /\ \A s \in saves : s.mounted => editor # None

\* What the page shows of a document was saved before.
ShownWasSaved ==
  editor # None /\ editor.document # None =>
    editor.text # None /\ saved[editor.document] # None

PagesInv == TypeOK /\ CallsFindTheirPage /\ ShownWasSaved /\ ReadyIsCurrent

LEMMA LocationsAre ==
  ASSUME NEW r \in Locations
  PROVE  /\ r.page \in {"home", "share", "document", "login"}
         /\ r.page = "share" => \E l \in Links : r = Share(l)
         /\ r.page = "document" => r.doc \in Docs
         /\ r.page = "login" => r.next \in Locations
         /\ Login(Home) \in Locations
<1>1. Home \in Inside
  BY DEF Inside
<1>2. Login(Home) \in Locations
  BY <1>1 DEF Locations
<1>3. CASE r = Home
  BY <1>2, <1>3 DEF Home
<1>4. CASE \E l \in Links : r = Share(l)
  BY <1>2, <1>4 DEF Share
<1>5. CASE \E d \in Docs : r = Document(d)
  BY <1>2, <1>5 DEF Document
<1>6. CASE \E next \in Inside : r = Login(next)
  <2>1. PICK next \in Inside : r = Login(next)
    BY <1>6
  <2>2. r.page = "login" /\ r.next = next
    BY <2>1 DEF Login
  <2>3. r.next \in Locations
    BY <2>2 DEF Locations
  <2> QED
    BY <1>2, <2>2, <2>3
<1> QED
  BY <1>3, <1>4, <1>5, <1>6 DEF Locations, Inside

LEMMA InsideIsLocations ==
  ASSUME NEW r \in Inside
  PROVE  r \in Locations
BY DEF Locations

LEMMA PlacesAreLocations ==
  /\ \A l \in Links : Share(l) \in Inside
  /\ \A d \in Docs : Document(d) \in Locations
BY DEF Inside, Locations

Sessions == [session : BOOLEAN, status : {"anonymous", "authenticated", "refreshing"}]

LEMMA RedirectedSomewhere ==
  ASSUME NEW a \in Sessions, NEW r \in Locations
  PROVE  Redirected(a, r) \in Locations
BY LocationsAre DEF Redirected

\* What a change of page or of its parameter leaves of the share page and its previews.
SharePage ==
  /\ share \in Preview \cup {None} /\ (share # None <=> route.page = "share")
  /\ previews \subseteq [link : Links, cancelled : BOOLEAN]
  /\ \A p \in previews : ~p.cancelled => share # None /\ route = Share(p.link)
  /\ ReadyIsCurrent

LEMMA AbandonedAre ==
  ASSUME previews \subseteq [link : Links, cancelled : BOOLEAN]
  PROVE  /\ Abandoned(previews) \subseteq [link : Links, cancelled : BOOLEAN]
         /\ \A p \in Abandoned(previews) : p.cancelled
BY DEF Abandoned

LEMMA ShareFollowsRoute ==
  ASSUME SharePage, NEW r \in Locations, route' = r,
         NEW view, view = "share" <=> r.page = "share",
         ShareFollows(view, r)
  PROVE  SharePage'
<1> DEFINE entered == r.page = "share" /\ (share = None \/ route # r)
           begun == {[link |-> l, cancelled |-> FALSE] : l \in {k \in Links : entered /\ r = Share(k)}}
<1>1. NewShare \in Preview
  BY DEF NewShare, Preview
<1>2. None \notin Preview
  BY PagesAssumption
<1>3. share' \in Preview \cup {None} /\ (share' # None <=> r.page = "share")
  <2>1. CASE r.page # "share"
    BY <2>1 DEF ShareFollows
  <2>2. CASE r.page = "share" /\ share = None
    BY <1>1, <1>2, <2>2 DEF ShareFollows
  <2>3. CASE r.page = "share" /\ share # None
    <3>1. /\ share \in Preview
          /\ share' = [share EXCEPT !.phase = IF entered THEN "loading" ELSE @]
      BY <2>3 DEF ShareFollows, SharePage
    <3>2. share' \in Preview
      BY <3>1 DEF Preview
    <3> QED
      BY <1>2, <2>3, <3>2
  <2> QED
    BY <2>1, <2>2, <2>3
<1>4. \A p \in begun : p \in [link : Links, cancelled : BOOLEAN] /\ entered /\ r = Share(p.link)
  <2> SUFFICES ASSUME NEW p \in begun
               PROVE  p \in [link : Links, cancelled : BOOLEAN] /\ entered /\ r = Share(p.link)
    OBVIOUS
  <2>1. PICK l \in Links : p = [link |-> l, cancelled |-> FALSE] /\ entered /\ r = Share(l)
    OBVIOUS
  <2> QED
    BY <2>1
<1>5. previews' = (IF entered \/ view # "share" THEN Abandoned(previews) ELSE previews) \cup begun
  BY DEF ShareFollows
<1> HIDE DEF begun
<1>6. previews' \subseteq [link : Links, cancelled : BOOLEAN]
  BY <1>4, <1>5, AbandonedAre DEF SharePage
<1>7. \A p \in previews' : ~p.cancelled => share' # None /\ r = Share(p.link)
  <2> SUFFICES ASSUME NEW p \in previews', ~p.cancelled
               PROVE  share' # None /\ r = Share(p.link)
    OBVIOUS
  <2>1. CASE p \in begun
    BY <1>3, <1>4, <2>1
  <2>2. CASE p \notin begun
    <3>1. ~entered /\ view = "share" /\ p \in previews
      BY <1>5, <2>2, AbandonedAre DEF SharePage
    <3> QED
      BY <1>3, <3>1 DEF SharePage
  <2> QED
    BY <2>1, <2>2
<1>8. ReadyIsCurrent'
  <2> SUFFICES ASSUME share' # None, share'.phase = "ready"
               PROVE  r = Share(share'.preview)
    BY DEF ReadyIsCurrent
  <2>1. share' = share /\ ~entered /\ view = "share"
    BY <1>3 DEF ShareFollows, SharePage, NewShare, Preview
  <2> QED
    BY <2>1 DEF SharePage, ReadyIsCurrent
<1> QED
  BY <1>3, <1>6, <1>7, <1>8 DEF SharePage

\* And of the document page and its loads.
DocumentPage ==
  /\ editor \in Editor \cup {None} /\ (editor # None <=> Mounted(auth, route) = "document")
  /\ loads \subseteq [doc : Docs, by : {"effect", "save"}]
  /\ \A l \in loads : editor # None

LEMMA EditorFollowsRoute ==
  ASSUME DocumentPage, NEW a \in Sessions, NEW r \in Locations, auth' = a, route' = r,
         EditorFollows(Mounted(a, r), r)
  PROVE  /\ DocumentPage'
         /\ editor' \in {None, editor} \/ editor'.document = None
<1>1. None \notin Editor
  BY PagesAssumption
<1>2. Mounted(a, r) = "document" => r.doc \in Docs
  BY LocationsAre DEF Mounted
<1>3. \A d \in Docs : NewEditor(d) \in Editor /\ NewEditor(d).document = None
  BY DEF NewEditor, Editor
<1>4. /\ editor' \in Editor \cup {None}
      /\ editor' # None <=> Mounted(a, r) = "document"
      /\ editor' \in {None, editor} \/ editor'.document = None
  BY <1>1, <1>2, <1>3 DEF EditorFollows, DocumentPage
<1>5. loads' \subseteq [doc : Docs, by : {"effect", "save"}]
  BY <1>2 DEF EditorFollows, DocumentPage
<1>6. loads' = {} \/ editor' # None
  BY <1>4 DEF EditorFollows
<1> QED
  BY <1>4, <1>5, <1>6 DEF DocumentPage

LEMMA LeftAre ==
  ASSUME NEW cs
  PROVE  /\ cs \subseteq [link : Links, mounted : BOOLEAN]
              => Left(cs) \subseteq [link : Links, mounted : BOOLEAN]
         /\ cs \subseteq [target : Docs, base : Docs, text : Text, ready : BOOLEAN, mounted : BOOLEAN]
              => Left(cs) \subseteq
                   [target : Docs, base : Docs, text : Text, ready : BOOLEAN, mounted : BOOLEAN]
BY DEF Left

LEMMA InvHasPages ==
  ASSUME PagesInv
  PROVE  SharePage /\ DocumentPage
BY DEF PagesInv, TypeOK, CallsFindTheirPage, SharePage, DocumentPage

LEMMA PagesInvInit == Init => PagesInv
<1> SUFFICES ASSUME Init PROVE PagesInv
  OBVIOUS
<1>1. auth \in Sessions
  <2>1. /\ Anonymous \in Sessions /\ Authenticated \in Sessions
        /\ [session |-> FALSE, status |-> "refreshing"] \in Sessions
    BY DEF Anonymous, Authenticated, Sessions
  <2>2. auth \in {Anonymous, Authenticated, [session |-> FALSE, status |-> "refreshing"]}
    BY DEF Init
  <2> QED
    BY <2>1, <2>2
<1>2. /\ route \in {Home, Login(Home)}
      /\ route = Home => auth = Authenticated
      /\ route.page \in {"home", "login"}
  BY DEF Init, Anonymous, Authenticated, Home, Login
<1>3. Home \in Locations /\ Login(Home) \in Locations
  BY LocationsAre, InsideIsLocations DEF Inside
<1>4. Mounted(auth, route) # "document"
  BY <1>2 DEF Mounted
<1>5. saved \in [Docs -> Text \cup {None}] /\ room \in [Docs -> Text \cup {None}]
  BY PagesAssumption DEF Init, Text
<1>6. TypeOK
  BY <1>1, <1>2, <1>3, <1>4, <1>5, PagesAssumption DEF Init, TypeOK, Sessions
<1> QED
  BY <1>6 DEF Init, PagesInv, CallsFindTheirPage, ShownWasSaved, ReadyIsCurrent

\* Whatever brings another page or parameter: what the pages have fits it.
LEMMA GoesKeepsPages ==
  ASSUME PagesInv, NEW a \in Sessions, NEW r \in Locations, Goes(a, r)
  PROVE  /\ auth' \in Sessions /\ route' \in Locations
         /\ SharePage' /\ DocumentPage'
         /\ editor' \in {None, editor} \/ editor'.document = None
<1> DEFINE to == Redirected(a, r)
<1>1. to \in Locations
  BY RedirectedSomewhere
<1>2. Mounted(a, to) = "share" <=> to.page = "share"
  BY DEF Mounted
<1> HIDE DEF to
<1>3. auth' = a /\ route' = to /\ ShareFollows(Mounted(a, to), to) /\ EditorFollows(Mounted(a, to), to)
  BY DEF Goes, to
<1>4. SharePage'
  BY <1>1, <1>2, <1>3, InvHasPages, ShareFollowsRoute
<1>5. DocumentPage' /\ (editor' \in {None, editor} \/ editor'.document = None)
  BY <1>1, <1>3, InvHasPages, EditorFollowsRoute
<1> QED
  BY <1>1, <1>3, <1>4, <1>5

LEMMA LeavingKeepsInv ==
  ASSUME PagesInv, NEW a \in Sessions, NEW r \in Locations, Goes(a, r),
         NEW awaited \in SUBSET accepts,
         accepts' = Left(awaited) \/ (accepts' = accepts /\ share' # None),
         saves' = IF editor' = None THEN Left(saves) ELSE saves,
         login' \in Inside \cup {None}, live' = live, room' = room, edits' = edits,
         creates' \subseteq Docs,
         saved' \in [Docs -> Text \cup {None}],
         \A d \in Docs : saved[d] # None => saved'[d] # None
  PROVE  PagesInv'
<1>1. /\ auth' \in Sessions /\ route' \in Locations
      /\ SharePage' /\ DocumentPage'
      /\ editor' \in {None, editor} \/ editor'.document = None
  BY GoesKeepsPages
<1>2. /\ accepts \subseteq [link : Links, mounted : BOOLEAN]
      /\ saves \subseteq [target : Docs, base : Docs, text : Text, ready : BOOLEAN, mounted : BOOLEAN]
  BY DEF PagesInv, TypeOK
<1>3. accepts' \subseteq [link : Links, mounted : BOOLEAN]
  BY <1>2, LeftAre
<1>4. saves' \subseteq [target : Docs, base : Docs, text : Text, ready : BOOLEAN, mounted : BOOLEAN]
  BY <1>2, LeftAre
<1>5. TypeOK'
  BY <1>1, <1>3, <1>4 DEF PagesInv, TypeOK, SharePage, DocumentPage, Sessions
<1>6. \A cs, c : c \in Left(cs) /\ cs \subseteq accepts \cup saves => ~c.mounted
  BY <1>2 DEF Left
<1>7. \A c \in accepts' : c.mounted => share' # None
  BY <1>6
<1>8. \A s \in saves' : s.mounted => editor' # None
  BY <1>6
<1>9. ShownWasSaved'
  BY <1>1 DEF ShownWasSaved, PagesInv, TypeOK, Editor
<1> QED
  BY <1>1, <1>5, <1>7, <1>8, <1>9 DEF PagesInv, CallsFindTheirPage, SharePage, DocumentPage

LEMMA BecomingKeepsInv ==
  ASSUME PagesInv, NEW a \in Sessions, Becomes(a), login' \in Inside \cup {None}
  PROVE  PagesInv'
<1>1. /\ route \in Locations /\ creates \subseteq Docs
      /\ saved \in [Docs -> Text \cup {None}]
  BY DEF PagesInv, TypeOK
<1> QED
  BY <1>1, LeavingKeepsInv DEF Becomes, KeepsCalls

LEMMA RoutingKeepsInv ==
  ASSUME PagesInv,
         \/ \E r \in Locations : Navigate(r)
         \/ RefreshDue \/ RefreshAnswered \/ SessionEnds \/ HandleSubmit \/ LoginAnswered
         \/ \E c \in accepts : AcceptAnswered(c)
         \/ \E d \in Docs : CreateAnswered(d)
  PROVE  PagesInv'
<1>1. /\ auth \in Sessions /\ route \in Locations /\ creates \subseteq Docs
      /\ saved \in [Docs -> Text \cup {None}] /\ login \in Inside \cup {None}
      /\ accepts \subseteq [link : Links, mounted : BOOLEAN]
  BY DEF PagesInv, TypeOK, Sessions
<1>2. Anonymous \in Sessions /\ Authenticated \in Sessions /\ None \notin Inside
  BY PagesAssumption DEF Anonymous, Authenticated, Sessions, Locations
<1>3. ASSUME NEW r \in Locations, Navigate(r)
      PROVE  PagesInv'
  BY <1>1, <1>3, LeavingKeepsInv DEF Navigate, KeepsCalls
<1>4. CASE RefreshDue \/ HandleSubmit
  <2>1. [auth EXCEPT !.status = "refreshing"] \in Sessions
    BY <1>1 DEF Sessions
  <2>2. RefreshDue => login' \in Inside \cup {None}
    BY <1>1 DEF RefreshDue
  <2>3. HandleSubmit => login' \in Inside \cup {None}
    BY <1>1 DEF HandleSubmit, Locations, Login, Inside, Home, Share, Document
  <2> QED
    BY <1>4, <2>1, <2>2, <2>3, BecomingKeepsInv DEF RefreshDue, HandleSubmit
<1>5. CASE RefreshAnswered \/ SessionEnds
  BY <1>1, <1>2, <1>5, BecomingKeepsInv DEF RefreshAnswered, SessionEnds
<1>6. CASE LoginAnswered
  <2>1. login \in Inside /\ login \in Locations
    BY <1>1, <1>6, InsideIsLocations DEF LoginAnswered
  <2>2. PICK a \in Sessions, r \in Locations : Goes(a, r) /\ KeepsCalls
    BY <1>1, <1>2, <1>6, <2>1 DEF LoginAnswered
  <2> QED
    BY <1>1, <1>6, <2>2, LeavingKeepsInv DEF LoginAnswered, KeepsCalls
<1>7. ASSUME NEW c \in accepts, AcceptAnswered(c)
      PROVE  PagesInv'
  <2>1. Document(Leads[c.link]) \in Locations
    BY <1>1, PagesAssumption, PlacesAreLocations
  <2> QED
    BY <1>1, <1>7, <2>1, LeavingKeepsInv DEF AcceptAnswered
<1>8. ASSUME NEW d \in Docs, CreateAnswered(d)
      PROVE  PagesInv'
  <2>1. /\ Document(d) \in Locations
        /\ [of |-> d, edit |-> 0] \in Text
    BY PlacesAreLocations, PagesAssumption DEF Text
  <2>2. /\ saved' = [saved EXCEPT ![d] = [of |-> d, edit |-> 0]]
        /\ [of |-> d, edit |-> 0] # None
    BY <1>8, <2>1, PagesAssumption DEF CreateAnswered
  <2>3. /\ saved' \in [Docs -> Text \cup {None}]
        /\ \A e \in Docs : saved[e] # None => saved'[e] # None
    BY <1>1, <2>1, <2>2
  <2>4. /\ creates' \subseteq Docs /\ UNCHANGED <<login, live, room, edits>>
        /\ Goes(auth, Document(d)) /\ KeepsCalls
    BY <1>8 DEF CreateAnswered
  <2> QED
    BY <1>1, <2>1, <2>3, <2>4, LeavingKeepsInv DEF KeepsCalls
<1> QED
  BY <1>3, <1>4, <1>5, <1>6, <1>7, <1>8

LEMMA ShareActionsKeepInv ==
  ASSUME PagesInv,
         \/ HandleAccept
         \/ \E p \in previews : PreviewArrives(p) \/ PreviewFails(p)
         \/ \E c \in accepts : AcceptFails(c)
         \/ \E l \in Links : RevokeShareLink(l)
  PROVE  PagesInv'
<1>1. /\ share \in Preview \cup {None} /\ (share # None <=> route.page = "share")
      /\ previews \subseteq [link : Links, cancelled : BOOLEAN]
      /\ accepts \subseteq [link : Links, mounted : BOOLEAN]
      /\ route \in Locations /\ live \subseteq Links
  BY DEF PagesInv, TypeOK
<1>2. None \notin Preview
  BY PagesAssumption
<1>3. ASSUME UNCHANGED <<auth, login, route, editing, saved, room, creates, edits>>,
             live' \subseteq Links,
             share' \in Preview \cup {None}, share' # None <=> share # None,
             previews' \subseteq previews,
             accepts' \subseteq [link : Links, mounted : BOOLEAN],
             \A c \in accepts' : c.mounted => share # None,
             share' # None /\ share'.phase = "ready" => route = Share(share'.preview)
      PROVE  PagesInv'
  <2>1. TypeOK'
    BY <1>1, <1>3 DEF PagesInv, TypeOK, editing
  <2>2. CallsFindTheirPage'
    BY <1>1, <1>3 DEF PagesInv, CallsFindTheirPage, editing
  <2>3. ShownWasSaved' /\ ReadyIsCurrent'
    BY <1>3 DEF PagesInv, ShownWasSaved, ReadyIsCurrent, editing
  <2> QED
    BY <2>1, <2>2, <2>3 DEF PagesInv
<1>4. CASE HandleAccept
  <2>1. PICK l \in Links : route = Share(l)
    BY <1>1, <1>4, LocationsAre DEF HandleAccept
  <2>2. route.link = l
    BY <2>1 DEF Share
  <2>3. share' \in Preview /\ share'.phase = "accepting"
    BY <1>1, <1>4 DEF HandleAccept, Preview
  <2>4. /\ accepts' \subseteq [link : Links, mounted : BOOLEAN]
        /\ share # None
    <3>1. accepts' = accepts \cup {[link |-> route.link, mounted |-> TRUE]} /\ share # None
      BY <1>4 DEF HandleAccept
    <3>2. [link |-> route.link, mounted |-> TRUE] \in [link : Links, mounted : BOOLEAN]
      BY <2>2
    <3> QED
      BY <1>1, <3>1, <3>2
  <2> QED
    BY <1>1, <1>2, <1>3, <1>4, <2>3, <2>4 DEF HandleAccept, editing
<1>5. ASSUME NEW p \in previews, PreviewArrives(p) \/ PreviewFails(p)
      PROVE  PagesInv'
  <2>1. CASE p.cancelled \/ share = None
    BY <1>1, <1>3, <1>5, <2>1
       DEF PreviewArrives, PreviewFails, editing, PagesInv, CallsFindTheirPage, ReadyIsCurrent
  <2>2. CASE ~p.cancelled /\ share # None
    <3>1. route = Share(p.link) /\ p.link \in Links
      BY <1>1, <2>2 DEF PagesInv, CallsFindTheirPage
    <3>2. /\ share' \in Preview
          /\ share'.phase = "error" \/ share'.preview = p.link
      BY <1>1, <1>5, <2>2, <3>1 DEF PreviewArrives, PreviewFails, Preview
    <3>3. PagesInv => \A c \in accepts : c.mounted => share # None
      BY DEF PagesInv, CallsFindTheirPage
    <3> QED
      BY <1>1, <1>2, <1>3, <1>5, <2>2, <3>1, <3>2, <3>3
         DEF PreviewArrives, PreviewFails, editing
  <2> QED
    BY <2>1, <2>2
<1>6. ASSUME NEW c \in accepts, AcceptFails(c)
      PROVE  PagesInv'
  <2>1. /\ c.mounted => share \in Preview
        /\ \A d \in accepts : d.mounted => share # None
    BY <1>1 DEF PagesInv, CallsFindTheirPage
  <2>2. /\ c.mounted => share' \in Preview /\ share'.phase = "error"
        /\ ~c.mounted => share' = share
    BY <1>6, <2>1 DEF AcceptFails, Preview
  <2> QED
    BY <1>1, <1>2, <1>3, <1>6, <2>1, <2>2 DEF AcceptFails, editing, PagesInv, ReadyIsCurrent
<1>7. ASSUME NEW l \in Links, RevokeShareLink(l)
      PROVE  PagesInv'
  BY <1>1, <1>3, <1>7
     DEF RevokeShareLink, sharing, PagesInv, CallsFindTheirPage, ReadyIsCurrent
<1> QED
  BY <1>4, <1>5, <1>6, <1>7

LEMMA HomeActionsKeepInv ==
  ASSUME PagesInv, NEW d \in Docs, HandleCreate(d) \/ CreateFails(d)
  PROVE  PagesInv'
<1>1. creates' \subseteq Docs
  BY DEF HandleCreate, CreateFails
<1>2. UNCHANGED <<auth, login, route, sharing, live, editing, saved, room, edits>>
  BY DEF HandleCreate, CreateFails
<1>3. TypeOK'
  BY <1>1, <1>2 DEF PagesInv, TypeOK, sharing, editing
<1> QED
  BY <1>2, <1>3
     DEF PagesInv, CallsFindTheirPage, ShownWasSaved, ReadyIsCurrent, sharing, editing

LEMMA DocumentActionsKeepInv ==
  ASSUME PagesInv,
         \/ Connected \/ Type
         \/ \E d \in Docs : HandleSave(d)
         \/ \E l \in loads : LoadArrives(l) \/ LoadFails(l)
         \/ \E s \in saves : SaveAccepted(s) \/ SaveFails(s)
  PROVE  PagesInv'
<1>1. /\ editor \in Editor \cup {None} /\ (editor # None <=> Mounted(auth, route) = "document")
      /\ loads \subseteq [doc : Docs, by : {"effect", "save"}]
      /\ saves \subseteq [target : Docs, base : Docs, text : Text, ready : BOOLEAN, mounted : BOOLEAN]
      /\ saved \in [Docs -> Text \cup {None}] /\ room \in [Docs -> Text \cup {None}]
      /\ edits \in 0..MaxEdits /\ MaxEdits \in Nat
  BY PagesAssumption DEF PagesInv, TypeOK
<1>2. None \notin Editor \cup Text \cup Docs
  BY PagesAssumption
<1>3. editor # None => route.doc \in Docs
  BY <1>1, LocationsAre DEF Mounted, PagesInv, TypeOK
<1>4. ASSUME UNCHANGED <<auth, login, route, sharing, live, creates>>,
             editor' \in Editor \cup {None}, editor' # None <=> editor # None,
             loads' \subseteq [doc : Docs, by : {"effect", "save"}],
             loads' = {} \/ editor # None,
             saves' \subseteq
               [target : Docs, base : Docs, text : Text, ready : BOOLEAN, mounted : BOOLEAN],
             \A s \in saves' : s.mounted => editor # None,
             saved' \in [Docs -> Text \cup {None}], room' \in [Docs -> Text \cup {None}],
             edits' \in 0..MaxEdits,
             ShownWasSaved'
      PROVE  PagesInv'
  <2>1. TypeOK'
    BY <1>1, <1>4 DEF PagesInv, TypeOK, sharing
  <2>2. CallsFindTheirPage' /\ ReadyIsCurrent'
    BY <1>4 DEF PagesInv, CallsFindTheirPage, ReadyIsCurrent, sharing
  <2> QED
    BY <1>4, <2>1, <2>2 DEF PagesInv
<1>5. /\ \A s \in saves : s.mounted => editor # None
      /\ loads = {} \/ editor # None
      /\ editor # None /\ editor.document # None =>
           editor.text # None /\ saved[editor.document] # None
  BY DEF PagesInv, CallsFindTheirPage, ShownWasSaved
<1>6. CASE Connected
  <2> DEFINE d == editor.document
             text == IF room[d] = None THEN saved[d] ELSE room[d]
  <2>1. editor \in Editor /\ d \in Docs /\ text \in Text
    BY <1>1, <1>5, <1>6 DEF Connected, Editor
  <2>2. /\ room' = [room EXCEPT ![d] = text]
        /\ editor' = [editor EXCEPT !.ready = TRUE, !.text = text, !.bound = route.doc]
        /\ UNCHANGED <<auth, login, route, sharing, live, loads, saves, saved, creates, edits>>
    BY <1>6 DEF Connected
  <2> HIDE DEF text
  <2>3. editor' \in Editor /\ editor'.document = d /\ editor'.text = text
    BY <1>2, <1>3, <2>1, <2>2 DEF Editor
  <2>4. ShownWasSaved'
    BY <1>2, <1>5, <2>1, <2>2, <2>3 DEF ShownWasSaved
  <2>5. room' \in [Docs -> Text \cup {None}]
    BY <1>1, <2>1, <2>2
  <2> QED
    BY <1>1, <1>2, <1>4, <1>5, <2>1, <2>2, <2>3, <2>4, <2>5
<1>7. CASE Type
  <2> DEFINE text == [of |-> editor.document, edit |-> edits']
  <2>1. editor \in Editor /\ editor.document \in Docs /\ edits' \in 0..MaxEdits
    BY <1>1, <1>7 DEF Type, Editor
  <2>2. text \in Text
    BY <2>1 DEF Text
  <2>3. /\ editor' = [editor EXCEPT !.text = text, !.bound = route.doc]
        /\ room' = IF editor.ready THEN [room EXCEPT ![editor.document] = text] ELSE room
        /\ UNCHANGED <<auth, login, route, sharing, live, loads, saves, saved, creates>>
    BY <1>7 DEF Type
  <2> HIDE DEF text
  <2>4. editor' \in Editor /\ editor'.document = editor.document /\ editor'.text = text
    BY <1>2, <1>3, <2>1, <2>2, <2>3 DEF Editor
  <2>5. ShownWasSaved'
    BY <1>2, <1>5, <2>1, <2>2, <2>3, <2>4 DEF ShownWasSaved
  <2>6. room' \in [Docs -> Text \cup {None}]
    BY <1>1, <2>1, <2>2, <2>3
  <2> QED
    BY <1>1, <1>2, <1>4, <1>5, <2>1, <2>3, <2>4, <2>5, <2>6
<1>8. ASSUME NEW d \in Docs, HandleSave(d)
      PROVE  PagesInv'
  <2>1. editor \in Editor /\ editor.document \in Docs /\ editor.text \in Text
    BY <1>1, <1>5, <1>8 DEF HandleSave, Editor
  <2>2. editor' \in Editor /\ editor'.document = editor.document /\ editor'.text = editor.text
    BY <1>8, <2>1 DEF HandleSave, Editor
  <2>3. /\ saves' \subseteq
             [target : Docs, base : Docs, text : Text, ready : BOOLEAN, mounted : BOOLEAN]
        /\ \A s \in saves' : s.mounted => editor # None
    <3> DEFINE save == [target |-> d, base |-> editor.document, text |-> editor.text,
                        ready |-> editor.ready, mounted |-> TRUE]
    <3>1. save \in [target : Docs, base : Docs, text : Text, ready : BOOLEAN, mounted : BOOLEAN]
      BY <2>1 DEF Editor
    <3>2. saves' = saves \cup {save}
      BY <1>8 DEF HandleSave
    <3>3. editor # None
      BY <1>8 DEF HandleSave
    <3> HIDE DEF save
    <3> QED
      BY <1>1, <1>5, <3>1, <3>2, <3>3
  <2>4. ShownWasSaved'
    BY <1>2, <1>5, <1>8, <2>1, <2>2 DEF ShownWasSaved, HandleSave
  <2> QED
    BY <1>1, <1>2, <1>4, <1>5, <1>8, <2>1, <2>2, <2>3, <2>4 DEF HandleSave
<1>9. ASSUME NEW l \in loads, LoadArrives(l) \/ LoadFails(l)
      PROVE  PagesInv'
  <2>1. editor \in Editor /\ l.doc \in Docs
    BY <1>1, <1>5
  <2>2. /\ loads' \subseteq loads
        /\ UNCHANGED <<auth, login, route, sharing, live, saves, saved, room, creates, edits>>
    BY <1>9 DEF LoadArrives, LoadFails
  <2>3. editor' \in Editor /\ ShownWasSaved'
    <3>1. CASE LoadArrives(l)
      <4>1. saved[l.doc] \in Text /\ editor' = Loaded(l)
        BY <1>1, <2>1, <3>1 DEF LoadArrives
      <4>2. editor' \in Editor
        BY <1>3, <2>1, <4>1, <1>2 DEF Loaded, Editor
      <4>3. editor'.document = l.doc /\ editor'.text \in {editor.text, saved[l.doc]}
        BY <2>1, <4>1 DEF Loaded, Editor
      <4>4. editor.document = l.doc \/ editor'.text = saved[l.doc]
        BY <2>1, <4>1 DEF Loaded, Editor
      <4> QED
        BY <1>2, <1>5, <2>1, <2>2, <4>1, <4>2, <4>3, <4>4 DEF ShownWasSaved
    <3>2. CASE LoadFails(l)
      <4>1. editor' \in Editor /\ editor'.document = None
        BY <2>1, <3>2 DEF LoadFails, Editor
      <4> QED
        BY <4>1 DEF ShownWasSaved
    <3> QED
      BY <1>9, <3>1, <3>2
  <2> QED
    BY <1>1, <1>2, <1>4, <1>5, <2>1, <2>2, <2>3
<1>10. ASSUME NEW s \in saves, SaveAccepted(s)
       PROVE  PagesInv'
  <2>1. s.target \in Docs /\ s.text \in Text
    BY <1>1
  <2>2. /\ saved' = [saved EXCEPT ![s.target] = s.text]
        /\ saves' = saves \ {s}
        /\ loads' = IF s.mounted THEN loads \cup {[doc |-> s.target, by |-> "save"]} ELSE loads
        /\ UNCHANGED <<auth, login, route, sharing, live, editor, room, creates, edits>>
    BY <1>10 DEF SaveAccepted
  <2>3. saved' \in [Docs -> Text \cup {None}] /\ \A d \in Docs : saved[d] # None => saved'[d] # None
    BY <1>1, <1>2, <2>1, <2>2
  <2>4. ShownWasSaved'
    BY <1>1, <1>2, <1>5, <2>2, <2>3 DEF ShownWasSaved, Editor
  <2>5. loads' \subseteq [doc : Docs, by : {"effect", "save"}] /\ (loads' = {} \/ editor # None)
    BY <1>1, <1>5, <2>1, <2>2
  <2> QED
    BY <1>1, <1>4, <1>5, <2>2, <2>3, <2>4, <2>5
<1>11. ASSUME NEW s \in saves, SaveFails(s)
       PROVE  PagesInv'
  <2>1. /\ editor' \in Editor \cup {None} /\ (editor' # None <=> editor # None)
        /\ editor # None =>
             editor'.document = editor.document /\ editor'.text = editor.text
    BY <1>1, <1>2, <1>5, <1>11 DEF SaveFails, Editor
  <2>2. ShownWasSaved'
    BY <1>5, <1>11, <2>1 DEF ShownWasSaved, SaveFails
  <2> QED
    BY <1>1, <1>4, <1>5, <1>11, <2>1, <2>2 DEF SaveFails
<1> QED
  BY <1>6, <1>7, <1>8, <1>9, <1>10, <1>11

\* What holds of a tab however the user moves about and whatever order answers come in.
THEOREM PagesInvariance == Spec => []PagesInv
<1>1. PagesInv /\ [Next]_vars => PagesInv'
  <2> SUFFICES ASSUME PagesInv, [Next]_vars PROVE PagesInv'
    OBVIOUS
  <2>1. CASE Next
    BY <2>1, RoutingKeepsInv, ShareActionsKeepInv, HomeActionsKeepInv, DocumentActionsKeepInv
       DEF Next, PageEvents
  <2>2. CASE UNCHANGED vars
    BY <2>2 DEF vars, sharing, editing, PagesInv, TypeOK, CallsFindTheirPage, ShownWasSaved,
                ReadyIsCurrent
  <2> QED
    BY <2>1, <2>2
<1> QED
  BY <1>1, PagesInvInit, PTL DEF Spec

\* The type of the tab's state; a page has state exactly while it is mounted.
THEOREM PagesTypesCorrect == Spec => []TypeOK
BY PagesInvariance, PTL DEF PagesInv

\* A share page that says it is ready shows the invitation of its own address, in whatever
\* order the previews of any number of links come (loadPreview's cancelled flag).
THEOREM ReadyPreviewsAreCurrent == Spec => []ReadyIsCurrent
BY PagesInvariance, PTL DEF PagesInv
================================================================================
