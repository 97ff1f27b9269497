----------------------------- MODULE AuthSessions -----------------------------
(***************************************************************************)
(* One account: the refresh-token sessions of routers/auth.py, and the     *)
(* browser tabs (AuthContext.tsx, authAdapter.ts) that sign in, renew      *)
(* their session by a timer and share one localStorage.  Refreshing and    *)
(* resetting run under BEGIN IMMEDIATE, so each is one step; signing in    *)
(* verifies the password first and takes the write lock later.             *)
(* Session n is the n-th row of refresh_tokens, with the one refresh token *)
(* and the one access token that were issued for it; 0 is "no session".    *)
(***************************************************************************)
EXTENDS RateLimiter, Sequences

CONSTANTS
  Tabs,          \* browser tabs, all of one browser
  NoTab,         \* the page that made a call is gone
  MaxSessions,   \* bound: rows of refresh_tokens
  MaxResets,     \* bound: passwords reset
  MaxCalls       \* bound: requests not settled at a time

VARIABLES
  registered,  \* the users row exists
  resets,      \* how often its password was reset: users.password_hash
  resetToken,  \* TRUE while the account has an unconsumed, unexpired reset token
  sessions,    \* refresh_tokens
  revoked,     \* revoked_access_tokens of sessions that did not end with them
  stored,      \* the session in localStorage
  tab,         \* the AuthProvider and the ApiClient of each tab
  calls        \* requests of the tabs that are not settled

serverVars == <<registered, resets, resetToken, sessions, revoked>>
clientVars == <<stored, tab, calls>>
authVars == <<serverVars, clientVars, limiterVars>>

SessionIds == 1 .. MaxSessions
Optional == 0 .. MaxSessions

(* root: the session the chain of refreshes began with.  live: revoked_at is NULL    *)
(* and expires_at has not passed.  epoch: the password it was signed in with.  late: *)
(* a reset overtook the sign-in.                                                     *)
Session == [root : SessionIds, live : BOOLEAN, epoch : 0 .. MaxResets, late : BOOLEAN]

Tab == [status : {"closed", "anonymous", "authenticated", "refreshing"},
        session : Optional, api : Optional, timer : BOOLEAN]

\* sid: the refresh token presented.  answer: the session returned, 0 for an error.
Call == [tab : Tabs \cup {NoTab}, sid : Optional, access : Optional,
         op : {"register", "login", "restore", "refresh", "logout"},
         stage : {"sent", "verified", "answered"}, epoch : 0 .. MaxResets,
         answer : Optional]

ASSUME AuthAssumption ==
  /\ NoTab \notin Tabs
  /\ MaxSessions \in Nat /\ MaxResets \in Nat /\ MaxCalls \in Nat

Closed == [status |-> "closed", session |-> 0, api |-> 0, timer |-> FALSE]

AuthInit ==
  /\ LimiterInit
  /\ registered = FALSE /\ resets = 0 /\ resetToken = FALSE
  /\ sessions = <<>> /\ revoked = {}
  /\ stored = 0 /\ tab = [t \in Tabs |-> Closed] /\ calls = {}

------------------------------------------------------------------------------
(* Handlers *)

Active(n) == n \in DOMAIN sessions /\ sessions[n].live

\* get_current_user: the access token's jti is not revoked and its session is live.
CurrentUser(access) == Active(access) /\ access \notin revoked

\* The handler of c is done; an answer to a page that is gone reaches nobody.
Answered(c, n) ==
  (calls \ {c}) \cup
    (IF c.tab = NoTab THEN {} ELSE {[c EXCEPT !.stage = "answered", !.answer = n]})

NextId == Len(sessions) + 1
IssueSession(epoch) ==
  /\ Len(sessions) < MaxSessions
  /\ sessions' = Append(sessions,
       [root |-> NextId, live |-> TRUE, epoch |-> epoch, late |-> epoch # resets])

Handles(c, op) == c \in calls /\ c.op = op /\ c.stage = "sent"

\* register_user; a name that is taken answers 409.
Register(c) ==
  /\ Handles(c, "register")
  /\ IF ~registered
     THEN IssueSession(resets) /\ calls' = Answered(c, NextId)
     ELSE calls' = Answered(c, 0) /\ UNCHANGED sessions
  /\ registered' = TRUE
  /\ UNCHANGED <<resets, resetToken, revoked, stored, tab, limiterVars>>

\* login_user up to the password check: the limiter, then the row of the user.
LoginVerify(c, password, now) ==
  /\ Handles(c, "login")
  /\ EnforceRateLimit(now)
  /\ calls' = IF registered /\ LetsThrough(now) /\ password = resets
              THEN (calls \ {c}) \cup {[c EXCEPT !.stage = "verified", !.epoch = resets]}
              ELSE Answered(c, 0)
  /\ UNCHANGED <<serverVars, stored, tab>>

\* Its INSERT and commit: nothing is read again.
LoginInsert(c) ==
  /\ c \in calls /\ c.stage = "verified"
  /\ IssueSession(c.epoch)
  /\ calls' = Answered(c, NextId)
  /\ UNCHANGED <<registered, resets, resetToken, revoked, stored, tab, limiterVars>>

\* Mutant: the rotated token stays usable.
RotatedKept(c) == Append(sessions, sessions[c.sid])

\* The presented token is revoked and its successor inserted.
Rotated(c) == Append([sessions EXCEPT ![c.sid].live = FALSE], sessions[c.sid])

\* refresh_session.
Refresh(c) ==
  /\ c \in calls /\ c.op \in {"restore", "refresh"} /\ c.stage = "sent"
  /\ IF Active(c.sid)
     THEN /\ Len(sessions) < MaxSessions
          /\ sessions' = Rotated(c)
          /\ calls' = Answered(c, NextId)
     ELSE calls' = Answered(c, 0) /\ UNCHANGED sessions
  /\ UNCHANGED <<registered, resets, resetToken, revoked, stored, tab, limiterVars>>

(* logout: a caller whose access token is refused with 401 changes nothing.  The    *)
(* tab does not look at the answer.                                                 *)
Logout(c) ==
  /\ Handles(c, "logout")
  /\ IF CurrentUser(c.access)
     THEN /\ sessions' = IF Active(c.sid)
                         THEN [sessions EXCEPT ![c.sid].live = FALSE] ELSE sessions
          /\ revoked' = revoked \cup ({c.access} \ {c.sid})
     ELSE UNCHANGED <<sessions, revoked>>
  /\ calls' = Answered(c, 0)
  /\ UNCHANGED <<registered, resets, resetToken, stored, tab, limiterVars>>

\* forgot_password: earlier tokens are consumed, the new one is shown to the user.
ForgotPassword ==
  /\ registered
  /\ resetToken' = TRUE
  /\ UNCHANGED <<registered, resets, sessions, revoked, clientVars, limiterVars>>

\* Mutant: only the session issued last is cut.
RevokeNewest ==
  [n \in DOMAIN sessions |->
     IF n = Len(sessions) THEN [sessions[n] EXCEPT !.live = FALSE] ELSE sessions[n]]

\* The UPDATE of reset_password on refresh_tokens.
RevokeAll == [n \in DOMAIN sessions |-> [sessions[n] EXCEPT !.live = FALSE]]

\* reset_password; a token that is consumed or expired answers 401.
ResetPassword ==
  /\ resetToken /\ resets < MaxResets
  /\ resets' = resets + 1
  /\ resetToken' = FALSE
  /\ sessions' = RevokeAll
  /\ UNCHANGED <<registered, revoked, clientVars, limiterVars>>

\* expires_at of a refresh token or of the reset token passes.
SessionExpires(n) ==
  /\ Active(n)
  /\ sessions' = [sessions EXCEPT ![n].live = FALSE]
  /\ UNCHANGED <<registered, resets, resetToken, revoked, clientVars, limiterVars>>

ResetTokenExpires ==
  /\ resetToken /\ resetToken' = FALSE
  /\ UNCHANGED <<registered, resets, sessions, revoked, clientVars, limiterVars>>

------------------------------------------------------------------------------
(* Tabs *)

\* A request leaves tab t.  Only the fields its handler reads are filled in.
Send(t, op, sid, access) ==
  /\ Cardinality(calls) < MaxCalls
  /\ calls' = calls \cup
       {[tab |-> t, op |-> op, sid |-> sid, access |-> access,
         stage |-> "sent", epoch |-> 0, answer |-> 0]}

\* setSession(n): the effects on [session] store it and arm its timer.
Adopt(t, n, status) ==
  /\ tab' = [tab EXCEPT ![t] =
       [status |-> status, session |-> n, api |-> n, timer |-> n # 0]]
  /\ stored' = n

\* AuthProvider mounts: restoreSession; whether the stored session is due is the clock's.
OpenTab(t, due) ==
  /\ tab[t].status = "closed"
  /\ IF stored # 0 /\ due
     THEN /\ tab' = [tab EXCEPT ![t] = [Closed EXCEPT !.status = "refreshing"]]
          /\ stored' = 0
          /\ Send(t, "restore", stored, 0)
     ELSE /\ Adopt(t, stored, IF stored = 0 THEN "anonymous" ELSE "authenticated")
          /\ UNCHANGED calls
  /\ UNCHANGED <<serverVars, limiterVars>>

\* The page is closed or reloaded: requests it made may still be handled.
CloseTab(t) ==
  /\ tab[t].status # "closed"
  /\ tab' = [tab EXCEPT ![t] = Closed]
  /\ calls' = {c \in calls : c.tab # t} \cup
       {[c EXCEPT !.tab = NoTab] : c \in {d \in calls : d.tab = t /\ d.stage # "answered"}}
  /\ UNCHANGED <<serverVars, stored, limiterVars>>

\* The form of the login or the register page is sent.
SignIn(t, op) ==
  /\ tab[t].status = "anonymous"
  /\ tab' = [tab EXCEPT ![t].status = "refreshing"]
  /\ Send(t, op, 0, 0)
  /\ UNCHANGED <<serverVars, stored, limiterVars>>

\* The timer armed for the session fires.
TimerFires(t) ==
  /\ tab[t].timer
  /\ tab' = [tab EXCEPT ![t].timer = FALSE, ![t].status = "refreshing"]
  /\ Send(t, "refresh", tab[t].session, 0)
  /\ UNCHANGED <<serverVars, stored, limiterVars>>

SignOut(t) ==
  /\ tab[t].status = "authenticated"
  /\ \A c \in calls : ~(c.tab = t /\ c.op = "logout")
  /\ Send(t, "logout", tab[t].session, tab[t].api)
  /\ UNCHANGED <<serverVars, stored, tab, limiterVars>>

\* Mutant: the answer of a refresh is adopted whatever became of its session.
CancelledNever(c) == FALSE

\* The timer's effect was cleaned up: its session is no longer the tab's.
Cancelled(c) == c.op = "refresh" /\ tab[c.tab].session # c.sid

\* setAuthStatus("anonymous") alone: session, token and storage are as they were.
NotSignedIn(t) == tab' = [tab EXCEPT ![t].status = "anonymous"] /\ UNCHANGED stored

\* The answer of anything but a sign-out; refresh hands the token to the ApiClient first.
Receive(c) ==
  /\ c \in calls /\ c.stage = "answered" /\ c.op # "logout"
  /\ IF c.op \in {"login", "register"} /\ c.answer = 0 THEN NotSignedIn(c.tab)
     ELSE IF ~Cancelled(c)
     THEN Adopt(c.tab, c.answer, IF c.answer = 0 THEN "anonymous" ELSE "authenticated")
     ELSE /\ tab' = IF c.answer = 0 THEN tab ELSE [tab EXCEPT ![c.tab].api = c.answer]
          /\ UNCHANGED stored
  /\ calls' = calls \ {c}
  /\ UNCHANGED <<serverVars, limiterVars>>

\* logout's finally, whatever the tab's session has become; React skips a null set to null.
ReceiveLogout(c) ==
  /\ c \in calls /\ c.stage = "answered" /\ c.op = "logout"
  /\ IF tab[c.tab].session = 0 THEN NotSignedIn(c.tab) ELSE Adopt(c.tab, 0, "anonymous")
  /\ calls' = calls \ {c}
  /\ UNCHANGED <<serverVars, limiterVars>>

\* A request or its answer is lost, or refused by a limiter: the call fails.
LoseCall(c) ==
  /\ c \in calls /\ c.stage # "verified" /\ c.tab # NoTab
  /\ c.stage = "answered" => c.answer # 0
  /\ calls' = (calls \ {c}) \cup {[c EXCEPT !.stage = "answered", !.answer = 0]}
  /\ UNCHANGED <<serverVars, stored, tab, limiterVars>>

Handler(c) ==
  \/ Register(c)
  \/ \E password \in 0 .. MaxResets, now \in Times : LoginVerify(c, password, now)
  \/ LoginInsert(c) \/ Refresh(c) \/ Logout(c)

AuthNext ==
  \/ \E c \in calls : Handler(c) \/ Receive(c) \/ ReceiveLogout(c) \/ LoseCall(c)
  \/ ForgotPassword \/ ResetPassword \/ ResetTokenExpires
  \/ \E n \in SessionIds : SessionExpires(n)
  \/ \E t \in Tabs, due \in BOOLEAN : OpenTab(t, due)
  \/ \E t \in Tabs : CloseTab(t) \/ TimerFires(t) \/ SignOut(t)
  \/ \E t \in Tabs, op \in {"register", "login"} : SignIn(t, op)
  \/ Tick /\ UNCHANGED <<serverVars, clientVars>>

AuthSpec == AuthInit /\ [][AuthNext]_authVars

------------------------------------------------------------------------------
(* Properties *)

AuthTypeOK ==
  /\ LimiterTypeOK
  /\ registered \in BOOLEAN
  /\ resets \in 0 .. MaxResets /\ resetToken \in BOOLEAN
  /\ sessions \in Seq(Session) /\ Len(sessions) <= MaxSessions
  /\ revoked \subseteq SessionIds
  /\ stored \in Optional /\ tab \in [Tabs -> Tab] /\ calls \subseteq Call
  /\ \A t \in Tabs :
       /\ tab[t].session = 0 => ~tab[t].timer /\ tab[t].status # "authenticated"
       /\ tab[t].session # 0 => tab[t].status # "closed"

(* However many tabs present the same refresh token, however often: of all the      *)
(* sessions that descend from one sign-in, at most one is live (auth.py:97).         *)
OneLiveSessionPerSignIn ==
  \A m, n \in DOMAIN sessions :
    Active(m) /\ Active(n) /\ sessions[m].root = sessions[n].root => m = n

(* A password reset cuts off every sign-in made before it and all that descends     *)
(* from it; what stays is a sign-in that was under way while the reset committed.   *)
ResetCutsEarlierSignIns ==
  \A n \in DOMAIN sessions :
    Active(n) => sessions[n].epoch = resets \/ sessions[n].late

(* A refresh that is answered after the user signed out does not sign the tab in    *)
(* again: only an answer to something the page itself waits for does.               *)
OnlyAwaitedAnswersSignIn ==
  [][\A t \in Tabs :
       tab[t].session = 0 /\ tab'[t].session # 0 =>
         \/ tab[t].status = "closed"
         \/ \E c \in calls \ calls' :
              c.tab = t /\ c.op # "refresh" /\ c.answer = tab'[t].session]_authVars

\* The rows of refresh_tokens as sign-ins: each is named by the session it began with.
SignIns == INSTANCE SignIns WITH
  Ids <- SessionIds, Tokens <- SessionIds,
  begun <- {sessions[n].root : n \in DOMAIN sessions},
  issued <- DOMAIN sessions,
  holds <- {[signIn |-> sessions[n].root, token |-> n] : n \in {m \in DOMAIN sessions : Active(m)}}

(* Whatever tabs, timers, losses and resets do to the table: a token that was renewed,
   signed out, reset or left to expire never works again, no sign-in ever has two
   tokens, and no request revives one that has ended (refresh_session, auth.py:97). *)
ImplementsSignIns == SignIns!SignInsSpec
==============================================================================
