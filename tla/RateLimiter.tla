------------------------------ MODULE RateLimiter ------------------------------
(***************************************************************************)
(* rate_limit.py for one scope and key: the rows of rate_limit_events and  *)
(* the attempts they let through.  A handler takes the time before it      *)
(* takes SQLite's write lock, so the time it works with may lie in the     *)
(* past when its rows are committed, by at most the busy timeout.          *)
(***************************************************************************)
EXTENDS Naturals, FiniteSets

CONSTANTS
  Limit,        \* attempts let through in one window
  Window,       \* window_seconds
  MaxLag,       \* the longest wait for the write lock, in seconds
  MaxClock,     \* bound: the last second
  MaxAttempts   \* bound: attempts made

VARIABLES
  clock,     \* int(time()), in seconds
  rows,      \* rate_limit_events of this scope and key
  attempts,  \* how many attempts were made
  admitted   \* the rows whose attempt was let through; nothing reads it

limiterVars == <<clock, rows, attempts, admitted>>

ASSUME LimiterAssumption ==
  /\ Limit \in Nat /\ Window \in Nat /\ MaxLag \in 0 .. Window
  /\ MaxClock \in Nat /\ MaxAttempts \in Nat

\* created_at is `at`; the row is committed in second `committed`.
Row == [id : Nat, at : Nat, committed : Nat]

LimiterInit == clock = 0 /\ rows = {} /\ attempts = 0 /\ admitted = {}

\* Mutant: a row expires a second early.
UnexpiredEarly(now) == {r \in rows : r.at + Window > now + 1}

\* expires_at > now_epoch: the DELETE leaves these rows and the COUNT sees them.
Unexpired(now) == {r \in rows : r.at + Window > now}

\* The second a handler works with when it commits in this one.
Times == {now \in 0 .. clock : clock <= now + MaxLag}

RowAt(now) == [id |-> attempts, at |-> now, committed |-> clock]

\* count > limit answers 429.
LetsThrough(now) == Cardinality(Unexpired(now) \cup {RowAt(now)}) <= Limit

\* enforce_rate_limit: a refused attempt leaves its row as well.
EnforceRateLimit(now) ==
  /\ attempts < MaxAttempts
  /\ now \in Times
  /\ rows' = Unexpired(now) \cup {RowAt(now)}
  /\ attempts' = attempts + 1
  /\ admitted' = IF LetsThrough(now) THEN admitted \cup {RowAt(now)} ELSE admitted
  /\ UNCHANGED clock

Tick == clock < MaxClock /\ clock' = clock + 1 /\ UNCHANGED <<rows, attempts, admitted>>

LimiterNext == Tick \/ \E now \in Times : EnforceRateLimit(now)

LimiterSpec == LimiterInit /\ [][LimiterNext]_limiterVars

------------------------------------------------------------------------------

LimiterTypeOK ==
  /\ clock \in Nat /\ attempts \in Nat
  /\ rows \subseteq Row /\ IsFiniteSet(rows)
  /\ admitted \subseteq Row /\ IsFiniteSet(admitted)

(* However the attempts fall on the boundaries of the windows and of the rows'      *)
(* expiry, and however long handlers wait for the lock, any Window - MaxLag         *)
(* consecutive seconds let at most Limit attempts through.                          *)
AdmittedBetween(first, end) ==
  {r \in admitted : first <= r.committed /\ r.committed < end}

WindowAdmitsAtMostLimit ==
  \A first \in 0 .. clock :
    Cardinality(AdmittedBetween(first, first + Window - MaxLag)) <= Limit
==============================================================================
