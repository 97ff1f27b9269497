---------------------------- MODULE VersionHistory ----------------------------
(***************************************************************************)
(* What a document store promises its users, with every mechanism left     *)
(* out: a document is an append-only log of snapshots whose last entry is  *)
(* the current content.  A save appends one snapshot to the log it was     *)
(* written against; a revert first appends the content it replaces, then   *)
(* the snapshot it restores.  Nothing that was ever current is lost.       *)
(***************************************************************************)
EXTENDS Naturals

CONSTANTS Contents, InitialContent

VARIABLES
  length,   \* the number of snapshots in the log
  log,      \* the snapshots, a function on 1..length
  content   \* what a reader of the document sees

historyVars == <<length, log, content>>

HistoryInit ==
  /\ length = 1
  /\ log = [n \in {1} |-> InitialContent]
  /\ content = InitialContent

\* A save, written against the snapshot at the end of the log.
Append1(c) ==
  /\ length' = length + 1
  /\ log' = [n \in 1..(length + 1) |-> IF n = length + 1 THEN c ELSE log[n]]
  /\ content' = c

\* The replaced content is logged before it goes.
AppendAfterBackup(c) ==
  /\ length' = length + 2
  /\ log' = [n \in 1..(length + 2) |->
               CASE n = length + 2 -> c
                 [] n = length + 1 -> content
                 [] OTHER          -> log[n]]
  /\ content' = c

\* A revert to snapshot `target`.
AppendRevert(target) == target \in 1..length /\ AppendAfterBackup(log[target])

HistoryNext ==
  \/ \E c \in Contents \ {content} : Append1(c)
  \/ \E target \in 1..length : AppendRevert(target)

HistorySpec == HistoryInit /\ [][HistoryNext]_historyVars

\* A store that records a save that changes nothing too, and keeps the replaced text
\* whenever it likes.
RecordingNext == \E c \in Contents : Append1(c) \/ AppendAfterBackup(c)

RecordingSpec == HistoryInit /\ [][RecordingNext]_historyVars
===============================================================================
