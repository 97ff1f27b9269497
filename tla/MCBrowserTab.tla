------------------------------ MODULE MCBrowserTab ------------------------------
(***************************************************************************)
(* What a browser has beside the documents: two tabs that share one        *)
(* session (AuthSessions), the pages of one tab (Pages), and the toolbar   *)
(* of the editor (Toolbar).  The three models share no state, so that      *)
(* while one of them moves the others are as they are at first.            *)
(***************************************************************************)
EXTENDS AuthSessions, MCPages

CONSTANTS t1, t2, Texts, Formats, ListPrefixes

VARIABLES value, selection, applied, original

MCTabs == {t1, t2}

AuthSymmetry == Permutations(MCTabs)

\* Stored texts with formats beside and in one another, and lines of a list.
Marked(opening, x, closing) == {opening \o a \o closing : a \in x}
Beside(x, y) == {a \o b : <<a, b>> \in x \X y}
Plain == {<<>>, <<"a">>}
Bold(x) == Marked(<<"*", "*">>, x, <<"*", "*">>)
Strike(x) == Marked(<<"~", "~">>, x, <<"~", "~">>)
Underline(x) == Marked(<<"<u>">>, x, <<"</u>">>)
Amid(x) == Beside(Plain, Beside(x, Plain))
FormattedTexts ==
  {<<"a", "b">>}
  \cup Strike(Amid(Underline(Plain))) \cup Beside(Amid(Strike(Plain)), Amid(Underline(Plain)))
  \cup Underline(Amid(Strike(Plain))) \cup Beside(Amid(Underline(Plain)), Amid(Strike(Plain)))
  \cup Bold(Amid(Strike(Plain))) \cup Beside(Amid(Bold(Plain)), Amid(Strike(Plain)))
  \cup Underline(Amid(Bold(Plain))) \cup Beside(Amid(Underline(Plain)), Amid(Bold(Plain)))
Lines == UNION {[1 .. n -> {"a", "\n", "- ", "1. "}] : n \in 0 .. 4}

MCTexts == FormattedTexts \cup Lines

Editing == INSTANCE Toolbar WITH MaxEdits <- 1, edits <- applied

toolbarVars == <<value, selection, applied, original>>

SignedOut == AuthInit
AtTheDoor == Init /\ auth = Anonymous /\ saved = [d \in Docs |-> None]
EmptyEditor ==
  value = <<>> /\ original = <<>> /\ selection = [start |-> 0, end |-> 0] /\ applied = 0

TabInit ==
  /\ SignedOut /\ Init /\ Editing!Init
  /\ AtTheDoor \/ EmptyEditor

TabNext ==
  \/ EmptyEditor /\ AtTheDoor /\ AuthNext /\ UNCHANGED <<vars, toolbarVars>>
  \/ EmptyEditor /\ SignedOut /\ Next /\ UNCHANGED <<authVars, toolbarVars>>
  \/ SignedOut /\ AtTheDoor /\ Editing!Next /\ UNCHANGED <<authVars, vars>>

TabSpec == TabInit /\ [][TabNext]_<<authVars, vars, toolbarVars>>

\* Toolbar's properties, in the states where the toolbar may move.
WidenedEnough == SignedOut /\ AtTheDoor => Editing!WidenedEnough
OnAndOff == SignedOut /\ AtTheDoor => Editing!OnAndOff
================================================================================
