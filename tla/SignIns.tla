------------------------------- MODULE SignIns -------------------------------
(***************************************************************************)
(* What an account promises whoever signs in to it, with requests, tabs    *)
(* and passwords left out: a sign-in holds one token at a time; renewing   *)
(* replaces it by one never issued before; a sign-in that has ended is     *)
(* over for good; a reset ends all of them at once.                        *)
(***************************************************************************)
CONSTANTS Ids, Tokens

VARIABLES
  begun,    \* the sign-ins there have been
  issued,   \* the tokens there have been
  holds     \* [signIn, token]: a sign-in that has not ended, and the token it has

signInVars == <<begun, issued, holds>>

Hold(s, t) == [signIn |-> s, token |-> t]

SignInsInit == begun = {} /\ issued = {} /\ holds = {}

Begin(s, t) ==
  /\ s \notin begun /\ begun' = begun \cup {s}
  /\ t \notin issued /\ issued' = issued \cup {t}
  /\ holds' = holds \cup {Hold(s, t)}

Renew(h, t) ==
  /\ h \in holds
  /\ t \notin issued /\ issued' = issued \cup {t}
  /\ holds' = (holds \ {h}) \cup {Hold(h.signIn, t)}
  /\ UNCHANGED begun

End(h) ==
  /\ h \in holds /\ holds' = holds \ {h}
  /\ UNCHANGED <<begun, issued>>

EndAll == holds' = {} /\ UNCHANGED <<begun, issued>>

SignInsNext ==
  \/ \E s \in Ids, t \in Tokens : Begin(s, t)
  \/ \E h \in holds, t \in Tokens : Renew(h, t)
  \/ \E h \in holds : End(h)
  \/ EndAll

SignInsSpec == SignInsInit /\ [][SignInsNext]_signInVars
==============================================================================
