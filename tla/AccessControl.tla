---------------------------- MODULE AccessControl ----------------------------
(***************************************************************************)
(* What sharing a document promises, with every mechanism left out.  A     *)
(* guest has one role, given by the owner or by a link.  What the owner    *)
(* asks for takes effect at once and whole.  A guest follows a link while  *)
(* it is on offer; at some moment from then on it is weighed against what  *)
(* the guest has, and if it is worth more, the guest may still be given    *)
(* its role later, although the owner may have changed that role or        *)
(* withdrawn the link since.  A withdrawn link is followed by nobody else, *)
(* and takes back what it gave by then if the owner asks.                  *)
(***************************************************************************)
CONSTANTS
  Guests,     \* everyone but the owner
  Offers,     \* the links the owner may offer
  Roles,
  Outranks,   \* the pairs of roles whose first is more than the second
  Requests,   \* what may be under way
  NoLink      \* "given by the owner"

VARIABLES
  access,   \* a guest who has access -> the role, and the link it came by
  gives,    \* a link that was ever offered -> the role it gives
  open,     \* the links that still give theirs
  asked     \* a request under way -> who follows which link, or is to join by it

accessVars == <<access, gives, open, asked>>

Give(u, role, link) ==
  access' = [v \in DOMAIN access \cup {u} |->
               IF v = u THEN [role |-> role, via |-> link] ELSE access[v]]

TakeBack(guests) == access' = [v \in DOMAIN access \ guests |-> access[v]]

AccessInit ==
  /\ access = [u \in {} |-> NoLink]
  /\ gives = [l \in {} |-> NoLink]
  /\ open = {}
  /\ asked = [r \in {} |-> NoLink]

Grant(u, role) == Give(u, role, NoLink) /\ UNCHANGED <<gives, open>>

Remove(u) == TakeBack({u}) /\ UNCHANGED <<gives, open>>

Offer(l, role) ==
  /\ l \notin DOMAIN gives
  /\ gives' = [k \in DOMAIN gives \cup {l} |-> IF k = l THEN role ELSE gives[k]]
  /\ open' = open \cup {l}
  /\ UNCHANGED access

Withdraw(l, takesBack) ==
  /\ l \in open
  /\ open' = open \ {l}
  /\ TakeBack({u \in DOMAIN access : takesBack /\ access[u].via = l})
  /\ UNCHANGED gives

Ask(r, request) ==
  asked' = [q \in DOMAIN asked \cup {r} |-> IF q = r THEN request ELSE asked[q]]

Settle(r) == asked' = [q \in DOMAIN asked \ {r} |-> asked[q]]

Follow(r, u, l) ==
  /\ r \notin DOMAIN asked
  /\ l \in open
  /\ Ask(r, [guest |-> u, link |-> l, stage |-> "follows"])
  /\ UNCHANGED <<access, gives, open>>

\* The link gives more than the guest has: now, and perhaps no longer when it joins.
Weigh(r, u, l) ==
  /\ r \in DOMAIN asked /\ asked[r] = [guest |-> u, link |-> l, stage |-> "follows"]
  /\ u \in DOMAIN access => <<gives[l], access[u].role>> \in Outranks
  /\ Ask(r, [guest |-> u, link |-> l, stage |-> "joins"])
  /\ UNCHANGED <<access, gives, open>>

Join(r, u, l) ==
  /\ r \in DOMAIN asked /\ asked[r] = [guest |-> u, link |-> l, stage |-> "joins"]
  /\ Give(u, gives[l], l)
  /\ Settle(r)
  /\ UNCHANGED <<gives, open>>

\* The link was not worth it, or the request failed.
Quit(r) == Settle(r) /\ UNCHANGED <<access, gives, open>>

OwnerActs ==
  /\ \/ \E u \in Guests, role \in Roles : Grant(u, role)
     \/ \E u \in Guests : Remove(u)
     \/ \E l \in Offers, role \in Roles : Offer(l, role)
     \/ \E l \in Offers, takesBack \in BOOLEAN : Withdraw(l, takesBack)
  /\ UNCHANGED asked

GuestActs == \E r \in Requests :
  \/ \E u \in Guests, l \in Offers : Follow(r, u, l) \/ Weigh(r, u, l) \/ Join(r, u, l)
  \/ Quit(r)

AccessNext == OwnerActs \/ GuestActs

AccessSpec == AccessInit /\ [][AccessNext]_accessVars
==============================================================================
