----------------------------- MODULE AtomicBadge -----------------------------
(***************************************************************************)
(* What the badge promises the clients, with no lock, no ETag and no clock *)
(* in it: there is one SVG, which a request may replace in one step and    *)
(* reads in one step, and when a client has its answer, a 304 or a 200, it *)
(* shows what its request has read.  BadgeCache is shown to implement it.  *)
(***************************************************************************)
CONSTANTS Clients, SVGs, Nobody      \* as in BadgeCache

VARIABLES
  board,    \* the SVG
  stage,    \* per client: "idle", "asked" or "told"
  told,     \* per client: what its request has read
  shown     \* per client: the SVG it shows

vars == <<board, stage, told, shown>>

Goes(c, from, to) == stage[c] = from /\ stage' = [stage EXCEPT ![c] = to]

Init ==
  /\ board \in SVGs
  /\ stage = [c \in Clients |-> "idle"]
  /\ told = [c \in Clients |-> Nobody]
  /\ shown = [c \in Clients |-> Nobody]

Ask(c) ==
  /\ Goes(c, "idle", "asked")
  /\ UNCHANGED <<board, told, shown>>

Replace(c) ==
  /\ stage[c] = "asked"
  /\ board' \in SVGs
  /\ UNCHANGED <<stage, told, shown>>

Read(c) ==
  /\ Goes(c, "asked", "told")
  /\ told' = [told EXCEPT ![c] = board]
  /\ UNCHANGED <<board, shown>>

Show(c) ==
  /\ Goes(c, "told", "idle")
  /\ shown' = [shown EXCEPT ![c] = told[c]]
  /\ told' = [told EXCEPT ![c] = Nobody]
  /\ UNCHANGED board

\* A request that ends without a badge.
GiveUp(c) ==
  /\ Goes(c, "asked", "idle")
  /\ UNCHANGED <<board, told, shown>>

Next == \E c \in Clients : Ask(c) \/ Replace(c) \/ Read(c) \/ Show(c) \/ GiveUp(c)

Spec == Init /\ [][Next]_vars
==============================================================================
