---------------------------- MODULE PermitBudget ----------------------------
(***************************************************************************)
(* What a limited-auto permit promises who grants it, without saying how:  *)
(* it is a budget of orders.  One permit at most is open; only an open one *)
(* that is not suspended is spent from, MaxOrders times in all; one that   *)
(* was closed stays closed; and each order spent is sent once at most.     *)
(*                                                                         *)
(* AutoPermit implements this specification.                               *)
(***************************************************************************)
EXTENDS Naturals, FiniteSets

CONSTANTS Orders, MaxOrders

VARIABLES
  issued,  \* the number of permits so far; they are numbered as they come
  open,    \* the permit that was not closed, if there is one
  active,  \* that permit, if it is not suspended
  spent,   \* the permit each order was spent from, or 0
  sent     \* the orders passorder was called for

absVars == <<issued, open, active, spent, sent>>

Init ==
  /\ issued = 0
  /\ open = {} /\ active = {}
  /\ spent = [o \in Orders |-> 0]
  /\ sent = {}

\* A new permit closes the one before.
Issue ==
  /\ issued' = issued + 1
  /\ open' = {issued + 1} /\ active' = {issued + 1}
  /\ UNCHANGED <<spent, sent>>

Suspend ==
  /\ active' = {}
  /\ UNCHANGED <<issued, open, spent, sent>>

Resume ==
  /\ active' = open
  /\ UNCHANGED <<issued, open, spent, sent>>

Close ==
  /\ open' = {} /\ active' = {}
  /\ UNCHANGED <<issued, spent, sent>>

Spend(o, p) ==
  /\ p \in active /\ spent[o] = 0
  /\ Cardinality({r \in Orders : spent[r] = p}) < MaxOrders
  /\ spent' = [spent EXCEPT ![o] = p]
  /\ UNCHANGED <<issued, open, active, sent>>

Send(o) ==
  /\ spent[o] # 0 /\ o \notin sent
  /\ sent' = sent \cup {o}
  /\ UNCHANGED <<issued, open, active, spent>>

Next ==
  \/ Issue \/ Suspend \/ Resume \/ Close
  \/ \E o \in Orders : Send(o) \/ \E p \in active : Spend(o, p)

Spec == Init /\ [][Next]_absVars
=============================================================================
