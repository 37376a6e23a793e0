---------------------------- MODULE SignalLedger ----------------------------
(***************************************************************************)
(* What the Worker promises a client that previews and submits, without    *)
(* saying how: an order is entered in the ledger as it was offered, one    *)
(* for a signal and never taken back, and whoever asks about an offer is   *)
(* told the number of its entry, and only when it has one.                 *)
(*                                                                         *)
(* Submission implements this specification.                               *)
(***************************************************************************)
EXTENDS Naturals, Sequences

CONSTANTS Previews, Signals, Orders

VARIABLES
  offered,  \* the offers, at most one for a preview
  ledger,   \* the offers entered, oldest first
  told      \* pairs of a preview and the entry a client was told of

absVars == <<offered, ledger, told>>

Init == offered = {} /\ ledger = <<>> /\ told = {}

MakeOffer(p) ==
  /\ UNCHANGED <<ledger, told>>
  /\ \A e \in offered : e.preview # p
  /\ \E s \in Signals, o \in Orders :
       offered' = offered \cup {[preview |-> p, signal |-> s, order |-> o]}

\* The client whose submission makes the entry is told of it.
Enter(e) ==
  /\ \A k \in DOMAIN ledger : ledger[k].signal # e.signal
  /\ ledger' = Append(ledger, e)
  /\ told' = told \cup {<<e.preview, Len(ledger')>>}
  /\ UNCHANGED offered

Tell(k) ==
  /\ told' = told \cup {<<ledger[k].preview, k>>}
  /\ UNCHANGED <<offered, ledger>>

Next ==
  \/ \E p \in Previews : MakeOffer(p)
  \/ \E e \in offered : Enter(e)
  \/ \E k \in DOMAIN ledger : Tell(k)

Spec == Init /\ [][Next]_absVars
=============================================================================
