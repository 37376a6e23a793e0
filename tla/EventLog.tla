------------------------------ MODULE EventLog ------------------------------
(***************************************************************************)
(* What the Worker promises about the events an adapter writes, without    *)
(* saying how: every event is applied at most once, in the order they were *)
(* written; it is dropped only when it is unusable or too old; and one     *)
(* that was dropped as too old may still come late.                        *)
(*                                                                         *)
(* EventIngest implements this specification.                              *)
(***************************************************************************)
EXTENDS Naturals, Sequences, Functions

CONSTANT Events   \* what an event can be

VARIABLES
  written,  \* the events, in the order the adapter wrote them
  applied,  \* numbers of the events applied, in the order they were
  dropped,  \* numbers of the events given up
  usable    \* usable[e]: events of kind e can be applied

absVars == <<written, applied, dropped, usable>>

Init ==
  /\ written = <<>>
  /\ applied = <<>>
  /\ dropped = {}
  /\ usable \in [Events -> BOOLEAN]

Write ==
  /\ \E e \in Events : written' = Append(written, e)
  /\ UNCHANGED <<applied, dropped, usable>>

Decided == Range(applied) \cup dropped

\* The next event is the first that was neither applied nor dropped; events
\* that cannot be applied do not hold up the ones behind them for ever, because
\* they are dropped.
Apply(i) ==
  /\ i \in DOMAIN written \ Range(applied)
  /\ usable[written[i]]
  /\ i \in dropped \/ \A j \in 1..(i - 1) : j \in Decided
  /\ applied' = Append(applied, i)
  /\ UNCHANGED <<written, dropped, usable>>

Drop(i) ==
  /\ i \in DOMAIN written \ dropped
  /\ dropped' = dropped \cup {i}
  /\ UNCHANGED <<written, applied, usable>>

Next == Write \/ \E i \in DOMAIN written : Apply(i) \/ Drop(i)

Spec == Init /\ [][Next]_absVars
=============================================================================
