--------------------------- MODULE OneShotOrder ---------------------------
(***************************************************************************)
(* What the bridge promises about one trade intent, without saying how:    *)
(* an intent is committed once, the adapter attempts it at most once, an   *)
(* attempt calls QMT's passorder at most once, and an attempt that was     *)
(* interrupted is given up for good.  Only one attempt is under way at a   *)
(* time, because QMT runs the adapter's tasks one after another.           *)
(*                                                                         *)
(* OrderPipeline implements this specification (ImplementsOneShot there,   *)
(* proved in OrderPipelineProofs).                                         *)
(***************************************************************************)
EXTENDS Naturals

CONSTANTS
  Intents,      \* the trade intents
  NoIntent      \* stands for "no intent"

VARIABLES
  stage,        \* stage[i]: "absent", "committed" or "attempted"
  attempt,      \* the intent being attempted now, or NoIntent
  calls         \* calls[i]: the passorder calls made for i

absVars == <<stage, attempt, calls>>

Init ==
  /\ stage = [i \in Intents |-> "absent"]
  /\ attempt = NoIntent
  /\ calls = [i \in Intents |-> 0]

\* A preview became an intent.
Commit(i) ==
  /\ stage[i] = "absent"
  /\ stage' = [stage EXCEPT ![i] = "committed"]
  /\ UNCHANGED <<attempt, calls>>

\* The decision to call passorder for i, taken once and made durable.
Attempt(i) ==
  /\ attempt = NoIntent
  /\ stage[i] = "committed"
  /\ stage' = [stage EXCEPT ![i] = "attempted"]
  /\ attempt' = i
  /\ UNCHANGED calls

\* The only call of passorder; it ends the attempt.
Call(i) ==
  /\ attempt = i
  /\ calls' = [calls EXCEPT ![i] = @ + 1]
  /\ attempt' = NoIntent
  /\ UNCHANGED stage

\* The attempt ends without a call, and is never taken up again.
GiveUp ==
  /\ attempt # NoIntent
  /\ attempt' = NoIntent
  /\ UNCHANGED <<stage, calls>>

Next ==
  \/ \E i \in Intents : Commit(i) \/ Attempt(i) \/ Call(i)
  \/ GiveUp

Spec == Init /\ [][Next]_absVars
=============================================================================
