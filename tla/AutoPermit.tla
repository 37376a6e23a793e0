----------------------------- MODULE AutoPermit -----------------------------
(***************************************************************************)
(* The limited-auto permits of one account: how they begin, pause, resume  *)
(* and end in the Worker's database, and how the adapter comes to know it. *)
(*                                                                         *)
(* Every operation is a database transaction followed by file writes: the  *)
(* halt document, then the signed authorization.  The operations run in    *)
(* the threads of the Worker's HTTP server and in the local console, a     *)
(* process of its own.  Nothing holds a lock from the transaction to the   *)
(* write, and the adapter reads the files whenever it finds a command.     *)
(*                                                                         *)
(* Abstractions.  A permit's policy is its number of orders; whatever else *)
(* it limits, and every readiness check but that for unknown orders, may   *)
(* refuse an operation at any time, so it appears as a step not taken or   *)
(* as Refuse.  A revoking authorization, a manual one and an expired one   *)
(* authorize no automatic order and are NoGrant.  Send stands for the      *)
(* adapter's validation, journal and call, which OrderPipeline separates.  *)
(***************************************************************************)
EXTENDS Naturals, Sequences, FiniteSets

CONSTANTS
  Orders,         \* the automatic orders
  RpcThreads,     \* threads of the Worker's HTTP server
  Console,        \* the local console
  MaxOrders,      \* max_orders of every policy
  MaxGeneration   \* bound on auto_generation

Threads == RpcThreads \cup {Console}

ASSUME ConsoleAssumption == Console \notin RpcThreads
ASSUME BoundsAssumption == MaxOrders \in Nat /\ MaxGeneration \in Nat

\* Where an order is once passorder was called for it: the call returned; it
\* raised, and the Worker is yet to hear of it; its intent is SUBMIT_UNKNOWN.
Called == {"sent", "uncertain", "unknown"}

\* permit_id and generation of a policy; permits are numbered as they come.
Grant == [permit : Nat, generation : Nat]
NoGrant == [permit |-> 0, generation |-> 0]

VARIABLES
  \* the database
  mode,           \* system_state.mode: "LIMITED_AUTO" or "OTHER"
  halted,         \* system_state.halted
  generation,     \* system_state.auto_generation
  permits,        \* the rows of auto_permits, oldest first
  orders,         \* the intents and their auto_permit_usage rows
  \* the runtime folder of the adapter
  haltFile,       \* local_halt.json says halted
  authorization,  \* the grant of local_authorization.json
  pauseFile,      \* the grant limited_auto_pause.json names
  \* what each thread has committed and not yet written
  haltTodo,       \* "none", "set" or "clear"
  grantTodo,      \* {} or the grant of the document to write
  stamp,          \* history: the generation as of the thread's transaction
  \* history
  newest,         \* the largest stamp of a document written
  overtaken,      \* an older document was written over a newer one
  lost            \* a thread stopped between its transaction and a write

dbVars      == <<mode, halted, generation, permits>>
fileVars    == <<haltFile, authorization, pauseFile>>
todoVars    == <<haltTodo, grantTodo, stamp>>
historyVars == <<newest, overtaken, lost>>
vars == <<mode, halted, generation, permits, orders, haltFile,
          authorization, pauseFile, haltTodo, grantTodo, stamp, newest,
          overtaken, lost>>

TypeOK ==
  /\ mode \in {"LIMITED_AUTO", "OTHER"}
  /\ halted \in BOOLEAN
  /\ generation \in Nat
  /\ permits \in Seq([status : {"ACTIVE", "PAUSED", "REVOKED"}, generation : Nat])
  /\ orders \in [Orders -> [stage : {"none", "queued", "refused"} \cup Called,
                            grant : Grant]]
  /\ haltFile \in BOOLEAN
  /\ authorization \in Grant
  /\ pauseFile \in Grant
  /\ haltTodo \in [Threads -> {"none", "set", "clear"}]
  /\ grantTodo \in [Threads -> SUBSET Grant]
  /\ stamp \in [Threads -> Nat]
  /\ newest \in Nat
  /\ overtaken \in BOOLEAN /\ lost \in BOOLEAN

Init ==
  /\ mode = "LIMITED_AUTO"
  /\ halted = FALSE
  /\ generation = 0
  /\ permits = <<>>
  /\ orders = [o \in Orders |-> [stage |-> "none", grant |-> NoGrant]]
  /\ haltFile = FALSE
  /\ authorization = NoGrant
  /\ pauseFile = NoGrant
  /\ haltTodo = [t \in Threads |-> "none"]
  /\ grantTodo = [t \in Threads |-> {}]
  /\ stamp = [t \in Threads |-> 0]
  /\ newest = 0
  /\ overtaken = FALSE
  /\ lost = FALSE

-----------------------------------------------------------------------------
(* The transactions.                                                       *)

Idle(t) == haltTodo[t] = "none" /\ grantTodo[t] = {}

\* The thread goes on to write these documents.
Owes(t, halt, grants) ==
  /\ Idle(t)
  /\ haltTodo' = [haltTodo EXCEPT ![t] = halt]
  /\ grantTodo' = [grantTodo EXCEPT ![t] = grants]
  /\ stamp' = [stamp EXCEPT ![t] = generation']
  /\ UNCHANGED <<orders, fileVars, historyVars>>

\* _next_auto_generation
NextGeneration ==
  /\ generation < MaxGeneration
  /\ generation' = generation + 1

\* The permits, those that could still be used revoked.
AllRevoked == [p \in DOMAIN permits |-> [permits[p] EXCEPT !.status = "REVOKED"]]

\* _active_auto_permit_row
Active(p) == permits[p].status = "ACTIVE" /\ permits[p].generation = generation

\* The checks of _limited_auto_health_reasons that concern this state.
Healthy ==
  /\ mode = "LIMITED_AUTO"
  /\ ~halted
  /\ \A o \in Orders : orders[o].stage # "unknown"

\* authorize_limited_auto supersedes every other permit.
Authorize(t) ==
  /\ t \in RpcThreads
  /\ Healthy
  /\ NextGeneration
  /\ permits' = Append(AllRevoked,
                       [status |-> "ACTIVE", generation |-> generation'])
  /\ Owes(t, "none", {[permit |-> Len(permits'), generation |-> generation']})
  /\ UNCHANGED <<mode, halted>>

\* Mutant: the pause is left to the database.
PauseUnwritten(t) ==
  /\ t \in RpcThreads
  /\ NextGeneration
  /\ \E p \in DOMAIN permits :
       Active(p) /\ permits' = [permits EXCEPT ![p].status = "PAUSED"]
  /\ Owes(t, "none", {})
  /\ UNCHANGED <<mode, halted>>

\* _pause_active_auto_permit, called when a readiness check or a submission
\* meets a serious reason.
Pause(t) ==
  /\ t \in RpcThreads
  /\ NextGeneration
  /\ \E p \in DOMAIN permits :
       Active(p) /\ permits' = [permits EXCEPT ![p].status = "PAUSED"]
  /\ Owes(t, "none", {NoGrant})
  /\ UNCHANGED <<mode, halted>>

\* Mutant: the permit comes back under the generation it was paused with.
ResumeUnrotated(t) ==
  /\ t \in RpcThreads
  /\ Healthy
  /\ NextGeneration
  /\ \E p \in DOMAIN permits :
       /\ permits[p].status = "PAUSED"
       /\ permits' = [permits EXCEPT ![p].status = "ACTIVE"]
       /\ Owes(t, "none", {[permit |-> p, generation |-> permits[p].generation]})
  /\ UNCHANGED <<mode, halted>>

\* resume_limited_auto gives the paused permit the next generation.
Resume(t) ==
  /\ t \in RpcThreads
  /\ Healthy
  /\ NextGeneration
  /\ \E p \in DOMAIN permits :
       /\ permits[p].status = "PAUSED"
       /\ permits' = [permits EXCEPT ![p] =
                        [status |-> "ACTIVE", generation |-> generation']]
       /\ Owes(t, "none", {[permit |-> p, generation |-> generation']})
  /\ UNCHANGED <<mode, halted>>

\* Mutant: the ended permits are marked with the status the report shows.
RevokeAsExpired(t) ==
  /\ t \in RpcThreads
  /\ NextGeneration
  /\ permits' = [p \in DOMAIN permits |-> [permits[p] EXCEPT !.status = "EXPIRED"]]
  /\ Owes(t, "none", {NoGrant})
  /\ UNCHANGED <<mode, halted>>

\* revoke_limited_auto ends the latest permit; the others have ended before.
Revoke(t) ==
  /\ t \in RpcThreads
  /\ NextGeneration
  /\ permits' = AllRevoked
  /\ Owes(t, "none", {NoGrant})
  /\ UNCHANGED <<mode, halted>>

\* halt_trading revokes, halts, and writes both documents; the halt of the
\* console, which writes no authorization, relies on the halt document.
Halt(t) ==
  /\ NextGeneration
  /\ permits' = AllRevoked
  /\ halted' = TRUE
  /\ Owes(t, "set", IF t = Console THEN {} ELSE {NoGrant})
  /\ UNCHANGED mode

\* console clear-halt
ClearHalt ==
  /\ halted
  /\ halted' = FALSE
  /\ mode' = "OTHER"
  /\ UNCHANGED <<generation, permits>>
  /\ Owes(Console, "clear", {NoGrant})

\* console set-mode, once the adapters' configuration is synchronized
SetMode(m) ==
  /\ ~halted
  /\ NextGeneration
  /\ permits' = AllRevoked
  /\ mode' = m
  /\ Owes(Console, "none", {NoGrant})
  /\ UNCHANGED halted

\* console enable-live replaces the authorization in any mode.
EnableLive ==
  /\ UNCHANGED dbVars
  /\ Owes(Console, "none", {NoGrant})

-----------------------------------------------------------------------------
(* The documents.                                                          *)

\* write_adapter_halt, _write_halt_files
WriteHalt(t) ==
  /\ haltTodo[t] # "none"
  /\ haltFile' = (haltTodo[t] = "set")
  /\ haltTodo' = [haltTodo EXCEPT ![t] = "none"]
  /\ UNCHANGED <<dbVars, orders, authorization, pauseFile, grantTodo,
                 stamp, newest, overtaken, lost>>

\* _write_local_authorization, _write_authorization
WriteAuthorization(t) ==
  /\ haltTodo[t] = "none"
  /\ authorization' \in grantTodo[t]
  /\ grantTodo' = [grantTodo EXCEPT ![t] = {}]
  /\ overtaken' = (overtaken \/ stamp[t] < newest)
  /\ newest' = IF newest < stamp[t] THEN stamp[t] ELSE newest
  /\ UNCHANGED <<dbVars, orders, haltFile, pauseFile, haltTodo, stamp,
                 lost>>

\* A write raises, or the process stops: what is left is never written.
Stops(t) ==
  /\ ~Idle(t)
  /\ haltTodo' = [haltTodo EXCEPT ![t] = "none"]
  /\ grantTodo' = [grantTodo EXCEPT ![t] = {}]
  /\ lost' = TRUE
  /\ UNCHANGED <<dbVars, orders, fileVars, stamp, newest, overtaken>>

-----------------------------------------------------------------------------
(* The orders.                                                             *)

\* The orders reserved under permit p, in whatever generation.
Reserved(p) == {o \in Orders : orders[o].grant.permit = p}

\* _limited_auto_policy_reasons: permit p has an order left.
WithinPolicy(p) == Cardinality(Reserved(p)) < MaxOrders

\* Those the adapter has journalled.
Journalled(p) == {o \in Reserved(p) : orders[o].stage \in Called}

\* Mutant: the usage starts anew with each generation.
SubmitPerGeneration(o) ==
  /\ orders[o].stage = "none"
  /\ Healthy
  /\ \E p \in DOMAIN permits :
       /\ Active(p)
       /\ Cardinality({r \in Reserved(p) :
                         orders[r].grant.generation = generation}) < MaxOrders
       /\ orders' = [orders EXCEPT ![o] =
            [stage |-> "queued",
             grant |-> [permit |-> p, generation |-> generation]]]
  /\ UNCHANGED <<dbVars, fileVars, todoVars, historyVars>>

\* submit_trade_intent checks the permit and reserves the order in the
\* transaction that commits the intent.
Submit(o) ==
  /\ orders[o].stage = "none"
  /\ Healthy
  /\ \E p \in DOMAIN permits :
       /\ Active(p) /\ WithinPolicy(p)
       /\ orders' = [orders EXCEPT ![o] =
            [stage |-> "queued",
             grant |-> [permit |-> p, generation |-> generation]]]
  /\ UNCHANGED <<dbVars, fileVars, todoVars, historyVars>>

\* Mutant: the adapter compares the permit and not the generation.
MaySendAnyGeneration(o) ==
  LET g == orders[o].grant
  IN  /\ orders[o].stage = "queued"
      /\ ~haltFile
      /\ authorization.permit = g.permit
      /\ pauseFile # g
      /\ Cardinality(Journalled(g.permit)) < MaxOrders

\* _validate_execute: no halt, the authorization of the order's own permit and
\* generation, no pause of it, and its quota by the adapter's own count.
MaySend(o) ==
  LET g == orders[o].grant
  IN  /\ orders[o].stage = "queued"
      /\ ~haltFile
      /\ authorization = g
      /\ pauseFile # g
      /\ Cardinality(Journalled(g.permit)) < MaxOrders

\* The order is journalled and passorder called; when that is uncertain the
\* adapter pauses the permit for the generation.
Send(o) ==
  /\ MaySend(o)
  /\ \/ /\ orders' = [orders EXCEPT ![o].stage = "sent"]
        /\ UNCHANGED pauseFile
     \/ /\ orders' = [orders EXCEPT ![o].stage = "uncertain"]
        /\ pauseFile' = orders[o].grant
  /\ UNCHANGED <<dbVars, haltFile, authorization, todoVars, historyVars>>

\* Any other check fails, or the command is too old: the adapter pauses the
\* permit, in the generation the command was committed under.
Refuse(o) ==
  /\ orders[o].stage = "queued"
  /\ orders' = [orders EXCEPT ![o].stage = "refused"]
  /\ pauseFile' = orders[o].grant
  /\ UNCHANGED <<dbVars, haltFile, authorization, todoVars, historyVars>>

\* The queue loop ingests SUBMIT_UNKNOWN ...
IngestUnknown(o) ==
  /\ orders[o].stage = "uncertain"
  /\ orders' = [orders EXCEPT ![o].stage = "unknown"]
  /\ UNCHANGED <<dbVars, fileVars, todoVars, historyVars>>

\* ... and later an order event, which tells what became of the order.
Resolve(o) ==
  /\ orders[o].stage = "unknown"
  /\ orders' = [orders EXCEPT ![o].stage = "sent"]
  /\ UNCHANGED <<dbVars, fileVars, todoVars, historyVars>>

-----------------------------------------------------------------------------
Operate(t) ==
  \/ Authorize(t)
  \/ Pause(t)
  \/ Resume(t)
  \/ Revoke(t)
  \/ Halt(t)

Next ==
  \/ \E t \in Threads :
       Operate(t) \/ WriteHalt(t) \/ WriteAuthorization(t) \/ Stops(t)
  \/ ClearHalt
  \/ \E m \in {"LIMITED_AUTO", "OTHER"} : SetMode(m)
  \/ EnableLive
  \/ \E o \in Orders : Submit(o) \/ Send(o) \/ Refuse(o)
                          \/ IngestUnknown(o) \/ Resolve(o)

Spec == Init /\ [][Next]_vars

-----------------------------------------------------------------------------
(* Properties.                                                             *)

\* One permit at most can still be used or resumed, and one that is ACTIVE has
\* the account's generation: no end of a permit, by whichever operation, leaves
\* an older one behind that a later generation could bring back.
OneCurrentPermit ==
  /\ \A p, q \in DOMAIN permits :
       permits[p].status # "REVOKED" /\ permits[q].status # "REVOKED" => p = q
  /\ \A p \in DOMAIN permits : permits[p].status = "ACTIVE" => Active(p)

\* A permit's number of orders bounds what is committed under it and what is
\* sent, however often it is paused and resumed.
QuotaSurvivesResume ==
  \A p \in DOMAIN permits : Cardinality(Reserved(p)) <= MaxOrders

\* The budget of a permit: the permits of a status, the permit of each order's
\* grant, and the orders sent.
OfStatus(S) == {p \in DOMAIN permits : permits[p].status \in S}

Budget == INSTANCE PermitBudget
  WITH issued <- Len(permits), open <- OfStatus({"ACTIVE", "PAUSED"}),
       active <- OfStatus({"ACTIVE"}), spent <- [o \in Orders |-> orders[o].grant.permit],
       sent <- {o \in Orders : orders[o].stage \in Called}

\* Whatever threads and console do to permits, and whatever documents the
\* adapter comes to act on, orders are committed under the one open permit while
\* it is not paused, none under one that has ended, and each is sent once.
ImplementsBudget == Budget!Spec

\* The grant is that of the permit in force.
InForce(g) ==
  \E p \in DOMAIN permits :
    Active(p) /\ g = [permit |-> p, generation |-> permits[p].generation]

\* When every operation has returned, none was overtaken and none stopped half
\* way, the adapter can act on no permit but the one in force.
AuthorizationIsCurrent ==
  (\A t \in Threads : Idle(t)) /\ ~overtaken /\ ~lost =>
    haltFile \/ authorization = NoGrant \/ InForce(authorization)

\* The step calls passorder for o.
Sends(o) == orders[o].stage = "queued" /\ orders'[o].stage \in Called

\* A command of a generation that a written document has replaced is not sent,
\* unless an overtaken thread put the old document back: a paused permit that
\* is resumed does not bring its old commands back to life.
OldCommandsDie ==
  [][\A o \in Orders :
       Sends(o) => orders[o].grant.generation >= newest \/ overtaken]_vars

\* docs/P1-VALIDATION.zh-CN.md:15: after an uncertain submission the adapter is
\* paused, for every command of that permit and generation.
UncertaintyPauses ==
  [][\A o, u \in Orders :
       orders[u].stage \in {"uncertain", "unknown"} /\ Sends(o) =>
         orders[o].grant # orders[u].grant]_vars
=============================================================================
