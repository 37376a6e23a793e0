--------------------------- MODULE ControlCommands ---------------------------
(***************************************************************************)
(* Synchronization, the preparation of a trade, and cancellation.          *)
(*                                                                         *)
(* request_sync has the adapter read accounts, positions, orders, deals    *)
(* and quotes, one after the other, and report each in an event of its     *)
(* own; the acknowledgement comes last, in another folder.  prepare_trade  *)
(* waits for the acknowledgement and for an empty events folder, and takes *)
(* what the database has then for fresh.  cancel_order looks for an        *)
(* earlier cancellation of the order and queues a command if there is      *)
(* none; nothing else keeps cancel() from being called twice.  A           *)
(* cancellation's command carries the intent of the order, and its         *)
(* acknowledgement becomes the status of both.                             *)
(*                                                                         *)
(* Abstractions.  A reading is known by its time: the number of            *)
(* preparations that had begun.  The folders are read in any order, where  *)
(* scan_once reads events before acknowledgements.  QMT's callbacks carry  *)
(* the state at the time of the call.  One account, one symbol traded, and *)
(* one order cancelled, in a mode that allows it: QMT has accepted it and  *)
(* the Worker knows; ENDED stands for FILLED, CANCELLED and the like.  The *)
(* events about it are those of callbacks and of the reconciliation, which *)
(* come at any time.  A preparation that gives up after its timeout is one *)
(* that does not look again.  The adapter is one thread.                   *)
(***************************************************************************)
EXTENDS CommandChannel, SequencesExt

CONSTANTS
  ScopeOrder, \* what prepare_trade asks for, in the order of _emit_snapshots
  Requests,   \* the sets of scopes others ask for
  UsedPushes, \* the events of callbacks and periodic tasks to consider ...
  MaxPushes   \* ... and the bound on their number

Scopes == Range(ScopeOrder)
CreditScopes == {"CREDIT_ACCOUNT", "CREDIT_DEBT", "CREDIT_ELIGIBILITY"}

\* What callbacks and periodic tasks report: HOLDING is a position_callback for
\* a symbol other than the one traded.
Pushed == (Scopes \ {"QUOTE"}) \cup {"HOLDING"}

ASSUME ControlAssumption ==
  /\ Commands \subseteq Nat
  /\ ScopeOrder \in Seq({"ACCOUNT", "POSITION", "ORDER", "DEAL", "QUOTE"})
  /\ UsedPushes \subseteq Pushed
  /\ Requests \subseteq SUBSET (Scopes \cup CreditScopes)
  /\ MaxPushes \in Nat

\* Statuses of an intent that an acknowledgement other than QMT_REJECTED leaves.
Terminal == {"ENDED", "QMT_REJECTED"}

Event == [about : Scopes \cup Pushed, read : Nat]

VARIABLES
  \* the Worker
  kind,       \* qmt_commands.command_type, "NONE" before the request
  known,      \* orders.status of the order cancelled
  intent,     \* trade_intents.status of its intent
  view,       \* the newest snapshot of each scope: when it was read
  wanted,     \* the scopes of a sync command
  waiter,     \* where the prepare_trade of a sync command is
  canceller,  \* where the cancel_order of a command is
  events,     \* the events folder, oldest first
  \* the adapter
  syncing,    \* the sync command whose snapshots it emits, or NoCommand
  todo,       \* the scopes left to emit
  \* history
  clock,      \* the preparations begun so far
  asked,      \* when that of a sync command began
  emitted,    \* the scopes emitted for a sync command
  calls,      \* the calls of cancel() for a command
  raced,      \* cancellations looked for while another was about to be queued
  withheld,   \* events that were lost, and accounts QMT did not give
  pushes      \* the events of callbacks and periodic tasks so far

requestVars == <<kind, wanted, waiter, clock, asked>>
cancelVars  == <<canceller, raced>>
orderVars   == <<known, intent>>
emitVars    == <<syncing, todo, emitted>>
controlVars == <<kind, orderVars, view, wanted, waiter, canceller, events, syncing, todo, clock,
                 asked, emitted, calls, raced, withheld, pushes>>
vars == <<channelVars, controlVars>>

NoView == [s \in Scopes |-> 0]

TypeOK ==
  /\ ChannelTypeOK
  /\ kind \in [Commands -> {"NONE", "REQUEST_SYNC", "CANCEL_ORDER"}]
  /\ known \in {"ORDER_ACCEPTED", "ENDED"}
  /\ intent \in {"ORDER_ACCEPTED", "ENDED", "CANCEL_REQUESTED", "QMT_REJECTED"}
  /\ view \in [Scopes -> Nat]
  /\ wanted \in [Commands -> SUBSET (Scopes \cup CreditScopes)]
  /\ waiter \in [Commands -> {"none", "waiting", "completed", "drained", "over"}]
  /\ canceller \in [Commands -> {"none", "checked", "queued", "duplicate"}]
  /\ events \in Seq(Event)
  /\ syncing \in Commands \cup {NoCommand}
  /\ todo \in SUBSET Scopes
  /\ clock \in Nat
  /\ asked \in [Commands -> Nat]
  /\ emitted \in [Commands -> SUBSET Scopes]
  /\ calls \in [Commands -> Nat]
  /\ raced \in SUBSET Commands
  /\ withheld \in SUBSET Event
  /\ pushes \in 0..MaxPushes

Init ==
  /\ ChannelInit
  /\ kind = [m \in Commands |-> "NONE"]
  /\ known = "ORDER_ACCEPTED" /\ intent = "ORDER_ACCEPTED"
  /\ view = NoView
  /\ wanted = [m \in Commands |-> {}]
  /\ waiter = [m \in Commands |-> "none"]
  /\ canceller = [m \in Commands |-> "none"]
  /\ events = <<>>
  /\ syncing = NoCommand
  /\ todo = {}
  /\ clock = 0
  /\ asked = [m \in Commands |-> 0]
  /\ emitted = [m \in Commands |-> {}]
  /\ calls = [m \in Commands |-> 0]
  /\ raced = {}
  /\ withheld = {}
  /\ pushes = 0

-----------------------------------------------------------------------------
(* The Worker.                                                             *)

\* A request takes the next number.
Takes(m) ==
  /\ kind[m] = "NONE" /\ canceller[m] = "none"
  /\ \A c \in Commands : c < m => kind[c] # "NONE" \/ canceller[c] # "none"

\* The command is queued as one of type t.
Queues(m, t) ==
  /\ QueueCommand(m)
  /\ kind' = [kind EXCEPT ![m] = t]

\* request_sync, called as such ...
RequestSync(m, S) ==
  /\ Takes(m) /\ Queues(m, "REQUEST_SYNC")
  /\ wanted' = [wanted EXCEPT ![m] = S]
  /\ UNCHANGED <<orderVars, view, waiter, cancelVars, events, emitVars, clock,
                 asked, calls, withheld, pushes>>

\* ... or by prepare_trade.
Prepare(m) ==
  /\ Takes(m) /\ Queues(m, "REQUEST_SYNC")
  /\ wanted' = [wanted EXCEPT ![m] = Scopes]
  /\ waiter' = [waiter EXCEPT ![m] = "waiting"]
  /\ clock' = clock + 1
  /\ asked' = [asked EXCEPT ![m] = clock + 1]
  /\ UNCHANGED <<orderVars, view, cancelVars, events, emitVars, calls, withheld,
                 pushes>>

Waits(m, from, to) ==
  /\ waiter[m] = from
  /\ waiter' = [waiter EXCEPT ![m] = to]
  /\ UNCHANGED <<channelVars, kind, orderVars, view, wanted, cancelVars, events,
                 emitVars, clock, asked, calls, withheld, pushes>>

\* Mutant: the depth is read before the status.
LooksAtDepthFirst(m) ==
  \/ events = <<>> /\ Waits(m, "waiting", "completed")
  \/ events # <<>> /\ Waits(m, "waiting", "waiting")
  \/ cmd[m] = "SYNC_COMPLETED" /\ Waits(m, "completed", "drained")
  \/ cmd[m] # "SYNC_COMPLETED" /\ Waits(m, "completed", "waiting")

\* A turn of prepare_trade's loop: it reads the status of its command,
\* and then the depth of the events folder.
Looks(m) ==
  \/ cmd[m] = "SYNC_COMPLETED" /\ Waits(m, "waiting", "completed")
  \/ cmd[m] = "QMT_REJECTED" /\ Waits(m, "waiting", "over")
  \/ events = <<>> /\ Waits(m, "completed", "drained")
  \/ events # <<>> /\ Waits(m, "completed", "waiting")

\* preview_trade reads the snapshots.
Preview(m) == Waits(m, "drained", "over")

\* Mutant: a run of positions begun by a callback has its symbol only.
AppliedAlone(e) ==
  IF e.about = "HOLDING" THEN [view EXCEPT !["POSITION"] = 0]
  ELSE [view EXCEPT ![e.about] = e.read]

\* _on_..._snapshot, _on_order_event and _on_trade_event; _on_position_event
\* copies the other symbols of the newest run.
Applied(e) ==
  IF e.about = "HOLDING" THEN view ELSE [view EXCEPT ![e.about] = e.read]

IngestEvent ==
  /\ events # <<>>
  /\ view' = Applied(Head(events))
  /\ events' = Tail(events)
  /\ UNCHANGED <<channelVars, orderVars, requestVars, cancelVars, emitVars, calls,
                 withheld, pushes>>

\* An event is too large or too old, and is moved to the dead letters.
EventBuried ==
  /\ events # <<>> /\ Fault
  /\ events' = Tail(events)
  /\ withheld' = withheld \cup {Head(events)}
  /\ UNCHANGED <<cmd, folderVars, pollVars, refused, unanswered, orderVars, view,
                 requestVars, cancelVars, emitVars, calls, pushes>>

\* The commands a cancel_order would find, and the requests about to queue one.
Prior == {c \in Commands : kind[c] = "CANCEL_ORDER"}
Racing == {c \in Commands : canceller[c] = "checked"}

Checks(m, to) ==
  /\ Takes(m)
  /\ canceller' = [canceller EXCEPT ![m] = to]
  /\ UNCHANGED <<channelVars, orderVars, view, requestVars, events, emitVars, calls,
                 withheld, pushes>>

\* Mutant: a cancellation already answered is no prior one.
CheckCancelPending(m) ==
  /\ known = "ORDER_ACCEPTED"
  /\ \A c \in Prior : cmd[c] \in AckStatus
  /\ Checks(m, "checked")
  /\ raced' = IF Racing = {} THEN raced ELSE raced \cup {m}

\* cancel_order finds the order active and no cancellation of it, ...
CheckCancel(m) ==
  /\ known = "ORDER_ACCEPTED" /\ Prior = {}
  /\ Checks(m, "checked")
  /\ raced' = IF Racing = {} THEN raced ELSE raced \cup {m}

\* ... or answers with the one it finds, ...
Duplicate(m) ==
  /\ known = "ORDER_ACCEPTED" /\ Prior # {}
  /\ Checks(m, "duplicate")
  /\ UNCHANGED raced

\* ... and queues its command in another transaction.
QueueCancel(m) ==
  /\ canceller[m] = "checked" /\ Queues(m, "CANCEL_ORDER")
  /\ canceller' = [canceller EXCEPT ![m] = "queued"]
  /\ UNCHANGED <<orderVars, view, wanted, waiter, clock, asked, raced, events,
                 emitVars, calls, withheld, pushes>>

\* _on_command_ack: the acknowledgement of a cancellation is the status of the
\* intent too, QMT_REJECTED whatever it was, CANCEL_REQUESTED if it had not ended.
StatusAfter(a) ==
  IF kind[a.command] = "CANCEL_ORDER" /\ (a.status = "QMT_REJECTED" \/ intent \notin Terminal)
  THEN a.status ELSE intent

IngestCommandAck ==
  /\ IngestAck
  /\ intent' = StatusAfter(Head(acks))
  /\ UNCHANGED <<known, view, requestVars, cancelVars, events, emitVars,
                 calls, withheld, pushes>>

\* _on_order_event: what an event says is the status of order and intent.  The
\* order ends in QMT, cancelled or not, after somebody looked for a cancellation.
OrderReported ==
  /\ Racing \cup Prior # {}
  /\ known' \in {known, "ENDED"}
  /\ intent' = known'
  /\ UNCHANGED <<channelVars, view, requestVars, cancelVars, events,
                 emitVars, calls, withheld, pushes>>

-----------------------------------------------------------------------------
(* The adapter.                                                            *)

\* The adapter is between two handlers.
Idle == apc = "idle" /\ syncing = NoCommand

\* A callback, snapshot_task or order_deal_reconcile_task reports s.
Push(s) ==
  /\ Idle /\ pushes < MaxPushes
  /\ pushes' = pushes + 1
  /\ events' = Append(events, [about |-> s, read |-> clock])
  /\ UNCHANGED <<channelVars, orderVars, view, requestVars, cancelVars, emitVars,
                 calls, withheld>>

\* _request_sync calls _emit_snapshots, ...
StartSync(m) ==
  /\ Idle /\ Picks(m) /\ kind[m] = "REQUEST_SYNC"
  /\ syncing' = m
  /\ todo' = wanted[m] \cap Scopes
  /\ UNCHANGED <<channelVars, orderVars, view, requestVars, cancelVars, events,
                 emitted, calls, withheld, pushes>>

\* ... which reads one scope after the other and writes an event about each; ...
IsNext(s) ==
  \E k \in DOMAIN ScopeOrder : ScopeOrder[k] = s /\ \A j \in 1..(k - 1) : ScopeOrder[j] \notin todo

Emits(s) ==
  /\ syncing # NoCommand /\ s \in todo /\ IsNext(s)
  /\ todo' = todo \ {s}
  /\ emitted' = [emitted EXCEPT ![syncing] = @ \cup {s}]
  /\ UNCHANGED <<cmd, folderVars, pollVars, refused, unanswered, orderVars, view,
                 requestVars, cancelVars, syncing, calls, pushes>>

EmitScope(s) ==
  /\ Emits(s)
  /\ events' = Append(events, [about |-> s, read |-> clock])
  /\ UNCHANGED <<faults, withheld>>

\* ... none about the account if QMT, logged out, has no values of it.
NoAccount ==
  /\ Emits("ACCOUNT") /\ Fault
  /\ withheld' = withheld \cup {[about |-> "ACCOUNT", read |-> clock]}
  /\ UNCHANGED events

\* Mutant: it acknowledges before the events are written.
AcknowledgesFirst ==
  /\ syncing # NoCommand
  /\ Accepts(syncing, "SYNC_COMPLETED")
  /\ syncing' = NoCommand /\ todo' = {}
  /\ UNCHANGED <<orderVars, view, requestVars, cancelVars, events, emitted, calls,
                 withheld, pushes>>

SyncEmitted ==
  /\ syncing # NoCommand /\ todo = {}
  /\ Accepts(syncing, "SYNC_COMPLETED")
  /\ syncing' = NoCommand
  /\ UNCHANGED <<orderVars, view, requestVars, cancelVars, events, todo, emitted,
                 calls, withheld, pushes>>

\* A reading raises: QMT has no quote, or is not ready.
SyncRaises ==
  /\ syncing # NoCommand /\ todo # {}
  /\ Refuses(syncing)
  /\ syncing' = NoCommand /\ todo' = {}
  /\ UNCHANGED <<orderVars, view, requestVars, cancelVars, events, emitted, calls,
                 withheld, pushes>>

Cancels(m) == Idle /\ kind[m] = "CANCEL_ORDER"

\* cancel() is called for m.
CallsCancel(m) ==
  /\ calls' = [calls EXCEPT ![m] = @ + 1]
  /\ UNCHANGED <<orderVars, view, requestVars, cancelVars, events, emitVars,
                 withheld, pushes>>

\* _cancel_order calls cancel(), which returns ...
CancelOrder(m) == Cancels(m) /\ CallsCancel(m) /\ Accepts(m, "CANCEL_REQUESTED")

\* ... or raises, ...
CancelRaises(m) == Cancels(m) /\ CallsCancel(m) /\ Refuses(m)

\* ... or refuses before: a halt that forbids cancellation.
CancelRefused(m) == Cancels(m) /\ Refuses(m) /\ UNCHANGED controlVars

AdapterRestarts ==
  /\ AdapterStops
  /\ syncing' = NoCommand /\ todo' = {}
  /\ UNCHANGED <<orderVars, view, requestVars, cancelVars, events, emitted, calls,
                 withheld, pushes>>

Cancel(m) == CancelOrder(m) \/ CancelRaises(m) \/ CancelRefused(m)

-----------------------------------------------------------------------------
\* While snapshots are emitted, poll_commands is in their handler.
Channel ==
  /\ ChannelStep
  /\ syncing # NoCommand => apc' = apc /\ old' = old
  /\ UNCHANGED controlVars

Next ==
  \/ Channel
  \/ \E m \in Commands :
       \/ Prepare(m) \/ Looks(m) \/ Preview(m) \/ StartSync(m)
       \/ \E S \in Requests : RequestSync(m, S)
       \/ CheckCancel(m) \/ Duplicate(m) \/ QueueCancel(m) \/ Cancel(m)
  \/ IngestEvent \/ EventBuried \/ IngestCommandAck \/ OrderReported
  \/ \E s \in UsedPushes : Push(s)
  \/ (\E s \in Scopes : EmitScope(s)) \/ NoAccount \/ SyncEmitted \/ SyncRaises \/ AdapterRestarts

Spec == Init /\ [][Next]_vars

\* The adapter goes on with what it handles, and poll_commands comes to a file.
AdapterWorks ==
  \/ Finish /\ UNCHANGED controlVars
  \/ (\E s \in Scopes : EmitScope(s)) \/ SyncEmitted
  \/ \E m \in Commands :
       StartSync(m) \/ Cancel(m) \/ (Idle /\ RefuseExpired(m) /\ UNCHANGED controlVars)

\* The loop dispatches and ingests again after a scan that raised (worker.py:45),
\* and not every scan raises; poll_commands is called every 500 ms.
FairSpec ==
  /\ Spec
  /\ WF_vars(\E m \in Commands : Dispatch(m) /\ UNCHANGED controlVars)
  /\ WF_vars(IngestCommandAck)
  /\ WF_vars(AdapterWorks)

-----------------------------------------------------------------------------
(* Properties.                                                             *)

\* README.md:102: prepare_trade returns a preview when the new snapshots have
\* come.  What the preview is about to read was read in QMT after the preparation
\* began, whatever other syncs, callbacks, second files and restarts there were;
\* but for an event that was moved to the dead letters, and an account of which
\* QMT gave no values.
FreshPreview ==
  \A m \in Commands : waiter[m] = "drained" =>
    \A s \in Scopes :
      \/ view[s] >= asked[m]
      \/ \E e \in withheld : e.about = s /\ e.read >= asked[m]

\* A command the database says was carried out was: cancel() was called, and
\* each scope that was asked for was read.  The credit scopes are not: the
\* adapter ignores them, and request_sync completes.  And an intent is called
\* cancelled or rejected only after a cancellation that was.
AnswerIsBacked ==
  /\ \A m \in Commands :
       /\ cmd[m] = "CANCEL_REQUESTED" => calls[m] > 0
       /\ cmd[m] = "SYNC_COMPLETED" => wanted[m] \subseteq emitted[m] \cup CreditScopes
  /\ intent = "CANCEL_REQUESTED" => \E m \in Prior : calls[m] > 0
  /\ intent = "QMT_REJECTED" => Prior \cap refused # {}

\* The calls of cancel(), numbered for each command.
Calls == UNION {{m} \X (1..calls[m]) : m \in Commands}

\* cancel() is called once for an order, however often cancel_order was: every
\* further call is due to two threads that looked for an earlier cancellation
\* before either had queued its own, or to a fault of its own.
OneCancel == Cardinality(Calls) <= 1 + Cardinality(raced) + faults

\* A command that was queued is answered, one of whose answers a fault took
\* apart: what waits for it (prepare_trade, an operator) learns how it ended.
EveryCommandAnswered ==
  \A m \in Commands :
    (cmd[m] = "PENDING_DELIVERY") ~> (cmd[m] \in AckStatus \/ m \in unanswered)

\* docs/index.html:3092: QMT_REJECTED is terminal, and means that the order was
\* rejected by QMT.  An order that QMT has accepted does not come to be called so.
AcceptedIsNotRejected == intent # "QMT_REJECTED"
=============================================================================
