----------------------- MODULE ControlCommandsProofs -----------------------
(***************************************************************************)
(* Theorems about ControlCommands, for every set of commands, every order  *)
(* of scopes, and every number of callbacks and faults.  IInv is the       *)
(* inductive invariant: the channel's (CommandChannelProofs), the types,   *)
(* that every answer under way is backed by what was done, and that the    *)
(* snapshots a preparation waits for are on their way to the database.     *)
(* CallsAreCounted, about the calls of cancel(), is inductive beside it.   *)
(***************************************************************************)
EXTENDS ControlCommands, CommandChannelProofs, FiniteSetTheorems

USE ControlAssumption, FaultAssumption, NoCommandAssumption
    DEF folderVars, pollVars, requestVars, cancelVars, orderVars, emitVars

ControlTypeOK ==
  /\ kind \in [Commands -> {"NONE", "REQUEST_SYNC", "CANCEL_ORDER"}]
  /\ known \in {"ORDER_ACCEPTED", "ENDED"}
  /\ intent \in {"ORDER_ACCEPTED", "ENDED", "CANCEL_REQUESTED", "QMT_REJECTED"}
  /\ view \in [Scopes -> Nat]
  /\ wanted \in [Commands -> SUBSET (Scopes \cup CreditScopes)]
  /\ waiter \in [Commands -> {"none", "waiting", "completed", "drained", "over"}]
  /\ canceller \in [Commands -> {"none", "checked", "queued", "duplicate"}]
  /\ events \in Seq(Event)
  /\ syncing \in Commands \cup {NoCommand}
  /\ todo \in SUBSET Scopes
  /\ clock \in Nat
  /\ asked \in [Commands -> Nat]
  /\ emitted \in [Commands -> SUBSET Scopes]
  /\ calls \in [Commands -> Nat]
  /\ raced \in SUBSET Commands
  /\ withheld \in SUBSET Event
  /\ pushes \in 0..MaxPushes

\* A command's request happened before anything was done about it.
RequestsComeFirst ==
  /\ \A m \in Commands :
       /\ canceller[m] = "checked" => kind[m] = "NONE"
       /\ kind[m] = "NONE" => emitted[m] = {}
       /\ waiter[m] # "none" => kind[m] = "REQUEST_SYNC" /\ wanted[m] = Scopes /\ asked[m] <= clock
  /\ syncing # NoCommand => kind[syncing] = "REQUEST_SYNC"

\* What status s of command m says was done.
Backed(m, s) ==
  /\ s # "ACKNOWLEDGED"
  /\ s = "CANCEL_REQUESTED" => kind[m] = "CANCEL_ORDER" /\ calls[m] > 0
  /\ s = "SYNC_COMPLETED" =>
       kind[m] = "REQUEST_SYNC" /\ wanted[m] \subseteq emitted[m] \cup CreditScopes
  /\ s = "QMT_REJECTED" => m \in refused

\* Every answer in the database, in the folder and in the adapter's memory is
\* backed, and so is what an intent got from one.
AnswersAreBacked ==
  /\ \A m \in Commands : Backed(m, cmd[m])
  /\ \A k \in DOMAIN acks : Backed(acks[k].command, acks[k].status)
  /\ apc = "ack" => Backed(cur, verdict)
  /\ apc = "reject" => cur \in refused
  /\ syncing # NoCommand => wanted[syncing] \subseteq emitted[syncing] \cup todo \cup CreditScopes
  /\ intent = "CANCEL_REQUESTED" => \E m \in Prior : calls[m] > 0
  /\ intent = "QMT_REJECTED" => Prior \cap refused # {}

\* A snapshot of s read after time a is in the database, in the folder, or was
\* withheld.
Fresh(s, a) ==
  \/ view[s] >= a
  \/ \E k \in DOMAIN events : events[k].about = s /\ events[k].read >= a
  \/ \E e \in withheld : e.about = s /\ e.read >= a

\* The folder is in the order of reading, and newer than the database.
EventsAreInOrder ==
  \A k \in DOMAIN events :
    /\ events[k].read <= clock
    /\ \A s \in Scopes : view[s] <= events[k].read
    /\ \A j \in DOMAIN events : j <= k => events[j].read <= events[k].read

\* What was emitted for a preparation is on its way; one that has seen its
\* command completed had all of it emitted, and one that goes on has it.
SnapshotsArrive ==
  /\ \A s \in Scopes : view[s] <= clock
  /\ \A m \in Commands : waiter[m] # "none" => \A s \in emitted[m] : Fresh(s, asked[m])
  /\ \A m \in Commands : waiter[m] = "completed" => Scopes \subseteq emitted[m]

IInv ==
  /\ ChannelOK
  /\ ControlTypeOK
  /\ RequestsComeFirst
  /\ AnswersAreBacked
  /\ EventsAreInOrder
  /\ SnapshotsArrive
  /\ FreshPreview

-----------------------------------------------------------------------------
(* The steps.                                                              *)

LEMMA ScopeNames == "HOLDING" \notin Scopes /\ Scopes \cap CreditScopes = {}
<1>1. Scopes \subseteq {"ACCOUNT", "POSITION", "ORDER", "DEAL", "QUOTE"}
  BY DEF Scopes, Range
<1>2. QED
  BY <1>1 DEF CreditScopes

\* A loop's turn, a preview, a look for a cancellation.
Looking(m) == Looks(m) \/ Preview(m) \/ CheckCancel(m) \/ Duplicate(m)

\* The channel's invariant is kept by every step.
LEMMA ChannelStays == ASSUME IInv, Next PROVE ChannelOK'
<1> USE DEF IInv
<1>1. CASE UNCHANGED channelVars
  <2>1. BesideChannel
    BY <1>1 DEF channelVars, BesideChannel, ChannelOK, ChannelTypeOK
  <2>2. QED
    BY <2>1, BesideKeeps
<1>2. CASE Channel \/ IngestCommandAck
  BY <1>2, ChannelKeeps DEF Channel, IngestCommandAck
<1>3. ASSUME NEW m \in Commands,
             Prepare(m) \/ QueueCancel(m) \/ \E S \in Requests : RequestSync(m, S)
      PROVE  ChannelOK'
  BY <1>3, QueueKeeps DEF Prepare, QueueCancel, RequestSync, Queues
<1>4. ASSUME NEW m \in Commands, Looking(m) \/ StartSync(m) PROVE ChannelOK'
  <2>1. UNCHANGED channelVars
    BY <1>4 DEF Looking, Looks, Preview, Waits, CheckCancel, Duplicate, Checks, StartSync
  <2>2. QED
    BY <1>1, <2>1
<1>5. ASSUME IngestEvent \/ OrderReported \/ \E s \in UsedPushes : Push(s) PROVE ChannelOK'
  <2>1. UNCHANGED channelVars
    BY <1>5 DEF IngestEvent, OrderReported, Push
  <2>2. QED
    BY <1>1, <2>1
<1>6. ASSUME NEW s \in Scopes, EmitScope(s) PROVE ChannelOK'
  <2>1. UNCHANGED channelVars
    BY <1>6 DEF EmitScope, Emits, channelVars
  <2>2. QED
    BY <1>1, <2>1
<1>7. CASE EventBuried \/ NoAccount
  <2>1. Fault /\ UNCHANGED <<cmd, folderVars, pollVars, refused, unanswered>>
    BY <1>7 DEF EventBuried, NoAccount, Emits
  <2>2. BesideChannel
    BY <2>1 DEF Fault, BesideChannel, ChannelOK, ChannelTypeOK
  <2>3. QED
    BY <2>2, BesideKeeps
<1>8. CASE SyncEmitted \/ SyncRaises
  <2>1. syncing \in Commands /\ (Accepts(syncing, "SYNC_COMPLETED") \/ Refuses(syncing))
    BY <1>8 DEF SyncEmitted, SyncRaises, ControlTypeOK
  <2>2. QED
    BY <2>1, HandlerKeeps DEF Handled
<1>9. ASSUME NEW m \in Commands, Cancel(m) PROVE ChannelOK'
  <2>1. Accepts(m, "CANCEL_REQUESTED") \/ Refuses(m)
    BY <1>9 DEF Cancel, CancelOrder, CancelRaises, CancelRefused
  <2>2. QED
    BY <2>1, HandlerKeeps DEF Handled
<1>10. CASE AdapterRestarts
  BY <1>10, FinishKeeps DEF AdapterRestarts
<1>11. QED
  BY <1>2, <1>3, <1>4, <1>5, <1>6, <1>7, <1>8, <1>9, <1>10 DEF Next, Looking

LEMMA HeadEvent ==
  ASSUME ControlTypeOK, events # <<>>
  PROVE  /\ Head(events) \in Event /\ Tail(events) \in Seq(Event)
         /\ Head(events).read \in Nat
         /\ Head(events).about # "HOLDING" => Head(events).about \in Scopes
<1>1. events \in Seq(Event)
  BY DEF ControlTypeOK
<1>2. Head(events) \in Event /\ Tail(events) \in Seq(Event)
  BY <1>1
<1>3. QED
  BY <1>2 DEF Event, Pushed

LEMMA HeadAck ==
  ASSUME ChannelOK, acks # <<>>
  PROVE  /\ 1 \in DOMAIN acks /\ Head(acks) = acks[1]
         /\ Head(acks).command \in Commands /\ Head(acks).status \in AckStatus
         /\ \A k \in DOMAIN Tail(acks) : k + 1 \in DOMAIN acks /\ Tail(acks)[k] = acks[k + 1]
<1>1. acks \in Seq(Ack)
  BY DEF ChannelOK, ChannelTypeOK
<1>2. /\ 1 \in DOMAIN acks /\ Head(acks) = acks[1] /\ Head(acks) \in Ack
      /\ \A k \in DOMAIN Tail(acks) : k + 1 \in DOMAIN acks /\ Tail(acks)[k] = acks[k + 1]
  BY <1>1
<1>3. QED
  BY <1>2 DEF Ack

\* The types are kept.
LEMMA TypesStay == ASSUME IInv, Next PROVE ControlTypeOK'
<1> USE DEF IInv
<1>1. CASE Channel
  BY <1>1 DEF Channel, controlVars, ControlTypeOK
<1>2. ASSUME NEW m \in Commands, Prepare(m) \/ \E S \in Requests : RequestSync(m, S) PROVE ControlTypeOK'
  <2>1. CASE Prepare(m)
    <3>1. /\ clock \in Nat /\ clock' = clock + 1
          /\ asked' = [asked EXCEPT ![m] = clock + 1] /\ asked \in [Commands -> Nat]
      BY <2>1 DEF Prepare, ControlTypeOK
    <3>2. clock' \in Nat /\ asked' \in [Commands -> Nat]
      BY <3>1
    <3>3. kind' \in [Commands -> {"NONE", "REQUEST_SYNC", "CANCEL_ORDER"}]
      BY <2>1 DEF Prepare, Queues, ControlTypeOK
    <3>4. wanted' \in [Commands -> SUBSET (Scopes \cup CreditScopes)]
      BY <2>1 DEF Prepare, ControlTypeOK
    <3>5. waiter' \in [Commands -> {"none", "waiting", "completed", "drained", "over"}]
      BY <2>1 DEF Prepare, ControlTypeOK
    <3>6. QED
      BY <2>1, <3>2, <3>3, <3>4, <3>5 DEF Prepare, ControlTypeOK
  <2>2. ASSUME NEW S \in Requests, RequestSync(m, S) PROVE ControlTypeOK'
    BY <2>2 DEF RequestSync, Queues, ControlTypeOK
  <2>3. QED
    BY <1>2, <2>1, <2>2
<1>3. ASSUME NEW m \in Commands, Looking(m) \/ QueueCancel(m) PROVE ControlTypeOK'
  <2>1. CASE Looks(m) \/ Preview(m)
    BY <2>1 DEF Looks, Preview, Waits, ControlTypeOK
  <2>2. CASE CheckCancel(m) \/ Duplicate(m)
    BY <2>2 DEF CheckCancel, Duplicate, Checks, ControlTypeOK
  <2>3. CASE QueueCancel(m)
    BY <2>3 DEF QueueCancel, Queues, ControlTypeOK
  <2>4. QED
    BY <1>3, <2>1, <2>2, <2>3 DEF Looking
<1>4. ASSUME NEW m \in Commands, StartSync(m) \/ Cancel(m) PROVE ControlTypeOK'
  <2>1. CASE StartSync(m)
    BY <2>1 DEF StartSync, ControlTypeOK
  <2>2. CASE CancelOrder(m) \/ CancelRaises(m)
    <3>1. calls \in [Commands -> Nat] /\ calls' = [calls EXCEPT ![m] = @ + 1]
      BY <2>2 DEF CancelOrder, CancelRaises, CallsCancel, ControlTypeOK
    <3>2. calls' \in [Commands -> Nat]
      BY <3>1
    <3>3. QED
      BY <2>2, <3>2 DEF CancelOrder, CancelRaises, CallsCancel, ControlTypeOK
  <2>3. CASE CancelRefused(m)
    BY <2>3 DEF CancelRefused, controlVars, ControlTypeOK
  <2>4. QED
    BY <1>4, <2>1, <2>2, <2>3 DEF Cancel
<1>5. CASE IngestEvent
  BY <1>5, HeadEvent DEF IngestEvent, Applied, ControlTypeOK
<1>6. CASE EventBuried
  BY <1>6, HeadEvent DEF EventBuried, ControlTypeOK
<1>7. CASE IngestCommandAck
  <2>1. Head(acks).command \in Commands /\ Backed(Head(acks).command, Head(acks).status)
        /\ Head(acks).status \in AckStatus
    BY <1>7, HeadAck DEF IngestCommandAck, IngestAck, AnswersAreBacked
  <2>2. kind[Head(acks).command] = "CANCEL_ORDER" => Head(acks).status \in {"CANCEL_REQUESTED", "QMT_REJECTED"}
    BY <2>1 DEF Backed, AckStatus, Handled
  <2>3. QED
    BY <1>7, <2>2 DEF IngestCommandAck, StatusAfter, ControlTypeOK
<1>8. CASE OrderReported
  BY <1>8 DEF OrderReported, ControlTypeOK
<1>9. ASSUME NEW s \in UsedPushes, Push(s) PROVE ControlTypeOK'
  <2>1. events \in Seq(Event) /\ [about |-> s, read |-> clock] \in Event
    BY DEF ControlTypeOK, Event
  <2>2. Append(events, [about |-> s, read |-> clock]) \in Seq(Event)
    BY <2>1
  <2>3. QED
    BY <1>9, <2>2 DEF Push, ControlTypeOK
<1>10. ASSUME NEW s \in Scopes, EmitScope(s) PROVE ControlTypeOK'
  <2>1. events \in Seq(Event) /\ [about |-> s, read |-> clock] \in Event
    BY DEF ControlTypeOK, Event
  <2>2. Append(events, [about |-> s, read |-> clock]) \in Seq(Event)
    BY <2>1
  <2>3. QED
    BY <1>10, <2>2 DEF EmitScope, Emits, ControlTypeOK
<1>11. CASE NoAccount
  <2>1. "ACCOUNT" \in Scopes /\ clock \in Nat
    BY <1>11 DEF NoAccount, Emits, ControlTypeOK
  <2>2. [about |-> "ACCOUNT", read |-> clock] \in Event
    BY <2>1 DEF Event
  <2>3. QED
    BY <1>11, <2>1, <2>2 DEF NoAccount, Emits, ControlTypeOK
<1>12. CASE SyncEmitted \/ SyncRaises \/ AdapterRestarts
  BY <1>12 DEF SyncEmitted, SyncRaises, AdapterRestarts, ControlTypeOK
<1>13. QED
  BY <1>1, <1>2, <1>3, <1>4, <1>5, <1>6, <1>7, <1>8, <1>9, <1>10, <1>11, <1>12 DEF Next, Looking

\* What was requested, and when, stays.
LEMMA RequestsStay == ASSUME IInv, Next PROVE RequestsComeFirst'
<1> USE DEF IInv
<1>1. CASE UNCHANGED <<requestVars, canceller, emitted>> /\ syncing' \in {syncing, NoCommand}
  BY <1>1 DEF RequestsComeFirst
<1>2. CASE Channel \/ IngestEvent \/ EventBuried \/ IngestCommandAck \/ OrderReported
           \/ SyncEmitted \/ SyncRaises \/ AdapterRestarts \/ \E s \in UsedPushes : Push(s)
  BY <1>1, <1>2 DEF Channel, controlVars, IngestEvent, EventBuried, IngestCommandAck, OrderReported,
     SyncEmitted, SyncRaises, AdapterRestarts, Push
<1>3. ASSUME NEW m \in Commands, Cancel(m) PROVE RequestsComeFirst'
  BY <1>1, <1>3 DEF Cancel, CancelOrder, CancelRaises, CancelRefused, CallsCancel, controlVars
<1>4. ASSUME NEW m \in Commands, Prepare(m) \/ \E S \in Requests : RequestSync(m, S)
      PROVE  RequestsComeFirst'
  <2>1. /\ kind[m] = "NONE" /\ canceller[m] = "none"
        /\ kind' = [kind EXCEPT ![m] = "REQUEST_SYNC"]
        /\ UNCHANGED <<canceller, emitted, syncing>>
    BY <1>4 DEF Prepare, RequestSync, Queues, Takes
  <2>2. \/ /\ wanted' = [wanted EXCEPT ![m] = Scopes]
           /\ waiter' = [waiter EXCEPT ![m] = "waiting"]
           /\ clock' = clock + 1 /\ asked' = [asked EXCEPT ![m] = clock + 1]
        \/ /\ \E S : wanted' = [wanted EXCEPT ![m] = S]
           /\ UNCHANGED <<waiter, clock, asked>>
    BY <1>4 DEF Prepare, RequestSync
  <2>3. clock \in Nat /\ asked \in [Commands -> Nat]
    BY DEF ControlTypeOK
  <2>4. \A c \in Commands : waiter'[c] # "none" =>
          kind'[c] = "REQUEST_SYNC" /\ wanted'[c] = Scopes /\ asked'[c] <= clock'
    BY <2>1, <2>2, <2>3 DEF RequestsComeFirst, ControlTypeOK
  <2>5. QED
    BY <2>1, <2>4 DEF RequestsComeFirst, ControlTypeOK
<1>5. ASSUME NEW m \in Commands, Looks(m) \/ Preview(m) PROVE RequestsComeFirst'
  BY <1>5 DEF Looks, Preview, Waits, RequestsComeFirst, ControlTypeOK
<1>6. ASSUME NEW m \in Commands, CheckCancel(m) \/ Duplicate(m) PROVE RequestsComeFirst'
  BY <1>6 DEF CheckCancel, Duplicate, Checks, Takes, RequestsComeFirst, ControlTypeOK
<1>7. ASSUME NEW m \in Commands, QueueCancel(m) PROVE RequestsComeFirst'
  BY <1>7 DEF QueueCancel, Queues, RequestsComeFirst, ControlTypeOK
<1>8. ASSUME NEW m \in Commands, StartSync(m) PROVE RequestsComeFirst'
  BY <1>8 DEF StartSync, RequestsComeFirst
<1>9. ASSUME NEW s \in Scopes, Emits(s), UNCHANGED <<clock, asked>> PROVE RequestsComeFirst'
  BY <1>9 DEF Emits, RequestsComeFirst, ControlTypeOK
<1>10. CASE NoAccount \/ \E s \in Scopes : EmitScope(s)
  BY <1>9, <1>10 DEF NoAccount, EmitScope, Emits, ControlTypeOK
<1>11. QED
  BY <1>2, <1>3, <1>4, <1>5, <1>6, <1>7, <1>8, <1>10 DEF Next

\* Nothing that was done for a command is undone.
LEMMA DoneStaysDone ==
  ASSUME IInv, Next, NEW m \in Commands
  PROVE  /\ refused \subseteq refused'
         /\ kind[m] # "NONE" => kind'[m] = kind[m] /\ wanted'[m] = wanted[m]
         /\ waiter[m] # "none" => asked'[m] = asked[m]
         /\ emitted[m] \subseteq emitted'[m]
         /\ calls[m] > 0 => calls'[m] > 0
<1> USE DEF IInv
<1>1. CASE Channel
  BY <1>1, ChannelReports DEF Channel, controlVars, NothingInvented
<1>2. ASSUME NEW c \in Commands, Prepare(c) \/ \E S \in Requests : RequestSync(c, S)
      PROVE  /\ UNCHANGED <<refused, emitted, calls>>
             /\ kind[m] # "NONE" => kind'[m] = kind[m] /\ wanted'[m] = wanted[m] /\ asked'[m] = asked[m]
  <2>1. kind[c] = "NONE" /\ UNCHANGED <<refused, emitted, calls>>
    BY <1>2 DEF Prepare, RequestSync, Queues, QueueCommand, Takes, lossVars
  <2>2. CASE c = m
    BY <2>1, <2>2
  <2>3. CASE c # m
    <3>1. kind'[m] = kind[m] /\ wanted'[m] = wanted[m] /\ asked'[m] = asked[m]
      BY <1>2, <2>3 DEF Prepare, RequestSync, Queues, ControlTypeOK
    <3>2. QED
      BY <2>1, <3>1
  <2>4. QED
    BY <2>2, <2>3
<1>3. ASSUME NEW c \in Commands, Looking(c) \/ StartSync(c)
      PROVE  UNCHANGED <<refused, emitted, calls, kind, wanted, asked>>
  BY <1>3 DEF Looking, Looks, Preview, Waits, CheckCancel, Duplicate, Checks, StartSync, channelVars
<1>4. ASSUME NEW c \in Commands, QueueCancel(c)
      PROVE  /\ UNCHANGED <<refused, emitted, calls, wanted, asked>>
             /\ kind[m] # "NONE" => kind'[m] = kind[m]
  BY <1>4 DEF QueueCancel, Queues, QueueCommand, lossVars, RequestsComeFirst, ControlTypeOK
<1>5. CASE IngestEvent \/ EventBuried \/ IngestCommandAck \/ OrderReported \/ \E s \in UsedPushes : Push(s)
  BY <1>5 DEF IngestEvent, EventBuried, IngestCommandAck, IngestAck, OrderReported, Push, channelVars, lossVars
<1>6. ASSUME NEW s, Emits(s)
      PROVE  UNCHANGED <<refused, kind, wanted, asked, calls>> /\ emitted[m] \subseteq emitted'[m]
  BY <1>6 DEF Emits, ControlTypeOK
<1>7. CASE SyncEmitted \/ SyncRaises \/ AdapterRestarts
  BY <1>7 DEF SyncEmitted, SyncRaises, AdapterRestarts, Accepts, Refuses, Rejecting, AdapterStops, lossVars
<1>8. ASSUME NEW c \in Commands, Cancel(c)
      PROVE  /\ UNCHANGED <<kind, wanted, asked, emitted>> /\ refused \subseteq refused'
             /\ calls[m] > 0 => calls'[m] > 0
  <2>1. /\ UNCHANGED <<kind, wanted, asked, emitted>> /\ refused \subseteq refused'
        /\ UNCHANGED calls \/ calls' = [calls EXCEPT ![c] = @ + 1]
    BY <1>8 DEF Cancel, CancelOrder, CancelRaises, CancelRefused, CallsCancel, controlVars, Accepts,
       Refuses, Rejecting, lossVars
  <2>2. calls \in [Commands -> Nat]
    BY DEF ControlTypeOK
  <2>3. QED
    BY <2>1, <2>2
<1>9. kind[m] = "NONE" => waiter[m] = "none"
  BY DEF RequestsComeFirst
<1>10. QED
  BY <1>1, <1>2, <1>3, <1>4, <1>5, <1>6, <1>7, <1>8, <1>9 DEF Next, Looking, NoAccount, EmitScope

\* What was done for a command stays done: an answer that is backed remains so.
LEMMA BackedStays ==
  ASSUME IInv, Next, NEW m \in Commands, NEW s, Backed(m, s)
  PROVE  Backed(m, s)'
<1>1. /\ refused \subseteq refused'
      /\ kind[m] # "NONE" => kind'[m] = kind[m] /\ wanted'[m] = wanted[m]
      /\ emitted[m] \subseteq emitted'[m]
      /\ calls[m] > 0 => calls'[m] > 0
  BY DoneStaysDone
<1>2. QED
  BY <1>1 DEF Backed

\* Which steps an answer can come from: the channel's, the ingestion of an
\* acknowledgement, a request, the end of a handler, and a restart.
LEMMA AnswerSteps ==
  ASSUME IInv, Next
  PROVE  \/ Channel
         \/ IngestCommandAck
         \/ /\ \A m \in Commands : cmd'[m] \in {cmd[m], "PENDING_DELIVERY"}
            /\ UNCHANGED <<acks, apc, cur, verdict>>
         \/ /\ UNCHANGED <<cmd, acks>>
            /\ \/ SyncEmitted \/ (\E m \in Commands : CancelOrder(m))
               \/ apc' = "reject" /\ cur' \in refused'
               \/ apc' = "idle"
<1> USE DEF IInv
<1>1. ASSUME NEW m \in Commands,
             Prepare(m) \/ QueueCancel(m) \/ \E S \in Requests : RequestSync(m, S)
      PROVE  /\ \A c \in Commands : cmd'[c] \in {cmd[c], "PENDING_DELIVERY"}
             /\ UNCHANGED <<acks, apc, cur, verdict>>
  <2>1. QueueCommand(m)
    BY <1>1 DEF Prepare, QueueCancel, RequestSync, Queues
  <2>2. QED
    BY <2>1 DEF QueueCommand, ChannelOK, ChannelTypeOK
<1>2. ASSUME NEW m \in Commands, Looking(m) \/ StartSync(m)
      PROVE  UNCHANGED <<cmd, acks, apc, cur, verdict>>
  BY <1>2 DEF Looking, Looks, Preview, Waits, CheckCancel, Duplicate, Checks, StartSync, channelVars
<1>3. CASE IngestEvent \/ EventBuried \/ OrderReported \/ \E s \in UsedPushes : Push(s)
  <2>1. UNCHANGED <<cmd, acks, apc, cur, verdict>>
    BY <1>3 DEF IngestEvent, EventBuried, OrderReported, Push, channelVars
  <2>2. QED
    BY <2>1
<1>4. ASSUME NEW s, Emits(s) PROVE UNCHANGED <<cmd, acks, apc, cur, verdict>>
  BY <1>4 DEF Emits
<1>5. CASE SyncRaises \/ AdapterRestarts
  BY <1>5 DEF SyncRaises, AdapterRestarts, Refuses, Rejecting, AdapterStops
<1>6. ASSUME NEW m \in Commands, Cancel(m)
      PROVE  UNCHANGED <<cmd, acks>> /\ (CancelOrder(m) \/ (apc' = "reject" /\ cur' \in refused'))
  BY <1>6 DEF Cancel, CancelOrder, CancelRaises, CancelRefused, Accepts, Refuses, Rejecting
<1>7. SyncEmitted => UNCHANGED <<cmd, acks>>
  BY DEF SyncEmitted, Accepts
<1>8. QED
  BY <1>1, <1>2, <1>3, <1>4, <1>5, <1>6, <1>7 DEF Next, Looking, NoAccount, EmitScope

LEMMA AckParts == ASSUME ChannelOK PROVE \A k \in DOMAIN acks : acks[k].command \in Commands
<1>1. \A k \in DOMAIN acks : acks[k] \in Ack
  BY DEF ChannelOK, ChannelTypeOK
<1>2. QED
  BY <1>1 DEF Ack

LEMMA CurInCommands == ASSUME ChannelOK, apc # "idle" PROVE cur \in Commands
  BY DEF ChannelOK, ChannelInv

\* A scope that was asked for has been emitted or is still to be.
LEMMA SyncingStays ==
  ASSUME IInv, Next
  PROVE  syncing' # NoCommand => wanted'[syncing'] \subseteq emitted'[syncing'] \cup todo' \cup CreditScopes
<1> USE DEF IInv
<1>1. CASE UNCHANGED <<syncing, todo>>
  <2>1. syncing # NoCommand => syncing \in Commands /\ kind[syncing] = "REQUEST_SYNC"
    BY DEF RequestsComeFirst, ControlTypeOK
  <2>2. syncing # NoCommand => emitted[syncing] \subseteq emitted'[syncing] /\ wanted'[syncing] = wanted[syncing]
    BY <2>1, DoneStaysDone
  <2>3. QED
    BY <1>1, <2>2 DEF AnswersAreBacked
<1>2. ASSUME NEW m \in Commands, StartSync(m)
      PROVE  wanted'[syncing'] \subseteq emitted'[syncing'] \cup todo' \cup CreditScopes
  BY <1>2 DEF StartSync, ControlTypeOK
<1>3. ASSUME NEW s, Emits(s)
      PROVE  wanted'[syncing'] \subseteq emitted'[syncing'] \cup todo' \cup CreditScopes
  BY <1>3 DEF Emits, ControlTypeOK, AnswersAreBacked
<1>4. CASE SyncEmitted \/ SyncRaises \/ AdapterRestarts
  BY <1>4 DEF SyncEmitted, SyncRaises, AdapterRestarts
<1>5. ASSUME NEW m \in Commands, \/ Prepare(m) \/ (\E S \in Requests : RequestSync(m, S))
                                 \/ Looking(m) \/ QueueCancel(m) \/ Cancel(m)
      PROVE  UNCHANGED <<syncing, todo>>
  BY <1>5 DEF Prepare, RequestSync, Looking, Looks, Preview, Waits, CheckCancel, Duplicate, Checks,
     QueueCancel, Cancel, CancelOrder, CancelRaises, CancelRefused, CallsCancel, controlVars
<1>6. CASE Channel \/ IngestEvent \/ EventBuried \/ IngestCommandAck \/ OrderReported
           \/ \E s \in UsedPushes : Push(s)
  BY <1>1, <1>6 DEF Channel, controlVars, IngestEvent, EventBuried, IngestCommandAck, OrderReported, Push
<1>7. QED
  BY <1>1, <1>2, <1>3, <1>4, <1>5, <1>6 DEF Next, Looking, NoAccount, EmitScope

\* What an intent has from a cancellation is backed by one.
LEMMA IntentStays ==
  ASSUME IInv, Next
  PROVE  /\ intent' = "CANCEL_REQUESTED" => \E m \in Prior' : calls'[m] > 0
         /\ intent' = "QMT_REJECTED" => Prior' \cap refused' # {}
<1> USE DEF IInv
<1>1. Prior \subseteq Prior'
  BY DoneStaysDone DEF Prior
<1>2. CASE UNCHANGED intent
  BY <1>1, <1>2, DoneStaysDone DEF AnswersAreBacked, Prior
<1>3. CASE OrderReported
  BY <1>3 DEF OrderReported, ControlTypeOK
<1>4. CASE IngestCommandAck
  <2>1. acks # <<>> /\ intent' = StatusAfter(Head(acks))
    BY <1>4 DEF IngestCommandAck, IngestAck
  <2>2. Head(acks).command \in Commands /\ Backed(Head(acks).command, Head(acks).status)
    BY <2>1, HeadAck DEF AnswersAreBacked
  <2>3. CASE intent' # intent
    <3>1. kind[Head(acks).command] = "CANCEL_ORDER" /\ intent' = Head(acks).status
      BY <2>1, <2>3 DEF StatusAfter
    <3>2. Head(acks).command \in Prior
      BY <2>2, <3>1 DEF Prior
    <3>3. QED
      BY <1>1, <2>2, <3>1, <3>2, DoneStaysDone DEF Backed
  <2>4. QED
    BY <1>2, <2>3
<1>5. ASSUME NEW m \in Commands, \/ Prepare(m) \/ (\E S \in Requests : RequestSync(m, S))
                                 \/ Looking(m) \/ QueueCancel(m) \/ Cancel(m) \/ StartSync(m)
      PROVE  UNCHANGED intent
  BY <1>5 DEF Prepare, RequestSync, Looking, Looks, Preview, Waits, CheckCancel, Duplicate, Checks,
     QueueCancel, Cancel, CancelOrder, CancelRaises, CancelRefused, CallsCancel, StartSync, controlVars
<1>6. CASE Channel \/ IngestEvent \/ EventBuried \/ \E s \in UsedPushes : Push(s)
  BY <1>2, <1>6 DEF Channel, controlVars, IngestEvent, EventBuried, Push
<1>7. CASE SyncEmitted \/ SyncRaises \/ AdapterRestarts \/ \E s : Emits(s)
  BY <1>2, <1>7 DEF SyncEmitted, SyncRaises, AdapterRestarts, Emits
<1>8. QED
  BY <1>2, <1>3, <1>4, <1>5, <1>6, <1>7 DEF Next, Looking, NoAccount, EmitScope

\* Every answer stays backed, and new ones are.
LEMMA AnswersStay == ASSUME IInv, Next PROVE AnswersAreBacked'
<1> USE DEF IInv
<1>1. \A m \in Commands : Backed(m, cmd[m])'
  <2>1. ASSUME NEW m \in Commands, cmd'[m] \in {cmd[m], "DELIVERED", "PENDING_DELIVERY"}
        PROVE  Backed(m, cmd[m])'
    <3>1. CASE cmd'[m] = cmd[m]
      BY <3>1, BackedStays DEF AnswersAreBacked, Backed
    <3>2. CASE cmd'[m] # cmd[m]
      BY <2>1, <3>2 DEF Backed
    <3>3. QED
      BY <3>1, <3>2
  <2>2. CASE IngestCommandAck
    <3>1. /\ acks # <<>> /\ cmd' = [cmd EXCEPT ![Head(acks).command] = Head(acks).status]
      BY <2>2 DEF IngestCommandAck, IngestAck
    <3>2. Head(acks).command \in Commands /\ Backed(Head(acks).command, Head(acks).status)
      BY <3>1, HeadAck DEF AnswersAreBacked
    <3>3. ASSUME NEW m \in Commands PROVE Backed(m, cmd[m])'
      <4>1. CASE m = Head(acks).command
        <5>1. cmd'[m] = Head(acks).status
          BY <3>1, <4>1 DEF ChannelOK, ChannelTypeOK
        <5>2. QED
          BY <3>2, <4>1, <5>1, BackedStays DEF Backed
      <4>2. CASE m # Head(acks).command
        <5>1. cmd'[m] = cmd[m]
          BY <3>1, <4>2 DEF ChannelOK, ChannelTypeOK
        <5>2. QED
          BY <2>1, <5>1
      <4>3. QED
        BY <4>1, <4>2
    <3>4. QED
      BY <3>3
  <2>3. CASE Channel
    BY <2>1, <2>3, ChannelReports DEF Channel, NothingInvented
  <2>4. QED
    BY <2>1, <2>2, <2>3, AnswerSteps
<1>2. \A k \in DOMAIN acks' : Backed(acks[k].command, acks[k].status)'
  <2>1. ASSUME NEW k \in DOMAIN acks', \E j \in DOMAIN acks : acks'[k] = acks[j]
        PROVE  Backed(acks[k].command, acks[k].status)'
    <3>1. PICK j \in DOMAIN acks : acks'[k] = acks[j]
      BY <2>1
    <3>2. acks[j].command \in Commands
      BY AckParts
    <3>3. QED
      BY <3>1, <3>2, BackedStays DEF AnswersAreBacked, Backed
  <2>2. CASE IngestCommandAck
    <3>1. acks # <<>> /\ acks' = Tail(acks)
      BY <2>2 DEF IngestCommandAck, IngestAck
    <3>2. QED
      BY <2>1, <3>1, HeadAck
  <2>3. CASE Channel
    <3>1. NothingInvented
      BY <2>3, ChannelReports DEF Channel
    <3>2. apc = "reject" => Backed(cur, "QMT_REJECTED")
      BY DEF AnswersAreBacked, Backed
    <3>3. ASSUME NEW k \in DOMAIN acks' PROVE Backed(acks[k].command, acks[k].status)'
      <4>1. CASE \E j \in DOMAIN acks : acks'[k] = acks[j]
        BY <2>1, <4>1
      <4>2. CASE apc = "ack" /\ acks'[k] = [command |-> cur, status |-> verdict]
        <5>1. acks'[k].command = cur /\ acks'[k].status = verdict /\ Backed(cur, verdict) /\ cur \in Commands
          BY <4>2, CurInCommands DEF AnswersAreBacked
        <5>2. QED
          BY <5>1, BackedStays DEF Backed
      <4>3. CASE apc = "reject" /\ acks'[k] = [command |-> cur, status |-> "QMT_REJECTED"]
        <5>1. acks'[k].command = cur /\ acks'[k].status = "QMT_REJECTED" /\ cur \in Commands
          BY <4>3, CurInCommands
        <5>2. QED
          BY <3>2, <4>3, <5>1, BackedStays DEF Backed
      <4>4. QED
        BY <3>1, <4>1, <4>2, <4>3 DEF NothingInvented
    <3>4. QED
      BY <3>3
  <2>4. CASE UNCHANGED acks
    BY <2>1, <2>4
  <2>5. QED
    BY <2>2, <2>3, <2>4, AnswerSteps
<1>3. /\ apc' = "ack" => Backed(cur, verdict)'
      /\ apc' = "reject" => cur' \in refused'
  <2>1. apc = "ack" /\ UNCHANGED <<cur, verdict>> => Backed(cur, verdict)'
    BY CurInCommands, BackedStays DEF AnswersAreBacked, Backed
  <2>2. apc = "reject" /\ UNCHANGED cur => cur' \in refused'
    BY CurInCommands, DoneStaysDone DEF AnswersAreBacked
  <2>3. CASE Channel
    BY <2>1, <2>2, <2>3, ChannelReports DEF Channel, NothingInvented
  <2>4. CASE IngestCommandAck
    BY <2>1, <2>2, <2>4 DEF IngestCommandAck, IngestAck
  <2>5. CASE SyncEmitted
    <3>1. /\ apc' = "ack" /\ cur' = syncing /\ verdict' = "SYNC_COMPLETED" /\ syncing \in Commands
          /\ kind' = kind /\ wanted' = wanted /\ emitted' = emitted /\ todo = {} /\ syncing # NoCommand
      BY <2>5 DEF SyncEmitted, Accepts, ControlTypeOK
    <3>2. kind[syncing] = "REQUEST_SYNC" /\ wanted[syncing] \subseteq emitted[syncing] \cup CreditScopes
      BY <3>1 DEF RequestsComeFirst, AnswersAreBacked
    <3>3. QED
      BY <3>1, <3>2 DEF Backed
  <2>6. ASSUME NEW m \in Commands, CancelOrder(m)
        PROVE  apc' = "ack" /\ Backed(cur, verdict)'
    <3>1. /\ apc' = "ack" /\ cur' = m /\ verdict' = "CANCEL_REQUESTED" /\ kind[m] = "CANCEL_ORDER"
          /\ kind' = kind /\ calls' = [calls EXCEPT ![m] = @ + 1]
      BY <2>6 DEF CancelOrder, Cancels, CallsCancel, Accepts
    <3>2. calls'[m] > 0
      <4>1. calls \in [Commands -> Nat]
        BY DEF ControlTypeOK
      <4>2. QED
        BY <3>1, <4>1
    <3>3. QED
      BY <3>1, <3>2 DEF Backed
  <2>7. QED
    BY <2>1, <2>2, <2>3, <2>4, <2>5, <2>6, AnswerSteps
<1>4. syncing' # NoCommand => wanted'[syncing'] \subseteq emitted'[syncing'] \cup todo' \cup CreditScopes
  BY SyncingStays
<1>5. /\ intent' = "CANCEL_REQUESTED" => \E m \in Prior' : calls'[m] > 0
      /\ intent' = "QMT_REJECTED" => Prior' \cap refused' # {}
  BY IntentStays
<1>6. QED
  BY <1>1, <1>2, <1>3, <1>4, <1>5 DEF AnswersAreBacked

-----------------------------------------------------------------------------
(* Snapshots.                                                              *)

\* Which steps touch database, folder and clock: an event is ingested, buried
\* or written, with the time it is read, or a preparation begins.
LEMMA EventSteps ==
  ASSUME IInv, Next
  PROVE  \/ /\ events # <<>> /\ events' = Tail(events)
            /\ view' = Applied(Head(events)) /\ UNCHANGED <<clock, withheld>>
         \/ /\ events # <<>> /\ events' = Tail(events)
            /\ withheld' = withheld \cup {Head(events)} /\ UNCHANGED <<clock, view>>
         \/ /\ \E s \in Scopes \cup Pushed : events' = Append(events, [about |-> s, read |-> clock])
            /\ UNCHANGED <<clock, view, withheld>>
         \/ /\ UNCHANGED <<events, view>> /\ clock' \in {clock, clock + 1}
            /\ withheld \subseteq withheld'
<1> USE DEF IInv
<1>1. IngestEvent => /\ events # <<>> /\ events' = Tail(events)
                     /\ view' = Applied(Head(events)) /\ UNCHANGED <<clock, withheld>>
  BY DEF IngestEvent
<1>2. EventBuried => /\ events # <<>> /\ events' = Tail(events)
                     /\ withheld' = withheld \cup {Head(events)} /\ UNCHANGED <<clock, view>>
  BY DEF EventBuried
<1>3. ASSUME NEW s \in UsedPushes, Push(s)
      PROVE  /\ s \in Scopes \cup Pushed /\ events' = Append(events, [about |-> s, read |-> clock])
             /\ UNCHANGED <<clock, view, withheld>>
  BY <1>3 DEF Push
<1>4. ASSUME NEW s \in Scopes, EmitScope(s)
      PROVE  /\ events' = Append(events, [about |-> s, read |-> clock])
             /\ UNCHANGED <<clock, view, withheld>>
  BY <1>4 DEF EmitScope, Emits
<1>5. ASSUME NEW m \in Commands, \/ Prepare(m) \/ (\E S \in Requests : RequestSync(m, S))
                                 \/ Looking(m) \/ QueueCancel(m) \/ Cancel(m) \/ StartSync(m)
      PROVE  UNCHANGED <<events, view, withheld>> /\ clock' \in {clock, clock + 1}
  BY <1>5 DEF Prepare, RequestSync, Looking, Looks, Preview, Waits, CheckCancel, Duplicate, Checks,
     QueueCancel, Cancel, CancelOrder, CancelRaises, CancelRefused, CallsCancel, StartSync, controlVars
<1>6. CASE Channel \/ IngestCommandAck \/ OrderReported \/ NoAccount \/ SyncEmitted \/ SyncRaises
           \/ AdapterRestarts
  <2>1. UNCHANGED <<events, view, clock>> /\ withheld \subseteq withheld'
    BY <1>6 DEF Channel, controlVars, IngestCommandAck, OrderReported, NoAccount, Emits, SyncEmitted,
       SyncRaises, AdapterRestarts
  <2>2. QED
    BY <2>1
<1>7. QED
  BY <1>1, <1>2, <1>3, <1>4, <1>5, <1>6 DEF Next, Looking

\* What the folder is after a step.
LEMMA TailEvents ==
  ASSUME ControlTypeOK, events # <<>>
  PROVE  /\ 1 \in DOMAIN events /\ Head(events) = events[1]
         /\ \A k \in DOMAIN Tail(events) : k + 1 \in DOMAIN events /\ Tail(events)[k] = events[k + 1]
         /\ \A k \in DOMAIN events : k = 1 \/ (k - 1 \in DOMAIN Tail(events) /\ Tail(events)[k - 1] = events[k])
<1>1. events \in Seq(Event)
  BY DEF ControlTypeOK
<1>2. QED
  BY <1>1

LEMMA AppendedEvent ==
  ASSUME ControlTypeOK, NEW e
  PROVE  /\ DOMAIN Append(events, e) = 1..(Len(events) + 1) /\ DOMAIN events = 1..Len(events)
         /\ Len(events) \in Nat
         /\ Append(events, e)[Len(events) + 1] = e
         /\ \A k \in DOMAIN events : Append(events, e)[k] = events[k]
<1>1. events \in Seq(Event)
  BY DEF ControlTypeOK
<1>2. QED
  BY <1>1

LEMMA ReadsAreNumbers ==
  ASSUME ControlTypeOK
  PROVE  /\ clock \in Nat /\ \A s \in Scopes : view[s] \in Nat
         /\ \A k \in DOMAIN events : events[k].read \in Nat
<1>1. \A k \in DOMAIN events : events[k] \in Event
  BY DEF ControlTypeOK
<1>2. QED
  BY <1>1 DEF ControlTypeOK, Event

\* Reading an event makes the database as new as it, or leaves it alone.
LEMMA AppliedIsRead ==
  ASSUME ControlTypeOK, NEW e \in Event, NEW s \in Scopes
  PROVE  Applied(e)[s] = IF e.about = s THEN e.read ELSE view[s]
  BY ScopeNames DEF Applied, ControlTypeOK

\* The folder stays in order, and the database behind it.
LEMMA OrderStays == ASSUME IInv, Next PROVE EventsAreInOrder' /\ (\A s \in Scopes : view'[s] <= clock')
<1> USE DEF IInv
<1>1. ASSUME events # <<>>, events' = Tail(events), clock' = clock,
             \A s \in Scopes : view'[s] = view[s] \/ view'[s] = events[1].read
      PROVE  EventsAreInOrder' /\ (\A s \in Scopes : view'[s] <= clock')
  <2>1. ASSUME NEW k \in DOMAIN events'
        PROVE  /\ events'[k].read <= clock'
               /\ \A s \in Scopes : view'[s] <= events'[k].read
               /\ \A j \in DOMAIN events' : j <= k => events'[j].read <= events'[k].read
    <3>1. /\ k + 1 \in DOMAIN events /\ events'[k] = events[k + 1] /\ k \in Nat
          /\ \A j \in DOMAIN events' : j + 1 \in DOMAIN events /\ events'[j] = events[j + 1] /\ j \in Nat
          /\ 1 \in DOMAIN events
      BY <1>1, TailEvents
    <3>2. events[1].read <= events[k + 1].read /\ \A s \in Scopes : view[s] <= events[k + 1].read
      BY <3>1 DEF EventsAreInOrder
    <3>3. \A j \in DOMAIN events' : j <= k => events[j + 1].read <= events[k + 1].read
      BY <3>1 DEF EventsAreInOrder
    <3>4. events[k + 1].read <= clock
      BY <3>1 DEF EventsAreInOrder
    <3>5. QED
      BY <1>1, <3>1, <3>2, <3>3, <3>4
  <2>2. \A s \in Scopes : view'[s] <= clock'
    BY <1>1, TailEvents DEF EventsAreInOrder, SnapshotsArrive
  <2>3. QED
    BY <2>1, <2>2 DEF EventsAreInOrder
<1>2. ASSUME events # <<>>, events' = Tail(events), clock' = clock,
             view' = Applied(Head(events)) \/ UNCHANGED view
      PROVE  EventsAreInOrder' /\ (\A s \in Scopes : view'[s] <= clock')
  <2>1. \A s \in Scopes : view'[s] = view[s] \/ view'[s] = events[1].read
    BY <1>2, HeadEvent, TailEvents, AppliedIsRead
  <2>2. QED
    BY <1>1, <1>2, <2>1
<1>3. ASSUME NEW e, e.read = clock, events' = Append(events, e), UNCHANGED <<clock, view>>
      PROVE  EventsAreInOrder' /\ (\A s \in Scopes : view'[s] <= clock')
  <2>1. \A k \in DOMAIN events' : \/ (k \in DOMAIN events /\ events'[k] = events[k])
                                  \/ (k = Len(events) + 1 /\ events'[k] = e)
    BY <1>3, AppendedEvent
  <2>2. Len(events) \in Nat /\ DOMAIN events = 1..Len(events)
    BY AppendedEvent
  <2>3. QED
    BY <1>3, <2>1, <2>2, ReadsAreNumbers DEF EventsAreInOrder, SnapshotsArrive
<1>4. ASSUME UNCHANGED <<events, view>>, clock' \in {clock, clock + 1}
      PROVE  EventsAreInOrder' /\ (\A s \in Scopes : view'[s] <= clock')
  BY <1>4, ReadsAreNumbers DEF EventsAreInOrder, SnapshotsArrive
<1>5. QED
  BY <1>2, <1>3, <1>4, EventSteps

\* What is as new as a stays so: nothing older is applied after it.
LEMMA FreshStays ==
  ASSUME IInv, Next, NEW s \in Scopes, NEW a \in Nat, Fresh(s, a)
  PROVE  Fresh(s, a)'
<1> USE DEF IInv
<1>1. ASSUME events # <<>>, events' = Tail(events), view' = Applied(Head(events)), UNCHANGED withheld
      PROVE  Fresh(s, a)'
  <2>1. view'[s] = IF events[1].about = s THEN events[1].read ELSE view[s]
    BY <1>1, HeadEvent, TailEvents, AppliedIsRead
  <2>2. CASE view[s] >= a
    <3>1. view[s] <= events[1].read
      BY <1>1, TailEvents DEF EventsAreInOrder
    <3>2. QED
      BY <1>1, <2>1, <2>2, <3>1, ReadsAreNumbers, TailEvents DEF Fresh
  <2>3. ASSUME NEW k \in DOMAIN events, events[k].about = s, events[k].read >= a PROVE Fresh(s, a)'
    <3>1. CASE k = 1
      BY <2>1, <2>3, <3>1 DEF Fresh
    <3>2. CASE k # 1
      BY <1>1, <2>3, <3>2, TailEvents DEF Fresh
    <3>3. QED
      BY <3>1, <3>2
  <2>4. QED
    BY <1>1, <2>2, <2>3 DEF Fresh
<1>2. ASSUME events # <<>>, events' = Tail(events), withheld' = withheld \cup {Head(events)}, UNCHANGED view
      PROVE  Fresh(s, a)'
  BY <1>2, TailEvents DEF Fresh
<1>3. ASSUME NEW e, events' = Append(events, e), UNCHANGED <<view, withheld>> PROVE Fresh(s, a)'
  BY <1>3, AppendedEvent DEF Fresh
<1>4. ASSUME UNCHANGED <<events, view>>, withheld \subseteq withheld' PROVE Fresh(s, a)'
  BY <1>4 DEF Fresh
<1>5. QED
  BY <1>1, <1>2, <1>3, <1>4, EventSteps

\* The database only gets newer.
LEMMA ViewGrows ==
  ASSUME IInv, Next
  PROVE  withheld \subseteq withheld' /\ \A s \in Scopes : view'[s] \in Nat /\ view'[s] >= view[s]
<1> USE DEF IInv
<1>1. ASSUME events # <<>>, view' = Applied(Head(events)), NEW s \in Scopes
      PROVE  view'[s] \in Nat /\ view'[s] >= view[s]
  <2>1. view'[s] = IF events[1].about = s THEN events[1].read ELSE view[s]
    BY <1>1, HeadEvent, TailEvents, AppliedIsRead
  <2>2. view[s] <= events[1].read /\ events[1].read \in Nat /\ view[s] \in Nat
    BY <1>1, TailEvents, ReadsAreNumbers DEF EventsAreInOrder
  <2>3. QED
    BY <2>1, <2>2
<1>2. \A s \in Scopes : view[s] \in Nat
  BY ReadsAreNumbers
<1>3. QED
  BY <1>1, <1>2, EventSteps

\* Which steps touch what was emitted for a command, and where a preparation is.
LEMMA EmittedSteps ==
  ASSUME IInv, Next, NEW m \in Commands
  PROVE  \/ emitted'[m] = emitted[m]
         \/ \E s \in Scopes : /\ emitted'[m] = emitted[m] \cup {s} /\ waiter'[m] = waiter[m]
                              /\ EmitScope(s) \/ (s = "ACCOUNT" /\ NoAccount)
<1> USE DEF IInv
<1>1. ASSUME NEW s, Emits(s)
      PROVE  s \in Scopes /\ emitted'[m] \in {emitted[m], emitted[m] \cup {s}} /\ waiter'[m] = waiter[m]
  BY <1>1 DEF Emits, ControlTypeOK
<1>2. ASSUME NEW c \in Commands, \/ Prepare(c) \/ (\E S \in Requests : RequestSync(c, S))
                                 \/ Looking(c) \/ QueueCancel(c) \/ Cancel(c) \/ StartSync(c)
      PROVE  UNCHANGED emitted
  BY <1>2 DEF Prepare, RequestSync, Looking, Looks, Preview, Waits, CheckCancel, Duplicate, Checks,
     QueueCancel, Cancel, CancelOrder, CancelRaises, CancelRefused, CallsCancel, StartSync, controlVars
<1>3. CASE Channel \/ IngestCommandAck \/ OrderReported \/ SyncEmitted \/ SyncRaises
           \/ AdapterRestarts \/ IngestEvent \/ EventBuried \/ \E s \in UsedPushes : Push(s)
  BY <1>3 DEF Channel, controlVars, IngestCommandAck, OrderReported, SyncEmitted, SyncRaises,
     AdapterRestarts, IngestEvent, EventBuried, Push
<1>4. QED
  BY <1>1, <1>2, <1>3 DEF Next, Looking, EmitScope, NoAccount

LEMMA WaiterSteps ==
  ASSUME IInv, Next, NEW m \in Commands
  PROVE  waiter'[m] = waiter[m] \/ Prepare(m) \/ Looks(m) \/ Preview(m)
<1> USE DEF IInv
<1>1. ASSUME NEW c \in Commands, Prepare(c) \/ Looks(c) \/ Preview(c), c # m PROVE waiter'[m] = waiter[m]
  BY <1>1 DEF Prepare, Looks, Preview, Waits, ControlTypeOK
<1>2. ASSUME NEW c \in Commands, \/ (\E S \in Requests : RequestSync(c, S)) \/ CheckCancel(c)
                                 \/ Duplicate(c) \/ QueueCancel(c) \/ Cancel(c) \/ StartSync(c)
      PROVE  UNCHANGED waiter
  BY <1>2 DEF RequestSync, CheckCancel, Duplicate, Checks,
     QueueCancel, Cancel, CancelOrder, CancelRaises, CancelRefused, CallsCancel, StartSync, controlVars
<1>3. CASE Channel \/ IngestCommandAck \/ OrderReported \/ SyncEmitted \/ SyncRaises
           \/ AdapterRestarts \/ IngestEvent \/ EventBuried \/ (\E s \in UsedPushes : Push(s))
           \/ (\E s : Emits(s))
  BY <1>3 DEF Channel, controlVars, IngestCommandAck, OrderReported, SyncEmitted, SyncRaises,
     AdapterRestarts, IngestEvent, EventBuried, Push, Emits
<1>4. QED
  BY <1>1, <1>2, <1>3 DEF Next, EmitScope, NoAccount

\* What is emitted for a preparation is on its way.
LEMMA EmittedArrive ==
  ASSUME IInv, Next, NEW m \in Commands, waiter'[m] # "none", NEW s \in emitted'[m]
  PROVE  Fresh(s, asked[m])'
<1> USE DEF IInv
<1>1. CASE waiter[m] = "none"
  <2>1. Prepare(m)
    BY <1>1, WaiterSteps DEF Looks, Preview, Waits
  <2>2. kind[m] = "NONE" /\ emitted' = emitted
    BY <2>1 DEF Prepare, Takes
  <2>3. QED
    BY <2>2 DEF RequestsComeFirst
<1>2. CASE waiter[m] # "none"
  <2>1. asked'[m] = asked[m] /\ asked[m] \in Nat /\ asked[m] <= clock /\ clock \in Nat
    BY <1>2, DoneStaysDone DEF RequestsComeFirst, ControlTypeOK
  <2>2. CASE s \in emitted[m]
    <3>1. s \in Scopes /\ Fresh(s, asked[m])
      BY <1>2, <2>2 DEF SnapshotsArrive, ControlTypeOK
    <3>2. QED
      BY <2>1, <3>1, FreshStays DEF Fresh
  <2>3. ASSUME s \in Scopes, EmitScope(s) PROVE Fresh(s, asked[m])'
    <3>1. events' = Append(events, [about |-> s, read |-> clock])
      BY <2>3 DEF EmitScope
    <3>2. /\ Len(events) + 1 \in DOMAIN events'
          /\ events'[Len(events) + 1] = [about |-> s, read |-> clock]
      BY <3>1, AppendedEvent
    <3>3. QED
      BY <2>1, <3>2 DEF Fresh
  <2>4. ASSUME s = "ACCOUNT", NoAccount PROVE Fresh(s, asked[m])'
    <3>1. withheld' = withheld \cup {[about |-> s, read |-> clock]}
      BY <2>4 DEF NoAccount
    <3>2. [about |-> s, read |-> clock] \in withheld'
      BY <3>1
    <3>3. QED
      BY <2>1, <3>2 DEF Fresh
  <2>5. QED
    BY <2>2, <2>3, <2>4, EmittedSteps
<1>3. QED
  BY <1>1, <1>2

\* prepare_trade learns that its command is completed when all was emitted.
LEMMA CompletedIsEmitted ==
  ASSUME IInv, Next, NEW m \in Commands, waiter'[m] = "completed"
  PROVE  Scopes \subseteq emitted'[m]
<1> USE DEF IInv
<1>1. emitted[m] \subseteq emitted'[m]
  BY EmittedSteps
<1>2. CASE waiter[m] = "completed"
  BY <1>1, <1>2 DEF SnapshotsArrive
<1>3. CASE waiter[m] # "completed"
  <2>1. waiter[m] # "none" /\ cmd[m] = "SYNC_COMPLETED"
    BY <1>3, WaiterSteps DEF Prepare, Looks, Preview, Waits, ControlTypeOK
  <2>2. wanted[m] = Scopes
    BY <2>1 DEF RequestsComeFirst
  <2>3. wanted[m] \subseteq emitted[m] \cup CreditScopes
    BY <2>1 DEF AnswersAreBacked, Backed
  <2>4. QED
    BY <1>1, <2>2, <2>3, ScopeNames
<1>4. QED
  BY <1>2, <1>3

LEMMA ArriveStay == ASSUME IInv, Next PROVE SnapshotsArrive'
  BY OrderStays, EmittedArrive, CompletedIsEmitted DEF SnapshotsArrive

\* prepare_trade goes on when the folder is empty, and has what is as new as it.
LEMMA PreviewStays == ASSUME IInv, Next PROVE FreshPreview'
<1> USE DEF IInv
<1> SUFFICES ASSUME NEW m \in Commands, waiter'[m] = "drained", NEW s \in Scopes
             PROVE  \/ view'[s] >= asked'[m]
                    \/ \E e \in withheld' : e.about = s /\ e.read >= asked'[m]
  BY DEF FreshPreview
<1>1. waiter[m] \in {"completed", "drained"}
  BY WaiterSteps DEF Prepare, Looks, Preview, Waits, ControlTypeOK
<1>2. asked'[m] = asked[m] /\ asked[m] \in Nat
  BY <1>1, DoneStaysDone DEF ControlTypeOK
<1>3. view[s] \in Nat /\ view'[s] \in Nat /\ view'[s] >= view[s] /\ withheld \subseteq withheld'
  BY ViewGrows, ReadsAreNumbers
<1>4. CASE waiter[m] = "drained"
  <2>1. view[s] >= asked[m] \/ \E e \in withheld : e.about = s /\ e.read >= asked[m]
    BY <1>4 DEF FreshPreview
  <2>2. CASE view[s] >= asked[m]
    BY <1>2, <1>3, <2>2
  <2>3. ASSUME NEW e \in withheld, e.about = s, e.read >= asked[m]
        PROVE  \E f \in withheld' : f.about = s /\ f.read >= asked'[m]
    BY <1>2, <1>3, <2>3
  <2>4. QED
    BY <2>1, <2>2, <2>3
<1>5. CASE waiter[m] = "completed"
  <2>1. events = <<>>
    BY <1>5, WaiterSteps DEF Prepare, Looks, Preview, Waits, ControlTypeOK
  <2>2. Fresh(s, asked[m])
    BY <1>5 DEF SnapshotsArrive
  <2>3. QED
    BY <1>2, <1>3, <2>1, <2>2 DEF Fresh
<1>6. QED
  BY <1>1, <1>4, <1>5

-----------------------------------------------------------------------------
(* The theorems.                                                           *)

LEMMA Initially == ASSUME Init PROVE IInv
<1>1. ChannelOK
  BY ChannelInitial DEF Init
<1>2. ControlTypeOK
  <2>1. events \in Seq(Event)
    BY DEF Init
  <2>2. QED
    BY <2>1 DEF Init, ControlTypeOK, NoView
<1>3. RequestsComeFirst
  BY DEF Init, RequestsComeFirst
<1>4. AnswersAreBacked
  BY DEF Init, ChannelInit, AnswersAreBacked, Backed
<1>5. EventsAreInOrder /\ SnapshotsArrive /\ FreshPreview
  BY DEF Init, NoView, EventsAreInOrder, SnapshotsArrive, FreshPreview
<1>6. QED
  BY <1>1, <1>2, <1>3, <1>4, <1>5 DEF IInv

LEMMA Unchanged == ASSUME IInv, UNCHANGED vars PROVE IInv'
<1> USE DEF IInv, vars, controlVars
<1>1. ChannelOK'
  BY DEF ChannelOK, ChannelTypeOK, ChannelInv, channelVars
<1>2. ControlTypeOK' /\ RequestsComeFirst'
  BY DEF ControlTypeOK, RequestsComeFirst
<1>3. AnswersAreBacked'
  BY DEF AnswersAreBacked, Backed, Prior, channelVars
<1>4. EventsAreInOrder' /\ SnapshotsArrive' /\ FreshPreview'
  BY DEF EventsAreInOrder, SnapshotsArrive, Fresh, FreshPreview
<1>5. QED
  BY <1>1, <1>2, <1>3, <1>4

\* IInv is inductive: what Worker and adapter keep between them over syncs,
\* preparations and cancellations, for any number of each.
THEOREM ControlInvariance == Spec => []IInv
<1>1. IInv /\ [Next]_vars => IInv'
  BY ChannelStays, TypesStay, RequestsStay, AnswersStay, OrderStays, ArriveStay, PreviewStays, Unchanged
     DEF IInv
<1>2. QED
  BY Initially, <1>1, PTL DEF Spec

\* The variables of Worker, adapter and channel keep their types.
THEOREM ControlTypeCorrectness == Spec => []TypeOK
<1>1. IInv => TypeOK
  BY DEF IInv, ChannelOK, ControlTypeOK, TypeOK
<1>2. QED
  BY <1>1, ControlInvariance, PTL

\* prepare_trade (core.py:1162) previews only on what was read in QMT after it
\* began, or on what a fault withheld from it.
THEOREM PreviewsAreFresh == Spec => []FreshPreview
<1>1. IInv => FreshPreview
  BY DEF IInv
<1>2. QED
  BY <1>1, ControlInvariance, PTL

\* What the database says of a command was carried out, and what it says of an
\* intent that was cancelled or rejected has such a command behind it.
THEOREM AnswersBacked == Spec => []AnswerIsBacked
<1>1. IInv => AnswerIsBacked
  BY DEF IInv, AnswersAreBacked, Backed, AnswerIsBacked
<1>2. QED
  BY <1>1, ControlInvariance, PTL

-----------------------------------------------------------------------------
(* The calls of cancel().                                                  *)

\* What there is to call cancel() for m: a request about to queue its command,
\* the command before its file is written, and its files but for the one the
\* adapter has handled and is about to move.
Chances(m) ==
  IF kind[m] = "CANCEL_ORDER"
  THEN (IF cmd[m] = "PENDING_DELIVERY" THEN 1 ELSE 0)
         + (IF apc # "idle" /\ cur = m THEN files[m] - 1 ELSE files[m])
  ELSE IF canceller[m] = "checked" THEN 1 ELSE 0

\* The calls made for m, and the ones there is a chance of.
Total(m) == calls[m] + Chances(m)

Tokens == UNION {{m} \X (1..Total(m)) : m \in Commands}

\* A fault adds one chance, and so does a request that looks for an earlier
\* cancellation while another is about to queue its own.
CallsAreCounted ==
  /\ \A m \in Commands : calls[m] # 0 => kind[m] = "CANCEL_ORDER"
  /\ \A m \in raced : canceller[m] # "none"
  /\ IsFiniteSet(raced) /\ IsFiniteSet(Tokens)
  /\ Cardinality(Tokens) <= 1 + Cardinality(raced) + faults

LEMMA TotalIsNat == ASSUME IInv PROVE \A m \in Commands : Total(m) \in Nat /\ calls[m] \in Nat /\ calls[m] <= Total(m)
<1> SUFFICES ASSUME NEW m \in Commands PROVE Total(m) \in Nat /\ calls[m] \in Nat /\ calls[m] <= Total(m)
  OBVIOUS
<1>1. files[m] \in Nat /\ calls[m] \in Nat /\ (apc # "idle" /\ cur = m => files[m] > 0)
  <2>1. files \in [Commands -> 0..2] /\ (apc # "idle" => files[cur] > 0)
    BY DEF IInv, ChannelOK, ChannelTypeOK, ChannelInv
  <2>2. calls \in [Commands -> Nat]
    BY DEF IInv, ControlTypeOK
  <2>3. QED
    BY <2>1, <2>2
<1>2. /\ (IF cmd[m] = "PENDING_DELIVERY" THEN 1 ELSE 0) \in Nat
      /\ (IF apc # "idle" /\ cur = m THEN files[m] - 1 ELSE files[m]) \in Nat
      /\ (IF canceller[m] = "checked" THEN 1 ELSE 0) \in Nat
  BY <1>1
<1>3. Chances(m) \in Nat
  BY <1>2 DEF Chances
<1>4. QED
  BY <1>1, <1>3 DEF Total

\* Where nothing these are counted from changes.
Uncounted == UNCHANGED <<kind, canceller, calls, cmd, files, apc, cur>>

LEMMA UncountedTotal == ASSUME Uncounted PROVE \A m : Total(m)' = Total(m)
  BY DEF Uncounted, Total, Chances

\* No chance comes of nothing.
NoMore == (\A m \in Commands : Total(m)' <= Total(m)) /\ UNCHANGED raced /\ faults <= faults'

\* One command gets one more chance from a fault.
OneMore ==
  /\ UNCHANGED raced /\ faults' = faults + 1
  /\ \E c \in Commands :
       /\ Total(c)' <= Total(c) + 1
       /\ \A m \in Commands \ {c} : Total(m)' <= Total(m)

LEMMA UncountedNoMore ==
  ASSUME IInv, Uncounted, UNCHANGED raced, faults' = faults \/ Fault PROVE NoMore
<1>1. faults \in Nat
  BY DEF IInv, ChannelOK, ChannelTypeOK
<1>2. faults <= faults'
  BY <1>1 DEF Fault
<1>3. QED
  BY <1>2, UncountedTotal, TotalIsNat DEF NoMore

LEMMA ChannelTotal ==
  ASSUME IInv, ChannelStep \/ IngestAck \/ AdapterStops, UNCHANGED <<kind, canceller, calls, raced>>
  PROVE  NoMore \/ OneMore
<1> USE DEF lossVars
<1>1. /\ files \in [Commands -> 0..2] /\ faults \in Nat /\ calls \in [Commands -> Nat]
      /\ apc # "idle" => cur \in Commands /\ files[cur] > 0
      /\ \A m \in Commands : cmd[m] = "PENDING_DELIVERY" => files[m] = 0
  <2>1. files \in [Commands -> 0..2] /\ copies \in [Commands -> 0..2] /\ faults \in Nat
    BY DEF IInv, ChannelOK, ChannelTypeOK
  <2>2. calls \in [Commands -> Nat]
    BY DEF IInv, ControlTypeOK
  <2>3. apc # "idle" => cur \in Commands /\ files[cur] > 0
    BY DEF IInv, ChannelOK, ChannelInv
  <2>4. \A m \in Commands : files[m] <= copies[m] /\ (cmd[m] = "PENDING_DELIVERY" => copies[m] = 0)
    BY DEF IInv, ChannelOK, ChannelInv
  <2>5. \A m \in Commands : cmd[m] = "PENDING_DELIVERY" => files[m] = 0
    BY <2>1, <2>4
  <2>6. QED
    BY <2>1, <2>2, <2>3, <2>5
<1>2. cmd \in [Commands -> AckStatus \cup {"NONE", "PENDING_DELIVERY", "DELIVERED"}]
  BY DEF IInv, ChannelOK, ChannelTypeOK
<1>3. ASSUME NEW c \in Commands, Dispatch(c) PROVE NoMore
  <2>1. /\ cmd[c] = "PENDING_DELIVERY" /\ cmd'[c] = "DELIVERED" /\ files'[c] = files[c] + 1
        /\ \A m \in Commands \ {c} : cmd'[m] = cmd[m] /\ files'[m] = files[m]
        /\ UNCHANGED <<apc, cur, faults>>
    BY <1>1, <1>2, <1>3 DEF Dispatch, WriteFile
  <2>2. Total(c)' <= Total(c)
    BY <1>1, <2>1 DEF Total, Chances
  <2>3. \A m \in Commands \ {c} : Total(m)' = Total(m)
    BY <2>1 DEF Total, Chances
  <2>4. QED
    BY <1>1, <2>1, <2>2, <2>3, TotalIsNat DEF NoMore
<1>4. ASSUME NEW c \in Commands, DispatchAgain(c) PROVE OneMore
  <2>1. /\ files'[c] = files[c] + 1 /\ \A m \in Commands \ {c} : files'[m] = files[m]
        /\ UNCHANGED <<cmd, apc, cur>> /\ faults' = faults + 1
    BY <1>1, <1>4 DEF DispatchAgain, WriteFile, Fault
  <2>2. Total(c)' <= Total(c) + 1
    BY <1>1, <2>1 DEF Total, Chances
  <2>3. \A m \in Commands \ {c} : Total(m)' = Total(m)
    BY <2>1 DEF Total, Chances
  <2>4. QED
    BY <2>1, <2>2, <2>3, TotalIsNat DEF OneMore
<1>5. ASSUME NEW c \in Commands, Expire(c) PROVE NoMore
  BY <1>5, UncountedNoMore DEF Expire, Uncounted
<1>6. ASSUME NEW c \in Commands, RefuseExpired(c) PROVE NoMore
  <2>1. apc = "idle" /\ files[c] > 0 /\ cur' = c /\ apc' # "idle" /\ UNCHANGED <<cmd, files, faults>>
    BY <1>6 DEF RefuseExpired, Rejecting
  <2>2. \A m \in Commands : Total(m)' <= Total(m)
    BY <1>1, <2>1 DEF Total, Chances
  <2>3. QED
    BY <1>1, <2>1, <2>2 DEF NoMore
<1>7. CASE Acknowledge \/ Reject \/ HandlingFails \/ RejectSilently
  <2>1. apc # "idle" /\ apc' # "idle" /\ UNCHANGED <<cmd, files, cur>> /\ (faults' = faults \/ Fault)
    BY <1>7 DEF Acknowledge, Reject, HandlingFails, RejectSilently
  <2>2. \A m \in Commands : Total(m)' = Total(m)
    BY <2>1 DEF Total, Chances
  <2>3. QED
    BY <1>1, <2>1, <2>2, TotalIsNat DEF NoMore, Fault
<1>8. CASE Archive \/ Bury
  <2>1. /\ apc # "idle" /\ files' = [files EXCEPT ![cur] = @ - 1] /\ apc' = "idle"
        /\ UNCHANGED <<cmd, faults>>
    BY <1>8 DEF Archive, Bury, Done
  <2>2. files'[cur] = files[cur] - 1 /\ \A m \in Commands \ {cur} : files'[m] = files[m]
    BY <1>1, <2>1
  <2>3. \A m \in Commands : Total(m)' = Total(m)
    BY <1>1, <2>1, <2>2 DEF Total, Chances
  <2>4. QED
    BY <1>1, <2>1, <2>3, TotalIsNat DEF NoMore
<1>9. CASE BuryFails \/ AdapterStops
  <2>1. apc' = "idle" /\ UNCHANGED <<cmd, files>> /\ faults' = faults + 1
    BY <1>9 DEF BuryFails, AdapterStops, Fault
  <2>2. CASE apc = "idle"
    <3>1. \A m \in Commands : Total(m)' = Total(m)
      BY <2>1, <2>2 DEF Total, Chances
    <3>2. QED
      BY <1>1, <2>1, <3>1, TotalIsNat DEF NoMore
  <2>3. CASE apc # "idle"
    <3>1. PICK c \in Commands : c = cur
      BY <1>1, <2>3
    <3>2. Total(c)' <= Total(c) + 1
      BY <1>1, <2>1, <2>3, <3>1 DEF Total, Chances
    <3>3. \A m \in Commands \ {c} : Total(m)' = Total(m)
      BY <2>1, <2>3, <3>1 DEF Total, Chances
    <3>4. QED
      BY <2>1, <3>2, <3>3, TotalIsNat DEF OneMore
  <2>4. QED
    BY <2>2, <2>3
<1>10. CASE AckExpires
  BY <1>10, UncountedNoMore DEF AckExpires, Uncounted
<1>11. CASE IngestAck
  <2>1. acks \in Seq(Ack) /\ acks # <<>>
    BY <1>11 DEF IngestAck, IInv, ChannelOK, ChannelTypeOK
  <2>2. Head(acks) \in Ack
    BY <2>1
  <2>3. \A m \in Commands : cmd'[m] = "PENDING_DELIVERY" => cmd[m] = "PENDING_DELIVERY"
    BY <1>2, <1>11, <2>2 DEF IngestAck, Ack, AckStatus, Handled
  <2>4. UNCHANGED <<files, apc, cur, faults>>
    BY <1>11 DEF IngestAck
  <2>5. \A m \in Commands : Total(m)' <= Total(m)
    BY <1>1, <2>3, <2>4 DEF Total, Chances
  <2>6. QED
    BY <1>1, <2>4, <2>5 DEF NoMore
<1>12. QED
  BY <1>3, <1>4, <1>5, <1>6, <1>7, <1>8, <1>9, <1>10, <1>11 DEF ChannelStep, Finish


\* Only a cancellation's command is handed to cancel().
CancelsCount == \A m \in Commands : calls[m] # 0 => kind[m] = "CANCEL_ORDER"

LEMMA CancelTotal ==
  ASSUME IInv, NEW c \in Commands, Cancel(c) PROVE NoMore /\ (CancelsCount => CancelsCount')
<1> USE DEF lossVars
<1>1. files \in [Commands -> 0..2] /\ faults \in Nat /\ calls \in [Commands -> Nat]
  BY DEF IInv, ChannelOK, ChannelTypeOK, ControlTypeOK
<1>2. /\ kind[c] = "CANCEL_ORDER" /\ apc = "idle" /\ apc' # "idle" /\ cur' = c
      /\ UNCHANGED <<kind, canceller, raced, cmd, files, faults>>
      /\ calls' = calls \/ calls' = [calls EXCEPT ![c] = @ + 1]
  BY DEF Cancel, CancelOrder, CancelRaises, CancelRefused, CallsCancel, Cancels, Idle, Accepts,
         Refuses, Picks, Rejecting, controlVars
<1>3. calls'[c] \in {calls[c], calls[c] + 1} /\ \A m \in Commands \ {c} : calls'[m] = calls[m]
  BY <1>1, <1>2
<1>4. Total(c)' <= Total(c)
  BY <1>1, <1>2, <1>3 DEF Total, Chances
<1>5. \A m \in Commands \ {c} : Total(m)' = Total(m)
  BY <1>2, <1>3 DEF Total, Chances
<1>6. CancelsCount => CancelsCount'
  BY <1>2, <1>3 DEF CancelsCount
<1>7. QED
  BY <1>1, <1>2, <1>4, <1>5, <1>6, TotalIsNat DEF NoMore

\* A request that is queued, or answered as a duplicate, has the chance it had.
LEMMA RequestTotal ==
  ASSUME IInv, CancelsCount, NEW c \in Commands,
         Prepare(c) \/ (\E S \in Requests : RequestSync(c, S)) \/ Duplicate(c) \/ QueueCancel(c)
  PROVE  NoMore /\ CancelsCount'
<1> USE DEF lossVars
<1>1. /\ files \in [Commands -> 0..2] /\ faults \in Nat /\ calls \in [Commands -> Nat]
      /\ kind \in [Commands -> {"NONE", "REQUEST_SYNC", "CANCEL_ORDER"}]
      /\ canceller \in [Commands -> {"none", "checked", "queued", "duplicate"}]
      /\ cmd \in [Commands -> AckStatus \cup {"NONE", "PENDING_DELIVERY", "DELIVERED"}]
  BY DEF IInv, ChannelOK, ChannelTypeOK, ControlTypeOK
<1>2. kind[c] = "NONE" /\ UNCHANGED <<calls, raced, files, apc, cur, faults>>
  BY DEF Prepare, RequestSync, Duplicate, QueueCancel, Checks, Takes, Queues, QueueCommand,
         IInv, RequestsComeFirst, channelVars
<1>3. calls[c] = 0
  BY <1>2 DEF CancelsCount
<1>4. \A m \in Commands \ {c} : kind'[m] = kind[m] /\ canceller'[m] = canceller[m] /\ cmd'[m] = cmd[m]
  BY <1>1 DEF Prepare, RequestSync, Duplicate, QueueCancel, Checks, Queues, QueueCommand,
         requestVars, channelVars
<1>5. \A m \in Commands \ {c} : Total(m)' = Total(m)
  BY <1>2, <1>4 DEF Total, Chances
<1>6. Total(c)' <= Total(c)
  <2>1. CASE Prepare(c) \/ \E S \in Requests : RequestSync(c, S)
    <3>1. kind'[c] = "REQUEST_SYNC" /\ canceller'[c] = "none"
      BY <1>1, <2>1 DEF Prepare, RequestSync, Takes, Queues
    <3>2. QED
      BY <1>2, <1>3, <3>1 DEF Total, Chances
  <2>2. CASE Duplicate(c)
    <3>1. kind'[c] = "NONE" /\ canceller'[c] = "duplicate"
      BY <1>1, <1>2, <2>2 DEF Duplicate, Checks, requestVars
    <3>2. QED
      BY <1>2, <1>3, <3>1 DEF Total, Chances
  <2>3. CASE QueueCancel(c)
    <3>1. cmd[c] = "NONE" /\ canceller[c] = "checked" /\ kind'[c] = "CANCEL_ORDER"
          /\ cmd'[c] = "PENDING_DELIVERY"
      BY <1>1, <2>3 DEF QueueCancel, Queues, QueueCommand
    <3>2. files[c] = 0 /\ ~(apc # "idle" /\ cur = c)
      <4>1. files[c] <= copies[c] /\ copies[c] = 0
        BY <3>1 DEF IInv, ChannelOK, ChannelInv
      <4>2. apc # "idle" => files[cur] > 0
        BY DEF IInv, ChannelOK, ChannelInv
      <4>3. files[c] \in 0..2
        BY <1>1
      <4>4. files[c] = 0
        BY <4>1, <4>3
      <4>5. QED
        BY <4>2, <4>4
    <3>3. QED
      BY <1>2, <1>3, <3>1, <3>2 DEF Total, Chances
  <2>4. QED
    BY <2>1, <2>2, <2>3
<1>7. CancelsCount'
  BY <1>2, <1>3, <1>4 DEF CancelsCount
<1>8. QED
  BY <1>1, <1>2, <1>5, <1>6, <1>7, TotalIsNat DEF NoMore


LEMMA SyncTotal ==
  ASSUME IInv, SyncEmitted \/ SyncRaises PROVE NoMore /\ UNCHANGED <<kind, calls>>
<1> USE DEF lossVars
<1>1. PICK c \in Commands : c = syncing
  BY DEF SyncEmitted, SyncRaises, IInv, ControlTypeOK
<1>2. kind[c] = "REQUEST_SYNC" /\ faults \in Nat
  BY <1>1 DEF SyncEmitted, SyncRaises, IInv, RequestsComeFirst, ChannelOK, ChannelTypeOK
<1>3. /\ apc = "idle" /\ cur' = c
      /\ UNCHANGED <<kind, canceller, calls, raced, cmd, files, faults>>
  BY <1>1 DEF SyncEmitted, SyncRaises, Accepts, Refuses, Picks, Rejecting
<1>4. \A m \in Commands : Total(m)' = Total(m)
  BY <1>2, <1>3 DEF Total, Chances
<1>5. QED
  BY <1>2, <1>3, <1>4, TotalIsNat DEF NoMore

\* No step but cancel_order's look for an earlier cancellation makes a chance,
\* unless it is a fault.
LEMMA StepTotal ==
  ASSUME IInv, CancelsCount, Next
  PROVE  /\ CancelsCount'
         /\ NoMore \/ OneMore \/ \E c \in Commands : CheckCancel(c)
<1> USE DEF lossVars
<1>1. CASE Channel \/ IngestCommandAck \/ AdapterRestarts
  <2>1. UNCHANGED <<kind, canceller, calls, raced>>
    BY <1>1 DEF Channel, IngestCommandAck, AdapterRestarts, controlVars
  <2>2. ChannelStep \/ IngestAck \/ AdapterStops
    BY <1>1 DEF Channel, IngestCommandAck, AdapterRestarts
  <2>3. QED
    BY <2>1, <2>2, ChannelTotal DEF CancelsCount
<1>2. ASSUME NEW c \in Commands,
             Prepare(c) \/ (\E S \in Requests : RequestSync(c, S)) \/ Duplicate(c) \/ QueueCancel(c)
      PROVE  NoMore /\ CancelsCount'
  BY <1>2, RequestTotal
<1>3. ASSUME NEW c \in Commands, Cancel(c) PROVE NoMore /\ CancelsCount'
  BY <1>3, CancelTotal
<1>4. ASSUME NEW c \in Commands, CheckCancel(c) PROVE CancelsCount'
  BY <1>4 DEF CheckCancel, Checks, CancelsCount
<1>5. CASE SyncEmitted \/ SyncRaises
  BY <1>5, SyncTotal DEF CancelsCount
<1>6. CASE \/ \E m \in Commands : Looks(m) \/ Preview(m) \/ StartSync(m)
           \/ IngestEvent \/ OrderReported \/ (\E s \in UsedPushes : Push(s))
           \/ \E s \in Scopes : EmitScope(s)
  <2>1. Uncounted /\ UNCHANGED <<raced, faults>>
    BY <1>6 DEF Looks, Preview, Waits, StartSync, IngestEvent, OrderReported, Push, EmitScope,
                Emits, Uncounted, channelVars
  <2>2. QED
    BY <2>1, UncountedNoMore DEF Uncounted, CancelsCount
<1>7. CASE EventBuried \/ NoAccount
  <2>1. Uncounted /\ UNCHANGED raced /\ Fault
    BY <1>7 DEF EventBuried, NoAccount, Emits, Uncounted
  <2>2. QED
    BY <2>1, UncountedNoMore DEF Uncounted, CancelsCount
<1>8. QED
  BY <1>1, <1>2, <1>3, <1>4, <1>5, <1>6, <1>7 DEF Next

LEMMA TokensAreNumbered ==
  \A m \in Commands : \A k : <<m, k>> \in Tokens <=> k \in 1..Total(m)
  BY DEF Tokens

\* A request that finds no cancellation and nobody about to queue one finds no
\* chance either; any other is a race.
LEMMA CheckTotal ==
  ASSUME IInv, CallsAreCounted, NEW c \in Commands, CheckCancel(c)
  PROVE  /\ \A m \in Commands \ {c} : Total(m)' = Total(m)
         /\ Total(c) = 0 /\ Total(c)' = 1 /\ faults' = faults
         /\ c \notin raced /\ canceller'[c] # "none"
         /\ (raced' = raced /\ Tokens = {}) \/ raced' = raced \cup {c}
<1>1. /\ kind[c] = "NONE" /\ canceller[c] = "none"
      /\ canceller \in [Commands -> {"none", "checked", "queued", "duplicate"}]
      /\ canceller' = [canceller EXCEPT ![c] = "checked"]
      /\ UNCHANGED <<kind, calls, cmd, files, apc, cur, faults>>
  BY DEF CheckCancel, Checks, Takes, IInv, ControlTypeOK, channelVars, lossVars
<1>2. calls[c] = 0
  BY <1>1 DEF CallsAreCounted
<1>3. Total(c) = 0
  BY <1>1, <1>2 DEF Total, Chances
<1>4. canceller'[c] = "checked" /\ \A m \in Commands \ {c} : canceller'[m] = canceller[m]
  BY <1>1
<1>5. Total(c)' = 1
  BY <1>1, <1>2, <1>4 DEF Total, Chances
<1>6. \A m \in Commands \ {c} : Total(m)' = Total(m)
  BY <1>1, <1>4 DEF Total, Chances
<1>7. ASSUME Racing = {} PROVE raced' = raced /\ Tokens = {}
  <2>1. raced' = raced /\ Prior = {}
    BY <1>7 DEF CheckCancel
  <2>2. ASSUME NEW m \in Commands PROVE Total(m) = 0
    <3>1. kind[m] # "CANCEL_ORDER" /\ canceller[m] # "checked"
      BY <1>7, <2>1 DEF Prior, Racing
    <3>2. calls[m] = 0
      BY <3>1 DEF CallsAreCounted
    <3>3. QED
      BY <3>1, <3>2 DEF Total, Chances
  <2>3. \A m \in Commands : 1..Total(m) = {}
    BY <2>2
  <2>4. Tokens = {}
    BY <2>3 DEF Tokens
  <2>5. QED
    BY <2>1, <2>4
<1>8. ASSUME Racing # {} PROVE raced' = raced \cup {c}
  BY <1>8 DEF CheckCancel
<1>9. c \notin raced
  BY <1>1 DEF CallsAreCounted
<1>10. QED
  BY <1>1, <1>3, <1>4, <1>5, <1>6, <1>7, <1>8, <1>9


TotalsAreNumbers == \A m \in Commands : Total(m) \in Nat

LEMMA NextTotalIsNat == IInv' => TotalsAreNumbers'
<1>1. IInv => TotalsAreNumbers
  BY TotalIsNat DEF TotalsAreNumbers
<1>2. QED
  BY <1>1, PTL

\* What the numbered chances come to.
LEMMA TokensGrow ==
  ASSUME IInv, IInv', NEW c \in Commands, Total(c)' <= Total(c) + 1,
         \A m \in Commands \ {c} : Total(m)' <= Total(m)
  PROVE  Tokens' \subseteq Tokens \cup {<<c, Total(c) + 1>>}
<1>1. \A m \in Commands : Total(m) \in Nat /\ Total(m)' \in Nat
  BY TotalIsNat, NextTotalIsNat DEF TotalsAreNumbers
<1>2. ASSUME NEW m \in Commands, NEW k \in 1..Total(m)', <<m, k>> \notin Tokens
      PROVE  <<m, k>> = <<c, Total(c) + 1>>
  <2>1. k \notin 1..Total(m)
    BY <1>2, TokensAreNumbered
  <2>2. m = c
    BY <1>1, <2>1
  <2>3. k = Total(c) + 1
    BY <1>1, <2>1, <2>2
  <2>4. QED
    BY <2>2, <2>3
<1>3. QED
  BY <1>2 DEF Tokens

LEMMA TokensShrink ==
  ASSUME IInv, IInv', \A m \in Commands : Total(m)' <= Total(m) PROVE Tokens' \subseteq Tokens
<1>1. \A m \in Commands : Total(m) \in Nat /\ Total(m)' \in Nat
  BY TotalIsNat, NextTotalIsNat DEF TotalsAreNumbers
<1>2. \A m \in Commands : 1..Total(m)' \subseteq 1..Total(m)
  BY <1>1
<1>3. QED
  BY <1>2 DEF Tokens

\* A request that has begun is not forgotten.
LEMMA CancellerStays ==
  ASSUME IInv, Next PROVE \A m \in Commands : canceller[m] # "none" => canceller'[m] # "none"
<1>1. canceller \in [Commands -> {"none", "checked", "queued", "duplicate"}]
  BY DEF IInv, ControlTypeOK
<1>2. ASSUME NEW c \in Commands, CheckCancel(c) \/ Duplicate(c) \/ QueueCancel(c)
      PROVE  \E s \in {"checked", "queued", "duplicate"} : canceller' = [canceller EXCEPT ![c] = s]
  BY <1>2 DEF CheckCancel, Duplicate, QueueCancel, Checks
<1>3. ASSUME NEW c \in Commands,
             \/ Prepare(c) \/ (\E S \in Requests : RequestSync(c, S)) \/ Cancel(c)
             \/ Looks(c) \/ Preview(c) \/ StartSync(c)
      PROVE  canceller' = canceller
  BY <1>3 DEF Prepare, RequestSync, Cancel, CancelOrder, CancelRaises, CancelRefused, CallsCancel,
              Looks, Preview, Waits, StartSync, controlVars
<1>4. CASE \/ Channel \/ IngestEvent \/ EventBuried \/ IngestCommandAck \/ OrderReported
           \/ (\E s \in UsedPushes : Push(s)) \/ (\E s \in Scopes : EmitScope(s)) \/ NoAccount
           \/ SyncEmitted \/ SyncRaises \/ AdapterRestarts
  BY <1>4 DEF Channel, IngestEvent, EventBuried, IngestCommandAck, OrderReported, Push, EmitScope,
              NoAccount, Emits, SyncEmitted, SyncRaises, AdapterRestarts, controlVars
<1>5. QED
  BY <1>1, <1>2, <1>3, <1>4 DEF Next

LEMMA CountStays == ASSUME IInv, IInv', CallsAreCounted, Next PROVE CallsAreCounted'
<1> USE DEF CallsAreCounted
<1>1. CancelsCount
  BY DEF CancelsCount
<1>2. CancelsCount' /\ (NoMore \/ OneMore \/ \E c \in Commands : CheckCancel(c))
  BY <1>1, StepTotal
<1>3. faults \in Nat /\ Cardinality(raced) \in Nat /\ Cardinality(Tokens) \in Nat
  BY FS_CardinalityType DEF IInv, ChannelOK, ChannelTypeOK
<1>4. raced \subseteq Commands /\ \A m \in Commands : canceller[m] # "none" => canceller'[m] # "none"
  BY CancellerStays DEF IInv, ControlTypeOK
<1>5. CASE NoMore
  <2>1. Tokens' \subseteq Tokens /\ raced' = raced /\ faults <= faults' /\ faults' \in Nat
    BY <1>5, TokensShrink DEF NoMore, IInv, ChannelOK, ChannelTypeOK
  <2>2. IsFiniteSet(Tokens') /\ Cardinality(Tokens') <= Cardinality(Tokens)
    BY <2>1, FS_Subset
  <2>3. Cardinality(Tokens') \in Nat
    BY <2>2, FS_CardinalityType
  <2>4. Cardinality(Tokens') <= 1 + Cardinality(raced) + faults'
    BY <1>3, <2>1, <2>2, <2>3
  <2>5. QED
    BY <1>2, <1>4, <2>1, <2>2, <2>4 DEF CancelsCount
<1>6. ASSUME NEW c \in Commands, Total(c)' <= Total(c) + 1,
             \A m \in Commands \ {c} : Total(m)' <= Total(m)
      PROVE  IsFiniteSet(Tokens') /\ Cardinality(Tokens') <= Cardinality(Tokens) + 1
             /\ Cardinality(Tokens') \in Nat
  <2> DEFINE t == <<c, Total(c) + 1>>
  <2>1. Tokens' \subseteq Tokens \cup {t}
    BY <1>6, TokensGrow
  <2>2. /\ IsFiniteSet(Tokens \cup {t})
        /\ Cardinality(Tokens \cup {t}) \in {Cardinality(Tokens), Cardinality(Tokens) + 1}
    <3> HIDE DEF t
    <3>1. QED
      BY FS_AddElement
  <2>3. IsFiniteSet(Tokens') /\ Cardinality(Tokens') <= Cardinality(Tokens \cup {t})
    <3> HIDE DEF t
    <3>1. QED
      BY <2>1, <2>2, FS_Subset
  <2>4. Cardinality(Tokens') \in Nat
    BY <2>3, FS_CardinalityType
  <2>5. QED
    BY <1>3, <2>2, <2>3, <2>4
<1>7. CASE OneMore
  <2>1. raced' = raced /\ faults' = faults + 1
    BY <1>7 DEF OneMore
  <2>2. IsFiniteSet(Tokens') /\ Cardinality(Tokens') <= Cardinality(Tokens) + 1
        /\ Cardinality(Tokens') \in Nat
    BY <1>6, <1>7 DEF OneMore
  <2>3. Cardinality(Tokens') <= 1 + Cardinality(raced) + faults'
    BY <1>3, <2>1, <2>2
  <2>4. QED
    BY <1>2, <1>4, <2>1, <2>2, <2>3 DEF CancelsCount
<1>8. ASSUME NEW c \in Commands, CheckCancel(c) PROVE CallsAreCounted'
  <2>1. /\ \A m \in Commands \ {c} : Total(m)' = Total(m)
        /\ Total(c) = 0 /\ Total(c)' = 1 /\ faults' = faults
        /\ c \notin raced /\ canceller'[c] # "none"
        /\ (raced' = raced /\ Tokens = {}) \/ raced' = raced \cup {c}
    BY <1>8, CheckTotal
  <2>2. IsFiniteSet(Tokens') /\ Cardinality(Tokens') <= Cardinality(Tokens) + 1
        /\ Cardinality(Tokens') \in Nat
    BY <1>6, <2>1, TotalIsNat
  <2>3. CASE raced' = raced /\ Tokens = {}
    <3>1. Cardinality(Tokens) = 0
      BY <2>3, FS_EmptySet
    <3>2. Cardinality(Tokens') <= 1 + Cardinality(raced) + faults'
      BY <1>3, <2>1, <2>2, <3>1
    <3>3. QED
      BY <1>2, <1>4, <2>2, <2>3, <3>2 DEF CancelsCount
  <2>4. CASE raced' = raced \cup {c}
    <3>1. IsFiniteSet(raced') /\ Cardinality(raced') = Cardinality(raced) + 1
      BY <2>1, <2>4, FS_AddElement
    <3>2. Cardinality(Tokens') <= 1 + Cardinality(raced') + faults'
      BY <1>3, <2>1, <2>2, <3>1
    <3>3. \A m \in raced' : canceller'[m] # "none"
      BY <1>4, <2>1, <2>4
    <3>4. QED
      BY <1>2, <2>2, <3>1, <3>2, <3>3 DEF CancelsCount
  <2>5. QED
    BY <2>1, <2>3, <2>4
<1>9. QED
  BY <1>2, <1>5, <1>7, <1>8

LEMMA CountUnchanged == ASSUME CallsAreCounted, UNCHANGED vars PROVE CallsAreCounted'
<1>1. UNCHANGED <<kind, cmd, files, apc, cur, canceller, calls, raced, faults>>
  BY DEF vars, channelVars, controlVars, lossVars
<1>2. QED
  BY <1>1 DEF CallsAreCounted, Tokens, Total, Chances

LEMMA CountInitially == ASSUME Init PROVE CallsAreCounted
<1>1. \A m \in Commands : calls[m] = 0 /\ kind[m] = "NONE" /\ canceller[m] = "none"
  BY DEF Init
<1>2. \A m \in Commands : Total(m) = 0
  BY <1>1 DEF Total, Chances
<1>3. \A m \in Commands : 1..Total(m) = {}
  BY <1>2
<1>4. Tokens = {}
  BY <1>3 DEF Tokens
<1>5. raced = {} /\ faults = 0
  BY DEF Init, ChannelInit
<1>6. QED
  <2>1. IsFiniteSet(raced) /\ IsFiniteSet(Tokens)
    BY <1>4, <1>5, FS_EmptySet
  <2>2. Cardinality(raced) = 0 /\ Cardinality(Tokens) = 0
    BY <1>4, <1>5, FS_EmptySet
  <2>3. Cardinality(Tokens) <= 1 + Cardinality(raced) + faults
    BY <1>5, <2>2
  <2>4. QED
    BY <1>1, <1>5, <2>1, <2>3 DEF CallsAreCounted

\* Over the requests, files and restarts of any number of cancellations of one
\* order, the calls of cancel() and the chances of one never exceed one but for
\* the races and the faults there have been.
THEOREM CallsCounted == Spec => []CallsAreCounted
<1>1. IInv /\ IInv' /\ CallsAreCounted /\ [Next]_vars => CallsAreCounted'
  BY CountStays, CountUnchanged
<1>2. QED
  BY CountInitially, <1>1, ControlInvariance, PTL DEF Spec

\* cancel_order (core.py:2460) and _cancel_order (qmt_embedded_adapter.py:1079) have
\* cancel() called once, races of two requests and faults excepted.
THEOREM CancelOnce == Spec => []OneCancel
<1>1. ASSUME IInv, CallsAreCounted PROVE OneCancel
  <2>1. Calls \subseteq Tokens
    <3>1. \A m \in Commands : 1..calls[m] \subseteq 1..Total(m)
      BY <1>1, TotalIsNat
    <3>2. QED
      BY <3>1 DEF Calls, Tokens
  <2>2. IsFiniteSet(Tokens) /\ Cardinality(Tokens) <= 1 + Cardinality(raced) + faults
        /\ IsFiniteSet(raced)
    BY <1>1 DEF CallsAreCounted
  <2>3. IsFiniteSet(Calls) /\ Cardinality(Calls) <= Cardinality(Tokens)
    BY <2>1, <2>2, FS_Subset
  <2>4. /\ Cardinality(Calls) \in Nat /\ Cardinality(Tokens) \in Nat /\ Cardinality(raced) \in Nat
        /\ faults \in Nat
    BY <1>1, <2>2, <2>3, FS_CardinalityType DEF IInv, ChannelOK, ChannelTypeOK
  <2>5. QED
    BY <2>2, <2>3, <2>4 DEF OneCancel
<1>2. QED
  BY <1>1, CallsCounted, ControlInvariance, PTL
=============================================================================
