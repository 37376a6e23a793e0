--------------------------- MODULE CommandChannel ---------------------------
(***************************************************************************)
(* The way of a command that is not an order: CREDIT_PRECHECK,             *)
(* CANCEL_ORDER and REQUEST_SYNC.  _queue_control_command inserts its row, *)
(* dispatch_pending_commands writes its file, the adapter's poll_commands  *)
(* handles it, and the acknowledgement becomes the status of the row.      *)
(*                                                                         *)
(* Orders take the same way (OrderPipeline), but they have a journal.      *)
(* These commands have none: a second file of one is handled again, and a  *)
(* command whose handling fails at its end is reported as rejected         *)
(* although it was carried out.                                            *)
(*                                                                         *)
(* The module has no specification: what the handlers do is in the modules *)
(* that extend it.  Abstractions: writing a file and marking its row are   *)
(* one step, and a second dispatcher that read the row before, or one that *)
(* stopped in between, writes the file once more at some later time; the   *)
(* steps themselves are OrderPipeline's.  Files are handled in any order.  *)
(***************************************************************************)
EXTENDS Naturals, Sequences, FiniteSets

CONSTANTS
  Commands,   \* message_ids
  NoCommand,
  MaxFaults   \* bound on crashes, I/O errors, delays and second files

ASSUME NoCommandAssumption == NoCommand \notin Commands
ASSUME FaultAssumption == MaxFaults \in Nat

\* What the handlers acknowledge, and with the answer of poll_commands to
\* whatever they raise.
Handled == {"ACKNOWLEDGED", "CANCEL_REQUESTED", "SYNC_COMPLETED"}
AckStatus == Handled \cup {"QMT_REJECTED"}
Ack == [command : Commands, status : AckStatus]

VARIABLES
  cmd,        \* qmt_commands.status, "NONE" before the row exists
  copies,     \* copies[m]: the files of m ever written
  files,      \* files[m]: the files of m in the commands folder
  old,        \* the commands past their TTL
  acks,       \* the command_acks folder, oldest first
  apc,        \* where poll_commands is
  cur,        \* the command it handles, or NoCommand
  verdict,    \* the status it is about to acknowledge, or "NONE"
  faults,     \* crashes, I/O errors and expired acknowledgements so far
  refused,    \* history: the commands the adapter came to reject
  unanswered  \* history: the commands an answer to which was lost

folderVars  == <<copies, files, old, acks>>
pollVars    == <<apc, cur, verdict>>
lossVars    == <<faults, refused, unanswered>>
channelVars == <<cmd, copies, files, old, acks, apc, cur, verdict, faults, refused,
                 unanswered>>

ChannelTypeOK ==
  /\ cmd \in [Commands -> AckStatus \cup {"NONE", "PENDING_DELIVERY", "DELIVERED"}]
  /\ copies \in [Commands -> 0..2]
  /\ files \in [Commands -> 0..2]
  /\ old \in SUBSET Commands
  /\ acks \in Seq(Ack)
  /\ apc \in {"idle", "ack", "archive", "reject", "bury"}
  /\ cur \in Commands \cup {NoCommand}
  /\ verdict \in Handled \cup {"NONE"}
  /\ faults \in 0..MaxFaults
  /\ refused \in SUBSET Commands
  /\ unanswered \in SUBSET Commands

ChannelInit ==
  /\ cmd = [m \in Commands |-> "NONE"]
  /\ copies = [m \in Commands |-> 0]
  /\ files = [m \in Commands |-> 0]
  /\ old = {}
  /\ acks = <<>>
  /\ apc = "idle"
  /\ cur = NoCommand
  /\ verdict = "NONE"
  /\ faults = 0
  /\ refused = {}
  /\ unanswered = {}

\* Something goes wrong.
Fault == faults < MaxFaults /\ faults' = faults + 1

-----------------------------------------------------------------------------
(* The Worker.                                                             *)

\* _queue_control_command inserts the row.
QueueCommand(m) ==
  /\ cmd[m] = "NONE"
  /\ cmd' = [cmd EXCEPT ![m] = "PENDING_DELIVERY"]
  /\ UNCHANGED <<folderVars, pollVars, lossVars>>

WriteFile(m) ==
  /\ copies' = [copies EXCEPT ![m] = @ + 1]
  /\ files' = [files EXCEPT ![m] = @ + 1]

\* Mutant: the row is not marked.
DispatchUnmarked(m) ==
  /\ cmd[m] = "PENDING_DELIVERY"
  /\ WriteFile(m)
  /\ UNCHANGED <<cmd, old, acks, pollVars, lossVars>>

\* dispatch_pending_commands, by the thread that queued the command or the loop.
Dispatch(m) ==
  /\ cmd[m] = "PENDING_DELIVERY"
  /\ WriteFile(m)
  /\ cmd' = [cmd EXCEPT ![m] = "DELIVERED"]
  /\ UNCHANGED <<old, acks, pollVars, lossVars>>

\* The other one has selected the row too, or one has stopped in between.
DispatchAgain(m) ==
  /\ copies[m] = 1 /\ Fault
  /\ WriteFile(m)
  /\ UNCHANGED <<cmd, old, acks, pollVars, refused, unanswered>>

\* _on_command_ack: whatever the acknowledgement says becomes the status.
IngestAck ==
  /\ acks # <<>>
  /\ cmd' = [cmd EXCEPT ![Head(acks).command] = Head(acks).status]
  /\ acks' = Tail(acks)
  /\ UNCHANGED <<copies, files, old, pollVars, lossVars>>

\* It is too old when the Worker, down for a while, comes to read it.
AckExpires ==
  /\ acks # <<>> /\ Fault
  /\ acks' = Tail(acks)
  /\ unanswered' = unanswered \cup {Head(acks).command}
  /\ UNCHANGED <<cmd, copies, files, old, pollVars, refused>>

-----------------------------------------------------------------------------
(* The adapter.                                                            *)

\* A command written and not yet handled grows older than its TTL: QMT is not
\* running, or hangs.
Expire(m) ==
  /\ files[m] > 0 /\ m \notin old /\ Fault
  /\ old' = old \cup {m}
  /\ UNCHANGED <<cmd, copies, files, acks, pollVars, refused, unanswered>>

\* poll_commands comes to a file that passes _verify ...
Picks(m) == apc = "idle" /\ files[m] > 0 /\ m \notin old

\* ... and its handler returns, but for the acknowledgement s, ...
Accepts(m, s) ==
  /\ Picks(m)
  /\ apc' = "ack" /\ cur' = m /\ verdict' = s
  /\ UNCHANGED <<cmd, folderVars, lossVars>>

\* ... or raises.
Rejecting(m) ==
  /\ apc' = "reject" /\ cur' = m
  /\ refused' = refused \cup {m}
  /\ UNCHANGED <<cmd, folderVars, verdict, faults, unanswered>>

Refuses(m) == Picks(m) /\ Rejecting(m)

RefuseExpired(m) == apc = "idle" /\ files[m] > 0 /\ m \in old /\ Rejecting(m)

Acknowledge ==
  /\ apc = "ack"
  /\ acks' = Append(acks, [command |-> cur, status |-> verdict])
  /\ apc' = "archive"
  /\ UNCHANGED <<cmd, copies, files, old, cur, verdict, lossVars>>

\* The file leaves the commands folder.
Done ==
  /\ files' = [files EXCEPT ![cur] = @ - 1]
  /\ apc' = "idle" /\ cur' = NoCommand /\ verdict' = "NONE"

Archive == apc = "archive" /\ Done /\ UNCHANGED <<cmd, copies, old, acks, lossVars>>

\* The acknowledgement cannot be written, or the file cannot be moved.
HandlingFails ==
  /\ apc \in {"ack", "archive"} /\ Fault
  /\ apc' = "reject"
  /\ refused' = refused \cup {cur}
  /\ UNCHANGED <<cmd, folderVars, cur, verdict, unanswered>>

\* Mutant: it does not report what it buries.
RejectUnreported ==
  /\ apc = "reject"
  /\ apc' = "bury"
  /\ UNCHANGED <<cmd, folderVars, cur, verdict, lossVars>>

\* The except branch of poll_commands.
Reject ==
  /\ apc = "reject"
  /\ acks' = Append(acks, [command |-> cur, status |-> "QMT_REJECTED"])
  /\ apc' = "bury"
  /\ UNCHANGED <<cmd, copies, files, old, cur, verdict, lossVars>>

RejectSilently ==
  /\ apc = "reject" /\ Fault
  /\ apc' = "bury"
  /\ unanswered' = unanswered \cup {cur}
  /\ UNCHANGED <<cmd, folderVars, cur, verdict, refused>>

Bury == apc = "bury" /\ Done /\ UNCHANGED <<cmd, copies, old, acks, lossVars>>

\* The scan ends with an exception, and the file stays.
BuryFails ==
  /\ apc = "bury" /\ Fault
  /\ apc' = "idle" /\ cur' = NoCommand /\ verdict' = "NONE"
  /\ UNCHANGED <<cmd, folderVars, refused, unanswered>>

\* QMT restarts the strategy.
AdapterStops ==
  /\ Fault
  /\ apc' = "idle" /\ cur' = NoCommand /\ verdict' = "NONE"
  /\ UNCHANGED <<cmd, folderVars, refused, unanswered>>

\* What follows a handler.
Finish == Acknowledge \/ Archive \/ Reject \/ Bury

\* The steps of the channel that are no handler's, with and without a failure,
\* but for IngestAck, which may do more.
ChannelStep ==
  \/ \E m \in Commands :
       Dispatch(m) \/ DispatchAgain(m) \/ Expire(m) \/ RefuseExpired(m)
  \/ Finish \/ HandlingFails \/ RejectSilently \/ BuryFails
  \/ AckExpires

=============================================================================
