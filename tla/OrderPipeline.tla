--------------------------- MODULE OrderPipeline ---------------------------
(***************************************************************************)
(* The way of a trade intent from the Worker's database to QMT and back,   *)
(* for one account:                                                        *)
(*                                                                         *)
(*   submit_trade_intent      commits the intent row and, in the same      *)
(*                            transaction, the qmt_commands row (outbox)   *)
(*   dispatch_pending_commands  copies outbox rows into the commands       *)
(*                            folder; it runs in the RPC thread that       *)
(*                            submitted and in the Worker's queue loop     *)
(*   poll_commands            the adapter takes a file, verifies it, looks *)
(*                            at its execution journal, validates the      *)
(*                            order, journals PRE_SUBMIT, calls passorder, *)
(*                            journals SUBMIT_CALLED, acknowledges and     *)
(*                            archives the file                            *)
(*   scan_once                the queue loop ingests the acknowledgements  *)
(*                            and the order events of QMT                  *)
(*                                                                         *)
(* Worker and adapter are two processes which share only the database, the *)
(* queue folders and the journal.  Either may stop between any two steps.  *)
(*                                                                         *)
(* Abstractions.  An intent stands for its preview, its client_order_key   *)
(* and its command.  What the preview and the authorization must satisfy   *)
(* is the subject of module Submission, how permits end is the subject of  *)
(* AutoPermit; here a commit may happen for every intent and the adapter's *)
(* validation of a live order may succeed or fail.  MANUAL_LIVE stands for *)
(* SIM_SIGNAL as well: the adapter treats them alike once validated.  All  *)
(* LIMITED_AUTO commands carry the same permit and generation.  Files of   *)
(* the commands folder are taken in any order (their names are stamped     *)
(* before they are renamed into place).  An order status is reduced to     *)
(* ORDER_ACCEPTED; module EventIngest has the others.                      *)
(***************************************************************************)
EXTENDS Naturals, Sequences, FiniteSets

CONSTANTS
  Intents,      \* the trade intents
  NoIntent,     \* stands for "no intent"
  RpcThreads,   \* threads of the HTTP server that call submit_trade_intent
  Loop,         \* the RuntimeLoop thread
  UsedModes,    \* the execution modes of the previews
  MaxFaults     \* bound on crashes, I/O errors and expired acknowledgements

Threads == RpcThreads \cup {Loop}

ASSUME NoIntentAssumption == NoIntent \notin Intents
ASSUME LoopAssumption == Loop \notin RpcThreads
ASSUME MaxFaultsAssumption == MaxFaults \in Nat

Modes == {"OBSERVE_ONLY", "MANUAL_LIVE", "LIMITED_AUTO"}

ASSUME UsedModesAssumption == UsedModes \subseteq Modes

\* The statuses an adapter acknowledges an EXECUTE_ORDER command with.
AckStatus == {"OBSERVE_ONLY_ACKNOWLEDGED", "SUBMIT_CALLED", "SUBMIT_UNKNOWN",
              "QMT_REJECTED"}

\* event_ingest.TERMINAL_INTENT_STATES, as far as acknowledgements go.
TerminalAck == {"OBSERVE_ONLY_ACKNOWLEDGED", "QMT_REJECTED"}

Ack == [intent : Intents, status : AckStatus]

VARIABLES
  \* the Worker's database
  mode,         \* trade_intents.execution_mode, fixed by the preview
  status,       \* trade_intents.status, "NONE" before the commit
  cmd,          \* qmt_commands.status, "NONE" before the commit
  \* the Worker's threads
  tpc,          \* where each thread is in dispatch_pending_commands
  rows,         \* the rows each thread selected and has not delivered
  at,           \* the row each thread has written and not yet marked
  \* the files
  commands,     \* commands[i]: files of i in the commands folder
  archive,      \* the intents with a file in archive
  deadLetter,   \* the intents with a file in dead_letter
  journal,      \* execution_journal/<client_order_key>.json: its state
  autoPause,    \* limited_auto_pause.json names the permit
  acks,         \* the command_acks folder, oldest first
  events,       \* the intents with an ORDER_EVENT file in the events folder
  \* the adapter
  apc,          \* where poll_commands is
  cur,          \* the command it handles, or NoIntent
  verdict,      \* the status it is about to acknowledge, or "NONE"
  \* QMT
  live,         \* the intents whose order reached QMT
  \* clock, adversity and history
  expired,      \* the intents whose command is older than its TTL
  faults,       \* crashes, I/O errors and expired acknowledgements so far
  passed,       \* passed[i]: history, the passorder calls made for i
  unreported    \* history, the intents an acknowledgement of which was lost

dbVars      == <<mode, status, cmd>>
threadVars  == <<tpc, rows, at>>
adapterVars == <<apc, cur, verdict>>
historyVars == <<passed, unreported>>
vars == <<mode, status, cmd, tpc, rows, at, commands, archive, deadLetter,
          journal, autoPause, acks, events, apc, cur, verdict, live, expired,
          faults, passed, unreported>>

\* Where a thread is when it does not dispatch.
Home(t) == IF t = Loop THEN "select" ELSE "idle"

TypeOK ==
  /\ mode \in [Intents -> UsedModes]
  /\ status \in [Intents -> AckStatus \cup {"NONE", "QUEUED", "ORDER_ACCEPTED"}]
  /\ cmd \in [Intents -> AckStatus \cup {"NONE", "PENDING_DELIVERY", "DELIVERED"}]
  /\ tpc \in [Threads -> {"idle", "select", "write", "mark"}]
  /\ rows \in [Threads -> SUBSET Intents]
  /\ at \in [Threads -> Intents \cup {NoIntent}]
  /\ commands \in [Intents -> Nat]
  /\ archive \in SUBSET Intents
  /\ deadLetter \in SUBSET Intents
  /\ journal \in [Intents -> {"NONE", "OBSERVE_ONLY_ACKNOWLEDGED",
                              "PRE_SUBMIT", "SUBMIT_CALLED"}]
  /\ autoPause \in BOOLEAN
  /\ acks \in Seq(Ack)
  /\ events \in SUBSET Intents
  /\ apc \in {"idle", "presubmit", "called", "ack", "archive", "reject", "bury"}
  /\ cur \in Intents \cup {NoIntent}
  /\ verdict \in AckStatus \cup {"NONE"}
  /\ live \in SUBSET Intents
  /\ expired \in SUBSET Intents
  /\ faults \in Nat
  /\ passed \in [Intents -> Nat]
  /\ unreported \in SUBSET Intents

Init ==
  /\ mode \in [Intents -> UsedModes]
  /\ status = [i \in Intents |-> "NONE"]
  /\ cmd = [i \in Intents |-> "NONE"]
  /\ tpc = [t \in Threads |-> Home(t)]
  /\ rows = [t \in Threads |-> {}]
  /\ at = [t \in Threads |-> NoIntent]
  /\ commands = [i \in Intents |-> 0]
  /\ archive = {}
  /\ deadLetter = {}
  /\ journal = [i \in Intents |-> "NONE"]
  /\ autoPause = FALSE
  /\ acks = <<>>
  /\ events = {}
  /\ apc = "idle"
  /\ cur = NoIntent
  /\ verdict = "NONE"
  /\ live = {}
  /\ expired = {}
  /\ faults = 0
  /\ passed = [i \in Intents |-> 0]
  /\ unreported = {}

-----------------------------------------------------------------------------
(* The Worker: commit and dispatch.                                        *)

\* submit_trade_intent: one transaction inserts the intent and its outbox row
\* and consumes the preview; the thread then goes on to dispatch.
Submit(t, i) ==
  /\ t \in RpcThreads
  /\ tpc[t] = "idle"
  /\ status[i] = "NONE"
  /\ status' = [status EXCEPT ![i] = "QUEUED"]
  /\ cmd' = [cmd EXCEPT ![i] = "PENDING_DELIVERY"]
  /\ tpc' = [tpc EXCEPT ![t] = "select"]
  /\ UNCHANGED <<mode, rows, at, commands, archive, deadLetter, journal,
                 autoPause, acks, events, adapterVars, live, expired, faults,
                 historyVars>>

Pending == {i \in Intents : cmd[i] = "PENDING_DELIVERY"}

\* Mutant of MarkDelivered's place in the loop: the rows are marked as they are
\* selected, before any file exists.
SelectMarks(t) ==
  /\ tpc[t] = "select"
  /\ rows' = [rows EXCEPT ![t] = Pending]
  /\ cmd' = [i \in Intents |-> IF i \in Pending THEN "DELIVERED" ELSE cmd[i]]
  /\ tpc' = [tpc EXCEPT ![t] = IF Pending = {} THEN Home(t) ELSE "write"]
  /\ UNCHANGED <<mode, status, at, commands, archive, deadLetter, journal,
                 autoPause, acks, events, adapterVars, live, expired, faults,
                 historyVars>>

\* dispatch_pending_commands reads the pending rows outside any transaction.
Select(t) ==
  /\ tpc[t] = "select"
  /\ rows' = [rows EXCEPT ![t] = Pending]
  /\ tpc' = [tpc EXCEPT ![t] = IF Pending = {} THEN Home(t) ELSE "write"]
  /\ UNCHANGED <<dbVars, at, commands, archive, deadLetter, journal, autoPause,
                 acks, events, adapterVars, live, expired, faults, historyVars>>

\* FileQueue.write: a new file, whatever files of the same command exist.
WriteFile(t, i) ==
  /\ tpc[t] = "write"
  /\ i \in rows[t]
  /\ commands' = [commands EXCEPT ![i] = @ + 1]
  /\ at' = [at EXCEPT ![t] = i]
  /\ tpc' = [tpc EXCEPT ![t] = "mark"]
  /\ UNCHANGED <<dbVars, rows, archive, deadLetter, journal, autoPause, acks,
                 events, adapterVars, live, expired, faults, historyVars>>

\* UPDATE qmt_commands SET status='DELIVERED' ... AND status='PENDING_DELIVERY'
MarkDelivered(t) ==
  /\ tpc[t] = "mark"
  /\ cmd' = [cmd EXCEPT ![at[t]] =
               IF @ = "PENDING_DELIVERY" THEN "DELIVERED" ELSE @]
  /\ rows' = [rows EXCEPT ![t] = @ \ {at[t]}]
  /\ at' = [at EXCEPT ![t] = NoIntent]
  /\ tpc' = [tpc EXCEPT ![t] = IF rows[t] = {at[t]} THEN Home(t) ELSE "write"]
  /\ UNCHANGED <<mode, status, commands, archive, deadLetter, journal,
                 autoPause, acks, events, adapterVars, live, expired, faults,
                 historyVars>>

\* The file write or the update raises (disk, locked database): the RPC call
\* fails, or the loop gives up this round.  The rows stay as they are.
DispatchFails(t) ==
  /\ faults < MaxFaults
  /\ tpc[t] \in {"write", "mark"}
  /\ tpc' = [tpc EXCEPT ![t] = Home(t)]
  /\ rows' = [rows EXCEPT ![t] = {}]
  /\ at' = [at EXCEPT ![t] = NoIntent]
  /\ faults' = faults + 1
  /\ UNCHANGED <<dbVars, commands, archive, deadLetter, journal, autoPause,
                 acks, events, adapterVars, live, expired, historyVars>>

\* The Worker process stops and is started again; only the disk survives.
WorkerCrash ==
  /\ faults < MaxFaults
  /\ tpc' = [t \in Threads |-> Home(t)]
  /\ rows' = [t \in Threads |-> {}]
  /\ at' = [t \in Threads |-> NoIntent]
  /\ faults' = faults + 1
  /\ UNCHANGED <<dbVars, commands, archive, deadLetter, journal, autoPause,
                 acks, events, adapterVars, live, expired, historyVars>>

\* The TTL of the command's envelope, created in the submit transaction, ends.
Expire(i) ==
  /\ status[i] # "NONE"
  /\ i \notin expired
  /\ expired' = expired \cup {i}
  /\ UNCHANGED <<dbVars, threadVars, commands, archive, deadLetter, journal,
                 autoPause, acks, events, adapterVars, live, faults, historyVars>>

-----------------------------------------------------------------------------
(* The adapter: poll_commands.                                             *)

\* The states of the journal from which an order may have reached QMT.
MayHaveBeenSent(i) == journal[i] \in {"PRE_SUBMIT", "SUBMIT_CALLED"}

\* _pause_auto_locally does nothing for the other execution modes.
PauseFor(i) == autoPause' = (autoPause \/ mode[i] = "LIMITED_AUTO")

\* poll_commands opens the next file of the folder.
Picks(i) ==
  /\ apc = "idle"
  /\ commands[i] > 0
  /\ cur' = i
  /\ UNCHANGED <<dbVars, threadVars, commands, archive, deadLetter, acks,
                 events, live, expired, faults, historyVars>>

\* _process_file verifies the envelope first: an expired command is refused
\* before its journal is looked at.
TakeExpired(i) ==
  /\ Picks(i)
  /\ i \in expired
  /\ apc' = "reject"
  /\ verdict' = "NONE"
  /\ UNCHANGED <<journal, autoPause>>

\* Mutants: an earlier attempt is acknowledged with the journal's own state, or
\* as if it had succeeded.
TakeAttemptedRaw(i) ==
  /\ Picks(i)
  /\ i \notin expired
  /\ MayHaveBeenSent(i)
  /\ PauseFor(i)
  /\ apc' = "ack"
  /\ verdict' = journal[i]
  /\ UNCHANGED journal

TakeAttemptedAsCalled(i) ==
  /\ Picks(i)
  /\ i \notin expired
  /\ MayHaveBeenSent(i)
  /\ apc' = "ack"
  /\ verdict' = "SUBMIT_CALLED"
  /\ UNCHANGED <<journal, autoPause>>

\* _execute_order finds a journal of an earlier attempt.
TakeAttempted(i) ==
  /\ Picks(i)
  /\ i \notin expired
  /\ MayHaveBeenSent(i)
  /\ PauseFor(i)
  /\ apc' = "ack"
  /\ verdict' = "SUBMIT_UNKNOWN"
  /\ UNCHANGED journal

\* _execute_order finds the journal of a command handled in OBSERVE_ONLY.
TakeDuplicate(i) ==
  /\ Picks(i)
  /\ i \notin expired
  /\ journal[i] = "OBSERVE_ONLY_ACKNOWLEDGED"
  /\ apc' = "ack"
  /\ verdict' = journal[i]
  /\ UNCHANGED <<journal, autoPause>>

\* _validate_execute raises: halt, authorization, price, account or credit.
TakeRefused(i) ==
  /\ Picks(i)
  /\ i \notin expired
  /\ journal[i] = "NONE"
  /\ apc' = "reject"
  /\ verdict' = "NONE"
  /\ UNCHANGED <<journal, autoPause>>

\* A valid OBSERVE_ONLY command is journalled and acknowledged.
TakeObserved(i) ==
  /\ Picks(i)
  /\ i \notin expired
  /\ journal[i] = "NONE"
  /\ mode[i] = "OBSERVE_ONLY"
  /\ journal' = [journal EXCEPT ![i] = "OBSERVE_ONLY_ACKNOWLEDGED"]
  /\ apc' = "ack"
  /\ verdict' = "OBSERVE_ONLY_ACKNOWLEDGED"
  /\ UNCHANGED autoPause

\* Mutants: an interrupted attempt is tried again; the journal is left to
\* JournalCalled.
TakeLiveAgain(i) ==
  /\ Picks(i)
  /\ i \notin expired
  /\ journal[i] \in {"NONE", "PRE_SUBMIT"}
  /\ mode[i] # "OBSERVE_ONLY"
  /\ mode[i] = "LIMITED_AUTO" => ~autoPause
  /\ journal' = [journal EXCEPT ![i] = "PRE_SUBMIT"]
  /\ apc' = "presubmit"
  /\ verdict' = "NONE"
  /\ UNCHANGED autoPause

TakeLiveUnjournalled(i) ==
  /\ Picks(i)
  /\ i \notin expired
  /\ journal[i] = "NONE"
  /\ mode[i] # "OBSERVE_ONLY"
  /\ mode[i] = "LIMITED_AUTO" => ~autoPause
  /\ apc' = "presubmit"
  /\ verdict' = "NONE"
  /\ UNCHANGED <<journal, autoPause>>

\* A valid order: _validate_auto_authorization refuses a locally paused
\* permit.  The journal is written before passorder is called.
TakeLive(i) ==
  /\ Picks(i)
  /\ i \notin expired
  /\ journal[i] = "NONE"
  /\ mode[i] # "OBSERVE_ONLY"
  /\ mode[i] = "LIMITED_AUTO" => ~autoPause
  /\ journal' = [journal EXCEPT ![i] = "PRE_SUBMIT"]
  /\ apc' = "presubmit"
  /\ verdict' = "NONE"
  /\ UNCHANGED autoPause

\* The call crosses into QMT.  It says nothing of what became of the order.
CallsPassorder ==
  /\ apc = "presubmit"
  /\ passed' = [passed EXCEPT ![cur] = @ + 1]
  /\ live' \in {live, live \cup {cur}}
  /\ UNCHANGED <<dbVars, threadVars, commands, archive, deadLetter, journal,
                 acks, events, cur, expired, faults, unreported>>

PassorderReturns ==
  /\ CallsPassorder
  /\ apc' = "called"
  /\ verdict' = "NONE"
  /\ UNCHANGED autoPause

\* Mutant: the permit is not paused when passorder raises.
PassorderRaisesUnpaused ==
  /\ CallsPassorder
  /\ apc' = "ack"
  /\ verdict' = "SUBMIT_UNKNOWN"
  /\ UNCHANGED autoPause

PassorderRaises ==
  /\ CallsPassorder
  /\ PauseFor(cur)
  /\ apc' = "ack"
  /\ verdict' = "SUBMIT_UNKNOWN"

JournalCalled ==
  /\ apc = "called"
  /\ journal' = [journal EXCEPT ![cur] = "SUBMIT_CALLED"]
  /\ apc' = "ack"
  /\ verdict' = "SUBMIT_CALLED"
  /\ UNCHANGED <<dbVars, threadVars, commands, archive, deadLetter, autoPause,
                 acks, events, cur, live, expired, faults, historyVars>>

\* _ack: one file in command_acks.
Acknowledge ==
  /\ apc = "ack"
  /\ acks' = Append(acks, [intent |-> cur, status |-> verdict])
  /\ apc' = "archive"
  /\ verdict' = "NONE"
  /\ UNCHANGED <<dbVars, threadVars, commands, archive, deadLetter, journal,
                 autoPause, events, cur, live, expired, faults, historyVars>>

\* _archive moves the file out of the folder, and the next one is taken.
Archive ==
  /\ apc = "archive"
  /\ commands' = [commands EXCEPT ![cur] = @ - 1]
  /\ archive' = archive \cup {cur}
  /\ apc' = "idle"
  /\ cur' = NoIntent
  /\ UNCHANGED <<dbVars, threadVars, deadLetter, journal, autoPause, acks,
                 events, verdict, live, expired, faults, historyVars>>

\* Writing the journal or the acknowledgement, or archiving the file, raises:
\* poll_commands catches it like a refusal, after passorder as before it.
AdapterIoFails ==
  /\ faults < MaxFaults
  /\ apc \in {"called", "ack", "archive"}
  /\ apc' = "reject"
  /\ verdict' = "NONE"
  /\ faults' = faults + 1
  /\ UNCHANGED <<dbVars, threadVars, commands, archive, deadLetter, journal,
                 autoPause, acks, events, cur, live, expired, historyVars>>

\* Mutant: the handler does not acknowledge.
RejectUnreported ==
  /\ apc = "reject"
  /\ PauseFor(cur)
  /\ apc' = "bury"
  /\ UNCHANGED <<dbVars, threadVars, commands, archive, deadLetter, journal,
                 acks, events, cur, verdict, live, expired, faults, historyVars>>

\* The exception handler of poll_commands pauses and acknowledges ...
Reject ==
  /\ apc = "reject"
  /\ PauseFor(cur)
  /\ acks' = Append(acks, [intent |-> cur, status |-> "QMT_REJECTED"])
  /\ apc' = "bury"
  /\ UNCHANGED <<dbVars, threadVars, commands, archive, deadLetter, journal,
                 events, cur, verdict, live, expired, faults, historyVars>>

\* ... or ignores that this, too, fails ...
RejectSilently ==
  /\ faults < MaxFaults
  /\ apc = "reject"
  /\ autoPause' \in {autoPause, autoPause \/ mode[cur] = "LIMITED_AUTO"}
  /\ apc' = "bury"
  /\ faults' = faults + 1
  /\ unreported' = unreported \cup {cur}
  /\ UNCHANGED <<dbVars, threadVars, commands, archive, deadLetter, journal,
                 acks, events, cur, verdict, live, expired, passed>>

\* ... and moves the file to dead_letter.
Bury ==
  /\ apc = "bury"
  /\ commands' = [commands EXCEPT ![cur] = @ - 1]
  /\ deadLetter' = deadLetter \cup {cur}
  /\ apc' = "idle"
  /\ cur' = NoIntent
  /\ UNCHANGED <<dbVars, threadVars, archive, journal, autoPause, acks, events,
                 verdict, live, expired, faults, historyVars>>

\* The move to dead_letter raises out of poll_commands: the file stays, and the
\* next poll finds it again.
BuryFails ==
  /\ faults < MaxFaults
  /\ apc = "bury"
  /\ apc' = "idle"
  /\ cur' = NoIntent
  /\ faults' = faults + 1
  /\ UNCHANGED <<dbVars, threadVars, commands, archive, deadLetter, journal,
                 autoPause, acks, events, verdict, live, expired, historyVars>>

\* QMT or the machine stops and is started again: the file is found again by
\* the first poll, and after_init reports every order QMT knows.
AdapterRestarts ==
  /\ faults < MaxFaults
  /\ apc # "idle"
  /\ apc' = "idle"
  /\ cur' = NoIntent
  /\ verdict' = "NONE"
  /\ events' = events \cup live
  /\ faults' = faults + 1
  /\ UNCHANGED <<dbVars, threadVars, commands, archive, deadLetter, journal,
                 autoPause, acks, live, expired, historyVars>>

-----------------------------------------------------------------------------
(* Reports of QMT, and their ingestion by the Worker.                      *)

\* order_callback, whenever QMT says something of an order.
OrderCallback(i) ==
  /\ i \in live
  /\ i \notin events
  /\ events' = events \cup {i}
  /\ UNCHANGED <<dbVars, threadVars, commands, archive, deadLetter, journal,
                 autoPause, acks, adapterVars, live, expired, faults,
                 historyVars>>

\* order_deal_reconcile_task reports every order; it runs between polls, at
\* its interval or sooner when an uncertain result asked for it.
ReconcileTask ==
  /\ apc = "idle"
  /\ events' = events \cup live
  /\ UNCHANGED <<dbVars, threadVars, commands, archive, deadLetter, journal,
                 autoPause, acks, adapterVars, live, expired, faults,
                 historyVars>>

\* The queue loop scans before it dispatches.
Scanning == tpc[Loop] = "select"

\* What _on_command_ack makes of an intent's status: a terminal one always
\* overwrites, another one only a status that is not terminal.
AfterAck(old, new) ==
  IF new \in TerminalAck \/ old \notin TerminalAck THEN new ELSE old

\* _on_command_ack, and the move of the file to archive.
IngestAck ==
  /\ Scanning
  /\ acks # <<>>
  /\ LET ack == Head(acks)
     IN  /\ cmd' = [cmd EXCEPT ![ack.intent] = ack.status]
         /\ status' = [status EXCEPT ![ack.intent] = AfterAck(@, ack.status)]
  /\ acks' = Tail(acks)
  /\ UNCHANGED <<mode, threadVars, commands, archive, deadLetter, journal,
                 autoPause, events, adapterVars, live, expired, faults,
                 historyVars>>

\* An acknowledgement that is not read within five minutes is dead-lettered.
AckExpires ==
  /\ faults < MaxFaults
  /\ acks # <<>>
  /\ unreported' = unreported \cup {Head(acks).intent}
  /\ acks' = Tail(acks)
  /\ faults' = faults + 1
  /\ UNCHANGED <<dbVars, threadVars, commands, archive, deadLetter, journal,
                 autoPause, events, adapterVars, live, expired, passed>>

\* Mutant: a terminal acknowledgement stands against QMT's own report.
IngestOrderEventUnlessTerminal(i) ==
  /\ Scanning
  /\ i \in events
  /\ status' = [status EXCEPT ![i] =
                  IF @ \in TerminalAck THEN @ ELSE "ORDER_ACCEPTED"]
  /\ events' = events \ {i}
  /\ UNCHANGED <<mode, cmd, threadVars, commands, archive, deadLetter, journal,
                 autoPause, acks, adapterVars, live, expired, faults,
                 historyVars>>

\* _on_order_event overwrites the status of the intent it is linked with.
IngestOrderEvent(i) ==
  /\ Scanning
  /\ i \in events
  /\ status' = [status EXCEPT ![i] = "ORDER_ACCEPTED"]
  /\ events' = events \ {i}
  /\ UNCHANGED <<mode, cmd, threadVars, commands, archive, deadLetter, journal,
                 autoPause, acks, adapterVars, live, expired, faults,
                 historyVars>>

-----------------------------------------------------------------------------
Dispatch(t) ==
  Select(t) \/ MarkDelivered(t) \/ \E i \in Intents : WriteFile(t, i)

Take(i) ==
  \/ TakeExpired(i)
  \/ TakeAttempted(i)
  \/ TakeDuplicate(i)
  \/ TakeRefused(i)
  \/ TakeObserved(i)
  \/ TakeLive(i)

\* The steps of poll_commands after it has taken a file.
Poll ==
  \/ PassorderReturns
  \/ PassorderRaises
  \/ JournalCalled
  \/ Acknowledge
  \/ Archive
  \/ Reject
  \/ Bury

Faults ==
  \/ \E t \in Threads : DispatchFails(t)
  \/ WorkerCrash
  \/ AdapterIoFails
  \/ RejectSilently
  \/ BuryFails
  \/ AdapterRestarts
  \/ AckExpires

Next ==
  \/ \E t \in Threads : Dispatch(t) \/ \E i \in Intents : Submit(t, i)
  \/ \E i \in Intents :
       Expire(i) \/ Take(i) \/ OrderCallback(i) \/ IngestOrderEvent(i)
  \/ Poll
  \/ ReconcileTask
  \/ IngestAck
  \/ Faults

Spec == Init /\ [][Next]_vars

\* The queue loop runs every 250 ms and not every scan of it raises; the
\* adapter's tasks are scheduled by QMT; an RPC thread is not assumed to go on.
Fairness ==
  /\ WF_vars(Dispatch(Loop))
  /\ WF_vars(IngestAck)
  /\ \A i \in Intents : WF_vars(IngestOrderEvent(i))
  /\ \A i \in Intents : WF_vars(Take(i))
  /\ WF_vars(Poll)
  /\ WF_vars(ReconcileTask)

FairSpec == Spec /\ Fairness

-----------------------------------------------------------------------------
(* Properties.                                                             *)

\* However often a command is delivered, found again after a crash, or
\* expired: passorder is called at most once for it, and only for an intent
\* whose commit is durable.
AtMostOnePassorder ==
  \A i \in Intents : passed[i] > 0 => passed[i] = 1 /\ status[i] # "NONE"

\* What the database says of an intent has happened: an accepted order is at
\* QMT, SUBMIT_CALLED follows the one call of passorder, SUBMIT_UNKNOWN an
\* attempt, and an OBSERVE_ONLY intent is acknowledged without a call.
StatusIsEvidence ==
  \A i \in Intents :
    /\ status[i] = "ORDER_ACCEPTED" => i \in live
    /\ status[i] = "SUBMIT_CALLED" => passed[i] = 1
    /\ status[i] = "SUBMIT_UNKNOWN" => MayHaveBeenSent(i)
    /\ status[i] = "OBSERVE_ONLY_ACKNOWLEDGED" => passed[i] = 0

\* A file of i is, or was, where the adapter finds it.
Handed(i) == commands[i] > 0 \/ i \in archive \cup deadLetter

\* A command the outbox no longer holds as pending has not been lost: its file
\* exists, whatever crashed between writing it and marking the row.
NoLostCommand ==
  \A i \in Intents : cmd[i] \notin {"NONE", "PENDING_DELIVERY"} => Handed(i)

\* The adapter said, or the database says, that an automatic order is unknown.
AutoUnknown(i) ==
  /\ mode[i] = "LIMITED_AUTO"
  /\ \/ status[i] = "SUBMIT_UNKNOWN"
     \/ \E k \in 1..Len(acks) :
          acks[k] = [intent |-> i, status |-> "SUBMIT_UNKNOWN"]

\* From the moment an automatic order is reported unknown the adapter calls
\* passorder for no LIMITED_AUTO command of the permit, delivered or not.
UnknownStopsAuto ==
  [][(\E i \in Intents : AutoUnknown(i)) =>
       \A j \in Intents : mode[j] = "LIMITED_AUTO" => passed'[j] = passed[j]]_vars

\* An intent does not stay QUEUED: it is reported on, or a report of it was
\* lost.  Wherever a crash falls between commit, file, mark and report.
EveryIntentReported ==
  \A i \in Intents :
    status[i] = "QUEUED" ~> (status[i] # "QUEUED" \/ i \in unreported)

\* Whatever was reported about it on the way, an order that reached QMT is in
\* the end, and for good, known to the Worker as such.
LiveOrdersConverge ==
  \A i \in Intents : i \in live ~> [](status[i] = "ORDER_ACCEPTED")

\* The intent committed and not attempted, or attempted.
Stage ==
  [i \in Intents |-> IF status[i] = "NONE" THEN "absent"
                     ELSE IF MayHaveBeenSent(i) THEN "attempted"
                     ELSE "committed"]

\* The pipeline implements the abstract one-shot order.
OneShot == INSTANCE OneShotOrder
             WITH stage   <- Stage,
                  attempt <- IF apc = "presubmit" THEN cur ELSE NoIntent,
                  calls   <- passed

\* The pipeline keeps the promise of OneShotOrder: nothing a retry, a crash or
\* a duplicate file does looks to QMT like more than one attempt.
ImplementsOneShot == OneShot!Spec

-----------------------------------------------------------------------------
(* The inductive invariant from which OrderPipelineProofs derives the       *)
(* safety properties above.                                                 *)

\* The adapter handles a command whose file is still in the folder, and knows
\* what to acknowledge when it does.
HandlesAFile ==
  /\ apc # "idle" => cur \in Intents /\ commands[cur] > 0
  /\ apc = "ack" => verdict # "NONE"

\* A thread marks a row only after its file was written.
MarksAWrittenRow ==
  \A t \in Threads : tpc[t] = "mark" => at[t] \in Intents /\ Handed(at[t])

\* Only a committed intent leaves traces.
TracesAreCommitted ==
  \A i \in Intents : status[i] = "NONE" =>
    /\ cmd[i] = "NONE"
    /\ \A t \in Threads : i \notin rows[t]
    /\ commands[i] = 0 /\ i \notin archive \cup deadLetter \cup live
    /\ journal[i] = "NONE"

\* The journal is ahead of the call, and SUBMIT_CALLED behind it.
JournalGuardsCall ==
  \A i \in Intents :
    /\ passed[i] \in {0, 1}
    /\ passed[i] = 1 => MayHaveBeenSent(i)
    /\ journal[i] = "SUBMIT_CALLED" => passed[i] = 1
    /\ apc = "presubmit" /\ cur = i => journal[i] = "PRE_SUBMIT" /\ passed[i] = 0
    /\ apc = "called" /\ cur = i => journal[i] = "PRE_SUBMIT" /\ passed[i] = 1

\* What has to be true of i for an adapter to acknowledge it with s.
Backed(i, s) ==
  /\ s = "SUBMIT_CALLED" => passed[i] = 1
  /\ s = "SUBMIT_UNKNOWN" =>
       MayHaveBeenSent(i) /\ (mode[i] = "LIMITED_AUTO" => autoPause)
  /\ s = "OBSERVE_ONLY_ACKNOWLEDGED" => journal[i] = "OBSERVE_ONLY_ACKNOWLEDGED"

\* So it is for the acknowledgement being made, those made, those ingested.
ReportsAreBacked ==
  /\ apc = "ack" => Backed(cur, verdict)
  /\ \A k \in 1..Len(acks) :
       Backed(acks[k].intent, acks[k].status) /\ Handed(acks[k].intent)
  /\ \A i \in Intents : Backed(i, status[i])

\* Order events, and the statuses they set, are of orders at QMT.
EventsAreLive ==
  /\ events \subseteq live
  /\ \A i \in Intents : status[i] = "ORDER_ACCEPTED" => i \in live

\* A pause that is there when a command is validated stops it.
PausedIsNotSent ==
  apc = "presubmit" /\ mode[cur] = "LIMITED_AUTO" => ~autoPause

IInv ==
  /\ TypeOK
  /\ HandlesAFile
  /\ MarksAWrittenRow
  /\ TracesAreCommitted
  /\ JournalGuardsCall
  /\ NoLostCommand
  /\ ReportsAreBacked
  /\ EventsAreLive
  /\ PausedIsNotSent
=============================================================================
