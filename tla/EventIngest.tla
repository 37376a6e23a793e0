---------------------------- MODULE EventIngest ----------------------------
(***************************************************************************)
(* How the Worker ingests the event files of one adapter: EventIngester    *)
(* and FileQueue.consume, run by the queue loop and, when a client checks  *)
(* the limited-auto readiness, by an RPC thread at the same time.          *)
(*                                                                         *)
(* A consumer lists the folder, then takes one file after another in the   *)
(* order of their names: it reads and validates the file, applies it in a  *)
(* transaction which also records its message_id, and moves the file.  The *)
(* other consumer may move the file first, and the process may stop, in    *)
(* between.  Whatever is not a BridgeError ends the scan.                  *)
(*                                                                         *)
(* Abstractions.  All events are about the order of one intent.  Of the    *)
(* account, position, quote and credit events only this matters here: the  *)
(* handler accepts them, refuses them with a BridgeError ("bad") or raises *)
(* another exception, as normalize_symbol does ("poison").  The limit of   *)
(* files per scan is left out.  A file keeps its place: the names begin    *)
(* with the time of writing.  Acknowledgements, which come through another *)
(* folder, set the same status: one is ingested in one step, at any time   *)
(* and in any order, also where a scan would be held up by the events; its *)
(* file goes the way of an event's, on which the properties dwell.         *)
(***************************************************************************)
EXTENDS Naturals, Sequences, FiniteSets, Functions

CONSTANTS
  Loop,        \* the RuntimeLoop thread
  Rpc,         \* an RPC thread in check_limited_auto_readiness
  MaxEvents,   \* bound on the events written
  MaxAcks,     \* bound on the acknowledgements ingested
  MaxCrashes   \* bound on restarts of the Worker

Consumers == {Loop, Rpc}

ASSUME BoundsAssumption == MaxEvents \in Nat /\ MaxAcks \in Nat /\ MaxCrashes \in Nat

\* Order events that say ACCEPTED or FILLED, a QMT_ORDER_ERROR event, an event
\* the handler refuses, and one on which it fails.
Events == {"ACCEPTED", "FILLED", "error", "bad", "poison"}
StatusOf == [ACCEPTED |-> "ORDER_ACCEPTED", FILLED |-> "FILLED", error |-> "QMT_REJECTED"]
\* What the adapter acknowledges: the outcome of a command of the order, another
\* copy of one that is found expired, or a cancellation, refused or passed on.
Acks == {"SUBMIT_CALLED", "SUBMIT_UNKNOWN", "CANCEL_REQUESTED", "QMT_REJECTED"}
Statuses == {"QUEUED"} \cup Acks \cup Range(StatusOf)
Terminal == {"FILLED", "QMT_REJECTED"}
\* What passes the checks the handlers begin with and can be applied.
Usable == [e \in Events |-> e \in DOMAIN StatusOf]

VARIABLES
  written,   \* the events written, by number
  folder,    \* where the file of each event is
  expired,   \* the events older than their TTL
  inbound,   \* message_ids in inbound_events
  status,    \* trade_intents.status
  todo,      \* the files a consumer has listed and not yet dealt with
  holding,   \* the event a consumer has read and validated, or 0
  ingested,  \* the consumer's handler has returned
  crashes,   \* restarts so far
  acks,      \* acknowledgements ingested so far
  applied,   \* history: the events applied, in order
  since      \* history: what was acknowledged since the last of them

consumerVars == <<todo, holding, ingested>>
ackVars == <<acks, since>>
vars == <<written, folder, expired, inbound, status, todo, holding, ingested,
          crashes, acks, applied, since>>

TypeOK ==
  /\ written \in Seq(Events)
  /\ folder \in [DOMAIN written -> {"events", "archive", "dead_letter"}]
  /\ expired \subseteq DOMAIN written
  /\ inbound \subseteq DOMAIN written
  /\ status \in Statuses
  /\ todo \in [Consumers -> SUBSET DOMAIN written]
  /\ holding \in [Consumers -> {0} \cup DOMAIN written]
  /\ ingested \in [Consumers -> BOOLEAN]
  /\ crashes \in 0..MaxCrashes
  /\ acks \in 0..MaxAcks
  /\ applied \in Seq(DOMAIN written)
  /\ since \subseteq Acks

Init ==
  /\ written = <<>>
  /\ folder = <<>>
  /\ expired = {}
  /\ inbound = {}
  /\ status = "QUEUED"
  /\ todo = [c \in Consumers |-> {}]
  /\ holding = [c \in Consumers |-> 0]
  /\ ingested = [c \in Consumers |-> FALSE]
  /\ crashes = 0
  /\ acks = 0
  /\ applied = <<>>
  /\ since = {}

-----------------------------------------------------------------------------
(* The adapter.                                                            *)

\* Callbacks and reconcile task write what QMT says at the time; nothing but
\* that again is said of an order once it is filled.
WriteEvent(e) ==
  /\ Len(written) < MaxEvents
  /\ e \in {"ACCEPTED", "error"} => \A i \in DOMAIN written : written[i] # "FILLED"
  /\ written' = Append(written, e)
  /\ folder' = Append(folder, "events")
  /\ UNCHANGED <<expired, inbound, status, consumerVars, crashes, applied,
                 ackVars>>

Expires(i) ==
  /\ i \notin expired
  /\ folder[i] = "events"
  /\ expired' = expired \cup {i}
  /\ UNCHANGED <<written, folder, inbound, status, consumerVars, crashes, applied,
                 ackVars>>

-----------------------------------------------------------------------------
(* A consumer.                                                             *)

InFolder == {i \in DOMAIN written : folder[i] = "events"}

\* scan_once lists the folder.
List(c) ==
  /\ todo[c] = {} /\ InFolder # {}
  /\ todo' = [todo EXCEPT ![c] = InFolder]
  /\ UNCHANGED <<written, folder, expired, inbound, status, holding, ingested,
                 crashes, applied, ackVars>>

\* The first of the listed files.
IsNext(c, i) ==
  /\ i \in todo[c] /\ holding[c] = 0
  /\ \A j \in todo[c] : i <= j

\* The scan ends with an exception; the files it has not dealt with remain.
Abort(c) ==
  /\ todo' = [todo EXCEPT ![c] = {}]
  /\ holding' = [holding EXCEPT ![c] = 0]
  /\ ingested' = [ingested EXCEPT ![c] = FALSE]
  /\ UNCHANGED <<written, folder, expired, inbound, status, crashes, applied, ackVars>>

\* The consumer moves the file, which ends its work on it.
MoveTo(c, i, target) ==
  /\ folder[i] = "events"
  /\ folder' = [folder EXCEPT ![i] = target]
  /\ todo' = [todo EXCEPT ![c] = @ \ {i}]
  /\ holding' = [holding EXCEPT ![c] = 0]
  /\ ingested' = [ingested EXCEPT ![c] = FALSE]

\* The file is there and valid, ...
ReadFile(c, i) ==
  /\ IsNext(c, i)
  /\ folder[i] = "events" /\ i \notin expired
  /\ holding' = [holding EXCEPT ![c] = i]
  /\ UNCHANGED <<written, folder, expired, inbound, status, todo, ingested,
                 crashes, applied, ackVars>>

\* ... or expired, ...
ReadExpired(c, i) ==
  /\ IsNext(c, i)
  /\ i \in expired
  /\ MoveTo(c, i, "dead_letter")
  /\ UNCHANGED <<written, expired, inbound, status, crashes, applied, ackVars>>

\* ... or the other consumer has moved it: reading fails, then moving it too.
ReadMissing(c, i) ==
  /\ IsNext(c, i)
  /\ folder[i] # "events"
  /\ Abort(c)

\* The consumer is about to call the handler with event i.
Handles(c, i) == i = holding[c] /\ i # 0 /\ ~ingested[c]

\* The handler commits, or finds the message ingested before.
Returns(c) ==
  /\ ingested' = [ingested EXCEPT ![c] = TRUE]
  /\ UNCHANGED <<written, folder, expired, todo, holding, crashes, acks>>

\* Mutant: the transaction does not look at inbound_events.
IngestAgain(c, i) ==
  /\ Handles(c, i)
  /\ Usable[written[i]]
  /\ inbound' = inbound \cup {i}
  /\ status' = StatusOf[written[i]]
  /\ applied' = Append(applied, i)
  /\ since' = {}
  /\ Returns(c)

\* Mutant: the row of trade_intents takes the event's own word.
IngestRaw(c, i) ==
  /\ Handles(c, i)
  /\ Usable[written[i]]
  /\ i \notin inbound
  /\ inbound' = inbound \cup {i}
  /\ status' = written[i]
  /\ applied' = Append(applied, i)
  /\ since' = {}
  /\ Returns(c)

\* ingest: an order event sets the status, whatever it was; so does an error.
Ingest(c, i) ==
  /\ Handles(c, i)
  /\ Usable[written[i]]
  /\ i \notin inbound
  /\ inbound' = inbound \cup {i}
  /\ status' = StatusOf[written[i]]
  /\ applied' = Append(applied, i)
  /\ since' = {}
  /\ Returns(c)

IngestDuplicate(c, i) ==
  /\ Handles(c, i)
  /\ i \in inbound
  /\ Returns(c)
  /\ UNCHANGED <<inbound, status, applied, since>>

\* Mutant: a refused event is left in the folder for another try.
RefuseBadKept(c, i) ==
  /\ Handles(c, i)
  /\ written[i] = "bad"
  /\ Abort(c)

\* A BridgeError: the transaction is rolled back and the file dead-lettered, if
\* the other consumer has not done so.
RefuseBad(c, i) ==
  /\ Handles(c, i)
  /\ written[i] = "bad"
  /\ \/ /\ MoveTo(c, i, "dead_letter")
        /\ UNCHANGED <<written, expired, inbound, status, crashes, applied, ackVars>>
     \/ folder[i] # "events" /\ Abort(c)

\* Any other exception ends the scan and leaves the file where it is.
FailOnPoison(c, i) ==
  /\ Handles(c, i)
  /\ written[i] = "poison"
  /\ Abort(c)

\* Mutant: the file is archived before its event is handled.
ArchiveUningested(c, i) ==
  /\ i = holding[c] /\ i # 0
  /\ MoveTo(c, i, "archive")
  /\ UNCHANGED <<written, expired, inbound, status, crashes, applied, ackVars>>

\* The file goes to the archive, if the other consumer has not moved it.
Archive(c, i) ==
  /\ i = holding[c] /\ ingested[c]
  /\ \/ /\ MoveTo(c, i, "archive")
        /\ UNCHANGED <<written, expired, inbound, status, crashes, applied, ackVars>>
     \/ folder[i] # "events" /\ Abort(c)

-----------------------------------------------------------------------------
(* Acknowledgements and past errors.                                       *)

\* What an acknowledgement ingested leaves alone.
Acknowledged(s) ==
  /\ acks < MaxAcks /\ acks' = acks + 1
  /\ since' = since \cup {s}
  /\ UNCHANGED <<written, folder, expired, inbound, consumerVars, crashes, applied>>

\* Mutant: any acknowledgement is believed, also when the intent has ended.
IngestAckAlways(s) == status' = s /\ Acknowledged(s)

\* _on_command_ack: a rejection ends the intent, whatever its status; anything
\* else becomes the status of an intent that has not ended, also of an order
\* that QMT was known to have accepted.
IngestAck(s) ==
  /\ status' = IF s \in Terminal \/ status \notin Terminal THEN s ELSE status
  /\ Acknowledged(s)

\* Mutant: past errors override whatever is known.
EvidenceAlways ==
  IF \E i \in inbound : written[i] = "error" THEN "QMT_REJECTED" ELSE status

\* reconcile_terminal_evidence: a recorded error ends an intent that is open.
Evidence ==
  IF status \notin Terminal /\ \E i \in inbound : written[i] = "error"
  THEN "QMT_REJECTED" ELSE status

\* check_limited_auto_readiness calls it when its scan is over.
ReconcileEvidence ==
  /\ todo[Rpc] = {}
  /\ status' = Evidence
  /\ UNCHANGED <<written, folder, expired, inbound, consumerVars, crashes,
                 applied, ackVars>>

\* The Worker stops and starts again; build_runtime calls it.
Restart ==
  /\ crashes < MaxCrashes
  /\ crashes' = crashes + 1
  /\ todo' = [c \in Consumers |-> {}]
  /\ holding' = [c \in Consumers |-> 0]
  /\ ingested' = [c \in Consumers |-> FALSE]
  /\ status' = Evidence
  /\ UNCHANGED <<written, folder, expired, inbound, applied, ackVars>>

-----------------------------------------------------------------------------
Consume(c) ==
  \/ List(c)
  \/ \E i \in DOMAIN written :
       \/ ReadFile(c, i) \/ ReadExpired(c, i) \/ ReadMissing(c, i)
       \/ Ingest(c, i) \/ IngestDuplicate(c, i)
       \/ RefuseBad(c, i) \/ FailOnPoison(c, i)
       \/ Archive(c, i)

Next ==
  \/ \E e \in Events : WriteEvent(e)
  \/ \E i \in DOMAIN written : Expires(i)
  \/ \E c \in Consumers : Consume(c)
  \/ \E s \in Acks : IngestAck(s)
  \/ ReconcileEvidence
  \/ Restart

Spec == Init /\ [][Next]_vars

\* RuntimeLoop.run scans every quarter of a second, whatever a scan raised.
FairSpec == Spec /\ WF_vars(Consume(Loop))

-----------------------------------------------------------------------------
(* Properties.                                                             *)

Dropped == {i \in DOMAIN written : folder[i] = "dead_letter"}

Log == INSTANCE EventLog WITH dropped <- Dropped, usable <- Usable

\* Two consumers, a crash between the commit and the move, and files that go
\* missing notwithstanding, every event is applied at most once and in order.
ImplementsEventLog == Log!Spec

\* A file leaves the folder for the archive only when its event was applied,
\* and for the dead letters only when it was refused or had expired.
NothingLost ==
  \A i \in DOMAIN written :
    /\ folder[i] = "archive" => i \in inbound
    /\ folder[i] = "dead_letter" => i \in expired \/ written[i] = "bad"

\* An order known to be filled stays so: no event written before, no recorded
\* error, no restart and no acknowledgement takes it back, except for an event
\* that expired in the hands of one consumer while the other went on without it,
\* and the acknowledgement that something about the intent was rejected.
FilledIsFinal ==
  [][status = "FILLED" /\ status' # "FILLED" =>
       \/ Len(applied') > Len(applied) /\ applied'[Len(applied')] \in expired
       \/ "QMT_REJECTED" \in since' \ since]_vars

\* The events that say something of the order.
Telling == {i \in DOMAIN written : Usable[written[i]]}

\* When all events were applied the status is what the last one says, and where
\* it is not, that is owed to a rejection acknowledged since, or the last one says
\* ACCEPTED and an acknowledgement since or a recorded error overrode it.
StatusIsNewest ==
  Telling # {} /\ Telling \subseteq inbound /\ Telling \cap expired = {} =>
    LET last == CHOOSE i \in Telling : \A j \in Telling : j <= i
    IN  IF "QMT_REJECTED" \in since THEN status = "QMT_REJECTED"
        ELSE \/ status = StatusOf[written[last]]
             \/ /\ written[last] = "ACCEPTED"
                /\ \/ status \in since
                   \/ status = "QMT_REJECTED" /\ \E i \in Telling : written[i] = "error"

\* An event is ingested, unless it grows too old or remains behind one that no
\* scan gets past; refused events hold up none.
EventuallyIngested ==
  \A i \in 1..MaxEvents :
    (i \in Telling) ~>
      (i \in inbound \cup expired
         \/ \E j \in DOMAIN written : j < i /\ written[j] = "poison" /\ folder[j] = "events")
=============================================================================
