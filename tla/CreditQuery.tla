---------------------------- MODULE CreditQuery ----------------------------
(***************************************************************************)
(* Queries of the credit capacity of one CREDIT account.                   *)
(*                                                                         *)
(* request_credit_precheck inserts a row IN_PROGRESS and queues a command; *)
(* the adapter puts the query to QMT and remembers it in memory; QMT calls *)
(* back, at some time; the callback reports the capacities to the Worker,  *)
(* which completes the row, and keeps them in a file for the final check   *)
(* of an order.  The adapter's memory of one query in flight and its       *)
(* cool-down also serve the periodic query of the account.                 *)
(*                                                                         *)
(* Abstractions.  A capacity is known by the item it is for and by the     *)
(* query QMT got, not by its number.  A batch has one action.              *)
(* The account is configured and verified for credit queries.  QMT answers *)
(* each item at most once and names its symbol, or answers all of them in  *)
(* their order.  The adapter is one thread: a callback comes between two   *)
(* handlers.  A cool-down may be over or not at any time.                  *)
(***************************************************************************)
EXTENDS CommandChannel, FiniteSetsExt

CONSTANTS
  MaxQueries,  \* bound on the rows of credit_capacity_queries
  MaxNative,   \* bound on the queries of the account
  Batches      \* the request lists: sequences of items with symbol and price

Queries == 1..MaxQueries
Items == UNION {{b[k] : k \in DOMAIN b} : b \in Batches}

ASSUME QueriesAssumption ==
  /\ MaxQueries \in Nat /\ MaxNative \in Nat
  /\ Commands = Queries /\ NoCommand = 0
ASSUME BatchesAssumption == Batches \subseteq Seq(Items)

\* An entry of "results", with the item QMT means by it.
Entry == [symbol : {i.symbol : i \in Items}, item : Items]
\* A capacity result and the number QMT's query had.
Result == [native : Nat, entries : Seq(Entry)]
NoResult == [native |-> 0, entries |-> <<>>]

Flight == [kind : {"OPVOLUME", "ACCOUNT"}, query : Nat, native : Nat]
NoFlight == [kind |-> "NONE", query |-> 0, native |-> 0]

VARIABLES
  \* the Worker
  row,        \* credit_capacity_queries.status, "NONE" before the request
  batch,      \* its request_json
  result,     \* its result_json
  asking,     \* the query an RPC thread has inserted and not yet queued, or 0
  answers,    \* the CREDIT_CAPACITY_SNAPSHOT files, oldest first
  \* the adapter
  inFlight,   \* _CREDIT_QUERY_IN_FLIGHT
  queried,    \* _LAST_CREDIT_QUERY_AT is set
  native,     \* the number (qmt_seq) of the last query put to QMT
  saving,     \* what the callback has reported and not yet saved
  capacity,   \* the files of runtime/credit_capacity
  \* QMT
  owed,       \* the queries it has not called back
  \* history
  failed,     \* queries whose failure the callback reported
  lost,       \* queries a fault took from the Worker, the channel or the adapter
  unsaved,    \* queries whose file the callback did not get to write
  abandoned   \* native queries no callback will clear

workerVars  == <<row, batch, result, asking>>
adapterVars == <<inFlight, queried, native, saving, capacity>>
creditVars  == <<row, batch, result, asking, answers, inFlight, queried,
                 native, saving, capacity, owed, failed, lost, unsaved, abandoned>>
vars == <<channelVars, creditVars>>

TypeOK ==
  /\ ChannelTypeOK
  /\ row \in [Queries -> {"NONE", "IN_PROGRESS", "COMPLETED"}]
  /\ batch \in [Queries -> Batches \cup {<<>>}]
  /\ result \in [Queries -> Result]
  /\ asking \in Queries \cup {0}
  /\ answers \in Seq([query : Queries, result : Result])
  /\ inFlight \in Flight \cup {NoFlight}
  /\ queried \in BOOLEAN
  /\ native \in Nat
  /\ saving \in Result
  /\ capacity \in [Queries -> Result]
  /\ owed \in SUBSET Flight
  /\ failed \in SUBSET Queries
  /\ lost \in SUBSET Queries
  /\ unsaved \in SUBSET Queries
  /\ abandoned \in SUBSET Nat

Init ==
  /\ ChannelInit
  /\ row = [q \in Queries |-> "NONE"]
  /\ batch = [q \in Queries |-> <<>>]
  /\ result = [q \in Queries |-> NoResult]
  /\ asking = 0
  /\ answers = <<>>
  /\ inFlight = NoFlight
  /\ queried = FALSE
  /\ native = 0
  /\ saving = NoResult
  /\ capacity = [q \in Queries |-> NoResult]
  /\ owed = {}
  /\ failed = {} /\ lost = {} /\ unsaved = {} /\ abandoned = {}

-----------------------------------------------------------------------------
(* The Worker.                                                             *)

\* request_credit_precheck: its transaction, the cool-down of the latest row over.
Request(b) ==
  /\ \A q \in Queries : row[q] # "IN_PROGRESS"
  /\ \E q \in Queries :
       /\ row[q] = "NONE" /\ \A p \in 1..(q - 1) : row[p] # "NONE"
       /\ row' = [row EXCEPT ![q] = "IN_PROGRESS"]
       /\ batch' = [batch EXCEPT ![q] = b]
       /\ asking' = q
  /\ UNCHANGED <<channelVars, result, answers, adapterVars, owed, failed, lost,
                 unsaved, abandoned>>

\* The same thread queues the command, in another transaction, ...
Queue ==
  /\ asking # 0 /\ QueueCommand(asking)
  /\ asking' = 0
  /\ UNCHANGED <<row, batch, result, answers, adapterVars, owed, failed,
                 lost, unsaved, abandoned>>

\* ... unless the Worker stops in between.
AskerStops ==
  /\ asking # 0 /\ Fault
  /\ asking' = 0
  /\ lost' = lost \cup {asking}
  /\ UNCHANGED <<cmd, folderVars, pollVars, refused, unanswered, row, batch,
                 result, answers, adapterVars, owed, failed, unsaved,
                 abandoned>>

\* Mutant: it wants the acknowledgement of the command first.
CompletesAcknowledged(e) ==
  IF row[e.query] = "IN_PROGRESS" /\ cmd[e.query] = "ACKNOWLEDGED"
  THEN /\ row' = [row EXCEPT ![e.query] = "COMPLETED"]
       /\ result' = [result EXCEPT ![e.query] = e.result]
  ELSE UNCHANGED <<row, result>>

\* _on_credit_capacity_snapshot: a result without a row in progress is refused.
Completes(e) ==
  IF row[e.query] = "IN_PROGRESS"
  THEN /\ row' = [row EXCEPT ![e.query] = "COMPLETED"]
       /\ result' = [result EXCEPT ![e.query] = e.result]
  ELSE UNCHANGED <<row, result>>

IngestAnswer ==
  /\ answers # <<>>
  /\ Completes(Head(answers))
  /\ answers' = Tail(answers)
  /\ UNCHANGED <<channelVars, batch, asking, adapterVars, owed, failed,
                 lost, unsaved, abandoned>>

\* The event is too old when the Worker, down for a while, comes to read it.
AnswerExpires ==
  /\ answers # <<>> /\ Fault
  /\ answers' = Tail(answers)
  /\ lost' = lost \cup {Head(answers).query}
  /\ UNCHANGED <<cmd, folderVars, pollVars, refused, unanswered, workerVars,
                 adapterVars, owed, failed, unsaved, abandoned>>

-----------------------------------------------------------------------------
(* The adapter and QMT.                                                    *)

\* The adapter is between two handlers.
Idle == apc = "idle" /\ saving = NoResult

\* A query is put to QMT: it gets a new number, and the cool-down begins.
PutToQmt ==
  /\ Idle /\ inFlight = NoFlight
  /\ native' = native + 1
  /\ queried' = TRUE

\* QMT accepts it, and will call back.
InFlight(kind, q) ==
  /\ inFlight' = [kind |-> kind, query |-> q, native |-> native + 1]
  /\ owed' = owed \cup {inFlight'}

\* _credit_precheck refuses the command while a query is in flight or the
\* last one of either kind is recent.
RefuseBusy(m) ==
  /\ Idle /\ (inFlight # NoFlight \/ queried)
  /\ Refuses(m)
  /\ UNCHANGED creditVars

StartQuery(m) ==
  /\ PutToQmt /\ InFlight("OPVOLUME", m)
  /\ Accepts(m, "ACKNOWLEDGED")
  /\ UNCHANGED <<workerVars, answers, saving, capacity, failed, lost, unsaved,
                 abandoned>>

\* query_credit_opvolume raises: nothing is in flight, the cool-down remains.
QueryRaises(m) ==
  /\ PutToQmt /\ Refuses(m)
  /\ UNCHANGED <<workerVars, answers, inFlight, saving, capacity, owed, failed,
                 lost, unsaved, abandoned>>

\* credit_account_query_task, every 30 seconds.
AccountQuery ==
  /\ native < MaxNative
  /\ PutToQmt
  /\ \/ InFlight("ACCOUNT", 0)
     \/ UNCHANGED <<inFlight, owed>>
  /\ UNCHANGED <<channelVars, workerVars, answers, saving, capacity, failed, lost,
                 unsaved, abandoned>>

\* Mutant: a callback is taken for that of the query in flight by its kind.
MatchesKind(o) == inFlight.kind = o.kind

\* The callback's number is that of the query in flight.
Matches(o) == inFlight # NoFlight /\ inFlight.native = o.native

\* QMT calls back for o ...
CallsBack(o) == Idle /\ owed' = owed \ {o}

\* ... which is not in flight any more: an ERROR_EVENT, and nothing else; ...
Unmatched(o) ==
  /\ CallsBack(o) /\ ~Matches(o)
  /\ UNCHANGED <<channelVars, workerVars, answers, adapterVars, failed, lost,
                 unsaved, abandoned>>

\* ... or with the account's state, which is written and saved; ...
AccountAnswered(o) ==
  /\ o.kind = "ACCOUNT" /\ CallsBack(o) /\ Matches(o)
  /\ inFlight' = NoFlight
  /\ UNCHANGED <<channelVars, workerVars, answers, queried, native, saving,
                 capacity, failed, lost, unsaved, abandoned>>

\* Mutant: after a failure the query remains in flight.
QueryFailsOnly(o) ==
  /\ o.kind = "OPVOLUME" /\ CallsBack(o) /\ Matches(o)
  /\ failed' = failed \cup {inFlight.query}
  /\ UNCHANGED <<channelVars, workerVars, answers, adapterVars, lost, unsaved,
                 abandoned>>

\* ... or with a failure, reported by an ERROR_EVENT, which the Worker enters
\* in its audit log; ...
QueryFails(o) ==
  /\ o.kind = "OPVOLUME" /\ CallsBack(o) /\ Matches(o)
  /\ failed' = failed \cup {inFlight.query}
  /\ inFlight' = NoFlight
  /\ UNCHANGED <<channelVars, workerVars, answers, queried, native, saving,
                 capacity, lost, unsaved, abandoned>>

\* The items of batch b that QMT answers, in the order of its answers.
AnswerOrders(b) ==
  UNION {{f \in [1..n -> DOMAIN b] : \A i, j \in 1..n : f[i] = f[j] => i = j}
           : n \in 1..Len(b)}

\* Mutant: the entries get the symbols of the request by their position.
NormalizedByPosition(b, own, f) ==
  [i \in DOMAIN f |-> [symbol |-> b[Min({i, Len(b)})].symbol, item |-> own[f[i]]]]

\* credit_opvolume_callback normalizes the answers QMT gives to the batch own,
\* which name their symbols, as those to b, the batch in flight.
Normalized(b, own, f) ==
  [i \in DOMAIN f |-> [symbol |-> own[f[i]].symbol, item |-> own[f[i]]]]

\* ... or with capacities, reported to the Worker first.
Answered(o) ==
  /\ o.kind = "OPVOLUME" /\ CallsBack(o) /\ Matches(o)
  /\ LET q == inFlight.query
         own == batch[o.query]
     IN  \E f \in AnswerOrders(own) :
           /\ saving' = [native |-> o.native, entries |-> Normalized(batch[q], own, f)]
           /\ answers' = Append(answers, [query |-> q, result |-> saving'])
  /\ UNCHANGED <<channelVars, workerVars, inFlight, queried, native, capacity,
                 failed, lost, unsaved, abandoned>>

\* Mutant: it clears the flight only.
ClearFlight ==
  /\ saving # NoResult
  /\ saving' = NoResult
  /\ inFlight' = NoFlight
  /\ UNCHANGED <<channelVars, workerVars, answers, queried, native, capacity, owed,
                 failed, lost, unsaved, abandoned>>

\* The callback goes on: it saves the capacities and clears the flight.
SaveCapacity ==
  /\ saving # NoResult
  /\ capacity' = [capacity EXCEPT ![inFlight.query] = saving]
  /\ saving' = NoResult
  /\ inFlight' = NoFlight
  /\ UNCHANGED <<channelVars, workerVars, answers, queried, native, owed, failed,
                 lost, unsaved, abandoned>>

\* A write of a callback fails, and with it the callback.
CallbackFails(o) ==
  /\ CallsBack(o) /\ Matches(o) /\ Fault
  /\ lost' = lost \cup ({inFlight.query} \ {0})
  /\ abandoned' = abandoned \cup {o.native}
  /\ UNCHANGED <<cmd, folderVars, pollVars, refused, unanswered, workerVars,
                 answers, adapterVars, failed, unsaved>>

SaveFails ==
  /\ saving # NoResult /\ Fault
  /\ saving' = NoResult
  /\ unsaved' = unsaved \cup {inFlight.query}
  /\ abandoned' = abandoned \cup {inFlight.native}
  /\ UNCHANGED <<cmd, folderVars, pollVars, refused, unanswered, workerVars,
                 answers, inFlight, queried, native, capacity, owed, failed, lost>>

\* QMT never calls back.
CallbackLost(o) ==
  /\ Fault
  /\ owed' = owed \ {o}
  /\ lost' = lost \cup ({o.query} \ {0})
  /\ abandoned' = abandoned \cup {o.native}
  /\ UNCHANGED <<cmd, folderVars, pollVars, refused, unanswered, workerVars,
                 answers, adapterVars, failed, unsaved>>

\* The strategy starts again with an empty memory; QMT may still call back for
\* a query of the one before.
AdapterRestarts ==
  /\ AdapterStops
  /\ inFlight' = NoFlight /\ queried' = FALSE /\ saving' = NoResult
  /\ lost' = lost \cup ({inFlight.query} \ {0})
  /\ unsaved' = IF saving = NoResult THEN unsaved ELSE unsaved \cup {inFlight.query}
  /\ UNCHANGED <<workerVars, answers, native, capacity, owed, failed, abandoned>>

Callback(o) == Unmatched(o) \/ AccountAnswered(o) \/ QueryFails(o) \/ Answered(o)

Precheck(m) == RefuseBusy(m) \/ StartQuery(m) \/ QueryRaises(m)

-----------------------------------------------------------------------------
\* While a callback runs, poll_commands does not.
Channel ==
  /\ ChannelStep \/ IngestAck
  /\ apc' # apc => saving = NoResult
  /\ UNCHANGED creditVars

Next ==
  \/ Channel
  \/ \E b \in Batches : Request(b)
  \/ Queue \/ AskerStops \/ IngestAnswer \/ AnswerExpires
  \/ \E m \in Commands : Precheck(m)
  \/ AccountQuery
  \/ \E o \in owed : Callback(o) \/ CallbackFails(o) \/ CallbackLost(o)
  \/ SaveCapacity \/ SaveFails \/ AdapterRestarts

Spec == Init /\ [][Next]_vars

\* The loop dispatches and ingests again after a scan that raised (worker.py:45),
\* and not every scan raises; a thread of a running Worker goes on, poll_commands is called every 500 ms, and
\* QMT calls back for what it accepted, one of the faults apart.
FairSpec ==
  /\ Spec
  /\ WF_vars(\E m \in Commands : Dispatch(m) /\ UNCHANGED creditVars)
  /\ WF_vars(IngestAck /\ UNCHANGED creditVars)
  /\ WF_vars(IngestAnswer)
  /\ WF_vars(Queue)
  /\ WF_vars(Finish /\ UNCHANGED creditVars)
  /\ WF_vars(\E m \in Commands : Precheck(m) \/ (RefuseExpired(m) /\ Idle /\ UNCHANGED creditVars))
  /\ WF_vars(\E o \in owed : Callback(o))
  /\ WF_vars(SaveCapacity)

-----------------------------------------------------------------------------
(* Properties.                                                             *)

\* _matching_capacity: the last query completed that asked for the item, if any.
MatchingCapacity(i) ==
  LET asked == {q \in Queries : row[q] = "COMPLETED" /\ \E k \in DOMAIN batch[q] : batch[q][k] = i}
  IN  {q \in asked : \A p \in asked : p <= q}

\* The entries a preview and the adapter's final check use: of those that have
\* the symbol, the first.
EntryFor(r, s) ==
  {r.entries[k] : k \in {k \in DOMAIN r.entries :
     r.entries[k].symbol = s /\ \A j \in 1..(k - 1) : r.entries[j].symbol # s}}

\* The batch asks for one price per symbol.
OnePrice(b) == \A j, k \in DOMAIN b : b[j].symbol = b[k].symbol => j = k

\* The capacity that limits an order, in its preview and in the final check, is
\* what QMT said for its own symbol and price, whatever restarts, lost, late
\* and repeated callbacks there were; batches with two prices for one symbol
\* apart, for which the first entry of the symbol is taken.
CapacityIsOwn ==
  \A i \in Items : \A q \in MatchingCapacity(i) :
    OnePrice(batch[q]) =>
      \A r \in {result[q], capacity[q]} : \A e \in EntryFor(r, i.symbol) : e.item = i

\* When the Worker has a capacity, the adapter has one as new for its final
\* check, unless the callback was interrupted between the two.
BothSidesKnow ==
  \A q \in Queries :
    row[q] = "COMPLETED" /\ q \notin unsaved =>
      \/ capacity[q].native >= result[q].native
      \/ saving # NoResult /\ inFlight.query = q

\* The adapter refuses queries as "already in flight" only while QMT owes it a
\* callback or one is at work; or a callback was lost or failed, and then it
\* does so until QMT is restarted.
InFlightIsOwed ==
  inFlight # NoFlight =>
    inFlight \in owed \/ saving # NoResult \/ inFlight.native \in abandoned

\* A query ends, unless the adapter refused it, QMT failed it, or a fault hit
\* it: there is no other way for it to bar all later ones.
QueryEnds ==
  \A q \in Queries :
    (row[q] = "IN_PROGRESS") ~>
      (row[q] = "COMPLETED" \/ q \in refused \cup failed \cup lost)

\* docs/index.html:1629: the status of a query is IN_PROGRESS, COMPLETED or
\* FAILED.  One whose command was rejected does not remain IN_PROGRESS.
RejectedIsFailed ==
  \A q \in Queries :
    (cmd[q] = "QMT_REJECTED" /\ row[q] = "IN_PROGRESS") ~> (row[q] # "IN_PROGRESS")
=============================================================================
