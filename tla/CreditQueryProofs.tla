------------------------- MODULE CreditQueryProofs -------------------------
(***************************************************************************)
(* Theorems about CreditQuery, for every number of queries, every set of   *)
(* batches and every number of faults.  IInv is the inductive invariant:   *)
(* the channel's (CommandChannelProofs), the types, and three parts about  *)
(* the query in flight, the items of a result, and the two sides' copies   *)
(* of it.                                                                  *)
(***************************************************************************)
EXTENDS CreditQuery, CommandChannelProofs

USE QueriesAssumption, BatchesAssumption
    DEF folderVars, pollVars, workerVars, adapterVars, creditVars, Queries

Answer == [query : Queries, result : Result]

\* The types of CreditQuery's own variables.
CreditTypeOK ==
  /\ row \in [Queries -> {"NONE", "IN_PROGRESS", "COMPLETED"}]
  /\ batch \in [Queries -> Batches \cup {<<>>}]
  /\ result \in [Queries -> Result]
  /\ asking \in Queries \cup {0}
  /\ answers \in Seq(Answer)
  /\ inFlight \in Flight \cup {NoFlight}
  /\ queried \in BOOLEAN
  /\ native \in Nat
  /\ saving \in Result
  /\ capacity \in [Queries -> Result]
  /\ owed \in SUBSET Flight
  /\ failed \in SUBSET Queries
  /\ lost \in SUBSET Queries
  /\ unsaved \in SUBSET Queries
  /\ abandoned \in SUBSET Nat

\* The query in flight is the last one put to QMT, and a callback with its
\* number is its own: numbers are not used again, not even after a restart.
FlightIsLast ==
  /\ inFlight # NoFlight => inFlight.native = native
  /\ saving # NoResult => inFlight.kind = "OPVOLUME" /\ saving.native = native
  /\ inFlight.query \in Queries \cup {0}
  /\ inFlight.kind = "OPVOLUME" => inFlight.query \in Queries
  /\ \A o \in owed :
       /\ o.query \in Queries \cup {0}
       /\ o.native <= native
       /\ inFlight # NoFlight /\ o.native = native => o = inFlight

\* The entries of r are of items that batch b asks for, under their symbols.
OwnEntries(b, r) ==
  \A k \in DOMAIN r.entries :
    /\ r.entries[k].symbol = r.entries[k].item.symbol
    /\ \E j \in DOMAIN b : b[j] = r.entries[k].item

\* Wherever a result is on its way, it is of its query's batch; a query
\* nobody made has none.
ResultsAreOwn ==
  /\ \A q \in Queries :
       /\ row[q] = "NONE" => batch[q] = <<>>
       /\ OwnEntries(batch[q], result[q])
       /\ OwnEntries(batch[q], capacity[q])
  /\ \A k \in DOMAIN answers : OwnEntries(batch[answers[k].query], answers[k].result)
  /\ saving # NoResult => OwnEntries(batch[inFlight.query], saving)

\* The adapter's file for q is as new as r, or about to be, or was not written.
Saved(q, r) ==
  /\ r.native <= native
  /\ \/ q \in unsaved
     \/ capacity[q].native >= r.native
     \/ saving # NoResult /\ inFlight.query = q

\* What the Worker has, or will read, the adapter has saved.
ReportsAreSaved ==
  /\ \A q \in Queries : capacity[q].native <= native
  /\ \A q \in Queries : row[q] = "COMPLETED" => Saved(q, result[q])
  /\ \A k \in DOMAIN answers : Saved(answers[k].query, answers[k].result)

IInv ==
  /\ ChannelOK
  /\ CreditTypeOK
  /\ FlightIsLast
  /\ ResultsAreOwn
  /\ ReportsAreSaved
  /\ InFlightIsOwed

-----------------------------------------------------------------------------
(* The steps.                                                              *)

\* What the callback makes of QMT's answers are entries of the batch QMT was
\* asked for, and there is one at least.
LEMMA NormalizedIsOwn ==
  ASSUME NEW b, NEW own \in Batches \cup {<<>>}, NEW f \in AnswerOrders(own)
  PROVE  /\ Normalized(b, own, f) \in Seq(Entry)
         /\ Normalized(b, own, f) # <<>>
         /\ \A k \in DOMAIN Normalized(b, own, f) :
              /\ Normalized(b, own, f)[k].symbol = Normalized(b, own, f)[k].item.symbol
              /\ \E j \in DOMAIN own : own[j] = Normalized(b, own, f)[k].item
<1>1. PICK n \in 1..Len(own) : f \in [1..n -> DOMAIN own]
  BY DEF AnswerOrders
<1>2. own \in Batches /\ n \in Nat \ {0}
  BY <1>1
<1>3. \A k \in 1..n : own[f[k]] \in Items /\ own[f[k]].symbol \in {i.symbol : i \in Items}
  BY <1>1, <1>2 DEF Items
<1>4. \A k \in 1..n : [symbol |-> own[f[k]].symbol, item |-> own[f[k]]] \in Entry
  BY <1>3 DEF Entry
<1>5. /\ DOMAIN Normalized(b, own, f) = 1..n
      /\ \A k \in 1..n : Normalized(b, own, f)[k] = [symbol |-> own[f[k]].symbol, item |-> own[f[k]]]
  BY <1>1 DEF Normalized
<1>6. Normalized(b, own, f) \in Seq(Entry)
  <2>1. Normalized(b, own, f) \in [1..n -> Entry]
    BY <1>1, <1>4 DEF Normalized
  <2>2. QED
    BY <1>2, <2>1
<1>7. Normalized(b, own, f) # <<>>
  BY <1>2, <1>5
<1>8. QED
  BY <1>1, <1>5, <1>6, <1>7

\* A callback that matches a query of capacities is that query's own.
LEMMA FlightOf ==
  ASSUME IInv, NEW o \in owed, o.kind = "OPVOLUME", Matches(o)
  PROVE  inFlight = o /\ inFlight.native = native /\ inFlight.query \in Queries
  BY DEF IInv, CreditTypeOK, FlightIsLast, Matches

\* What such a callback reports is its query's own, and new.
LEMMA AnswerOf ==
  ASSUME IInv, NEW o \in owed, Answered(o)
  PROVE  /\ inFlight = o /\ inFlight.query \in Queries /\ UNCHANGED <<inFlight, native, batch>>
         /\ saving' = [native |-> native, entries |-> saving'.entries]
         /\ saving'.entries \in Seq(Entry) /\ saving' # NoResult
         /\ OwnEntries(batch[inFlight.query], saving')
         /\ answers' = Append(answers, [query |-> inFlight.query, result |-> saving'])
<1>1. inFlight = o /\ inFlight.native = native /\ inFlight.query \in Queries
  BY FlightOf DEF Answered
<1>2. PICK f \in AnswerOrders(batch[o.query]) :
        /\ saving' = [native |-> o.native, entries |-> Normalized(batch[o.query], batch[o.query], f)]
        /\ answers' = Append(answers, [query |-> o.query, result |-> saving'])
  BY <1>1 DEF Answered
<1>3. batch[o.query] \in Batches \cup {<<>>}
  BY <1>1 DEF IInv, CreditTypeOK
<1>4. UNCHANGED <<inFlight, native, batch>>
  BY DEF Answered
<1>5. QED
  BY <1>1, <1>2, <1>3, <1>4, NormalizedIsOwn DEF OwnEntries, NoResult

\* The channel's invariant is kept by every step.
LEMMA ChannelStays == ASSUME IInv, Next PROVE ChannelOK'
<1> USE DEF IInv
<1>1. CASE Channel
  BY <1>1, ChannelKeeps DEF Channel
<1>2. CASE (\E b \in Batches : Request(b)) \/ IngestAnswer \/ AccountQuery \/ SaveCapacity
           \/ \E o \in owed : Callback(o)
  <2>1. UNCHANGED channelVars
    BY <1>2 DEF Request, IngestAnswer, AccountQuery, SaveCapacity, Callback, Unmatched,
       AccountAnswered, QueryFails, Answered
  <2>2. BesideChannel
    BY <2>1 DEF channelVars, BesideChannel, ChannelOK, ChannelTypeOK
  <2>3. QED
    BY <2>2, BesideKeeps
<1>3. CASE Queue
  <2>1. asking \in Commands /\ QueueCommand(asking)
    BY <1>3 DEF Queue, CreditTypeOK
  <2>2. QED
    BY <2>1, QueueKeeps
<1>4. CASE AskerStops \/ AnswerExpires \/ SaveFails
           \/ \E o \in owed : CallbackFails(o) \/ CallbackLost(o)
  <2>1. Fault /\ UNCHANGED <<cmd, folderVars, pollVars, refused, unanswered>>
    <3>1. CASE AskerStops \/ AnswerExpires \/ SaveFails
      BY <3>1 DEF AskerStops, AnswerExpires, SaveFails
    <3>2. ASSUME NEW o \in owed, CallbackFails(o) \/ CallbackLost(o)
          PROVE  Fault /\ UNCHANGED <<cmd, folderVars, pollVars, refused, unanswered>>
      BY <3>2 DEF CallbackFails, CallbackLost
    <3>3. QED
      BY <1>4, <3>1, <3>2
  <2>2. BesideChannel
    BY <2>1, FaultAssumption DEF Fault, BesideChannel, ChannelOK, ChannelTypeOK
  <2>3. QED
    BY <2>2, BesideKeeps
<1>5. ASSUME NEW m \in Commands, Precheck(m) PROVE ChannelOK'
  BY <1>5, HandlerKeeps DEF Precheck, RefuseBusy, StartQuery, QueryRaises, Handled
<1>6. CASE AdapterRestarts
  BY <1>6, FinishKeeps DEF AdapterRestarts
<1>7. QED
  BY <1>1, <1>2, <1>3, <1>4, <1>5, <1>6 DEF Next

\* The types are kept.
LEMMA TypesStay == ASSUME IInv, Next PROVE CreditTypeOK'
<1> USE DEF IInv
<1>1. CASE Channel
  BY <1>1 DEF Channel, CreditTypeOK
<1>2. ASSUME NEW b \in Batches, Request(b) PROVE CreditTypeOK'
  BY <1>2 DEF Request, CreditTypeOK
<1>3. CASE Queue \/ AskerStops
  BY <1>3 DEF Queue, AskerStops, CreditTypeOK
<1>4. CASE IngestAnswer \/ AnswerExpires
  <2>1. answers \in Seq(Answer) /\ answers # <<>>
    BY <1>4 DEF IngestAnswer, AnswerExpires, CreditTypeOK
  <2>2. Head(answers) \in Answer /\ Tail(answers) \in Seq(Answer)
    BY <2>1
  <2>3. Head(answers).query \in Queries /\ Head(answers).result \in Result
    BY <2>2 DEF Answer
  <2>4. CASE IngestAnswer
    BY <2>2, <2>3, <2>4 DEF IngestAnswer, Completes, CreditTypeOK
  <2>5. CASE AnswerExpires
    BY <2>2, <2>3, <2>5 DEF AnswerExpires, CreditTypeOK
  <2>6. QED
    BY <1>4, <2>4, <2>5
<1>5. ASSUME NEW m \in Commands, Precheck(m) PROVE CreditTypeOK'
  <2>1. CASE RefuseBusy(m)
    BY <2>1 DEF RefuseBusy, CreditTypeOK
  <2>2. CASE StartQuery(m)
    <3>1. inFlight' \in Flight /\ native' \in Nat
      BY <2>2 DEF StartQuery, PutToQmt, InFlight, Flight, CreditTypeOK
    <3>2. QED
      BY <2>2, <3>1 DEF StartQuery, PutToQmt, InFlight, CreditTypeOK
  <2>3. CASE QueryRaises(m)
    BY <2>3 DEF QueryRaises, PutToQmt, CreditTypeOK
  <2>4. QED
    BY <1>5, <2>1, <2>2, <2>3 DEF Precheck
<1>6. CASE AccountQuery
  <2>1. native' \in Nat /\ (InFlight("ACCOUNT", 0) => inFlight' \in Flight)
    BY <1>6 DEF AccountQuery, PutToQmt, InFlight, Flight, CreditTypeOK
  <2>2. QED
    BY <1>6, <2>1 DEF AccountQuery, PutToQmt, InFlight, CreditTypeOK
<1>7. ASSUME NEW o \in owed, Callback(o) PROVE CreditTypeOK'
  <2>1. CASE Unmatched(o)
    BY <2>1 DEF Unmatched, CallsBack, CreditTypeOK
  <2>2. CASE AccountAnswered(o)
    BY <2>2 DEF AccountAnswered, CallsBack, CreditTypeOK
  <2>3. CASE QueryFails(o)
    BY <2>3, FlightOf DEF QueryFails, CallsBack, CreditTypeOK
  <2>4. CASE Answered(o)
    <3>1. saving' \in Result
      <4>1. native \in Nat
        BY DEF CreditTypeOK
      <4>2. saving' = [native |-> native, entries |-> saving'.entries] /\ saving'.entries \in Seq(Entry)
        BY <2>4, AnswerOf
      <4>3. QED
        BY <4>1, <4>2 DEF Result
    <3>2. [query |-> inFlight.query, result |-> saving'] \in Answer
      BY <2>4, <3>1, AnswerOf DEF Answer
    <3>3. answers' = Append(answers, [query |-> inFlight.query, result |-> saving'])
      BY <2>4, AnswerOf
    <3>4. QED
      BY <2>4, <3>1, <3>2, <3>3 DEF Answered, CallsBack, CreditTypeOK
  <2>5. QED
    BY <1>7, <2>1, <2>2, <2>3, <2>4 DEF Callback
<1>8. ASSUME NEW o \in owed, CallbackFails(o) \/ CallbackLost(o) PROVE CreditTypeOK'
  BY <1>8 DEF CallbackFails, CallbackLost, CallsBack, CreditTypeOK, FlightIsLast, Flight
<1>9. NoResult \in Result
  BY DEF NoResult, Result
<1>10. CASE SaveCapacity
  BY <1>9, <1>10 DEF SaveCapacity, CreditTypeOK
<1>11. CASE SaveFails
  <2>1. inFlight.query \in Queries /\ inFlight.native \in Nat
    BY <1>11 DEF SaveFails, CreditTypeOK, FlightIsLast, NoFlight, Flight
  <2>2. QED
    BY <1>9, <1>11, <2>1 DEF SaveFails, CreditTypeOK
<1>12. CASE AdapterRestarts
  <2>1. {inFlight.query} \ {0} \subseteq Queries /\ (saving # NoResult => inFlight.query \in Queries)
    BY DEF CreditTypeOK, FlightIsLast
  <2>2. QED
    BY <1>9, <1>12, <2>1 DEF AdapterRestarts, CreditTypeOK
<1>13. QED
  BY <1>1, <1>2, <1>3, <1>4, <1>5, <1>6, <1>7, <1>8, <1>10, <1>11, <1>12 DEF Next

\* A query put to QMT takes the next number, while none is in flight.
LEMMA FlightStays == ASSUME IInv, Next PROVE FlightIsLast'
<1> USE DEF IInv
<1>1. CASE UNCHANGED <<inFlight, native, saving>> /\ owed' \subseteq owed
  BY <1>1 DEF FlightIsLast
<1>2. CASE Channel \/ Queue \/ AskerStops \/ IngestAnswer \/ AnswerExpires
           \/ (\E b \in Batches : Request(b)) \/ \E m \in Commands : RefuseBusy(m)
  BY <1>1, <1>2 DEF Channel, Queue, AskerStops, IngestAnswer, AnswerExpires, Request, RefuseBusy
<1>3. ASSUME NEW kind \in {"OPVOLUME", "ACCOUNT"}, NEW q \in Queries \cup {0},
             PutToQmt, InFlight(kind, q), kind = "OPVOLUME" => q \in Queries, UNCHANGED saving
      PROVE  FlightIsLast'
  <2>1. saving' = NoResult
    BY <1>3 DEF PutToQmt, Idle
  <2>2. native' = native + 1 /\ native \in Nat /\ owed' = owed \cup {inFlight'}
    BY <1>3 DEF PutToQmt, InFlight, CreditTypeOK
  <2>3. inFlight' = [kind |-> kind, query |-> q, native |-> native']
    BY <1>3 DEF PutToQmt, InFlight
  <2>4. \A o \in owed : o.native \in Nat /\ o.native <= native /\ o.query \in Queries \cup {0}
    BY DEF CreditTypeOK, Flight, FlightIsLast
  <2>5. \A o \in owed' : /\ o.query \in Queries \cup {0}
                         /\ o.native <= native'
                         /\ o.native = native' => o = inFlight'
    BY <1>3, <2>2, <2>3, <2>4
  <2>6. QED
    BY <1>3, <2>1, <2>3, <2>5 DEF FlightIsLast
<1>4. CASE inFlight' = NoFlight /\ saving' = NoResult /\ UNCHANGED native /\ owed' \subseteq owed
  BY <1>4 DEF FlightIsLast, NoFlight
<1>5. ASSUME PutToQmt, UNCHANGED <<inFlight, owed, saving>> PROVE FlightIsLast'
  <2>1. saving' = NoResult /\ inFlight' = NoFlight /\ native' = native + 1 /\ native \in Nat
    BY <1>5 DEF PutToQmt, Idle, CreditTypeOK
  <2>2. \A o \in owed' : o.native \in Nat /\ o.native <= native' /\ o.query \in Queries \cup {0}
    BY <1>5, <2>1 DEF CreditTypeOK, Flight, FlightIsLast
  <2>3. QED
    BY <2>1, <2>2 DEF FlightIsLast, NoFlight
<1>6. ASSUME NEW m \in Commands, StartQuery(m) \/ QueryRaises(m) PROVE FlightIsLast'
  BY <1>3, <1>5, <1>6 DEF StartQuery, QueryRaises
<1>7. CASE AccountQuery
  BY <1>3, <1>5, <1>7 DEF AccountQuery
<1>8. ASSUME NEW o \in owed, Unmatched(o) \/ CallbackFails(o) \/ CallbackLost(o) PROVE FlightIsLast'
  BY <1>1, <1>8 DEF Unmatched, CallbackFails, CallbackLost, CallsBack
<1>9. ASSUME NEW o \in owed, AccountAnswered(o) \/ QueryFails(o) PROVE FlightIsLast'
  BY <1>4, <1>9 DEF AccountAnswered, QueryFails, CallsBack, Idle
<1>10. ASSUME NEW o \in owed, Answered(o) PROVE FlightIsLast'
  <2>1. saving'.native = native' /\ inFlight' = o /\ inFlight' = inFlight /\ native' = native
    BY <1>10, AnswerOf
  <2>2. owed' \subseteq owed
    BY <1>10 DEF Answered, CallsBack
  <2>3. o.kind = "OPVOLUME"
    BY <1>10 DEF Answered
  <2>4. QED
    BY <2>1, <2>2, <2>3 DEF FlightIsLast
<1>11. CASE SaveCapacity \/ AdapterRestarts
  BY <1>4, <1>11 DEF SaveCapacity, AdapterRestarts
<1>12. CASE SaveFails
  BY <1>12 DEF SaveFails, FlightIsLast
<1>13. QED
  BY <1>2, <1>6, <1>7, <1>8, <1>9, <1>10, <1>11, <1>12 DEF Next, Precheck, Callback

\* No step makes a query in flight one that QMT owes nothing for.
LEMMA OwedStays == ASSUME IInv, Next PROVE InFlightIsOwed'
<1> USE DEF IInv
<1>1. CASE /\ UNCHANGED <<inFlight, saving>>
           /\ abandoned \subseteq abandoned'
           /\ inFlight \in owed => inFlight \in owed' \/ inFlight.native \in abandoned'
  BY <1>1 DEF InFlightIsOwed
<1>2. CASE Channel \/ Queue \/ AskerStops \/ IngestAnswer \/ AnswerExpires
           \/ (\E b \in Batches : Request(b)) \/ \E m \in Commands : RefuseBusy(m)
  BY <1>1, <1>2 DEF Channel, Queue, AskerStops, IngestAnswer, AnswerExpires, Request, RefuseBusy
<1>3. CASE inFlight' = NoFlight
  BY <1>3 DEF InFlightIsOwed
<1>4. ASSUME NEW m \in Commands, StartQuery(m) \/ QueryRaises(m) PROVE InFlightIsOwed'
  BY <1>3, <1>4 DEF StartQuery, QueryRaises, PutToQmt, InFlight, InFlightIsOwed
<1>5. CASE AccountQuery
  BY <1>3, <1>5 DEF AccountQuery, PutToQmt, InFlight, InFlightIsOwed
<1>6. ASSUME NEW o \in owed, Unmatched(o) PROVE InFlightIsOwed'
  <2>1. inFlight # NoFlight => inFlight # o
    BY <1>6 DEF Unmatched, Matches
  <2>2. QED
    BY <1>6, <2>1 DEF Unmatched, CallsBack, InFlightIsOwed
<1>7. ASSUME NEW o \in owed, CallbackFails(o) \/ CallbackLost(o) PROVE InFlightIsOwed'
  BY <1>7 DEF CallbackFails, CallbackLost, CallsBack, InFlightIsOwed
<1>8. ASSUME NEW o \in owed, AccountAnswered(o) \/ QueryFails(o) PROVE InFlightIsOwed'
  BY <1>3, <1>8 DEF AccountAnswered, QueryFails
<1>9. ASSUME NEW o \in owed, Answered(o) PROVE InFlightIsOwed'
  BY <1>9, AnswerOf DEF InFlightIsOwed
<1>10. CASE SaveCapacity \/ AdapterRestarts
  BY <1>3, <1>10 DEF SaveCapacity, AdapterRestarts
<1>11. CASE SaveFails
  BY <1>11 DEF SaveFails, InFlightIsOwed
<1>12. QED
  BY <1>2, <1>4, <1>5, <1>6, <1>7, <1>8, <1>9, <1>10, <1>11 DEF Next, Precheck, Callback

LEMMA AnswerParts ==
  ASSUME CreditTypeOK
  PROVE  \A k \in DOMAIN answers : answers[k].query \in Queries /\ answers[k].result \in Result
<1>1. \A k \in DOMAIN answers : answers[k] \in Answer
  BY DEF CreditTypeOK
<1>2. QED
  BY <1>1 DEF Answer

\* What holds of every answer that waits holds of those that are left.
LEMMA TailAnswers ==
  ASSUME CreditTypeOK, answers # <<>>
  PROVE  /\ 1 \in DOMAIN answers /\ Head(answers) = answers[1] /\ answers[1] \in Answer
         /\ DOMAIN Tail(answers) = 1..(Len(answers) - 1)
         /\ \A k \in DOMAIN Tail(answers) :
              k + 1 \in DOMAIN answers /\ Tail(answers)[k] = answers[k + 1]
<1>1. answers \in Seq(Answer)
  BY DEF CreditTypeOK
<1>2. QED
  BY <1>1

\* A result stays what it is when none of the batches, results and answers change.
LEMMA ResultsStay == ASSUME IInv, Next PROVE ResultsAreOwn'
<1> USE DEF IInv
<1>1. CASE /\ UNCHANGED <<row, batch, result, capacity, answers>>
           /\ saving' = NoResult \/ UNCHANGED <<saving, inFlight>>
  BY <1>1 DEF ResultsAreOwn, OwnEntries
<1>2. CASE Channel \/ Queue \/ AskerStops \/ \E m \in Commands : RefuseBusy(m)
  BY <1>1, <1>2 DEF Channel, Queue, AskerStops, RefuseBusy
<1>3. ASSUME NEW b \in Batches, Request(b) PROVE ResultsAreOwn'
  <2>1. PICK q \in Queries : /\ row[q] = "NONE"
                             /\ row' = [row EXCEPT ![q] = "IN_PROGRESS"]
                             /\ batch' = [batch EXCEPT ![q] = b]
    BY <1>3 DEF Request
  <2>2. UNCHANGED <<result, capacity, answers, saving, inFlight>>
    BY <1>3 DEF Request
  <2>3. ASSUME NEW p \in Queries, NEW r, OwnEntries(batch[p], r) PROVE OwnEntries(batch'[p], r)
    <3>1. CASE p = q
      BY <2>1, <2>3, <3>1 DEF ResultsAreOwn, OwnEntries
    <3>2. CASE p # q
      BY <2>1, <2>3, <3>2 DEF CreditTypeOK
    <3>3. QED
      BY <3>1, <3>2
  <2>4. \A p \in Queries : /\ row'[p] = "NONE" => batch'[p] = <<>>
                           /\ OwnEntries(batch'[p], result'[p])
                           /\ OwnEntries(batch'[p], capacity'[p])
    BY <2>1, <2>2, <2>3 DEF ResultsAreOwn, CreditTypeOK
  <2>5. \A k \in DOMAIN answers' : OwnEntries(batch'[answers'[k].query], answers'[k].result)
    <3>1. \A k \in DOMAIN answers : answers[k].query \in Queries
      BY AnswerParts
    <3>2. QED
      BY <2>2, <2>3, <3>1 DEF ResultsAreOwn
  <2>6. saving' # NoResult => OwnEntries(batch'[inFlight'.query], saving')
    <3>1. saving # NoResult =>
            inFlight.query \in Queries /\ OwnEntries(batch[inFlight.query], saving)
      BY DEF ResultsAreOwn, FlightIsLast
    <3>2. QED
      BY <2>2, <2>3, <3>1
  <2>7. QED
    BY <2>4, <2>5, <2>6 DEF ResultsAreOwn, OwnEntries
<1>4. CASE IngestAnswer \/ AnswerExpires
  <2>1. /\ answers # <<>> /\ answers' = Tail(answers)
        /\ UNCHANGED <<batch, capacity, saving, inFlight>>
    BY <1>4 DEF IngestAnswer, AnswerExpires
  <2>2. \A k \in DOMAIN answers' : OwnEntries(batch[answers'[k].query], answers'[k].result)
    BY <2>1, TailAnswers DEF ResultsAreOwn
  <2>3. \A q \in Queries : /\ row'[q] = "NONE" => row[q] = "NONE"
                           /\ OwnEntries(batch[q], result'[q])
    <3>1. CASE UNCHANGED <<row, result>>
      BY <3>1 DEF ResultsAreOwn
    <3>2. CASE /\ row' = [row EXCEPT ![Head(answers).query] = "COMPLETED"]
               /\ result' = [result EXCEPT ![Head(answers).query] = Head(answers).result]
      BY <2>1, <3>2, TailAnswers DEF ResultsAreOwn, CreditTypeOK
    <3>3. QED
      BY <1>4, <3>1, <3>2 DEF IngestAnswer, AnswerExpires, Completes
  <2>4. QED
    BY <2>1, <2>2, <2>3 DEF ResultsAreOwn, OwnEntries
<1>5. ASSUME NEW m \in Commands, StartQuery(m) \/ QueryRaises(m) PROVE ResultsAreOwn'
  BY <1>1, <1>5 DEF StartQuery, QueryRaises, PutToQmt, Idle
<1>6. CASE AccountQuery
  BY <1>1, <1>6 DEF AccountQuery, PutToQmt, Idle
<1>7. ASSUME NEW o \in owed, \/ Unmatched(o) \/ AccountAnswered(o) \/ QueryFails(o)
                             \/ CallbackFails(o) \/ CallbackLost(o)
      PROVE  ResultsAreOwn'
  BY <1>1, <1>7 DEF Unmatched, AccountAnswered, QueryFails, CallbackFails, CallbackLost, CallsBack, Idle
<1>8. ASSUME NEW o \in owed, Answered(o) PROVE ResultsAreOwn'
  <2>1. UNCHANGED <<row, batch, result, capacity, inFlight>>
    BY <1>8 DEF Answered
  <2>2. OwnEntries(batch[inFlight.query], saving')
    BY <1>8, AnswerOf
  <2>3. ASSUME NEW k \in DOMAIN answers'
        PROVE  OwnEntries(batch[answers'[k].query], answers'[k].result)
    <3>1. answers \in Seq(Answer) /\ answers' = Append(answers, [query |-> inFlight.query, result |-> saving'])
      BY <1>8, AnswerOf DEF CreditTypeOK
    <3>2. \/ k \in DOMAIN answers /\ answers'[k] = answers[k]
          \/ answers'[k] = [query |-> inFlight.query, result |-> saving']
      BY <3>1
    <3>3. QED
      BY <2>2, <3>2 DEF ResultsAreOwn
  <2>4. QED
    BY <2>1, <2>2, <2>3 DEF ResultsAreOwn, OwnEntries
<1>9. CASE SaveCapacity
  <2>1. /\ saving' = NoResult /\ UNCHANGED <<row, batch, result, answers>>
        /\ saving # NoResult
        /\ capacity' = [capacity EXCEPT ![inFlight.query] = saving]
    BY <1>9 DEF SaveCapacity
  <2>2. \A q \in Queries : OwnEntries(batch[q], capacity'[q])
    BY <2>1 DEF ResultsAreOwn, CreditTypeOK
  <2>3. QED
    BY <2>1, <2>2 DEF ResultsAreOwn, OwnEntries
<1>10. CASE SaveFails \/ AdapterRestarts
  BY <1>1, <1>10 DEF SaveFails, AdapterRestarts
<1>11. QED
  BY <1>2, <1>3, <1>4, <1>5, <1>6, <1>7, <1>8, <1>9, <1>10 DEF Next, Precheck, Callback

\* The adapter's file of a query only gets newer, and a callback that has
\* reported and not saved ends by saving, or by leaving its query in unsaved.
LEMMA SavingGoesOn ==
  ASSUME IInv, Next
  PROVE  /\ native' \in Nat /\ native' >= native /\ unsaved \subseteq unsaved'
         /\ \A q \in Queries :
              /\ capacity'[q].native \in Nat
              /\ capacity[q].native <= capacity'[q].native
              /\ capacity'[q].native <= native'
              /\ saving # NoResult /\ inFlight.query = q =>
                   \/ saving' # NoResult /\ inFlight'.query = q
                   \/ q \in unsaved'
                   \/ capacity'[q].native = native
<1> USE DEF IInv
<1>1. native \in Nat /\ \A q \in Queries : capacity[q].native \in Nat /\ capacity[q].native <= native
  BY DEF CreditTypeOK, Result, ReportsAreSaved
<1>2. CASE /\ UNCHANGED capacity /\ native' \in {native, native + 1} /\ unsaved \subseteq unsaved'
           /\ UNCHANGED <<saving, inFlight>> \/ saving = NoResult
  BY <1>1, <1>2
<1>3. CASE Channel \/ Queue \/ AskerStops \/ IngestAnswer \/ AnswerExpires
           \/ (\E b \in Batches : Request(b)) \/ \E m \in Commands : RefuseBusy(m)
  BY <1>2, <1>3 DEF Channel, Queue, AskerStops, IngestAnswer, AnswerExpires, Request, RefuseBusy
<1>4. ASSUME NEW m \in Commands, StartQuery(m) \/ QueryRaises(m)
      PROVE  /\ UNCHANGED capacity /\ native' = native + 1 /\ unsaved \subseteq unsaved'
             /\ saving = NoResult
  BY <1>4 DEF StartQuery, QueryRaises, PutToQmt, Idle
<1>5. CASE AccountQuery
  BY <1>2, <1>5 DEF AccountQuery, PutToQmt, Idle
<1>6. ASSUME NEW o \in owed, Callback(o) \/ CallbackFails(o) \/ CallbackLost(o)
      PROVE  /\ UNCHANGED capacity /\ native' = native /\ unsaved \subseteq unsaved'
             /\ UNCHANGED <<saving, inFlight>> \/ saving = NoResult
  BY <1>6 DEF Callback, Unmatched, AccountAnswered, QueryFails, Answered, CallbackFails,
     CallbackLost, CallsBack, Idle
<1>7. CASE SaveCapacity
  <2>1. saving.native = native /\ capacity' = [capacity EXCEPT ![inFlight.query] = saving]
    BY <1>7 DEF SaveCapacity, FlightIsLast
  <2>2. \A q \in Queries : capacity'[q] = IF q = inFlight.query THEN saving ELSE capacity[q]
    BY <2>1 DEF CreditTypeOK
  <2>3. UNCHANGED <<native, unsaved>>
    BY <1>7 DEF SaveCapacity
  <2>4. QED
    BY <1>1, <2>1, <2>2, <2>3
<1>8. CASE SaveFails
  BY <1>1, <1>8 DEF SaveFails
<1>9. CASE AdapterRestarts
  BY <1>1, <1>9 DEF AdapterRestarts
<1>10. QED
  BY <1>2, <1>3, <1>4, <1>5, <1>6, <1>7, <1>8, <1>9 DEF Next, Precheck

\* A result that is saved, or about to be, remains so.
LEMMA SavedStays ==
  ASSUME IInv, Next, NEW q \in Queries, NEW r \in Result, Saved(q, r)
  PROVE  Saved(q, r)'
<1>1. r.native \in Nat /\ native \in Nat /\ capacity[q].native \in Nat
  BY DEF IInv, CreditTypeOK, Result
<1>2. QED
  BY <1>1, SavingGoesOn DEF Saved

\* What the Worker completes a row with is a report it had, and a report is
\* made when the callback is about to save it.
LEMMA ReportsStay == ASSUME IInv, Next PROVE ReportsAreSaved'
<1> USE DEF IInv
<1>1. \A q \in Queries : result[q] \in Result
  BY DEF CreditTypeOK
<1>2. \A k \in DOMAIN answers : answers[k].query \in Queries /\ answers[k].result \in Result
  BY AnswerParts
<1>3. /\ \A q \in Queries : row[q] = "COMPLETED" => Saved(q, result[q])
      /\ \A k \in DOMAIN answers : Saved(answers[k].query, answers[k].result)
  BY DEF ReportsAreSaved
<1>4. \A q \in Queries : capacity'[q].native <= native'
  BY SavingGoesOn
<1>5. ASSUME \A q \in Queries : row'[q] = "COMPLETED" =>
               \/ row[q] = "COMPLETED" /\ result'[q] = result[q]
               \/ \E k \in DOMAIN answers : q = answers[k].query /\ result'[q] = answers[k].result,
             \A k \in DOMAIN answers' :
               \/ \E j \in DOMAIN answers : answers'[k] = answers[j]
               \/ Saved(answers[k].query, answers[k].result)'
      PROVE  ReportsAreSaved'
  <2>1. \A q \in Queries : row'[q] = "COMPLETED" => Saved(q, result[q])'
    BY <1>1, <1>2, <1>3, <1>5, SavedStays DEF Saved
  <2>2. \A k \in DOMAIN answers' : Saved(answers[k].query, answers[k].result)'
    BY <1>2, <1>3, <1>5, SavedStays DEF Saved
  <2>3. QED
    BY <1>4, <2>1, <2>2 DEF ReportsAreSaved
<1>6. CASE UNCHANGED <<row, result, answers>>
  BY <1>5, <1>6
<1>7. CASE Channel \/ Queue \/ AskerStops \/ (\E m \in Commands : Precheck(m)) \/ AccountQuery
           \/ SaveCapacity \/ SaveFails \/ AdapterRestarts
  BY <1>6, <1>7 DEF Channel, Queue, AskerStops, Precheck, RefuseBusy, StartQuery, QueryRaises,
     AccountQuery, SaveCapacity, SaveFails, AdapterRestarts
<1>8. ASSUME NEW b \in Batches, Request(b) PROVE ReportsAreSaved'
  <2>1. \A q \in Queries : row'[q] = "COMPLETED" => row[q] = "COMPLETED"
    BY <1>8 DEF Request, CreditTypeOK
  <2>2. UNCHANGED <<result, answers>>
    BY <1>8 DEF Request
  <2>3. QED
    BY <1>5, <2>1, <2>2
<1>9. CASE IngestAnswer \/ AnswerExpires
  <2>1. answers # <<>> /\ answers' = Tail(answers)
    BY <1>9 DEF IngestAnswer, AnswerExpires
  <2>2. \A k \in DOMAIN answers' : \E j \in DOMAIN answers : answers'[k] = answers[j]
    BY <2>1, TailAnswers
  <2>3. \/ UNCHANGED <<row, result>>
        \/ /\ row' = [row EXCEPT ![answers[1].query] = "COMPLETED"]
           /\ result' = [result EXCEPT ![answers[1].query] = answers[1].result]
    BY <1>9, <2>1, TailAnswers DEF IngestAnswer, AnswerExpires, Completes
  <2>4. \A q \in Queries : row'[q] = "COMPLETED" =>
          \/ row[q] = "COMPLETED" /\ result'[q] = result[q]
          \/ q = answers[1].query /\ result'[q] = answers[1].result
    BY <2>3 DEF CreditTypeOK
  <2>5. QED
    BY <1>5, <2>1, <2>2, <2>4, TailAnswers
<1>10. ASSUME NEW o \in owed, Callback(o) \/ CallbackFails(o) \/ CallbackLost(o)
       PROVE  ReportsAreSaved'
  <2>1. CASE ~Answered(o)
    BY <1>6, <1>10, <2>1 DEF Callback, Unmatched, AccountAnswered, QueryFails, CallbackFails, CallbackLost
  <2>2. CASE Answered(o)
    <3>1. /\ answers \in Seq(Answer)
          /\ answers' = Append(answers, [query |-> inFlight.query, result |-> saving'])
          /\ saving' # NoResult /\ saving'.native = native' /\ inFlight' = inFlight
          /\ native' \in Nat
      BY <2>2, AnswerOf, SavingGoesOn DEF CreditTypeOK
    <3>2. Saved(inFlight.query, saving)'
      BY <3>1 DEF Saved
    <3>3. \A k \in DOMAIN answers' :
            \/ k \in DOMAIN answers /\ answers'[k] = answers[k]
            \/ answers'[k] = [query |-> inFlight'.query, result |-> saving']
      BY <3>1
    <3>4. \A k \in DOMAIN answers' :
            \/ \E j \in DOMAIN answers : answers'[k] = answers[j]
            \/ Saved(answers[k].query, answers[k].result)'
      BY <3>2, <3>3 DEF Saved
    <3>5. UNCHANGED <<row, result>>
      BY <2>2 DEF Answered
    <3>6. QED
      BY <1>5, <3>4, <3>5
  <2>3. QED
    BY <2>1, <2>2
<1>11. QED
  BY <1>7, <1>8, <1>9, <1>10 DEF Next

-----------------------------------------------------------------------------
(* The theorems.                                                           *)

LEMMA Initially == ASSUME Init PROVE IInv
<1>1. ChannelOK
  BY ChannelInitial DEF Init
<1>2. NoResult \in Result
  BY DEF NoResult, Result
<1>3. CreditTypeOK
  <2>1. /\ row \in [Queries -> {"NONE", "IN_PROGRESS", "COMPLETED"}]
        /\ batch \in [Queries -> Batches \cup {<<>>}]
        /\ result \in [Queries -> Result] /\ capacity \in [Queries -> Result]
    BY <1>2 DEF Init
  <2>2. answers \in Seq(Answer)
    BY DEF Init
  <2>3. QED
    BY <1>2, <2>1, <2>2 DEF Init, CreditTypeOK
<1>4. FlightIsLast /\ InFlightIsOwed
  BY DEF Init, FlightIsLast, InFlightIsOwed, NoFlight
<1>5. ResultsAreOwn
  BY DEF Init, ResultsAreOwn, OwnEntries, NoResult
<1>6. ReportsAreSaved
  BY DEF Init, ReportsAreSaved, Saved, NoResult
<1>7. QED
  BY <1>1, <1>3, <1>4, <1>5, <1>6 DEF IInv

LEMMA Unchanged == ASSUME IInv, UNCHANGED vars PROVE IInv'
<1> USE DEF IInv, vars
<1>1. ChannelOK'
  BY DEF ChannelOK, ChannelTypeOK, ChannelInv, channelVars
<1>2. CreditTypeOK' /\ FlightIsLast' /\ InFlightIsOwed'
  BY DEF CreditTypeOK, FlightIsLast, InFlightIsOwed
<1>3. ResultsAreOwn' /\ ReportsAreSaved'
  BY DEF ResultsAreOwn, OwnEntries, ReportsAreSaved, Saved
<1>4. QED
  BY <1>1, <1>2, <1>3

\* IInv is inductive: what core.py:2529 and the callbacks keep between them,
\* for every number of queries, every set of batches and every number of faults.
THEOREM CreditInvariance == Spec => []IInv
<1>1. IInv /\ [Next]_vars => IInv'
  BY ChannelStays, TypesStay, FlightStays, OwedStays, ResultsStay, ReportsStay, Unchanged DEF IInv
<1>2. QED
  BY Initially, <1>1, PTL DEF Spec

\* The variables of Worker, adapter and channel keep their types.
THEOREM CreditTypeCorrectness == Spec => []TypeOK
<1>1. IInv => TypeOK
  BY DEF IInv, ChannelOK, CreditTypeOK, TypeOK, Answer
<1>2. QED
  BY <1>1, CreditInvariance, PTL

\* A capacity that limits an order, in its preview (core.py:726, 804) and in the
\* adapter's final check, is the answer to its own symbol and price.
THEOREM CapacityBelongs == Spec => []CapacityIsOwn
<1>1. IInv => CapacityIsOwn
  <2> SUFFICES ASSUME IInv, NEW i \in Items, NEW q \in MatchingCapacity(i), OnePrice(batch[q]),
                      NEW r \in {result[q], capacity[q]}, NEW e \in EntryFor(r, i.symbol)
               PROVE  e.item = i
    BY DEF CapacityIsOwn
  <2>1. q \in Queries /\ \E k \in DOMAIN batch[q] : batch[q][k] = i
    BY DEF MatchingCapacity
  <2>2. PICK k \in DOMAIN r.entries : e = r.entries[k] /\ e.symbol = i.symbol
    BY DEF EntryFor
  <2>3. e.symbol = e.item.symbol /\ \E j \in DOMAIN batch[q] : batch[q][j] = e.item
    BY <2>1, <2>2 DEF IInv, ResultsAreOwn, OwnEntries
  <2>4. QED
    BY <2>1, <2>2, <2>3 DEF OnePrice
<1>2. QED
  BY <1>1, CreditInvariance, PTL

\* What the Worker has of a query, the adapter has as new for its final check.
THEOREM CapacityOnBothSides == Spec => []BothSidesKnow
<1>1. IInv => BothSidesKnow
  BY DEF IInv, ReportsAreSaved, Saved, BothSidesKnow
<1>2. QED
  BY <1>1, CreditInvariance, PTL

\* The adapter refuses queries as in flight only while QMT owes a callback, one
\* is at work, or one was lost or failed.
THEOREM FlightIsOwed == Spec => []InFlightIsOwed
<1>1. IInv => InFlightIsOwed
  BY DEF IInv
<1>2. QED
  BY <1>1, CreditInvariance, PTL

=============================================================================
