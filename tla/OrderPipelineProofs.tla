------------------------ MODULE OrderPipelineProofs ------------------------
(***************************************************************************)
(* Theorems about OrderPipeline, for every set of intents and threads and  *)
(* every number of faults.  Each conjunct of IInv has a lemma saying that  *)
(* a step preserves it; IInv then gives the safety properties, and that    *)
(* the pipeline implements OneShotOrder.                                   *)
(***************************************************************************)
EXTENDS OrderPipeline, TLAPS

USE NoIntentAssumption, LoopAssumption, MaxFaultsAssumption,
    UsedModesAssumption DEF dbVars, threadVars, adapterVars, historyVars

\* The step is one of the Worker's threads'.
WorkerStep ==
  \/ \E t \in Threads : Dispatch(t) \/ \E i \in Intents : Submit(t, i)
  \/ \E t \in Threads : DispatchFails(t)
  \/ WorkerCrash

\* The step takes a file, or goes on with one.
AdapterStep ==
  \/ \E i \in Intents : Take(i)
  \/ Poll
  \/ AdapterIoFails \/ RejectSilently \/ BuryFails \/ AdapterRestarts

\* The step is a report of QMT, its ingestion, or the clock.
ReportStep ==
  \/ \E i \in Intents : Expire(i) \/ OrderCallback(i) \/ IngestOrderEvent(i)
  \/ ReconcileTask \/ IngestAck \/ AckExpires

\* Every step is the Worker's, the adapter's, a report's, or none.
LEMMA StepKinds ==
  ASSUME [Next]_vars
  PROVE  WorkerStep \/ AdapterStep \/ ReportStep \/ UNCHANGED vars
  BY DEF Next, Faults, WorkerStep, AdapterStep, ReportStep

-----------------------------------------------------------------------------
(* What each kind of step leaves alone.                                     *)

\* The Worker's threads touch nothing that is the adapter's or QMT's.
LEMMA WorkerFrame ==
  ASSUME WorkerStep
  PROVE  UNCHANGED <<mode, archive, deadLetter, journal, autoPause, acks,
                     events, apc, cur, verdict, live, passed>>
  BY DEF WorkerStep, Dispatch, Submit, Select, WriteFile, MarkDelivered,
     DispatchFails, WorkerCrash

\* The Worker's threads take no file out of the commands folder.
LEMMA WorkerAddsFiles ==
  ASSUME TypeOK, WorkerStep, NEW i \in Intents
  PROVE  commands'[i] >= commands[i]
  BY DEF TypeOK, WorkerStep, Dispatch, Submit, Select, WriteFile,
     MarkDelivered, DispatchFails, WorkerCrash

\* The adapter writes neither the database nor the clock.
LEMMA AdapterFrame ==
  ASSUME AdapterStep
  PROVE  UNCHANGED <<mode, status, cmd, tpc, rows, at>>
<1>1. ASSUME NEW i \in Intents, Take(i) PROVE UNCHANGED <<mode, status, cmd, tpc, rows, at>>
  BY <1>1 DEF Take, Picks, TakeExpired, TakeAttempted, TakeDuplicate,
     TakeRefused, TakeObserved, TakeLive
<1>2. CASE Poll
  BY <1>2 DEF Poll, CallsPassorder, PassorderReturns, PassorderRaises,
     JournalCalled, Acknowledge, Archive, Reject, Bury
<1>3. CASE AdapterIoFails \/ RejectSilently \/ BuryFails \/ AdapterRestarts
  BY <1>3 DEF AdapterIoFails, RejectSilently, BuryFails, AdapterRestarts
<1>4. QED
  BY <1>1, <1>2, <1>3 DEF AdapterStep

\* A report, its ingestion and the clock leave threads, files and the journal.
LEMMA ReportFrame ==
  ASSUME ReportStep
  PROVE  UNCHANGED <<mode, tpc, rows, at, commands, archive, deadLetter,
                     journal, autoPause, apc, cur, verdict, live, passed>>
  BY DEF ReportStep, Expire, OrderCallback, IngestOrderEvent, ReconcileTask,
     IngestAck, AckExpires

\* A pause stays of the type it is, whatever asks for it.
LEMMA PauseType ==
  ASSUME NEW i, autoPause \in BOOLEAN, PauseFor(i)
  PROVE  autoPause' \in BOOLEAN
  BY DEF PauseFor

\* The two parts of a queue of acknowledgements.
LEMMA AckQueue ==
  ASSUME acks \in Seq(Ack), acks # <<>>
  PROVE  /\ Head(acks) \in Ack
         /\ Tail(acks) \in Seq(Ack)
         /\ Len(acks) \in Nat
         /\ 1 \in 1..Len(acks) /\ Head(acks) = acks[1]
         /\ \A k \in 1..Len(Tail(acks)) :
              k + 1 \in 1..Len(acks) /\ Tail(acks)[k] = acks[k + 1]
  OBVIOUS

-----------------------------------------------------------------------------
(* Types.                                                                   *)

\* The Worker's steps preserve the types.
LEMMA WorkerTypes ==
  ASSUME TypeOK, WorkerStep PROVE TypeOK'
<1>1. ASSUME NEW t \in Threads, NEW i \in Intents, Submit(t, i) PROVE TypeOK'
  BY <1>1 DEF TypeOK, Submit, AckStatus
<1>2. ASSUME NEW t \in Threads, Select(t) PROVE TypeOK'
  BY <1>2 DEF TypeOK, Select, Pending, Home
<1>3. ASSUME NEW t \in Threads, NEW i \in Intents, WriteFile(t, i) PROVE TypeOK'
  BY <1>3 DEF TypeOK, WriteFile
<1>4. ASSUME NEW t \in Threads, MarkDelivered(t) PROVE TypeOK'
  BY <1>4 DEF TypeOK, MarkDelivered, Home, AckStatus
<1>5. ASSUME NEW t \in Threads, DispatchFails(t) PROVE TypeOK'
  BY <1>5 DEF TypeOK, DispatchFails, Home
<1>6. CASE WorkerCrash
  BY <1>6 DEF TypeOK, WorkerCrash, Home
<1>7. QED
  BY <1>1, <1>2, <1>3, <1>4, <1>5, <1>6 DEF WorkerStep, Dispatch

\* Taking a file from the commands folder preserves the types.
LEMMA TakeTypes ==
  ASSUME TypeOK, NEW i \in Intents, Take(i) PROVE TypeOK'
<1>1. CASE TakeExpired(i)
  BY <1>1 DEF TypeOK, Picks, TakeExpired
<1>2. CASE TakeAttempted(i)
  <2>1. autoPause' \in BOOLEAN
    BY <1>2, PauseType DEF TypeOK, TakeAttempted
  <2>2. QED
    BY <1>2, <2>1 DEF TypeOK, Picks, TakeAttempted, AckStatus
<1>3. CASE TakeDuplicate(i)
  BY <1>3 DEF TypeOK, Picks, TakeDuplicate, AckStatus
<1>4. CASE TakeRefused(i)
  BY <1>4 DEF TypeOK, Picks, TakeRefused
<1>5. CASE TakeObserved(i)
  BY <1>5 DEF TypeOK, Picks, TakeObserved, AckStatus
<1>6. CASE TakeLive(i)
  BY <1>6 DEF TypeOK, Picks, TakeLive
<1>7. QED
  BY <1>1, <1>2, <1>3, <1>4, <1>5, <1>6 DEF Take

\* Going on with the file that was taken preserves the types.
LEMMA PollTypes ==
  ASSUME TypeOK, HandlesAFile, Poll PROVE TypeOK'
<1>1. CASE PassorderReturns
  BY <1>1 DEF TypeOK, HandlesAFile, PassorderReturns, CallsPassorder
<1>2. CASE PassorderRaises
  <2>1. autoPause' \in BOOLEAN
    BY <1>2, PauseType DEF TypeOK, PassorderRaises
  <2>2. QED
    BY <1>2, <2>1 DEF TypeOK, HandlesAFile, PassorderRaises, CallsPassorder,
       AckStatus
<1>3. CASE JournalCalled
  BY <1>3 DEF TypeOK, JournalCalled, AckStatus
<1>4. CASE Acknowledge
  <2>1. verdict \in AckStatus /\ cur \in Intents
    BY <1>4 DEF TypeOK, HandlesAFile, Acknowledge
  <2>2. QED
    BY <1>4, <2>1 DEF TypeOK, Acknowledge, Ack
<1>5. CASE Archive
  BY <1>5 DEF TypeOK, HandlesAFile, Archive
<1>6. CASE Reject
  <2>1. autoPause' \in BOOLEAN
    BY <1>6, PauseType DEF TypeOK, Reject
  <2>2. QED
    BY <1>6, <2>1 DEF TypeOK, HandlesAFile, Reject, Ack, AckStatus
<1>7. CASE Bury
  BY <1>7 DEF TypeOK, HandlesAFile, Bury
<1>8. QED
  BY <1>1, <1>2, <1>3, <1>4, <1>5, <1>6, <1>7 DEF Poll

\* The adapter's failures and its restart preserve the types.
LEMMA AdapterFaultTypes ==
  ASSUME TypeOK, HandlesAFile,
         AdapterIoFails \/ RejectSilently \/ BuryFails \/ AdapterRestarts
  PROVE  TypeOK'
<1>1. CASE AdapterIoFails
  BY <1>1 DEF TypeOK, AdapterIoFails
<1>2. CASE RejectSilently
  <2>1. autoPause' \in BOOLEAN
    BY <1>2 DEF TypeOK, RejectSilently
  <2>2. QED
    BY <1>2, <2>1 DEF TypeOK, HandlesAFile, RejectSilently
<1>3. CASE BuryFails
  BY <1>3 DEF TypeOK, BuryFails
<1>4. CASE AdapterRestarts
  BY <1>4 DEF TypeOK, AdapterRestarts
<1>5. QED
  BY <1>1, <1>2, <1>3, <1>4

\* Reports, their ingestion and the clock preserve the types.
LEMMA ReportTypes ==
  ASSUME TypeOK, ReportStep PROVE TypeOK'
<1>1. ASSUME NEW i \in Intents, Expire(i) PROVE TypeOK'
  BY <1>1 DEF TypeOK, Expire
<1>2. ASSUME NEW i \in Intents, OrderCallback(i) PROVE TypeOK'
  BY <1>2 DEF TypeOK, OrderCallback
<1>3. ASSUME NEW i \in Intents, IngestOrderEvent(i) PROVE TypeOK'
  BY <1>3 DEF TypeOK, IngestOrderEvent
<1>4. CASE ReconcileTask
  BY <1>4 DEF TypeOK, ReconcileTask
<1>5. CASE IngestAck
  <2>1. Head(acks) \in Ack /\ Tail(acks) \in Seq(Ack)
    BY <1>5, AckQueue DEF TypeOK, IngestAck
  <2>2. QED
    BY <1>5, <2>1 DEF TypeOK, IngestAck, Ack, AfterAck
<1>6. CASE AckExpires
  <2>1. Head(acks) \in Ack /\ Tail(acks) \in Seq(Ack)
    BY <1>6, AckQueue DEF TypeOK, AckExpires
  <2>2. QED
    BY <1>6, <2>1 DEF TypeOK, AckExpires, Ack
<1>7. QED
  BY <1>1, <1>2, <1>3, <1>4, <1>5, <1>6 DEF ReportStep

\* Every step preserves the types.
LEMMA Types ==
  ASSUME TypeOK, HandlesAFile, [Next]_vars PROVE TypeOK'
<1>1. CASE UNCHANGED vars
  BY <1>1 DEF TypeOK, vars
<1>2. QED
  BY <1>1, StepKinds, WorkerTypes, TakeTypes, PollTypes, AdapterFaultTypes,
     ReportTypes DEF AdapterStep

-----------------------------------------------------------------------------
(* Files.                                                                   *)

\* A command taken by the adapter is in the commands folder until it is moved.
LEMMA AFileStays ==
  ASSUME TypeOK, HandlesAFile, [Next]_vars PROVE HandlesAFile'
<1>1. CASE WorkerStep
  BY <1>1, WorkerFrame, WorkerAddsFiles, Types DEF HandlesAFile, TypeOK
<1>2. ASSUME NEW i \in Intents, Take(i) PROVE HandlesAFile'
  BY <1>2 DEF HandlesAFile, Take, Picks, TakeExpired, TakeAttempted,
     TakeDuplicate, TakeRefused, TakeObserved, TakeLive
<1>3. CASE Poll
  BY <1>3 DEF HandlesAFile, Poll, CallsPassorder, PassorderReturns,
     PassorderRaises, JournalCalled, Acknowledge, Archive, Reject, Bury
<1>4. CASE AdapterIoFails \/ RejectSilently \/ BuryFails \/ AdapterRestarts
  BY <1>4 DEF HandlesAFile, AdapterIoFails, RejectSilently, BuryFails,
     AdapterRestarts
<1>5. CASE ReportStep
  BY <1>5, ReportFrame DEF HandlesAFile
<1>6. CASE UNCHANGED vars
  BY <1>6 DEF HandlesAFile, vars
<1>7. QED
  BY <1>1, <1>2, <1>3, <1>4, <1>5, <1>6, StepKinds DEF AdapterStep

\* The file of a command is never lost: the adapter moves it, and moves it
\* where it stays.
LEMMA HandedForGood ==
  ASSUME TypeOK, HandlesAFile, [Next]_vars, NEW i \in Intents, Handed(i)
  PROVE  Handed(i)'
<1>1. CASE WorkerStep
  BY <1>1, WorkerFrame, WorkerAddsFiles, Types DEF Handed, TypeOK
<1>2. ASSUME NEW j \in Intents, Take(j) PROVE Handed(i)'
  BY <1>2 DEF Handed, Take, Picks, TakeExpired, TakeAttempted,
     TakeDuplicate, TakeRefused, TakeObserved, TakeLive
<1>3. CASE Archive \/ Bury
  BY <1>3 DEF TypeOK, HandlesAFile, Handed, Archive, Bury
<1>4. CASE Poll /\ ~Archive /\ ~Bury
  BY <1>4 DEF Handed, Poll, CallsPassorder, PassorderReturns,
     PassorderRaises, JournalCalled, Acknowledge, Reject
<1>5. CASE AdapterIoFails \/ RejectSilently \/ BuryFails \/ AdapterRestarts
  BY <1>5 DEF Handed, AdapterIoFails, RejectSilently, BuryFails,
     AdapterRestarts
<1>6. CASE ReportStep
  BY <1>6, ReportFrame DEF Handed
<1>7. CASE UNCHANGED vars
  BY <1>7 DEF Handed, vars
<1>8. QED
  BY <1>1, <1>2, <1>3, <1>4, <1>5, <1>6, <1>7, StepKinds DEF AdapterStep

\* A thread marks a command delivered after it wrote the file.
LEMMA MarkAfterWrite ==
  ASSUME TypeOK, HandlesAFile, MarksAWrittenRow, [Next]_vars
  PROVE  MarksAWrittenRow'
<1> SUFFICES ASSUME NEW t \in Threads, tpc'[t] = "mark"
             PROVE  at'[t] \in Intents /\ Handed(at[t])'
  BY DEF MarksAWrittenRow, Handed
<1>1. CASE tpc[t] = "mark" /\ at'[t] = at[t]
  BY <1>1, HandedForGood DEF MarksAWrittenRow, Handed
<1>2. CASE WorkerStep /\ ~(tpc[t] = "mark" /\ at'[t] = at[t])
  <2>1. PICK i \in Intents : WriteFile(t, i)
    BY <1>2 DEF TypeOK, WorkerStep, Dispatch, Submit, Select, WriteFile,
       MarkDelivered, DispatchFails, WorkerCrash, Home
  <2>2. QED
    BY <2>1 DEF TypeOK, WriteFile, Handed
<1>3. CASE AdapterStep \/ ReportStep \/ UNCHANGED vars
  BY <1>1, <1>3, AdapterFrame, ReportFrame DEF vars
<1>4. QED
  BY <1>1, <1>2, <1>3, StepKinds

\* Every trace an intent leaves is behind its commit.
LEMMA CommitComesFirst ==
  ASSUME TypeOK, HandlesAFile, TracesAreCommitted, [Next]_vars
  PROVE  TracesAreCommitted'
<1>1. CASE WorkerStep
  <2>1. ASSUME NEW t \in Threads, NEW i \in Intents, Submit(t, i)
        PROVE  TracesAreCommitted'
    BY <2>1 DEF TypeOK, TracesAreCommitted, Submit
  <2>2. ASSUME NEW t \in Threads, Select(t) PROVE TracesAreCommitted'
    BY <2>2 DEF TypeOK, TracesAreCommitted, Select, Pending
  <2>3. ASSUME NEW t \in Threads, NEW i \in Intents, WriteFile(t, i)
        PROVE  TracesAreCommitted'
    BY <2>3 DEF TypeOK, TracesAreCommitted, WriteFile
  <2>4. ASSUME NEW t \in Threads, MarkDelivered(t) PROVE TracesAreCommitted'
    BY <2>4 DEF TypeOK, TracesAreCommitted, MarkDelivered
  <2>5. ASSUME NEW t \in Threads, DispatchFails(t) PROVE TracesAreCommitted'
    BY <2>5 DEF TypeOK, TracesAreCommitted, DispatchFails
  <2>6. CASE WorkerCrash
    BY <2>6 DEF TypeOK, TracesAreCommitted, WorkerCrash
  <2>7. QED
    BY <1>1, <2>1, <2>2, <2>3, <2>4, <2>5, <2>6 DEF WorkerStep, Dispatch
<1>2. ASSUME NEW i \in Intents, Take(i) PROVE TracesAreCommitted'
  <2>1. /\ commands[i] > 0
        /\ UNCHANGED <<commands, archive, deadLetter, live>>
        /\ \A j \in Intents \ {i} : journal'[j] = journal[j]
    BY <1>2 DEF TypeOK, Take, Picks, TakeExpired, TakeAttempted,
       TakeDuplicate, TakeRefused, TakeObserved, TakeLive
  <2>2. AdapterStep
    BY <1>2 DEF AdapterStep
  <2>3. QED
    BY <2>1, <2>2, AdapterFrame DEF TypeOK, TracesAreCommitted
<1>3. CASE Poll
  <2>1. \A j \in Intents \ {cur} :
          /\ commands'[j] = commands[j] /\ journal'[j] = journal[j]
          /\ j \in archive' \cup deadLetter' \cup live' =>
               j \in archive \cup deadLetter \cup live
    BY <1>3 DEF TypeOK, Poll, CallsPassorder, PassorderReturns,
       PassorderRaises, JournalCalled, Acknowledge, Archive, Reject, Bury
  <2>2. apc # "idle"
    BY <1>3 DEF Poll, CallsPassorder, PassorderReturns,
       PassorderRaises, JournalCalled, Acknowledge, Archive, Reject, Bury
  <2>3. AdapterStep
    BY <1>3 DEF AdapterStep
  <2>4. QED
    BY <2>1, <2>2, <2>3, AdapterFrame DEF TypeOK, TracesAreCommitted, HandlesAFile
<1>4. CASE AdapterIoFails \/ RejectSilently \/ BuryFails \/ AdapterRestarts
  BY <1>4 DEF TracesAreCommitted, AdapterIoFails, RejectSilently, BuryFails,
     AdapterRestarts
<1>5. CASE ReportStep
  <2>1. \A i \in Intents : status'[i] = "NONE" => status[i] = "NONE" /\ cmd'[i] = cmd[i]
    <3>1. CASE IngestAck
      <4>1. Head(acks) \in Ack
        BY <3>1, AckQueue DEF TypeOK, IngestAck
      <4>2. QED
        BY <3>1, <4>1 DEF TypeOK, IngestAck, Ack, AckStatus, AfterAck, TerminalAck
    <3>2. CASE ~IngestAck
      BY <1>5, <3>2 DEF TypeOK, ReportStep, Expire, OrderCallback,
         IngestOrderEvent, ReconcileTask, AckExpires
    <3>3. QED
      BY <3>1, <3>2
  <2>2. QED
    BY <1>5, <2>1, ReportFrame DEF TracesAreCommitted
<1>6. CASE UNCHANGED vars
  BY <1>6 DEF TracesAreCommitted, vars
<1>7. QED
  BY <1>1, <1>2, <1>3, <1>4, <1>5, <1>6, StepKinds DEF AdapterStep

-----------------------------------------------------------------------------
(* The journal and the call.                                                *)

\* No call of passorder without a journal entry before it.
LEMMA JournalFirst ==
  ASSUME TypeOK, HandlesAFile, JournalGuardsCall, [Next]_vars
  PROVE  JournalGuardsCall'
<1>1. CASE WorkerStep \/ ReportStep \/ UNCHANGED vars
  BY <1>1, WorkerFrame, ReportFrame DEF JournalGuardsCall, MayHaveBeenSent, vars
<1>2. ASSUME NEW i \in Intents, Take(i) PROVE JournalGuardsCall'
  BY <1>2 DEF TypeOK, JournalGuardsCall, MayHaveBeenSent, Take, Picks,
     TakeExpired, TakeAttempted, TakeDuplicate, TakeRefused, TakeObserved, TakeLive
<1>3. CASE PassorderReturns \/ PassorderRaises
  BY <1>3 DEF TypeOK, JournalGuardsCall, MayHaveBeenSent, CallsPassorder,
     PassorderReturns, PassorderRaises
<1>4. CASE JournalCalled
  BY <1>4 DEF TypeOK, HandlesAFile, JournalGuardsCall, MayHaveBeenSent, JournalCalled
<1>5. CASE Acknowledge \/ Archive \/ Reject \/ Bury
  BY <1>5 DEF JournalGuardsCall, MayHaveBeenSent, Acknowledge, Archive, Reject, Bury
<1>6. CASE AdapterIoFails \/ RejectSilently \/ BuryFails \/ AdapterRestarts
  BY <1>6 DEF JournalGuardsCall, MayHaveBeenSent, AdapterIoFails,
     RejectSilently, BuryFails, AdapterRestarts
<1>7. QED
  BY <1>1, <1>2, <1>3, <1>4, <1>5, <1>6, StepKinds DEF AdapterStep, Poll

\* What backs a report is never taken back.
LEMMA BackedForGood ==
  ASSUME TypeOK, HandlesAFile, JournalGuardsCall, [Next]_vars,
         NEW i \in Intents, NEW s, Backed(i, s)
  PROVE  Backed(i, s)'
<1>1. CASE WorkerStep \/ ReportStep \/ UNCHANGED vars
  BY <1>1, WorkerFrame, ReportFrame DEF Backed, MayHaveBeenSent, vars
<1>2. ASSUME NEW j \in Intents, Take(j) PROVE Backed(i, s)'
  BY <1>2 DEF TypeOK, Backed, MayHaveBeenSent, PauseFor, Take, Picks,
     TakeExpired, TakeAttempted, TakeDuplicate, TakeRefused, TakeObserved, TakeLive
<1>3. CASE PassorderReturns \/ PassorderRaises
  BY <1>3 DEF TypeOK, HandlesAFile, JournalGuardsCall, Backed, MayHaveBeenSent,
     PauseFor, CallsPassorder, PassorderReturns, PassorderRaises
<1>4. CASE JournalCalled
  BY <1>4 DEF TypeOK, HandlesAFile, JournalGuardsCall, Backed, MayHaveBeenSent,
     JournalCalled
<1>5. CASE Acknowledge \/ Archive \/ Reject \/ Bury
  BY <1>5 DEF Backed, MayHaveBeenSent, PauseFor, Acknowledge, Archive, Reject, Bury
<1>6. CASE AdapterIoFails \/ RejectSilently \/ BuryFails \/ AdapterRestarts
  BY <1>6 DEF Backed, MayHaveBeenSent, AdapterIoFails, RejectSilently,
     BuryFails, AdapterRestarts
<1>7. QED
  BY <1>1, <1>2, <1>3, <1>4, <1>5, <1>6, StepKinds DEF AdapterStep, Poll

\* The adapter is about to acknowledge what is so.
LEMMA VerdictIsBacked ==
  ASSUME TypeOK, HandlesAFile, JournalGuardsCall, ReportsAreBacked, [Next]_vars,
         apc' = "ack"
  PROVE  Backed(cur, verdict)'
<1>1. CASE apc = "ack" /\ cur' = cur /\ verdict' = verdict
  <2>1. cur \in Intents /\ Backed(cur, verdict)
    BY <1>1 DEF HandlesAFile, ReportsAreBacked
  <2>2. QED
    BY <1>1, <2>1, BackedForGood DEF Backed, MayHaveBeenSent
<1>2. ASSUME NEW i \in Intents, Take(i) PROVE Backed(cur, verdict)'
  <2>1. CASE TakeAttempted(i)
    BY <2>1 DEF TypeOK, Backed, MayHaveBeenSent, PauseFor, Picks, TakeAttempted
  <2>2. CASE TakeDuplicate(i)
    BY <2>2 DEF TypeOK, Backed, MayHaveBeenSent, Picks, TakeDuplicate
  <2>3. CASE TakeObserved(i)
    BY <2>3 DEF TypeOK, Backed, MayHaveBeenSent, Picks, TakeObserved
  <2>4. QED
    BY <1>2, <2>1, <2>2, <2>3 DEF Take, TakeExpired, TakeRefused, TakeLive
<1>3. CASE PassorderRaises
  BY <1>3 DEF TypeOK, HandlesAFile, JournalGuardsCall, Backed,
     MayHaveBeenSent, PauseFor, CallsPassorder, PassorderRaises
<1>4. CASE JournalCalled
  BY <1>4 DEF TypeOK, HandlesAFile, JournalGuardsCall, Backed,
     MayHaveBeenSent, JournalCalled
<1>5. CASE WorkerStep \/ ReportStep \/ UNCHANGED vars
  BY <1>1, <1>5, WorkerFrame, ReportFrame DEF vars
<1>6. QED
  BY <1>2, <1>3, <1>4, <1>5, StepKinds DEF AdapterStep, Poll,
     PassorderReturns, Acknowledge, Archive, Reject, Bury, AdapterIoFails,
     RejectSilently, BuryFails, AdapterRestarts

\* What an acknowledgement in the folder says.
AckIsTrue(a) == Backed(a.intent, a.status) /\ Handed(a.intent)

\* An acknowledgement that is true stays true.
LEMMA AckStaysTrue ==
  ASSUME TypeOK, HandlesAFile, JournalGuardsCall, [Next]_vars,
         NEW a \in Ack, AckIsTrue(a)
  PROVE  AckIsTrue(a)'
<1>1. a.intent \in Intents
  BY DEF Ack
<1>2. QED
  BY <1>1, BackedForGood, HandedForGood DEF AckIsTrue

\* Every acknowledgement in the folder is true, and stays so.
LEMMA AcksAreBacked ==
  ASSUME TypeOK, HandlesAFile, JournalGuardsCall, ReportsAreBacked, [Next]_vars
  PROVE  \A k \in 1..Len(acks') : AckIsTrue(acks[k])'
<1>1. ASSUME NEW k \in 1..Len(acks) PROVE acks[k] \in Ack /\ AckIsTrue(acks[k])
  BY DEF TypeOK, ReportsAreBacked, AckIsTrue
<1>2. ASSUME NEW k \in 1..Len(acks), NEW m, acks'[m] = acks[k]
      PROVE  AckIsTrue(acks[m])'
  <2>1. PICK a \in Ack : a = acks[k] /\ AckIsTrue(a)
    BY <1>1
  <2>2. AckIsTrue(a)'
    BY <2>1, AckStaysTrue
  <2>3. QED
    BY <1>2, <2>1, <2>2 DEF AckIsTrue, Backed, Handed, MayHaveBeenSent
<1>3. CASE acks' = acks
  BY <1>2, <1>3
<1>4. ASSUME NEW a \in Ack, acks' = Append(acks, a), AckIsTrue(a)
      PROVE  \A k \in 1..Len(acks') : AckIsTrue(acks[k])'
  <2>1. /\ Len(acks') = Len(acks) + 1 /\ Len(acks) \in Nat
        /\ acks'[Len(acks) + 1] = a
        /\ \A k \in 1..Len(acks) : acks'[k] = acks[k]
    BY <1>4 DEF TypeOK
  <2>2. AckIsTrue(a)'
    BY <1>4, AckStaysTrue
  <2>3. TAKE k \in 1..Len(acks')
  <2>4. CASE k = Len(acks) + 1
    <3>1. acks'[k] = a
      BY <2>1, <2>4
    <3>2. QED
      BY <2>2, <3>1 DEF AckIsTrue, Backed, Handed, MayHaveBeenSent
  <2>5. CASE k \in 1..Len(acks)
    BY <1>2, <2>1, <2>5
  <2>6. QED
    BY <2>1, <2>4, <2>5
<1>5. CASE Acknowledge
  <2>1. [intent |-> cur, status |-> verdict] \in Ack
    BY <1>5 DEF TypeOK, HandlesAFile, Acknowledge, Ack
  <2>2. AckIsTrue([intent |-> cur, status |-> verdict])
    BY <1>5 DEF HandlesAFile, ReportsAreBacked, Acknowledge, AckIsTrue, Handed
  <2>3. QED
    BY <1>4, <1>5, <2>1, <2>2 DEF Acknowledge
<1>6. CASE Reject
  <2>1. [intent |-> cur, status |-> "QMT_REJECTED"] \in Ack
    BY <1>6 DEF TypeOK, HandlesAFile, Reject, Ack, AckStatus
  <2>2. AckIsTrue([intent |-> cur, status |-> "QMT_REJECTED"])
    BY <1>6 DEF HandlesAFile, Reject, AckIsTrue, Handed, Backed
  <2>3. QED
    BY <1>4, <1>6, <2>1, <2>2 DEF Reject
<1>7. CASE IngestAck \/ AckExpires
  <2>1. acks # <<>> /\ acks' = Tail(acks)
    BY <1>7 DEF IngestAck, AckExpires
  <2>2. \A k \in 1..Len(acks') : k + 1 \in 1..Len(acks) /\ acks'[k] = acks[k + 1]
    BY <2>1, AckQueue DEF TypeOK
  <2>3. QED
    BY <1>2, <2>2
<1>8. CASE WorkerStep \/ (ReportStep /\ ~IngestAck /\ ~AckExpires) \/ UNCHANGED vars
  BY <1>3, <1>8, WorkerFrame DEF ReportStep, Expire, OrderCallback,
     IngestOrderEvent, ReconcileTask, vars
<1>9. CASE AdapterStep /\ ~Acknowledge /\ ~Reject
  <2>1. acks' = acks
    BY <1>9 DEF AdapterStep, Take, Picks, TakeExpired, TakeAttempted,
       TakeDuplicate, TakeRefused, TakeObserved, TakeLive, Poll,
       CallsPassorder, PassorderReturns, PassorderRaises, JournalCalled,
       Archive, Bury, AdapterIoFails, RejectSilently, BuryFails, AdapterRestarts
  <2>2. QED
    BY <1>3, <2>1
<1>10. QED
  BY <1>5, <1>6, <1>7, <1>8, <1>9, StepKinds

\* Every status the database takes from an acknowledgement is true.
LEMMA StatusesAreBacked ==
  ASSUME TypeOK, HandlesAFile, JournalGuardsCall, ReportsAreBacked, [Next]_vars,
         NEW i \in Intents
  PROVE  Backed(i, status[i])'
<1>1. CASE status'[i] = status[i]
  BY <1>1, BackedForGood DEF ReportsAreBacked, Backed, MayHaveBeenSent
<1>2. CASE status'[i] \in {"QUEUED", "ORDER_ACCEPTED"}
  BY <1>2 DEF Backed
<1>3. CASE IngestAck
  <2>1. PICK a \in Ack : a = Head(acks) /\ AckIsTrue(a)
    BY <1>3, AckQueue DEF TypeOK, IngestAck, ReportsAreBacked, AckIsTrue
  <2>2. a.intent = i => Backed(i, a.status)'
    BY <2>1, BackedForGood DEF AckIsTrue
  <2>3. status'[i] = status[i] \/ (a.intent = i /\ status'[i] = a.status)
    BY <1>3, <2>1 DEF TypeOK, IngestAck, AfterAck, Ack
  <2>4. CASE a.intent = i /\ status'[i] = a.status
    BY <2>2, <2>4 DEF Backed, MayHaveBeenSent
  <2>5. QED
    BY <1>1, <2>3, <2>4
<1>4. CASE WorkerStep
  <2>1. status'[i] = status[i] \/ status'[i] = "QUEUED"
    BY <1>4 DEF TypeOK, WorkerStep, Dispatch, Submit, Select, WriteFile,
       MarkDelivered, DispatchFails, WorkerCrash
  <2>2. QED
    BY <1>1, <1>2, <2>1
<1>5. CASE AdapterStep \/ UNCHANGED vars
  BY <1>1, <1>5, AdapterFrame DEF vars
<1>6. CASE ReportStep /\ ~IngestAck
  BY <1>1, <1>2, <1>6 DEF TypeOK, ReportStep, Expire, OrderCallback,
     IngestOrderEvent, ReconcileTask, AckExpires
<1>7. QED
  BY <1>3, <1>4, <1>5, <1>6, StepKinds

\* Verdict, acknowledgements and statuses together.
LEMMA ReportsStayBacked ==
  ASSUME TypeOK, HandlesAFile, JournalGuardsCall, ReportsAreBacked, [Next]_vars
  PROVE  ReportsAreBacked'
  BY VerdictIsBacked, AcksAreBacked, StatusesAreBacked
     DEF ReportsAreBacked, AckIsTrue

\* The Worker accepts only orders that QMT has.
LEMMA EventsStayLive ==
  ASSUME TypeOK, HandlesAFile, ReportsAreBacked, EventsAreLive, [Next]_vars
  PROVE  EventsAreLive'
<1>1. CASE WorkerStep
  <2>1. \A i \in Intents : status'[i] = status[i] \/ status'[i] = "QUEUED"
    BY <1>1 DEF TypeOK, WorkerStep, Dispatch, Submit, Select, WriteFile,
       MarkDelivered, DispatchFails, WorkerCrash
  <2>2. QED
    BY <1>1, <2>1, WorkerFrame DEF EventsAreLive
<1>2. CASE AdapterStep
  <2>1. live \subseteq live' /\ (events' = events \/ events' = events \cup live)
    BY <1>2 DEF AdapterStep, Take, Picks, TakeExpired, TakeAttempted,
       TakeDuplicate, TakeRefused, TakeObserved, TakeLive, Poll,
       CallsPassorder, PassorderReturns, PassorderRaises, JournalCalled,
       Acknowledge, Archive, Reject, Bury, AdapterIoFails, RejectSilently,
       BuryFails, AdapterRestarts
  <2>2. QED
    BY <1>2, <2>1, AdapterFrame DEF EventsAreLive
<1>3. CASE IngestAck
  <2>1. Head(acks) \in Ack
    BY <1>3, AckQueue DEF TypeOK, IngestAck
  <2>2. \A i \in Intents : status'[i] = status[i] \/ status'[i] # "ORDER_ACCEPTED"
    BY <1>3, <2>1 DEF TypeOK, IngestAck, AfterAck, Ack, AckStatus
  <2>3. QED
    BY <1>3, <2>2 DEF EventsAreLive, IngestAck
<1>4. CASE ReportStep /\ ~IngestAck
  BY <1>4 DEF TypeOK, EventsAreLive, ReportStep, Expire, OrderCallback,
     IngestOrderEvent, ReconcileTask, AckExpires
<1>5. CASE UNCHANGED vars
  BY <1>5 DEF EventsAreLive, vars
<1>6. QED
  BY <1>1, <1>2, <1>3, <1>4, <1>5, StepKinds

\* The pause file is written only by the adapter, which then is elsewhere.
LEMMA PauseIsChecked ==
  ASSUME TypeOK, PausedIsNotSent, [Next]_vars
  PROVE  PausedIsNotSent'
<1>1. CASE WorkerStep \/ ReportStep \/ UNCHANGED vars
  BY <1>1, WorkerFrame, ReportFrame DEF PausedIsNotSent, vars
<1>2. ASSUME NEW i \in Intents, Take(i) PROVE PausedIsNotSent'
  BY <1>2 DEF PausedIsNotSent, Take, Picks, TakeExpired, TakeAttempted,
     TakeDuplicate, TakeRefused, TakeObserved, TakeLive
<1>3. CASE AdapterStep /\ ~ \E i \in Intents : Take(i)
  <2>1. apc' # "presubmit"
    BY <1>3 DEF AdapterStep, Poll, CallsPassorder, PassorderReturns,
       PassorderRaises, JournalCalled, Acknowledge, Archive, Reject, Bury,
       AdapterIoFails, RejectSilently, BuryFails, AdapterRestarts
  <2>2. QED
    BY <2>1 DEF PausedIsNotSent
<1>4. QED
  BY <1>1, <1>2, <1>3, StepKinds

\* No command leaves the outbox before its file is written, and no report
\* comes of a command that has no file.
LEMMA CommandsAreKept ==
  ASSUME TypeOK, HandlesAFile, MarksAWrittenRow, NoLostCommand,
         ReportsAreBacked, [Next]_vars
  PROVE  NoLostCommand'
<1> SUFFICES ASSUME NEW i \in Intents, cmd'[i] \notin {"NONE", "PENDING_DELIVERY"}
             PROVE  Handed(i)'
  BY DEF NoLostCommand
<1>1. CASE cmd'[i] = cmd[i]
  BY <1>1, HandedForGood DEF NoLostCommand
<1>2. ASSUME NEW t \in Threads, MarkDelivered(t) PROVE Handed(i)'
  <2>1. CASE at[t] = i
    BY <1>2, <2>1, HandedForGood, MarkAfterWrite DEF MarkDelivered, MarksAWrittenRow,
       Handed
  <2>2. CASE at[t] # i
    BY <1>1, <1>2, <2>2 DEF TypeOK, MarkDelivered
  <2>3. QED
    BY <2>1, <2>2
<1>3. CASE IngestAck
  <2>1. PICK a \in Ack : a = Head(acks) /\ AckIsTrue(a)
    BY <1>3, AckQueue DEF TypeOK, IngestAck, ReportsAreBacked, AckIsTrue
  <2>2. CASE a.intent = i
    BY <2>1, <2>2, HandedForGood DEF AckIsTrue
  <2>3. CASE a.intent # i
    BY <1>1, <1>3, <2>1, <2>3 DEF TypeOK, IngestAck, Ack
  <2>4. QED
    BY <2>2, <2>3
<1>4. CASE WorkerStep /\ ~ \E t \in Threads : MarkDelivered(t)
  <2>1. cmd'[i] \in {cmd[i], "PENDING_DELIVERY"}
    BY <1>4 DEF TypeOK, WorkerStep, Dispatch, Submit, Select, WriteFile,
       DispatchFails, WorkerCrash
  <2>2. QED
    BY <1>1, <2>1
<1>5. CASE AdapterStep \/ UNCHANGED vars
  BY <1>1, <1>5, AdapterFrame DEF vars
<1>6. CASE ReportStep /\ ~IngestAck
  BY <1>1, <1>6 DEF ReportStep, Expire, OrderCallback, IngestOrderEvent,
     ReconcileTask, AckExpires
<1>7. QED
  BY <1>2, <1>3, <1>4, <1>5, <1>6, StepKinds

-----------------------------------------------------------------------------
(* The invariant.                                                           *)

\* The inductive invariant holds initially.
LEMMA InitiallyIInv == Init => IInv
<1> SUFFICES ASSUME Init PROVE IInv
  OBVIOUS
<1>1. TypeOK
  <2>1. autoPause \in BOOLEAN
    BY DEF Init
  <2>2. acks \in Seq(Ack)
    BY DEF Init
  <2>3. NoIntent \in Intents \cup {NoIntent} /\ 0 \in Nat
    OBVIOUS
  <2>4. QED
    BY <2>1, <2>2, <2>3 DEF Init, TypeOK, Home
<1>2. HandlesAFile /\ PausedIsNotSent /\ EventsAreLive
  BY DEF Init, HandlesAFile, PausedIsNotSent, EventsAreLive
<1>3. MarksAWrittenRow /\ TracesAreCommitted
  BY DEF Init, MarksAWrittenRow, TracesAreCommitted, Home
<1>4. JournalGuardsCall /\ NoLostCommand
  BY DEF Init, JournalGuardsCall, NoLostCommand
<1>5. ReportsAreBacked
  BY DEF Init, ReportsAreBacked, Backed
<1>6. QED
  BY <1>1, <1>2, <1>3, <1>4, <1>5 DEF IInv

\* The inductive invariant is preserved by every step.
LEMMA IInvIsInductive == IInv /\ [Next]_vars => IInv'
  BY Types, AFileStays, MarkAfterWrite, CommitComesFirst, JournalFirst,
     CommandsAreKept, ReportsStayBacked, EventsStayLive, PauseIsChecked DEF IInv

\* The inductive invariant holds throughout: files, journal, acknowledgements,
\* statuses, events and the pause file fit together in every reachable state.
THEOREM Invariance == Spec => []IInv
<1>1. QED
  BY InitiallyIInv, IInvIsInductive, PTL DEF Spec

\* Every variable keeps its type, for all intents, threads and faults.
THEOREM TypeCorrectness == Spec => []TypeOK
<1>1. IInv => TypeOK
  BY DEF IInv
<1>2. QED
  BY <1>1, Invariance, PTL

\* passorder is called at most once for an intent, and only once its commit
\* is durable: over duplicate files, retries, crashes and expiry.
THEOREM AtMostOnce == Spec => []AtMostOnePassorder
<1>1. IInv => AtMostOnePassorder
  BY DEF IInv, AtMostOnePassorder, JournalGuardsCall, TracesAreCommitted,
     MayHaveBeenSent
<1>2. QED
  BY <1>1, Invariance, PTL

\* What the database says of an intent has happened.
THEOREM Evidence == Spec => []StatusIsEvidence
<1>1. IInv => StatusIsEvidence
  <2> SUFFICES ASSUME IInv, NEW i \in Intents
               PROVE  /\ status[i] = "ORDER_ACCEPTED" => i \in live
                      /\ status[i] = "SUBMIT_CALLED" => passed[i] = 1
                      /\ status[i] = "SUBMIT_UNKNOWN" => MayHaveBeenSent(i)
                      /\ status[i] = "OBSERVE_ONLY_ACKNOWLEDGED" => passed[i] = 0
    BY DEF StatusIsEvidence
  <2>1. Backed(i, status[i])
    BY DEF IInv, ReportsAreBacked
  <2>2. QED
    BY <2>1 DEF IInv, EventsAreLive, Backed, JournalGuardsCall, MayHaveBeenSent
<1>2. QED
  BY <1>1, Invariance, PTL

\* The outbox loses no command.
THEOREM Delivery == Spec => []NoLostCommand
<1>1. IInv => NoLostCommand
  BY DEF IInv
<1>2. QED
  BY <1>1, Invariance, PTL

\* passorder is called in one place, which no other step shares.
LEMMA OnlyOneCaller ==
  ASSUME [Next]_vars, ~CallsPassorder
  PROVE  passed' = passed
<1>1. CASE WorkerStep \/ ReportStep \/ UNCHANGED vars
  BY <1>1, WorkerFrame, ReportFrame DEF vars
<1>2. ASSUME NEW i \in Intents, Take(i) PROVE passed' = passed
  BY <1>2 DEF Take, Picks, TakeExpired, TakeAttempted, TakeDuplicate,
     TakeRefused, TakeObserved, TakeLive
<1>3. CASE AdapterStep /\ ~ \E i \in Intents : Take(i)
  BY <1>3 DEF AdapterStep, Poll, PassorderReturns, PassorderRaises,
     JournalCalled, Acknowledge, Archive, Reject, Bury, AdapterIoFails,
     RejectSilently, BuryFails, AdapterRestarts
<1>4. QED
  BY <1>1, <1>2, <1>3, StepKinds

\* Once an automatic order is reported unknown the permit is paused where the
\* adapter looks before it calls passorder, so that it does not call again.
THEOREM UnknownStops == Spec => UnknownStopsAuto
<1>1. ASSUME IInv, [Next]_vars, NEW i \in Intents, AutoUnknown(i),
             NEW j \in Intents, mode[j] = "LIMITED_AUTO"
      PROVE  passed'[j] = passed[j]
  <2>1. autoPause
    <3>1. CASE status[i] = "SUBMIT_UNKNOWN"
      BY <1>1, <3>1 DEF IInv, AutoUnknown, ReportsAreBacked, Backed
    <3>2. ASSUME NEW k \in 1..Len(acks),
                 acks[k] = [intent |-> i, status |-> "SUBMIT_UNKNOWN"]
          PROVE  autoPause
      <4>1. Backed(acks[k].intent, acks[k].status)
        BY <1>1 DEF IInv, ReportsAreBacked
      <4>2. QED
        BY <1>1, <3>2, <4>1 DEF AutoUnknown, Backed
    <3>3. QED
      BY <1>1, <3>1, <3>2 DEF AutoUnknown
  <2>2. CASE CallsPassorder
    <3>1. cur \in Intents /\ cur # j
      BY <1>1, <2>1, <2>2 DEF IInv, HandlesAFile, PausedIsNotSent, CallsPassorder
    <3>2. QED
      BY <2>2, <3>1 DEF CallsPassorder, IInv, TypeOK
  <2>3. QED
    BY <1>1, <2>2, OnlyOneCaller
<1>2. IInv /\ [Next]_vars =>
        [(\E i \in Intents : AutoUnknown(i)) =>
           \A j \in Intents : mode[j] = "LIMITED_AUTO" => passed'[j] = passed[j]]_vars
  BY <1>1
<1>3. QED
  BY <1>2, Invariance, PTL DEF Spec, UnknownStopsAuto

-----------------------------------------------------------------------------
(* Refinement.                                                              *)

\* The intent being attempted, as OneShotOrder sees it.
Attempting == IF apc = "presubmit" THEN cur ELSE NoIntent

\* A step that commits nothing, enters no attempt and leaves none stutters.
LEMMA Stutters ==
  ASSUME UNCHANGED <<journal, passed>>,
         UNCHANGED Attempting,
         \A i \in Intents : status[i] = "NONE" <=> status'[i] = "NONE"
  PROVE  UNCHANGED OneShot!absVars
<1>1. Stage' = Stage
  BY DEF Stage, MayHaveBeenSent
<1>2. QED
  BY <1>1 DEF OneShot!absVars, Attempting

\* The Worker's steps are commits of the one-shot order, or stutter.
LEMMA WorkerRefines ==
  ASSUME IInv, WorkerStep
  PROVE  [OneShot!Next]_(OneShot!absVars)
<1>1. ASSUME NEW t \in Threads, NEW i \in Intents, Submit(t, i)
      PROVE  OneShot!Commit(i)
  <2>1. journal[i] = "NONE"
    BY <1>1 DEF IInv, TracesAreCommitted, Submit
  <2>2. Stage[i] = "absent"
    BY <1>1 DEF Stage, Submit
  <2>3. Stage' = [Stage EXCEPT ![i] = "committed"]
    BY <1>1, <2>1 DEF IInv, TypeOK, Stage, Submit, MayHaveBeenSent
  <2>4. QED
    BY <1>1, <2>2, <2>3 DEF OneShot!Commit, Submit
<1>2. CASE status' = status
  BY <1>2, WorkerFrame, Stutters DEF Attempting
<1>3. QED
  BY <1>1, <1>2 DEF WorkerStep, Dispatch, Select, WriteFile, MarkDelivered,
     DispatchFails, WorkerCrash, OneShot!Next

\* Reports stutter: the one-shot order does not see them.
LEMMA ReportRefines ==
  ASSUME IInv, ReportStep
  PROVE  [OneShot!Next]_(OneShot!absVars)
<1> SUFFICES ASSUME NEW i \in Intents
             PROVE  status[i] = "NONE" <=> status'[i] = "NONE"
  BY ReportFrame, Stutters DEF Attempting
<1>1. CASE status' = status
  BY <1>1
<1>2. ASSUME NEW j \in Intents, IngestOrderEvent(j)
      PROVE  status[i] = "NONE" <=> status'[i] = "NONE"
  <2>1. status[j] # "NONE"
    BY <1>2 DEF IInv, EventsAreLive, TracesAreCommitted, IngestOrderEvent
  <2>2. QED
    BY <1>2, <2>1 DEF IInv, TypeOK, IngestOrderEvent
<1>3. CASE IngestAck
  <2>1. PICK a \in Ack : a = Head(acks) /\ Handed(a.intent)
    BY <1>3, AckQueue DEF IInv, TypeOK, IngestAck, ReportsAreBacked
  <2>2. status[a.intent] # "NONE"
    BY <2>1 DEF IInv, TypeOK, TracesAreCommitted, Handed, Ack
  <2>3. QED
    BY <1>3, <2>1, <2>2 DEF IInv, TypeOK, IngestAck, AfterAck, Ack, AckStatus
<1>4. QED
  BY <1>1, <1>2, <1>3 DEF ReportStep, Expire, OrderCallback, ReconcileTask, AckExpires

\* The adapter's steps are attempts, calls and withdrawals, or stutter.
LEMMA AdapterRefines ==
  ASSUME IInv, AdapterStep
  PROVE  [OneShot!Next]_(OneShot!absVars)
<1> UNCHANGED status
  BY AdapterFrame
<1>1. ASSUME NEW i \in Intents, TakeLive(i) PROVE OneShot!Attempt(i)
  <2>1. status[i] # "NONE"
    BY <1>1 DEF IInv, TypeOK, TracesAreCommitted, TakeLive, Picks
  <2>2. Stage[i] = "committed"
    BY <1>1, <2>1 DEF Stage, TakeLive, MayHaveBeenSent
  <2>3. Stage' = [Stage EXCEPT ![i] = "attempted"]
    BY <1>1, <2>1 DEF IInv, TypeOK, Stage, TakeLive, MayHaveBeenSent
  <2>4. QED
    BY <1>1, <2>2, <2>3 DEF OneShot!Attempt, TakeLive, Picks
<1>2. ASSUME NEW i \in Intents, Take(i), ~TakeLive(i)
      PROVE  UNCHANGED OneShot!absVars
  <2>1. UNCHANGED passed /\ apc # "presubmit" /\ apc' # "presubmit"
    BY <1>2 DEF Take, Picks, TakeExpired, TakeAttempted, TakeDuplicate,
       TakeRefused, TakeObserved
  <2>2. Stage' = Stage
    BY <1>2 DEF IInv, TypeOK, Stage, MayHaveBeenSent, Take, Picks, TakeExpired,
       TakeAttempted, TakeDuplicate, TakeRefused, TakeObserved
  <2>3. QED
    BY <2>1, <2>2 DEF OneShot!absVars
<1>3. ASSUME CallsPassorder, UNCHANGED journal, apc' # "presubmit"
      PROVE  \E i \in Intents : OneShot!Call(i)
  <2>1. cur \in Intents
    BY <1>3 DEF IInv, HandlesAFile, CallsPassorder
  <2>2. Stage' = Stage
    BY <1>3 DEF Stage, MayHaveBeenSent
  <2>3. QED
    BY <1>3, <2>1, <2>2 DEF OneShot!Call, CallsPassorder
<1>4. CASE JournalCalled
  <2>1. Stage' = Stage
    BY <1>4 DEF IInv, TypeOK, HandlesAFile, JournalGuardsCall, JournalCalled,
       Stage, MayHaveBeenSent
  <2>2. QED
    BY <1>4, <2>1 DEF OneShot!absVars, JournalCalled
<1>5. CASE AdapterRestarts
  <2>1. Stage' = Stage
    BY <1>5 DEF Stage, MayHaveBeenSent, AdapterRestarts
  <2>2. CASE apc = "presubmit"
    <3>1. cur # NoIntent
      BY <2>2 DEF IInv, HandlesAFile
    <3>2. QED
      BY <1>5, <2>1, <2>2, <3>1 DEF OneShot!Next, OneShot!GiveUp, AdapterRestarts
  <2>3. CASE apc # "presubmit"
    BY <1>5, <2>1, <2>3 DEF OneShot!absVars, AdapterRestarts
  <2>4. QED
    BY <2>2, <2>3
<1>6. CASE Acknowledge \/ Archive \/ Reject \/ Bury \/ AdapterIoFails
             \/ RejectSilently \/ BuryFails
  BY <1>6, Stutters DEF Attempting, Acknowledge, Archive, Reject, Bury,
     AdapterIoFails, RejectSilently, BuryFails
<1>7. CASE PassorderReturns \/ PassorderRaises
  BY <1>3, <1>7 DEF OneShot!Next, PassorderReturns, PassorderRaises, CallsPassorder
<1>8. QED
  BY <1>1, <1>2, <1>4, <1>5, <1>6, <1>7 DEF AdapterStep, Poll, OneShot!Next

\* Every step of Worker, adapter and QMT is a step of the one-shot order, or
\* none: files, threads, acknowledgements, retries and crashes are details.
THEOREM Refinement == Spec => ImplementsOneShot
<1>1. Init => OneShot!Init
  BY DEF Init, OneShot!Init, Stage
<1>2. IInv /\ [Next]_vars => [OneShot!Next]_(OneShot!absVars)
  <2>1. ASSUME UNCHANGED vars PROVE UNCHANGED OneShot!absVars
    BY <2>1, Stutters DEF vars, Attempting
  <2>2. QED
    BY <2>1, WorkerRefines, AdapterRefines, ReportRefines, StepKinds
<1>3. QED
  BY <1>1, <1>2, Invariance, PTL DEF Spec, ImplementsOneShot, OneShot!Spec
=============================================================================
