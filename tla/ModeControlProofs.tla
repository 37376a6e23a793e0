-------------------------- MODULE ModeControlProofs --------------------------
(***************************************************************************)
(* Theorems about ModeControl, for every set of accounts and of modes and  *)
(* every number of operations and faults.  IInv is the inductive           *)
(* invariant: the types, what the halt documents still to be written are,  *)
(* and what the files are in each phase of a mode change.                  *)
(***************************************************************************)
EXTENDS ModeControl, TLAPS

USE ModesAssumption, BoundsAssumption DEF opVars, haltVars, adVars, bounds

\* Unless they cross, the documents to be written say what the database says,
\* and an account's document says it or is one of them.
DocumentsAgree ==
  ~crossed =>
    /\ \A p \in Programs : \A w \in haltTodo[p] : w[2] = halted
    /\ \A a \in Accounts : haltFile[a] = halted \/ \E p \in Programs : <<a, halted>> \in haltTodo[p]

\* Files f are those of a bridge at rest.
Settled(f) ==
  ~lost => /\ \A a, b \in Accounts : f[a] = f[b]
           /\ ~halted /\ mode # "OBSERVE_ONLY" => \A a \in Accounts : f[a] = mode

AllTarget == \A a \in Accounts : file[a] = target

\* What a mode change has in its locals, phase by phase.  The second
\* synchronization of a start finds nothing to write.
ChangeInv ==
  /\ phase = "idle" => Settled(file)
  /\ phase = "read" => IF after = "recommit" THEN AllTarget ELSE Settled(file)
  /\ phase = "write" =>
       /\ \A a \in Accounts : file[a] = IF a \in attempted THEN target ELSE original[a]
       /\ \A a \in Accounts : a \notin todo => file[a] = target
       /\ after = "recommit" => todo = {}
       /\ after # "recommit" => Settled(original)
  /\ phase = "restore" =>
       /\ Settled(original)
       /\ ~lost => \A a \in Accounts : a \notin todo => file[a] = original[a]
  /\ phase = "commit" => AllTarget

\* A start that only synchronizes writes the mode of the database.
StartKeepsMode == phase # "idle" /\ after = "end" => halted \/ target = mode

\* TypeOK, by who changes what.
OperatorTypes ==
  /\ mode \in Modes
  /\ file \in [Accounts -> Modes] /\ original \in [Accounts -> Modes]
  /\ phase \in {"idle", "read", "write", "restore", "commit"}
  /\ target \in Modes
  /\ after \in {"end", "set", "commit", "recommit"}
  /\ todo \subseteq Accounts /\ attempted \subseteq Accounts
  /\ lost \in BOOLEAN

HaltTypes ==
  /\ halted \in BOOLEAN
  /\ haltFile \in [Accounts -> BOOLEAN]
  /\ haltTodo \in [Programs -> SUBSET (Accounts \X BOOLEAN)]
  /\ crossed \in BOOLEAN

AdapterTypes ==
  /\ profile \in [Accounts -> BOOLEAN] /\ edited \in [Accounts -> BOOLEAN]
  /\ running \in [Accounts -> BOOLEAN]
  /\ loaded \in [Accounts -> Modes]
  /\ initializing \in [Accounts -> BOOLEAN]
  /\ status \in [Accounts -> Statuses]
  /\ saved \in [Accounts -> Statuses \cup {"NONE"}]
  /\ badStart \in [Accounts -> BOOLEAN]

CommonTypes ==
  /\ unread \in [Accounts -> BOOLEAN]
  /\ operations \in 0..MaxOperations /\ faults \in 0..MaxFaults

IInv == TypeOK /\ DocumentsAgree /\ ChangeInv /\ StartKeepsMode

-----------------------------------------------------------------------------
(* The steps.                                                              *)

\* What adapters do, and who edits or repairs their settings, leaves files,
\* documents, database and operator alone.
LEMMA AdaptersLeaveAlone ==
  ASSUME NEW a \in Accounts, Adapter(a)
  PROVE  UNCHANGED <<mode, halted, file, haltFile, opVars, haltVars, operations, lost>>
  BY DEF Adapter, Scan, Reload, ReloadFails, AfterInit, AfterInitFails, Starts, StartFails, Edit, Repair, AdapterOnly

LEMMA TypeParts == TypeOK <=> OperatorTypes /\ HaltTypes /\ AdapterTypes /\ CommonTypes
  BY DEF TypeOK, OperatorTypes, HaltTypes, AdapterTypes, CommonTypes

LEMMA FaultsAreBounded == ASSUME CommonTypes, Fault PROVE faults' \in 0..MaxFaults
  BY DEF CommonTypes, Fault

LEMMA AdapterTypesStay ==
  ASSUME OperatorTypes, AdapterTypes, CommonTypes, NEW a \in Accounts, Adapter(a)
  PROVE  AdapterTypes' /\ CommonTypes'
<1> USE DEF OperatorTypes, AdapterTypes, CommonTypes, Statuses, Modes
<1>1. CASE Reload(a)
  BY <1>1 DEF Reload, AdapterOnly
<1>2. CASE ReloadFails(a)
  BY <1>2 DEF ReloadFails, AdapterOnly
<1>3. CASE AfterInit(a)
  BY <1>3 DEF AfterInit, AdapterOnly
<1>4. CASE Starts(a)
  BY <1>4, FaultsAreBounded DEF Starts, AdapterOnly
<1>5. CASE StartFails(a)
  <2>1. Loads(a) \in BOOLEAN
    BY DEF Loads
  <2>2. running' \in [Accounts -> BOOLEAN]
    BY <1>5, <2>1 DEF StartFails
  <2>3. QED
    BY <1>5, <2>2, FaultsAreBounded DEF StartFails, AdapterOnly
<1>6. CASE AfterInitFails(a)
  BY <1>6, FaultsAreBounded DEF AfterInitFails, AdapterOnly
<1>7. CASE Edit(a)
  BY <1>7, FaultsAreBounded DEF Edit, AdapterOnly
<1>8. CASE Repair(a)
  BY <1>8 DEF Repair, AdapterOnly
<1>9. QED
  BY <1>1, <1>2, <1>3, <1>4, <1>5, <1>6, <1>7, <1>8 DEF Adapter, Scan

\* A mode change does not touch the halt, its documents, nor the adapters.
LEMMA OperatorLeavesAlone ==
  ASSUME Operator
  PROVE  UNCHANGED <<halted, haltFile, profile, edited, haltVars, adVars>>
  BY DEF Operator, ConsoleSetMode, StartWith, StartAsIs, ReadFiles, Unchanged, WriteFile, Writes,
     WriteFails, RestoreFile, RestoreFails, Restored, Synced, CommitMode

LEMMA OperatorTypesStay ==
  ASSUME OperatorTypes, CommonTypes, Operator
  PROVE  OperatorTypes' /\ CommonTypes'
<1> USE DEF OperatorTypes, CommonTypes
<1>1. "OBSERVE_ONLY" \in Modes
  BY DEF Modes
<1>2. ASSUME NEW m \in Modes, ConsoleSetMode(m) \/ StartWith(m)
      PROVE  OperatorTypes' /\ CommonTypes'
  BY <1>2 DEF ConsoleSetMode, StartWith, Calls, Begins, Unchanged
<1>3. CASE StartAsIs
  BY <1>1, <1>3 DEF StartAsIs, Calls, Begins, Unchanged
<1>4. CASE ReadFiles
  BY <1>1, <1>4 DEF ReadFiles, EndOperation, Unchanged
<1>5. ASSUME NEW a \in Accounts, WriteFile(a) \/ RestoreFile(a) PROVE OperatorTypes' /\ CommonTypes'
  BY <1>5 DEF WriteFile, RestoreFile, Writes, bounds
<1>6. ASSUME NEW a \in Accounts, WriteFails(a) \/ RestoreFails(a) PROVE OperatorTypes' /\ CommonTypes'
  BY <1>6, FaultsAreBounded DEF WriteFails, RestoreFails
<1>7. CASE Restored \/ Synced
  BY <1>1, <1>7 DEF Restored, Synced, Calls, EndOperation, Unchanged
<1>8. CASE CommitMode
  BY <1>1, <1>8 DEF CommitMode, EndOperation
<1>9. QED
  BY <1>2, <1>3, <1>4, <1>5, <1>6, <1>7, <1>8 DEF Operator

\* Nor does a halt touch the files and the adapters; it is cleared, and the mode
\* changed by that, only between two mode changes.
LEMMA HaltingLeavesAlone ==
  ASSUME Halting
  PROVE  /\ UNCHANGED <<file, profile, edited, adVars, unread>>
         /\ \/ UNCHANGED <<opVars, lost>>
            \/ EndOperation /\ lost'
         /\ \/ mode' = mode /\ (halted => halted')
            \/ phase = "idle" /\ mode' = "OBSERVE_ONLY"
<1>1. ASSUME NEW p \in Programs, Halt(p)
      PROVE  UNCHANGED <<file, profile, edited, adVars, unread, opVars, lost, mode>> /\ halted'
  BY <1>1 DEF Halt, Documents
<1>2. CASE ClearHalt
  BY <1>2 DEF ClearHalt, Documents
<1>3. ASSUME NEW p \in Programs, Stops(p)
      PROVE  /\ UNCHANGED <<file, profile, edited, adVars, unread, mode, halted>>
             /\ UNCHANGED <<opVars, lost>> \/ (EndOperation /\ lost')
  BY <1>3 DEF Stops
<1>4. ASSUME NEW p \in Programs, NEW w \in haltTodo[p], WriteHaltFile(p, w)
      PROVE  UNCHANGED <<file, profile, edited, adVars, unread, opVars, lost, mode, halted>>
  BY <1>4 DEF WriteHaltFile
<1>5. QED
  BY <1>1, <1>2, <1>3, <1>4 DEF Halting

LEMMA HaltTypesStay ==
  ASSUME OperatorTypes, HaltTypes, CommonTypes, Halting
  PROVE  OperatorTypes' /\ HaltTypes' /\ CommonTypes'
<1> USE DEF OperatorTypes, HaltTypes, CommonTypes
<1>1. "OBSERVE_ONLY" \in Modes
  BY DEF Modes
<1>2. ASSUME NEW p \in Programs, NEW value \in BOOLEAN, Documents(p, value), Begins,
             halted' \in BOOLEAN, mode' \in Modes
      PROVE  OperatorTypes' /\ HaltTypes' /\ CommonTypes'
  BY <1>2 DEF Documents, Begins
<1>3. CASE ClearHalt \/ \E p \in Programs : Halt(p)
  BY <1>1, <1>2, <1>3 DEF ClearHalt, Halt, Programs
<1>4. ASSUME NEW p \in Programs, Stops(p) PROVE OperatorTypes' /\ HaltTypes' /\ CommonTypes'
  BY <1>1, <1>4, FaultsAreBounded DEF Stops, EndOperation
<1>5. ASSUME NEW p \in Programs, NEW w \in haltTodo[p], WriteHaltFile(p, w)
      PROVE  OperatorTypes' /\ HaltTypes' /\ CommonTypes'
  <2>1. w \in Accounts \X BOOLEAN
    BY <1>5
  <2>2. w[1] \in Accounts /\ w[2] \in BOOLEAN
    BY <2>1
  <2>3. QED
    BY <1>5, <2>2 DEF WriteHaltFile, bounds
<1>6. QED
  BY <1>3, <1>4, <1>5 DEF Halting
LEMMA TypesStay == ASSUME TypeOK, Next PROVE TypeOK'
<1>1. OperatorTypes /\ HaltTypes /\ AdapterTypes /\ CommonTypes
  BY TypeParts
<1>2. CASE Operator
  <2>1. HaltTypes' /\ AdapterTypes'
    BY <1>1, <1>2, OperatorLeavesAlone DEF HaltTypes, AdapterTypes
  <2>2. OperatorTypes' /\ CommonTypes'
    BY <1>1, <1>2, OperatorTypesStay
  <2>3. QED
    BY <2>1, <2>2 DEF TypeOK, OperatorTypes, HaltTypes, AdapterTypes, CommonTypes
<1>3. CASE Halting
  <2>1. AdapterTypes'
    BY <1>1, <1>3, HaltingLeavesAlone DEF AdapterTypes
  <2>2. OperatorTypes' /\ HaltTypes' /\ CommonTypes'
    BY <1>1, <1>3, HaltTypesStay
  <2>3. QED
    BY <2>1, <2>2 DEF TypeOK, OperatorTypes, HaltTypes, AdapterTypes, CommonTypes
<1>4. ASSUME NEW a \in Accounts, Adapter(a) PROVE TypeOK'
  <2>1. OperatorTypes' /\ HaltTypes'
    BY <1>1, <1>4, AdaptersLeaveAlone DEF OperatorTypes, HaltTypes
  <2>2. AdapterTypes' /\ CommonTypes'
    BY <1>1, <1>4, AdapterTypesStay
  <2>3. QED
    BY <2>1, <2>2 DEF TypeOK, OperatorTypes, HaltTypes, AdapterTypes, CommonTypes
<1>5. QED
  BY <1>2, <1>3, <1>4 DEF Next

\* A writer that begins has all accounts before it, and marks a contradiction
\* with what another still writes; one that goes on writes what the database says.
LEMMA DocumentsStay == ASSUME TypeOK, DocumentsAgree, Next PROVE DocumentsAgree'
<1>1. CASE UNCHANGED <<halted, haltFile, haltTodo, crossed>>
  BY <1>1 DEF DocumentsAgree
<1>2. ASSUME NEW p \in Programs, NEW value \in BOOLEAN, Documents(p, value), halted' = value
      PROVE  DocumentsAgree'
  <2> SUFFICES ASSUME ~crossed' PROVE DocumentsAgree'
    BY DEF DocumentsAgree
  <2>1. haltTodo'[p] = Accounts \X {value} /\ \A q \in Programs \ {p} : haltTodo'[q] = haltTodo[q]
    BY <1>2 DEF Documents, TypeOK
  <2>2. \A q \in Programs : \A w \in haltTodo[q] : w[2] = value
    BY <1>2 DEF Documents, TypeOK
  <2>3. \A q \in Programs : \A w \in haltTodo'[q] : w[2] = value
    BY <2>1, <2>2
  <2>4. \A a \in Accounts : <<a, value>> \in haltTodo'[p]
    BY <2>1
  <2>5. QED
    BY <1>2, <2>3, <2>4 DEF DocumentsAgree
<1>3. ASSUME NEW p \in Programs, Halt(p) PROVE DocumentsAgree'
  BY <1>2, <1>3 DEF Halt
<1>4. CASE ClearHalt
  BY <1>2, <1>4 DEF ClearHalt, Programs
<1>5. ASSUME NEW p \in Programs, Stops(p) PROVE DocumentsAgree'
  BY <1>1, <1>5 DEF Stops, DocumentsAgree
<1>6. ASSUME NEW p \in Programs, NEW w \in haltTodo[p], WriteHaltFile(p, w) PROVE DocumentsAgree'
  <2> SUFFICES ASSUME ~crossed PROVE DocumentsAgree'
    BY <1>6 DEF DocumentsAgree, WriteHaltFile
  <2>1. w \in Accounts \X BOOLEAN /\ w[2] = halted
    BY <1>6 DEF TypeOK, DocumentsAgree
  <2>2. w[1] \in Accounts /\ w = <<w[1], halted>>
    BY <2>1
  <2>3. /\ haltTodo'[p] = haltTodo[p] \ {w} /\ \A q \in Programs \ {p} : haltTodo'[q] = haltTodo[q]
        /\ haltFile'[w[1]] = halted /\ \A a \in Accounts \ {w[1]} : haltFile'[a] = haltFile[a]
        /\ halted' = halted /\ crossed' = crossed
    BY <1>6, <2>1, <2>2 DEF WriteHaltFile, TypeOK
  <2>4. \A q \in Programs : \A x \in haltTodo'[q] : x[2] = halted
    BY <2>3 DEF DocumentsAgree
  <2>5. ASSUME NEW a \in Accounts, a # w[1]
        PROVE  haltFile'[a] = halted \/ \E q \in Programs : <<a, halted>> \in haltTodo'[q]
    <3>1. CASE haltFile[a] = halted
      BY <2>3, <2>5, <3>1
    <3>2. ASSUME NEW q \in Programs, <<a, halted>> \in haltTodo[q] PROVE <<a, halted>> \in haltTodo'[q]
      BY <2>2, <2>3, <2>5, <3>2
    <3>3. QED
      BY <2>5, <3>1, <3>2 DEF DocumentsAgree
  <2>6. QED
    BY <2>3, <2>4, <2>5 DEF DocumentsAgree
<1>7. ASSUME NEW a \in Accounts, Adapter(a) PROVE DocumentsAgree'
  BY <1>1, <1>7, AdaptersLeaveAlone
<1>8. CASE Operator
  BY <1>1, <1>8, OperatorLeavesAlone
<1>9. QED
  BY <1>3, <1>4, <1>5, <1>6, <1>7, <1>8 DEF Next, Halting

-----------------------------------------------------------------------------
(* Mode changes.                                                           *)

\* Every step of a mode change has its part in ChangeInv; a halt in the middle
\* of one only weakens what it owes to the database.
LEMMA ChangeStays == ASSUME TypeOK, ChangeInv, StartKeepsMode, Next PROVE ChangeInv'
<1>1. CASE Operator
  <2> halted' = halted
    BY <1>1, OperatorLeavesAlone
  <2>1. ASSUME OperatorIdle, NEW m, NEW n \in {"end", "set", "commit"}, Calls(m, n), Unchanged,
               UNCHANGED lost
        PROVE  ChangeInv'
    BY <2>1 DEF OperatorIdle, Calls, Unchanged, ChangeInv, Settled
  <2>2. ASSUME NEW m \in Modes, ConsoleSetMode(m) \/ StartWith(m) PROVE ChangeInv'
    BY <2>1, <2>2 DEF ConsoleSetMode, StartWith
  <2>3. CASE StartAsIs
    BY <2>1, <2>3 DEF StartAsIs
  <2>4. CASE ReadFiles
    <3>1. phase = "read" /\ UNCHANGED <<mode, file>>
      BY <2>4 DEF ReadFiles, Unchanged
    <3>2. CASE /\ phase' = "write" /\ original' = file /\ todo' = {a \in Accounts : file[a] # target}
               /\ attempted' = {} /\ UNCHANGED <<target, after, lost>>
      <4>1. \A a \in Accounts : a \notin todo' => file[a] = target
        BY <3>2
      <4>2. after = "recommit" => todo' = {}
        BY <3>1, <3>2 DEF ChangeInv, AllTarget
      <4>3. after # "recommit" => Settled(file)
        BY <3>1 DEF ChangeInv
      <4>4. QED
        BY <3>1, <3>2, <4>1, <4>2, <4>3 DEF ChangeInv, Settled
    <3>3. CASE EndOperation /\ lost' = (lost \/ after = "recommit")
      BY <3>1, <3>3 DEF EndOperation, ChangeInv, Settled
    <3>4. QED
      BY <2>4, <3>2, <3>3 DEF ReadFiles
  <2>5. ASSUME NEW a \in Accounts, WriteFile(a) PROVE ChangeInv'
    <3>1. /\ file' = [file EXCEPT ![a] = target] /\ todo' = todo \ {a} /\ attempted' = attempted \cup {a}
          /\ phase = "write" /\ a \in todo
          /\ UNCHANGED <<phase, target, after, original, mode, lost>>
      BY <2>5 DEF WriteFile, Writes
    <3>2. after # "recommit"
      BY <3>1 DEF ChangeInv
    <3>3. \A b \in Accounts : file'[b] = IF b = a THEN target ELSE file[b]
      BY <3>1 DEF TypeOK
    <3>4. QED
      BY <3>1, <3>2, <3>3 DEF ChangeInv, Settled
  <2>6. ASSUME NEW a \in Accounts, WriteFails(a) PROVE ChangeInv'
    BY <2>6 DEF WriteFails, ChangeInv, Settled
  <2>7. ASSUME NEW a \in Accounts, RestoreFile(a) PROVE ChangeInv'
    <3>1. /\ file' = [file EXCEPT ![a] = original[a]] /\ todo' = todo \ {a} /\ phase = "restore"
          /\ UNCHANGED <<phase, target, after, original, mode, lost>>
      BY <2>7 DEF RestoreFile, Writes
    <3>2. \A b \in Accounts : file'[b] = IF b = a THEN original[a] ELSE file[b]
      BY <3>1 DEF TypeOK
    <3>3. QED
      BY <3>1, <3>2 DEF ChangeInv, Settled
  <2>8. ASSUME NEW a \in Accounts, RestoreFails(a) PROVE ChangeInv'
    BY <2>8 DEF RestoreFails, ChangeInv, Settled
  <2>9. CASE Restored
    BY <2>9 DEF Restored, EndOperation, Unchanged, ChangeInv, Settled
  <2>10. CASE Synced
    <3>1. AllTarget /\ phase = "write"
      BY <2>10 DEF Synced, ChangeInv, AllTarget
    <3>2. CASE after = "end"
      BY <2>10, <3>1, <3>2 DEF Synced, EndOperation, Unchanged, ChangeInv, Settled, AllTarget, StartKeepsMode
    <3>3. CASE after # "end"
      BY <2>10, <3>1, <3>3 DEF Synced, Calls, Unchanged, ChangeInv, AllTarget
    <3>4. QED
      BY <3>2, <3>3
  <2>11. CASE CommitMode
    BY <2>11 DEF CommitMode, EndOperation, ChangeInv, Settled, AllTarget
  <2>12. QED
    BY <1>1, <2>2, <2>3, <2>4, <2>5, <2>6, <2>7, <2>8, <2>9, <2>10, <2>11 DEF Operator
<1>2. CASE Halting
  <2>1. CASE UNCHANGED <<opVars, lost>>
    <3>1. /\ UNCHANGED <<file, opVars, lost>>
          /\ (mode' = mode /\ (halted => halted')) \/ mode' = "OBSERVE_ONLY"
      BY <1>2, <2>1, HaltingLeavesAlone
    <3>2. (Settled(file) => Settled(file)') /\ (Settled(original) => Settled(original)')
      BY <3>1 DEF Settled
    <3>3. QED
      BY <3>1, <3>2 DEF ChangeInv, AllTarget
  <2>2. CASE EndOperation /\ lost'
    BY <2>2 DEF EndOperation, ChangeInv, Settled
  <2>3. QED
    BY <1>2, <2>1, <2>2, HaltingLeavesAlone
<1>3. ASSUME NEW a \in Accounts, Adapter(a) PROVE ChangeInv'
  BY <1>3, AdaptersLeaveAlone DEF ChangeInv, Settled, AllTarget
<1>4. QED
  BY <1>1, <1>2, <1>3 DEF Next

LEMMA StartStays == ASSUME TypeOK, StartKeepsMode, Next PROVE StartKeepsMode'
<1>1. CASE Operator
  <2>1. ASSUME NEW m \in Modes, ConsoleSetMode(m) \/ StartWith(m) \/ StartAsIs PROVE StartKeepsMode'
    BY <2>1 DEF ConsoleSetMode, StartWith, StartAsIs, Calls, Unchanged, StartKeepsMode
  <2>2. CASE ReadFiles \/ Restored \/ Synced \/ CommitMode
    BY <2>2 DEF ReadFiles, Restored, Synced, Calls, CommitMode, EndOperation, Unchanged, StartKeepsMode
  <2>3. ASSUME NEW a \in Accounts, WriteFile(a) \/ WriteFails(a) \/ RestoreFile(a) \/ RestoreFails(a)
        PROVE  StartKeepsMode'
    BY <2>3 DEF WriteFile, WriteFails, RestoreFile, RestoreFails, Writes, StartKeepsMode
  <2>4. "OBSERVE_ONLY" \in Modes
    BY DEF Modes
  <2>5. QED
    BY <1>1, <2>1, <2>2, <2>3, <2>4 DEF Operator
<1>2. CASE Halting
  BY <1>2, HaltingLeavesAlone DEF EndOperation, StartKeepsMode
<1>3. ASSUME NEW a \in Accounts, Adapter(a) PROVE StartKeepsMode'
  BY <1>3, AdaptersLeaveAlone DEF StartKeepsMode
<1>4. QED
  BY <1>1, <1>2, <1>3 DEF Next

-----------------------------------------------------------------------------
(* The theorems.                                                           *)

LEMMA Initially == ASSUME Init PROVE IInv
<1>1. TypeOK
  <2>1. "OBSERVE_ONLY" \in Modes
    BY DEF Modes
  <2>2. OperatorTypes
    BY <2>1 DEF Init, OperatorTypes
  <2>3. HaltTypes
    BY DEF Init, HaltTypes
  <2>4. AdapterTypes
    BY DEF Init, AdapterTypes, Statuses
  <2>5. CommonTypes
    BY DEF Init, CommonTypes
  <2>6. QED
    BY <2>2, <2>3, <2>4, <2>5, TypeParts
<1>2. DocumentsAgree
  BY DEF Init, DocumentsAgree
<1>3. ChangeInv /\ StartKeepsMode
  BY DEF Init, ChangeInv, StartKeepsMode, Settled
<1>4. QED
  BY <1>1, <1>2, <1>3 DEF IInv

LEMMA StutterKeeps == ASSUME IInv, UNCHANGED vars PROVE IInv'
<1> USE DEF IInv, vars
<1>1. TypeOK'
  BY DEF TypeOK
<1>2. DocumentsAgree' /\ ChangeInv' /\ StartKeepsMode'
  BY DEF DocumentsAgree, ChangeInv, Settled, AllTarget, StartKeepsMode
<1>3. QED
  BY <1>1, <1>2

\* IInv is inductive: what database, configurations and halt documents are to
\* each other at every point of a mode change, a restoration and a halt.
THEOREM ModeInvariance == Spec => []IInv
<1>1. IInv /\ [Next]_vars => IInv'
  BY TypesStay, DocumentsStay, ChangeStays, StartStays, StutterKeeps DEF IInv
<1>2. QED
  BY Initially, <1>1, PTL DEF Spec

\* Every variable of operator, Worker and adapters keeps its type.
THEOREM ModeTypeCorrectness == Spec => []TypeOK
<1>1. IInv => TypeOK
  BY DEF IInv
<1>2. QED
  BY <1>1, ModeInvariance, PTL

\* What _write_halt_files and write_adapter_halt leave in every adapter's
\* directory is what system_state says, unless two writers contradicted each
\* other or one was cut off.
THEOREM HaltsReach == Spec => []HaltReachesAdapters
<1>1. IInv => HaltReachesAdapters
  <2> SUFFICES ASSUME IInv, \A p \in Programs : haltTodo[p] = {}, ~crossed, NEW a \in Accounts
               PROVE  haltFile[a] = halted
    BY DEF HaltReachesAdapters
  <2>1. \A p \in Programs : <<a, halted>> \notin haltTodo[p]
    OBVIOUS
  <2>2. QED
    BY <2>1 DEF IInv, DocumentsAgree
<1>2. QED
  BY <1>1, ModeInvariance, PTL

\* A Worker that may trade has adapters of its mode after any sequence of mode
\* changes, failing writes, halts and clearings (manager.py: sync_adapter_modes
\* and select_start_mode, console.py: set-mode).
THEOREM ModesSynced == Spec => []WorkerModeIsSynced
<1>1. IInv => WorkerModeIsSynced
  BY DEF IInv, ChangeInv, Settled, WorkerModeIsSynced
<1>2. QED
  BY <1>1, ModeInvariance, PTL

\* sync_adapter_modes changes the mode of all accounts or of none.
THEOREM ModesAgree == Spec => []AccountsAgree
<1>1. IInv => AccountsAgree
  BY DEF IInv, ChangeInv, Settled, AccountsAgree
<1>2. QED
  BY <1>1, ModeInvariance, PTL

=============================================================================
