---------------------------- MODULE ModeControl ----------------------------
(***************************************************************************)
(* The run mode and the halt, in the three places that keep them: the      *)
(* Worker's database, the configuration and halt files of every account's  *)
(* adapter, and the memory of the adapters.                                *)
(*                                                                         *)
(* The operator's programs (the launcher's select_start_mode, the console) *)
(* change the mode by writing qmt_mode into the configuration of one       *)
(* account after the other and then the database; if a write fails they    *)
(* restore what they wrote.  halt_trading runs in the Worker at any time.  *)
(* An adapter rereads its configuration before each scan for commands.     *)
(*                                                                         *)
(* Abstractions.  The operator does one thing at a time, and the Worker    *)
(* may be running meanwhile.  Files are read for all accounts in one step, *)
(* written one by one.  The accounts are the enabled ones; `edited` is a   *)
(* change of any other setting, made between two mode changes.  Permits,   *)
(* sessions and authorizations, which a mode change and a halt end, are in *)
(* AutoPermit and Submission.                                              *)
(***************************************************************************)
EXTENDS Naturals, FiniteSets

CONSTANTS
  Accounts,      \* the enabled accounts
  TradingModes,  \* the modes other than OBSERVE_ONLY
  MaxOperations, \* bound on what operator and Worker begin
  MaxFaults      \* bound on failing writes, crashes, edits and restarts

ASSUME ModesAssumption == "OBSERVE_ONLY" \notin TradingModes
ASSUME BoundsAssumption == MaxOperations \in Nat /\ MaxFaults \in Nat

Modes == {"OBSERVE_ONLY"} \cup TradingModes
Programs == {"operator", "worker"}
Statuses == {"RECOVERING", "READY", "ERROR"}

VARIABLES
  mode,        \* system_state.mode
  halted,      \* system_state.halted
  file,        \* file[a]: qmt_mode in qmt_adapter.json
  haltFile,    \* haltFile[a]: local_halt.json says halted
  profile,     \* profile[a]: the mapping profile is signed and verified
  edited,      \* edited[a]: other settings changed since the adapter started
  \* the operator's mode change
  phase,       \* "idle", "read", "write", "restore" or "commit"
  target,      \* the mode to write
  after,       \* what follows the writes: "end", "set", "commit" or "recommit"
  todo,        \* accounts whose file is still to be written or restored
  original,    \* the modes read before the first write
  attempted,   \* accounts whose file may have been written
  \* halt documents to write
  haltTodo,    \* haltTodo[p]: pairs of an account and what is to be written
  \* the adapters
  running,     \* running[a]: the strategy is loaded in QMT
  initializing,\* initializing[a]: after_init is still to be called
  loaded,      \* loaded[a]: qmt_mode in memory
  unread,      \* unread[a]: the file was written since it was loaded
  status,      \* status[a]: reported in the heartbeat
  saved,       \* saved[a]: the status before the reload that failed, or "NONE"
  \* history
  operations,
  faults,
  crossed,     \* halt documents may disagree: a halt and its clearing
               \* overlapped, or their writer stopped half way
  lost,        \* modes may disagree: the operator's program stopped half way
               \* or was refused half way, or a restoring write failed
  badStart     \* badStart[a]: init or after_init failed, or a reload in between

opVars   == <<phase, target, after, todo, original, attempted>>
haltVars == <<haltTodo, crossed>>
adVars   == <<running, loaded, initializing, status, saved, badStart>>
bounds   == <<operations, faults>>
vars == <<mode, halted, file, haltFile, profile, edited, opVars, haltVars,
          adVars, unread, bounds, lost>>

TypeOK ==
  /\ mode \in Modes /\ halted \in BOOLEAN
  /\ file \in [Accounts -> Modes] /\ original \in [Accounts -> Modes]
  /\ haltFile \in [Accounts -> BOOLEAN]
  /\ profile \in [Accounts -> BOOLEAN] /\ edited \in [Accounts -> BOOLEAN]
  /\ phase \in {"idle", "read", "write", "restore", "commit"}
  /\ target \in Modes
  /\ after \in {"end", "set", "commit", "recommit"}
  /\ todo \subseteq Accounts /\ attempted \subseteq Accounts
  /\ haltTodo \in [Programs -> SUBSET (Accounts \X BOOLEAN)]
  /\ running \in [Accounts -> BOOLEAN] /\ unread \in [Accounts -> BOOLEAN]
  /\ loaded \in [Accounts -> Modes]
  /\ initializing \in [Accounts -> BOOLEAN]
  /\ status \in [Accounts -> Statuses]
  /\ saved \in [Accounts -> Statuses \cup {"NONE"}]
  /\ operations \in 0..MaxOperations /\ faults \in 0..MaxFaults
  /\ crossed \in BOOLEAN /\ lost \in BOOLEAN
  /\ badStart \in [Accounts -> BOOLEAN]

Init ==
  /\ mode \in Modes
  /\ halted = FALSE
  /\ file = [a \in Accounts |-> mode]
  /\ haltFile = [a \in Accounts |-> FALSE]
  /\ profile = [a \in Accounts |-> TRUE]
  /\ edited = [a \in Accounts |-> FALSE]
  /\ phase = "idle" /\ target = "OBSERVE_ONLY" /\ after = "end"
  /\ todo = {} /\ attempted = {}
  /\ original = [a \in Accounts |-> "OBSERVE_ONLY"]
  /\ haltTodo = [p \in Programs |-> {}]
  /\ running = [a \in Accounts |-> TRUE]
  /\ loaded = file
  /\ unread = [a \in Accounts |-> FALSE]
  /\ initializing = [a \in Accounts |-> FALSE]
  /\ status = [a \in Accounts |-> "READY"]
  /\ saved = [a \in Accounts |-> "NONE"]
  /\ operations = 0 /\ faults = 0
  /\ crossed = FALSE /\ lost = FALSE
  /\ badStart = [a \in Accounts |-> FALSE]

Begins == operations < MaxOperations /\ operations' = operations + 1
Fault == faults < MaxFaults /\ faults' = faults + 1

-----------------------------------------------------------------------------
(* The operator changes the mode.                                          *)

OperatorIdle == phase = "idle" /\ haltTodo["operator"] = {}

Unchanged == UNCHANGED <<mode, halted, file, haltFile, profile, edited, haltVars,
                         adVars, unread, faults>>

\* sync_adapter_modes(m) is called, and then what n says.
Calls(m, n) ==
  /\ phase' = "read"
  /\ target' = m
  /\ after' = n
  /\ UNCHANGED <<todo, original, attempted>>

\* The call returns or raises, and its locals with it.
EndOperation ==
  /\ phase' = "idle" /\ target' = "OBSERVE_ONLY" /\ after' = "end"
  /\ todo' = {} /\ attempted' = {}
  /\ original' = [a \in Accounts |-> "OBSERVE_ONLY"]

\* console set-mode
ConsoleSetMode(m) ==
  /\ OperatorIdle /\ Begins
  /\ Calls(m, "commit")
  /\ Unchanged /\ UNCHANGED lost

\* select_start_mode with a request: a halted bridge refuses it.
StartWith(m) ==
  /\ OperatorIdle /\ Begins
  /\ ~halted
  /\ Calls(m, IF m = mode THEN "end" ELSE "set")
  /\ Unchanged /\ UNCHANGED lost

\* select_start_mode without one.
StartAsIs ==
  /\ OperatorIdle /\ Begins
  /\ Calls(IF halted THEN "OBSERVE_ONLY" ELSE mode, "end")
  /\ Unchanged /\ UNCHANGED lost

\* The accounts are checked before any is changed.
Checked == target = "OBSERVE_ONLY" \/ \A a \in Accounts : profile[a]

\* A refusal of set-mode's own synchronization, after the one of the start,
\* leaves the files at a mode that the database does not have.
ReadFiles ==
  /\ phase = "read"
  /\ \/ /\ Checked
        /\ phase' = "write"
        /\ original' = file
        /\ todo' = {a \in Accounts : file[a] # target}
        /\ attempted' = {}
        /\ UNCHANGED <<target, after, lost>>
     \/ /\ ~Checked
        /\ EndOperation
        /\ lost' = (lost \/ after = "recommit")
  /\ Unchanged /\ UNCHANGED operations

Writes(a, m) ==
  /\ file' = [file EXCEPT ![a] = m]
  /\ unread' = [unread EXCEPT ![a] = TRUE]
  /\ UNCHANGED <<mode, halted, haltFile, profile, edited, haltVars, adVars,
                 bounds, lost>>

WriteFile(a) ==
  /\ phase = "write" /\ a \in todo
  /\ Writes(a, target)
  /\ todo' = todo \ {a}
  /\ attempted' = attempted \cup {a}
  /\ UNCHANGED <<phase, target, after, original>>

\* Mutant: a failing write ends the operation and what was written remains.
WriteFailsUnrestored(a) ==
  /\ phase = "write" /\ a \in todo
  /\ Fault
  /\ EndOperation
  /\ UNCHANGED <<mode, halted, file, haltFile, profile, edited, haltVars,
                 adVars, unread, operations, lost>>

\* An OSError: everything attempted is restored.
WriteFails(a) ==
  /\ phase = "write" /\ a \in todo
  /\ Fault
  /\ phase' = "restore"
  /\ todo' = attempted \cup {a}
  /\ UNCHANGED <<mode, halted, file, haltFile, profile, edited, target, after, original,
                 attempted, haltVars, adVars, unread, operations, lost>>

RestoreFile(a) ==
  /\ phase = "restore" /\ a \in todo
  /\ Writes(a, original[a])
  /\ todo' = todo \ {a}
  /\ UNCHANGED <<phase, target, after, original, attempted>>

\* The error is reported and the other accounts are restored all the same.
RestoreFails(a) ==
  /\ phase = "restore" /\ a \in todo
  /\ Fault
  /\ lost' = TRUE
  /\ todo' = todo \ {a}
  /\ UNCHANGED <<mode, halted, file, haltFile, profile, edited, phase, target, after,
                 original, attempted, haltVars, adVars, unread, operations>>

Restored ==
  /\ phase = "restore" /\ todo = {}
  /\ EndOperation
  /\ Unchanged /\ UNCHANGED <<operations, lost>>

\* All files say the target: the start is over, or set-mode begins with its own
\* synchronization, or it goes on to the database.
Synced ==
  /\ phase = "write" /\ todo = {}
  /\ \/ /\ after = "end"
        /\ EndOperation
        /\ lost' = FALSE
     \/ /\ after = "set"
        /\ Calls(target, "recommit")
        /\ UNCHANGED lost
     \/ /\ after \in {"commit", "recommit"}
        /\ phase' = "commit"
        /\ UNCHANGED <<target, after, todo, original, attempted, lost>>
  /\ Unchanged /\ UNCHANGED operations

\* The transaction of set-mode, which a halt refuses.
CommitMode ==
  /\ phase = "commit"
  /\ mode' = IF halted THEN mode ELSE target
  /\ EndOperation
  /\ lost' = FALSE
  /\ UNCHANGED <<halted, file, haltFile, profile, edited, haltVars, adVars, unread,
                 bounds>>

\* A program is closed or dies half way.
Stops(p) ==
  /\ Fault
  /\ \/ /\ p = "operator" /\ phase # "idle"
        /\ EndOperation
        /\ lost' = TRUE
        /\ UNCHANGED <<haltTodo, crossed>>
     \/ /\ haltTodo[p] # {}
        /\ haltTodo' = [haltTodo EXCEPT ![p] = {}]
        /\ crossed' = TRUE
        /\ UNCHANGED <<opVars, lost>>
  /\ UNCHANGED <<mode, halted, file, haltFile, profile, edited, adVars, unread,
                 operations>>

-----------------------------------------------------------------------------
(* Halt and clear-halt.                                                    *)

\* p goes on to write the halt document of every account.
Documents(p, value) ==
  /\ haltTodo[p] = {}
  /\ p = "operator" => phase = "idle"
  /\ haltTodo' = [haltTodo EXCEPT ![p] = Accounts \X {value}]
  /\ crossed' = \E q \in Programs : \E w \in haltTodo[q] : crossed \/ w[2] # value
  /\ UNCHANGED <<file, haltFile, profile, edited, opVars, adVars, unread, faults, lost>>

\* halt_trading in the Worker, or the console's halt.
Halt(p) ==
  /\ Begins
  /\ halted' = TRUE
  /\ Documents(p, TRUE)
  /\ UNCHANGED mode

\* Mutant: the mode survives the halt.
ClearHaltKeepsMode ==
  /\ halted /\ Begins
  /\ halted' = FALSE
  /\ Documents("operator", FALSE)
  /\ UNCHANGED mode

\* console clear-halt: the adapters' configuration is not synchronized.
ClearHalt ==
  /\ halted /\ Begins
  /\ halted' = FALSE
  /\ mode' = "OBSERVE_ONLY"
  /\ Documents("operator", FALSE)

\* Mutant: the document of one account only is written.
WriteHaltFileOnce(p, w) ==
  /\ w \in haltTodo[p]
  /\ haltFile' = [haltFile EXCEPT ![w[1]] = w[2]]
  /\ haltTodo' = [haltTodo EXCEPT ![p] = {}]
  /\ UNCHANGED <<mode, halted, file, profile, edited, opVars, crossed,
                 adVars, unread, bounds, lost>>

\* write_adapter_halt, _write_halt_files
WriteHaltFile(p, w) ==
  /\ w \in haltTodo[p]
  /\ haltFile' = [haltFile EXCEPT ![w[1]] = w[2]]
  /\ haltTodo' = [haltTodo EXCEPT ![p] = @ \ {w}]
  /\ UNCHANGED <<mode, halted, file, profile, edited, opVars, crossed,
                 adVars, unread, bounds, lost>>

-----------------------------------------------------------------------------
(* The adapters.                                                           *)

AdapterOnly == UNCHANGED <<mode, halted, file, haltFile, opVars, haltVars,
                           operations, lost>>

\* What is in the file can be put to use without a restart.
Usable(a) == ~edited[a] /\ (file[a] = "OBSERVE_ONLY" \/ profile[a])

\* _refresh_config_mode looks at a changed file and again at one that failed.
Refreshes(a) == running[a] /\ (unread[a] \/ saved[a] # "NONE")

\* Mutant: the status is restored whether or not one was saved.
ReloadRestores(a) ==
  /\ Refreshes(a) /\ Usable(a)
  /\ loaded' = [loaded EXCEPT ![a] = file[a]]
  /\ unread' = [unread EXCEPT ![a] = FALSE]
  /\ status' = [status EXCEPT ![a] = saved[a]]
  /\ saved' = [saved EXCEPT ![a] = "NONE"]
  /\ UNCHANGED <<running, initializing, badStart, profile, edited, faults>>
  /\ AdapterOnly

\* The mode is loaded; the status is the one before the first failure.
Reload(a) ==
  /\ Refreshes(a) /\ Usable(a)
  /\ loaded' = [loaded EXCEPT ![a] = file[a]]
  /\ unread' = [unread EXCEPT ![a] = FALSE]
  /\ status' = [status EXCEPT ![a] = IF saved[a] = "NONE" THEN @ ELSE saved[a]]
  /\ saved' = [saved EXCEPT ![a] = "NONE"]
  /\ UNCHANGED <<running, initializing, badStart, profile, edited, faults>>
  /\ AdapterOnly

\* Mutant: the failed reload counts as a reading of the file.
ReloadFailsRead(a) ==
  /\ Refreshes(a) /\ ~Usable(a)
  /\ loaded' = [loaded EXCEPT ![a] = "OBSERVE_ONLY"]
  /\ unread' = [unread EXCEPT ![a] = FALSE]
  /\ status' = [status EXCEPT ![a] = "ERROR"]
  /\ UNCHANGED <<running, initializing, saved, badStart, profile, edited, faults>>
  /\ AdapterOnly

\* It cannot be loaded: no command is taken, and the mode is OBSERVE_ONLY.
ReloadFails(a) ==
  /\ Refreshes(a) /\ ~Usable(a)
  /\ loaded' = [loaded EXCEPT ![a] = "OBSERVE_ONLY"]
  /\ saved' = [saved EXCEPT ![a] = IF @ = "NONE" THEN status[a] ELSE @]
  /\ status' = [status EXCEPT ![a] = "ERROR"]
  /\ badStart' = [badStart EXCEPT ![a] = @ \/ initializing[a]]
  /\ UNCHANGED <<running, initializing, unread, profile, edited, faults>>
  /\ AdapterOnly

\* init can load the settings.
Loads(a) == file[a] = "OBSERVE_ONLY" \/ profile[a]

\* The strategy is started (again): init loads all settings.
Starts(a) ==
  /\ Fault
  /\ Loads(a)
  /\ running' = [running EXCEPT ![a] = TRUE]
  /\ initializing' = [initializing EXCEPT ![a] = TRUE]
  /\ loaded' = [loaded EXCEPT ![a] = file[a]]
  /\ status' = [status EXCEPT ![a] = "RECOVERING"]
  /\ unread' = [unread EXCEPT ![a] = TRUE]
  /\ edited' = [edited EXCEPT ![a] = FALSE]
  /\ saved' = [saved EXCEPT ![a] = "NONE"]
  /\ badStart' = [badStart EXCEPT ![a] = FALSE]
  /\ UNCHANGED profile
  /\ AdapterOnly

\* init raises: it cannot load the settings, or it can and fails when the scans for
\* commands are already scheduled.  (Failing in between is like the former: nothing
\* runs, and `loaded` is of no account, until the next start.)
StartFails(a) ==
  /\ Fault
  /\ running' = [running EXCEPT ![a] = Loads(a)]
  /\ initializing' = [initializing EXCEPT ![a] = FALSE]
  /\ loaded' = [loaded EXCEPT ![a] = file[a]]
  /\ status' = [status EXCEPT ![a] = "ERROR"]
  /\ unread' = [unread EXCEPT ![a] = TRUE]
  /\ edited' = [edited EXCEPT ![a] = FALSE]
  /\ saved' = [saved EXCEPT ![a] = "NONE"]
  /\ badStart' = [badStart EXCEPT ![a] = TRUE]
  /\ UNCHANGED profile
  /\ AdapterOnly

\* after_init, which scans for commands may precede.
AfterInit(a) ==
  /\ running[a] /\ initializing[a]
  /\ initializing' = [initializing EXCEPT ![a] = FALSE]
  /\ status' = [status EXCEPT ![a] = "READY"]
  /\ UNCHANGED <<running, loaded, unread, saved, badStart, profile, edited, faults>>
  /\ AdapterOnly

\* after_init raises, writing snapshots or the probe: the scans go on.
AfterInitFails(a) ==
  /\ Fault
  /\ running[a] /\ initializing[a]
  /\ initializing' = [initializing EXCEPT ![a] = FALSE]
  /\ status' = [status EXCEPT ![a] = "ERROR"]
  /\ badStart' = [badStart EXCEPT ![a] = TRUE]
  /\ UNCHANGED <<running, loaded, unread, saved, profile, edited>>
  /\ AdapterOnly

\* Somebody edits other settings of the adapter, or spoils its profile.
Edit(a) ==
  /\ Fault
  /\ \/ /\ phase = "idle"
        /\ edited' = [edited EXCEPT ![a] = TRUE]
        /\ unread' = [unread EXCEPT ![a] = TRUE]
        /\ UNCHANGED profile
     \/ profile' = [profile EXCEPT ![a] = FALSE] /\ UNCHANGED <<edited, unread>>
  /\ UNCHANGED adVars
  /\ AdapterOnly

\* What was edited or spoilt is put right.
Repair(a) ==
  /\ \/ /\ phase = "idle" /\ edited[a]
        /\ edited' = [edited EXCEPT ![a] = FALSE]
        /\ unread' = [unread EXCEPT ![a] = TRUE]
        /\ UNCHANGED profile
     \/ /\ ~profile[a]
        /\ profile' = [profile EXCEPT ![a] = TRUE]
        /\ UNCHANGED <<edited, unread>>
  /\ UNCHANGED <<adVars, faults>>
  /\ AdapterOnly

-----------------------------------------------------------------------------
Operator ==
  \/ \E m \in Modes : ConsoleSetMode(m) \/ StartWith(m)
  \/ StartAsIs
  \/ ReadFiles
  \/ \E a \in Accounts : WriteFile(a) \/ WriteFails(a) \/ RestoreFile(a) \/ RestoreFails(a)
  \/ Restored
  \/ Synced
  \/ CommitMode

Halting ==
  \/ ClearHalt
  \/ \E p \in Programs :
       \/ Halt(p)
       \/ Stops(p)
       \/ \E w \in haltTodo[p] : WriteHaltFile(p, w)

Scan(a) == Reload(a) \/ ReloadFails(a)

Adapter(a) ==
  \/ Scan(a)
  \/ Starts(a) \/ StartFails(a)
  \/ AfterInit(a) \/ AfterInitFails(a)
  \/ Edit(a) \/ Repair(a)

Next == Operator \/ Halting \/ \E a \in Accounts : Adapter(a)

Spec == Init /\ [][Next]_vars

\* poll_commands is scheduled every 100 to 5000 ms and begins with the refresh;
\* QMT calls after_init once for every init that returns, and it succeeds but for
\* the faults that are counted.
FairSpec ==
  /\ Spec
  /\ \A a \in Accounts : WF_vars(Scan(a)) /\ WF_vars(AfterInit(a))

-----------------------------------------------------------------------------
(* Properties.                                                             *)

\* When neither program is writing halt documents, and the last that did were
\* not interrupted and did not contradict each other, every adapter's document
\* says what the database says.
HaltReachesAdapters ==
  (\A p \in Programs : haltTodo[p] = {}) /\ ~crossed
    => \A a \in Accounts : haltFile[a] = halted

\* A Worker that may trade has adapters of the same mode, whatever halts,
\* refusals, failing writes and clearings came before, unless a mode change was
\* cut off half way and none has been completed since.
WorkerModeIsSynced ==
  phase = "idle" /\ ~lost /\ ~halted /\ mode # "OBSERVE_ONLY"
    => \A a \in Accounts : file[a] = mode

\* A mode change is of all accounts or of none, also when a write fails or a
\* halt refuses the new mode.
AccountsAgree ==
  phase = "idle" /\ ~lost => \A a, b \in Accounts : file[a] = file[b]

\* An adapter whose configuration can be used ends up with the mode of the
\* file, and READY, after any failures of its reloads, unless init or after_init
\* failed or a reload between the two did.
AdapterFollows ==
  \A a \in Accounts :
    <>[](running[a] /\ Usable(a) => loaded[a] = file[a] /\ (status[a] = "READY" \/ badStart[a]))
=============================================================================
