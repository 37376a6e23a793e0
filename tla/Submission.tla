----------------------------- MODULE Submission -----------------------------
(***************************************************************************)
(* What must hold before an intent of one account is committed: preview,   *)
(* approval, timed session, local LIVE permission, and the daily notional. *)
(*                                                                         *)
(* submit_trade_intent and authorize_manual_trade first read the preview   *)
(* and decide its risk anew, outside any transaction, and then check the   *)
(* authorization and write, in one transaction.  Threads of the Worker's   *)
(* HTTP server interleave between the two; the queue loop ingests order    *)
(* and trade events at any time, in two separate transactions.             *)
(*                                                                         *)
(* Abstractions.  Every order has the notional 1, so that the limit is a   *)
(* number of orders.  `world` stands for the positions, cash and prices a  *)
(* decision is made from, and for the order that results from them.  A     *)
(* check that depends on nothing modelled may refuse at any time: a step   *)
(* not taken, or Refuse.  Time passes as the steps that let a preview, an  *)
(* approval, the session or the permission expire.  SIM_SIGNAL is to the   *)
(* Worker what OBSERVE_ONLY is; LIMITED_AUTO is in AutoPermit.  preview_   *)
(* trade, whose reads precede its insertion, is one step: a decision older *)
(* than its row is one more that the submission finds changed.             *)
(***************************************************************************)
EXTENDS Naturals, Sequences, FiniteSets

CONSTANTS
  Previews,          \* the previews
  Signals,           \* source.signal_id of the requests
  Threads,           \* threads of the HTTP server
  NoPreview,         \* stands for "no preview"
  NoSignal,          \* stands for "no signal"
  MaxDailyNotional,  \* max_daily_notional
  MaxApprovals,      \* bound on the approvals open at a time
  MaxEras            \* bound on the operations that end authorizations

ASSUME NoPreviewAssumption == NoPreview \notin Previews
ASSUME NoSignalAssumption == NoSignal \notin Signals
ASSUME BoundsAssumption ==
  MaxDailyNotional \in Nat /\ MaxApprovals \in Nat /\ MaxEras \in Nat

Modes == {"OBSERVE_ONLY", "MANUAL_LIVE"}
Worlds == {"calm", "moved"}

VARIABLES
  mode,       \* system_state.mode
  halted,     \* system_state.halted
  live,       \* live_until lies in the future
  session,    \* the era an unexpired manual_session was granted in, or 0
  approvals,  \* rows of approvals that are neither used nor expired
  previews,   \* rows of trade_previews
  intents,    \* rows of trade_intents, oldest first
  world,      \* what the snapshots say
  task,       \* what each thread has read and is about to commit
  era,        \* history: a halt, a revocation and a mode change begin a new one
  answers,    \* history: the intents returned for a preview
  stale       \* history: a commit was made from a ledger that was not the true one

authVars == <<mode, halted, live, session, approvals, era>>
vars == <<mode, halted, live, session, approvals, previews, intents, world,
          task, era, answers, stale>>

\* The decision a preview's snapshot_fingerprint stands for.
Decision == [world : Worlds, usage : Nat]
NoTask == [op |-> "none", preview |-> NoPreview,
           decision |-> [world |-> "calm", usage |-> 0]]

TypeOK ==
  /\ mode \in Modes
  /\ halted \in BOOLEAN
  /\ live \in BOOLEAN
  /\ session \in Nat
  /\ era \in Nat
  /\ approvals \subseteq [preview : Previews, era : Nat]
  /\ previews \in [Previews ->
       [state : {"none", "open", "expired"}, mode : Modes,
        signal : Signals \cup {NoSignal}, decision : Decision,
        allowed : BOOLEAN, intent : Nat]]
  /\ intents \in Seq([preview : Previews, mode : Modes, signal : Signals,
                      order : Worlds,
                      status : {"pending", "FILLED", "closed"},
                      outcome : {"working", "filled", "dead"}, traded : BOOLEAN])
  /\ world \in Worlds
  /\ task \in [Threads -> [op : {"none", "submit", "authorize"},
                           preview : Previews \cup {NoPreview},
                           decision : Decision]]
  /\ answers \subseteq Previews \X Nat
  /\ stale \in BOOLEAN

Init ==
  /\ mode \in Modes
  /\ halted = FALSE
  /\ live = FALSE
  /\ session = 0
  /\ approvals = {}
  /\ previews = [p \in Previews |->
       [state |-> "none", mode |-> "OBSERVE_ONLY", signal |-> NoSignal,
        decision |-> NoTask.decision, allowed |-> FALSE, intent |-> 0]]
  /\ intents = <<>>
  /\ world = "calm"
  /\ task = [t \in Threads |-> NoTask]
  /\ era = 1
  /\ answers = {}
  /\ stale = FALSE

-----------------------------------------------------------------------------
(* The risk decision.                                                      *)

\* Mutant: intents whose order QMT has not reported yet are not counted.
UsageTradedOnly == Cardinality({i \in DOMAIN intents : intents[i].traded})

\* notional_usage: what was traded today and what pending intents may trade.
Usage == Cardinality({i \in DOMAIN intents : intents[i].traded})
           + Cardinality({i \in DOMAIN intents : intents[i].status = "pending"})

\* What QMT has filled or may still fill.
Filling == {i \in DOMAIN intents : intents[i].outcome # "dead"}
Exposure == Cardinality(Filling)

\* An intent of these counts nowhere: the order event of its fill is ingested and
\* its trade event is not, or a rejection of another copy of its command is.
Uncounted ==
  \E i \in Filling : intents[i].status # "pending" /\ ~intents[i].traded

\* _build_preview
Current == [world |-> world, usage |-> Usage]
Allowed == Usage + 1 <= MaxDailyNotional

\* preview_trade
PreviewTrade(p, m, s) ==
  /\ previews[p].state = "none"
  /\ previews' = [previews EXCEPT ![p] =
       [state |-> "open", mode |-> m, signal |-> s, decision |-> Current,
        allowed |-> Allowed, intent |-> 0]]
  /\ UNCHANGED <<authVars, intents, world, task, answers, stale>>

\* Only of one not consumed: no intent can come of a consumed one any more.
PreviewExpires(p) ==
  /\ previews[p].state = "open" /\ previews[p].intent = 0
  /\ previews' = [previews EXCEPT ![p].state = "expired"]
  /\ UNCHANGED <<authVars, intents, world, task, answers, stale>>

-----------------------------------------------------------------------------
(* Authorizations.                                                         *)

\* era is history: the era the approval is given in.  Two approvals of a preview
\* are worth one, since the intent they may be used for is the same.
Approve(p) ==
  /\ Cardinality(approvals) < MaxApprovals
  /\ approvals' = approvals \cup {[preview |-> p, era |-> era]}

\* console approve-preview, in any mode and also while halted
ApprovePreview(p) ==
  /\ previews[p].state = "open"
  /\ previews[p].allowed
  /\ Approve(p)
  /\ UNCHANGED <<mode, halted, live, session, era, previews, intents, world,
                 task, answers, stale>>

\* authorize_manual_session
AuthorizeSession ==
  /\ ~halted
  /\ mode = "MANUAL_LIVE"
  /\ session' = era
  /\ live' = TRUE
  /\ UNCHANGED <<mode, halted, approvals, era, previews, intents, world, task,
                 answers, stale>>

\* console enable-live, in any mode and also while halted
EnableLive ==
  /\ live' = TRUE
  /\ UNCHANGED <<mode, halted, session, approvals, era, previews, intents,
                 world, task, answers, stale>>

\* What a halt, a revocation and a mode change have in common.
EndAuthorizations ==
  /\ era < MaxEras
  /\ era' = era + 1
  /\ session' = 0
  /\ live' = FALSE
  /\ approvals' = {}
  /\ UNCHANGED <<previews, intents, world, task, answers, stale>>

\* Mutant: the revocation ends the session and leaves single approvals alone.
RevokeSessionOnly ==
  /\ era < MaxEras
  /\ era' = era + 1
  /\ session' = 0
  /\ live' = FALSE
  /\ UNCHANGED <<mode, halted, approvals, previews, intents, world, task,
                 answers, stale>>

\* revoke_manual_session
RevokeSession == EndAuthorizations /\ UNCHANGED <<mode, halted>>

\* halt_trading, console halt
Halt == EndAuthorizations /\ halted' = TRUE /\ UNCHANGED mode

\* console clear-halt
ClearHalt ==
  /\ halted
  /\ halted' = FALSE
  /\ mode' = "OBSERVE_ONLY"
  /\ UNCHANGED <<live, session, approvals, era, previews, intents, world, task,
                 answers, stale>>

\* console set-mode
SetMode(m) ==
  /\ ~halted
  /\ EndAuthorizations
  /\ mode' = m
  /\ UNCHANGED halted

SessionExpires ==
  /\ session # 0
  /\ session' = 0
  /\ UNCHANGED <<mode, halted, live, approvals, era, previews, intents, world,
                 task, answers, stale>>

LiveExpires ==
  /\ live
  /\ live' = FALSE
  /\ UNCHANGED <<mode, halted, session, approvals, era, previews, intents,
                 world, task, answers, stale>>

ApprovalExpires(a) ==
  /\ approvals' = approvals \ {a}
  /\ UNCHANGED <<mode, halted, live, session, era, previews, intents, world,
                 task, answers, stale>>

-----------------------------------------------------------------------------
(* authorize_manual_trade and submit_trade_intent.                         *)

\* Mutant: the fingerprint is not compared.
ReadUncompared(t, op, p) ==
  /\ task[t] = NoTask
  /\ previews[p].state = "open" /\ previews[p].intent = 0
  /\ Allowed
  /\ task' = [task EXCEPT ![t] = [op |-> op, preview |-> p, decision |-> Current]]
  /\ UNCHANGED <<authVars, previews, intents, world, answers, stale>>

\* Both read the preview and decide anew.
Read(t, op, p) ==
  /\ task[t] = NoTask
  /\ previews[p].state = "open" /\ previews[p].intent = 0
  /\ previews[p].decision = Current
  /\ Allowed
  /\ task' = [task EXCEPT ![t] = [op |-> op, preview |-> p, decision |-> Current]]
  /\ UNCHANGED <<authVars, previews, intents, world, answers, stale>>

\* The thread's operation ends.
Done(t) == task' = [task EXCEPT ![t] = NoTask]

AuthorizeRead(t, p) ==
  /\ previews[p].mode = "MANUAL_LIVE"
  /\ Read(t, "authorize", p)

\* authorize_manual_trade approves the preview and permits LIVE.
AuthorizeTrade(t) ==
  LET p == task[t].preview
  IN  /\ task[t].op = "authorize"
      /\ previews[p].state = "open" /\ previews[p].intent = 0
      /\ ~halted
      /\ mode = "MANUAL_LIVE"
      /\ live' = TRUE
      /\ Approve(p)
      /\ Done(t)
      /\ UNCHANGED <<mode, halted, session, era, previews, intents, world,
                     answers, stale>>

SubmitRead(t, p) == Read(t, "submit", p)

\* Mutant: the answer is the newest intent.
ReturnNewest(t, p) ==
  /\ task[t] = NoTask
  /\ previews[p].intent # 0
  /\ answers' = answers \cup {<<p, Len(intents)>>}
  /\ UNCHANGED <<authVars, previews, intents, world, task, stale>>

\* The preview was consumed already: the intent it was consumed by is returned,
\* whether the thread learns it from its first read ...
ReturnExisting(t, p) ==
  /\ task[t] = NoTask
  /\ previews[p].intent # 0
  /\ answers' = answers \cup {<<p, previews[p].intent>>}
  /\ UNCHANGED <<authVars, previews, intents, world, task, stale>>

\* ... or in its transaction.
ReturnConsumed(t) ==
  LET p == task[t].preview
  IN  /\ task[t].op = "submit"
      /\ previews[p].intent # 0
      /\ answers' = answers \cup {<<p, previews[p].intent>>}
      /\ Done(t)
      /\ UNCHANGED <<authVars, previews, intents, world, stale>>

\* _check_submit_authorization: an approval the client names and that holds is
\* spent, even during a session.
Authorized(p) ==
  /\ ~halted
  /\ mode = previews[p].mode
  /\ \/ mode = "OBSERVE_ONLY" /\ UNCHANGED approvals
     \/ /\ mode = "MANUAL_LIVE"
        /\ live
        /\ \/ \E a \in approvals : a.preview = p /\ approvals' = approvals \ {a}
           \/ session # 0 /\ UNCHANGED approvals

\* Mutant: the intent is written with the status of the outbox row.
NewIntentUntyped(t) ==
  LET p == task[t].preview
  IN  [preview |-> p, mode |-> previews[p].mode, signal |-> previews[p].signal,
       order |-> task[t].decision.world, status |-> "PENDING_DELIVERY",
       outcome |-> "dead", traded |-> FALSE]

\* The intent thread t is about to insert; QMT gets no order of one to observe.
NewIntent(t) ==
  LET p == task[t].preview
  IN  [preview |-> p, mode |-> previews[p].mode, signal |-> previews[p].signal,
       order |-> task[t].decision.world, status |-> "pending",
       outcome |-> IF previews[p].mode = "OBSERVE_ONLY" THEN "dead" ELSE "working",
       traded |-> FALSE]

\* The preview is unexpired and not consumed, and its signal has no intent yet:
\* a second one breaks idx_trade_intents_signal_once and is rolled back.
Insertable(p) ==
  /\ previews[p].state = "open" /\ previews[p].intent = 0
  /\ \A i \in DOMAIN intents : intents[i].signal # previews[p].signal

\* The transaction of submit_trade_intent.
Commit(t) ==
  LET p == task[t].preview
  IN  /\ task[t].op = "submit"
      /\ Insertable(p)
      /\ Authorized(p)
      /\ intents' = Append(intents, NewIntent(t))
      /\ previews' = [previews EXCEPT ![p].intent = Len(intents')]
      /\ answers' = answers \cup {<<p, Len(intents')>>}
      /\ stale' = (stale \/ task[t].decision.usage # Usage \/ Uncounted)
      /\ Done(t)
      /\ UNCHANGED <<mode, halted, live, session, era, world>>

\* A check in the transaction fails, or the thread stops: nothing is written.
Refuse(t) ==
  /\ task[t] # NoTask
  /\ Done(t)
  /\ UNCHANGED <<authVars, previews, intents, world, answers, stale>>

-----------------------------------------------------------------------------
(* What the queue loop ingests.                                            *)

SnapshotIngested ==
  /\ world' \in Worlds \ {world}
  /\ UNCHANGED <<authVars, previews, intents, task, answers, stale>>

Update(i, value) ==
  /\ intents' = [intents EXCEPT ![i] = value]
  /\ UNCHANGED <<authVars, previews, world, task, answers, stale>>

\* QMT fills the order, or the order ends unfilled.
OrderEnds(i) ==
  /\ intents[i].outcome = "working"
  /\ \E end \in {"filled", "dead"} : Update(i, [intents[i] EXCEPT !.outcome = end])

\* What an event about the intent may still say: what QMT said of the order when
\* the event was written, or that the order was only observed.
Reports(i) ==
  (IF intents[i].mode = "OBSERVE_ONLY" THEN {} ELSE {"pending"})
    \cup (CASE intents[i].outcome = "working" -> {}
            [] intents[i].outcome = "filled" -> {"FILLED"}
            [] intents[i].outcome = "dead" -> {"closed"})

\* An order event sets the status, whatever it was, ...
OrderEventIngested(i) ==
  \E report \in Reports(i) \ {intents[i].status} :
    Update(i, [intents[i] EXCEPT !.status = report])

\* ... and so does the acknowledgement that another copy of the command, or a
\* command to cancel the order, was rejected, although the order may be working.
RejectionIngested(i) ==
  /\ intents[i].status # "closed"
  /\ Update(i, [intents[i] EXCEPT !.status = "closed"])

\* The trade event, before the order event or after, counts as traded.
TradeEventIngested(i) ==
  /\ intents[i].outcome = "filled"
  /\ ~intents[i].traded
  /\ Update(i, [intents[i] EXCEPT !.traded = TRUE])

-----------------------------------------------------------------------------
ThreadStep(t) ==
  \/ \E p \in Previews : AuthorizeRead(t, p) \/ SubmitRead(t, p)
                           \/ ReturnExisting(t, p)
  \/ AuthorizeTrade(t)
  \/ ReturnConsumed(t)
  \/ Commit(t)
  \/ Refuse(t)

Operator ==
  \/ \E p \in Previews : ApprovePreview(p)
  \/ AuthorizeSession
  \/ EnableLive
  \/ RevokeSession
  \/ Halt
  \/ ClearHalt
  \/ \E m \in Modes : SetMode(m)

TimePasses ==
  \/ \E p \in Previews : PreviewExpires(p)
  \/ SessionExpires
  \/ LiveExpires
  \/ \E a \in approvals : ApprovalExpires(a)

Ingest ==
  \/ SnapshotIngested
  \/ \E i \in DOMAIN intents :
       \/ OrderEnds(i)
       \/ OrderEventIngested(i) \/ RejectionIngested(i) \/ TradeEventIngested(i)

Next ==
  \/ \E p \in Previews, m \in Modes, s \in Signals : PreviewTrade(p, m, s)
  \/ \E t \in Threads : ThreadStep(t)
  \/ Operator
  \/ TimePasses
  \/ Ingest

Spec == Init /\ [][Next]_vars

-----------------------------------------------------------------------------
(* Properties.                                                             *)

\* Every submission of a preview that is answered with an intent is answered
\* with the same one: a client may submit again after a lost answer.
SameAnswer ==
  \A a, b \in answers : a[1] = b[1] => a[2] = b[2]

\* The order committed is the order that was previewed and approved, although
\* it is resolved anew from snapshots that may have changed.
OrderIsThePreviewedOne ==
  \A i \in DOMAIN intents :
    intents[i].order = previews[intents[i].preview].decision.world

\* A live intent is committed on an approval of its preview or a session of the
\* present era: none granted before a halt, a revocation or a mode change counts
\* after it, whatever was read before and whatever was granted during a halt.
GrantsEnd ==
  [][LET new == intents'[Len(intents')]
     IN  Len(intents') > Len(intents) /\ new.mode = "MANUAL_LIVE" =>
           \/ session = era
           \/ \E a \in approvals \ approvals' : a.preview = new.preview /\ a.era = era]_vars

\* A preview is an offer of its order, an intent an entry, and a submission that
\* is answered a client told of one.
Offered ==
  {[preview |-> p, signal |-> previews[p].signal, order |-> previews[p].decision.world] :
     p \in {q \in Previews : previews[q].state # "none"}}
Entries ==
  [i \in DOMAIN intents |->
     [preview |-> intents[i].preview, signal |-> intents[i].signal, order |-> intents[i].order]]

Ledger == INSTANCE SignalLedger
  WITH Orders <- Worlds, offered <- Offered, ledger <- Entries, told <- answers

\* However submissions, retries and second previews of a signal interleave, what
\* was previewed is committed once, as previewed and for good, and an answer
\* names the intent of the very preview, after it was committed.
ImplementsLedger == Ledger!Spec

\* What may be filled stays within the daily limit, unless an intent was ever
\* committed from a usage that had changed since it was read, or while an order
\* was not counted: between the order event and the trade event of a fill, or
\* after a rejection was ingested that was not the order's own.
LimitUnlessStale == ~stale => Exposure <= MaxDailyNotional

\* README.md:49: the complete risk decision is taken again at submission.
WithinDailyLimit == Exposure <= MaxDailyNotional
=============================================================================
