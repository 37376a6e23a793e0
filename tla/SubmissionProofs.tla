-------------------------- MODULE SubmissionProofs --------------------------
(***************************************************************************)
(* Theorems about Submission, for every set of previews, of signals and of *)
(* threads, and every limit.  IInv is the inductive invariant: the types;  *)
(* what a preview, an intent, a task and an answer say of each other; that *)
(* no grant of an earlier era is left; and the exposure.                   *)
(***************************************************************************)
EXTENDS Submission, FiniteSetTheorems, TLAPS

USE NoPreviewAssumption, NoSignalAssumption, BoundsAssumption DEF authVars

\* A preview that was made has a signal, and only such a one is consumed, ...
PreviewsAreMade ==
  \A p \in Previews :
    IF previews[p].state = "none" THEN previews[p].intent = 0 ELSE previews[p].signal \in Signals

\* ... and one that a thread or an intent refers to was made.
TasksAsPreviewed ==
  \A t \in Threads :
    task[t].op # "none" =>
      /\ task[t].preview \in Previews
      /\ previews[task[t].preview].state # "none"
      /\ previews[task[t].preview].decision = task[t].decision
      /\ task[t].decision.usage + 1 <= MaxDailyNotional

IntentsAsPreviewed ==
  \A i \in DOMAIN intents :
    /\ previews[intents[i].preview].state # "none"
    /\ intents[i].order = previews[intents[i].preview].decision.world

\* What was answered for a preview is what its row says, which never changes.
AnswersAreConsumptions ==
  \A a \in answers : previews[a[1]].intent = a[2] /\ a[2] # 0

\* The end of an era ends its session and its approvals.
GrantsAreCurrent == session \in {0, era} /\ \A a \in approvals : a.era = era

\* A signal becomes one intent, whichever of its previews are submitted.
OneIntentPerSignal ==
  \A i, j \in DOMAIN intents : intents[i].signal = intents[j].signal => i = j

IInv ==
  /\ TypeOK
  /\ PreviewsAreMade /\ TasksAsPreviewed /\ IntentsAsPreviewed
  /\ OneIntentPerSignal
  /\ AnswersAreConsumptions
  /\ GrantsAreCurrent
  /\ LimitUnlessStale

-----------------------------------------------------------------------------
(* Types and helpers.                                                      *)

ApprovalRow == [preview : Previews, era : Nat]

PreviewRow == [state : {"none", "open", "expired"}, mode : Modes,
               signal : Signals \cup {NoSignal}, decision : Decision,
               allowed : BOOLEAN, intent : Nat]

IntentRow == [preview : Previews, mode : Modes, signal : Signals,
              order : Worlds,
              status : {"pending", "FILLED", "closed"},
              outcome : {"working", "filled", "dead"}, traded : BOOLEAN]

Task == [op : {"none", "submit", "authorize"}, preview : Previews \cup {NoPreview},
         decision : Decision]

AuthTypes ==
  /\ mode \in Modes /\ halted \in BOOLEAN /\ live \in BOOLEAN
  /\ session \in Nat /\ era \in Nat
  /\ approvals \subseteq ApprovalRow

DataTypes ==
  /\ previews \in [Previews -> PreviewRow]
  /\ intents \in Seq(IntentRow)
  /\ world \in Worlds
  /\ task \in [Threads -> Task]
  /\ answers \subseteq Previews \X Nat
  /\ stale \in BOOLEAN

LEMMA TypesAre == TypeOK <=> AuthTypes /\ DataTypes
  BY DEF TypeOK, AuthTypes, DataTypes, ApprovalRow, PreviewRow, IntentRow, Task

LEMMA TaskTypes ==
  NoTask \in Task /\ NoTask.op = "none" /\ [world |-> "calm", usage |-> 0] \in Decision
<1>1. [world |-> "calm", usage |-> 0] \in Decision
  BY DEF Decision, Worlds
<1>2. QED
  BY <1>1 DEF NoTask, Task

LEMMA IntentsAreFinite ==
  ASSUME DataTypes
  PROVE  /\ Len(intents) \in Nat /\ DOMAIN intents = 1..Len(intents)
         /\ \A S : S \subseteq DOMAIN intents => IsFiniteSet(S) /\ Cardinality(S) \in Nat
<1>1. Len(intents) \in Nat /\ DOMAIN intents = 1..Len(intents)
  BY DEF DataTypes
<1>2. IsFiniteSet(1..Len(intents))
  BY <1>1, FS_Interval
<1>3. QED
  BY <1>1, <1>2, FS_Subset, FS_CardinalityType

LEMMA IntentRows == ASSUME DataTypes PROVE \A i \in DOMAIN intents : intents[i] \in IntentRow
  BY DEF DataTypes

LEMMA CurrentIsDecision == ASSUME DataTypes PROVE Usage \in Nat /\ Current \in Decision
<1>1. /\ {i \in DOMAIN intents : intents[i].traded} \subseteq DOMAIN intents
      /\ {i \in DOMAIN intents : intents[i].status = "pending"} \subseteq DOMAIN intents
  OBVIOUS
<1>2. Usage \in Nat
  BY <1>1, IntentsAreFinite DEF Usage
<1>3. QED
  BY <1>2 DEF Current, Decision, DataTypes

-----------------------------------------------------------------------------
(* Grants.                                                                 *)

LEMMA ApproveStays ==
  ASSUME AuthTypes, GrantsAreCurrent, NEW p \in Previews, Approve(p), UNCHANGED <<session, era>>
  PROVE  approvals' \subseteq ApprovalRow /\ GrantsAreCurrent'
<1> DEFINE r == [preview |-> p, era |-> era]
<1>1. r \in ApprovalRow /\ r.era = era
  BY DEF ApprovalRow, AuthTypes
<1>2. approvals' = approvals \cup {r}
  BY DEF Approve
<1> HIDE DEF r
<1>3. QED
  BY <1>1, <1>2 DEF AuthTypes, GrantsAreCurrent

LEMMA EraEnds ==
  ASSUME AuthTypes, EndAuthorizations
  PROVE  /\ session' \in Nat /\ era' \in Nat /\ live' \in BOOLEAN /\ approvals' \subseteq ApprovalRow
         /\ GrantsAreCurrent'
<1>1. session' = 0 /\ era' = era + 1 /\ live' = FALSE /\ approvals' = {}
  BY DEF EndAuthorizations
<1>2. era' \in Nat
  BY <1>1 DEF AuthTypes
<1>3. QED
  BY <1>1, <1>2 DEF GrantsAreCurrent

\* What the operator, the lapse of a grant, and a thread's transaction do to the
\* authorizations.
AuthStep ==
  \/ Operator \/ SessionExpires \/ LiveExpires
  \/ \E a \in approvals : ApprovalExpires(a)

LEMMA OperatorStays ==
  ASSUME AuthTypes, GrantsAreCurrent, AuthStep
  PROVE  AuthTypes' /\ GrantsAreCurrent'
<1>1. ASSUME NEW p \in Previews, ApprovePreview(p) PROVE AuthTypes' /\ GrantsAreCurrent'
  BY <1>1, ApproveStays DEF ApprovePreview, AuthTypes
<1>2. CASE AuthorizeSession
  BY <1>2 DEF AuthorizeSession, AuthTypes, GrantsAreCurrent
<1>3. CASE EnableLive \/ ClearHalt \/ SessionExpires \/ LiveExpires
  <2>1. UNCHANGED <<approvals, era>> /\ (session' = session \/ session' = 0)
    BY <1>3 DEF EnableLive, ClearHalt, SessionExpires, LiveExpires
  <2>2. mode' \in Modes /\ halted' \in BOOLEAN /\ live' \in BOOLEAN
    BY <1>3 DEF EnableLive, ClearHalt, SessionExpires, LiveExpires, AuthTypes, Modes
  <2>3. QED
    BY <2>1, <2>2 DEF AuthTypes, GrantsAreCurrent
<1>4. CASE RevokeSession \/ Halt \/ \E m \in Modes : SetMode(m)
  <2>1. EndAuthorizations /\ mode' \in Modes /\ halted' \in BOOLEAN
    BY <1>4 DEF RevokeSession, Halt, SetMode, AuthTypes
  <2>2. QED
    BY <2>1, EraEnds DEF AuthTypes
<1>5. ASSUME NEW a \in approvals, ApprovalExpires(a) PROVE AuthTypes' /\ GrantsAreCurrent'
  BY <1>5 DEF ApprovalExpires, AuthTypes, GrantsAreCurrent
<1>6. QED
  BY <1>1, <1>2, <1>3, <1>4, <1>5 DEF AuthStep, Operator

LEMMA GrantsStay ==
  ASSUME TypeOK, TasksAsPreviewed, GrantsAreCurrent, Next
  PROVE  AuthTypes' /\ GrantsAreCurrent'
<1>1. AuthTypes
  BY TypesAre
<1>2. CASE UNCHANGED authVars
  BY <1>1, <1>2 DEF AuthTypes, GrantsAreCurrent
<1>3. CASE AuthStep
  BY <1>1, <1>3, OperatorStays
<1>4. ASSUME NEW t \in Threads, AuthorizeTrade(t) PROVE AuthTypes' /\ GrantsAreCurrent'
  <2>1. task[t].preview \in Previews
    BY <1>4 DEF AuthorizeTrade, TasksAsPreviewed
  <2>2. QED
    BY <1>1, <1>4, <2>1, ApproveStays DEF AuthorizeTrade, AuthTypes
<1>5. ASSUME NEW t \in Threads, Commit(t) PROVE AuthTypes' /\ GrantsAreCurrent'
  <2>1. approvals' \subseteq approvals
    BY <1>5 DEF Commit, Authorized
  <2>2. UNCHANGED <<mode, halted, live, session, era>>
    BY <1>5 DEF Commit
  <2>3. QED
    BY <1>1, <2>1, <2>2 DEF AuthTypes, GrantsAreCurrent
<1>6. ASSUME NEW t \in Threads, ThreadStep(t) PROVE UNCHANGED authVars \/ AuthorizeTrade(t) \/ Commit(t)
  BY <1>6 DEF ThreadStep, AuthorizeRead, SubmitRead, Read, ReturnExisting, ReturnConsumed, Refuse
<1>7. ASSUME Ingest \/ TimePasses PROVE UNCHANGED authVars \/ AuthStep
  BY <1>7 DEF Ingest, SnapshotIngested, OrderEnds, OrderEventIngested, RejectionIngested, TradeEventIngested, Update,
       TimePasses, PreviewExpires, AuthStep
<1>8. ASSUME NEW p, NEW m, NEW s, PreviewTrade(p, m, s) PROVE UNCHANGED authVars
  BY <1>8 DEF PreviewTrade
<1>9. QED
  BY <1>2, <1>3, <1>4, <1>5, <1>6, <1>7, <1>8 DEF Next, AuthStep

-----------------------------------------------------------------------------
(* Previews, tasks, answers.                                               *)

Data ==
  /\ DataTypes
  /\ PreviewsAreMade /\ TasksAsPreviewed /\ IntentsAsPreviewed
  /\ OneIntentPerSignal
  /\ AnswersAreConsumptions
  /\ LimitUnlessStale

LEMMA ExposureUnchanged == ASSUME UNCHANGED intents PROVE Exposure' = Exposure
  BY DEF Exposure, Filling

\* A preview is made, or made once and then only expired: whoever refers to it
\* finds the decision and the intent it had.
LEMMA PreviewStays ==
  ASSUME Data, NEW p \in Previews, NEW r \in PreviewRow, previews' = [previews EXCEPT ![p] = r],
         r.state # "none", r.signal \in Signals,
         \/ previews[p].state = "none" /\ r.intent = 0
         \/ r.decision = previews[p].decision /\ r.intent = previews[p].intent,
         UNCHANGED <<intents, world, task, answers, stale>>
  PROVE  Data'
<1>1. previews \in [Previews -> PreviewRow]
  BY DEF Data, DataTypes
<1>2. /\ previews' \in [Previews -> PreviewRow] /\ previews'[p] = r
      /\ \A q \in Previews \ {p} : previews'[q] = previews[q]
  BY <1>1
<1>3. DataTypes'
  BY <1>2 DEF Data, DataTypes
<1>4. PreviewsAreMade'
  BY <1>2 DEF Data, PreviewsAreMade
<1>5. TasksAsPreviewed'
  BY <1>2 DEF Data, TasksAsPreviewed
<1>6. IntentsAsPreviewed'
  <2>1. \A i \in DOMAIN intents : intents[i].preview \in Previews
    BY IntentRows DEF Data, IntentRow
  <2>2. QED
    BY <1>2, <2>1 DEF Data, IntentsAsPreviewed
<1>7. AnswersAreConsumptions'
  <2>1. \A a \in answers : a[1] \in Previews
    BY DEF Data, DataTypes
  <2>2. \A a \in answers : a[1] = p => r.intent = previews[p].intent
    BY DEF Data, AnswersAreConsumptions, PreviewsAreMade
  <2>3. QED
    BY <1>2, <2>1, <2>2 DEF Data, AnswersAreConsumptions
<1>8. OneIntentPerSignal' /\ LimitUnlessStale'
  BY ExposureUnchanged DEF Data, OneIntentPerSignal, LimitUnlessStale
<1>9. QED
  BY <1>3, <1>4, <1>5, <1>6, <1>7, <1>8 DEF Data

\* A thread takes up or drops a task, and may return an intent.
LEMMA TaskStays ==
  ASSUME Data, NEW t \in Threads, NEW k \in Task, task' \in {task, [task EXCEPT ![t] = k]},
         k.op # "none" =>
           /\ k.preview \in Previews /\ previews[k.preview].state # "none"
           /\ previews[k.preview].decision = k.decision /\ k.decision.usage + 1 <= MaxDailyNotional,
         \/ answers' = answers
         \/ \E p \in Previews :
              previews[p].intent # 0 /\ answers' = answers \cup {<<p, previews[p].intent>>},
         UNCHANGED <<previews, intents, world, stale>>
  PROVE  Data'
<1>1. task \in [Threads -> Task] /\ previews \in [Previews -> PreviewRow]
  BY DEF Data, DataTypes
<1>2. /\ task' \in [Threads -> Task] /\ task'[t] \in {task[t], k}
      /\ \A u \in Threads \ {t} : task'[u] = task[u]
  BY <1>1
<1>3. answers' \subseteq Previews \X Nat
  <2>1. \A p \in Previews : previews[p].intent \in Nat
    BY <1>1 DEF PreviewRow
  <2>2. QED
    BY <2>1 DEF Data, DataTypes
<1>4. DataTypes'
  BY <1>2, <1>3 DEF Data, DataTypes
<1>5. TasksAsPreviewed'
  BY <1>2 DEF Data, TasksAsPreviewed
<1>6. AnswersAreConsumptions'
  BY DEF Data, AnswersAreConsumptions
<1>7. PreviewsAreMade' /\ IntentsAsPreviewed' /\ OneIntentPerSignal' /\ LimitUnlessStale'
  BY ExposureUnchanged DEF Data, PreviewsAreMade, IntentsAsPreviewed, OneIntentPerSignal,
     LimitUnlessStale
<1>8. QED
  BY <1>4, <1>5, <1>6, <1>7 DEF Data

\* The steps of a thread but for the commit.
LEMMA ThreadStays ==
  ASSUME Data, NEW t \in Threads, ThreadStep(t), ~Commit(t)
  PROVE  Data'
<1>1. ASSUME NEW p \in Previews, NEW op \in {"submit", "authorize"}, Read(t, op, p) PROVE Data'
  <2> DEFINE k == [op |-> op, preview |-> p, decision |-> Current]
  <2>1. DataTypes
    BY DEF Data
  <2>2. k \in Task /\ k.preview = p /\ k.decision = Current /\ k.decision.usage = Usage
    BY <2>1, CurrentIsDecision DEF Task, Current
  <2>3. task' = [task EXCEPT ![t] = k] /\ previews[p].state # "none" /\ previews[p].decision = Current
        /\ Usage + 1 <= MaxDailyNotional /\ UNCHANGED <<previews, intents, world, answers, stale>>
    BY <1>1 DEF Read, Allowed
  <2> HIDE DEF k
  <2>4. QED
    BY <2>2, <2>3, TaskStays
<1>2. ASSUME AuthorizeTrade(t) \/ Refuse(t) PROVE Data'
  <2>1. task' = [task EXCEPT ![t] = NoTask] /\ UNCHANGED <<previews, intents, world, answers, stale>>
    BY <1>2 DEF AuthorizeTrade, Refuse, Done
  <2>2. QED
    BY <2>1, TaskTypes, TaskStays
<1>3. ASSUME ReturnConsumed(t) PROVE Data'
  <2>1. task[t].preview \in Previews
    BY <1>3 DEF Data, TasksAsPreviewed, ReturnConsumed
  <2>2. QED
    BY <1>3, <2>1, TaskTypes, TaskStays DEF ReturnConsumed, Done
<1>4. ASSUME NEW p \in Previews, ReturnExisting(t, p) PROVE Data'
  <2>1. task' = task /\ UNCHANGED <<previews, intents, world, stale>> /\ previews[p].intent # 0
        /\ answers' = answers \cup {<<p, previews[p].intent>>}
    BY <1>4 DEF ReturnExisting
  <2>2. QED
    BY <2>1, TaskTypes, TaskStays
<1>5. QED
  BY <1>1, <1>2, <1>3, <1>4 DEF ThreadStep, AuthorizeRead, SubmitRead

-----------------------------------------------------------------------------
(* The commit.                                                             *)

Traded == {i \in DOMAIN intents : intents[i].traded}
Pending == {i \in DOMAIN intents : intents[i].status = "pending"}

\* While no order has slipped through, notional_usage counts every intent whose
\* order has been filled or still may be.
LEMMA UsageCountsExposure ==
  ASSUME DataTypes, ~Uncounted
  PROVE  /\ Exposure \in Nat /\ Usage \in Nat /\ Exposure <= Usage
         /\ IsFiniteSet(Filling) /\ Exposure = Cardinality(Filling)
<1>1. \A i \in DOMAIN intents : intents[i].status \in {"pending", "FILLED", "closed"}
  BY IntentRows DEF IntentRow
<1>2. Filling \subseteq Traded \cup Pending
  BY <1>1 DEF Filling, Traded, Pending, Uncounted
<1>3. /\ IsFiniteSet(Traded) /\ Cardinality(Traded) \in Nat /\ IsFiniteSet(Pending) /\ Cardinality(Pending) \in Nat
      /\ IsFiniteSet(Filling) /\ Cardinality(Filling) \in Nat
      /\ IsFiniteSet(Traded \cap Pending) /\ Cardinality(Traded \cap Pending) \in Nat
      /\ IsFiniteSet(Traded \cup Pending) /\ Cardinality(Traded \cup Pending) \in Nat
  <2>1. Traded \subseteq DOMAIN intents /\ Pending \subseteq DOMAIN intents /\ Filling \subseteq DOMAIN intents
    BY DEF Traded, Pending, Filling
  <2>2. QED
    BY <2>1, IntentsAreFinite
<1>4. Cardinality(Traded \cup Pending) = Cardinality(Traded) + Cardinality(Pending) - Cardinality(Traded \cap Pending)
  BY <1>3, FS_Union
<1>5. Cardinality(Filling) <= Cardinality(Traded \cup Pending)
  BY <1>2, <1>3, FS_Subset
<1>6. Usage = Cardinality(Traded) + Cardinality(Pending) /\ Exposure = Cardinality(Filling)
  BY DEF Usage, Traded, Pending, Exposure, Filling
<1>7. QED
  BY <1>3, <1>4, <1>5, <1>6

\* The transaction of thread t makes intent n of preview p.
Committed(t, p, n) ==
  /\ n \in Nat /\ n # 0 /\ n \notin DOMAIN intents
  /\ p \in Previews /\ previews[p].intent = 0 /\ previews[p].state # "none"
  /\ previews[p].decision = task[t].decision /\ task[t].decision.usage + 1 <= MaxDailyNotional
  /\ \A i \in DOMAIN intents : intents[i].signal # previews[p].signal
  /\ NewIntent(t) \in IntentRow
  /\ intents' \in Seq(IntentRow) /\ DOMAIN intents' = DOMAIN intents \cup {n}
  /\ intents'[n] = NewIntent(t) /\ \A i \in DOMAIN intents : intents'[i] = intents[i]
  /\ previews' \in [Previews -> PreviewRow] /\ previews'[p].intent = n
  /\ \A q \in Previews \ {p} : previews'[q] = previews[q]
  /\ \A q \in Previews : /\ previews'[q].state = previews[q].state
                         /\ previews'[q].signal = previews[q].signal
                         /\ previews'[q].decision = previews[q].decision
  /\ answers' = answers \cup {<<p, n>>}

LEMMA CommitEffect ==
  ASSUME Data, NEW t \in Threads, Commit(t), NEW p, p = task[t].preview, NEW n, n = Len(intents) + 1
  PROVE  Committed(t, p, n)
<1>1. /\ task[t].op = "submit" /\ previews[p].state = "open" /\ previews[p].intent = 0
      /\ \A i \in DOMAIN intents : intents[i].signal # previews[p].signal
  BY DEF Commit, Insertable
<1>2. /\ p \in Previews /\ previews[p].decision = task[t].decision
      /\ task[t].decision.usage + 1 <= MaxDailyNotional /\ previews[p].signal \in Signals
  BY <1>1 DEF Data, TasksAsPreviewed, PreviewsAreMade
<1>3. previews \in [Previews -> PreviewRow] /\ previews[p] \in PreviewRow
  BY <1>2 DEF Data, DataTypes
<1>4. NewIntent(t) \in IntentRow
  <2>1. previews[p].mode \in Modes /\ previews[p].decision.world \in Worlds
    BY <1>3 DEF PreviewRow, Decision
  <2>2. QED
    BY <1>2, <2>1 DEF NewIntent, IntentRow
<1>5. intents \in Seq(IntentRow) /\ Len(intents) \in Nat /\ DOMAIN intents = 1..Len(intents)
      /\ intents' = Append(intents, NewIntent(t))
  BY DEF Data, DataTypes, Commit
<1>6. /\ n \in Nat /\ n # 0 /\ n \notin DOMAIN intents /\ Len(intents') = n
      /\ intents' \in Seq(IntentRow) /\ DOMAIN intents' = DOMAIN intents \cup {n}
      /\ intents'[n] = NewIntent(t) /\ \A i \in DOMAIN intents : intents'[i] = intents[i]
  BY <1>4, <1>5
<1>7. previews' = [previews EXCEPT ![p].intent = n] /\ answers' = answers \cup {<<p, n>>}
  BY <1>6 DEF Commit
<1> DEFINE r == [previews[p] EXCEPT !.intent = n]
<1>8. /\ r \in PreviewRow /\ r.intent = n /\ r.state = previews[p].state
      /\ r.signal = previews[p].signal /\ r.decision = previews[p].decision
  BY <1>3, <1>6 DEF PreviewRow
<1>9. previews' = [previews EXCEPT ![p] = r]
  BY <1>7
<1> HIDE DEF r
<1>10. /\ previews' \in [Previews -> PreviewRow] /\ previews'[p] = r
       /\ \A q \in Previews \ {p} : previews'[q] = previews[q]
  BY <1>2, <1>3, <1>8, <1>9
<1>11. \A q \in Previews : /\ previews'[q].state = previews[q].state
                           /\ previews'[q].signal = previews[q].signal
                           /\ previews'[q].decision = previews[q].decision
  BY <1>8, <1>10
<1>12. QED
  BY <1>1, <1>2, <1>4, <1>6, <1>7, <1>8, <1>10, <1>11 DEF Committed

LEMMA CommitStays == ASSUME Data, NEW t \in Threads, Commit(t) PROVE Data'
<1> DEFINE p == task[t].preview
           n == Len(intents) + 1
<1>1. /\ n \in Nat /\ n # 0 /\ n \notin DOMAIN intents
      /\ p \in Previews /\ previews[p].intent = 0 /\ previews[p].state # "none"
      /\ previews[p].decision = task[t].decision /\ task[t].decision.usage + 1 <= MaxDailyNotional
      /\ \A i \in DOMAIN intents : intents[i].signal # previews[p].signal
      /\ NewIntent(t) \in IntentRow
      /\ intents' \in Seq(IntentRow) /\ DOMAIN intents' = DOMAIN intents \cup {n}
      /\ intents'[n] = NewIntent(t) /\ \A i \in DOMAIN intents : intents'[i] = intents[i]
      /\ previews' \in [Previews -> PreviewRow] /\ previews'[p].intent = n
      /\ \A q \in Previews \ {p} : previews'[q] = previews[q]
      /\ \A q \in Previews : /\ previews'[q].state = previews[q].state
                             /\ previews'[q].signal = previews[q].signal
                             /\ previews'[q].decision = previews[q].decision
      /\ answers' = answers \cup {<<p, n>>}
  BY CommitEffect DEF Committed
<1>2. /\ NewIntent(t).preview = p /\ NewIntent(t).signal = previews[p].signal
      /\ NewIntent(t).order = task[t].decision.world /\ NewIntent(t).status = "pending"
  BY DEF NewIntent
<1> HIDE DEF p, n
<1>3. /\ task' = [task EXCEPT ![t] = NoTask] /\ world' = world
      /\ stale' = (stale \/ task[t].decision.usage # Usage \/ Uncounted)
  BY DEF Commit, Done
<1>4. DataTypes'
  <2>1. answers' \subseteq Previews \X Nat
    BY <1>1 DEF Data, DataTypes
  <2>2. task' \in [Threads -> Task]
    BY <1>3, TaskTypes DEF Data, DataTypes
  <2>3. stale' \in BOOLEAN
    BY <1>3 DEF Data, DataTypes
  <2>4. QED
    BY <1>1, <1>3, <2>1, <2>2, <2>3 DEF Data, DataTypes
<1>5. PreviewsAreMade'
  BY <1>1 DEF Data, PreviewsAreMade
<1>6. TasksAsPreviewed'
  <2>1. task'[t].op = "none" /\ \A u \in Threads \ {t} : task'[u] = task[u]
    BY <1>3, TaskTypes DEF Data, DataTypes
  <2>2. QED
    BY <1>1, <2>1 DEF Data, TasksAsPreviewed
<1>7. IntentsAsPreviewed'
  <2>1. \A i \in DOMAIN intents : intents[i].preview \in Previews
    BY IntentRows DEF Data, IntentRow
  <2>2. QED
    BY <1>1, <1>2, <2>1 DEF Data, IntentsAsPreviewed
<1>8. OneIntentPerSignal'
  BY <1>1, <1>2 DEF Data, OneIntentPerSignal
<1>9. AnswersAreConsumptions'
  <2>1. \A a \in answers : a[1] \in Previews /\ a[1] # p
    BY <1>1 DEF Data, DataTypes, AnswersAreConsumptions
  <2>2. <<p, n>>[1] = p /\ <<p, n>>[2] = n
    OBVIOUS
  <2>3. QED
    BY <1>1, <2>1, <2>2 DEF Data, AnswersAreConsumptions
<1>10. LimitUnlessStale'
  <2>1. SUFFICES ASSUME ~stale' PROVE Exposure' <= MaxDailyNotional
    BY DEF LimitUnlessStale
  <2>2. task[t].decision.usage = Usage /\ ~Uncounted
    BY <1>3, <2>1
  <2>3. /\ Exposure \in Nat /\ Usage \in Nat /\ Exposure <= Usage
        /\ IsFiniteSet(Filling) /\ Exposure = Cardinality(Filling)
    BY <2>2, UsageCountsExposure DEF Data
  <2>4. /\ IsFiniteSet(Filling \cup {n}) /\ Cardinality(Filling \cup {n}) = Exposure + 1
    <3>1. n \notin Filling
      BY <1>1 DEF Filling
    <3>2. QED
      BY <2>3, <3>1, FS_AddElement
  <2>5. Filling' \subseteq Filling \cup {n}
    BY <1>1 DEF Filling
  <2>6. Cardinality(Filling') <= Exposure + 1 /\ Cardinality(Filling') \in Nat
    BY <2>4, <2>5, FS_Subset, FS_CardinalityType
  <2>7. Exposure' = Cardinality(Filling')
    BY DEF Exposure, Filling
  <2>8. Usage + 1 <= MaxDailyNotional
    BY <1>1, <2>2
  <2>9. QED
    BY <2>3, <2>6, <2>7, <2>8
<1>11. QED
  BY <1>4, <1>5, <1>6, <1>7, <1>8, <1>9, <1>10 DEF Data

-----------------------------------------------------------------------------
(* What is ingested.                                                       *)

\* An intent's row changes in its status, its outcome and what was traded, and
\* its order does not come back to life.
LEMMA UpdateStays ==
  ASSUME Data, NEW i \in DOMAIN intents, NEW r \in IntentRow, Update(i, r),
         r.preview = intents[i].preview, r.signal = intents[i].signal, r.order = intents[i].order,
         intents[i].outcome = "dead" => r.outcome = "dead"
  PROVE  Data'
<1>1. /\ intents' = [intents EXCEPT ![i] = r] /\ intents \in Seq(IntentRow)
      /\ UNCHANGED <<previews, world, task, answers, stale>>
  BY DEF Update, Data, DataTypes
<1>2. /\ intents' \in Seq(IntentRow) /\ DOMAIN intents' = DOMAIN intents /\ intents'[i] = r
      /\ \A j \in DOMAIN intents \ {i} : intents'[j] = intents[j]
  BY <1>1
<1>3. DataTypes'
  BY <1>1, <1>2 DEF Data, DataTypes
<1>4. PreviewsAreMade' /\ TasksAsPreviewed' /\ AnswersAreConsumptions'
  BY <1>1 DEF Data, PreviewsAreMade, TasksAsPreviewed, AnswersAreConsumptions
<1>5. IntentsAsPreviewed'
  BY <1>1, <1>2 DEF Data, IntentsAsPreviewed
<1>6. \A j \in DOMAIN intents : intents'[j].signal = intents[j].signal
  BY <1>2
<1>7. OneIntentPerSignal'
  BY <1>2, <1>6 DEF Data, OneIntentPerSignal
<1>8. LimitUnlessStale'
  <2>1. Filling' \subseteq Filling
    BY <1>2 DEF Filling
  <2>2. IsFiniteSet(Filling) /\ Cardinality(Filling) \in Nat
    <3>1. Filling \subseteq DOMAIN intents
      BY DEF Filling
    <3>2. QED
      BY <3>1, IntentsAreFinite DEF Data
  <2>3. Cardinality(Filling') <= Cardinality(Filling) /\ Cardinality(Filling') \in Nat
    BY <2>1, <2>2, FS_Subset, FS_CardinalityType
  <2>4. Exposure' = Cardinality(Filling') /\ Exposure = Cardinality(Filling)
    BY DEF Exposure, Filling
  <2>5. QED
    BY <1>1, <2>2, <2>3, <2>4 DEF Data, LimitUnlessStale
<1>9. QED
  BY <1>3, <1>4, <1>5, <1>7, <1>8 DEF Data

LEMMA IngestStays == ASSUME Data, Ingest PROVE Data'
<1>1. CASE SnapshotIngested
  <2>1. world' \in Worlds /\ UNCHANGED <<previews, intents, task, answers, stale>>
    BY <1>1 DEF SnapshotIngested
  <2>2. DataTypes'
    BY <2>1 DEF Data, DataTypes
  <2>3. QED
    BY <2>1, <2>2, ExposureUnchanged DEF Data, PreviewsAreMade, TasksAsPreviewed, IntentsAsPreviewed,
       OneIntentPerSignal, AnswersAreConsumptions, LimitUnlessStale
<1>2. ASSUME NEW i \in DOMAIN intents,
             OrderEnds(i) \/ OrderEventIngested(i) \/ RejectionIngested(i) \/ TradeEventIngested(i)
      PROVE  Data'
  <2>1. intents[i] \in IntentRow
    BY IntentRows DEF Data
  <2>2. ASSUME NEW end \in {"filled", "dead"}, intents[i].outcome = "working",
               Update(i, [intents[i] EXCEPT !.outcome = end])
        PROVE  Data'
    <3> DEFINE r == [intents[i] EXCEPT !.outcome = end]
    <3>1. /\ r \in IntentRow /\ r.preview = intents[i].preview /\ r.signal = intents[i].signal
          /\ r.order = intents[i].order
      BY <2>1 DEF IntentRow
    <3>2. Update(i, r)
      BY <2>2
    <3> HIDE DEF r
    <3>3. QED
      BY <2>2, <3>1, <3>2, UpdateStays
  <2>3. ASSUME NEW s \in {"pending", "FILLED", "closed"}, Update(i, [intents[i] EXCEPT !.status = s])
        PROVE  Data'
    <3> DEFINE r == [intents[i] EXCEPT !.status = s]
    <3>1. /\ r \in IntentRow /\ r.preview = intents[i].preview /\ r.signal = intents[i].signal
          /\ r.order = intents[i].order /\ r.outcome = intents[i].outcome
      BY <2>1 DEF IntentRow
    <3>2. Update(i, r)
      BY <2>3
    <3> HIDE DEF r
    <3>3. QED
      BY <3>1, <3>2, UpdateStays
  <2>4. ASSUME TradeEventIngested(i) PROVE Data'
    <3> DEFINE r == [intents[i] EXCEPT !.traded = TRUE]
    <3>1. Update(i, r)
      BY <2>4 DEF TradeEventIngested
    <3>2. /\ r \in IntentRow /\ r.preview = intents[i].preview /\ r.signal = intents[i].signal
          /\ r.order = intents[i].order /\ r.outcome = intents[i].outcome
      BY <2>1 DEF IntentRow
    <3> HIDE DEF r
    <3>3. QED
      BY <3>1, <3>2, UpdateStays
  <2>5. Reports(i) \subseteq {"pending", "FILLED", "closed"}
    BY <2>1 DEF Reports, IntentRow
  <2>6. QED
    BY <1>2, <2>2, <2>3, <2>4, <2>5 DEF OrderEnds, OrderEventIngested, RejectionIngested
<1>3. QED
  BY <1>1, <1>2 DEF Ingest

-----------------------------------------------------------------------------
(* The theorems.                                                           *)

LEMMA DataUnchanged ==
  ASSUME Data, UNCHANGED <<previews, intents, world, task, answers, stale>>
  PROVE  Data'
<1>1. DataTypes'
  BY DEF Data, DataTypes
<1>2. QED
  BY <1>1, ExposureUnchanged DEF Data, PreviewsAreMade, TasksAsPreviewed, IntentsAsPreviewed,
     OneIntentPerSignal, AnswersAreConsumptions, LimitUnlessStale

LEMMA DataStays == ASSUME Data, Next PROVE Data'
<1>1. ASSUME NEW p \in Previews, NEW m \in Modes, NEW s \in Signals, PreviewTrade(p, m, s) PROVE Data'
  <2> DEFINE r == [state |-> "open", mode |-> m, signal |-> s, decision |-> Current,
                   allowed |-> Allowed, intent |-> 0]
  <2>1. Current \in Decision /\ Allowed \in BOOLEAN
    BY CurrentIsDecision DEF Data, Allowed
  <2>2. r \in PreviewRow /\ r.state # "none" /\ r.signal \in Signals /\ r.intent = 0
    BY <2>1 DEF PreviewRow
  <2>3. previews' = [previews EXCEPT ![p] = r] /\ previews[p].state = "none"
        /\ UNCHANGED <<intents, world, task, answers, stale>>
    BY <1>1 DEF PreviewTrade
  <2> HIDE DEF r
  <2>4. QED
    BY <2>2, <2>3, PreviewStays
<1>2. ASSUME NEW p \in Previews, PreviewExpires(p) PROVE Data'
  <2> DEFINE r == [previews[p] EXCEPT !.state = "expired"]
  <2>1. previews[p] \in PreviewRow /\ previews[p].state = "open"
    BY <1>2 DEF Data, DataTypes, PreviewExpires
  <2>2. /\ r \in PreviewRow /\ r.state # "none" /\ r.signal = previews[p].signal
        /\ r.decision = previews[p].decision /\ r.intent = previews[p].intent
    BY <2>1 DEF PreviewRow
  <2>3. previews[p].signal \in Signals
    BY <2>1 DEF Data, PreviewsAreMade
  <2>4. previews' = [previews EXCEPT ![p] = r] /\ UNCHANGED <<intents, world, task, answers, stale>>
    BY <1>2 DEF PreviewExpires
  <2> HIDE DEF r
  <2>5. QED
    BY <2>2, <2>3, <2>4, PreviewStays
<1>3. ASSUME NEW t \in Threads, ThreadStep(t) PROVE Data'
  BY <1>3, ThreadStays, CommitStays
<1>4. ASSUME AuthStep PROVE Data'
  <2>1. UNCHANGED <<previews, intents, world, task, answers, stale>>
    BY <1>4 DEF AuthStep, Operator, SessionExpires, LiveExpires, ApprovalExpires, ApprovePreview,
       AuthorizeSession, EnableLive, RevokeSession, Halt, ClearHalt, SetMode, EndAuthorizations
  <2>2. QED
    BY <2>1, DataUnchanged
<1>5. QED
  BY <1>1, <1>2, <1>3, <1>4, IngestStays DEF Next, TimePasses, AuthStep

LEMMA Initially == ASSUME Init PROVE IInv
<1>1. AuthTypes
  <2>1. session \in Nat /\ era \in Nat /\ approvals \subseteq ApprovalRow
    BY DEF Init
  <2>2. mode \in Modes /\ halted \in BOOLEAN /\ live \in BOOLEAN
    BY DEF Init
  <2>3. QED
    BY <2>1, <2>2 DEF AuthTypes
<1>2. DataTypes
  <2>1. [state |-> "none", mode |-> "OBSERVE_ONLY", signal |-> NoSignal,
         decision |-> NoTask.decision, allowed |-> FALSE, intent |-> 0] \in PreviewRow
    BY TaskTypes DEF PreviewRow, Modes, NoTask
  <2>2. previews \in [Previews -> PreviewRow] /\ task \in [Threads -> Task]
    BY <2>1, TaskTypes DEF Init
  <2>3. intents \in Seq(IntentRow) /\ world \in Worlds /\ answers \subseteq Previews \X Nat
    BY DEF Init, Worlds
  <2>4. stale \in BOOLEAN
    BY DEF Init
  <2>5. QED
    BY <2>2, <2>3, <2>4 DEF DataTypes
<1>3. DOMAIN intents = {} /\ approvals = {} /\ answers = {} /\ session = 0
  BY DEF Init
<1>4. PreviewsAreMade /\ TasksAsPreviewed
  BY TaskTypes DEF Init, PreviewsAreMade, TasksAsPreviewed
<1>5. /\ IntentsAsPreviewed /\ OneIntentPerSignal /\ AnswersAreConsumptions /\ GrantsAreCurrent
  BY <1>3 DEF IntentsAsPreviewed, OneIntentPerSignal, AnswersAreConsumptions, GrantsAreCurrent
<1>6. LimitUnlessStale
  <2>1. Filling = {}
    BY <1>3 DEF Filling
  <2>2. Exposure = 0
    BY <2>1, FS_EmptySet DEF Exposure
  <2>3. QED
    BY <2>2 DEF LimitUnlessStale
<1>7. QED
  BY <1>1, <1>2, <1>4, <1>5, <1>6, TypesAre DEF IInv

LEMMA Unchanged == ASSUME IInv, UNCHANGED vars PROVE IInv'
<1>1. Data /\ AuthTypes /\ UNCHANGED <<previews, intents, world, task, answers, stale, authVars>>
  BY TypesAre DEF IInv, Data, vars
<1>2. Data'
  BY <1>1, DataUnchanged
<1>3. AuthTypes' /\ GrantsAreCurrent'
  BY <1>1 DEF AuthTypes, IInv, GrantsAreCurrent
<1>4. (TypeOK <=> AuthTypes /\ DataTypes)'
  BY TypesAre, PTL
<1>5. QED
  BY <1>2, <1>3, <1>4 DEF IInv, Data

\* IInv holds in every state, however reads and transactions of the threads,
\* the operator, the lapse of grants and the queue loop interleave.
THEOREM SubmissionInvariance == Spec => []IInv
<1>1. Init => IInv
  BY Initially
<1>2. IInv /\ [Next]_vars => IInv'
  <2> SUFFICES ASSUME IInv, Next PROVE IInv'
    BY Unchanged
  <2>1. Data
    BY TypesAre DEF IInv, Data
  <2>2. Data'
    BY <2>1, DataStays
  <2>3. AuthTypes' /\ GrantsAreCurrent'
    BY GrantsStay DEF IInv
  <2>4. (TypeOK <=> AuthTypes /\ DataTypes)'
    BY TypesAre, PTL
  <2>5. QED
    BY <2>2, <2>3, <2>4 DEF IInv, Data
<1>3. QED
  BY <1>1, <1>2, PTL DEF Spec

\* Every row of previews, approvals and intents has its type, for any number of
\* previews, signals and threads.
THEOREM SubmissionTypeCorrectness == Spec => []TypeOK
<1>1. IInv => TypeOK
  BY DEF IInv
<1>2. QED
  BY <1>1, SubmissionInvariance, PTL

\* Whoever submits a preview, and however often, is answered with one intent:
\* the preview's row names it and is not written again.
THEOREM OneAnswer == Spec => []SameAnswer
<1>1. IInv => SameAnswer
  BY DEF IInv, AnswersAreConsumptions, SameAnswer
<1>2. QED
  BY <1>1, SubmissionInvariance, PTL

\* The order committed is the one previewed, although the thread resolved it
\* anew from snapshots that may have changed since, and again before it commits.
THEOREM PreviewedOrder == Spec => []OrderIsThePreviewedOne
<1>1. IInv => OrderIsThePreviewedOne
  BY DEF IInv, IntentsAsPreviewed, OrderIsThePreviewedOne
<1>2. QED
  BY <1>1, SubmissionInvariance, PTL

\* What may be filled stays within max_daily_notional as long as no thread has
\* committed from a usage that had changed, or that missed an order: as long as
\* its intent is pending or its trades are entered, notional_usage counts it.
THEOREM LimitKept == Spec => []LimitUnlessStale
<1>1. IInv => LimitUnlessStale
  BY DEF IInv
<1>2. QED
  BY <1>1, SubmissionInvariance, PTL

\* A live intent is committed on an approval of its preview or a session of the
\* present era: a halt, a revocation and a mode change end them all, also for a
\* thread that read its preview before.
THEOREM GrantsOfTheEra == Spec => GrantsEnd
<1> DEFINE new == intents'[Len(intents')]
           Granted == \/ session = era
                      \/ \E a \in approvals \ approvals' : a.preview = new.preview /\ a.era = era
<1>1. ASSUME IInv, [Next]_vars
      PROVE  [Len(intents') > Len(intents) /\ new.mode = "MANUAL_LIVE" => Granted]_vars
  <2> SUFFICES ASSUME Next, Len(intents') > Len(intents), new.mode = "MANUAL_LIVE"
               PROVE  Granted
    BY <1>1
  <2>1. Data /\ AuthTypes /\ GrantsAreCurrent
    BY <1>1, TypesAre DEF IInv, Data
  <2>2. intents \in Seq(IntentRow) /\ Len(intents) \in Nat
    BY <2>1 DEF Data, DataTypes
  <2>3. Len(intents') # Len(intents)
    BY <2>2
  <2>4. PICK t \in Threads : Commit(t)
    <3>1. ASSUME NEW i, NEW r, Update(i, r) PROVE Len(intents') = Len(intents)
      BY <2>2, <3>1 DEF Update
    <3>2. ~Ingest
      BY <2>3, <3>1 DEF Ingest, SnapshotIngested, OrderEnds, OrderEventIngested, RejectionIngested,
         TradeEventIngested
    <3>3. ~AuthStep
      BY <2>3 DEF AuthStep, Operator, SessionExpires, LiveExpires, ApprovalExpires, ApprovePreview,
         AuthorizeSession, EnableLive, RevokeSession, Halt, ClearHalt, SetMode, EndAuthorizations
    <3>4. ASSUME NEW t \in Threads, ThreadStep(t) PROVE Commit(t)
      BY <2>3, <3>4 DEF ThreadStep, AuthorizeRead, SubmitRead, Read, ReturnExisting, ReturnConsumed,
         AuthorizeTrade, Refuse
    <3>5. ASSUME NEW p, NEW m, NEW s, PreviewTrade(p, m, s) \/ PreviewExpires(p) PROVE FALSE
      BY <2>3, <3>5 DEF PreviewTrade, PreviewExpires
    <3>6. QED
      BY <3>2, <3>3, <3>4, <3>5 DEF Next, TimePasses, AuthStep
  <2> DEFINE p == task[t].preview
  <2>5. intents' = Append(intents, NewIntent(t)) /\ Authorized(p)
    BY <2>4 DEF Commit
  <2>6. previews[p].mode = "MANUAL_LIVE" /\ new.preview = p
    <3>1. new = NewIntent(t)
      <4>1. NewIntent(t) \in IntentRow
        BY <2>1, <2>4, CommitEffect DEF Committed
      <4>2. QED
        BY <2>2, <2>5, <4>1
    <3>2. QED
      BY <3>1 DEF NewIntent
  <2> HIDE DEF new
  <2>7. \/ \E a \in approvals : a.preview = p /\ approvals' = approvals \ {a}
        \/ session # 0
    BY <2>5, <2>6 DEF Authorized
  <2>8. QED
    BY <2>1, <2>6, <2>7 DEF GrantsAreCurrent
<1>2. QED
  BY <1>1, SubmissionInvariance, PTL DEF Spec, GrantsEnd


-----------------------------------------------------------------------------
(* The refinement of SignalLedger.                                         *)

\* A preview that was consumed names the intent that was made of it.
ConsumptionsAreIntents ==
  \A p \in Previews : previews[p].intent # 0 =>
    previews[p].intent \in DOMAIN intents /\ intents[previews[p].intent].preview = p

SameOffers ==
  \A p \in Previews :
    /\ previews'[p].state = "none" <=> previews[p].state = "none"
    /\ previews'[p].signal = previews[p].signal /\ previews'[p].decision = previews[p].decision
    /\ previews'[p].intent = previews[p].intent

SameEntries ==
  /\ DOMAIN intents' = DOMAIN intents
  /\ \A i \in DOMAIN intents :
       /\ intents'[i].preview = intents[i].preview /\ intents'[i].signal = intents[i].signal
       /\ intents'[i].order = intents[i].order

\* Nothing is said, or what a preview's row says.
SameAnswers ==
  \/ answers' = answers
  \/ \E p \in Previews :
       previews[p].intent # 0 /\ answers' = answers \cup {<<p, previews[p].intent>>}

Offers(p, s) ==
  /\ previews[p].state = "none"
  /\ previews'[p].state # "none" /\ previews'[p].signal = s /\ previews'[p].decision.world = world
  /\ previews'[p].intent = 0
  /\ \A q \in Previews \ {p} : previews'[q] = previews[q]
  /\ UNCHANGED <<intents, answers>>

LEMMA SameRows ==
  /\ UNCHANGED previews => SameOffers
  /\ UNCHANGED intents => SameEntries
  BY DEF SameOffers, SameEntries

\* The steps, as far as a client can tell.
LEMMA ClientSteps ==
  ASSUME Data, Next
  PROVE  \/ \E p \in Previews, s \in Signals : Offers(p, s)
         \/ \E t \in Threads : Commit(t)
         \/ SameOffers /\ SameEntries /\ SameAnswers
<1>0. previews \in [Previews -> PreviewRow]
  BY DEF Data, DataTypes
<1>1. ASSUME NEW p \in Previews, NEW m \in Modes, NEW s \in Signals, PreviewTrade(p, m, s)
      PROVE  Offers(p, s)
  BY <1>0, <1>1 DEF PreviewTrade, Offers, Current
<1>2. ASSUME NEW p \in Previews, PreviewExpires(p) PROVE SameOffers /\ SameEntries /\ SameAnswers
  <2> DEFINE r == [previews[p] EXCEPT !.state = "expired"]
  <2>1. previews[p] \in PreviewRow /\ previews[p].state = "open"
    BY <1>0, <1>2 DEF PreviewExpires
  <2>2. /\ r.state = "expired" /\ r.signal = previews[p].signal
        /\ r.decision = previews[p].decision /\ r.intent = previews[p].intent
    BY <2>1 DEF PreviewRow
  <2>3. previews' = [previews EXCEPT ![p] = r] /\ UNCHANGED <<intents, answers>>
    BY <1>2 DEF PreviewExpires
  <2> HIDE DEF r
  <2>4. previews'[p] = r /\ \A q \in Previews \ {p} : previews'[q] = previews[q]
    BY <1>0, <2>3
  <2>5. SameOffers
    BY <2>1, <2>2, <2>4 DEF SameOffers
  <2>6. QED
    BY <2>3, <2>5, SameRows DEF SameAnswers
<1>3. ASSUME NEW t \in Threads, ThreadStep(t), ~Commit(t) PROVE SameOffers /\ SameEntries /\ SameAnswers
  <2>1. UNCHANGED <<previews, intents>>
    BY <1>3 DEF ThreadStep, AuthorizeRead, SubmitRead, Read, ReturnExisting, ReturnConsumed,
                AuthorizeTrade, Refuse
  <2>2. ASSUME ReturnConsumed(t) PROVE SameAnswers
    <3>1. task[t].preview \in Previews
      BY <2>2 DEF ReturnConsumed, Data, TasksAsPreviewed
    <3>2. QED
      BY <2>2, <3>1 DEF ReturnConsumed, SameAnswers
  <2>3. SameAnswers
    BY <1>3, <2>2 DEF ThreadStep, AuthorizeRead, SubmitRead, Read, ReturnExisting, AuthorizeTrade,
                      Refuse, SameAnswers
  <2>4. QED
    BY <2>1, <2>3, SameRows
<1>4. CASE AuthStep
  <2>1. UNCHANGED <<previews, intents, answers>>
    BY <1>4 DEF AuthStep, Operator, SessionExpires, LiveExpires, ApprovalExpires, ApprovePreview,
       AuthorizeSession, EnableLive, RevokeSession, Halt, ClearHalt, SetMode, EndAuthorizations
  <2>2. QED
    BY <2>1, SameRows DEF SameAnswers
<1>5. CASE SnapshotIngested
  BY <1>5, SameRows DEF SnapshotIngested, SameAnswers
<1>6. ASSUME NEW i \in DOMAIN intents,
             OrderEnds(i) \/ OrderEventIngested(i) \/ RejectionIngested(i) \/ TradeEventIngested(i)
      PROVE  SameOffers /\ SameEntries /\ SameAnswers
  <2>1. intents[i] \in IntentRow /\ intents \in Seq(IntentRow)
    BY IntentRows DEF Data, DataTypes
  <2>2. PICK r : /\ Update(i, r) /\ r.preview = intents[i].preview /\ r.signal = intents[i].signal
                 /\ r.order = intents[i].order
    <3>1. ASSUME NEW end, Update(i, [intents[i] EXCEPT !.outcome = end])
          PROVE  \E r : /\ Update(i, r) /\ r.preview = intents[i].preview
                        /\ r.signal = intents[i].signal /\ r.order = intents[i].order
      BY <2>1, <3>1 DEF IntentRow
    <3>2. ASSUME NEW s, Update(i, [intents[i] EXCEPT !.status = s])
          PROVE  \E r : /\ Update(i, r) /\ r.preview = intents[i].preview
                        /\ r.signal = intents[i].signal /\ r.order = intents[i].order
      BY <2>1, <3>2 DEF IntentRow
    <3>3. ASSUME Update(i, [intents[i] EXCEPT !.traded = TRUE])
          PROVE  \E r : /\ Update(i, r) /\ r.preview = intents[i].preview
                        /\ r.signal = intents[i].signal /\ r.order = intents[i].order
      BY <2>1, <3>3 DEF IntentRow
    <3>4. QED
      BY <1>6, <3>1, <3>2, <3>3 DEF OrderEnds, OrderEventIngested, RejectionIngested, TradeEventIngested
  <2>3. /\ intents' = [intents EXCEPT ![i] = r] /\ UNCHANGED <<previews, answers>>
    BY <2>2 DEF Update
  <2>4. /\ DOMAIN intents' = DOMAIN intents /\ intents'[i] = r
        /\ \A j \in DOMAIN intents \ {i} : intents'[j] = intents[j]
    BY <2>1, <2>3
  <2>5. QED
    BY <2>2, <2>3, <2>4, SameRows DEF SameEntries, SameAnswers
<1>7. QED
  BY <1>1, <1>2, <1>3, <1>4, <1>5, <1>6 DEF Next, TimePasses, Ingest, AuthStep

LEMMA ConsumptionsStay ==
  ASSUME Data, ConsumptionsAreIntents, Next PROVE ConsumptionsAreIntents'
<1>1. ASSUME NEW p \in Previews, NEW s \in Signals, Offers(p, s) PROVE ConsumptionsAreIntents'
  BY <1>1 DEF Offers, ConsumptionsAreIntents
<1>2. ASSUME NEW t \in Threads, Commit(t) PROVE ConsumptionsAreIntents'
  <2>0. PICK p, n : p = task[t].preview /\ n = Len(intents) + 1
    OBVIOUS
  <2>1. Committed(t, p, n)
    BY <1>2, <2>0, CommitEffect
  <2>2. NewIntent(t).preview = p
    BY <2>0 DEF NewIntent
  <2>3. QED
    BY <2>1, <2>2 DEF Committed, ConsumptionsAreIntents
<1>3. CASE SameOffers /\ SameEntries
  BY <1>3 DEF SameOffers, SameEntries, ConsumptionsAreIntents
<1>4. QED
  BY <1>1, <1>2, <1>3, ClientSteps

LEMMA OffersKept == ASSUME SameOffers PROVE Offered' = Offered
  BY DEF SameOffers, Offered

LEMMA EntriesKept == ASSUME SameEntries PROVE Entries' = Entries
  BY DEF SameEntries, Entries

\* An offer is made, entered or told of, or nothing happens to the ledger.
LEMMA StepOfLedger ==
  ASSUME Data, ConsumptionsAreIntents, Next PROVE [Ledger!Next]_(Ledger!absVars)
<1>1. ASSUME NEW p \in Previews, NEW s \in Signals, Offers(p, s) PROVE Ledger!Next
  <2> DEFINE e == [preview |-> p, signal |-> s, order |-> world]
  <2>1. world \in Worlds
    BY DEF Data, DataTypes
  <2>2. \A o \in Offered : o.preview # p
    BY <1>1 DEF Offers, Offered
  <2>3. Offered' = Offered \cup {e}
    BY <1>1 DEF Offers, Offered
  <2>4. UNCHANGED <<Entries, answers>>
    BY <1>1 DEF Offers, Entries
  <2>5. Ledger!MakeOffer(p)
    BY <2>1, <2>2, <2>3, <2>4 DEF Ledger!MakeOffer
  <2>6. QED
    BY <2>5 DEF Ledger!Next
<1>2. ASSUME NEW t \in Threads, Commit(t) PROVE Ledger!Next
  <2>0. PICK p, n : p = task[t].preview /\ n = Len(intents) + 1
    OBVIOUS
  <2> DEFINE e == [preview |-> p, signal |-> previews[p].signal, order |-> previews[p].decision.world]
  <2>1. /\ n \in Nat /\ n \notin DOMAIN intents /\ p \in Previews /\ previews[p].state # "none"
        /\ previews[p].decision = task[t].decision
        /\ \A i \in DOMAIN intents : intents[i].signal # previews[p].signal
        /\ DOMAIN intents' = DOMAIN intents \cup {n}
        /\ intents'[n] = NewIntent(t) /\ \A i \in DOMAIN intents : intents'[i] = intents[i]
        /\ \A q \in Previews : /\ previews'[q].state = previews[q].state
                               /\ previews'[q].signal = previews[q].signal
                               /\ previews'[q].decision = previews[q].decision
        /\ answers' = answers \cup {<<p, n>>}
    BY <1>2, <2>0, CommitEffect DEF Committed
  <2>2. e \in Offered
    BY <2>1 DEF Offered
  <2>3. /\ NewIntent(t).preview = e.preview /\ NewIntent(t).signal = e.signal
        /\ NewIntent(t).order = e.order
    BY <2>0, <2>1 DEF NewIntent
  <2>4. /\ Len(intents) \in Nat /\ DOMAIN intents = 1..Len(intents)
        /\ Len(Entries) = Len(intents) /\ DOMAIN Entries = DOMAIN intents
    BY IntentsAreFinite DEF Data, Entries
  <2>5. \A k \in DOMAIN Entries : Entries[k].signal # e.signal
    BY <2>1, <2>4 DEF Entries
  <2>6. Offered' = Offered
    BY <2>1 DEF Offered
  <2>7. DOMAIN intents' = 1..n
    BY <2>0, <2>1, <2>4
  <2>8. Entries' = [i \in 1..n |-> IF i \in DOMAIN Entries THEN Entries[i] ELSE e]
    <3>1. Entries' = [i \in 1..n |-> [preview |-> intents'[i].preview, signal |-> intents'[i].signal,
                                      order |-> intents'[i].order]]
      BY <2>7 DEF Entries
    <3>2. \A i \in DOMAIN Entries :
            Entries[i] = [preview |-> intents'[i].preview, signal |-> intents'[i].signal,
                          order |-> intents'[i].order]
      BY <2>1, <2>4 DEF Entries
    <3>3. \A i \in 1..n : i \notin DOMAIN Entries => i = n
      BY <2>0, <2>1, <2>4
    <3>4. e = [preview |-> intents'[n].preview, signal |-> intents'[n].signal,
               order |-> intents'[n].order]
      BY <2>1, <2>3
    <3> HIDE DEF e
    <3>5. QED
      BY <3>1, <3>2, <3>3, <3>4
  <2>9. Append(Entries, e) = [i \in 1..n |-> IF i \in DOMAIN Entries THEN Entries[i] ELSE e]
    <3>1. Entries \in Seq({Entries[i] : i \in DOMAIN Entries})
      BY <2>4 DEF Entries
    <3>2. QED
      BY <2>0, <2>4, <3>1
  <2>10. Entries' = Append(Entries, e) /\ Len(Entries') = n
    BY <2>1, <2>8, <2>9
  <2>11. answers' = answers \cup {<<e.preview, Len(Entries')>>}
    BY <2>1, <2>10
  <2> HIDE DEF e
  <2>12. QED
    BY <2>2, <2>5, <2>6, <2>10, <2>11 DEF Ledger!Next, Ledger!Enter
<1>3. CASE SameOffers /\ SameEntries /\ SameAnswers
  <2>1. Offered' = Offered /\ Entries' = Entries
    BY <1>3, OffersKept, EntriesKept
  <2>2. ASSUME NEW p \in Previews, previews[p].intent # 0,
               answers' = answers \cup {<<p, previews[p].intent>>}
        PROVE  Ledger!Next
    <3>1. PICK k \in DOMAIN intents : k = previews[p].intent /\ intents[k].preview = p
      BY <2>2 DEF ConsumptionsAreIntents
    <3>2. k \in DOMAIN Entries /\ Entries[k].preview = p
      BY <3>1 DEF Entries
    <3>3. Ledger!Tell(k)
      BY <2>1, <2>2, <3>1, <3>2 DEF Ledger!Tell
    <3>4. QED
      BY <3>2, <3>3 DEF Ledger!Next
  <2>3. QED
    BY <1>3, <2>1, <2>2 DEF SameAnswers, Ledger!absVars
<1>4. QED
  BY <1>1, <1>2, <1>3, ClientSteps

\* Submission implements SignalLedger: an order is entered as it was previewed,
\* one for a signal and for good, and an answer names the entry of its preview,
\* over double submissions, lost answers and second previews of a signal.
THEOREM LedgerRefinement == Spec => ImplementsLedger
<1>1. Init => Ledger!Init /\ ConsumptionsAreIntents
  BY DEF Init, Ledger!Init, Offered, Entries, ConsumptionsAreIntents
<1>2. IInv => Data
  BY TypesAre DEF IInv, Data
<1>3. ASSUME IInv, ConsumptionsAreIntents, [Next]_vars
      PROVE  ConsumptionsAreIntents' /\ [Ledger!Next]_(Ledger!absVars)
  <2>1. ASSUME UNCHANGED vars PROVE ConsumptionsAreIntents' /\ UNCHANGED Ledger!absVars
    BY <1>3, <2>1 DEF vars, ConsumptionsAreIntents, Ledger!absVars, Offered, Entries
  <2>2. QED
    BY <1>2, <1>3, <2>1, ConsumptionsStay, StepOfLedger
<1>4. QED
  BY <1>1, <1>3, SubmissionInvariance, PTL DEF Spec, ImplementsLedger, Ledger!Spec
=============================================================================
