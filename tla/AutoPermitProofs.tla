-------------------------- MODULE AutoPermitProofs --------------------------
(***************************************************************************)
(* Theorems about AutoPermit, for every set of orders and of threads and   *)
(* every bound on generations.  IInv is the inductive invariant: the       *)
(* types; which permit is current; what an order's grant and its quota     *)
(* are; and how the documents under way relate to the generation.          *)
(***************************************************************************)
EXTENDS AutoPermit, FiniteSetTheorems, TLAPS

USE ConsoleAssumption, BoundsAssumption DEF dbVars, fileVars, todoVars, historyVars

\* No row is of a generation to come.
GenerationIsNewest == \A p \in DOMAIN permits : permits[p].generation <= generation

\* A committed order has the grant of some permit; those of a permit are within
\* its number.
GrantsAreOfPermits ==
  \A o \in Orders :
    IF orders[o].stage = "none" THEN orders[o].grant = NoGrant
    ELSE orders[o].grant.permit \in DOMAIN permits

QuotaKept ==
  \A p \in DOMAIN permits : IsFiniteSet(Reserved(p)) /\ Cardinality(Reserved(p)) <= MaxOrders

\* The thread is to write the document of the present generation.
Owing(t) == grantTodo[t] # {} /\ stamp[t] = generation

\* Documents are stamped with the generation of their transaction; a grant
\* among them is in force as long as no later transaction changed the permits.
\* Only the console clears the halt, and it has a document to write after that.
DocumentsAreStamped ==
  /\ newest <= generation
  /\ \A t \in Threads :
       /\ stamp[t] <= generation
       /\ haltTodo[t] = "clear" => t = Console
       /\ \A g \in grantTodo[t] :
            g # NoGrant => g.generation = stamp[t] /\ (stamp[t] = generation => InForce(g))

\* The adapter is halted or about to be, and nobody is about to clear that.
HaltHolds == (haltFile \/ haltTodo[Console] = "set") /\ haltTodo[Console] # "clear"

\* The present generation has its document, or a halt in place of one.
GenerationIsCovered ==
  ~lost => newest = generation \/ HaltHolds \/ \E t \in Threads : Owing(t)

\* What the adapter could act on is in force, or will be replaced, or halted.
AuthorizationIsCovered ==
  ~lost /\ ~overtaken =>
    \/ authorization = NoGrant
    \/ InForce(authorization)
    \/ HaltHolds
    \/ \E t \in Threads : Owing(t)

\* The document in the folder is the newest one written.
AuthorizationIsNewest ==
  ~overtaken => authorization = NoGrant \/ authorization.generation >= newest

IInv ==
  /\ TypeOK
  /\ OneCurrentPermit
  /\ GenerationIsNewest
  /\ GrantsAreOfPermits
  /\ QuotaKept
  /\ DocumentsAreStamped
  /\ GenerationIsCovered
  /\ AuthorizationIsCovered
  /\ AuthorizationIsNewest

-----------------------------------------------------------------------------
(* The steps.                                                              *)

Row == [status : {"ACTIVE", "PAUSED", "REVOKED"}, generation : Nat]

LEMMA RowsAreRows ==
  ASSUME TypeOK
  PROVE  /\ permits \in Seq(Row) /\ Len(permits) \in Nat /\ DOMAIN permits = 1..Len(permits)
         /\ \A p \in DOMAIN permits : permits[p] \in Row
         /\ generation \in Nat
<1>1. permits \in Seq(Row)
  BY DEF TypeOK, Row
<1>2. QED
  BY <1>1 DEF TypeOK

\* What NextGeneration and the database transactions make of the permits: they
\* are revoked, one is begun, one is paused, or one is resumed.
RevokesAll == permits' = AllRevoked

Begins == permits' = Append(AllRevoked, [status |-> "ACTIVE", generation |-> generation'])

Pauses(p) ==
  /\ p \in DOMAIN permits /\ Active(p)
  /\ permits' = [permits EXCEPT ![p].status = "PAUSED"]

Resumes(p) ==
  /\ p \in DOMAIN permits /\ permits[p].status = "PAUSED"
  /\ permits' = [permits EXCEPT ![p] = [status |-> "ACTIVE", generation |-> generation']]

\* A transaction that changes the permits takes the next generation.
Transaction == NextGeneration /\ (RevokesAll \/ Begins \/ \E p : Pauses(p) \/ Resumes(p))

LEMMA AllRevokedRows ==
  ASSUME TypeOK
  PROVE  /\ AllRevoked \in Seq(Row) /\ Len(AllRevoked) = Len(permits)
         /\ DOMAIN AllRevoked = DOMAIN permits
         /\ \A p \in DOMAIN permits : AllRevoked[p].status = "REVOKED"
                                      /\ AllRevoked[p].generation = permits[p].generation
<1>1. \A p \in 1..Len(permits) : permits[p] \in Row /\ [permits[p] EXCEPT !.status = "REVOKED"] \in Row
                                 /\ [permits[p] EXCEPT !.status = "REVOKED"].status = "REVOKED"
                                 /\ [permits[p] EXCEPT !.status = "REVOKED"].generation = permits[p].generation
  BY RowsAreRows DEF Row
<1>2. AllRevoked \in [1..Len(permits) -> Row]
  BY <1>1, RowsAreRows DEF AllRevoked
<1>3. AllRevoked \in Seq(Row) /\ Len(AllRevoked) = Len(permits)
  BY <1>2, RowsAreRows
<1>4. QED
  BY <1>1, <1>3, RowsAreRows DEF AllRevoked

\* The rows after a transaction.
LEMMA TransactionRows ==
  ASSUME TypeOK, GenerationIsNewest, OneCurrentPermit, Transaction
  PROVE  /\ generation' = generation + 1 /\ generation' \in Nat
         /\ permits' \in Seq(Row)
         /\ DOMAIN permits \subseteq DOMAIN permits'
         /\ \A p \in DOMAIN permits' \ DOMAIN permits : Begins /\ p = Len(permits) + 1
         /\ GenerationIsNewest'
         /\ OneCurrentPermit'
<1>1. generation' = generation + 1 /\ generation \in Nat /\ generation' \in Nat
  BY RowsAreRows DEF Transaction, NextGeneration
<1>2. CASE RevokesAll
  <2>1. permits' \in Seq(Row) /\ DOMAIN permits' = DOMAIN permits
    BY <1>2, AllRevokedRows DEF RevokesAll
  <2>2. \A p \in DOMAIN permits : permits'[p].status = "REVOKED" /\ permits'[p].generation = permits[p].generation
    BY <1>2, AllRevokedRows DEF RevokesAll
  <2>3. GenerationIsNewest'
    BY <1>1, <2>1, <2>2, RowsAreRows DEF GenerationIsNewest, Row
  <2>4. OneCurrentPermit'
    BY <2>1, <2>2 DEF OneCurrentPermit
  <2>5. QED
    BY <1>1, <2>1, <2>3, <2>4
<1>3. CASE Begins
  <2> DEFINE n == Len(permits) + 1
  <2>1. /\ permits' \in Seq(Row) /\ DOMAIN permits' = DOMAIN permits \cup {n}
        /\ permits'[n] = [status |-> "ACTIVE", generation |-> generation']
        /\ \A p \in DOMAIN permits : permits'[p] = AllRevoked[p]
    <3>1. [status |-> "ACTIVE", generation |-> generation'] \in Row
      BY <1>1 DEF Row
    <3>2. QED
      BY <1>3, <3>1, AllRevokedRows, RowsAreRows DEF Begins
  <2>2. n \notin DOMAIN permits
    BY RowsAreRows
  <2>3. \A p \in DOMAIN permits : permits'[p].status = "REVOKED" /\ permits'[p].generation = permits[p].generation
    BY <2>1, AllRevokedRows
  <2>4. GenerationIsNewest'
    BY <1>1, <2>1, <2>3, RowsAreRows DEF GenerationIsNewest, Row
  <2>5. OneCurrentPermit'
    BY <1>1, <2>1, <2>3 DEF OneCurrentPermit, Active
  <2>6. QED
    BY <1>1, <1>3, <2>1, <2>4, <2>5
<1>4. ASSUME NEW p, Pauses(p) \/ Resumes(p)
      PROVE  /\ permits' \in Seq(Row) /\ DOMAIN permits' = DOMAIN permits
             /\ GenerationIsNewest' /\ OneCurrentPermit'
  <2>1. PICK r \in Row : /\ p \in DOMAIN permits /\ permits' = [permits EXCEPT ![p] = r]
                         /\ r.generation <= generation'
                         /\ r.status = "ACTIVE" => r.generation = generation'
                         /\ permits[p].status # "REVOKED"
    <3>1. CASE Pauses(p)
      <4> DEFINE r == [permits[p] EXCEPT !.status = "PAUSED"]
      <4>1. permits[p] \in Row /\ permits[p].generation <= generation
        BY <3>1, RowsAreRows DEF Pauses, GenerationIsNewest
      <4>2. r \in Row /\ r.generation = permits[p].generation /\ r.status = "PAUSED"
        BY <4>1 DEF Row
      <4>3. permits' = [permits EXCEPT ![p] = r] /\ p \in DOMAIN permits /\ permits[p].status = "ACTIVE"
        BY <3>1 DEF Pauses, Active
      <4>4. r.generation <= generation'
        BY <1>1, <4>1, <4>2 DEF Row
      <4> HIDE DEF r
      <4>5. QED
        BY <4>2, <4>3, <4>4
    <3>2. CASE Resumes(p)
      <4> DEFINE r == [status |-> "ACTIVE", generation |-> generation']
      <4>1. r \in Row /\ r.generation = generation' /\ r.generation <= generation'
        BY <1>1 DEF Row
      <4>2. permits' = [permits EXCEPT ![p] = r] /\ p \in DOMAIN permits /\ permits[p].status = "PAUSED"
        BY <3>2 DEF Resumes
      <4> HIDE DEF r
      <4>3. QED
        BY <4>1, <4>2
    <3>3. QED
      BY <1>4, <3>1, <3>2
  <2>2. permits' \in Seq(Row) /\ DOMAIN permits' = DOMAIN permits
    BY <2>1, RowsAreRows
  <2>3. permits'[p] = r /\ \A q \in DOMAIN permits \ {p} : permits'[q] = permits[q] /\ permits[q].status = "REVOKED"
    BY <2>1, RowsAreRows DEF OneCurrentPermit
  <2>4. GenerationIsNewest'
    BY <1>1, <2>1, <2>2, <2>3, RowsAreRows DEF GenerationIsNewest, Row
  <2>5. OneCurrentPermit'
    BY <1>1, <2>1, <2>2, <2>3 DEF OneCurrentPermit, Active
  <2>6. QED
    BY <2>2, <2>4, <2>5
<1>5. QED
  BY <1>1, <1>2, <1>3, <1>4 DEF Transaction

\* An operation is a transaction or leaves the permits and the generation alone,
\* and the thread that ran it owes documents.  A grant among them is in force.
Operation(t, halt, grants) ==
  /\ Owes(t, halt, grants)
  /\ grants \in {{}, {NoGrant}} \/ \E g \in Grant : g.generation = generation' /\ InForce(g)' /\ grants = {g}
  /\ halt = "clear" => t = Console
  /\ grants = {} => t = Console /\ halt = "set"
  /\ Transaction \/ UNCHANGED <<generation, permits>>

\* Whether the adapter is halted is in the database, the other steps of the
\* Worker are writes.
LEMMA OperationSteps ==
  ASSUME TypeOK, GenerationIsNewest, NEW t \in Threads,
         Operate(t) \/ (t = Console /\ (ClearHalt \/ EnableLive \/ \E m \in {"LIMITED_AUTO", "OTHER"} : SetMode(m)))
  PROVE  \E halt \in {"none", "set", "clear"}, grants \in SUBSET Grant : Operation(t, halt, grants)
<1>1. NoGrant \in Grant /\ Console \in Threads
  BY DEF NoGrant, Grant, Threads
<1>2. ASSUME NEW p \in Nat, NEW n \in Nat, n = generation', p \in DOMAIN permits',
             permits'[p] = [status |-> "ACTIVE", generation |-> n], Transaction,
             Owes(t, "none", {[permit |-> p, generation |-> generation']})
      PROVE  \E grants \in SUBSET Grant : Operation(t, "none", grants)
  <2> DEFINE g == [permit |-> p, generation |-> n]
  <2>1. g \in Grant /\ g.generation = n /\ {g} \in SUBSET Grant
    BY DEF Grant
  <2>2. InForce(g)'
    BY <1>2 DEF InForce, Active
  <2>3. Owes(t, "none", {g})
    BY <1>2
  <2> HIDE DEF g
  <2>4. Operation(t, "none", {g})
    BY <1>2, <2>1, <2>2, <2>3 DEF Operation
  <2>5. QED
    BY <2>1, <2>4
<1>3. CASE Authorize(t) \/ Resume(t)
  <2>1. PICK n \in Nat : n = generation'
    BY <1>3, RowsAreRows DEF Authorize, Resume, NextGeneration
  <2>2. CASE Authorize(t)
    <3>1. Begins /\ Transaction
      BY <2>2 DEF Authorize, Begins, Transaction
    <3>2. PICK p \in Nat : p = Len(permits')
      BY <3>1, AllRevokedRows, RowsAreRows DEF Begins
    <3>3. p \in DOMAIN permits' /\ permits'[p] = [status |-> "ACTIVE", generation |-> n]
      BY <2>1, <3>1, <3>2, AllRevokedRows, RowsAreRows DEF Begins
    <3>4. QED
      BY <1>2, <2>1, <2>2, <3>1, <3>2, <3>3 DEF Authorize
  <2>3. CASE Resume(t)
    <3>1. PICK p \in DOMAIN permits :
            Resumes(p) /\ Owes(t, "none", {[permit |-> p, generation |-> generation']})
      BY <2>3 DEF Resume, Resumes
    <3>2. p \in Nat /\ p \in DOMAIN permits' /\ permits'[p] = [status |-> "ACTIVE", generation |-> n]
      BY <2>1, <3>1, RowsAreRows DEF Resumes
    <3>3. Transaction
      BY <2>3, <3>1 DEF Resume, Transaction
    <3>4. QED
      BY <1>2, <2>1, <3>1, <3>2, <3>3
  <2>4. QED
    BY <1>3, <2>2, <2>3
<1>4. CASE Pause(t) \/ Revoke(t)
  <2>1. Owes(t, "none", {NoGrant}) /\ Transaction
    BY <1>4 DEF Pause, Revoke, Transaction, Pauses, RevokesAll
  <2>2. Operation(t, "none", {NoGrant})
    BY <2>1 DEF Operation
  <2>3. QED
    BY <1>1, <2>2
<1>5. CASE Halt(t)
  <2> DEFINE grants == IF t = Console THEN {} ELSE {NoGrant}
  <2>1. Owes(t, "set", grants) /\ Transaction
    BY <1>5 DEF Halt, Transaction, RevokesAll
  <2>2. Operation(t, "set", grants) /\ grants \in SUBSET Grant
    BY <1>1, <2>1 DEF Operation
  <2>3. QED
    BY <2>2
<1>6. CASE t = Console /\ ClearHalt
  <2>1. Operation(t, "clear", {NoGrant})
    BY <1>6 DEF ClearHalt, Operation
  <2>2. QED
    BY <1>1, <2>1
<1>7. ASSUME t = Console, NEW m \in {"LIMITED_AUTO", "OTHER"}, SetMode(m)
      PROVE  Operation(t, "none", {NoGrant})
  BY <1>7 DEF SetMode, Operation, Transaction, RevokesAll
<1>8. CASE t = Console /\ EnableLive
  <2>1. Operation(t, "none", {NoGrant})
    BY <1>8 DEF EnableLive, Operation
  <2>2. QED
    BY <1>1, <2>1
<1>9. QED
  BY <1>1, <1>3, <1>4, <1>5, <1>6, <1>7, <1>8 DEF Operate

\* The other steps write documents, or concern an order.
Documents(t) == WriteHalt(t) \/ WriteAuthorization(t) \/ Stops(t)
OrderStep(o) == Submit(o) \/ Send(o) \/ Refuse(o) \/ IngestUnknown(o) \/ Resolve(o)

LEMMA NextSteps ==
  ASSUME TypeOK, GenerationIsNewest, Next
  PROVE  \/ \E t \in Threads, halt \in {"none", "set", "clear"}, grants \in SUBSET Grant :
              Operation(t, halt, grants) /\ (mode' \in {"LIMITED_AUTO", "OTHER"} /\ halted' \in BOOLEAN)
         \/ \E t \in Threads : Documents(t)
         \/ \E o \in Orders : OrderStep(o)
<1>1. ASSUME NEW t \in Threads,
             Operate(t) \/ (t = Console /\ (ClearHalt \/ EnableLive \/ \E m \in {"LIMITED_AUTO", "OTHER"} : SetMode(m)))
      PROVE  mode' \in {"LIMITED_AUTO", "OTHER"} /\ halted' \in BOOLEAN
  BY <1>1 DEF Operate, Authorize, Pause, Resume, Revoke, Halt, ClearHalt, EnableLive, SetMode, TypeOK
<1>2. Console \in Threads
  BY DEF Threads
<1>3. QED
  BY <1>1, <1>2, OperationSteps DEF Next, Documents, OrderStep

\* What a step about an order does to it.
LEMMA OrderSteps ==
  ASSUME TypeOK, NEW o \in Orders, OrderStep(o)
  PROVE  /\ UNCHANGED <<dbVars, haltFile, authorization, todoVars, historyVars>>
         /\ \/ \E p \in DOMAIN permits :
                 /\ orders[o].stage = "none" /\ WithinPolicy(p)
                 /\ orders' = [orders EXCEPT ![o] =
                      [stage |-> "queued", grant |-> [permit |-> p, generation |-> generation]]]
                 /\ UNCHANGED pauseFile
            \/ \E s \in {"refused"} \cup Called :
                 /\ orders[o].stage # "none"
                 /\ orders' = [orders EXCEPT ![o].stage = s]
                 /\ pauseFile' \in {pauseFile, orders[o].grant}
<1>1. CASE Submit(o)
  BY <1>1 DEF Submit
<1>2. CASE Send(o)
  BY <1>2 DEF Send, MaySend, Called
<1>3. CASE Refuse(o) \/ IngestUnknown(o) \/ Resolve(o)
  BY <1>3 DEF Refuse, IngestUnknown, Resolve, Called
<1>4. QED
  BY <1>1, <1>2, <1>3 DEF OrderStep

LEMMA TypesStay == ASSUME TypeOK, GenerationIsNewest, OneCurrentPermit, Next PROVE TypeOK'
<1>1. ASSUME NEW t \in Threads, NEW halt \in {"none", "set", "clear"}, NEW grants \in SUBSET Grant,
             Operation(t, halt, grants), mode' \in {"LIMITED_AUTO", "OTHER"}, halted' \in BOOLEAN
      PROVE  TypeOK'
  <2>1. generation' \in Nat /\ permits' \in Seq(Row)
    BY <1>1, TransactionRows, RowsAreRows DEF Operation
  <2>2. haltTodo' \in [Threads -> {"none", "set", "clear"}] /\ grantTodo' \in [Threads -> SUBSET Grant]
    BY <1>1 DEF Operation, Owes, TypeOK
  <2>3. stamp' \in [Threads -> Nat]
    BY <1>1, <2>1 DEF Operation, Owes, TypeOK
  <2>4. UNCHANGED <<orders, fileVars, historyVars>>
    BY <1>1 DEF Operation, Owes
  <2>5. QED
    BY <1>1, <2>1, <2>2, <2>3, <2>4 DEF TypeOK, Row
<1>2. ASSUME NEW t \in Threads, Documents(t) PROVE TypeOK'
  <2>1. CASE WriteHalt(t)
    <3>1. haltFile' \in BOOLEAN /\ haltTodo' \in [Threads -> {"none", "set", "clear"}]
      BY <2>1 DEF WriteHalt, TypeOK
    <3>2. QED
      BY <2>1, <3>1 DEF WriteHalt, TypeOK
  <2>2. CASE WriteAuthorization(t)
    <3>1. authorization' \in Grant /\ grantTodo' \in [Threads -> SUBSET Grant]
      BY <2>2 DEF WriteAuthorization, TypeOK
    <3>2. newest' \in Nat
      BY <2>2 DEF WriteAuthorization, TypeOK
    <3>3. overtaken' \in BOOLEAN
      BY <2>2 DEF WriteAuthorization, TypeOK
    <3>4. QED
      BY <2>2, <3>1, <3>2, <3>3 DEF WriteAuthorization, TypeOK
  <2>3. CASE Stops(t)
    BY <2>3 DEF Stops, TypeOK
  <2>4. QED
    BY <1>2, <2>1, <2>2, <2>3 DEF Documents
<1>3. ASSUME NEW o \in Orders, OrderStep(o) PROVE TypeOK'
  <2>1. UNCHANGED <<dbVars, haltFile, authorization, todoVars, historyVars>>
    BY <1>3, OrderSteps
  <2>2. /\ orders' \in [Orders -> [stage : {"none", "queued", "refused"} \cup Called, grant : Grant]]
        /\ pauseFile' \in Grant
    <3>1. ASSUME NEW p \in DOMAIN permits,
                 orders' = [orders EXCEPT ![o] =
                    [stage |-> "queued", grant |-> [permit |-> p, generation |-> generation]]]
          PROVE  orders' \in [Orders -> [stage : {"none", "queued", "refused"} \cup Called, grant : Grant]]
      <4>1. [permit |-> p, generation |-> generation] \in Grant
        BY RowsAreRows DEF Grant
      <4>2. QED
        BY <3>1, <4>1 DEF TypeOK
    <3>2. ASSUME NEW s \in {"refused"} \cup Called, orders' = [orders EXCEPT ![o].stage = s]
          PROVE  orders' \in [Orders -> [stage : {"none", "queued", "refused"} \cup Called, grant : Grant]]
      BY <3>2 DEF TypeOK
    <3>3. orders[o].grant \in Grant /\ pauseFile \in Grant
      BY DEF TypeOK
    <3>4. QED
      BY <1>3, <3>1, <3>2, <3>3, OrderSteps
  <2>3. QED
    BY <2>1, <2>2 DEF TypeOK
<1>4. QED
  BY <1>1, <1>2, <1>3, NextSteps

LEMMA RowsStay ==
  ASSUME TypeOK, GenerationIsNewest, OneCurrentPermit, Next
  PROVE  /\ GenerationIsNewest' /\ OneCurrentPermit'
         /\ DOMAIN permits \subseteq DOMAIN permits'
         /\ \A p \in DOMAIN permits' \ DOMAIN permits : UNCHANGED orders
         /\ generation <= generation'
<1>1. CASE UNCHANGED <<generation, permits>>
  BY <1>1, RowsAreRows DEF GenerationIsNewest, OneCurrentPermit, Active
<1>2. CASE Transaction /\ UNCHANGED orders
  BY <1>2, TransactionRows, RowsAreRows
<1>3. ASSUME NEW t \in Threads, Documents(t) PROVE UNCHANGED <<generation, permits>>
  BY <1>3 DEF Documents, WriteHalt, WriteAuthorization, Stops
<1>4. ASSUME NEW t, NEW halt, NEW grants, Operation(t, halt, grants)
      PROVE  UNCHANGED <<generation, permits>> \/ (Transaction /\ UNCHANGED orders)
  BY <1>4 DEF Operation, Owes
<1>5. ASSUME NEW o \in Orders, OrderStep(o) PROVE UNCHANGED <<generation, permits>>
  BY <1>5, OrderSteps
<1>6. QED
  BY <1>1, <1>2, <1>3, <1>4, <1>5, NextSteps

-----------------------------------------------------------------------------
(* Quotas.                                                                 *)

LEMMA GrantsStay ==
  ASSUME TypeOK, GenerationIsNewest, OneCurrentPermit, GrantsAreOfPermits, Next
  PROVE  GrantsAreOfPermits'
<1>1. CASE UNCHANGED orders
  BY <1>1, RowsStay DEF GrantsAreOfPermits
<1>2. ASSUME NEW o \in Orders, OrderStep(o) PROVE GrantsAreOfPermits'
  <2>1. permits' = permits
    BY <1>2, OrderSteps
  <2>2. \A r \in Orders \ {o} : orders'[r] = orders[r]
    BY <1>2, OrderSteps DEF TypeOK
  <2>3. orders'[o].stage # "none" /\ orders'[o].grant.permit \in DOMAIN permits
    <3>1. ASSUME NEW p \in DOMAIN permits,
                 orders' = [orders EXCEPT ![o] =
                    [stage |-> "queued", grant |-> [permit |-> p, generation |-> generation]]]
          PROVE  orders'[o].stage # "none" /\ orders'[o].grant.permit \in DOMAIN permits
      BY <3>1 DEF TypeOK
    <3>2. ASSUME NEW s \in {"refused"} \cup Called, orders' = [orders EXCEPT ![o].stage = s],
                 orders[o].stage # "none"
          PROVE  orders'[o].stage # "none" /\ orders'[o].grant.permit \in DOMAIN permits
      BY <3>2 DEF TypeOK, Called, GrantsAreOfPermits
    <3>3. QED
      BY <1>2, <3>1, <3>2, OrderSteps
  <2>4. QED
    BY <2>1, <2>2, <2>3 DEF GrantsAreOfPermits
<1>3. ASSUME NEW t \in Threads, Documents(t) PROVE UNCHANGED orders
  BY <1>3 DEF Documents, WriteHalt, WriteAuthorization, Stops
<1>4. ASSUME NEW t, NEW halt, NEW grants, Operation(t, halt, grants) PROVE UNCHANGED orders
  BY <1>4 DEF Operation, Owes
<1>5. QED
  BY <1>1, <1>2, <1>3, <1>4, NextSteps

\* A permit's orders become one more only within its policy, and a new permit
\* has none.
LEMMA QuotaStays ==
  ASSUME TypeOK, GenerationIsNewest, OneCurrentPermit, GrantsAreOfPermits, QuotaKept, Next
  PROVE  QuotaKept'
<1>1. CASE UNCHANGED orders
  <2> SUFFICES ASSUME NEW p \in DOMAIN permits'
               PROVE  IsFiniteSet(Reserved(p)') /\ Cardinality(Reserved(p)') <= MaxOrders
    BY DEF QuotaKept
  <2>1. Reserved(p)' = Reserved(p)
    BY <1>1 DEF Reserved
  <2>2. CASE p \in DOMAIN permits
    BY <2>1, <2>2 DEF QuotaKept
  <2>3. CASE p \notin DOMAIN permits
    <3>1. p # 0
      <4>1. permits' \in Seq(Row)
        BY TypesStay DEF TypeOK, Row
      <4>2. QED
        BY <4>1
    <3>2. Reserved(p) = {}
      BY <2>3, <3>1 DEF Reserved, GrantsAreOfPermits, NoGrant
    <3>3. QED
      BY <2>1, <3>2, FS_EmptySet
  <2>4. QED
    BY <2>2, <2>3
<1>2. ASSUME NEW o \in Orders, OrderStep(o) PROVE QuotaKept'
  <2>1. permits' = permits
    BY <1>2, OrderSteps
  <2>2. ASSUME NEW p \in DOMAIN permits, orders[o].stage = "none", WithinPolicy(p),
               orders' = [orders EXCEPT ![o] =
                 [stage |-> "queued", grant |-> [permit |-> p, generation |-> generation]]]
        PROVE  QuotaKept'
    <3>1. Reserved(p)' = Reserved(p) \cup {o}
      BY <2>2 DEF Reserved, TypeOK
    <3>2. \A q \in DOMAIN permits \ {p} : Reserved(q)' = Reserved(q) \ {o}
      BY <2>2 DEF Reserved, TypeOK
    <3>3. \A q \in DOMAIN permits : o \notin Reserved(q)
      <4>1. 0 \notin DOMAIN permits
        BY RowsAreRows
      <4>2. QED
        BY <2>2, <4>1 DEF Reserved, GrantsAreOfPermits, NoGrant
    <3>4. IsFiniteSet(Reserved(p)) /\ Cardinality(Reserved(p)) \in Nat /\ Cardinality(Reserved(p)) < MaxOrders
      BY <2>2, FS_CardinalityType DEF QuotaKept, WithinPolicy
    <3>5. IsFiniteSet(Reserved(p)') /\ Cardinality(Reserved(p)') = Cardinality(Reserved(p)) + 1
      BY <3>1, <3>3, <3>4, FS_AddElement
    <3>6. \A q \in DOMAIN permits \ {p} : Reserved(q)' = Reserved(q)
      BY <3>2, <3>3
    <3>7. QED
      BY <2>1, <3>4, <3>5, <3>6 DEF QuotaKept
  <2>3. ASSUME NEW s, orders' = [orders EXCEPT ![o].stage = s] PROVE QuotaKept'
    <3>1. \A r \in Orders : orders'[r].grant = orders[r].grant
      BY <2>3 DEF TypeOK
    <3>2. \A p : Reserved(p)' = Reserved(p)
      BY <3>1 DEF Reserved
    <3>3. QED
      BY <2>1, <3>2 DEF QuotaKept
  <2>4. QED
    BY <1>2, <2>2, <2>3, OrderSteps
<1>3. ASSUME NEW t \in Threads, Documents(t) PROVE UNCHANGED orders
  BY <1>3 DEF Documents, WriteHalt, WriteAuthorization, Stops
<1>4. ASSUME NEW t, NEW halt, NEW grants, Operation(t, halt, grants) PROVE UNCHANGED orders
  BY <1>4 DEF Operation, Owes
<1>5. QED
  BY <1>1, <1>2, <1>3, <1>4, NextSteps

-----------------------------------------------------------------------------
(* Documents.                                                              *)

\* What an operation leaves to its thread, and what it leaves alone.
LEMMA OperationEffect ==
  ASSUME TypeOK, GenerationIsNewest, OneCurrentPermit, NEW t \in Threads,
         NEW halt \in {"none", "set", "clear"}, NEW grants \in SUBSET Grant, Operation(t, halt, grants)
  PROVE  /\ Idle(t) /\ generation' \in Nat
         /\ generation' = generation + 1 \/ UNCHANGED <<generation, permits>>
         /\ haltTodo'[t] = halt /\ grantTodo'[t] = grants /\ stamp'[t] = generation'
         /\ \A u \in Threads \ {t} : /\ haltTodo'[u] = haltTodo[u] /\ grantTodo'[u] = grantTodo[u]
                                     /\ stamp'[u] = stamp[u]
         /\ UNCHANGED <<orders, fileVars, historyVars>>
<1>1. generation' \in Nat /\ (generation' = generation + 1 \/ UNCHANGED <<generation, permits>>)
  BY TransactionRows, RowsAreRows DEF Operation
<1>2. Idle(t) /\ UNCHANGED <<orders, fileVars, historyVars>>
  BY DEF Operation, Owes
<1>3. haltTodo'[t] = halt /\ grantTodo'[t] = grants /\ stamp'[t] = generation'
  BY DEF Operation, Owes, TypeOK
<1>4. \A u \in Threads \ {t} : haltTodo'[u] = haltTodo[u] /\ grantTodo'[u] = grantTodo[u] /\ stamp'[u] = stamp[u]
  BY DEF Operation, Owes, TypeOK
<1>5. QED
  BY <1>1, <1>2, <1>3, <1>4

\* What a write, or a thread that stops, does to the documents.
LEMMA DocumentsEffect ==
  ASSUME TypeOK, NEW t \in Threads, Documents(t)
  PROVE  /\ UNCHANGED <<dbVars, orders, pauseFile, stamp>>
         /\ \A u \in Threads \ {t} : haltTodo'[u] = haltTodo[u] /\ grantTodo'[u] = grantTodo[u]
         /\ haltTodo'[t] \in {haltTodo[t], "none"} /\ grantTodo'[t] \in {grantTodo[t], {}}
<1>1. UNCHANGED <<dbVars, orders, pauseFile, stamp>>
  BY DEF Documents, WriteHalt, WriteAuthorization, Stops
<1>2. /\ haltTodo' \in {haltTodo, [haltTodo EXCEPT ![t] = "none"]}
      /\ grantTodo' \in {grantTodo, [grantTodo EXCEPT ![t] = {}]}
  BY DEF Documents, WriteHalt, WriteAuthorization, Stops
<1>3. haltTodo \in [Threads -> {"none", "set", "clear"}] /\ grantTodo \in [Threads -> SUBSET Grant]
  BY DEF TypeOK
<1>4. \A u \in Threads \ {t} : haltTodo'[u] = haltTodo[u] /\ grantTodo'[u] = grantTodo[u]
  BY <1>2, <1>3
<1>5. haltTodo'[t] \in {haltTodo[t], "none"} /\ grantTodo'[t] \in {grantTodo[t], {}}
  BY <1>2, <1>3
<1>6. QED
  BY <1>1, <1>4, <1>5

LEMMA StampedStay ==
  ASSUME TypeOK, GenerationIsNewest, OneCurrentPermit, DocumentsAreStamped, Next
  PROVE  DocumentsAreStamped'
<1>1. ASSUME NEW t \in Threads, NEW halt \in {"none", "set", "clear"}, NEW grants \in SUBSET Grant,
             Operation(t, halt, grants)
      PROVE  DocumentsAreStamped'
  <2>1. newest' = newest /\ newest <= generation /\ newest \in Nat
    BY <1>1 DEF Operation, Owes, DocumentsAreStamped, TypeOK
  <2>2. newest' <= generation'
    BY <1>1, <2>1, OperationEffect, RowsAreRows
  <2>3. /\ stamp'[t] <= generation'
        /\ haltTodo'[t] = "clear" => t = Console
        /\ \A g \in grantTodo'[t] :
             g # NoGrant => g.generation = stamp'[t] /\ (stamp'[t] = generation' => InForce(g)')
    <3>1. haltTodo'[t] = halt /\ grantTodo'[t] = grants /\ stamp'[t] = generation' /\ generation' \in Nat
      BY <1>1, OperationEffect
    <3>2. grants \in {{}, {NoGrant}} \/ \E g \in Grant : g.generation = generation' /\ InForce(g)' /\ grants = {g}
      BY <1>1 DEF Operation
    <3>3. halt = "clear" => t = Console
      BY <1>1 DEF Operation
    <3>4. QED
      BY <3>1, <3>2, <3>3
  <2>4. ASSUME NEW u \in Threads \ {t}
        PROVE  /\ stamp'[u] <= generation'
               /\ haltTodo'[u] = "clear" => u = Console
               /\ \A g \in grantTodo'[u] :
                    g # NoGrant => g.generation = stamp'[u] /\ (stamp'[u] = generation' => InForce(g)')
    <3>1. haltTodo'[u] = haltTodo[u] /\ grantTodo'[u] = grantTodo[u] /\ stamp'[u] = stamp[u]
      BY <1>1, OperationEffect
    <3>2. stamp[u] <= generation /\ stamp[u] \in Nat
      BY DEF DocumentsAreStamped, TypeOK
    <3>3. stamp[u] = generation' => UNCHANGED <<generation, permits>>
      BY <1>1, <3>2, OperationEffect, RowsAreRows
    <3>4. UNCHANGED <<generation, permits>> => \A g : InForce(g)' = InForce(g)
      BY DEF InForce, Active
    <3>5. generation' \in Nat /\ stamp[u] <= generation'
      BY <1>1, <3>2, OperationEffect, RowsAreRows
    <3>6. QED
      BY <3>1, <3>2, <3>3, <3>4, <3>5 DEF DocumentsAreStamped
  <2>5. QED
    BY <2>2, <2>3, <2>4 DEF DocumentsAreStamped
<1>2. ASSUME NEW t \in Threads, Documents(t) PROVE DocumentsAreStamped'
  <2>1. UNCHANGED <<generation, permits, stamp>> /\ \A g : InForce(g)' = InForce(g)
    BY <1>2, DocumentsEffect DEF InForce, Active
  <2>2. \A u \in Threads : haltTodo'[u] \in {haltTodo[u], "none"} /\ grantTodo'[u] \in {grantTodo[u], {}}
    BY <1>2, DocumentsEffect
  <2>3. newest' \in {newest, stamp[t]}
    BY <1>2 DEF Documents, WriteHalt, WriteAuthorization, Stops
  <2>4. QED
    BY <2>1, <2>2, <2>3 DEF DocumentsAreStamped
<1>3. ASSUME NEW o \in Orders, OrderStep(o) PROVE DocumentsAreStamped'
  <2>1. UNCHANGED <<dbVars, todoVars, historyVars>>
    BY <1>3, OrderSteps
  <2>2. QED
    BY <2>1 DEF DocumentsAreStamped, InForce, Active
<1>4. QED
  BY <1>1, <1>2, <1>3, NextSteps

\* An operation owes the document of its generation, or is the console's halt.
LEMMA OperationCovers ==
  ASSUME TypeOK, GenerationIsNewest, OneCurrentPermit, NEW t \in Threads,
         NEW halt \in {"none", "set", "clear"}, NEW grants \in SUBSET Grant, Operation(t, halt, grants)
  PROVE  HaltHolds' \/ \E u \in Threads : Owing(u)'
<1>1. haltTodo'[t] = halt /\ grantTodo'[t] = grants /\ stamp'[t] = generation'
  BY OperationEffect
<1>2. grants = {} => t = Console /\ halt = "set"
  BY DEF Operation
<1>3. CASE grants = {}
  BY <1>1, <1>2, <1>3 DEF HaltHolds
<1>4. CASE grants # {}
  BY <1>1, <1>4 DEF Owing
<1>5. QED
  BY <1>3, <1>4

\* A halt that holds is not undone by a write.
LEMMA HaltStays ==
  ASSUME TypeOK, DocumentsAreStamped, NEW t \in Threads, WriteHalt(t), HaltHolds
  PROVE  HaltHolds'
<1>1. Console \in Threads
  BY DEF Threads
<1>2. haltTodo[t] # "clear"
  BY DEF DocumentsAreStamped, HaltHolds
<1>3. haltFile' = TRUE
  BY <1>2 DEF WriteHalt, TypeOK
<1>4. haltTodo'[Console] # "clear"
  BY <1>1 DEF WriteHalt, HaltHolds, TypeOK
<1>5. QED
  BY <1>3, <1>4 DEF HaltHolds

LEMMA CoverStays ==
  ASSUME TypeOK, GenerationIsNewest, OneCurrentPermit, DocumentsAreStamped, GenerationIsCovered,
         AuthorizationIsCovered, Next
  PROVE  GenerationIsCovered' /\ AuthorizationIsCovered'
<1>1. ASSUME NEW t \in Threads, NEW halt \in {"none", "set", "clear"}, NEW grants \in SUBSET Grant,
             Operation(t, halt, grants)
      PROVE  GenerationIsCovered' /\ AuthorizationIsCovered'
  BY <1>1, OperationCovers DEF GenerationIsCovered, AuthorizationIsCovered
<1>2. ASSUME NEW t \in Threads, WriteHalt(t) PROVE GenerationIsCovered' /\ AuthorizationIsCovered'
  <2>1. UNCHANGED <<generation, permits, authorization, grantTodo, stamp, newest, overtaken, lost>>
    BY <1>2 DEF WriteHalt
  <2>2. HaltHolds => HaltHolds'
    BY <1>2, HaltStays
  <2>3. \A u \in Threads : Owing(u) => Owing(u)'
    BY <2>1 DEF Owing
  <2>4. InForce(authorization) => InForce(authorization)'
    BY <2>1 DEF InForce, Active
  <2>5. QED
    BY <2>1, <2>2, <2>3, <2>4 DEF GenerationIsCovered, AuthorizationIsCovered
<1>3. ASSUME NEW t \in Threads, WriteAuthorization(t) PROVE GenerationIsCovered' /\ AuthorizationIsCovered'
  <2>1. /\ UNCHANGED <<generation, permits, haltFile, haltTodo, stamp, lost>>
        /\ authorization' \in grantTodo[t] /\ grantTodo' = [grantTodo EXCEPT ![t] = {}]
        /\ overtaken' = (overtaken \/ stamp[t] < newest)
        /\ newest' = IF newest < stamp[t] THEN stamp[t] ELSE newest
    BY <1>3 DEF WriteAuthorization
  <2>2. HaltHolds => HaltHolds'
    BY <2>1 DEF HaltHolds
  <2>3. \A u \in Threads \ {t} : Owing(u) => Owing(u)'
    BY <2>1 DEF Owing, TypeOK
  <2>4. /\ newest \in Nat /\ generation \in Nat /\ stamp[t] \in Nat
        /\ newest <= generation /\ stamp[t] <= generation
        /\ authorization' = NoGrant \/ (stamp[t] = generation => InForce(authorization'))
    BY <2>1 DEF DocumentsAreStamped, TypeOK
  <2>5. CASE stamp[t] = generation
    <3>1. newest' = generation'
      BY <2>1, <2>4, <2>5
    <3>2. authorization' = NoGrant \/ InForce(authorization)'
      BY <2>1, <2>4, <2>5 DEF InForce, Active
    <3>3. QED
      BY <3>1, <3>2 DEF GenerationIsCovered, AuthorizationIsCovered
  <2>6. CASE stamp[t] # generation
    <3>1. ~Owing(t) /\ stamp[t] < generation
      BY <2>4, <2>6 DEF Owing
    <3>2. newest = generation => newest' = generation' /\ stamp[t] < newest
      BY <2>1, <2>4, <3>1
    <3>3. ~lost' /\ newest # generation => HaltHolds' \/ \E u \in Threads : Owing(u)'
      BY <2>1, <2>2, <2>3, <3>1 DEF GenerationIsCovered
    <3>4. stamp[t] < newest => overtaken'
      BY <2>1
    <3>5. QED
      BY <3>2, <3>3, <3>4 DEF GenerationIsCovered, AuthorizationIsCovered
  <2>7. QED
    BY <2>5, <2>6
<1>4. ASSUME NEW t \in Threads, Stops(t) PROVE GenerationIsCovered' /\ AuthorizationIsCovered'
  BY <1>4 DEF Stops, GenerationIsCovered, AuthorizationIsCovered
<1>5. ASSUME NEW o \in Orders, OrderStep(o) PROVE GenerationIsCovered' /\ AuthorizationIsCovered'
  <2>1. UNCHANGED <<dbVars, haltFile, authorization, todoVars, historyVars>>
    BY <1>5, OrderSteps
  <2>2. QED
    BY <2>1 DEF GenerationIsCovered, AuthorizationIsCovered, HaltHolds, Owing, InForce, Active
<1>6. QED
  BY <1>1, <1>2, <1>3, <1>4, <1>5, NextSteps DEF Documents

LEMMA NewestStays ==
  ASSUME TypeOK, GenerationIsNewest, OneCurrentPermit, DocumentsAreStamped, AuthorizationIsNewest, Next
  PROVE  AuthorizationIsNewest'
<1>1. CASE UNCHANGED <<authorization, newest, overtaken>>
  BY <1>1 DEF AuthorizationIsNewest
<1>2. ASSUME NEW t \in Threads, WriteAuthorization(t) PROVE AuthorizationIsNewest'
  <2>1. /\ authorization' \in grantTodo[t]
        /\ overtaken' = (overtaken \/ stamp[t] < newest)
        /\ newest' = IF newest < stamp[t] THEN stamp[t] ELSE newest
        /\ newest \in Nat /\ stamp[t] \in Nat
    BY <1>2 DEF WriteAuthorization, TypeOK
  <2>2. authorization' = NoGrant \/ authorization'.generation = stamp[t]
    BY <2>1 DEF DocumentsAreStamped
  <2>3. (overtaken \/ stamp[t] < newest) => overtaken'
    BY <2>1
  <2>4. ~(stamp[t] < newest) => newest' = stamp[t] /\ stamp[t] >= newest'
    BY <2>1
  <2>5. QED
    BY <2>2, <2>3, <2>4 DEF AuthorizationIsNewest
<1>3. ASSUME NEW t \in Threads, WriteHalt(t) \/ Stops(t) PROVE UNCHANGED <<authorization, newest, overtaken>>
  BY <1>3 DEF WriteHalt, Stops
<1>4. ASSUME NEW t, NEW halt, NEW grants, Operation(t, halt, grants)
      PROVE  UNCHANGED <<authorization, newest, overtaken>>
  BY <1>4 DEF Operation, Owes
<1>5. ASSUME NEW o \in Orders, OrderStep(o) PROVE UNCHANGED <<authorization, newest, overtaken>>
  BY <1>5, OrderSteps
<1>6. QED
  BY <1>1, <1>2, <1>3, <1>4, <1>5, NextSteps DEF Documents

-----------------------------------------------------------------------------
(* The theorems.                                                           *)

LEMMA Initially == ASSUME Init PROVE IInv
<1>1. TypeOK
  <2>1. NoGrant \in Grant
    BY DEF Grant, NoGrant
  <2>2. /\ orders \in [Orders -> [stage : {"none", "queued", "refused"} \cup Called, grant : Grant]]
        /\ haltTodo \in [Threads -> {"none", "set", "clear"}]
        /\ grantTodo \in [Threads -> SUBSET Grant] /\ stamp \in [Threads -> Nat]
    BY <2>1 DEF Init
  <2>3. permits \in Seq([status : {"ACTIVE", "PAUSED", "REVOKED"}, generation : Nat])
    BY DEF Init
  <2>4. QED
    BY <2>1, <2>2, <2>3 DEF Init, TypeOK
<1>2. DOMAIN permits = {}
  BY DEF Init
<1>3. OneCurrentPermit /\ GenerationIsNewest /\ QuotaKept
  BY <1>2 DEF OneCurrentPermit, GenerationIsNewest, QuotaKept
<1>4. GrantsAreOfPermits
  BY DEF Init, GrantsAreOfPermits
<1>5. DocumentsAreStamped
  BY DEF Init, DocumentsAreStamped
<1>6. GenerationIsCovered /\ AuthorizationIsCovered /\ AuthorizationIsNewest
  BY DEF Init, GenerationIsCovered, AuthorizationIsCovered, AuthorizationIsNewest
<1>7. QED
  BY <1>1, <1>3, <1>4, <1>5, <1>6 DEF IInv

LEMMA Unchanged == ASSUME IInv, UNCHANGED vars PROVE IInv'
<1>1. \A p : Reserved(p)' = Reserved(p)
  BY DEF vars, Reserved
<1>2. (\A g : InForce(g)' = InForce(g)) /\ (\A t : Owing(t)' = Owing(t)) /\ HaltHolds' = HaltHolds
  BY DEF vars, InForce, Active, Owing, HaltHolds
<1>3. TypeOK' /\ OneCurrentPermit' /\ GenerationIsNewest' /\ GrantsAreOfPermits'
  BY DEF IInv, vars, TypeOK, OneCurrentPermit, Active, GenerationIsNewest, GrantsAreOfPermits
<1>4. QuotaKept'
  BY <1>1 DEF IInv, vars, QuotaKept
<1>5. DocumentsAreStamped'
  BY <1>2 DEF IInv, vars, DocumentsAreStamped
<1>6. GenerationIsCovered' /\ AuthorizationIsCovered' /\ AuthorizationIsNewest'
  BY <1>2 DEF IInv, vars, GenerationIsCovered, AuthorizationIsCovered, AuthorizationIsNewest
<1>7. QED
  BY <1>3, <1>4, <1>5, <1>6 DEF IInv

\* IInv holds in every state: of the permits, the quotas, the generation, and
\* the documents written and under way.
THEOREM PermitInvariance == Spec => []IInv
<1>1. Init => IInv
  BY Initially
<1>2. IInv /\ [Next]_vars => IInv'
  <2> SUFFICES ASSUME IInv, Next PROVE IInv'
    BY Unchanged
  <2>1. QED
    BY TypesStay, RowsStay, GrantsStay, QuotaStays, StampedStay, CoverStays, NewestStays DEF IInv
<1>3. QED
  BY <1>1, <1>2, PTL DEF Spec

\* Every row, document, grant and stamp has its type, for any number of orders,
\* threads and generations.
THEOREM PermitTypeCorrectness == Spec => []TypeOK
<1>1. IInv => TypeOK
  BY DEF IInv
<1>2. QED
  BY <1>1, PermitInvariance, PTL

\* One permit at most can still be used or resumed, and an ACTIVE one is of the
\* account's generation: authorize, pause, resume, revoke, halt and set-mode, in
\* any threads and in any order, leave no older permit behind.
THEOREM OnePermit == Spec => []OneCurrentPermit
<1>1. IInv => OneCurrentPermit
  BY DEF IInv
<1>2. QED
  BY <1>1, PermitInvariance, PTL

\* The orders committed under a permit never exceed its number, in however many
\* generations the permit is resumed: the usage rows belong to the permit.
THEOREM QuotaHolds == Spec => []QuotaSurvivesResume
<1>1. IInv => QuotaSurvivesResume
  BY DEF IInv, QuotaKept, QuotaSurvivesResume
<1>2. QED
  BY <1>1, PermitInvariance, PTL

\* When every operation has returned, none was overtaken and none stopped half
\* way, the authorization in the adapter's folder is that of the permit in
\* force, or authorizes nothing, or the adapter is halted: the generation has
\* its document, and a document of the generation is in force.
THEOREM AuthorizationCurrent == Spec => []AuthorizationIsCurrent
<1>1. ASSUME IInv PROVE AuthorizationIsCurrent
  <2> SUFFICES ASSUME \A t \in Threads : Idle(t), ~overtaken, ~lost
               PROVE  haltFile \/ authorization = NoGrant \/ InForce(authorization)
    BY DEF AuthorizationIsCurrent
  <2>1. \A t \in Threads : ~Owing(t)
    BY DEF Idle, Owing
  <2>2. HaltHolds => haltFile
    <3>1. Console \in Threads
      BY DEF Threads
    <3>2. QED
      BY <3>1 DEF HaltHolds, Idle
  <2>3. QED
    BY <1>1, <2>1, <2>2 DEF IInv, AuthorizationIsCovered
<1>2. QED
  BY <1>1, PermitInvariance, PTL

\* passorder is called for no command of a generation older than the newest
\* document written, unless an overtaken thread put the old document back: the
\* adapter asks for the very permit and generation of the document in its folder.
THEOREM OldCommands == Spec => OldCommandsDie
<1>1. ASSUME IInv, [Next]_vars
      PROVE  [\A o \in Orders : Sends(o) => orders[o].grant.generation >= newest \/ overtaken]_vars
  <2> SUFFICES ASSUME Next, NEW o \in Orders, Sends(o)
               PROVE  orders[o].grant.generation >= newest \/ overtaken
    BY <1>1
  <2>1. TypeOK /\ GenerationIsNewest /\ GrantsAreOfPermits /\ AuthorizationIsNewest
    BY <1>1 DEF IInv
  <2>2. CASE UNCHANGED orders
    BY <2>2 DEF Sends, Called
  <2>3. ASSUME NEW r \in Orders, OrderStep(r) PROVE Send(o)
    <3>1. ASSUME r # o PROVE orders'[o] = orders[o]
      BY <2>1, <2>3, <3>1, OrderSteps DEF TypeOK
    <3>2. r = o
      BY <3>1 DEF Sends, Called
    <3>3. ASSUME Submit(o) PROVE FALSE
      BY <3>3 DEF Submit, Sends
    <3>4. ASSUME Refuse(o) PROVE FALSE
      BY <2>1, <3>4 DEF Refuse, Sends, Called, TypeOK
    <3>5. ASSUME IngestUnknown(o) \/ Resolve(o) PROVE FALSE
      BY <3>5 DEF IngestUnknown, Resolve, Sends
    <3>6. QED
      BY <2>3, <3>2, <3>3, <3>4, <3>5 DEF OrderStep
  <2>4. ASSUME Send(o) PROVE orders[o].grant.generation >= newest \/ overtaken
    <3>1. orders[o].stage = "queued" /\ authorization = orders[o].grant
      BY <2>4 DEF Send, MaySend
    <3>2. orders[o].grant.permit \in DOMAIN permits
      BY <2>1, <3>1 DEF GrantsAreOfPermits
    <3>3. orders[o].grant # NoGrant
      BY <2>1, <3>2, RowsAreRows DEF NoGrant
    <3>4. QED
      BY <2>1, <3>1, <3>3 DEF AuthorizationIsNewest
  <2>5. ASSUME NEW t \in Threads, Documents(t) PROVE UNCHANGED orders
    BY <2>5 DEF Documents, WriteHalt, WriteAuthorization, Stops
  <2>6. ASSUME NEW t, NEW halt, NEW grants, Operation(t, halt, grants) PROVE UNCHANGED orders
    BY <2>6 DEF Operation, Owes
  <2>7. QED
    BY <2>1, <2>2, <2>3, <2>4, <2>5, <2>6, NextSteps
<1>2. QED
  BY <1>1, PermitInvariance, PTL DEF Spec, OldCommandsDie


-----------------------------------------------------------------------------
(* The refinement of PermitBudget.                                         *)

Open == OfStatus({"ACTIVE", "PAUSED"})
Current == OfStatus({"ACTIVE"})
Spent == [o \in Orders |-> orders[o].grant.permit]
Sent == {o \in Orders : orders[o].stage \in Called}

\* A transaction issues, suspends, resumes or closes.
LEMMA BudgetTransaction ==
  ASSUME TypeOK, GenerationIsNewest, OneCurrentPermit, Transaction, UNCHANGED orders
  PROVE  Budget!Next
<1>1. UNCHANGED <<Spent, Sent>>
  BY DEF Open, Current, Spent, Sent
<1>2. CASE RevokesAll
  <2>1. DOMAIN permits' = DOMAIN permits /\ Len(permits') = Len(permits)
        /\ \A p \in DOMAIN permits : permits'[p].status = "REVOKED"
    BY <1>2, AllRevokedRows DEF RevokesAll
  <2>2. Open' = {} /\ Current' = {}
    BY <2>1 DEF Open, Current, OfStatus
  <2>3. QED
    BY <1>1, <2>1, <2>2 DEF Budget!Next, Budget!Close, Open, Current, Spent, Sent
<1>3. CASE Begins
  <2> DEFINE n == Len(permits) + 1
  <2>1. /\ Len(permits') = n /\ DOMAIN permits' = DOMAIN permits \cup {n}
        /\ permits'[n].status = "ACTIVE" /\ \A p \in DOMAIN permits : permits'[p] = AllRevoked[p]
    <3> DEFINE r == [status |-> "ACTIVE", generation |-> generation']
    <3>1. r \in Row /\ r.status = "ACTIVE"
      BY RowsAreRows DEF Row, Transaction, NextGeneration
    <3>2. permits' = Append(AllRevoked, r)
      BY <1>3 DEF Begins
    <3> HIDE DEF r
    <3>3. QED
      BY <3>1, <3>2, AllRevokedRows, RowsAreRows
  <2>2. n \notin DOMAIN permits /\ \A p \in DOMAIN permits : permits'[p].status = "REVOKED"
    BY <2>1, AllRevokedRows, RowsAreRows
  <2>3. Open' = {n} /\ Current' = {n}
    <3> HIDE DEF n
    <3>1. QED
      BY <2>1, <2>2 DEF Open, Current, OfStatus
  <2>4. QED
    BY <1>1, <2>1, <2>3 DEF Budget!Next, Budget!Issue, Open, Current, Spent, Sent
<1>4. ASSUME NEW p \in DOMAIN permits, permits[p].status # "REVOKED",
             DOMAIN permits' = DOMAIN permits,
             \A q \in DOMAIN permits \ {p} : permits'[q] = permits[q]
      PROVE  /\ Open = {p}
             /\ permits'[p].status = "ACTIVE" => Open' = {p} /\ Current' = {p}
             /\ permits'[p].status = "PAUSED" => Open' = {p} /\ Current' = {}
  <2>1. \A q \in DOMAIN permits \ {p} : permits[q].status = "REVOKED"
    BY <1>4 DEF OneCurrentPermit
  <2>2. permits[p].status \in {"ACTIVE", "PAUSED"}
    BY <1>4, RowsAreRows DEF Row
  <2>3. QED
    BY <1>4, <2>1, <2>2 DEF Open, Current, OfStatus
<1>5. ASSUME NEW p, Pauses(p) PROVE Budget!Next
  <2>1. p \in DOMAIN permits /\ permits[p].status # "REVOKED"
    BY <1>5 DEF Pauses, Active
  <2>2. /\ Len(permits') = Len(permits) /\ DOMAIN permits' = DOMAIN permits
        /\ \A q \in DOMAIN permits \ {p} : permits'[q] = permits[q]
        /\ permits'[p].status = "PAUSED"
    BY <1>5, <2>1, RowsAreRows DEF Pauses, Row
  <2>3. Open' = Open /\ Current' = {}
    BY <1>4, <2>1, <2>2
  <2>4. QED
    BY <1>1, <2>2, <2>3 DEF Budget!Next, Budget!Suspend, Open, Current, Spent, Sent
<1>6. ASSUME NEW p, Resumes(p) PROVE Budget!Next
  <2>1. p \in DOMAIN permits /\ permits[p].status # "REVOKED"
    BY <1>6 DEF Resumes
  <2>2. /\ Len(permits') = Len(permits) /\ DOMAIN permits' = DOMAIN permits
        /\ \A q \in DOMAIN permits \ {p} : permits'[q] = permits[q]
        /\ permits'[p].status = "ACTIVE"
    BY <1>6, <2>1, RowsAreRows DEF Resumes
  <2>3. Open' = Open /\ Current' = Open
    BY <1>4, <2>1, <2>2
  <2>4. QED
    BY <1>1, <2>2, <2>3 DEF Budget!Next, Budget!Resume, Open, Current, Spent, Sent
<1>7. QED
  BY <1>2, <1>3, <1>5, <1>6 DEF Transaction

\* PermitBudget counts as this module does.
LEMMA SameCardinality ==
  ASSUME NEW T PROVE Budget!Cardinality(T) = Cardinality(T)
  BY DEF Cardinality, Budget!Cardinality

\* A step about an order spends, sends or stutters.
LEMMA BudgetOrder ==
  ASSUME TypeOK, GrantsAreOfPermits, NEW o \in Orders, OrderStep(o)
  PROVE  [Budget!Next]_(Budget!absVars)
<1>1. orders \in [Orders -> [stage : {"none", "queued", "refused"} \cup Called, grant : Grant]]
      /\ UNCHANGED permits
  BY OrderSteps DEF TypeOK
<1>2. UNCHANGED <<Len(permits), Open, Current>>
  BY <1>1 DEF Open, Current, OfStatus
<1>3. CASE Submit(o)
  <2>1. PICK p \in DOMAIN permits :
          /\ Active(p) /\ WithinPolicy(p)
          /\ orders' = [orders EXCEPT ![o] =
               [stage |-> "queued", grant |-> [permit |-> p, generation |-> generation]]]
    BY <1>3 DEF Submit
  <2>2. p \in Current
    BY <2>1 DEF Open, Current, OfStatus, Active
  <2>3. Spent[o] = 0
    BY <1>1, <1>3 DEF Submit, GrantsAreOfPermits, NoGrant, Spent
  <2>4. Cardinality({r \in Orders : Spent[r] = p}) < MaxOrders
    <3>1. {r \in Orders : Spent[r] = p} = Reserved(p)
      BY DEF Spent, Reserved
    <3>2. QED
      BY <2>1, <3>1 DEF WithinPolicy
  <2>5. /\ orders'[o].stage = "queued" /\ orders[o].stage = "none" /\ orders'[o].grant.permit = p
        /\ \A r \in Orders \ {o} : orders'[r] = orders[r]
    BY <1>1, <1>3, <2>1 DEF Submit
  <2>6. Spent' = [Spent EXCEPT ![o] = p]
    BY <2>5 DEF Spent
  <2>7. Sent' = Sent
    BY <2>5 DEF Sent, Called
  <2>8. Budget!Spend(o, p)
    BY <1>2, <2>2, <2>3, <2>4, <2>6, <2>7, SameCardinality DEF Budget!Spend, Open, Current, Spent, Sent
  <2>9. QED
    BY <2>2, <2>8 DEF Budget!Next, Current
<1>4. ASSUME NEW s \in {"refused"} \cup Called, orders' = [orders EXCEPT ![o].stage = s]
      PROVE  /\ Spent' = Spent
             /\ \A r \in Orders \ {o} : orders'[r] = orders[r]
             /\ orders'[o].stage = s
  <2> DEFINE v == [orders[o] EXCEPT !.stage = s]
  <2>1. v.stage = s /\ v.grant = orders[o].grant
    BY <1>1
  <2>2. orders' = [orders EXCEPT ![o] = v]
    BY <1>4
  <2> HIDE DEF v
  <2>3. orders'[o] = v /\ \A r \in Orders \ {o} : orders'[r] = orders[r]
    BY <1>1, <2>2
  <2>4. Spent' = Spent
    BY <2>1, <2>3 DEF Spent
  <2>5. QED
    BY <2>1, <2>3, <2>4
<1>5. CASE Send(o)
  <2>1. PICK s \in Called : orders' = [orders EXCEPT ![o].stage = s]
    BY <1>5 DEF Send, Called
  <2>2. orders[o].stage = "queued"
    BY <1>5 DEF Send, MaySend
  <2>3. Spent[o] # 0
    <3>1. orders[o].grant.permit \in DOMAIN permits
      BY <2>2 DEF GrantsAreOfPermits
    <3>2. QED
      BY <3>1, RowsAreRows DEF Spent
  <2>4. o \notin Sent /\ Sent' = Sent \cup {o}
    BY <1>4, <2>1, <2>2 DEF Sent, Called
  <2>5. Spent' = Spent
    BY <1>4, <2>1
  <2>6. Budget!Send(o)
    BY <1>2, <2>3, <2>4, <2>5 DEF Budget!Send, Open, Current, Spent, Sent
  <2>7. QED
    BY <2>6 DEF Budget!Next
<1>6. CASE Refuse(o) \/ IngestUnknown(o) \/ Resolve(o)
  <2>1. PICK s \in {"refused"} \cup Called : /\ orders' = [orders EXCEPT ![o].stage = s]
                                             /\ s \in Called <=> orders[o].stage \in Called
    BY <1>6 DEF Refuse, IngestUnknown, Resolve, Called
  <2>2. Sent' = Sent
    BY <1>4, <2>1 DEF Sent
  <2>3. Spent' = Spent
    BY <1>4, <2>1
  <2>4. QED
    BY <1>2, <2>2, <2>3 DEF Budget!absVars, Open, Current, Spent, Sent
<1>7. QED
  BY <1>3, <1>5, <1>6 DEF OrderStep

\* AutoPermit implements PermitBudget: orders are committed under the one permit
\* in force, within its number, over pauses and new generations, and sent once;
\* a permit that has ended is never spent from again.
THEOREM BudgetRefinement == Spec => ImplementsBudget
<1>1. Init => Budget!Init
  BY DEF Init, Budget!Init, OfStatus, NoGrant, Called
<1>2. ASSUME UNCHANGED <<permits, orders>> PROVE UNCHANGED Budget!absVars
  BY <1>2 DEF Budget!absVars, OfStatus
<1>3. ASSUME IInv, Next PROVE [Budget!Next]_(Budget!absVars)
  <2>1. TypeOK /\ GenerationIsNewest /\ OneCurrentPermit /\ GrantsAreOfPermits
    BY <1>3 DEF IInv
  <2>2. ASSUME NEW t, NEW halt, NEW grants, Operation(t, halt, grants)
        PROVE  [Budget!Next]_(Budget!absVars)
    BY <1>2, <2>1, <2>2, BudgetTransaction DEF Operation, Owes
  <2>3. ASSUME NEW t \in Threads, Documents(t) PROVE UNCHANGED <<permits, orders>>
    BY <2>3 DEF Documents, WriteHalt, WriteAuthorization, Stops
  <2>4. QED
    BY <1>2, <1>3, <2>1, <2>2, <2>3, BudgetOrder, NextSteps
<1>4. ASSUME UNCHANGED vars PROVE UNCHANGED Budget!absVars
  BY <1>2, <1>4 DEF vars
<1>5. QED
  BY <1>1, <1>3, <1>4, PermitInvariance, PTL DEF Spec, ImplementsBudget, Budget!Spec
=============================================================================
