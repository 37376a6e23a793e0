-------------------------- MODULE EventIngestProofs --------------------------
(***************************************************************************)
(* Theorems about EventIngest, for any number of events, acknowledgements  *)
(* and restarts, and that it implements EventLog.  IInv is the inductive   *)
(* invariant.  Its core is that a consumer holds the first of the files it *)
(* has listed, and that it listed all the earlier files still in the       *)
(* folder; and, for the status, what may have followed the last event.     *)
(***************************************************************************)
EXTENDS EventIngest, TLAPS

USE BoundsAssumption DEF consumerVars, ackVars

AppliedAreInbound == Range(applied) = inbound

InboundIsTelling == inbound \subseteq Telling

\* What a consumer holds is the first of the files it has still to deal with.
HoldsTheFirst ==
  \A c \in Consumers :
    holding[c] # 0 => holding[c] \in todo[c] /\ \A j \in todo[c] : holding[c] <= j

HandledIsInbound == \A c \in Consumers : ingested[c] => holding[c] \in inbound

\* The files before a listed one were listed with it, unless they were gone.
ListedAreFirst ==
  \A c \in Consumers : \A j \in todo[c] : \A i \in 1..(j - 1) :
    folder[i] = "events" => i \in todo[c]

\* So nothing is left in the folder before an event that was applied.
InboundAreFirst == \A j \in inbound : \A i \in 1..(j - 1) : folder[i] # "events"

\* Of an order that is filled QMT says nothing else.
FilledIsLast ==
  \A j, k \in DOMAIN written :
    written[j] = "FILLED" /\ written[k] \in {"ACCEPTED", "error"} => k < j

FilledIsKnown == status = "FILLED" => \E j \in inbound : written[j] = "FILLED"

\* Nothing but an event takes back what an acknowledgement rejected.
RejectionStands == "QMT_REJECTED" \in since => status = "QMT_REJECTED"

\* The status is what event m says, unless something was rejected since, or m says
\* ACCEPTED and an acknowledgement or a recorded error overrode it.
Told(m) ==
  \/ status = StatusOf[written[m]]
  \/ "QMT_REJECTED" \in since
  \/ /\ written[m] = "ACCEPTED"
     /\ \/ status \in since
        \/ status = "QMT_REJECTED" /\ \E i \in inbound : written[i] = "error"

IsNewest(m) == m \in inbound /\ \A j \in inbound : j <= m

NewestExists == inbound # {} => \E m \in inbound : IsNewest(m)

StatusIsTold == inbound \cap expired = {} => \A m \in inbound : IsNewest(m) => Told(m)

IInv ==
  /\ TypeOK
  /\ NothingLost
  /\ AppliedAreInbound /\ InboundIsTelling /\ InboundAreFirst
  /\ HoldsTheFirst /\ HandledIsInbound /\ ListedAreFirst
  /\ FilledIsLast /\ FilledIsKnown
  /\ NewestExists /\ RejectionStands /\ StatusIsTold

-----------------------------------------------------------------------------
(* The steps.                                                              *)

Folders == {"events", "archive", "dead_letter"}

LEMMA Data ==
  /\ DOMAIN StatusOf = {"ACCEPTED", "FILLED", "error"}
  /\ \A e \in Events : Usable[e] = (e \in {"ACCEPTED", "FILLED", "error"})
  /\ \A e \in {"ACCEPTED", "FILLED", "error"} :
       /\ e \in Events /\ StatusOf[e] \in Statuses
       /\ StatusOf[e] = "FILLED" => e = "FILLED"
       /\ StatusOf[e] \notin Terminal => e = "ACCEPTED"
  /\ "QUEUED" \in Statuses /\ "QMT_REJECTED" \in Acks /\ Acks \subseteq Statuses /\ "FILLED" \notin Acks
<1>1. DOMAIN StatusOf = {"ACCEPTED", "FILLED", "error"}
  BY DEF StatusOf
<1>2. /\ StatusOf["ACCEPTED"] = "ORDER_ACCEPTED" /\ StatusOf["FILLED"] = "FILLED"
      /\ StatusOf["error"] = "QMT_REJECTED"
  BY DEF StatusOf
<1>3. \A e \in DOMAIN StatusOf : StatusOf[e] \in Statuses
  BY DEF Statuses, Range
<1>4. "QUEUED" \in Statuses /\ "QMT_REJECTED" \in Acks /\ Acks \subseteq Statuses /\ "FILLED" \notin Acks
  BY DEF Statuses, Acks
<1>5. \A e \in Events : Usable[e] = (e \in {"ACCEPTED", "FILLED", "error"})
  BY <1>1 DEF Usable
<1>6. QED
  BY <1>1, <1>2, <1>3, <1>4, <1>5 DEF Events, Terminal

LEMMA Lengths ==
  ASSUME TypeOK
  PROVE  /\ Len(written) \in Nat /\ DOMAIN written = 1..Len(written) /\ DOMAIN folder = DOMAIN written
         /\ folder \in Seq(Folders) /\ Len(folder) = Len(written)
<1>1. Len(written) \in Nat /\ DOMAIN written = 1..Len(written)
  BY DEF TypeOK
<1>2. folder \in [1..Len(written) -> Folders]
  BY <1>1 DEF TypeOK, Folders
<1>3. QED
  BY <1>1, <1>2

\* A consumer that moves a file has handled it, or refuses it.
Moves(c, i) ==
  /\ i \in DOMAIN written
  /\ \/ MoveTo(c, i, "archive") /\ i \in inbound
     \/ MoveTo(c, i, "dead_letter") /\ (i \in expired \/ written[i] = "bad")
  /\ UNCHANGED <<written, expired, inbound, status, crashes, applied, ackVars>>

Reads(c) == \E i \in DOMAIN written : ReadFile(c, i)

Handled(c) == \E i \in DOMAIN written : IngestDuplicate(c, i)

LEMMA ConsumeSteps ==
  ASSUME TypeOK, HandledIsInbound, NEW c \in Consumers, Consume(c)
  PROVE  \/ List(c) \/ Reads(c) \/ Abort(c) \/ Handled(c)
         \/ \E i \in DOMAIN written : Ingest(c, i) \/ Moves(c, i)
<1>1. ASSUME NEW i \in DOMAIN written, Archive(c, i) PROVE Abort(c) \/ Moves(c, i)
  <2>1. i \in inbound
    BY <1>1 DEF Archive, HandledIsInbound
  <2>2. QED
    BY <1>1, <2>1 DEF Archive, Moves
<1>2. ASSUME NEW i \in DOMAIN written, ReadExpired(c, i) \/ RefuseBad(c, i) PROVE Abort(c) \/ Moves(c, i)
  BY <1>2 DEF ReadExpired, RefuseBad, Moves
<1>3. ASSUME NEW i \in DOMAIN written, ReadMissing(c, i) \/ FailOnPoison(c, i) PROVE Abort(c)
  BY <1>3 DEF ReadMissing, FailOnPoison
<1>4. QED
  BY <1>1, <1>2, <1>3 DEF Consume, Reads, Handled

\* A step is one of these.
LEMMA NextSteps ==
  ASSUME TypeOK, HandledIsInbound, Next
  PROVE  \/ \E e \in Events : WriteEvent(e)
         \/ \E i \in DOMAIN written : Expires(i)
         \/ \E c \in Consumers : List(c) \/ Reads(c) \/ Abort(c) \/ Handled(c)
         \/ \E c \in Consumers, i \in DOMAIN written : Ingest(c, i) \/ Moves(c, i)
         \/ ReconcileEvidence \/ Restart
         \/ \E s \in Acks : IngestAck(s)
  BY ConsumeSteps DEF Next

\* What an event written adds.
LEMMA WriteEffect ==
  ASSUME TypeOK, NEW e \in Events, WriteEvent(e)
  PROVE  /\ DOMAIN written' = DOMAIN written \cup {Len(written) + 1} /\ Len(written) + 1 \notin DOMAIN written
         /\ written'[Len(written) + 1] = e /\ folder'[Len(written) + 1] = "events"
         /\ \A i \in DOMAIN written : written'[i] = written[i] /\ folder'[i] = folder[i] /\ i < Len(written) + 1
         /\ written' \in Seq(Events) /\ folder' \in [DOMAIN written' -> Folders]
<1> DEFINE n == Len(written) + 1
<1>1. /\ written' = Append(written, e) /\ folder' = Append(folder, "events")
      /\ written \in Seq(Events) /\ folder \in Seq(Folders) /\ Len(written) \in Nat /\ Len(folder) = Len(written)
      /\ "events" \in Folders
  BY Lengths DEF WriteEvent, TypeOK, Folders
<1>2. written' \in Seq(Events) /\ DOMAIN written' = 1..n /\ written'[n] = e
      /\ \A i \in 1..Len(written) : written'[i] = written[i]
  BY <1>1
<1>3. folder' \in Seq(Folders) /\ DOMAIN folder' = 1..n /\ folder'[n] = "events"
      /\ \A i \in 1..Len(written) : folder'[i] = folder[i]
  BY <1>1
<1>4. folder' \in [DOMAIN written' -> Folders]
  BY <1>2, <1>3
<1>5. QED
  BY <1>1, <1>2, <1>3, <1>4, Lengths

\* What a move changes.
LEMMA MoveEffect ==
  ASSUME TypeOK, NEW c \in Consumers, NEW i \in DOMAIN written, Moves(c, i)
  PROVE  /\ folder[i] = "events"
         /\ \E f \in {"archive", "dead_letter"} :
              /\ folder' = [folder EXCEPT ![i] = f]
              /\ f = "archive" => i \in inbound
              /\ f = "dead_letter" => i \in expired \/ written[i] = "bad"
         /\ \A j \in DOMAIN written \ {i} : folder'[j] = folder[j]
         /\ folder'[i] # "events" /\ folder' \in [DOMAIN written -> Folders]
         /\ todo'[c] = todo[c] \ {i} /\ holding'[c] = 0 /\ ~ingested'[c]
         /\ \A d \in Consumers \ {c} :
              todo'[d] = todo[d] /\ holding'[d] = holding[d] /\ ingested'[d] = ingested[d]
         /\ UNCHANGED <<written, expired, inbound, status, crashes, applied, ackVars>>
<1>1. PICK f \in {"archive", "dead_letter"} :
        /\ MoveTo(c, i, f)
        /\ f = "archive" => i \in inbound
        /\ f = "dead_letter" => i \in expired \/ written[i] = "bad"
  BY DEF Moves
<1>2. folder \in [DOMAIN written -> Folders] /\ folder' = [folder EXCEPT ![i] = f]
  BY <1>1 DEF MoveTo, TypeOK, Folders
<1>3. /\ \A j \in DOMAIN written \ {i} : folder'[j] = folder[j]
      /\ folder'[i] # "events" /\ folder' \in [DOMAIN written -> Folders]
  BY <1>2 DEF Folders
<1>4. /\ todo'[c] = todo[c] \ {i} /\ holding'[c] = 0 /\ ~ingested'[c]
      /\ \A d \in Consumers \ {c} :
           todo'[d] = todo[d] /\ holding'[d] = holding[d] /\ ingested'[d] = ingested[d]
  BY <1>1 DEF MoveTo, TypeOK
<1>5. folder[i] = "events" /\ UNCHANGED <<written, expired, inbound, status, crashes, applied, ackVars>>
  BY <1>1 DEF MoveTo, Moves
<1>6. QED
  BY <1>1, <1>2, <1>3, <1>4, <1>5

\* What leaves the files and the database alone, and all consumers but c.
LEMMA ConsumerEffect ==
  ASSUME TypeOK, NEW c \in Consumers, List(c) \/ Reads(c) \/ Abort(c) \/ Handled(c)
  PROVE  /\ UNCHANGED <<written, folder, expired, inbound, status, crashes, applied, ackVars>>
         /\ \A d \in Consumers \ {c} :
              todo'[d] = todo[d] /\ holding'[d] = holding[d] /\ ingested'[d] = ingested[d]
         /\ \/ todo[c] = {} /\ todo'[c] = InFolder /\ UNCHANGED <<holding, ingested>>
            \/ /\ holding'[c] \in todo[c] /\ \A j \in todo[c] : holding'[c] <= j
               /\ holding[c] = 0 /\ UNCHANGED <<todo, ingested>>
            \/ todo'[c] = {} /\ holding'[c] = 0 /\ ~ingested'[c]
            \/ holding[c] \in inbound /\ UNCHANGED <<todo, holding>>
<1>1. CASE List(c)
  BY <1>1 DEF List, TypeOK
<1>2. CASE Reads(c)
  <2>1. PICK i \in DOMAIN written : ReadFile(c, i)
    BY <1>2 DEF Reads
  <2>2. holding'[c] = i /\ \A d \in Consumers \ {c} : holding'[d] = holding[d]
    BY <2>1 DEF ReadFile, TypeOK
  <2>3. QED
    BY <2>1, <2>2 DEF ReadFile, IsNext
<1>3. CASE Abort(c)
  BY <1>3 DEF Abort, TypeOK
<1>4. CASE Handled(c)
  BY <1>4 DEF Handled, IngestDuplicate, Handles, Returns, TypeOK
<1>5. QED
  BY <1>1, <1>2, <1>3, <1>4

\* What the handler commits.
LEMMA IngestEffect ==
  ASSUME TypeOK, NEW c \in Consumers, NEW i \in DOMAIN written, Ingest(c, i)
  PROVE  /\ i = holding[c] /\ i # 0 /\ i \notin inbound /\ inbound' = inbound \cup {i}
         /\ written[i] \in {"ACCEPTED", "FILLED", "error"} /\ i \in Telling
         /\ status' = StatusOf[written[i]] /\ applied' = Append(applied, i)
         /\ \A d \in Consumers \ {c} : ingested'[d] = ingested[d]
         /\ UNCHANGED <<written, folder, expired, todo, holding, crashes, acks>> /\ since' = {}
<1>1. written[i] \in Events
  BY DEF TypeOK
<1>2. written[i] \in {"ACCEPTED", "FILLED", "error"} /\ i \in Telling
  BY <1>1, Data DEF Ingest, Telling
<1>3. \A d \in Consumers \ {c} : ingested'[d] = ingested[d]
  BY DEF Ingest, Returns, TypeOK
<1>4. QED
  BY <1>2, <1>3 DEF Ingest, Handles, Returns

LEMMA TellingIsUsable ==
  ASSUME TypeOK
  PROVE  \A i \in Telling : written[i] \in {"ACCEPTED", "FILLED", "error"}
<1> SUFFICES ASSUME NEW i \in Telling PROVE written[i] \in {"ACCEPTED", "FILLED", "error"}
  OBVIOUS
<1>1. written[i] \in Events /\ Usable[written[i]]
  BY DEF Telling, TypeOK
<1>2. QED
  BY <1>1, Data

\* An acknowledgement touches the status alone.
LEMMA AckEffect ==
  ASSUME NEW s \in Acks, IngestAck(s)
  PROVE  /\ since' = since \cup {s}
         /\ \/ status' = s /\ (s \in Terminal \/ status \notin Terminal)
            \/ status' = status /\ s \notin Terminal /\ status \in Terminal
         /\ UNCHANGED <<written, folder, expired, inbound, consumerVars, crashes, applied>>
  BY DEF IngestAck, Acknowledged

LEMMA EvidenceKept ==
  ASSUME TypeOK
  PROVE  Evidence \in Statuses /\ (status = "FILLED" => Evidence = status) /\ (Evidence = "FILLED" => status = "FILLED")
         /\ (status = "QMT_REJECTED" => Evidence = status)
  BY Data DEF Evidence, Terminal, TypeOK

-----------------------------------------------------------------------------
(* Types.                                                                  *)

LEMMA TypesStay == ASSUME TypeOK, HandledIsInbound, Next PROVE TypeOK'
<1>1. ASSUME NEW e \in Events, WriteEvent(e) PROVE TypeOK'
  <2>1. UNCHANGED <<expired, inbound, status, consumerVars, crashes, applied, ackVars>>
    BY <1>1 DEF WriteEvent
  <2>2. DOMAIN written \subseteq DOMAIN written' /\ written' \in Seq(Events) /\ folder' \in [DOMAIN written' -> Folders]
    BY <1>1, WriteEffect
  <2>3. applied \in Seq(DOMAIN written')
    BY <2>2 DEF TypeOK
  <2>4. todo \in [Consumers -> SUBSET DOMAIN written'] /\ holding \in [Consumers -> {0} \cup DOMAIN written']
    BY <2>2 DEF TypeOK
  <2>5. QED
    BY <2>1, <2>2, <2>3, <2>4 DEF TypeOK, Folders
<1>2. ASSUME NEW i \in DOMAIN written, Expires(i) PROVE TypeOK'
  BY <1>2 DEF Expires, TypeOK
<1>3. ASSUME NEW c \in Consumers, List(c) \/ Reads(c) \/ Abort(c) \/ Handled(c) PROVE TypeOK'
  <2>1. UNCHANGED <<written, folder, expired, inbound, status, crashes, applied, ackVars>>
    BY <1>3, ConsumerEffect
  <2>2. /\ todo' \in [Consumers -> SUBSET DOMAIN written]
        /\ holding' \in [Consumers -> {0} \cup DOMAIN written]
        /\ ingested' \in [Consumers -> BOOLEAN]
    <3>1. CASE List(c)
      <4>1. InFolder \subseteq DOMAIN written
        BY DEF InFolder
      <4>2. QED
        BY <3>1, <4>1 DEF List, TypeOK
    <3>2. CASE Reads(c)
      BY <3>2 DEF Reads, ReadFile, TypeOK
    <3>3. CASE Abort(c)
      BY <3>3 DEF Abort, TypeOK
    <3>4. CASE Handled(c)
      BY <3>4 DEF Handled, IngestDuplicate, Returns, TypeOK
    <3>5. QED
      BY <1>3, <3>1, <3>2, <3>3, <3>4
  <2>3. QED
    BY <2>1, <2>2 DEF TypeOK
<1>4. ASSUME NEW c \in Consumers, NEW i \in DOMAIN written, Ingest(c, i) PROVE TypeOK'
  <2>1. written[i] \in {"ACCEPTED", "FILLED", "error"} /\ status' = StatusOf[written[i]]
        /\ inbound' = inbound \cup {i} /\ since' = {}
    BY <1>4, IngestEffect
  <2>2. applied' \in Seq(DOMAIN written)
    BY <1>4 DEF Ingest, TypeOK
  <2>3. ingested' \in [Consumers -> BOOLEAN]
    BY <1>4 DEF Ingest, Returns, TypeOK
  <2>4. status' \in Statuses
    BY <2>1, Data
  <2>5. QED
    BY <1>4, <2>1, <2>2, <2>3, <2>4, IngestEffect DEF TypeOK
<1>5. ASSUME NEW c \in Consumers, NEW i \in DOMAIN written, Moves(c, i) PROVE TypeOK'
  <2>1. UNCHANGED <<written, expired, inbound, status, crashes, applied, ackVars>> /\ folder' \in [DOMAIN written -> Folders]
    BY <1>5, MoveEffect
  <2>2. /\ todo' \in [Consumers -> SUBSET DOMAIN written]
        /\ holding' \in [Consumers -> {0} \cup DOMAIN written]
        /\ ingested' \in [Consumers -> BOOLEAN]
    <3>1. /\ todo' = [todo EXCEPT ![c] = @ \ {i}]
          /\ holding' = [holding EXCEPT ![c] = 0] /\ ingested' = [ingested EXCEPT ![c] = FALSE]
      BY <1>5 DEF Moves, MoveTo
    <3>2. todo[c] \ {i} \in SUBSET DOMAIN written
      BY DEF TypeOK
    <3>3. todo' \in [Consumers -> SUBSET DOMAIN written]
      BY <3>1, <3>2 DEF TypeOK
    <3>4. QED
      BY <3>1, <3>3 DEF TypeOK
  <2>3. QED
    BY <2>1, <2>2 DEF TypeOK, Folders
<1>6. CASE ReconcileEvidence
  BY <1>6, EvidenceKept DEF ReconcileEvidence, TypeOK
<1>7. CASE Restart
  <2>1. crashes' \in 0..MaxCrashes
    BY <1>7 DEF Restart, TypeOK
  <2>2. QED
    BY <1>7, <2>1, EvidenceKept DEF Restart, TypeOK
<1>8. ASSUME NEW s \in Acks, IngestAck(s) PROVE TypeOK'
  <2>1. acks' \in 0..MaxAcks
    BY <1>8 DEF IngestAck, Acknowledged, TypeOK
  <2>2. status' \in Statuses /\ since' \subseteq Acks
    BY <1>8, AckEffect, Data DEF TypeOK
  <2>3. QED
    BY <1>8, <2>1, <2>2, AckEffect DEF TypeOK
<1>9. QED
  BY <1>1, <1>2, <1>3, <1>4, <1>5, <1>6, <1>7, <1>8, NextSteps

-----------------------------------------------------------------------------
(* Consumers and files.                                                    *)

\* A consumer takes the files in their order: it lists all there are, and what
\* leaves its list has left the folder.
LEMMA ConsumersStay ==
  ASSUME TypeOK, HoldsTheFirst, HandledIsInbound, ListedAreFirst, Next
  PROVE  HoldsTheFirst' /\ HandledIsInbound' /\ ListedAreFirst'
<1>1. ASSUME NEW e \in Events, WriteEvent(e) PROVE HoldsTheFirst' /\ HandledIsInbound' /\ ListedAreFirst'
  <2>1. UNCHANGED <<inbound, todo, holding, ingested>>
    BY <1>1 DEF WriteEvent
  <2>2. \A c \in Consumers : \A j \in todo[c] : \A i \in 1..(j - 1) : folder'[i] = folder[i]
    BY <1>1, WriteEffect, Lengths DEF TypeOK
  <2>3. QED
    BY <2>1, <2>2 DEF HoldsTheFirst, HandledIsInbound, ListedAreFirst
<1>2. CASE ReconcileEvidence \/ \E i \in DOMAIN written : Expires(i)
  BY <1>2 DEF ReconcileEvidence, Expires, HoldsTheFirst, HandledIsInbound, ListedAreFirst
<1>3. ASSUME NEW c \in Consumers, List(c) \/ Reads(c) \/ Abort(c) \/ Handled(c)
      PROVE  HoldsTheFirst' /\ HandledIsInbound' /\ ListedAreFirst'
  <2>1. /\ UNCHANGED <<written, folder, inbound>>
        /\ \A d \in Consumers \ {c} :
              todo'[d] = todo[d] /\ holding'[d] = holding[d] /\ ingested'[d] = ingested[d]
    BY <1>3, ConsumerEffect
  <2>2. /\ holding'[c] # 0 => holding'[c] \in todo'[c] /\ \A j \in todo'[c] : holding'[c] <= j
        /\ ingested'[c] => holding'[c] \in inbound
        /\ \A j \in todo'[c] : \A i \in 1..(j - 1) : folder[i] = "events" => i \in todo'[c]
    <3>1. CASE todo[c] = {} /\ todo'[c] = InFolder /\ UNCHANGED <<holding, ingested>>
      BY <3>1, Lengths DEF InFolder, HoldsTheFirst, HandledIsInbound, TypeOK
    <3>2. CASE /\ holding'[c] \in todo[c] /\ \A j \in todo[c] : holding'[c] <= j
               /\ holding[c] = 0 /\ UNCHANGED <<todo, ingested>>
      <4>1. ~ingested'[c]
        BY <3>2, Lengths DEF HandledIsInbound, TypeOK
      <4>2. QED
        BY <3>2, <4>1 DEF ListedAreFirst
    <3>3. CASE todo'[c] = {} /\ holding'[c] = 0 /\ ~ingested'[c]
      BY <3>3
    <3>4. CASE holding[c] \in inbound /\ UNCHANGED <<todo, holding>>
      BY <3>4 DEF HoldsTheFirst, ListedAreFirst
    <3>5. QED
      BY <1>3, <3>1, <3>2, <3>3, <3>4, ConsumerEffect
  <2>3. QED
    BY <2>1, <2>2 DEF HoldsTheFirst, HandledIsInbound, ListedAreFirst
<1>4. ASSUME NEW c \in Consumers, NEW i \in DOMAIN written, Ingest(c, i)
      PROVE  HoldsTheFirst' /\ HandledIsInbound' /\ ListedAreFirst'
  <2>1. /\ UNCHANGED <<folder, todo, holding>> /\ inbound' = inbound \cup {i} /\ i = holding[c]
        /\ \A d \in Consumers \ {c} : ingested'[d] = ingested[d]
    BY <1>4, IngestEffect
  <2>2. QED
    BY <2>1 DEF HoldsTheFirst, HandledIsInbound, ListedAreFirst
<1>5. ASSUME NEW c \in Consumers, NEW i \in DOMAIN written, Moves(c, i)
      PROVE  HoldsTheFirst' /\ HandledIsInbound' /\ ListedAreFirst'
  <2>1. /\ folder'[i] # "events" /\ \A j \in DOMAIN written \ {i} : folder'[j] = folder[j]
        /\ todo'[c] = todo[c] \ {i} /\ holding'[c] = 0 /\ ~ingested'[c]
        /\ \A d \in Consumers \ {c} :
              todo'[d] = todo[d] /\ holding'[d] = holding[d] /\ ingested'[d] = ingested[d]
        /\ UNCHANGED <<written, inbound>>
    BY <1>5, MoveEffect
  <2>2. HoldsTheFirst' /\ HandledIsInbound'
    BY <2>1 DEF HoldsTheFirst, HandledIsInbound
  <2>3. ASSUME NEW d \in Consumers, NEW j \in todo'[d], NEW k \in 1..(j - 1), folder'[k] = "events"
        PROVE  k \in todo'[d]
    <3>1. j \in todo[d] /\ k # i /\ k \in DOMAIN written
      BY <2>1, <2>3, Lengths DEF TypeOK
    <3>2. k \in todo[d]
      BY <2>1, <2>3, <3>1 DEF ListedAreFirst
    <3>3. QED
      BY <2>1, <3>1, <3>2
  <2>4. QED
    BY <2>2, <2>3 DEF ListedAreFirst
<1>6. CASE Restart
  BY <1>6 DEF Restart, HoldsTheFirst, HandledIsInbound, ListedAreFirst
<1>7. ASSUME NEW s \in Acks, IngestAck(s) PROVE HoldsTheFirst' /\ HandledIsInbound' /\ ListedAreFirst'
  BY <1>7, AckEffect DEF HoldsTheFirst, HandledIsInbound, ListedAreFirst
<1>8. QED
  BY <1>1, <1>2, <1>3, <1>4, <1>5, <1>6, <1>7, NextSteps

\* Nothing is left in the folder before the event a consumer holds.
LEMMA HeldIsFirst ==
  ASSUME TypeOK, HoldsTheFirst, ListedAreFirst, NEW c \in Consumers, holding[c] # 0
  PROVE  \A i \in 1..(holding[c] - 1) : folder[i] # "events"
<1>1. holding[c] \in todo[c] /\ \A j \in todo[c] : holding[c] <= j
  BY DEF HoldsTheFirst
<1>2. ASSUME NEW i \in 1..(holding[c] - 1) PROVE i \notin todo[c]
  BY <1>1, Lengths DEF TypeOK
<1>3. QED
  BY <1>1, <1>2 DEF ListedAreFirst

LEMMA RangeOfAppend ==
  ASSUME NEW S, NEW s \in Seq(S), NEW x \in S
  PROVE  Range(Append(s, x)) = Range(s) \cup {x}
<1> DEFINE t == Append(s, x)
<1>1. /\ Len(s) \in Nat /\ DOMAIN s = 1..Len(s) /\ DOMAIN t = 1..(Len(s) + 1)
      /\ t[Len(s) + 1] = x /\ \A k \in 1..Len(s) : t[k] = s[k]
  OBVIOUS
<1>2. DOMAIN t = DOMAIN s \cup {Len(s) + 1} /\ \A k \in DOMAIN s : t[k] = s[k]
  BY <1>1
<1> HIDE DEF t
<1>3. Range(t) = Range(s) \cup {x}
  BY <1>1, <1>2 DEF Range
<1>4. QED
  BY <1>3 DEF t

\* What the folder and the database say of an event agree.
LEMMA FilesStay ==
  ASSUME TypeOK, NothingLost, AppliedAreInbound, InboundIsTelling, InboundAreFirst,
         HoldsTheFirst, HandledIsInbound, ListedAreFirst, Next
  PROVE  NothingLost' /\ AppliedAreInbound' /\ InboundIsTelling' /\ InboundAreFirst'
<1>1. ASSUME NEW e \in Events, WriteEvent(e)
      PROVE  NothingLost' /\ AppliedAreInbound' /\ InboundIsTelling' /\ InboundAreFirst'
  <2>1. UNCHANGED <<expired, inbound, applied>>
    BY <1>1 DEF WriteEvent
  <2>2. NothingLost'
    BY <1>1, <2>1, WriteEffect DEF NothingLost
  <2>3. InboundIsTelling'
    BY <1>1, <2>1, WriteEffect DEF InboundIsTelling, Telling
  <2>4. \A j \in inbound : \A i \in 1..(j - 1) : folder'[i] = folder[i]
    BY <1>1, WriteEffect, Lengths DEF TypeOK
  <2>5. QED
    BY <2>1, <2>2, <2>3, <2>4 DEF AppliedAreInbound, InboundAreFirst
<1>2. CASE /\ UNCHANGED <<written, folder, inbound, applied>>
           /\ expired \subseteq expired'
  BY <1>2 DEF NothingLost, AppliedAreInbound, InboundIsTelling, InboundAreFirst, Telling
<1>3. ASSUME NEW c \in Consumers, List(c) \/ Reads(c) \/ Abort(c) \/ Handled(c)
      PROVE  UNCHANGED <<written, folder, expired, inbound, applied>>
  BY <1>3, ConsumerEffect
<1>4. ASSUME NEW c \in Consumers, NEW i \in DOMAIN written, Ingest(c, i)
      PROVE  NothingLost' /\ AppliedAreInbound' /\ InboundIsTelling' /\ InboundAreFirst'
  <2>1. /\ UNCHANGED <<written, folder, expired>> /\ inbound' = inbound \cup {i} /\ i = holding[c] /\ i # 0
        /\ applied' = Append(applied, i) /\ i \in Telling
    BY <1>4, IngestEffect
  <2>2. NothingLost'
    BY <2>1 DEF NothingLost
  <2>3. InboundIsTelling'
    BY <2>1 DEF InboundIsTelling, Telling
  <2>4. AppliedAreInbound'
    <3>1. applied \in Seq(DOMAIN written)
      BY DEF TypeOK
    <3>2. QED
      BY <2>1, <3>1, RangeOfAppend DEF AppliedAreInbound
  <2>5. InboundAreFirst'
    BY <2>1, HeldIsFirst DEF InboundAreFirst
  <2>6. QED
    BY <2>2, <2>3, <2>4, <2>5
<1>5. ASSUME NEW c \in Consumers, NEW i \in DOMAIN written, Moves(c, i)
      PROVE  NothingLost' /\ AppliedAreInbound' /\ InboundIsTelling' /\ InboundAreFirst'
  <2>1. UNCHANGED <<written, expired, inbound, applied>>
    BY <1>5, MoveEffect
  <2>2. \A j \in DOMAIN written \ {i} : folder'[j] = folder[j]
    BY <1>5, MoveEffect
  <2>3. folder'[i] = "archive" => i \in inbound
    BY <1>5, MoveEffect DEF TypeOK
  <2>4. folder'[i] = "dead_letter" => i \in expired \/ written[i] = "bad"
    BY <1>5, MoveEffect DEF TypeOK
  <2>5. NothingLost'
    BY <2>1, <2>2, <2>3, <2>4 DEF NothingLost
  <2>6. InboundAreFirst'
    <3>1. folder'[i] # "events"
      BY <1>5, MoveEffect
    <3>2. \A j \in inbound : \A k \in 1..(j - 1) : k \in DOMAIN written
      BY Lengths DEF TypeOK
    <3>3. QED
      BY <2>1, <2>2, <3>1, <3>2 DEF InboundAreFirst
  <2>7. QED
    BY <2>1, <2>5, <2>6 DEF AppliedAreInbound, InboundIsTelling, Telling
<1>6. ASSUME ReconcileEvidence \/ Restart \/ \E i \in DOMAIN written : Expires(i)
      PROVE  UNCHANGED <<written, folder, inbound, applied>> /\ expired \subseteq expired'
  BY <1>6 DEF ReconcileEvidence, Restart, Expires
<1>7. ASSUME NEW s \in Acks, IngestAck(s) PROVE UNCHANGED <<written, folder, expired, inbound, applied>>
  BY <1>7, AckEffect
<1>8. QED
  BY <1>1, <1>2, <1>3, <1>4, <1>5, <1>6, <1>7, NextSteps

-----------------------------------------------------------------------------
(* The status.                                                             *)

\* An event that says something and was passed over without being applied had
\* expired.
LEMMA PassedOver ==
  ASSUME TypeOK, NothingLost, InboundAreFirst, NEW i \in Telling, i \notin inbound,
         NEW j \in inbound, i < j
  PROVE  i \in expired
<1>1. i \in DOMAIN written /\ written[i] \in {"ACCEPTED", "FILLED", "error"}
  BY TellingIsUsable DEF Telling
<1>2. i \in 1..(j - 1)
  BY <1>1, Lengths DEF TypeOK
<1>3. folder[i] # "events"
  BY <1>2 DEF InboundAreFirst
<1>4. folder[i] = "dead_letter"
  BY <1>1, <1>3 DEF NothingLost, TypeOK
<1>5. QED
  BY <1>1, <1>4 DEF NothingLost

LEMMA FilledStay ==
  ASSUME TypeOK, InboundIsTelling, HandledIsInbound, FilledIsLast, FilledIsKnown, Next
  PROVE  FilledIsLast' /\ FilledIsKnown'
<1>1. ASSUME NEW e \in Events, WriteEvent(e) PROVE FilledIsLast' /\ FilledIsKnown'
  <2>1. UNCHANGED <<inbound, status>> /\ (e \in {"ACCEPTED", "error"} => \A i \in DOMAIN written : written[i] # "FILLED")
    BY <1>1 DEF WriteEvent
  <2>2. FilledIsLast'
    BY <1>1, <2>1, WriteEffect DEF FilledIsLast
  <2>3. inbound \subseteq DOMAIN written
    BY DEF TypeOK
  <2>4. QED
    BY <1>1, <2>1, <2>2, <2>3, WriteEffect DEF FilledIsKnown
<1>2. CASE UNCHANGED <<written, inbound>> /\ (status' = status \/ status' = Evidence)
  BY <1>2, EvidenceKept DEF FilledIsLast, FilledIsKnown
<1>3. ASSUME NEW c \in Consumers, List(c) \/ Reads(c) \/ Abort(c) \/ Handled(c)
      PROVE  UNCHANGED <<written, inbound, status>>
  BY <1>3, ConsumerEffect
<1>4. ASSUME NEW c \in Consumers, NEW i \in DOMAIN written, Ingest(c, i) PROVE FilledIsLast' /\ FilledIsKnown'
  <2>1. /\ written' = written /\ inbound' = inbound \cup {i}
        /\ written[i] \in {"ACCEPTED", "FILLED", "error"} /\ status' = StatusOf[written[i]]
    BY <1>4, IngestEffect
  <2>2. QED
    BY <2>1, Data DEF FilledIsLast, FilledIsKnown
<1>5. ASSUME NEW c \in Consumers, NEW i \in DOMAIN written, Moves(c, i)
      PROVE  UNCHANGED <<written, inbound, status>>
  BY <1>5, MoveEffect
<1>6. ASSUME ReconcileEvidence \/ Restart \/ \E i \in DOMAIN written : Expires(i)
      PROVE  UNCHANGED <<written, inbound>> /\ (status' = status \/ status' = Evidence)
  BY <1>6 DEF ReconcileEvidence, Restart, Expires
<1>7. ASSUME NEW s \in Acks, IngestAck(s) PROVE FilledIsLast' /\ FilledIsKnown'
  BY <1>7, AckEffect, Data DEF FilledIsLast, FilledIsKnown
<1>8. QED
  BY <1>1, <1>2, <1>3, <1>4, <1>5, <1>6, <1>7, NextSteps

LEMMA RejectionStays == ASSUME TypeOK, HandledIsInbound, RejectionStands, Next PROVE RejectionStands'
<1>1. ASSUME NEW c \in Consumers, List(c) \/ Reads(c) \/ Abort(c) \/ Handled(c) PROVE RejectionStands'
  BY <1>1, ConsumerEffect DEF RejectionStands
<1>2. ASSUME NEW c \in Consumers, NEW i \in DOMAIN written, Ingest(c, i) PROVE RejectionStands'
  BY <1>2, IngestEffect DEF RejectionStands
<1>3. ASSUME NEW c \in Consumers, NEW i \in DOMAIN written, Moves(c, i) PROVE RejectionStands'
  BY <1>3, MoveEffect DEF RejectionStands
<1>4. ASSUME ReconcileEvidence \/ Restart PROVE RejectionStands'
  BY <1>4, EvidenceKept DEF ReconcileEvidence, Restart, RejectionStands
<1>5. ASSUME (\E e \in Events : WriteEvent(e)) \/ \E i \in DOMAIN written : Expires(i) PROVE RejectionStands'
  BY <1>5 DEF WriteEvent, Expires, RejectionStands
<1>6. ASSUME NEW s \in Acks, IngestAck(s) PROVE RejectionStands'
  <2>1. CASE s = "QMT_REJECTED"
    BY <1>6, <2>1, AckEffect DEF RejectionStands, Terminal
  <2>2. CASE s # "QMT_REJECTED" /\ "QMT_REJECTED" \in since
    BY <1>6, <2>2, AckEffect, Data DEF RejectionStands, Terminal
  <2>3. CASE "QMT_REJECTED" \notin since'
    BY <2>3 DEF RejectionStands
  <2>4. QED
    BY <1>6, <2>1, <2>2, <2>3, AckEffect
<1>7. QED
  BY <1>1, <1>2, <1>3, <1>4, <1>5, <1>6, NextSteps

LEMMA StatusStays ==
  ASSUME TypeOK, NothingLost, InboundIsTelling, HandledIsInbound, InboundAreFirst, NewestExists, StatusIsTold, Next
  PROVE  NewestExists' /\ StatusIsTold'
<1>1. ASSUME NEW e \in Events, WriteEvent(e) PROVE NewestExists' /\ StatusIsTold'
  <2>1. UNCHANGED <<expired, inbound, status, since>>
    BY <1>1 DEF WriteEvent
  <2>2. \A i \in inbound : written'[i] = written[i]
    BY <1>1, WriteEffect DEF TypeOK
  <2>3. \A m \in inbound : Told(m)' = Told(m)
    BY <2>1, <2>2 DEF Told
  <2>4. QED
    BY <2>1, <2>3 DEF NewestExists, StatusIsTold, IsNewest
<1>2. CASE UNCHANGED <<written, inbound, status, since>> /\ expired \subseteq expired'
  <2>1. \A m : Told(m)' = Told(m) /\ IsNewest(m)' = IsNewest(m)
    BY <1>2 DEF Told, IsNewest
  <2>2. QED
    BY <1>2, <2>1 DEF NewestExists, StatusIsTold
<1>3. ASSUME NEW c \in Consumers, List(c) \/ Reads(c) \/ Abort(c) \/ Handled(c)
      PROVE  UNCHANGED <<written, inbound, status, since, expired>>
  BY <1>3, ConsumerEffect
<1>4. ASSUME NEW c \in Consumers, NEW i \in DOMAIN written, Ingest(c, i) PROVE NewestExists' /\ StatusIsTold'
  <2>1. /\ UNCHANGED <<written, expired>> /\ inbound' = inbound \cup {i} /\ i \notin inbound /\ i \in Telling
        /\ status' = StatusOf[written[i]] /\ inbound \subseteq Nat /\ i \in Nat
    BY <1>4, IngestEffect, Lengths DEF TypeOK
  <2>2. NewestExists'
    <3>1. CASE inbound = {}
      BY <2>1, <3>1 DEF NewestExists, IsNewest
    <3>2. CASE inbound # {}
      <4>1. PICK m \in inbound : \A j \in inbound : j <= m
        BY <3>2 DEF NewestExists, IsNewest
      <4>2. IsNewest(m)' \/ IsNewest(i)'
        BY <2>1, <4>1 DEF IsNewest
      <4>3. QED
        BY <2>1, <4>1, <4>2 DEF NewestExists
    <3>3. QED
      BY <3>1, <3>2
  <2>3. ASSUME inbound' \cap expired' = {}, NEW m \in inbound', IsNewest(m)' PROVE Told(m)'
    <3>1. i \notin expired
      BY <2>1, <2>3
    <3>2. \A j \in inbound : ~(i < j)
      BY <2>1, <3>1, PassedOver
    <3>3. m = i
      BY <2>1, <2>3, <3>2 DEF IsNewest
    <3>4. QED
      BY <2>1, <3>3 DEF Told
  <2>4. QED
    BY <2>2, <2>3 DEF StatusIsTold
<1>5. ASSUME NEW c \in Consumers, NEW i \in DOMAIN written, Moves(c, i)
      PROVE  UNCHANGED <<written, inbound, status, since, expired>>
  BY <1>5, MoveEffect
<1>6. ASSUME UNCHANGED <<written, inbound, expired, since>>, status' = Evidence PROVE NewestExists' /\ StatusIsTold'
  <2>1. NewestExists'
    BY <1>6 DEF NewestExists, IsNewest
  <2>2. ASSUME inbound' \cap expired' = {}, NEW m \in inbound', IsNewest(m)' PROVE Told(m)'
    <3>1. Told(m) /\ written[m] \in {"ACCEPTED", "FILLED", "error"}
      BY <1>6, <2>2, TellingIsUsable DEF StatusIsTold, IsNewest, InboundIsTelling
    <3>2. CASE Evidence = status
      BY <1>6, <3>1, <3>2 DEF Told
    <3>3. CASE Evidence # status
      <4>1. status \notin Terminal /\ Evidence = "QMT_REJECTED" /\ \E i \in inbound : written[i] = "error"
        BY <3>3 DEF Evidence
      <4>2. CASE status = StatusOf[written[m]]
        BY <1>6, <3>1, <4>1, <4>2, Data DEF Told
      <4>3. CASE "QMT_REJECTED" \in since
        BY <1>6, <4>3 DEF Told
      <4>4. QED
        BY <1>6, <3>1, <4>1, <4>2, <4>3 DEF Told
    <3>4. QED
      BY <3>2, <3>3
  <2>3. QED
    BY <2>1, <2>2 DEF StatusIsTold
<1>7. ASSUME \E i \in DOMAIN written : Expires(i)
      PROVE  UNCHANGED <<written, inbound, status, since>> /\ expired \subseteq expired'
  BY <1>7 DEF Expires
<1>8. ASSUME ReconcileEvidence \/ Restart PROVE UNCHANGED <<written, inbound, expired, since>> /\ status' = Evidence
  BY <1>8 DEF ReconcileEvidence, Restart
<1>9. ASSUME NEW s \in Acks, IngestAck(s) PROVE NewestExists' /\ StatusIsTold'
  <2>1. UNCHANGED <<written, inbound, expired>> /\ since' = since \cup {s}
    BY <1>9, AckEffect
  <2>2. NewestExists'
    BY <2>1 DEF NewestExists, IsNewest
  <2>3. ASSUME inbound' \cap expired' = {}, NEW m \in inbound', IsNewest(m)' PROVE Told(m)'
    <3>1. Told(m) /\ written[m] \in {"ACCEPTED", "FILLED", "error"}
      BY <2>1, <2>3, TellingIsUsable DEF StatusIsTold, IsNewest, InboundIsTelling
    <3>2. CASE status' = status
      BY <2>1, <3>1, <3>2 DEF Told
    <3>3. CASE s = "QMT_REJECTED"
      BY <2>1, <3>3 DEF Told
    <3>4. CASE status' = s /\ status \notin Terminal
      <4>1. written[m] = "ACCEPTED" \/ "QMT_REJECTED" \in since
        BY <3>1, <3>4, Data DEF Told
      <4>2. QED
        BY <2>1, <3>4, <4>1 DEF Told
    <3>5. QED
      BY <1>9, <3>2, <3>3, <3>4, AckEffect, Data DEF Terminal
  <2>4. QED
    BY <2>2, <2>3 DEF StatusIsTold
<1>10. QED
  BY <1>1, <1>2, <1>3, <1>4, <1>5, <1>6, <1>7, <1>8, <1>9, NextSteps

-----------------------------------------------------------------------------
(* The theorems.                                                           *)

LEMMA Initially == ASSUME Init PROVE IInv
<1>1. TypeOK
  <2>1. written \in Seq(Events) /\ DOMAIN written = {} /\ folder \in [DOMAIN written -> Folders]
        /\ applied \in Seq(DOMAIN written)
    BY DEF Init
  <2>2. QED
    BY <2>1, Data DEF Init, TypeOK, Folders
<1>2. Range(applied) = {}
  BY DEF Init, Range
<1>3. DOMAIN written = {}
  BY DEF Init
<1>4. NothingLost /\ AppliedAreInbound /\ InboundIsTelling /\ InboundAreFirst
  BY <1>2, <1>3 DEF Init, NothingLost, AppliedAreInbound, InboundIsTelling, InboundAreFirst
<1>5. HoldsTheFirst /\ HandledIsInbound /\ ListedAreFirst
  BY DEF Init, HoldsTheFirst, HandledIsInbound, ListedAreFirst
<1>6. FilledIsLast /\ FilledIsKnown /\ NewestExists /\ RejectionStands /\ StatusIsTold
  BY <1>3 DEF Init, FilledIsLast, FilledIsKnown, NewestExists, RejectionStands, StatusIsTold
<1>7. QED
  BY <1>1, <1>4, <1>5, <1>6 DEF IInv

LEMMA Unchanged == ASSUME IInv, UNCHANGED vars PROVE IInv'
<1>1. TypeOK'
  BY DEF IInv, vars, TypeOK
<1>2. NothingLost' /\ AppliedAreInbound' /\ InboundIsTelling' /\ InboundAreFirst'
  BY DEF IInv, vars, NothingLost, AppliedAreInbound, InboundIsTelling, InboundAreFirst, Telling
<1>3. HoldsTheFirst' /\ HandledIsInbound' /\ ListedAreFirst'
  BY DEF IInv, vars, HoldsTheFirst, HandledIsInbound, ListedAreFirst
<1>4. FilledIsLast' /\ FilledIsKnown'
  BY DEF IInv, vars, FilledIsLast, FilledIsKnown
<1>5. NewestExists' /\ RejectionStands' /\ StatusIsTold'
  BY DEF IInv, vars, NewestExists, RejectionStands, StatusIsTold, IsNewest, Told
<1>6. QED
  BY <1>1, <1>2, <1>3, <1>4, <1>5 DEF IInv

\* IInv holds in every state, whatever the two consumers interleave, whatever is
\* acknowledged in between, and wherever the Worker restarts.
THEOREM IngestInvariance == Spec => []IInv
<1>1. Init => IInv
  BY Initially
<1>2. IInv /\ [Next]_vars => IInv'
  <2> SUFFICES ASSUME IInv, Next PROVE IInv'
    BY Unchanged
  <2>1. QED
    BY TypesStay, ConsumersStay, FilesStay, FilledStay, RejectionStays, StatusStays DEF IInv
<1>3. QED
  BY <1>1, <1>2, PTL DEF Spec

\* Every file, list and row has its type; the handler writes no status that is
\* not one of the intents'.
THEOREM IngestTypeCorrectness == Spec => []TypeOK
<1>1. IInv => TypeOK
  BY DEF IInv
<1>2. QED
  BY <1>1, IngestInvariance, PTL

\* A file is archived only when its event was applied and dead-lettered only
\* when it was refused or had expired, although either consumer may move it and
\* the Worker may stop between the commit and the move.
THEOREM NoEventLost == Spec => []NothingLost
<1>1. IInv => NothingLost
  BY DEF IInv
<1>2. QED
  BY <1>1, IngestInvariance, PTL

\* When all events that say something were applied, the status is what the last
\* of them says, but that an acknowledgement or a recorded error may override an
\* ACCEPTED, and the acknowledgement of a rejection anything.
THEOREM NewestStatus == Spec => []StatusIsNewest
<1>1. ASSUME IInv PROVE StatusIsNewest
  <2> DEFINE Last == CHOOSE i \in Telling : \A j \in Telling : j <= i
  <2>1. SUFFICES ASSUME Telling # {}, Telling \subseteq inbound, Telling \cap expired = {}
                 PROVE  IF "QMT_REJECTED" \in since THEN status = "QMT_REJECTED"
                        ELSE \/ status = StatusOf[written[Last]]
                             \/ /\ written[Last] = "ACCEPTED"
                                /\ \/ status \in since
                                   \/ status = "QMT_REJECTED" /\ \E i \in Telling : written[i] = "error"
    BY DEF StatusIsNewest
  <2>2. inbound = Telling /\ inbound # {}
    BY <1>1, <2>1 DEF IInv, InboundIsTelling
  <2>3. \E m \in Telling : \A j \in Telling : j <= m
    BY <1>1, <2>2 DEF IInv, NewestExists, IsNewest
  <2>4. Last \in Telling /\ \A j \in Telling : j <= Last
    BY <2>3
  <2> HIDE DEF Last
  <2>5. IsNewest(Last)
    BY <2>2, <2>4 DEF IsNewest
  <2>6. Told(Last)
    BY <1>1, <2>1, <2>2, <2>4, <2>5 DEF IInv, StatusIsTold
  <2>7. QED
    BY <1>1, <2>2, <2>6 DEF IInv, RejectionStands, Told
<1>2. QED
  BY <1>1, IngestInvariance, PTL

\* An order known to be filled stays so, but for an event that expired in the
\* hands of a consumer and for the acknowledgement of a rejection: what was
\* written before it was applied or dropped before it, no other acknowledgement
\* is believed of a terminal intent, and reconcile_terminal_evidence passes it over.
THEOREM FilledFinal == Spec => FilledIsFinal
<1>1. ASSUME IInv, [Next]_vars
      PROVE  [status = "FILLED" /\ status' # "FILLED" =>
                \/ Len(applied') > Len(applied) /\ applied'[Len(applied')] \in expired
                \/ "QMT_REJECTED" \in since' \ since]_vars
  <2> SUFFICES ASSUME Next, status = "FILLED", status' # "FILLED"
               PROVE  \/ Len(applied') > Len(applied) /\ applied'[Len(applied')] \in expired
                      \/ "QMT_REJECTED" \in since' \ since
    BY <1>1
  <2>1. /\ RejectionStands
        /\ TypeOK /\ NothingLost /\ InboundIsTelling /\ InboundAreFirst /\ HandledIsInbound
        /\ FilledIsLast /\ FilledIsKnown
    BY <1>1 DEF IInv
  <2>2. ASSUME NEW c \in Consumers, NEW i \in DOMAIN written, Ingest(c, i)
        PROVE  Len(applied') > Len(applied) /\ applied'[Len(applied')] \in expired
    <3>1. /\ i \notin inbound /\ i \in Telling /\ written[i] \in {"ACCEPTED", "FILLED", "error"}
          /\ status' = StatusOf[written[i]] /\ applied' = Append(applied, i)
      BY <2>1, <2>2, IngestEffect
    <3>2. written[i] # "FILLED"
      BY <3>1 DEF StatusOf
    <3>3. PICK j \in inbound : written[j] = "FILLED"
      BY <2>1 DEF FilledIsKnown
    <3>4. i < j
      BY <2>1, <3>1, <3>2, <3>3 DEF FilledIsLast, TypeOK
    <3>5. i \in expired
      BY <2>1, <3>1, <3>3, <3>4, PassedOver
    <3>6. applied \in Seq(DOMAIN written)
      BY <2>1 DEF TypeOK
    <3>7. QED
      BY <3>1, <3>5, <3>6
  <2>3. ASSUME NEW c \in Consumers, NEW i \in DOMAIN written, Moves(c, i) PROVE FALSE
    BY <2>1, <2>3, MoveEffect
  <2>4. ASSUME NEW c \in Consumers, List(c) \/ Reads(c) \/ Abort(c) \/ Handled(c) PROVE FALSE
    BY <2>1, <2>4, ConsumerEffect
  <2>5. ASSUME ReconcileEvidence \/ Restart PROVE FALSE
    BY <2>1, <2>5, EvidenceKept DEF ReconcileEvidence, Restart
  <2>6. ASSUME (\E e \in Events : WriteEvent(e)) \/ \E i \in DOMAIN written : Expires(i) PROVE FALSE
    BY <2>6 DEF WriteEvent, Expires
  <2>7. ASSUME NEW s \in Acks, IngestAck(s) PROVE "QMT_REJECTED" \in since' \ since
    <3>1. "QMT_REJECTED" \notin since
      BY <2>1 DEF RejectionStands
    <3>2. s \in Terminal /\ since' = since \cup {s}
      BY <2>7, AckEffect DEF Terminal
    <3>3. QED
      BY <2>7, <3>1, <3>2, Data DEF Terminal
  <2>8. QED
    BY <2>1, <2>2, <2>3, <2>4, <2>5, <2>6, <2>7, NextSteps
<1>2. QED
  BY <1>1, IngestInvariance, PTL DEF Spec, FilledIsFinal

LEMMA StepOfLog ==
  ASSUME IInv, Next
  PROVE  [Log!Next]_(Log!absVars)
<1>1. /\ TypeOK /\ NothingLost /\ AppliedAreInbound /\ HoldsTheFirst /\ HandledIsInbound
      /\ ListedAreFirst
  BY DEF IInv
<1>2. ASSUME NEW e \in Events, WriteEvent(e) PROVE Log!Write
  <2>1. Dropped' = Dropped
    BY <1>1, <1>2, WriteEffect DEF Dropped
  <2>2. QED
    BY <1>2, <2>1 DEF WriteEvent, Log!Write
<1>3. CASE UNCHANGED <<written, folder, applied>>
  BY <1>3 DEF Log!absVars, Dropped
<1>4. ASSUME NEW c \in Consumers, List(c) \/ Reads(c) \/ Abort(c) \/ Handled(c)
      PROVE  UNCHANGED <<written, folder, applied>>
  BY <1>1, <1>4, ConsumerEffect
<1>5. ASSUME ReconcileEvidence \/ Restart \/ \E i \in DOMAIN written : Expires(i)
      PROVE  UNCHANGED <<written, folder, applied>>
  BY <1>5 DEF ReconcileEvidence, Restart, Expires
<1>6. ASSUME NEW s \in Acks, IngestAck(s) PROVE UNCHANGED <<written, folder, applied>>
  BY <1>6, AckEffect
<1>7. ASSUME NEW c \in Consumers, NEW i \in DOMAIN written, Ingest(c, i) PROVE Log!Apply(i)
  <2>1. /\ i = holding[c] /\ i # 0 /\ i \notin inbound /\ applied' = Append(applied, i)
        /\ UNCHANGED <<written, folder>>
    BY <1>1, <1>7, IngestEffect
  <2>2. \A j \in 1..(i - 1) : j \in DOMAIN written /\ folder[j] \in {"archive", "dead_letter"}
    BY <1>1, <2>1, HeldIsFirst, Lengths DEF TypeOK
  <2>3. \A j \in 1..(i - 1) : j \in Range(applied) \cup Dropped
    BY <1>1, <2>2 DEF NothingLost, AppliedAreInbound, Dropped
  <2>4. i \in DOMAIN written \ Range(applied)
    BY <1>1, <2>1 DEF AppliedAreInbound
  <2>5. Usable[written[i]]
    BY <1>7 DEF Ingest
  <2>6. UNCHANGED <<written, Dropped, Usable>>
    BY <2>1 DEF Dropped, Usable
  <2>7. Log!Range(applied) = Range(applied)
    BY DEF Range, Log!Range
  <2>8. QED
    BY <2>1, <2>3, <2>4, <2>5, <2>6, <2>7 DEF Log!Apply, Log!Decided
<1>8. ASSUME NEW c \in Consumers, NEW i \in DOMAIN written, Moves(c, i) PROVE [Log!Next]_(Log!absVars)
  <2>1. PICK f \in {"archive", "dead_letter"} : folder' = [folder EXCEPT ![i] = f]
    BY <1>1, <1>8, MoveEffect
  <2>2. UNCHANGED <<written, applied>> /\ folder[i] = "events"
    BY <1>1, <1>8, MoveEffect
  <2>3. folder \in [DOMAIN written -> Folders]
    BY <1>1 DEF TypeOK, Folders
  <2>4. CASE f = "archive"
    <3>1. Dropped' = Dropped
      BY <2>1, <2>2, <2>3, <2>4 DEF Dropped
    <3>2. QED
      BY <2>2, <3>1 DEF Log!absVars, Usable
  <2>5. CASE f = "dead_letter"
    <3>1. Dropped' = Dropped \cup {i} /\ i \notin Dropped
      BY <2>1, <2>2, <2>3, <2>5 DEF Dropped
    <3>2. Log!Drop(i)
      BY <2>2, <3>1 DEF Log!Drop, Usable
    <3>3. QED
      BY <3>2 DEF Log!Next
  <2>6. QED
    BY <2>4, <2>5
<1>9. QED
  BY <1>1, <1>2, <1>3, <1>4, <1>5, <1>7, <1>8, <1>6, NextSteps DEF Log!Next

\* The ingestion implements EventLog: every event is applied at most once and in
\* the order written, with two consumers, restarts between commit and move, and
\* files that go missing; a move to the dead letters is a drop.
THEOREM LogRefinement == Spec => ImplementsEventLog
<1>1. Init => Log!Init
  BY DEF Init, Log!Init, Dropped, Usable
<1>2. IInv /\ [Next]_vars => [Log!Next]_(Log!absVars)
  <2>1. ASSUME UNCHANGED vars PROVE UNCHANGED Log!absVars
    BY <2>1 DEF vars, Log!absVars, Dropped
  <2>2. QED
    BY <2>1, StepOfLog
<1>3. QED
  BY <1>1, <1>2, IngestInvariance, PTL DEF Spec, ImplementsEventLog, Log!Spec
=============================================================================
