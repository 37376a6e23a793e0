------------------------ MODULE CommandChannelProofs ------------------------
(***************************************************************************)
(* What every step of the command channel keeps, for every set of commands *)
(* and every number of faults.  CommandChannel has no specification: the   *)
(* lemmas are about its actions and are cited by the proofs of the modules *)
(* that extend it.                                                         *)
(***************************************************************************)
EXTENDS CommandChannel, TLAPS

USE NoCommandAssumption, FaultAssumption DEF folderVars, pollVars, lossVars

\* A row that is not marked has no file, and the adapter's memory agrees with
\* the folder: what poll_commands handles is there until it is moved.
ChannelInv ==
  /\ \A m \in Commands :
       /\ files[m] <= copies[m]
       /\ cmd[m] \in {"NONE", "PENDING_DELIVERY"} => copies[m] = 0
  /\ apc # "idle" => cur \in Commands /\ files[cur] > 0
  /\ apc = "ack" => verdict \in Handled

ChannelOK == ChannelTypeOK /\ ChannelInv

\* A step of the extending module that may be a fault and leaves the rest of
\* the channel alone.
BesideChannel ==
  /\ faults' \in 0..MaxFaults
  /\ UNCHANGED <<cmd, folderVars, pollVars, refused, unanswered>>

LEMMA ChannelInitial == ASSUME ChannelInit PROVE ChannelOK
  BY DEF ChannelInit, ChannelOK, ChannelTypeOK, ChannelInv

LEMMA BesideKeeps == ASSUME ChannelOK, BesideChannel PROVE ChannelOK'
  BY DEF ChannelOK, ChannelTypeOK, ChannelInv, BesideChannel

LEMMA QueueKeeps ==
  ASSUME ChannelOK, NEW m \in Commands, QueueCommand(m) PROVE ChannelOK'
  BY DEF ChannelOK, ChannelTypeOK, ChannelInv, QueueCommand

LEMMA DispatchKeeps ==
  ASSUME ChannelOK, NEW m \in Commands, Dispatch(m) \/ DispatchAgain(m) PROVE ChannelOK'
<1>1. CASE Dispatch(m)
  BY <1>1 DEF ChannelOK, ChannelTypeOK, ChannelInv, Dispatch, WriteFile
<1>2. CASE DispatchAgain(m)
  BY <1>2 DEF ChannelOK, ChannelTypeOK, ChannelInv, DispatchAgain, WriteFile, Fault
<1>3. QED
  BY <1>1, <1>2

LEMMA ExpireKeeps ==
  ASSUME ChannelOK, NEW m \in Commands, Expire(m) PROVE ChannelOK'
  BY DEF ChannelOK, ChannelTypeOK, ChannelInv, Expire, Fault

\* What becomes of an acknowledgement.
LEMMA AckKeeps == ASSUME ChannelOK, IngestAck \/ AckExpires PROVE ChannelOK'
<1>1. acks # <<>> /\ Head(acks) \in Ack /\ acks' \in Seq(Ack)
  <2>1. acks \in Seq(Ack) /\ acks # <<>> /\ acks' = Tail(acks)
    BY DEF ChannelOK, ChannelTypeOK, IngestAck, AckExpires
  <2>2. QED
    BY <2>1
<1>2. Head(acks).command \in Commands /\ Head(acks).status \in AckStatus
  BY <1>1 DEF Ack
<1>3. CASE IngestAck
  <2>1. /\ cmd' \in [Commands -> AckStatus \cup {"NONE", "PENDING_DELIVERY", "DELIVERED"}]
        /\ \A m \in Commands : cmd'[m] \in {"NONE", "PENDING_DELIVERY"} => cmd[m] = cmd'[m]
    BY <1>2, <1>3 DEF ChannelOK, ChannelTypeOK, IngestAck, AckStatus, Handled
  <2>2. QED
    BY <1>1, <1>3, <2>1 DEF ChannelOK, ChannelTypeOK, ChannelInv, IngestAck
<1>4. CASE AckExpires
  BY <1>1, <1>2, <1>4 DEF ChannelOK, ChannelTypeOK, ChannelInv, AckExpires, Fault
<1>5. QED
  BY <1>3, <1>4

\* A handler returns or raises.
LEMMA HandlerKeeps ==
  ASSUME ChannelOK, NEW m \in Commands, NEW s \in Handled,
         Accepts(m, s) \/ Refuses(m) \/ RefuseExpired(m)
  PROVE  ChannelOK'
  BY DEF ChannelOK, ChannelTypeOK, ChannelInv, Accepts, Refuses, RefuseExpired, Rejecting, Picks

\* What follows a handler, and the ways it fails.
LEMMA FinishKeeps ==
  ASSUME ChannelOK, Finish \/ HandlingFails \/ RejectSilently \/ BuryFails \/ AdapterStops
  PROVE  ChannelOK'
<1>1. CASE Acknowledge
  <2>1. [command |-> cur, status |-> verdict] \in Ack
    BY <1>1 DEF ChannelOK, ChannelInv, Acknowledge, Ack, AckStatus
  <2>2. QED
    BY <1>1, <2>1 DEF ChannelOK, ChannelTypeOK, ChannelInv, Acknowledge
<1>2. CASE Reject
  <2>1. [command |-> cur, status |-> "QMT_REJECTED"] \in Ack
    BY <1>2 DEF ChannelOK, ChannelInv, Reject, Ack, AckStatus
  <2>2. QED
    BY <1>2, <2>1 DEF ChannelOK, ChannelTypeOK, ChannelInv, Reject
<1>3. CASE Archive \/ Bury
  <2>1. files[cur] \in 1..2
    BY <1>3 DEF ChannelOK, ChannelTypeOK, ChannelInv, Archive, Bury
  <2>2. QED
    BY <1>3, <2>1 DEF ChannelOK, ChannelTypeOK, ChannelInv, Archive, Bury, Done
<1>4. CASE HandlingFails
  BY <1>4 DEF ChannelOK, ChannelTypeOK, ChannelInv, HandlingFails, Fault
<1>5. CASE RejectSilently
  BY <1>5 DEF ChannelOK, ChannelTypeOK, ChannelInv, RejectSilently, Fault
<1>6. CASE BuryFails
  BY <1>6 DEF ChannelOK, ChannelTypeOK, ChannelInv, BuryFails, Fault
<1>7. CASE AdapterStops
  BY <1>7 DEF ChannelOK, ChannelTypeOK, ChannelInv, AdapterStops, Fault
<1>8. QED
  BY <1>1, <1>2, <1>3, <1>4, <1>5, <1>6, <1>7 DEF Finish

\* Any step of the channel itself.
LEMMA ChannelKeeps == ASSUME ChannelOK, ChannelStep \/ IngestAck PROVE ChannelOK'
  BY DispatchKeeps, ExpireKeeps, AckKeeps, HandlerKeeps, FinishKeeps DEF ChannelStep, Handled

\* What a step of the channel makes of answers: a row becomes DELIVERED only, an
\* acknowledgement that is new is the verdict or a rejection, and the adapter
\* rejects nothing it did not come to reject.
NothingInvented ==
  /\ \A m \in Commands : cmd'[m] \in {cmd[m], "DELIVERED"}
  /\ refused \subseteq refused'
  /\ \A k \in DOMAIN acks' :
       \/ \E j \in DOMAIN acks : acks'[k] = acks[j]
       \/ apc = "ack" /\ acks'[k] = [command |-> cur, status |-> verdict]
       \/ apc = "reject" /\ acks'[k] = [command |-> cur, status |-> "QMT_REJECTED"]
  /\ apc' = "ack" => apc = "ack" /\ UNCHANGED <<cur, verdict>>
  /\ apc' = "reject" => cur' \in refused' \/ (apc = "reject" /\ UNCHANGED cur)

LEMMA ChannelReports == ASSUME ChannelOK, ChannelStep PROVE NothingInvented
<1>1. acks \in Seq(Ack)
  BY DEF ChannelOK, ChannelTypeOK
<1>2. ASSUME NEW m \in Commands, Dispatch(m) \/ DispatchAgain(m) \/ Expire(m)
      PROVE  NothingInvented
  <2>1. UNCHANGED <<refused, acks, apc, cur, verdict>>
    BY <1>2 DEF Dispatch, DispatchAgain, Expire
  <2>2. \A c \in Commands : cmd'[c] \in {cmd[c], "DELIVERED"}
    BY <1>2 DEF Dispatch, DispatchAgain, Expire, ChannelOK, ChannelTypeOK
  <2>3. QED
    BY <2>1, <2>2 DEF NothingInvented
<1>3. ASSUME NEW m \in Commands, RefuseExpired(m) PROVE NothingInvented
  <2>1. UNCHANGED <<cmd, acks>> /\ refused' = refused \cup {m} /\ apc' = "reject" /\ cur' = m
    BY <1>3 DEF RefuseExpired, Rejecting
  <2>2. QED
    BY <2>1 DEF NothingInvented
<1>4. CASE HandlingFails
  BY <1>4 DEF NothingInvented, HandlingFails
<1>5. CASE Archive \/ Bury \/ RejectSilently \/ BuryFails
  <2>1. UNCHANGED <<cmd, refused, acks>> /\ apc' \in {"idle", "bury"}
    BY <1>5 DEF Archive, Bury, Done, RejectSilently, BuryFails
  <2>2. QED
    BY <2>1 DEF NothingInvented
<1>6. CASE Acknowledge
  <2>1. /\ acks' = Append(acks, [command |-> cur, status |-> verdict])
        /\ apc = "ack" /\ apc' = "archive" /\ UNCHANGED <<cmd, refused>>
    BY <1>6 DEF Acknowledge
  <2>2. \A k \in DOMAIN acks' : \/ k \in DOMAIN acks /\ acks'[k] = acks[k]
                               \/ acks'[k] = [command |-> cur, status |-> verdict]
    BY <1>1, <2>1
  <2>3. QED
    BY <2>1, <2>2 DEF NothingInvented
<1>7. CASE Reject
  <2>1. /\ acks' = Append(acks, [command |-> cur, status |-> "QMT_REJECTED"])
        /\ apc = "reject" /\ apc' = "bury" /\ UNCHANGED <<cmd, refused>>
    BY <1>7 DEF Reject
  <2>2. \A k \in DOMAIN acks' : \/ k \in DOMAIN acks /\ acks'[k] = acks[k]
                               \/ acks'[k] = [command |-> cur, status |-> "QMT_REJECTED"]
    BY <1>1, <2>1
  <2>3. QED
    BY <2>1, <2>2 DEF NothingInvented
<1>8. CASE AckExpires
  <2>1. acks # <<>> /\ acks' = Tail(acks) /\ UNCHANGED <<cmd, refused, apc, cur, verdict>>
    BY <1>8 DEF AckExpires
  <2>2. \A k \in DOMAIN acks' : k + 1 \in DOMAIN acks /\ acks'[k] = acks[k + 1]
    BY <1>1, <2>1
  <2>3. QED
    BY <2>1, <2>2 DEF NothingInvented
<1>9. QED
  BY <1>2, <1>3, <1>4, <1>5, <1>6, <1>7, <1>8 DEF ChannelStep, Finish

=============================================================================
