--------------------------- MODULE TftpIntegrity ----------------------------
(***************************************************************************)
(* The integrity of the image, proved for every file, block size, width of *)
(* the block number and number of retries, on a network that keeps the     *)
(* order of packets (it may lose them, and the server may repeat them)     *)
(* when every attempt draws a fresh UDP port.                              *)
(***************************************************************************)
EXTENDS TftpProofs

-----------------------------------------------------------------------------
(* The inductive invariant.                                                *)

\* The packet of transfer t, with record s, for its block k (its OACK for 0).
Pkt(t, s, k) ==
    IF k = 0 THEN [op |-> "OACK", src |-> t, dst |-> s.peer, size |-> s.oack]
    ELSE [op |-> "DATA", src |-> t, dst |-> s.peer, blk |-> k % TFTP_SEQUENCE_SIZE,
          from |-> (k - 1) * s.bs, len |-> BlockLen(s.bs, k)]

\* The size of the image once the blocks up to c are stored.
StoredSize(bs, c) == IF c * bs <= FileSize THEN c * bs ELSE FileSize

\* A packet of transfer t that is not an error.
From(m, t) == m.op \in {"DATA", "OACK"} /\ m.src = t

\* All that queue q carries from t is old or new, the old before the new.
Carries(q, t, old, new) ==
    \A i \in DOMAIN q : From(q[i], t) =>
        /\ q[i] = old \/ q[i] = new
        /\ q[i] = new => \A j \in DOMAIN q : j >= i /\ From(q[j], t) => q[j] = new

\* All ACKs to t in queue q are of block number old or new, the old before the new.
IsAck(m, t) == m.op = "ACK" /\ m.dst = t

Acks(q, t, old, new) ==
    \A i \in DOMAIN q : IsAck(q[i], t) =>
        /\ q[i].blk = old \/ q[i].blk = new
        /\ q[i].blk = new => \A j \in DOMAIN q : j >= i /\ IsAck(q[j], t) => q[j].blk = new

\* Ports tell attempts apart: nothing on the network is younger than the
\* current one, and a restart will draw a port that nothing on it carries.
PortInv ==
    /\ tftp_our_port <= net_try_count
    /\ time_handler = "start_again" =>
          tftp_our_port < net_try_count /\ udp_handler = "dummy"
    /\ Len(session) <= MaxTid
    /\ \A t \in DOMAIN session : session[t].peer <= tftp_our_port
    /\ \A i \in DOMAIN toServer : toServer[i].op = "RRQ" => toServer[i].src <= tftp_our_port
    /\ \A i \in DOMAIN toClient :
          toClient[i].op \in {"DATA", "OACK"} => toClient[i].dst = session[toClient[i].src].peer

\* The server never goes past the last block, and its OACK tells its block size.
SessionInv ==
    \A t \in DOMAIN session :
        /\ session[t].blk > 0 => (session[t].blk - 1) * session[t].bs <= FileSize
        /\ session[t].bs = IF session[t].oack = 0 THEN TFTP_BLOCK_SIZE ELSE session[t].oack

\* Before any answer to the RRQ of this attempt: the server's transfers for it
\* are at their first packet and have not been acknowledged.
Waiting(t) ==
    /\ session[t].blk = 0 \/ (session[t].blk = 1 /\ session[t].oack = 0)
    /\ Carries(toClient, t, Pkt(t, session[t], session[t].blk), Pkt(t, session[t], session[t].blk))
    /\ \A i \in DOMAIN toServer : ~IsAck(toServer[i], t)

WaitingInv ==
    tftp_state = "SEND_RRQ" =>
        /\ tftp_cur_block = 0 /\ tftp_block_size = TFTP_BLOCK_SIZE
        /\ net_boot_file_size = 0 /\ net_state # "SUCCESS"
        /\ \A t \in DOMAIN session : session[t].peer = tftp_our_port => Waiting(t)

\* The client has stored the blocks up to c of transfer t.
HasStored(t, c) ==
    /\ tftp_cur_block = c % TFTP_SEQUENCE_SIZE
    /\ session[t].peer = tftp_our_port /\ session[t].bs = tftp_block_size
    /\ net_boot_file_size = StoredSize(tftp_block_size, c)
    /\ \A p \in 0 .. FileSize - 1 : p < c * tftp_block_size => mem[p] = p
    /\ tftp_state = "OACK" => c = 0 /\ net_state # "SUCCESS"
    /\ tftp_state = "DATA" =>
          /\ c > 0 /\ tftp_prev_block = tftp_cur_block
          /\ tftp_block_wrap_offset = (c - tftp_cur_block) * tftp_block_size
    /\ net_state = "SUCCESS" => session[t].blk = c /\ c * tftp_block_size > FileSize

\* The server is at block c or the next one; what is in flight is of these two
\* (the ACKs of block c or the one before), the old before the new.
InStep(t, c) ==
    /\ session[t].blk = c \/ session[t].blk = c + 1
    /\ Carries(toClient, t, Pkt(t, session[t], c), Pkt(t, session[t], session[t].blk))
    /\ Acks(toServer, t,
            (IF session[t].blk = c /\ c > 0 THEN c - 1 ELSE c) % TFTP_SEQUENCE_SIZE,
            c % TFTP_SEQUENCE_SIZE)

FollowingInv ==
    tftp_state # "SEND_RRQ" =>
        \E c \in {session[tftp_remote_port].blk, session[tftp_remote_port].blk - 1} :
            /\ c >= 0
            /\ HasStored(tftp_remote_port, c) /\ InStep(tftp_remote_port, c)

\* The inductive invariant.
IInv ==
    TypeInv /\ StoredInPlace /\ PortInv /\ SessionInv /\ WaitingInv /\ FollowingInv

-----------------------------------------------------------------------------
(* What the order of packets survives.                                     *)

\* Removing a packet keeps old before new.
LEMMA CarriesRemove ==
    ASSUME NEW S, NEW q \in Seq(S), NEW i \in DOMAIN q, NEW t, NEW old, NEW new,
           Carries(q, t, old, new)
    PROVE  Carries(RemoveAt(q, i), t, old, new)
<1> DEFINE r == RemoveAt(q, i)
<1>1. \A j \in DOMAIN r : Shift(i, j) \in DOMAIN q /\ r[j] = q[Shift(i, j)]
  BY RemoveAtShift, Zenon
<1>2. \A j, k \in DOMAIN r : k >= j => Shift(i, k) >= Shift(i, j)
  <2>1. \A j, k \in DOMAIN r : j <= k => Shift(i, j) <= Shift(i, k)
    BY RemoveAtShift, Zenon
  <2>2. DOMAIN r = 1 .. Len(q) - 1 /\ Len(q) \in Nat /\ i \in 1 .. Len(q)
    BY RemoveAtProperties, LenProperties, Zenon
  <2> QED BY <2>1, <2>2, Zenon DEF Shift
<1> HIDE DEF r
<1>3. Carries(r, t, old, new)
  BY <1>1, <1>2, Zenon DEF Carries
<1> QED BY <1>3, Zenon DEF r

\* Sending the new packet keeps old before new.
LEMMA CarriesSend ==
    ASSUME NEW S, NEW q \in Seq(S), NEW m \in S, NEW t, NEW old, NEW new,
           Carries(q, t, old, new), ~From(m, t) \/ m = new
    PROVE  Carries(Send(q, m), t, old, new)
<1> DEFINE r == Send(q, m)
<1>1. r \in Seq(S)
      /\ \A j \in DOMAIN r : (j \in DOMAIN q /\ r[j] = q[j]) \/ (j = Len(q) + 1 /\ r[j] = m)
  BY SendProperties, Zenon
<1>2. DOMAIN q = 1 .. Len(q) /\ Len(q) \in Nat
  BY LenProperties, Zenon
<1> HIDE DEF r
<1>3. Carries(r, t, old, new)
  <2> SUFFICES ASSUME NEW i \in DOMAIN r, From(r[i], t)
               PROVE  /\ r[i] = old \/ r[i] = new
                      /\ r[i] = new => \A j \in DOMAIN r : j >= i /\ From(r[j], t) => r[j] = new
    BY Zenon DEF Carries
  <2>1. CASE i \in DOMAIN q /\ r[i] = q[i]
    BY <2>1, <1>1, Zenon DEF Carries
  <2>2. CASE i = Len(q) + 1 /\ r[i] = m
    <3>1. \A j \in DOMAIN r : j >= i => r[j] = m
      BY <2>2, <1>1, <1>2
    <3> QED BY <2>2, <3>1, Zenon
  <2> QED BY <2>1, <2>2, <1>1, Zenon
<1> QED BY <1>3, Zenon DEF r

\* A queue of old packets only is ready for the new one.
LEMMA CarriesAdvance ==
    ASSUME NEW q, NEW t, NEW x, NEW y, x # y, Carries(q, t, x, x)
    PROVE  Carries(q, t, x, y)
BY Zenon DEF Carries

\* Behind a new packet at the head all are new.
LEMMA CarriesHead ==
    ASSUME NEW S, NEW q \in Seq(S), 1 \in DOMAIN q, NEW t, NEW old, NEW new,
           Carries(q, t, old, new), From(q[1], t), q[1] = new
    PROVE  Carries(q, t, new, new)
<1>1. \A j \in DOMAIN q : j >= 1
  BY LenProperties
<1> QED BY <1>1, Zenon DEF Carries

\* Removing a packet keeps old ACKs before new ones.
LEMMA AcksRemove ==
    ASSUME NEW S, NEW q \in Seq(S), NEW i \in DOMAIN q, NEW t, NEW old, NEW new,
           Acks(q, t, old, new)
    PROVE  Acks(RemoveAt(q, i), t, old, new)
<1> DEFINE r == RemoveAt(q, i)
<1>1. \A j \in DOMAIN r : Shift(i, j) \in DOMAIN q /\ r[j] = q[Shift(i, j)]
  BY RemoveAtShift, Zenon
<1>2. \A j, k \in DOMAIN r : k >= j => Shift(i, k) >= Shift(i, j)
  <2>1. \A j, k \in DOMAIN r : j <= k => Shift(i, j) <= Shift(i, k)
    BY RemoveAtShift, Zenon
  <2>2. DOMAIN r = 1 .. Len(q) - 1 /\ Len(q) \in Nat /\ i \in 1 .. Len(q)
    BY RemoveAtProperties, LenProperties, Zenon
  <2> QED BY <2>1, <2>2, Zenon DEF Shift
<1> HIDE DEF r
<1>3. Acks(r, t, old, new)
  BY <1>1, <1>2, ZenonT(40) DEF Acks
<1> QED BY <1>3, Zenon DEF r

\* Sending the new ACK keeps old before new.
LEMMA AcksSend ==
    ASSUME NEW S, NEW q \in Seq(S), NEW m \in S, NEW t, NEW old, NEW new,
           Acks(q, t, old, new), IsAck(m, t) => m.blk = new
    PROVE  Acks(Send(q, m), t, old, new)
<1> DEFINE r == Send(q, m)
<1>1. r \in Seq(S)
      /\ \A j \in DOMAIN r : (j \in DOMAIN q /\ r[j] = q[j]) \/ (j = Len(q) + 1 /\ r[j] = m)
  BY SendProperties
<1>2. DOMAIN q = 1 .. Len(q) /\ Len(q) \in Nat
  BY LenProperties, Zenon
<1> HIDE DEF r
<1>3. Acks(r, t, old, new)
  <2> SUFFICES ASSUME NEW i \in DOMAIN r, IsAck(r[i], t)
               PROVE  /\ r[i].blk = old \/ r[i].blk = new
                      /\ r[i].blk = new => \A j \in DOMAIN r :
                            j >= i /\ IsAck(r[j], t) => r[j].blk = new
    BY Zenon DEF Acks
  <2>1. CASE i \in DOMAIN q /\ r[i] = q[i]
    BY <2>1, <1>1, Zenon DEF Acks
  <2>2. CASE i = Len(q) + 1 /\ r[i] = m
    <3>1. \A j \in DOMAIN r : j >= i => r[j] = m
      BY <2>2, <1>1, <1>2
    <3> QED BY <2>2, <3>1, Zenon
  <2> QED BY <2>1, <2>2, <1>1, Zenon
<1> QED BY <1>3, Zenon DEF r

\* A queue of old ACKs only is ready for the new one.
LEMMA AcksAdvance ==
    ASSUME NEW q, NEW t, NEW x, NEW y, x # y, Acks(q, t, x, x)
    PROVE  Acks(q, t, x, y)
BY Zenon DEF Acks

\* Behind a new ACK at the head all are new.
LEMMA AcksHead ==
    ASSUME NEW S, NEW q \in Seq(S), 1 \in DOMAIN q, NEW t, NEW old, NEW new,
           Acks(q, t, old, new), IsAck(q[1], t), q[1].blk = new
    PROVE  Acks(q, t, new, new)
<1>1. \A j \in DOMAIN q : j >= 1
  BY LenProperties
<1> QED BY <1>1, Zenon DEF Acks

\* The same for what the client sends, which is lost when it is halted.
LEMMA AcksTransmit ==
    ASSUME toServer \in Seq(Request), NEW m \in Request, Transmit(m),
           NEW t, NEW old, NEW new,
           Acks(toServer, t, old, new), IsAck(m, t) => m.blk = new
    PROVE  Acks(toServer', t, old, new)
<1>1. toServer' = Send(toServer, m) \/ toServer' = toServer
  BY Zenon DEF Transmit
<1> QED BY <1>1, AcksSend, Zenon

-----------------------------------------------------------------------------
(* The packets of a transfer.                                              *)

\* The fields of a server's packet.
LEMMA PktFields ==
    ASSUME NEW t \in Nat, NEW s \in Transfer, NEW k \in Nat
    PROVE  /\ Pkt(t, s, k).src = t /\ Pkt(t, s, k).dst = s.peer
           /\ k = 0 => Pkt(t, s, k).op = "OACK" /\ Pkt(t, s, k).size = s.oack
           /\ k > 0 => /\ Pkt(t, s, k).op = "DATA"
                       /\ Pkt(t, s, k).blk = k % TFTP_SEQUENCE_SIZE
                       /\ Pkt(t, s, k).from = (k - 1) * s.bs
                       /\ Pkt(t, s, k).len = BlockLen(s.bs, k)
<1>1. CASE k = 0
  BY <1>1 DEF Pkt
<1>2. CASE k > 0
  BY <1>2 DEF Pkt
<1> QED BY <1>1, <1>2

\* What the server repeats is the packet of its current block.
LEMMA PktCurrent ==
    ASSUME NEW t \in Nat, NEW s \in Transfer
    PROVE  /\ CurrentPacket(t, s) = Pkt(t, s, s.blk)
           /\ s.blk > 0 => DataPacket(t, s) = Pkt(t, s, s.blk)
<1>1. s.blk \in Nat
  BY Zenon DEF Transfer
<1> QED BY <1>1 DEF CurrentPacket, OackPacket, DataPacket, Pkt

\* Packets of a block depend only on the fields of a transfer that never change.
LEMMA PktSame ==
    ASSUME NEW t, NEW s, NEW r, NEW k, s.peer = r.peer, s.bs = r.bs, s.oack = r.oack
    PROVE  Pkt(t, s, k) = Pkt(t, r, k)
BY Zenon DEF Pkt

\* Consecutive packets differ, although block numbers are taken modulo.
LEMMA PktDiffers ==
    ASSUME NEW t \in Nat, NEW s \in Transfer, NEW k \in Nat
    PROVE  Pkt(t, s, k) # Pkt(t, s, k + 1)
<1>1. Pkt(t, s, k + 1).op = "DATA"
      /\ Pkt(t, s, k + 1).blk = (k + 1) % TFTP_SEQUENCE_SIZE
  BY PktFields
<1>2. CASE k = 0
  <2>1. Pkt(t, s, k).op = "OACK"
    BY <1>2, PktFields
  <2> QED BY <1>1, <2>1, Zenon
<1>3. CASE k > 0
  <2>1. Pkt(t, s, k).blk = k % TFTP_SEQUENCE_SIZE
    BY <1>3, PktFields
  <2>2. (k + 1) % TFTP_SEQUENCE_SIZE # k % TFTP_SEQUENCE_SIZE
    BY NextModDiffers, TftpAssumption, Zenon
  <2> QED BY <1>1, <2>1, <2>2, Zenon
<1> QED BY <1>2, <1>3

-----------------------------------------------------------------------------
(* Steps that leave the client's progress and the transfers alone: packets *)
(* are lost or repeated, and net_loop may fail.                            *)

progress == <<tftp_state, tftp_cur_block, tftp_prev_block, tftp_block_wrap_offset,
              tftp_block_size, tftp_remote_port, tftp_our_port, net_boot_file_size, mem>>

\* A packet that may join the queue to the client without anyone's progress.
Repeats(m) ==
    \/ m.op \in {"ERROR", "ERROR_fatal"}
    \/ \E tid \in DOMAIN session : m = CurrentPacket(tid, session[tid])

QuietToClient ==
    \/ toClient' = toClient
    \/ \E i \in DOMAIN toClient : toClient' = RemoveAt(toClient, i)
    \/ \E m \in Reply : Repeats(m) /\ toClient' = Send(toClient, m)

QuietToServer ==
    \/ toServer' = toServer
    \/ \E i \in DOMAIN toServer : toServer' = RemoveAt(toServer, i)
    \/ Transmit(Outgoing(tftp_state, tftp_cur_block, tftp_remote_port, tftp_our_port))

\* A step that sends nothing new keeps what the queue to the client carries.
LEMMA QuietCarries ==
    ASSUME IInv, QuietToClient, NEW t \in DOMAIN session, NEW old,
           Carries(toClient, t, old, Pkt(t, session[t], session[t].blk))
    PROVE  Carries(toClient', t, old, Pkt(t, session[t], session[t].blk))
<1> DEFINE new == Pkt(t, session[t], session[t].blk)
<1>1. toClient \in Seq(Reply) /\ session \in Seq(Transfer)
  BY Zenon DEF IInv, TypeInv, TypeOK
<1>2. CASE toClient' = toClient
  BY <1>2, Zenon
<1>3. CASE \E i \in DOMAIN toClient : toClient' = RemoveAt(toClient, i)
  BY <1>3, <1>1, CarriesRemove, Zenon
<1>4. CASE \E m \in Reply : Repeats(m) /\ toClient' = Send(toClient, m)
  <2>1. PICK m \in Reply : Repeats(m) /\ toClient' = Send(toClient, m)
    BY <1>4, Zenon
  <2>2. ~From(m, t) \/ m = new
    <3>1. CASE m.op \in {"ERROR", "ERROR_fatal"}
      BY <3>1 DEF From
    <3>2. CASE \E tid \in DOMAIN session : m = CurrentPacket(tid, session[tid])
      <4>1. PICK tid \in DOMAIN session : m = CurrentPacket(tid, session[tid])
        BY <3>2, Zenon
      <4>2. tid \in Nat /\ session[tid] \in Transfer
        BY <1>1
      <4>3. m = Pkt(tid, session[tid], session[tid].blk) /\ m.src = tid
        BY <4>1, <4>2, PktCurrent, CurrentPacketType, Zenon
      <4> QED BY <4>3, Zenon DEF From
    <3> QED BY <2>1, <3>1, <3>2, Zenon DEF Repeats
  <2> HIDE DEF new
  <2>3. Carries(toClient, t, old, new)
    BY Zenon DEF new
  <2>4. Carries(Send(toClient, m), t, old, new)
    BY <1>1, <2>2, <2>3, CarriesSend, Zenon
  <2> QED BY <2>1, <2>4, Zenon DEF new
<1> QED BY <1>2, <1>3, <1>4, Zenon DEF QuietToClient

\* The loop's part of PortInv.
LoopPorts ==
    /\ tftp_our_port <= net_try_count
    /\ time_handler = "start_again" =>
          tftp_our_port < net_try_count /\ udp_handler = "dummy"

\* A step that keeps the progress of both ends keeps the ports apart.
LEMMA QuietPortInv ==
    ASSUME IInv, UNCHANGED <<session, progress>>, LoopPorts', QuietToClient, QuietToServer
    PROVE  PortInv'
<1> DEFINE p == Outgoing(tftp_state, tftp_cur_block, tftp_remote_port, tftp_our_port)
<1>1. toClient \in Seq(Reply) /\ session \in Seq(Transfer) /\ toServer \in Seq(Request)
      /\ tftp_our_port \in Nat /\ tftp_remote_port \in Nat /\ tftp_cur_block \in BlockNumber
  BY Zenon DEF IInv, TypeInv, TypeOK
<1>2. p \in Request /\ (p.op = "RRQ" => p.src = tftp_our_port)
  BY <1>1, OutgoingType
<1> HIDE DEF p
<1>3. \A i \in DOMAIN toServer' : toServer'[i].op = "RRQ" => toServer'[i].src <= tftp_our_port
  <2>1. CASE toServer' = toServer
    BY <2>1, Zenon DEF IInv, PortInv
  <2>2. CASE \E i \in DOMAIN toServer : toServer' = RemoveAt(toServer, i)
    BY <2>2, <1>1, RemoveAtShift DEF IInv, PortInv
  <2>3. CASE Transmit(p)
    <3>1. \A j \in DOMAIN toServer' :
             (j \in DOMAIN toServer /\ toServer'[j] = toServer[j]) \/ toServer'[j] = p
      BY <2>3, <1>1, <1>2, TransmitProperties, Zenon
    <3> QED BY <3>1, <1>1, <1>2 DEF IInv, PortInv
  <2> QED BY <2>1, <2>2, <2>3, Zenon DEF QuietToServer, p
<1>4. \A i \in DOMAIN toClient' :
         toClient'[i].op \in {"DATA", "OACK"} => toClient'[i].dst = session[toClient'[i].src].peer
  <2>1. CASE toClient' = toClient
    BY <2>1, Zenon DEF IInv, PortInv
  <2>2. CASE \E i \in DOMAIN toClient : toClient' = RemoveAt(toClient, i)
    <3>1. PICK i \in DOMAIN toClient : toClient' = RemoveAt(toClient, i)
      BY <2>2, Zenon
    <3>2. \A j \in DOMAIN toClient' : \E k \in DOMAIN toClient : toClient'[j] = toClient[k]
      BY <3>1, <1>1, RemoveAtKeeps
    <3> QED BY <3>2, Zenon DEF IInv, PortInv
  <2>3. CASE \E m \in Reply : Repeats(m) /\ toClient' = Send(toClient, m)
    <3>1. PICK m \in Reply : Repeats(m) /\ toClient' = Send(toClient, m)
      BY <2>3, Zenon
    <3>2. \A j \in DOMAIN toClient' :
             (j \in DOMAIN toClient /\ toClient'[j] = toClient[j]) \/ toClient'[j] = m
      BY <3>1, <1>1, SendProperties, Zenon
    <3>3. m.op \in {"DATA", "OACK"} => m.dst = session[m.src].peer
      <4>1. CASE m.op \in {"ERROR", "ERROR_fatal"}
        BY <4>1
      <4>2. CASE \E tid \in DOMAIN session : m = CurrentPacket(tid, session[tid])
        BY <4>2, <1>1, CurrentPacketType
      <4> QED BY <3>1, <4>1, <4>2, Zenon DEF Repeats
    <3> QED BY <3>2, <3>3, Zenon DEF IInv, PortInv
  <2> QED BY <2>1, <2>2, <2>3, Zenon DEF QuietToClient
<1> QED BY <1>3, <1>4, Zenon DEF IInv, PortInv, LoopPorts, progress

\* A step that acknowledges nothing new keeps the ACKs in flight.
LEMMA QuietAcks ==
    ASSUME IInv, QuietToServer, tftp_state # "SEND_RRQ", NEW t, NEW old,
           Acks(toServer, t, old, tftp_cur_block)
    PROVE  Acks(toServer', t, old, tftp_cur_block)
<1> DEFINE p == Outgoing(tftp_state, tftp_cur_block, tftp_remote_port, tftp_our_port)
<1>1. toServer \in Seq(Request) /\ p \in Request /\ (IsAck(p, t) => p.blk = tftp_cur_block)
  BY OutgoingType DEF IInv, TypeInv, TypeOK, IsAck
<1> HIDE DEF p
<1>2. CASE \E i \in DOMAIN toServer : toServer' = RemoveAt(toServer, i)
  BY <1>1, <1>2, AcksRemove, Zenon
<1>3. CASE Transmit(p)
  BY <1>1, <1>3, AcksTransmit, Zenon
<1> QED BY <1>2, <1>3, Zenon DEF QuietToServer, p

\* Nobody's progress changes, so the invariant is kept.
LEMMA QuietStep ==
    ASSUME IInv, TypeInv', UNCHANGED <<session, progress>>, net_state' \in {net_state, "FAIL"},
           LoopPorts', QuietToClient, QuietToServer
    PROVE  IInv'
<1>1. toServer \in Seq(Request) /\ session \in Seq(Transfer) /\ TypeInv
  BY Zenon DEF IInv, TypeInv, TypeOK
<1>2. StoredInPlace'
  BY Zenon DEF IInv, StoredInPlace, progress
<1>3. PortInv'
  BY QuietPortInv, Zenon
<1>4. SessionInv'
  BY Zenon DEF IInv, SessionInv
<1>5. WaitingInv'
  <2> SUFFICES ASSUME tftp_state = "SEND_RRQ", NEW t \in DOMAIN session,
                      session[t].peer = tftp_our_port
               PROVE  Waiting(t)'
    BY Zenon DEF IInv, WaitingInv, progress
  <2>1. Waiting(t)
    BY Zenon DEF IInv, WaitingInv
  <2>2. Carries(toClient', t, Pkt(t, session[t], session[t].blk),
                Pkt(t, session[t], session[t].blk))
    BY <2>1, QuietCarries, Zenon DEF Waiting
  <2>3. \A i \in DOMAIN toServer' : ~IsAck(toServer'[i], t)
    <3> DEFINE p == Outgoing(tftp_state, tftp_cur_block, tftp_remote_port, tftp_our_port)
    <3>1. p \in Request /\ ~IsAck(p, t)
      BY <1>1, OutgoingType, SMTT(40) DEF TypeInv, TypeOK, IsAck
    <3> HIDE DEF p
    <3>2. CASE \E i \in DOMAIN toServer : toServer' = RemoveAt(toServer, i)
      BY <3>2, <2>1, <1>1, RemoveAtShift DEF Waiting
    <3>3. CASE Transmit(p)
      BY <3>1, <3>3, <2>1, <1>1, TransmitProperties, Zenon DEF Waiting
    <3> QED BY <2>1, <3>2, <3>3, Zenon DEF QuietToServer, Waiting, p
  <2> QED BY <2>1, <2>2, <2>3, Zenon DEF Waiting
<1>6. FollowingInv'
  <2> SUFFICES ASSUME tftp_state # "SEND_RRQ" PROVE FollowingInv'
    BY Zenon DEF FollowingInv, progress
  <2> DEFINE t == tftp_remote_port
  <2>1. t \in DOMAIN session
    BY <1>1, Zenon DEF TypeInv, AddressInv
  <2>2. PICK c \in {session[t].blk, session[t].blk - 1} :
            c >= 0 /\ HasStored(t, c) /\ InStep(t, c)
    BY Zenon DEF IInv, FollowingInv
  <2>3. HasStored(t, c)'
    BY <2>2, Zenon DEF HasStored, progress
  <2>4. Carries(toClient', t, Pkt(t, session[t], c), Pkt(t, session[t], session[t].blk))
    BY <2>1, <2>2, QuietCarries, Zenon DEF InStep
  <2>5. Acks(toServer', t,
             (IF session[t].blk = c /\ c > 0 THEN c - 1 ELSE c) % TFTP_SEQUENCE_SIZE,
             c % TFTP_SEQUENCE_SIZE)
    BY <2>2, QuietAcks, Zenon DEF InStep, HasStored
  <2>6. InStep(t, c)'
    BY <2>2, <2>4, <2>5, Zenon DEF InStep, progress
  <2> QED BY <2>2, <2>3, <2>6, Zenon DEF FollowingInv, progress
<1> QED BY <1>2, <1>3, <1>4, <1>5, <1>6, Zenon DEF IInv

\* A loss keeps the invariant.
LEMMA LoseStep == IInv /\ TypeInv' /\ Lose => IInv'
<1> SUFFICES ASSUME IInv, TypeInv', Lose PROVE IInv'
  OBVIOUS
<1>1. UNCHANGED <<session, progress>> /\ net_state' = net_state
  BY Zenon DEF Lose, progress, tftpVars, loopVars, imageVars
<1>2. LoopPorts'
  BY Zenon DEF IInv, PortInv, LoopPorts, Lose, tftpVars, loopVars
<1>3. QuietToClient /\ QuietToServer
  BY Zenon DEF Lose, QuietToClient, QuietToServer
<1> QED BY <1>1, <1>2, <1>3, QuietStep, Zenon

\* A repetition by the server keeps the invariant.
LEMMA ServerRetransmitStep == IInv /\ TypeInv' /\ ServerRetransmit => IInv'
<1> SUFFICES ASSUME IInv, TypeInv', ServerRetransmit PROVE IInv'
  OBVIOUS
<1>1. UNCHANGED <<session, progress>> /\ net_state' = net_state
  BY Zenon DEF ServerRetransmit, progress, tftpVars, loopVars, imageVars
<1>2. LoopPorts'
  BY Zenon DEF IInv, PortInv, LoopPorts, ServerRetransmit, tftpVars, loopVars
<1>3. QuietToServer
  BY Zenon DEF ServerRetransmit, QuietToServer
<1>4. QuietToClient
  <2>1. PICK tid \in DOMAIN session : toClient' = Send(toClient, CurrentPacket(tid, session[tid]))
    BY Zenon DEF ServerRetransmit
  <2>2. tid \in Nat /\ session[tid] \in Transfer
    <3>1. session \in Seq(Transfer)
      BY Zenon DEF IInv, TypeInv, TypeOK
    <3> QED BY <3>1
  <2>3. CurrentPacket(tid, session[tid]) \in Reply
    BY <2>2, CurrentPacketType, Zenon
  <2> QED BY <2>1, <2>3, Zenon DEF QuietToClient, Repeats
<1> QED BY <1>1, <1>2, <1>3, <1>4, QuietStep, Zenon

\* So does an error it sends.
LEMMA ServerErrorStep == IInv /\ TypeInv' /\ ServerError => IInv'
<1> SUFFICES ASSUME IInv, TypeInv', ServerError PROVE IInv'
  OBVIOUS
<1>1. UNCHANGED <<session, progress>> /\ net_state' = net_state
  BY Zenon DEF ServerError, progress, tftpVars, loopVars, imageVars
<1>2. LoopPorts'
  BY Zenon DEF IInv, PortInv, LoopPorts, ServerError, tftpVars, loopVars
<1>3. QuietToServer
  BY Zenon DEF ServerError, QuietToServer
<1>4. QuietToClient
  <2>1. PICK tid \in DOMAIN session, code \in Replies \cap {"ERROR", "ERROR_fatal"} :
           toClient' = Send(toClient, ErrorPacket(code, tid, session[tid].peer))
    BY Zenon DEF ServerError
  <2>2. tid \in Nat /\ session[tid].peer \in Nat
    <3>1. session \in Seq(Transfer)
      BY Zenon DEF IInv, TypeInv, TypeOK
    <3>2. tid \in Nat /\ session[tid] \in Transfer
      BY <3>1
    <3> QED BY <3>2 DEF Transfer
  <2>3. PICK m : m = ErrorPacket(code, tid, session[tid].peer)
    OBVIOUS
  <2>4. m \in Reply /\ m.op \in {"ERROR", "ERROR_fatal"}
    BY <2>2, <2>3, ErrorPacketType
  <2> QED BY <2>1, <2>3, <2>4, Zenon DEF QuietToClient, Repeats
<1> QED BY <1>1, <1>2, <1>3, <1>4, QuietStep, Zenon

\* net_start_again() never leaves a timer running for a port in use.
LEMMA NetStartAgainPorts ==
    ASSUME IInv, NEW handler, handler # "start_again", net_start_again(handler),
           UNCHANGED tftp_our_port
    PROVE  LoopPorts' /\ net_state' \in {net_state, "FAIL"}
<1>1. tftp_our_port \in Nat /\ net_try_count \in Nat /\ tftp_our_port <= net_try_count
  BY Zenon DEF IInv, TypeInv, TypeOK, PortInv
<1> QED BY <1>1 DEF net_start_again, LoopPorts

\* tftp_timeout_handler() keeps the invariant.
LEMMA TftpTimeoutStep == IInv /\ TypeInv' /\ TftpTimeout => IInv'
<1> SUFFICES ASSUME IInv, TypeInv', TftpTimeout PROVE IInv'
  OBVIOUS
<1>1. UNCHANGED <<session, progress>>
  BY Zenon DEF TftpTimeout, progress, imageVars
<1>2. QuietToClient /\ QuietToServer
  BY Zenon DEF TftpTimeout, QuietToClient, QuietToServer
<1>3. LoopPorts' /\ net_state' \in {net_state, "FAIL"}
  <2>1. CASE net_start_again("none")
    BY <2>1, <1>1, NetStartAgainPorts, Zenon DEF TftpTimeout, progress
  <2>2. CASE UNCHANGED <<net_state, net_try_count, time_handler, udp_handler, eth_state>>
    BY <2>2, <1>1, Zenon DEF IInv, PortInv, LoopPorts, progress
  <2> QED BY <2>1, <2>2, Zenon DEF TftpTimeout
<1> QED BY <1>1, <1>2, <1>3, QuietStep, Zenon

\* The end of net_loop and ctrl-C keep the invariant.
LEMMA ReturnStep == IInv /\ TypeInv' /\ (NetLoopReturn \/ CtrlC) => IInv'
<1> SUFFICES ASSUME IInv, TypeInv', NetLoopReturn \/ CtrlC PROVE IInv'
  OBVIOUS
<1>1. /\ UNCHANGED <<tftpVars, imageVars, net_state, net_try_count, toServer, toClient, session>>
      /\ time_handler' = "none"
  BY Zenon DEF NetLoopReturn, CtrlC
<1>2. UNCHANGED <<session, progress>> /\ net_state' = net_state
  BY <1>1, Zenon DEF progress, tftpVars, imageVars
<1>3. QuietToClient /\ QuietToServer
  BY <1>1, Zenon DEF QuietToClient, QuietToServer
<1>4. LoopPorts'
  BY <1>1, Zenon DEF IInv, PortInv, LoopPorts, tftpVars
<1> QED BY <1>2, <1>3, <1>4, QuietStep, Zenon

-----------------------------------------------------------------------------
(* The packet the client takes from an in-order network.                   *)

\* What Accepts() lets through before a transfer is followed is the first packet
\* of a transfer of this attempt; afterwards it is from the transfer followed.
LEMMA HeadPacket ==
    ASSUME IInv, ~Reorder, NEW i \in Deliverable(toClient), Accepts(toClient[i]),
           toClient[i].op \in {"DATA", "OACK"}
    PROVE  LET m == toClient[i]
               t == m.src
           IN  /\ i = 1 /\ 1 \in DOMAIN toClient
               /\ t \in DOMAIN session /\ t \in Nat /\ session[t] \in Transfer
               /\ session[t].peer = tftp_our_port
               /\ tftp_state = "SEND_RRQ" =>
                     Waiting(t) /\ m = Pkt(t, session[t], session[t].blk)
               /\ tftp_state # "SEND_RRQ" => t = tftp_remote_port
<1> DEFINE m == toClient[i]
           t == m.src
<1>1. i = 1 /\ i \in DOMAIN toClient
  BY Zenon DEF Deliverable
<1>2. t \in DOMAIN session
  BY <1>1, Zenon DEF IInv, TypeInv, AddressInv
<1>3. t \in Nat /\ session[t] \in Transfer
  BY <1>2 DEF IInv, TypeInv, TypeOK
<1>4. session[t].peer = tftp_our_port
  BY <1>1, Zenon DEF IInv, PortInv, Accepts
<1>5. tftp_state = "SEND_RRQ" => Waiting(t)
  BY <1>2, <1>4, Zenon DEF IInv, WaitingInv
<1>6. Waiting(t) => m = Pkt(t, session[t], session[t].blk)
  BY <1>1, Zenon DEF Waiting, Carries, From
<1>7. tftp_state # "SEND_RRQ" => t = tftp_remote_port
  BY Zenon DEF Accepts
<1> QED BY <1>1, <1>2, <1>3, <1>4, <1>5, <1>6, <1>7, Zenon

\* Once a transfer is followed, the head packet is for the block stored last or
\* for the next one, and in the second case only that one is still in flight.
LEMMA HeadInStep ==
    ASSUME IInv, 1 \in DOMAIN toClient, NEW t \in DOMAIN session, From(toClient[1], t),
           NEW c \in Nat, InStep(t, c)
    PROVE  \/ toClient[1] = Pkt(t, session[t], c)
           \/ /\ session[t].blk = c + 1 /\ toClient[1] = Pkt(t, session[t], c + 1)
              /\ Carries(toClient, t, toClient[1], toClient[1])
<1>1. Carries(toClient, t, Pkt(t, session[t], c), Pkt(t, session[t], session[t].blk))
      /\ (session[t].blk = c \/ session[t].blk = c + 1)
  BY Zenon DEF InStep
<1>2. toClient[1] = Pkt(t, session[t], c) \/ toClient[1] = Pkt(t, session[t], session[t].blk)
  BY <1>1, Zenon DEF Carries
<1>3. toClient \in Seq(Reply)
  BY Zenon DEF IInv, TypeInv, TypeOK
<1>4. toClient[1] = Pkt(t, session[t], session[t].blk)
      => Carries(toClient, t, toClient[1], toClient[1])
  BY <1>1, <1>3, CarriesHead, Zenon
<1>5. CASE session[t].blk = c
  BY <1>2, <1>5, Zenon
<1>6. CASE session[t].blk = c + 1
  BY <1>2, <1>4, <1>6, Zenon
<1> QED BY <1>1, <1>5, <1>6, Zenon

-----------------------------------------------------------------------------
(* Steps of the server that change its transfers.                          *)

\* What a step of the server leaves alone.
LEMMA ServerLeaves ==
    ASSUME IInv, ServerReceive
    PROVE  UNCHANGED progress /\ net_state' = net_state /\ LoopPorts'
BY Zenon DEF IInv, PortInv, LoopPorts, ServerReceive, progress, tftpVars, loopVars, imageVars

\* The server opens a transfer for an RRQ.
LEMMA NewSessionStep ==
    ASSUME IInv, TypeInv', ServerReceive, NEW i \in DOMAIN toServer,
           toServer' = RemoveAt(toServer, i), toServer[i].op = "RRQ",
           NEW reply \in Replies, reply \notin {"ERROR", "ERROR_fatal"},
           Len(session) < MaxTid,
           NEW s, s = NewSession(reply, toServer[i].src), session' = Append(session, s),
           toClient' = Send(toClient, CurrentPacket(Len(session) + 1, s))
    PROVE  IInv'
<1> DEFINE n == Len(session) + 1
           m == CurrentPacket(n, s)
<1>1. toClient \in Seq(Reply) /\ session \in Seq(Transfer) /\ toServer \in Seq(Request)
      /\ Len(session) \in Nat /\ n \in Nat /\ n <= MaxTid /\ DOMAIN session = 1 .. Len(session)
  BY LenProperties, TftpAssumption, SMTT(40) DEF IInv, TypeInv, TypeOK
<1>2. toServer[i].src \in Nat /\ toServer[i].src <= tftp_our_port
  <2>1. toServer[i] \in Request
    BY <1>1
  <2> QED BY <2>1, Zenon DEF Request, IInv, PortInv
<1>3. s \in Transfer
  BY <1>2, NewSessionType, Zenon
<1>4. /\ s.peer = toServer[i].src
      /\ s.blk = 0 \/ (s.blk = 1 /\ s.oack = 0)
      /\ s.bs = IF s.oack = 0 THEN TFTP_BLOCK_SIZE ELSE s.oack
  BY TftpAssumption, Zenon DEF NewSession
<1>5. m \in Reply /\ m.src = n /\ m.op \in {"DATA", "OACK"} /\ m.dst = s.peer
      /\ m = Pkt(n, s, s.blk)
  BY <1>1, <1>3, CurrentPacketType, PktCurrent, ZenonT(40)
<1>6. /\ DOMAIN session' = 1 .. n /\ session'[n] = s
      /\ \A t \in DOMAIN session : t \in DOMAIN session' /\ session'[t] = session[t] /\ t # n
      /\ \A t \in DOMAIN session' : t \in DOMAIN session \/ t = n
  <2>1. DOMAIN Append(session, s) = 1 .. Len(session) + 1
        /\ (\A j \in 1 .. Len(session) : Append(session, s)[j] = session[j])
        /\ Append(session, s)[Len(session) + 1] = s
    BY <1>1, <1>3, AppendLast
  <2> QED BY <2>1, <1>1
<1> HIDE DEF m, n
<1>7. toClient' = Send(toClient, m)
  BY Zenon DEF m, n
<1>8. \A j \in DOMAIN toClient' :
         (j \in DOMAIN toClient /\ toClient'[j] = toClient[j]) \/ toClient'[j] = m
  BY <1>1, <1>5, <1>7, SendProperties
<1>9. \A j \in DOMAIN toServer' :
         Shift(i, j) \in DOMAIN toServer /\ toServer'[j] = toServer[Shift(i, j)]
  BY <1>1, RemoveAtShift, ZenonT(40)
<1>10. UNCHANGED progress /\ net_state' = net_state /\ LoopPorts'
  BY ServerLeaves, Zenon
<1>11. UNCHANGED tftp_our_port
  BY <1>10, Zenon DEF progress
<1>12. StoredInPlace'
  BY <1>10, Zenon DEF IInv, StoredInPlace, progress
<1>13. SessionInv'
  <2>1. s.blk > 0 => (s.blk - 1) * s.bs <= FileSize
    BY <1>3, <1>4, TftpAssumption DEF Transfer, BlockSize
  <2> QED BY <2>1, <1>4, <1>6 DEF IInv, SessionInv
<1>14. PortInv'
  <2>1. Len(session') <= MaxTid
    <3>1. Len(Append(session, s)) = Len(session) + 1
      BY <1>1, <1>3, AppendLast
    <3> QED BY <3>1, <1>1, TftpAssumption, Zenon DEF n
  <2>2. \A t \in DOMAIN session' : session'[t].peer <= tftp_our_port
    BY <1>2, <1>4, <1>6, ZenonT(40) DEF IInv, PortInv
  <2>3. \A j \in DOMAIN toServer' : toServer'[j].op = "RRQ" => toServer'[j].src <= tftp_our_port
    BY <1>9, ZenonT(40) DEF IInv, PortInv
  <2>4. \A j \in DOMAIN toClient' :
           toClient'[j].op \in {"DATA", "OACK"} =>
              toClient'[j].dst = session'[toClient'[j].src].peer
    BY <1>5, <1>6, <1>8 DEF IInv, PortInv, TypeInv, AddressInv
  <2> QED BY <2>1, <2>2, <2>3, <2>4, <1>10, <1>11, Zenon DEF PortInv, LoopPorts
<1>15. \A t \in DOMAIN session : \A old, new :
          Carries(toClient, t, old, new) => Carries(toClient', t, old, new)
  <2> SUFFICES ASSUME NEW t \in DOMAIN session, NEW old, NEW new, Carries(toClient, t, old, new)
               PROVE  Carries(toClient', t, old, new)
    OBVIOUS
  <2>1. ~From(m, t)
    BY <1>5, <1>6, Zenon DEF From
  <2> QED BY <2>1, <1>1, <1>5, <1>7, CarriesSend, Zenon
<1>16. WaitingInv'
  <2> SUFFICES ASSUME tftp_state = "SEND_RRQ", NEW t \in DOMAIN session',
                      session'[t].peer = tftp_our_port
               PROVE  Waiting(t)'
    BY <1>10, Zenon DEF IInv, WaitingInv, progress
  <2>1. CASE t \in DOMAIN session
    <3>1. Waiting(t) /\ session'[t] = session[t]
      BY <2>1, <1>6, Zenon DEF IInv, WaitingInv
    <3>2. \A j \in DOMAIN toServer' : ~IsAck(toServer'[j], t)
      BY <3>1, <1>9, Zenon DEF Waiting
    <3> QED BY <2>1, <3>1, <3>2, <1>15, Zenon DEF Waiting
  <2>2. CASE t = n
    <3>1. \A j \in DOMAIN toServer' : ~IsAck(toServer'[j], n)
      BY <1>6, <1>9 DEF IInv, TypeInv, AddressInv, IsAck
    <3>2. \A j \in DOMAIN toClient : ~From(toClient[j], n)
      BY <1>6, Zenon DEF IInv, TypeInv, AddressInv, From
    <3>3. Carries(toClient', n, Pkt(n, s, s.blk), Pkt(n, s, s.blk))
      BY <3>2, <1>5, <1>8 DEF Carries
    <3> QED BY <2>2, <3>1, <3>3, <1>4, <1>6, Zenon DEF Waiting
  <2> QED BY <2>1, <2>2, <1>6, Zenon
<1>17. FollowingInv'
  <2> SUFFICES ASSUME tftp_state # "SEND_RRQ" PROVE FollowingInv'
    BY <1>10, Zenon DEF FollowingInv, progress
  <2> DEFINE t == tftp_remote_port
  <2>1. t \in DOMAIN session /\ session'[t] = session[t] /\ t' = t
    BY <1>6, <1>10, Zenon DEF IInv, TypeInv, AddressInv, progress
  <2>2. PICK c \in {session[t].blk, session[t].blk - 1} :
            c >= 0 /\ HasStored(t, c) /\ InStep(t, c)
    BY Zenon DEF IInv, FollowingInv
  <2>3. HasStored(t, c)'
    BY <2>1, <2>2, <1>10, Zenon DEF HasStored, progress
  <2>4. Carries(toClient', t, Pkt(t, session[t], c), Pkt(t, session[t], session[t].blk))
    BY <2>1, <2>2, <1>15, Zenon DEF InStep
  <2>5. Acks(toServer', t,
             (IF session[t].blk = c /\ c > 0 THEN c - 1 ELSE c) % TFTP_SEQUENCE_SIZE,
             c % TFTP_SEQUENCE_SIZE)
    BY <2>2, <1>1, AcksRemove, Zenon DEF InStep
  <2>6. InStep(t, c)'
    BY <2>1, <2>2, <2>4, <2>5, Zenon DEF InStep
  <2> QED BY <2>1, <2>2, <2>3, <2>6, Zenon DEF FollowingInv
<1> QED BY <1>12, <1>13, <1>14, <1>16, <1>17, Zenon DEF IInv

\* The server releases the next block for the ACK of its current one.
LEMMA AdvanceStep ==
    ASSUME IInv, TypeInv', ServerReceive, ~Reorder, NEW i \in Deliverable(toServer),
           toServer' = RemoveAt(toServer, i), toServer[i].op = "ACK",
           NEW d, d = toServer[i].dst, d \in DOMAIN session,
           toServer[i].blk = session[d].blk % TFTP_SEQUENCE_SIZE, ~LastBlockSent(session[d]),
           NEW next \in Transfer, next.blk = session[d].blk + 1,
           next.peer = session[d].peer, next.bs = session[d].bs,
           next.oack = session[d].oack,
           session' = [session EXCEPT ![d] = next],
           toClient' = Send(toClient, DataPacket(d, next))
    PROVE  IInv'
<1> DEFINE m == DataPacket(d, next)
<1>1. toClient \in Seq(Reply) /\ session \in Seq(Transfer) /\ toServer \in Seq(Request)
      /\ i = 1 /\ 1 \in DOMAIN toServer
  BY Zenon DEF IInv, TypeInv, TypeOK, Deliverable
<1>2. d \in Nat /\ session[d] \in Transfer /\ session[d].blk \in Nat
  <2>1. d \in Nat /\ session[d] \in Transfer
    BY <1>1
  <2> QED BY <2>1, Zenon DEF Transfer
<1>3. next \in Transfer /\ next.blk = session[d].blk + 1 /\ next.peer = session[d].peer
      /\ next.bs = session[d].bs /\ next.oack = session[d].oack
  OBVIOUS
<1>4. m \in Reply /\ m.op = "DATA" /\ m.src = d /\ m.dst = session[d].peer
      /\ m = Pkt(d, next, next.blk)
  <2>1. next.blk > 0
    BY <1>2
  <2>2. /\ m \in Reply
        /\ m.op = "DATA" /\ m.src = d
        /\ m.dst = next.peer
    BY <1>2, DataPacketType, Zenon
  <2>3. m = Pkt(d, next, next.blk)
    BY <2>1, <1>2, PktCurrent, Zenon
  <2> QED BY <2>2, <2>3, Zenon
<1>5. DOMAIN session' = DOMAIN session /\ session'[d] = next /\ Len(session') = Len(session)
      /\ \A t \in DOMAIN session : t # d => session'[t] = session[t]
  BY <1>1, <1>3, ExceptSeq
<1> HIDE DEF m
<1>6. toClient' = Send(toClient, m)
  BY Zenon DEF m
<1>7. \A j \in DOMAIN toClient' :
         (j \in DOMAIN toClient /\ toClient'[j] = toClient[j]) \/ toClient'[j] = m
  BY <1>1, <1>4, <1>6, SendProperties
<1>8. \A j \in DOMAIN toServer' :
         Shift(i, j) \in DOMAIN toServer /\ toServer'[j] = toServer[Shift(i, j)]
  BY <1>1, RemoveAtShift
<1>9. UNCHANGED progress /\ net_state' = net_state /\ LoopPorts'
  BY ServerLeaves, Zenon
<1>10. session[d].blk * session[d].bs <= FileSize
  BY <1>2, NotLast, Zenon
<1>11. StoredInPlace'
  BY <1>9, Zenon DEF IInv, StoredInPlace, progress
<1>12. SessionInv'
  <2>1. next.blk > 0 => (next.blk - 1) * next.bs <= FileSize
    BY <1>2, <1>3, <1>10
  <2> QED BY <2>1, <1>3, <1>5 DEF IInv, SessionInv
<1>13. \A t \in DOMAIN session : session'[t].peer = session[t].peer
  BY <1>3, <1>5, Zenon
<1>14. PortInv'
  <2>1. \A t \in DOMAIN session' : session'[t].peer <= tftp_our_port
    BY <1>5, <1>13, Zenon DEF IInv, PortInv
  <2>2. \A j \in DOMAIN toServer' : toServer'[j].op = "RRQ" => toServer'[j].src <= tftp_our_port
    BY <1>8, ZenonT(40) DEF IInv, PortInv
  <2>3. \A j \in DOMAIN toClient' :
           toClient'[j].op \in {"DATA", "OACK"} =>
              toClient'[j].dst = session'[toClient'[j].src].peer
    <3> SUFFICES ASSUME NEW j \in DOMAIN toClient'
                 PROVE  toClient'[j].op \in {"DATA", "OACK"} =>
                           toClient'[j].dst = session'[toClient'[j].src].peer
      OBVIOUS
    <3>1. CASE toClient'[j] = m
      BY <3>1, <1>4, <1>13, Zenon
    <3>2. CASE j \in DOMAIN toClient /\ toClient'[j] = toClient[j]
      <4>1. toClient[j].op \in {"DATA", "OACK"} => toClient[j].src \in DOMAIN session
        BY <3>2, Zenon DEF IInv, TypeInv, AddressInv
      <4> QED BY <4>1, <3>2, <1>13 DEF IInv, PortInv
    <3> QED BY <3>1, <3>2, <1>7, Zenon
  <2> QED BY <2>1, <2>2, <2>3, <1>5, <1>9, Zenon DEF IInv, PortInv, LoopPorts, progress
<1>15. \A t \in DOMAIN session \ {d} : \A old, new :
          Carries(toClient, t, old, new) => Carries(toClient', t, old, new)
  <2> SUFFICES ASSUME NEW t \in DOMAIN session \ {d}, NEW old, NEW new,
                      Carries(toClient, t, old, new)
               PROVE  Carries(toClient', t, old, new)
    OBVIOUS
  <2>1. ~From(m, t)
    BY <1>4, Zenon DEF From
  <2> QED BY <2>1, <1>1, <1>4, <1>6, CarriesSend, Zenon
<1>16. WaitingInv'
  <2> SUFFICES ASSUME tftp_state = "SEND_RRQ", NEW t \in DOMAIN session,
                      session[t].peer = tftp_our_port
               PROVE  Waiting(t)'
    BY <1>5, <1>9, <1>13, Zenon DEF IInv, WaitingInv, progress
  <2>1. Waiting(t)
    BY Zenon DEF IInv, WaitingInv
  <2>2. t # d
    BY <2>1, <1>1, Zenon DEF Waiting, IsAck
  <2>3. \A j \in DOMAIN toServer' : ~IsAck(toServer'[j], t)
    BY <2>1, <1>8, Zenon DEF Waiting
  <2> QED BY <2>1, <2>2, <2>3, <1>5, <1>15, Zenon DEF Waiting
<1>17. FollowingInv'
  <2> SUFFICES ASSUME tftp_state # "SEND_RRQ" PROVE FollowingInv'
    BY <1>9, Zenon DEF FollowingInv, progress
  <2> DEFINE t == tftp_remote_port
  <2>1. t \in DOMAIN session /\ t' = t
    BY <1>9, Zenon DEF IInv, TypeInv, AddressInv, progress
  <2>2. PICK c \in {session[t].blk, session[t].blk - 1} :
            c >= 0 /\ HasStored(t, c) /\ InStep(t, c)
    BY Zenon DEF IInv, FollowingInv
  <2>3. CASE t # d
    <3>1. session'[t] = session[t]
      BY <2>1, <2>3, <1>5, Zenon
    <3>2. HasStored(t, c)'
      BY <2>1, <2>2, <3>1, <1>9, Zenon DEF HasStored, progress
    <3>3. Carries(toClient', t, Pkt(t, session[t], c), Pkt(t, session[t], session[t].blk))
      BY <2>1, <2>2, <2>3, <1>15, Zenon DEF InStep
    <3>4. Acks(toServer', t,
               (IF session[t].blk = c /\ c > 0 THEN c - 1 ELSE c) % TFTP_SEQUENCE_SIZE,
               c % TFTP_SEQUENCE_SIZE)
      BY <2>2, <1>1, AcksRemove, Zenon DEF InStep
    <3>5. InStep(t, c)'
      BY <2>1, <2>2, <3>1, <3>3, <3>4, Zenon DEF InStep
    <3> QED BY <2>1, <2>2, <3>1, <3>2, <3>5, Zenon DEF FollowingInv
  <2>4. CASE t = d
    <3> DEFINE S == TFTP_SEQUENCE_SIZE
    <3>1. c \in Nat /\ S \in Nat /\ S >= 2
      BY <2>2, <2>4, <1>2, TftpAssumption
    <3>2. (c + 1) % S # c % S
      BY <3>1, NextModDiffers, Zenon
    <3>3. session[d].blk = c
      <4> SUFFICES ASSUME session[d].blk # c PROVE FALSE
        OBVIOUS
      <4>1. Acks(toServer, d, c % S, c % S)
        BY <2>2, <2>4, Zenon DEF InStep
      <4>2. toServer[1].blk = c % S
        BY <4>1, <1>1, Zenon DEF Acks, IsAck
      <4>3. session[d].blk = c + 1
        BY <2>2, <2>4, Zenon DEF InStep
      <4> QED BY <4>2, <4>3, <3>2, <1>1, Zenon
    <3>4. Acks(toServer, d, c % S, c % S)
      <4>1. PICK old : Acks(toServer, d, old, c % S)
        BY <2>2, <2>4, Zenon DEF InStep
      <4>2. IsAck(toServer[1], d) /\ toServer[1].blk = c % S
        BY <3>3, <1>1, Zenon DEF IsAck
      <4> QED BY <4>1, <4>2, <1>1, AcksHead, Zenon
    <3>5. Acks(toServer', d, c % S, c % S)
      BY <3>4, <1>1, AcksRemove, Zenon
    <3>6. Carries(toClient, d, Pkt(d, next, c), Pkt(d, next, c))
      <4>1. Pkt(d, next, c) = Pkt(d, session[d], c)
        BY PktSame
      <4> QED BY <4>1, <2>2, <2>4, <3>3, Zenon DEF InStep
    <3>7. m = Pkt(d, next, c + 1) /\ next.blk = c + 1
      BY <3>3, <1>3, <1>4, Zenon
    <3>8. Carries(toClient, d, Pkt(d, next, c), m)
      <4>1. Pkt(d, next, c) # Pkt(d, next, c + 1)
        BY <3>1, <1>2, <1>3, PktDiffers, Zenon
      <4> QED BY <4>1, <3>6, <3>7, CarriesAdvance, Zenon
    <3>9. Carries(toClient', d, Pkt(d, next, c), m)
      BY <3>8, <1>1, <1>4, <1>6, CarriesSend, Zenon
    <3>10. InStep(d, c)'
      <4>1. session'[d].blk # c
        <5> HIDE DEF S
        <5> QED BY <1>5, <3>1, <3>7
      <4> QED BY <4>1, <3>5, <3>7, <3>9, <1>5, Zenon DEF InStep
    <3>11. HasStored(d, c)'
      <4>1. net_state # "SUCCESS"
        BY <2>2, <2>4, <3>1, <3>3, <1>2, <1>10, TftpAssumption, SMTT(40)
           DEF HasStored, Transfer, BlockSize
      <4> QED BY <4>1, <2>2, <2>4, <1>3, <1>5, <1>9, Zenon DEF HasStored, progress
    <3>12. c \in {session'[d].blk, session'[d].blk - 1} /\ c >= 0
      <4>1. session'[d].blk = c + 1
        BY <1>5, <3>7, Zenon
      <4> QED BY <4>1, <3>1
    <3> QED BY <2>1, <2>4, <3>10, <3>11, <3>12, Zenon DEF FollowingInv
  <2> QED BY <2>3, <2>4, Zenon
<1> QED BY <1>11, <1>12, <1>14, <1>16, <1>17, Zenon DEF IInv

\* A request that changes no transfer: refused, dropped or repeated.
LEMMA ServerQuietStep ==
    ASSUME IInv, TypeInv', ServerReceive, NEW i \in DOMAIN toServer,
           toServer' = RemoveAt(toServer, i), session' = session, QuietToClient
    PROVE  IInv'
<1>1. UNCHANGED <<session, progress>> /\ net_state' = net_state /\ LoopPorts'
  BY ServerLeaves, Zenon
<1>2. QuietToServer
  BY Zenon DEF QuietToServer
<1> QED BY <1>1, <1>2, QuietStep, Zenon

\* Everything the server receives keeps the invariant.
LEMMA ServerReceiveStep ==
    ASSUME IInv, TypeInv', ServerReceive, ~Reorder
    PROVE  IInv'
<1>1. PICK i \in Deliverable(toServer) :
          /\ toServer' = RemoveAt(toServer, i)
          /\ \/ toServer[i].op = "RRQ" /\ \E reply \in Replies : ServeRRQ(toServer[i], reply)
             \/ toServer[i].op = "ACK" /\ ServeACK(toServer[i])
  BY Zenon DEF ServerReceive
<1>2. i \in DOMAIN toServer
  BY Zenon DEF Deliverable
<1> DEFINE r == toServer[i]
<1>3. r \in Request /\ session \in Seq(Transfer)
  BY <1>2, SMTT(40) DEF IInv, TypeInv, TypeOK
<1>4. CASE r.op = "RRQ" /\ \E reply \in Replies : ServeRRQ(r, reply)
  <2>1. PICK reply \in Replies : ServeRRQ(r, reply)
    BY <1>4, Zenon
  <2>2. CASE reply \in {"ERROR", "ERROR_fatal"}
    <3> DEFINE m == ErrorPacket(reply, MaxTid + 1, r.src)
    <3>1. r.src \in Nat
      BY <1>3, <1>4, Zenon DEF Request
    <3>2. m \in Reply /\ m.op \in {"ERROR", "ERROR_fatal"}
      BY <2>2, <3>1, ErrorPacketType, TftpAssumption
    <3>3. toClient' = Send(toClient, m) /\ session' = session
      BY <2>1, <2>2, Zenon DEF ServeRRQ
    <3> HIDE DEF m
    <3>4. QuietToClient
      BY <3>2, <3>3, Zenon DEF QuietToClient, Repeats
    <3> QED BY <3>3, <3>4, <1>1, <1>2, ServerQuietStep, Zenon
  <2>3. CASE reply \notin {"ERROR", "ERROR_fatal"} /\ Len(session) < MaxTid
    <3> DEFINE s == NewSession(reply, r.src)
    <3>1. session' = Append(session, s)
          /\ toClient' = Send(toClient, CurrentPacket(Len(session) + 1, s))
      BY <2>1, <2>3, Zenon DEF ServeRRQ
    <3> QED BY <3>1, <2>3, <1>1, <1>2, <1>4, NewSessionStep, Zenon
  <2>4. CASE reply \notin {"ERROR", "ERROR_fatal"} /\ ~(Len(session) < MaxTid)
    <3>1. session' = session /\ toClient' = toClient
      BY <2>1, <2>4, Zenon DEF ServeRRQ
    <3>2. QuietToClient
      BY <3>1, Zenon DEF QuietToClient
    <3> QED BY <3>1, <3>2, <1>1, <1>2, ServerQuietStep, Zenon
  <2> QED BY <2>2, <2>3, <2>4, Zenon
<1>5. CASE r.op = "ACK" /\ ServeACK(r)
  <2> DEFINE d == r.dst
             s == session[d]
             next == [s EXCEPT !.blk = @ + 1]
  <2>1. d \in DOMAIN session /\ d \in Nat /\ s \in Transfer
    BY <1>2, <1>3, <1>5 DEF IInv, TypeInv, AddressInv
  <2>2. CASE r.blk = s.blk % TFTP_SEQUENCE_SIZE /\ ~LastBlockSent(s)
    <3>1. next \in Transfer /\ next.blk = s.blk + 1 /\ next.peer = s.peer
          /\ next.bs = s.bs /\ next.oack = s.oack
      BY <2>1 DEF Transfer
    <3>2. session' = [session EXCEPT ![d] = next]
          /\ toClient' = Send(toClient, DataPacket(d, next))
      BY <1>5, <2>2, Zenon DEF ServeACK
    <3> HIDE DEF next
    <3> QED BY <3>1, <3>2, <2>1, <2>2, <1>1, <1>5, AdvanceStep, Zenon
  <2>3. CASE ~(r.blk = s.blk % TFTP_SEQUENCE_SIZE /\ ~LastBlockSent(s))
    <3>1. session' = session
          /\ (toClient' = Send(toClient, CurrentPacket(d, s)) \/ toClient' = toClient)
      BY <1>5, <2>3, Zenon DEF ServeACK
    <3>2. CurrentPacket(d, s) \in Reply
      BY <2>1, CurrentPacketType, Zenon
    <3>3. QuietToClient
      BY <2>1, <3>1, <3>2, Zenon DEF QuietToClient, Repeats
    <3> QED BY <3>1, <3>3, <1>1, <1>2, ServerQuietStep, Zenon
  <2> QED BY <2>2, <2>3, Zenon
<1> QED BY <1>1, <1>4, <1>5, Zenon


-----------------------------------------------------------------------------
(* Steps of the client.                                                    *)

\* A packet that changes no one's progress: dropped, or seen before.
LEMMA ClientQuietStep ==
    ASSUME IInv, TypeInv', NEW i \in DOMAIN toClient, toClient' = RemoveAt(toClient, i),
           UNCHANGED <<session, progress>>, net_state' \in {net_state, "FAIL"}, LoopPorts',
           QuietToServer
    PROVE  IInv'
<1>1. QuietToClient
  BY Zenon DEF QuietToClient
<1> QED BY <1>1, QuietStep, Zenon

\* A packet tftp_handler() or net_loop drops changes nothing but the queue.
LEMMA IgnoreStep ==
    ASSUME IInv, TypeInv', NEW i \in DOMAIN toClient, toClient' = RemoveAt(toClient, i),
           UNCHANGED session, Ignore(toClient[i])
    PROVE  IInv'
<1>1. UNCHANGED <<tftpVars, loopVars, imageVars, toServer>>
  BY Zenon DEF Ignore
<1>2. UNCHANGED <<session, progress>> /\ net_state' = net_state
  BY <1>1, Zenon DEF progress, tftpVars, loopVars, imageVars
<1>3. LoopPorts'
  BY <1>1, Zenon DEF IInv, PortInv, LoopPorts, tftpVars, loopVars
<1>4. QuietToServer
  BY <1>1, Zenon DEF QuietToServer
<1> QED BY <1>2, <1>3, <1>4, ClientQuietStep, Zenon

\* An error changes no one's progress, not even after SUCCESS; an attempt is
\* not over yet when it is heard.
LEMMA RecvErrorStep ==
    ASSUME IInv, TypeInv', NEW i \in DOMAIN toClient, toClient' = RemoveAt(toClient, i),
           UNCHANGED session, RecvError(toClient[i])
    PROVE  IInv' /\ net_state' \in {net_state, "FAIL"} /\ UNCHANGED imageVars
<1> DEFINE m == toClient[i]
<1>1. /\ Accepts(m) /\ m.op \in {"ERROR", "ERROR_fatal"}
      /\ \/ net_state' = "FAIL" /\ UNCHANGED <<net_try_count, time_handler, udp_handler>>
         \/ net_start_again(time_handler)
      /\ UNCHANGED <<tftpVars, imageVars, toServer>>
  BY Zenon DEF RecvError
<1>2. time_handler # "start_again"
  BY <1>1 DEF IInv, PortInv, Accepts
<1>3. UNCHANGED <<session, progress>> /\ tftp_our_port' = tftp_our_port
  BY <1>1, Zenon DEF progress, tftpVars, imageVars
<1>4. LoopPorts' /\ net_state' \in {net_state, "FAIL"}
  <2>1. CASE net_start_again(time_handler)
    BY <2>1, <1>2, <1>3, NetStartAgainPorts, Zenon
  <2>2. CASE net_state' = "FAIL" /\ UNCHANGED <<net_try_count, time_handler, udp_handler>>
    BY <2>2, <1>2, <1>3, Zenon DEF IInv, PortInv, LoopPorts
  <2> QED BY <1>1, <2>1, <2>2, Zenon
<1>5. QuietToServer
  BY <1>1, Zenon DEF QuietToServer
<1> QED BY <1>1, <1>3, <1>4, <1>5, ClientQuietStep, Zenon

\* "Same block again": nothing changes.
LEMMA RecvSameStep ==
    ASSUME IInv, TypeInv', NEW i \in DOMAIN toClient, toClient' = RemoveAt(toClient, i),
           UNCHANGED session, RecvSame(toClient[i])
    PROVE  IInv'
<1> DEFINE m == toClient[i]
<1>1. ~First /\ m.blk = tftp_prev_block /\ NoteBlock(m)
      /\ UNCHANGED <<tftp_prev_block, loopVars, imageVars, toServer>>
  BY Zenon DEF RecvSame
<1>2. tftp_state = "DATA"
  BY <1>1, Zenon DEF First, IInv, TypeInv, TypeOK
<1>3. tftp_cur_block = tftp_prev_block
  BY <1>2, Zenon DEF IInv, FollowingInv, HasStored
<1>4. UNCHANGED <<session, progress>>
  BY <1>1, <1>2, <1>3, Zenon DEF NoteBlock, Wrapped, progress, imageVars
<1>5. net_state' = net_state /\ LoopPorts'
  BY <1>1, <1>4, Zenon DEF IInv, PortInv, LoopPorts, loopVars, progress
<1>6. QuietToServer
  BY <1>1, Zenon DEF QuietToServer
<1> QED BY <1>4, <1>5, <1>6, ClientQuietStep, Zenon

\* An OACK is the answer to the RRQ, or a repetition of it.
LEMMA RecvOackStep ==
    ASSUME IInv, TypeInv', ~Reorder, NEW i \in Deliverable(toClient),
           toClient' = RemoveAt(toClient, i), UNCHANGED session, RecvOack(toClient[i])
    PROVE  IInv'
<1> DEFINE m == toClient[i]
<1>0. PICK t : t = m.src
  OBVIOUS
<1> DEFINE p == Outgoing("OACK", tftp_cur_block, t, tftp_our_port)
<1>1. /\ Accepts(m) /\ m.op = "OACK"
      /\ tftp_state' = "OACK" /\ tftp_remote_port' = t
      /\ tftp_block_size' = IF m.size = 0 THEN tftp_block_size ELSE m.size
      /\ Transmit(p)
      /\ UNCHANGED <<tftp_cur_block, tftp_prev_block, tftp_block_wrap_offset,
                     tftp_our_port, timeout_count, loopVars, imageVars>>
  BY <1>0, Zenon DEF RecvOack
<1>2. /\ i = 1 /\ 1 \in DOMAIN toClient
      /\ t \in DOMAIN session /\ t \in Nat /\ session[t] \in Transfer
      /\ session[t].peer = tftp_our_port
      /\ tftp_state = "SEND_RRQ" => Waiting(t) /\ m = Pkt(t, session[t], session[t].blk)
      /\ tftp_state # "SEND_RRQ" => t = tftp_remote_port
  BY <1>0, <1>1, HeadPacket, Zenon
<1>3. session[t].blk \in Nat /\ session[t].bs \in Nat
  BY <1>2, TftpAssumption, Zenon DEF Transfer, BlockSize
<1>4. \A k \in Nat : m = Pkt(t, session[t], k) => k = 0 /\ m.size = session[t].oack
  <2> TAKE k \in Nat
  <2>1. (k > 0 => Pkt(t, session[t], k).op = "DATA")
        /\ (k = 0 => Pkt(t, session[t], k).size = session[t].oack)
    BY <1>2, PktFields
  <2> QED BY <1>1, <2>1
<1>5. session[t].bs = IF session[t].oack = 0 THEN TFTP_BLOCK_SIZE ELSE session[t].oack
  BY <1>2, Zenon DEF IInv, SessionInv
<1>6. toServer \in Seq(Request) /\ toClient \in Seq(Reply) /\ tftp_our_port \in Nat
      /\ tftp_cur_block \in BlockNumber
  BY Zenon DEF IInv, TypeInv, TypeOK
<1>7. p \in Request /\ (p.op = "ACK" => p.dst = t /\ p.blk = tftp_cur_block) /\ p.op # "RRQ"
  <2>1. p \in Request /\ (p.op = "ACK" => p.dst = t /\ p.blk = tftp_cur_block)
    BY <1>2, <1>6, OutgoingType
  <2>2. p.op # "RRQ"
    BY Zenon DEF Outgoing
  <2> QED BY <2>1, <2>2, Zenon
<1>8. LoopPorts' /\ net_state' = net_state /\ UNCHANGED <<net_boot_file_size, mem>>
  BY <1>1, Zenon DEF IInv, PortInv, LoopPorts, loopVars, imageVars
<1> HIDE DEF m, p
<1>9. CASE tftp_state # "SEND_RRQ"
  <2>1. PICK c \in {session[t].blk, session[t].blk - 1} :
            c >= 0 /\ HasStored(t, c) /\ InStep(t, c)
    BY <1>2, <1>9, Zenon DEF IInv, FollowingInv
  <2>2. c \in Nat
    BY <2>1, <1>3
  <2>3. m = Pkt(t, session[t], c) \/ m = Pkt(t, session[t], c + 1)
    <3>1. From(toClient[1], t)
      BY <1>0, <1>1, <1>2, Zenon DEF m, From
    <3> QED BY <2>1, <2>2, <3>1, <1>2, HeadInStep, Zenon DEF m
  <2>4. c = 0 /\ m.size = session[t].oack
    BY <2>2, <2>3, <1>4
  <2>5. tftp_state = "OACK" /\ tftp_block_size = session[t].bs
    BY <2>1, <2>4, <1>9 DEF HasStored, IInv, TypeInv, TypeOK
  <2>6. tftp_block_size' = tftp_block_size
    BY <2>4, <2>5, <1>1, <1>5, Zenon
  <2>7. UNCHANGED <<session, progress>>
    BY <2>5, <2>6, <1>1, <1>2, <1>8, <1>9, Zenon DEF progress
  <2>8. QuietToServer
    BY <2>5, <1>1, <1>2, <1>9, Zenon DEF QuietToServer, p
  <2>9. i \in DOMAIN toClient
    BY <1>2, Zenon
  <2> QED BY <2>7, <2>8, <2>9, <1>8, ClientQuietStep, Zenon
<1>10. CASE tftp_state = "SEND_RRQ"
  <2>1. /\ tftp_cur_block = 0 /\ tftp_block_size = TFTP_BLOCK_SIZE
        /\ net_boot_file_size = 0 /\ net_state # "SUCCESS"
    BY <1>10, Zenon DEF IInv, WaitingInv
  <2>2. session[t].blk = 0 /\ m.size = session[t].oack
    BY <1>2, <1>3, <1>4, <1>10, Zenon
  <2>3. tftp_block_size' = session[t].bs
    BY <2>1, <2>2, <1>1, <1>5, Zenon
  <2>4. 0 % TFTP_SEQUENCE_SIZE = 0
    BY TftpAssumption
  <2>5. HasStored(t, 0)'
    <3>1. 0 * session[t].bs = 0 /\ 0 <= FileSize
      BY <1>3, TftpAssumption
    <3>2. StoredSize(session[t].bs, 0) = 0
      BY <3>1, Zenon DEF StoredSize
    <3>3. \A q \in 0 .. FileSize - 1 : q < 0 * session[t].bs => mem[q] = q
      BY <3>1
    <3> QED BY <2>1, <2>3, <2>4, <3>2, <3>3, <1>1, <1>2, <1>8, Zenon DEF HasStored
  <2>6. InStep(t, 0)'
    <3>1. Carries(toClient', t, Pkt(t, session[t], 0), Pkt(t, session[t], 0))
      BY <2>2, <1>2, <1>6, <1>10, CarriesRemove, Zenon DEF Waiting
    <3>2. Acks(toServer, t, 0 % TFTP_SEQUENCE_SIZE, 0 % TFTP_SEQUENCE_SIZE)
      BY <1>2, <1>10, Zenon DEF Waiting, Acks
    <3>3. IsAck(p, t) => p.blk = 0 % TFTP_SEQUENCE_SIZE
      BY <2>1, <2>4, <1>7, Zenon DEF IsAck
    <3>4. Acks(toServer', t, 0 % TFTP_SEQUENCE_SIZE, 0 % TFTP_SEQUENCE_SIZE)
      BY <3>2, <3>3, <1>1, <1>6, <1>7, AcksTransmit, Zenon
    <3> QED BY <2>2, <3>1, <3>4 DEF InStep
  <2>7. FollowingInv'
    BY <2>2, <2>5, <2>6, <1>1 DEF FollowingInv
  <2>8. WaitingInv'
    BY <1>1, Zenon DEF WaitingInv
  <2>9. StoredInPlace' /\ SessionInv'
    BY <1>8, Zenon DEF IInv, StoredInPlace, SessionInv
  <2>10. PortInv'
    <3>1. \A j \in DOMAIN toServer' :
             toServer'[j].op = "RRQ" => toServer'[j].src <= tftp_our_port
      BY <1>1, <1>6, <1>7, TransmitProperties, Zenon DEF IInv, PortInv
    <3>2. \A j \in DOMAIN toClient' : \E k \in DOMAIN toClient : toClient'[j] = toClient[k]
      <4>1. i \in DOMAIN toClient
        BY <1>2, Zenon
      <4> QED BY <4>1, <1>6, RemoveAtKeeps
    <3> QED BY <3>1, <3>2, <1>1, <1>8 DEF IInv, PortInv, LoopPorts
  <2> QED BY <2>7, <2>8, <2>9, <2>10, Zenon DEF IInv
<1> QED BY <1>9, <1>10, Zenon

\* The block the client takes next: block c + 1 of transfer t, when it has
\* stored those up to c; neither side has anything older in flight.
NextBlock(t, c) ==
    /\ session[t].blk = c + 1 /\ session[t].bs = tftp_block_size
    /\ session[t].peer = tftp_our_port
    /\ toClient[1] = Pkt(t, session[t], c + 1)
    /\ Carries(toClient, t, toClient[1], toClient[1])
    /\ Acks(toServer, t, c % TFTP_SEQUENCE_SIZE, c % TFTP_SEQUENCE_SIZE)
    /\ net_boot_file_size = StoredSize(tftp_block_size, c)
    /\ \A p \in 0 .. FileSize - 1 : p < c * tftp_block_size => mem[p] = p
    /\ net_state # "SUCCESS"
    /\ First => c = 0
    /\ ~First => /\ c > 0 /\ tftp_prev_block = c % TFTP_SEQUENCE_SIZE
                 /\ tftp_block_wrap_offset = (c - tftp_prev_block) * tftp_block_size
    /\ tftp_state # "SEND_RRQ" => t = tftp_remote_port

\* A DATA packet that is let through, and is not the block stored last, is the
\* next block.
LEMMA DataIsNextBlock ==
    ASSUME IInv, ~Reorder, NEW i \in Deliverable(toClient), Accepts(toClient[i]),
           toClient[i].op = "DATA", ~First => toClient[i].blk # tftp_prev_block
    PROVE  LET t == toClient[i].src IN
           /\ i = 1 /\ 1 \in DOMAIN toClient
           /\ t \in DOMAIN session /\ t \in Nat /\ session[t] \in Transfer
           /\ \E c \in Nat : NextBlock(t, c)
<1> DEFINE m == toClient[i]
           t == m.src
           S == TFTP_SEQUENCE_SIZE
<1>1. /\ i = 1 /\ 1 \in DOMAIN toClient
      /\ t \in DOMAIN session /\ t \in Nat /\ session[t] \in Transfer
      /\ session[t].peer = tftp_our_port
      /\ tftp_state = "SEND_RRQ" => Waiting(t) /\ m = Pkt(t, session[t], session[t].blk)
      /\ tftp_state # "SEND_RRQ" => t = tftp_remote_port
  BY HeadPacket, Zenon
<1>2. session[t].blk \in Nat /\ session[t].bs \in Nat
  BY <1>1, TftpAssumption, Zenon DEF Transfer, BlockSize
<1>3. m # Pkt(t, session[t], 0)
  <2>1. Pkt(t, session[t], 0).op = "OACK"
    BY <1>1, PktFields
  <2> QED BY <2>1, Zenon
<1> HIDE DEF m, t
<1>4. CASE tftp_state = "SEND_RRQ"
  <2>1. session[t].blk = 1 /\ session[t].oack = 0
    BY <1>1, <1>3, <1>4, Zenon DEF Waiting
  <2>2. session[t].bs = TFTP_BLOCK_SIZE /\ tftp_block_size = TFTP_BLOCK_SIZE
        /\ net_boot_file_size = 0 /\ net_state # "SUCCESS"
    BY <2>1, <1>1, <1>4, Zenon DEF IInv, SessionInv, WaitingInv
  <2>3. m = Pkt(t, session[t], 0 + 1) /\ Carries(toClient, t, m, m)
    BY <2>1, <1>1, <1>4 DEF Waiting
  <2>4. Acks(toServer, t, 0 % S, 0 % S)
    BY <1>1, <1>4, Zenon DEF Waiting, Acks
  <2>5. 0 * tftp_block_size = 0 /\ 0 <= FileSize
    BY <2>2, <1>2, TftpAssumption
  <2>6. StoredSize(tftp_block_size, 0) = 0
    BY <2>5, Zenon DEF StoredSize
  <2>7. \A p \in 0 .. FileSize - 1 : p < 0 * tftp_block_size => mem[p] = p
    BY <2>5
  <2>8. First
    BY <1>4, Zenon DEF First
  <2>9. session[t].blk = 0 + 1
    BY <2>1
  <2>10. m = toClient[1]
    BY <1>1, Zenon DEF m
  <2>11. NextBlock(t, 0)
    BY <2>2, <2>3, <2>4, <2>6, <2>7, <2>8, <2>9, <2>10, <1>1, <1>4, Zenon DEF NextBlock
  <2> QED BY <2>11, <1>1, Zenon DEF t, m
<1>5. CASE tftp_state # "SEND_RRQ"
  <2>1. PICK c \in {session[t].blk, session[t].blk - 1} :
            c >= 0 /\ HasStored(t, c) /\ InStep(t, c)
    BY <1>1, <1>5, Zenon DEF IInv, FollowingInv
  <2>2. c \in Nat
    BY <2>1, <1>2
  <2>3. tftp_state \in {"OACK", "DATA"}
    BY <1>5, Zenon DEF IInv, TypeInv, TypeOK
  <2>4. m # Pkt(t, session[t], c)
    <3>1. CASE c = 0
      BY <3>1, <1>3, Zenon
    <3>2. CASE c > 0
      <4>1. Pkt(t, session[t], c).blk = c % S
        BY <3>2, <2>2, <1>1, PktFields, SMTT(40)
      <4>2. ~First /\ tftp_prev_block = c % S
        BY <3>2, <2>1, <2>3 DEF HasStored, First
      <4> QED BY <4>1, <4>2, Zenon DEF m
    <3> QED BY <2>2, <3>1, <3>2
  <2>5. session[t].blk = c + 1 /\ m = Pkt(t, session[t], c + 1) /\ Carries(toClient, t, m, m)
    <3>1. From(toClient[1], t)
      BY <1>1, Zenon DEF m, t, From
    <3> QED BY <2>1, <2>2, <2>4, <3>1, <1>1, HeadInStep, Zenon DEF m
  <2>6. Acks(toServer, t, c % S, c % S)
    BY <2>1, <2>2, <2>5, SMTT(40) DEF InStep
  <2>7. net_state # "SUCCESS"
    BY <2>1, <2>2, <2>5 DEF HasStored
  <2>8. First => c = 0
    BY <2>1, <2>3, <1>5, Zenon DEF HasStored, First
  <2>9. ~First => /\ c > 0 /\ tftp_prev_block = c % S
                  /\ tftp_block_wrap_offset = (c - tftp_prev_block) * tftp_block_size
    BY <2>1, <2>3, Zenon DEF HasStored, First
  <2>10. m = toClient[1]
    BY <1>1, Zenon DEF m
  <2>11. /\ session[t].bs = tftp_block_size
         /\ net_boot_file_size = StoredSize(tftp_block_size, c)
         /\ \A p \in 0 .. FileSize - 1 : p < c * tftp_block_size => mem[p] = p
    BY <2>1, Zenon DEF HasStored
  <2>12. NextBlock(t, c)
    BY <2>5, <2>6, <2>7, <2>8, <2>9, <2>10, <2>11, <1>1, Zenon DEF NextBlock
  <2> QED BY <2>2, <2>12, <1>1, Zenon DEF t, m
<1> QED BY <1>4, <1>5, Zenon

\* The first block is block 1, so RecvBadFirst never happens.
LEMMA FirstIsOne ==
    ASSUME IInv, ~Reorder, NEW i \in Deliverable(toClient), Accepts(toClient[i]),
           toClient[i].op = "DATA", First
    PROVE  toClient[i].blk = 1
<1>1. PICK t \in DOMAIN session :
          i = 1 /\ t \in Nat /\ session[t] \in Transfer /\ \E c \in Nat : NextBlock(t, c)
  BY DataIsNextBlock, Zenon
<1>2. toClient[1] = Pkt(t, session[t], 0 + 1)
  BY <1>1, ZenonT(40) DEF NextBlock
<1>3. Pkt(t, session[t], 0 + 1).blk = (0 + 1) % TFTP_SEQUENCE_SIZE
  BY <1>1, PktFields
<1>4. (0 + 1) % TFTP_SEQUENCE_SIZE = 1
  BY TftpAssumption
<1> QED BY <1>1, <1>2, <1>3, <1>4, Zenon

\* The wrap offset follows the block number: the blocks of all earlier rounds.
LEMMA WrapOffset ==
    ASSUME IInv, NEW t, NEW c \in Nat, NextBlock(t, c), NEW m, NoteBlock(m),
           m.blk = (c + 1) % TFTP_SEQUENCE_SIZE
    PROVE  tftp_block_wrap_offset' = (c + 1 - m.blk) * tftp_block_size
<1> DEFINE S == TFTP_SEQUENCE_SIZE
           b == tftp_block_size
<1>1. S \in Nat /\ S >= 2 /\ b \in Nat
  BY TftpAssumption, Zenon DEF IInv, TypeInv, TypeOK, BlockSize
<1>2. c % S \in 0 .. S - 1 /\ (c + 1) % S = IF c % S = S - 1 THEN 0 ELSE (c % S) + 1
  BY <1>1, DivMod, NextMod, Zenon
<1>3. tftp_block_wrap_offset' =
          IF First THEN 0
          ELSE IF Wrapped(m.blk) THEN tftp_block_wrap_offset + b * S
          ELSE tftp_block_wrap_offset
  BY Zenon DEF NoteBlock
<1>4. CASE First
  <2>1. c = 0 /\ 0 % S = 0
    BY <1>1, <1>4 DEF NextBlock
  <2>2. m.blk = 1
    BY <1>1, <1>2, <2>1
  <2> QED BY <1>1, <1>3, <1>4, <2>1, <2>2
<1>5. CASE ~First
  <2>1. tftp_prev_block = c % S /\ tftp_block_wrap_offset = (c - (c % S)) * b
    BY <1>5, Zenon DEF NextBlock
  <2>2. CASE c % S = S - 1
    <3>1. m.blk = 0 /\ Wrapped(m.blk)
      BY <1>1, <1>2, <2>1, <2>2 DEF Wrapped
    <3>2. tftp_block_wrap_offset' = (c - (S - 1)) * b + b * S
      BY <1>3, <1>5, <2>1, <2>2, <3>1, Zenon
    <3>3. (c - (S - 1)) * b + b * S = (c + 1 - 0) * b
      BY <1>1
    <3> QED BY <3>1, <3>2, <3>3, Zenon
  <2>3. CASE c % S # S - 1
    <3>1. m.blk = (c % S) + 1 /\ m.blk # 0
      BY <1>1, <1>2, <2>3
    <3>2. ~Wrapped(m.blk)
      BY <3>1, Zenon DEF Wrapped
    <3>3. tftp_block_wrap_offset' = (c - (c % S)) * b
      BY <1>3, <1>5, <2>1, <3>2, Zenon
    <3>4. c - (c % S) = c + 1 - m.blk
      BY <1>2, <3>1
    <3> QED BY <3>3, <3>4, Zenon
  <2> QED BY <2>2, <2>3, Zenon
<1> QED BY <1>4, <1>5, Zenon

\* A part of the file is stored at its place.
PutsPart == \E lo, hi \in 0 .. FileSize : lo <= hi /\ Image!Put(lo, hi)

\* Storing block c + 1 at its place extends the image by that block.
LEMMA StoreNext ==
    ASSUME TypeOK, StoredInPlace, NEW c \in Nat, c * tftp_block_size <= FileSize,
           net_boot_file_size = StoredSize(tftp_block_size, c),
           \A p \in 0 .. FileSize - 1 : p < c * tftp_block_size => mem[p] = p,
           NEW m, m.from = c * tftp_block_size, m.len = BlockLen(tftp_block_size, c + 1),
           NEW block, NEW wrap, block * tftp_block_size + wrap = c * tftp_block_size,
           store_block(block, wrap, m)
    PROVE  /\ StoredInPlace'
           /\ net_boot_file_size' = StoredSize(tftp_block_size, c + 1)
           /\ \A p \in 0 .. FileSize - 1 : p < (c + 1) * tftp_block_size => mem'[p] = p
           /\ m.len < tftp_block_size => (c + 1) * tftp_block_size > FileSize
           /\ PutsPart
<1> DEFINE b == tftp_block_size
           e == StoredSize(b, c + 1)
           o == c * b
<1>1. b \in Nat /\ b > 0 /\ FileSize \in Nat /\ o \in Nat /\ (c + 1) * b = o + b
  BY TftpAssumption DEF TypeOK, BlockSize
<1>2. o + m.len = e /\ e \in Nat /\ o <= e /\ e <= FileSize
      /\ (m.len < b => (c + 1) * b > FileSize)
      /\ (\A p \in 0 .. FileSize - 1 : p < (c + 1) * b => p < e)
  <2> HIDE DEF o, b
  <2>1. m.len = BlockLen(b, c + 1) /\ o <= FileSize
    BY Zenon DEF o, b
  <2>2. BlockLen(b, c + 1) = IF o + b <= FileSize THEN b ELSE FileSize - o
    BY <1>1 DEF BlockLen, o
  <2>3. e = IF o + b <= FileSize THEN o + b ELSE FileSize
    BY <1>1, Zenon DEF StoredSize
  <2> QED BY <1>1, <2>1, <2>2, <2>3
<1> DEFINE x == block * b + wrap
           y == x + m.len
<1>3. /\ mem' = [p \in DOMAIN mem |-> IF p \in x .. y - 1 THEN m.from + p - x ELSE mem[p]]
      /\ net_boot_file_size' = IF net_boot_file_size < y THEN y ELSE net_boot_file_size
  BY Zenon DEF store_block
<1>4. net_boot_file_size = o
  BY Zenon DEF StoredSize
<1>5. Memory \subseteq Int /\ 0 .. FileSize - 1 \subseteq Memory /\ DOMAIN mem = Memory
  <2>1. Margin \in Nat
    BY TftpAssumption DEF Margin
  <2> QED BY <2>1, <1>1 DEF Memory, TypeOK
<1> HIDE DEF x
<1>6. x = o /\ m.from = o /\ y = e
  BY <1>2, Zenon DEF x
<1> HIDE DEF y, e, o, b
<1>7. \A p \in Memory : mem'[p] = IF p \in o .. e - 1 THEN p ELSE mem[p]
  <2> TAKE p \in Memory
  <2>1. p \in Int /\ o + p - o = p
    BY <1>1, <1>5
  <2>2. mem'[p] = IF p \in x .. y - 1 THEN m.from + p - x ELSE mem[p]
    BY <1>3, <1>5, Zenon
  <2> QED BY <2>1, <2>2, <1>6, Zenon
<1>8. StoredInPlace'
  <2>1. \A p \in Memory : mem'[p] \in {-1, p}
    BY <1>7, Zenon DEF StoredInPlace
  <2> QED BY <2>1, Zenon DEF StoredInPlace
<1>9. net_boot_file_size' = e
  BY <1>1, <1>2, <1>3, <1>4, <1>6
<1>10. \A p \in 0 .. FileSize - 1 : p < (c + 1) * b => mem'[p] = p
  <2> SUFFICES ASSUME NEW p \in 0 .. FileSize - 1, p < (c + 1) * b PROVE mem'[p] = p
    OBVIOUS
  <2>1. p \in Memory /\ p < e
    BY <1>2, <1>5, Zenon
  <2>2. CASE p < o
    <3>1. mem[p] = p
      BY <2>2, Zenon DEF o, b
    <3> QED BY <3>1, <2>1, <1>7, Zenon
  <2>3. CASE o <= p
    BY <2>1, <2>3, <1>1, <1>2, <1>7
  <2> QED BY <2>2, <2>3, <1>1
<1>11. PutsPart
  <2>1. o \in 0 .. FileSize /\ e \in 0 .. FileSize
    BY <1>1, <1>2
  <2>2. mem' = [p \in Memory |-> IF p \in o .. e - 1 THEN p ELSE mem[p]]
    BY <1>3, <1>5, <1>7, Zenon
  <2>3. Image!Put(o, e)
    BY <2>2, <1>3, <1>6, Zenon DEF Image!Put
  <2> QED BY <2>1, <2>3, <1>2, Zenon DEF PutsPart
<1> QED BY <1>2, <1>8, <1>9, <1>10, <1>11, Zenon DEF e, b

\* Where update_block_number's offset puts block c + 1 of block number k.
LEMMA OffsetOfNext ==
    ASSUME NEW c \in Nat, NEW b \in Nat, NEW k \in Nat
    PROVE  (k - 1) * b + (c + 1 - k) * b = c * b
  OBVIOUS

\* A DATA packet, repeated or new, keeps the invariant.
LEMMA RecvBlockStep ==
    ASSUME IInv, TypeInv', ~Reorder, NEW i \in Deliverable(toClient),
           toClient' = RemoveAt(toClient, i), UNCHANGED session, RecvBlock(toClient[i])
    PROVE  IInv' /\ PutsPart /\ net_state # "SUCCESS"
<1> DEFINE S == TFTP_SEQUENCE_SIZE
           b == tftp_block_size
<1>1. PICK m : m = toClient[i]
  OBVIOUS
<1>2. PICK t : t = m.src
  OBVIOUS
<1> DEFINE p == Outgoing("DATA", m.blk, t, tftp_our_port)
<1>3. /\ Accepts(m) /\ m.op = "DATA" /\ (~First => m.blk # tftp_prev_block)
      /\ NoteBlock(m) /\ tftp_prev_block' = m.blk
      /\ store_block(m.blk - 1, tftp_block_wrap_offset', m)
      /\ Transmit(Outgoing("DATA", m.blk, tftp_remote_port', tftp_our_port))
      /\ net_state' = IF m.len < b THEN "SUCCESS" ELSE net_state
      /\ time_handler' = "tftp"
      /\ UNCHANGED <<net_try_count, udp_handler, eth_state, phase, ret>>
  BY <1>1, Zenon DEF RecvBlock
<1>4. PICK c \in Nat :
         /\ i = 1 /\ 1 \in DOMAIN toClient
         /\ t \in DOMAIN session /\ t \in Nat /\ session[t] \in Transfer
         /\ NextBlock(t, c)
  BY <1>1, <1>2, <1>3, DataIsNextBlock, Zenon
<1>5. /\ session[t].blk = c + 1 /\ session[t].bs = b /\ session[t].peer = tftp_our_port
      /\ m = Pkt(t, session[t], c + 1) /\ Carries(toClient, t, m, m)
      /\ Acks(toServer, t, c % S, c % S)
      /\ net_boot_file_size = StoredSize(b, c)
      /\ \A q \in 0 .. FileSize - 1 : q < c * b => mem[q] = q
      /\ net_state # "SUCCESS"
      /\ tftp_state # "SEND_RRQ" => t = tftp_remote_port
  BY <1>1, <1>4, ZenonT(40) DEF NextBlock
<1>6. m.blk = (c + 1) % S /\ m.from = (c + 1 - 1) * b /\ m.len = BlockLen(b, c + 1)
  BY <1>4, <1>5, PktFields, SMTT(40)
<1>7. b \in Nat /\ S \in Nat /\ S >= 2 /\ c + 1 \in Nat /\ c + 1 - 1 = c /\ c + 1 > 0
  BY TftpAssumption, SMTT(40) DEF IInv, TypeInv, TypeOK, BlockSize
<1>8. m.blk \in Nat /\ m.blk \in BlockNumber
  BY <1>6, <1>7, DivMod DEF BlockNumber
<1>9. /\ tftp_cur_block' = m.blk /\ tftp_state' = "DATA" /\ tftp_remote_port' = t
      /\ UNCHANGED <<tftp_block_size, tftp_our_port>>
  <2>1. tftp_remote_port' = IF First THEN m.src ELSE tftp_remote_port
    BY <1>3, Zenon DEF NoteBlock
  <2>2. ~First => tftp_state # "SEND_RRQ"
    BY Zenon DEF First
  <2>3. tftp_remote_port' = t
    BY <2>1, <2>2, <1>2, <1>5, Zenon
  <2> QED BY <2>3, <1>3, Zenon DEF NoteBlock
<1>10. tftp_block_wrap_offset' = (c + 1 - m.blk) * b
  BY <1>3, <1>4, <1>6, WrapOffset, Zenon
<1>11. (m.blk - 1) * b + tftp_block_wrap_offset' = c * b
  <2>1. (m.blk - 1) * b + (c + 1 - m.blk) * b = c * b
    BY <1>7, <1>8, OffsetOfNext, ZenonT(40)
  <2> QED BY <2>1, <1>10, Zenon
<1>12. c * b <= FileSize
  BY <1>4, <1>5, <1>7 DEF IInv, SessionInv
<1>13. /\ StoredInPlace' /\ net_boot_file_size' = StoredSize(b, c + 1)
       /\ \A q \in 0 .. FileSize - 1 : q < (c + 1) * b => mem'[q] = q
       /\ m.len < b => (c + 1) * b > FileSize
       /\ PutsPart
  <2>1. TypeOK /\ StoredInPlace
    BY Zenon DEF IInv, TypeInv
  <2>2. m.from = c * b
    BY <1>6, <1>7, Zenon
  <2> QED BY <2>1, <2>2, <1>3, <1>5, <1>6, <1>11, <1>12, StoreNext, ZenonT(40)
<1>14. toServer \in Seq(Request) /\ toClient \in Seq(Reply) /\ tftp_our_port \in Nat
  BY Zenon DEF IInv, TypeInv, TypeOK
<1>15. p \in Request /\ (p.op = "ACK" => p.dst = t /\ p.blk = m.blk) /\ p.op # "RRQ"
  <2>1. p \in Request /\ (p.op = "ACK" => p.dst = t /\ p.blk = m.blk)
    BY <1>4, <1>8, <1>14, OutgoingType
  <2>2. p.op # "RRQ"
    BY Zenon DEF Outgoing
  <2> QED BY <2>1, <2>2, Zenon
<1>16. Transmit(p)
  BY <1>3, <1>9, Zenon
<1> HIDE DEF p
<1>17. Acks(toServer', t, c % S, (c + 1) % S)
  <2>1. (c + 1) % S # c % S
    BY <1>7, NextModDiffers, Zenon
  <2>2. Acks(toServer, t, c % S, (c + 1) % S)
    BY <2>1, <1>5, AcksAdvance, Zenon
  <2>3. IsAck(p, t) => p.blk = (c + 1) % S
    BY <1>6, <1>15, Zenon DEF IsAck
  <2> QED BY <2>2, <2>3, <1>14, <1>15, <1>16, AcksTransmit, Zenon
<1>18. InStep(t, c + 1)'
  <2>1. Carries(toClient', t, m, m)
    BY <1>4, <1>5, <1>14, CarriesRemove, Zenon
  <2>2. session'[t].blk = c + 1 /\ m = Pkt(t, session'[t], c + 1)
    BY <1>5, Zenon
  <2>3. (IF session'[t].blk = c + 1 /\ c + 1 > 0 THEN c + 1 - 1 ELSE c + 1) = c
    BY <2>2, <1>7, Zenon
  <2> QED BY <2>1, <2>2, <2>3, <1>17 DEF InStep
<1>19. HasStored(t, c + 1)'
  <2>1. net_state' = "SUCCESS" => session'[t].blk = c + 1 /\ (c + 1) * b > FileSize
    BY <1>3, <1>5, <1>13, Zenon
  <2>2. session'[t].peer = tftp_our_port' /\ session'[t].bs = tftp_block_size'
    BY <1>5, <1>9, Zenon
  <2>3. tftp_cur_block' = (c + 1) % S /\ tftp_prev_block' = tftp_cur_block'
    BY <1>3, <1>6, <1>9, Zenon
  <2>4. tftp_block_wrap_offset' = (c + 1 - tftp_cur_block') * tftp_block_size' /\ tftp_block_size' = b
    BY <1>9, <1>10, Zenon
  <2>5. net_boot_file_size' = StoredSize(tftp_block_size', c + 1)
    BY <1>13, <2>4, Zenon
  <2>6. /\ \A q \in 0 .. FileSize - 1 : q < (c + 1) * tftp_block_size' => mem'[q] = q
        /\ net_state' = "SUCCESS" => session'[t].blk = c + 1 /\ (c + 1) * tftp_block_size' > FileSize
    BY <1>13, <2>1, <2>4, Zenon
  <2> QED BY <2>2, <2>3, <2>4, <2>5, <2>6, <1>7, <1>9, SMTT(40) DEF HasStored
<1>20. FollowingInv'
  <2>1. c + 1 \in {session'[t].blk, session'[t].blk - 1} /\ c + 1 >= 0
    BY <1>5, <1>7
  <2> QED BY <2>1, <1>9, <1>18, <1>19, ZenonT(40) DEF FollowingInv
<1>21. WaitingInv' /\ SessionInv'
  BY <1>9, Zenon DEF IInv, WaitingInv, SessionInv
<1>22. PortInv'
  <2>1. \A j \in DOMAIN toServer' :
           toServer'[j].op = "RRQ" => toServer'[j].src <= tftp_our_port
    BY <1>14, <1>15, <1>16, TransmitProperties, Zenon DEF IInv, PortInv
  <2>2. \A j \in DOMAIN toClient' :
           Shift(i, j) \in DOMAIN toClient /\ toClient'[j] = toClient[Shift(i, j)]
    BY <1>4, <1>14, RemoveAtShift
  <2> QED BY <2>1, <2>2, <1>3, <1>9, ZenonT(40) DEF IInv, PortInv
<1> QED BY <1>5, <1>13, <1>20, <1>21, <1>22, Zenon DEF IInv

\* Every packet received keeps the invariant.
LEMMA ClientReceiveStep ==
    ASSUME IInv, TypeInv', ClientReceive, ~Reorder
    PROVE  IInv'
<1>1. PICK i \in Deliverable(toClient) :
          /\ toClient' = RemoveAt(toClient, i)
          /\ \/ Ignore(toClient[i]) \/ RecvOack(toClient[i]) \/ RecvBadFirst(toClient[i])
             \/ RecvSame(toClient[i]) \/ RecvBlock(toClient[i]) \/ RecvError(toClient[i])
  BY Zenon DEF ClientReceive
<1>2. UNCHANGED session /\ i \in DOMAIN toClient
  BY Zenon DEF ClientReceive, Deliverable
<1>3. ~RecvBadFirst(toClient[i])
  BY FirstIsOne, Zenon DEF RecvBadFirst
<1> QED
  BY <1>1, <1>2, <1>3, IgnoreStep, RecvOackStep, RecvSameStep, RecvBlockStep, RecvErrorStep, Zenon

\* A restart draws a port nobody on the network knows yet.
LEMMA StartAgainStep ==
    ASSUME IInv, TypeInv', StartAgainTimeout, ~PortReuse
    PROVE  IInv'
<1> DEFINE p == Outgoing("SEND_RRQ", 0, WELL_KNOWN_PORT, tftp_our_port')
<1>1. /\ net_state' = "CONTINUE" /\ net_boot_file_size' = 0
      /\ tftp_state' = "SEND_RRQ" /\ tftp_cur_block' = 0
      /\ tftp_block_size' = TFTP_BLOCK_SIZE /\ tftp_our_port' = net_try_count
      /\ time_handler' = "tftp" /\ Transmit(p)
      /\ UNCHANGED <<net_try_count, mem, toClient, session>>
  BY Zenon DEF StartAgainTimeout, tftp_start
<1>2. tftp_our_port < net_try_count /\ tftp_our_port \in Nat /\ net_try_count \in Nat
      /\ toServer \in Seq(Request) /\ session \in Seq(Transfer)
  BY Zenon DEF StartAgainTimeout, IInv, PortInv, TypeInv, TypeOK
<1>3. p \in Request /\ (p.op = "RRQ" => p.src = net_try_count)
  <2>1. 0 \in BlockNumber /\ WELL_KNOWN_PORT \in Nat
    BY TftpAssumption DEF BlockNumber, WELL_KNOWN_PORT
  <2> QED BY <2>1, <1>1, <1>2, OutgoingType
<1> HIDE DEF p
<1>4. \A t \in DOMAIN session : session[t].peer < net_try_count
  <2> TAKE t \in DOMAIN session
  <2>1. session[t] \in Transfer
    BY <1>2
  <2>2. session[t].peer \in Nat
    BY <2>1, Zenon DEF Transfer
  <2> QED BY <2>2, <1>2 DEF IInv, PortInv
<1>5. \A j \in DOMAIN toServer' : toServer'[j].op = "RRQ" => toServer'[j].src <= net_try_count
  <2>1. \A j \in DOMAIN toServer : toServer[j].op = "RRQ" => toServer[j].src <= net_try_count
    <3> SUFFICES ASSUME NEW j \in DOMAIN toServer, toServer[j].op = "RRQ"
                 PROVE  toServer[j].src <= net_try_count
      OBVIOUS
    <3>1. toServer[j].src \in Nat
      BY <1>2, SMTT(40) DEF Request
    <3> QED BY <3>1, <1>2 DEF IInv, PortInv
  <2> QED BY <2>1, <1>1, <1>2, <1>3, TransmitProperties, SMTT(40)
<1>6. PortInv'
  <2>1. \A t \in DOMAIN session : session[t].peer <= net_try_count
    <3> TAKE t \in DOMAIN session
    <3>1. session[t] \in Transfer
      BY <1>2
    <3>2. session[t].peer \in Nat
      BY <3>1, Zenon DEF Transfer
    <3> QED BY <3>2, <1>2, <1>4
  <2> QED BY <2>1, <1>1, <1>2, <1>5 DEF IInv, PortInv
<1>7. WaitingInv'
  <2>1. \A t \in DOMAIN session : session[t].peer # net_try_count
    BY <1>2, <1>4
  <2> QED BY <2>1, <1>1, Zenon DEF WaitingInv
<1>8. StoredInPlace' /\ SessionInv' /\ FollowingInv'
  BY <1>1, Zenon DEF IInv, StoredInPlace, SessionInv, FollowingInv
<1> QED BY <1>6, <1>7, <1>8, Zenon DEF IInv

\* The invariant holds when the first RRQ is out.
LEMMA InitIInv == Init => IInv
<1> SUFFICES ASSUME Init PROVE IInv
  OBVIOUS
<1>1. TypeInv
  BY InitTypeInv, Zenon
<1>2. toClient = <<>> /\ session = <<>> /\ DOMAIN session = {} /\ DOMAIN toClient = {}
      /\ Len(session) = 0
  BY DEF Init
<1>3. \A i \in DOMAIN toServer : toServer[i].src = 1
  BY DEF Init, Outgoing
<1>4. PortInv
  BY <1>2, <1>3, TftpAssumption DEF Init, PortInv
<1>5. StoredInPlace
  BY Zenon DEF Init, StoredInPlace
<1>6. SessionInv /\ WaitingInv /\ FollowingInv
  BY <1>2, Zenon DEF Init, SessionInv, WaitingInv, FollowingInv
<1> QED BY <1>1, <1>4, <1>5, <1>6, Zenon DEF IInv

\* Every step keeps the invariant.
LEMMA NextIInv ==
    ASSUME ~Reorder, ~PortReuse
    PROVE  IInv /\ [Next]_vars => IInv'
<1> SUFFICES ASSUME IInv, [Next]_vars PROVE IInv'
  OBVIOUS
<1>1. TypeInv'
  BY NextTypeInv, Zenon DEF IInv
<1>2. CASE Client
  BY <1>1, <1>2, ClientReceiveStep, TftpTimeoutStep, StartAgainStep, ReturnStep, Zenon DEF Client
<1>3. CASE ServerReceive \/ ServerRetransmit \/ ServerError \/ Lose
  BY <1>1, <1>3, ServerReceiveStep, ServerRetransmitStep, ServerErrorStep, LoseStep, Zenon
<1>4. CASE UNCHANGED vars
  <2>1. UNCHANGED <<session, progress>> /\ net_state' = net_state
    BY <1>4, Zenon DEF vars, progress, tftpVars, loopVars, imageVars
  <2>2. LoopPorts'
    BY <1>4, Zenon DEF IInv, PortInv, LoopPorts, vars, tftpVars, loopVars
  <2>3. QuietToClient /\ QuietToServer
    BY <1>4, Zenon DEF vars, QuietToClient, QuietToServer
  <2> QED BY <1>1, <2>1, <2>2, <2>3, QuietStep, Zenon
<1> QED BY <1>2, <1>3, <1>4, Zenon DEF Next

-----------------------------------------------------------------------------
(* What the invariant gives.                                               *)

\* At SUCCESS the blocks stored are all of the file.
LEMMA IInvComplete == IInv => CompleteImage
<1> SUFFICES ASSUME IInv, net_state = "SUCCESS"
             PROVE  net_boot_file_size = FileSize /\ \A p \in 0 .. FileSize - 1 : mem[p] = p
  BY Zenon DEF CompleteImage
<1> DEFINE t == tftp_remote_port
<1>1. tftp_state # "SEND_RRQ"
  BY Zenon DEF IInv, WaitingInv
<1>2. PICK c \in {session[t].blk, session[t].blk - 1} : c >= 0 /\ HasStored(t, c)
  BY <1>1, Zenon DEF IInv, FollowingInv
<1>3. t \in DOMAIN session /\ session[t] \in Transfer
  BY <1>1 DEF IInv, TypeInv, TypeOK, AddressInv
<1>4. c \in Nat /\ tftp_block_size \in Nat
  BY <1>2, <1>3, TftpAssumption, SMTT(40) DEF Transfer, IInv, TypeInv, TypeOK, BlockSize
<1> HIDE DEF t
<1>5. c * tftp_block_size > FileSize /\ c * tftp_block_size \in Nat
  BY <1>2, <1>4 DEF HasStored
<1>6. StoredSize(tftp_block_size, c) = FileSize
  BY <1>5, TftpAssumption DEF StoredSize
<1> QED BY <1>2, <1>5, <1>6, TftpAssumption DEF HasStored

\* The server is at the block stored last or the next one.
LEMMA IInvAcked == IInv => AckedIsStored
<1> SUFFICES ASSUME IInv, NEW t \in DOMAIN session, tftp_state # "SEND_RRQ",
                    tftp_remote_port = t,
                    NEW p \in 0 .. (session[t].blk - 1) * session[t].bs - 1
             PROVE  mem[p] = p
  BY Zenon DEF AckedIsStored
<1>1. PICK c \in {session[t].blk, session[t].blk - 1} : c >= 0 /\ HasStored(t, c)
  BY Zenon DEF IInv, FollowingInv
<1>2. session[t] \in Transfer
  BY DEF IInv, TypeInv, TypeOK
<1>3. c \in Nat /\ session[t].blk \in Nat /\ session[t].bs \in Nat /\ session[t].bs > 0
  BY <1>1, <1>2, TftpAssumption DEF Transfer, BlockSize
<1> DEFINE k == session[t].blk
           b == session[t].bs
<1>4. k > 0 /\ (k - 1) * b \in Nat
  <2>1. CASE k = 0
    BY <1>3, <2>1
  <2>2. CASE k > 0
    BY <1>3, <2>2
  <2> QED BY <1>3, <2>1, <2>2, SMTT(40)
<1>5. (k - 1) * b <= FileSize
  BY <1>4, Zenon DEF IInv, SessionInv
<1>6. (k - 1) * b <= c * b
  <2>1. c = k \/ c = k - 1
    BY <1>1, Zenon
  <2>2. k * b = (k - 1) * b + b
    BY <1>3
  <2> QED BY <1>3, <1>4, <2>1, <2>2
<1>7. p \in 0 .. FileSize - 1 /\ p < c * b
  <2> HIDE DEF k, b
  <2>1. p \in 0 .. (k - 1) * b - 1
    BY Zenon DEF k, b
  <2>2. c * b \in Nat
    BY <1>3 DEF b
  <2> QED BY <2>1, <2>2, <1>4, <1>5, <1>6, TftpAssumption
<1> QED BY <1>1, <1>7, Zenon DEF HasStored

\* On an in-order network, with a fresh port per attempt, whatever is lost or
\* repeated and over any number of wraps of the block number, store_block() puts
\* every unit at its place, and SUCCESS means the whole file and its exact size.
THEOREM ImageIntegrity ==
    ASSUME ~Reorder, ~PortReuse
    PROVE  Spec => [](StoredInPlace /\ CompleteImage)
<1>1. Init => IInv
  BY InitIInv, Zenon
<1>2. IInv /\ [Next]_vars => IInv'
  BY NextIInv, Zenon
<1>3. IInv => StoredInPlace /\ CompleteImage
  BY IInvComplete, Zenon DEF IInv
<1> QED BY <1>1, <1>2, <1>3, PTL DEF Spec

\* Under the same conditions the server is never ahead of the stored image by
\* more than the block in flight: tftp_handler() acknowledges what it stored.
THEOREM AcknowledgedIsStored ==
    ASSUME ~Reorder, ~PortReuse
    PROVE  Spec => []AckedIsStored
<1>1. Init => IInv
  BY InitIInv, Zenon
<1>2. IInv /\ [Next]_vars => IInv'
  BY NextIInv, Zenon
<1>3. IInv => AckedIsStored
  BY IInvAcked, Zenon
<1> QED BY <1>1, <1>2, <1>3, PTL DEF Spec

\* Under the same conditions the assertion of tftp_handler() holds: the first
\* DATA packet of a transfer is block 1.
THEOREM AssertionHolds ==
    ASSUME ~Reorder, ~PortReuse
    PROVE  Spec => []FirstBlockIsOne
<1>1. Init => IInv
  BY InitIInv, Zenon
<1>2. IInv /\ [Next]_vars => IInv'
  BY NextIInv, Zenon
<1>3. IInv => FirstBlockIsOne
  BY FirstIsOne, Zenon DEF FirstBlockIsOne
<1> QED BY <1>1, <1>2, <1>3, PTL DEF Spec

-----------------------------------------------------------------------------
(* The refinement of FileTransfer.                                         *)

transferVars == <<mem, net_boot_file_size, transferStatus>>

\* Where the image stays as it is, the transfer goes on or fails.
LEMMA FailsOrStays ==
    ASSUME TypeOK, net_state' \in {net_state, "FAIL"}, UNCHANGED imageVars
    PROVE  [Image!Next]_transferVars
<1>1. UNCHANGED <<mem, net_boot_file_size>>
  BY Zenon DEF imageVars
<1>2. CASE net_state' = net_state
  BY <1>1, <1>2, Zenon DEF transferVars, transferStatus
<1>3. CASE net_state # "FAIL" /\ net_state' = "FAIL"
  <2>1. transferStatus # "failed" /\ transferStatus' = "failed"
    BY <1>3 DEF transferStatus
  <2> QED BY <1>1, <2>1, Zenon DEF Image!Next, Image!Fail
<1> QED BY <1>2, <1>3, Zenon

\* A packet stores a part of the file, ends the transfer, or changes nothing.
LEMMA ReceiveImplements ==
    ASSUME IInv, IInv', ClientReceive, ~Reorder
    PROVE  [Image!Next]_transferVars
<1>1. PICK i \in Deliverable(toClient) :
          /\ toClient' = RemoveAt(toClient, i)
          /\ \/ Ignore(toClient[i]) \/ RecvOack(toClient[i]) \/ RecvBadFirst(toClient[i])
             \/ RecvSame(toClient[i]) \/ RecvBlock(toClient[i]) \/ RecvError(toClient[i])
  BY Zenon DEF ClientReceive
<1>2. UNCHANGED session /\ i \in DOMAIN toClient /\ TypeOK /\ TypeInv'
  BY Zenon DEF ClientReceive, Deliverable, IInv, TypeInv
<1>3. ~RecvBadFirst(toClient[i])
  BY FirstIsOne, Zenon DEF RecvBadFirst
<1>4. CASE Ignore(toClient[i]) \/ RecvOack(toClient[i]) \/ RecvSame(toClient[i])
  <2>1. UNCHANGED <<loopVars, imageVars>>
    BY <1>4, Zenon DEF Ignore, RecvOack, RecvSame
  <2> QED BY <2>1, Zenon DEF loopVars, imageVars, transferVars, transferStatus
<1>5. CASE RecvError(toClient[i])
  BY <1>1, <1>2, <1>5, RecvErrorStep, FailsOrStays, Zenon
<1>6. CASE RecvBlock(toClient[i])
  <2>1. PutsPart /\ net_state # "SUCCESS"
    BY <1>1, <1>2, <1>6, RecvBlockStep, Zenon
  <2>2. net_state' \in {"SUCCESS", net_state}
    BY <1>6, Zenon DEF RecvBlock
  <2>3. transferStatus # "loaded"
    BY <2>1 DEF transferStatus
  <2>4. CASE net_state' = net_state
    <3>1. transferStatus' = transferStatus
      BY <2>4, Zenon DEF transferStatus
    <3> QED BY <2>1, <2>3, <3>1, Zenon DEF PutsPart, Image!Next, Image!Store
  <2>5. CASE net_state' = "SUCCESS"
    <3>1. transferStatus' = "loaded"
      BY <2>5, Zenon DEF transferStatus
    <3>2. CompleteImage'
      BY IInvComplete, PTL
    <3>3. net_boot_file_size' = FileSize /\ \A p \in 0 .. FileSize - 1 : mem'[p] = p
      BY <2>5, <3>2, Zenon DEF CompleteImage
    <3> QED BY <2>1, <2>3, <3>1, <3>3, Zenon DEF PutsPart, Image!Next, Image!Store
  <2> QED BY <2>2, <2>4, <2>5, Zenon
<1> QED BY <1>1, <1>3, <1>4, <1>5, <1>6, Zenon

\* Every step is one of FileTransfer, or none.
LEMMA NextImplements ==
    ASSUME ~Reorder, IInv, IInv', [Next]_vars
    PROVE  [Image!Next]_transferVars
<1>1. TypeOK
  BY Zenon DEF IInv, TypeInv
<1>2. CASE ClientReceive
  BY <1>2, ReceiveImplements, Zenon
<1>3. CASE TftpTimeout
  <2>1. UNCHANGED imageVars
    BY <1>3, Zenon DEF TftpTimeout
  <2>2. net_state' \in {net_state, "FAIL"}
    BY <1>3, Zenon DEF TftpTimeout, net_start_again
  <2> QED BY <1>1, <2>1, <2>2, FailsOrStays, Zenon
<1>4. CASE StartAgainTimeout
  <2>1. net_state \notin {"SUCCESS", "FAIL"}
    BY <1>4 DEF StartAgainTimeout
  <2>2. net_state' = "CONTINUE" /\ net_boot_file_size' = 0 /\ mem' = mem
    BY <1>4, Zenon DEF StartAgainTimeout, tftp_start
  <2>3. transferStatus = "loading" /\ transferStatus' = "loading"
    BY <2>1, <2>2 DEF transferStatus
  <2> QED BY <2>2, <2>3, Zenon DEF Image!Next, Image!StartOver
<1>5. CASE NetLoopReturn \/ CtrlC \/ ServerReceive \/ ServerRetransmit \/ ServerError \/ Lose
           \/ UNCHANGED vars
  <2>1. UNCHANGED <<net_state, imageVars>>
    BY <1>5, Zenon DEF NetLoopReturn, CtrlC, ServerReceive, ServerRetransmit, ServerError, Lose, vars,
                       loopVars
  <2> QED BY <2>1, Zenon DEF imageVars, transferVars, transferStatus
<1> QED BY <1>2, <1>3, <1>4, <1>5, Zenon DEF Next, Client

\* On an in-order network, with a fresh port per attempt, the download of tftp.c
\* is a FileTransfer: every step stores a part of the file at its place, starts
\* over, fails, or is not seen; "loaded" means the whole file, which then stays.
THEOREM DownloadIsATransfer ==
    ASSUME ~Reorder, ~PortReuse
    PROVE  Spec => ImplementsFileTransfer
<1>1. Init => IInv
  BY InitIInv, Zenon
<1>2. IInv /\ [Next]_vars => IInv'
  BY NextIInv, Zenon
<1>3. Init => Image!Init
  BY Zenon DEF Init, Image!Init, transferStatus
<1>4. IInv /\ IInv' /\ [Next]_vars => [Image!Next]_transferVars
  BY NextImplements, Zenon
<1> QED BY <1>1, <1>2, <1>3, <1>4, PTL DEF Spec, ImplementsFileTransfer, Image!Spec, transferVars
=============================================================================
