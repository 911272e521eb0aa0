--------------------------- MODULE TftpShortFile ----------------------------
(***************************************************************************)
(* The integrity of the image of a file that ends before the block number  *)
(* wraps, proved on every network: packets may be lost, repeated, delayed  *)
(* and overtaken, and a retry may draw the UDP port of an earlier attempt. *)
(*                                                                         *)
(* Memory is never unwritten, so what an ACK or a transfer of the server   *)
(* says of it stays true however late it is read: no order of packets and  *)
(* no port is needed for that.  Ports only matter for the block size, in   *)
(* which the client turns a block number into an address.                  *)
(***************************************************************************)
EXTENDS TftpProofs

-----------------------------------------------------------------------------
(* The invariant.                                                          *)

\* The file ends before the block number wraps, whatever the block size.
NoWrap == \A bs \in BlockSize : FileSize < (TFTP_SEQUENCE_SIZE - 1) * bs

\* Attempts that may share a UDP port agree on the block size.
OneBlockSize ==
    PortReuse => "OACK_blksize" \notin Replies \/ tftp_block_size_option = TFTP_BLOCK_SIZE

\* Memory holds the first n units of the file.
Holds(memory, n) == \A p \in 0 .. FileSize - 1 : p < n => memory[p] = p

\* A transfer of the server is at most one block ahead of the memory.
TransferOK(memory, s) ==
    /\ s.blk > 0 => (s.blk - 1) * s.bs <= FileSize
    /\ s.bs = IF s.oack = 0 THEN TFTP_BLOCK_SIZE ELSE s.oack
    /\ Holds(memory, (s.blk - 1) * s.bs)

\* A packet from the server tells of its transfer: of a block already reached.
ReplyOK(sessions, m) ==
    /\ m.op \in {"DATA", "OACK"} => m.dst = sessions[m.src].peer
    /\ m.op = "DATA" =>
          /\ m.blk \in 1 .. sessions[m.src].blk
          /\ m.from = (m.blk - 1) * sessions[m.src].bs
          /\ m.len = BlockLen(sessions[m.src].bs, m.blk)
    /\ m.op = "OACK" => m.size = sessions[m.src].oack

\* An ACK, however old, is of units the memory holds.
RequestOK(memory, sessions, m) ==
    m.op = "ACK" => Holds(memory, m.blk * sessions[m.dst].bs)

\* The client counts in the block size of the transfer it follows, and holds
\* what it would acknowledge if it had to send now.
ClientInv ==
    /\ tftp_block_wrap_offset = 0 /\ net_boot_file_size <= FileSize
    /\ udp_handler = "tftp" /\ eth_state = "ACTIVE" => Holds(mem, tftp_cur_block * tftp_block_size)
    /\ tftp_state = "DATA" => Holds(mem, tftp_prev_block * tftp_block_size)
    /\ time_handler = "tftp" => udp_handler = "tftp"
    /\ tftp_state = "SEND_RRQ" => tftp_block_size = TFTP_BLOCK_SIZE /\ tftp_cur_block = 0
    /\ tftp_state # "SEND_RRQ" => session[tftp_remote_port].bs = tftp_block_size

\* Ports are drawn in the order of the attempts.
LoopInv ==
    /\ tftp_our_port <= net_try_count
    /\ time_handler = "start_again" => tftp_our_port < net_try_count

\* A client that has heard nothing counts in the default block size: either all
\* transfers do, or those of its own port that do not have not sent a block.
AttemptInv ==
    IF PortReuse THEN \A t \in DOMAIN session : session[t].bs = TFTP_BLOCK_SIZE
    ELSE
    /\ \A t \in DOMAIN session : session[t].peer <= tftp_our_port
    /\ \A i \in DOMAIN toServer : toServer[i].op = "RRQ" => toServer[i].src <= tftp_our_port
    /\ tftp_state = "SEND_RRQ" =>
          \A t \in DOMAIN session : session[t].peer = tftp_our_port =>
             /\ session[t].oack # 0 => session[t].blk = 0
             /\ \A i \in DOMAIN toServer : toServer[i].op = "ACK" => toServer[i].dst # t

TransfersInv == \A t \in DOMAIN session : TransferOK(mem, session[t])
RepliesInv == \A i \in DOMAIN toClient : ReplyOK(session, toClient[i])
RequestsInv == \A i \in DOMAIN toServer : RequestOK(mem, session, toServer[i])

\* The inductive invariant.
RInv ==
    /\ TypeInv /\ StoredInPlace /\ CompleteImage
    /\ TransfersInv /\ RepliesInv /\ RequestsInv
    /\ ClientInv /\ LoopInv /\ AttemptInv

\* Multiplication keeps the order.
LEMMA MulMono ==
    ASSUME NEW a \in Int, NEW b \in Int, NEW c \in Nat, a <= b
    PROVE  a * c \in Int /\ b * c \in Int /\ a * c <= b * c
<1>1. b = a + (b - a) /\ b - a \in Nat
  OBVIOUS
<1>2. (b - a) * c >= 0
  BY <1>1
<1>3. b * c = a * c + (b - a) * c
  OBVIOUS
<1> QED BY <1>2, <1>3

\* A number below the divisor is its own remainder.
LEMMA SmallMod ==
    ASSUME NEW n \in Nat, NEW q \in Nat, q >= 2, n < q
    PROVE  n % q = n
<1> DEFINE d == n \div q
           r == n % q
<1>1. r \in 0 .. q - 1 /\ d \in Nat /\ n = q * d + r
  BY DivMod, Zenon
<1> HIDE DEF d, r
<1>2. n - r = 0
  BY <1>1, SmallMultiple
<1> QED BY <1>1, <1>2 DEF r

\* Block numbers stay below the wrap.
LEMMA ShortOfWrap ==
    ASSUME NoWrap, NEW s \in Transfer, s.blk > 0 => (s.blk - 1) * s.bs <= FileSize
    PROVE  s.blk < TFTP_SEQUENCE_SIZE /\ s.blk % TFTP_SEQUENCE_SIZE = s.blk
<1>1. s.blk \in Nat /\ s.bs \in BlockSize /\ s.bs \in Nat
  BY TftpAssumption DEF Transfer, BlockSize
<1>2. TFTP_SEQUENCE_SIZE \in Nat /\ TFTP_SEQUENCE_SIZE >= 2
      /\ FileSize \in Nat /\ FileSize < (TFTP_SEQUENCE_SIZE - 1) * s.bs
  BY <1>1, TftpAssumption DEF NoWrap
<1>3. s.blk < TFTP_SEQUENCE_SIZE
  <2>1. SUFFICES ASSUME s.blk >= TFTP_SEQUENCE_SIZE PROVE FALSE
    BY <1>1, <1>2
  <2>2. (TFTP_SEQUENCE_SIZE - 1) * s.bs <= (s.blk - 1) * s.bs
    BY <2>1, <1>1, <1>2, MulMono
  <2>3. s.blk > 0
    BY <2>1, <1>1, <1>2
  <2>4. (TFTP_SEQUENCE_SIZE - 1) * s.bs \in Int /\ (s.blk - 1) * s.bs \in Int
    BY <1>1, <1>2
  <2> QED BY <2>2, <2>3, <2>4, <1>2
<1> QED BY <1>1, <1>2, <1>3, SmallMod, Zenon

\* Fewer units are held too, and none always are.
LEMMA HoldsFewer ==
    ASSUME NEW memory, NEW n \in Int, NEW k \in Int, k <= n \/ k <= 0, Holds(memory, n)
    PROVE  Holds(memory, k)
<1>1. FileSize \in Nat
  BY TftpAssumption
<1> QED BY <1>1 DEF Holds

LEMMA HoldsNone ==
    ASSUME NEW memory, NEW k \in Int, k <= 0
    PROVE  Holds(memory, k)
<1>1. FileSize \in Nat
  BY TftpAssumption
<1> QED BY <1>1 DEF Holds

\* Memory only gains units of the file.
Gains(before, after) == \A p \in 0 .. FileSize - 1 : before[p] = p => after[p] = p

LEMMA HoldsGains ==
    ASSUME NEW before, NEW after, Gains(before, after), NEW n, Holds(before, n)
    PROVE  Holds(after, n)
BY Zenon DEF Gains, Holds

\* The server keeps what a transfer is and only moves it on.
Later(before, after) ==
    /\ DOMAIN before \subseteq DOMAIN after
    /\ \A t \in DOMAIN before :
          /\ after[t].peer = before[t].peer /\ after[t].bs = before[t].bs
          /\ after[t].oack = before[t].oack /\ before[t].blk <= after[t].blk

LEMMA LaterSame ==
    ASSUME NEW a \in Seq(Transfer)
    PROVE  Later(a, a)
<1>1. \A t \in DOMAIN a : a[t].blk <= a[t].blk
  <2> TAKE t \in DOMAIN a
  <2>1. a[t] \in Transfer
    OBVIOUS
  <2>2. a[t].blk \in Nat
    BY <2>1 DEF Transfer
  <2> QED BY <2>2
<1> QED BY <1>1, Zenon DEF Later

LEMMA TransferOKGains ==
    ASSUME NEW before, NEW after, Gains(before, after), NEW s, TransferOK(before, s)
    PROVE  TransferOK(after, s)
BY HoldsGains, ZenonT(40) DEF TransferOK

LEMMA ReplyOKLater ==
    ASSUME NEW a \in Seq(Transfer), NEW b \in Seq(Transfer), Later(a, b), NEW m \in Reply,
           m.op \in {"DATA", "OACK"} => m.src \in DOMAIN a, ReplyOK(a, m)
    PROVE  ReplyOK(b, m)
<1>1. CASE m.op = "DATA"
  <2>1. m.src \in DOMAIN a /\ m.src \in DOMAIN b
    BY <1>1, Zenon DEF Later
  <2>2. a[m.src] \in Transfer /\ b[m.src] \in Transfer
    BY <2>1
  <2>3. a[m.src].blk \in Nat /\ b[m.src].blk \in Nat /\ m.blk \in Int
    <3>1. m.blk \in BlockNumber
      BY <1>1 DEF Reply
    <3>2. m.blk \in Int
      BY <3>1, TftpAssumption DEF BlockNumber
    <3> QED BY <2>2, <3>2, SMTT(40) DEF Transfer
  <2>4. b[m.src].peer = a[m.src].peer /\ b[m.src].bs = a[m.src].bs /\ a[m.src].blk <= b[m.src].blk
    BY <2>1, Zenon DEF Later
  <2> QED BY <1>1, <2>3, <2>4 DEF ReplyOK
<1>2. CASE m.op = "OACK"
  <2>1. m.src \in DOMAIN a
    BY <1>2, Zenon
  <2> QED BY <1>2, <2>1, Zenon DEF Later, ReplyOK
<1>3. CASE m.op \notin {"DATA", "OACK"}
  BY <1>3, Zenon DEF ReplyOK
<1> QED BY <1>1, <1>2, <1>3, Zenon

LEMMA RequestOKLater ==
    ASSUME NEW a, NEW b, Later(a, b), NEW before, NEW after, Gains(before, after),
           NEW m, m.op = "ACK" => m.dst \in DOMAIN a, RequestOK(before, a, m)
    PROVE  RequestOK(after, b, m)
<1> SUFFICES ASSUME m.op = "ACK" PROVE Holds(after, m.blk * b[m.dst].bs)
  BY Zenon DEF RequestOK
<1>1. b[m.dst].bs = a[m.dst].bs
  BY Zenon DEF Later
<1>2. Holds(before, m.blk * a[m.dst].bs)
  BY Zenon DEF RequestOK
<1>3. Holds(after, m.blk * a[m.dst].bs)
  BY <1>2, HoldsGains, ZenonT(40)
<1> QED BY <1>1, <1>3

\* What the server sends for a transfer is as the transfer says.
LEMMA CurrentOK ==
    ASSUME NoWrap, NEW sessions \in Seq(Transfer), NEW t \in DOMAIN sessions,
           sessions[t].blk > 0 => (sessions[t].blk - 1) * sessions[t].bs <= FileSize
    PROVE  ReplyOK(sessions, CurrentPacket(t, sessions[t]))
<1> DEFINE s == sessions[t]
<1>1. s \in Transfer /\ t \in Nat
  OBVIOUS
<1>2. s.blk \in Nat
  BY <1>1 DEF Transfer
<1>3. s.blk % TFTP_SEQUENCE_SIZE = s.blk
  BY <1>1, ShortOfWrap
<1> HIDE DEF s
<1>4. CASE s.blk = 0
  <2>1. CurrentPacket(t, s) = [op |-> "OACK", src |-> t, dst |-> s.peer, size |-> s.oack]
    BY <1>4, Zenon DEF CurrentPacket, OackPacket
  <2> QED BY <2>1 DEF ReplyOK, s
<1>5. CASE s.blk # 0
  <2>1. CurrentPacket(t, s) =
          [op |-> "DATA", src |-> t, dst |-> s.peer, blk |-> s.blk,
           from |-> (s.blk - 1) * s.bs, len |-> BlockLen(s.bs, s.blk)]
    BY <1>3, <1>5, Zenon DEF CurrentPacket, DataPacket
  <2>2. s.blk \in 1 .. s.blk
    BY <1>2, <1>5
  <2> QED BY <2>1, <2>2 DEF ReplyOK, s
<1> QED BY <1>4, <1>5, Zenon DEF s

\* Block c + 1 stored where its number puts it: nothing is disturbed, and memory
\* that held the blocks before it holds this one too.
LEMMA StoreAtPlace ==
    ASSUME TypeOK, StoredInPlace, NEW c \in Nat, c * tftp_block_size <= FileSize,
           net_boot_file_size <= FileSize, Holds(mem, c * tftp_block_size),
           NEW m, m.from = c * tftp_block_size, m.len = BlockLen(tftp_block_size, c + 1),
           NEW block, NEW wrap, block * tftp_block_size + wrap = c * tftp_block_size,
           store_block(block, wrap, m)
    PROVE  /\ StoredInPlace' /\ Gains(mem, mem')
           /\ Holds(mem', (c + 1) * tftp_block_size)
           /\ net_boot_file_size' <= FileSize /\ net_boot_file_size' >= net_boot_file_size
           /\ m.len < tftp_block_size =>
                 net_boot_file_size' = FileSize /\ Holds(mem', FileSize)
<1> DEFINE b == tftp_block_size
           e == m.from + m.len
           o == c * b
<1>1. b \in Nat /\ b > 0 /\ FileSize \in Nat /\ o \in Nat /\ (c + 1) * b = o + b
      /\ net_boot_file_size \in Int
  BY TftpAssumption DEF TypeOK, BlockSize
<1>2. o + m.len = e /\ e \in Nat /\ o <= e /\ e <= FileSize
      /\ (m.len < b => e = FileSize) /\ (\A p \in 0 .. FileSize - 1 : p < (c + 1) * b => p < e)
  <2> HIDE DEF o, b
  <2>1. m.len = BlockLen(b, c + 1) /\ o <= FileSize /\ m.from = o
    BY Zenon DEF o, b
  <2>2. BlockLen(b, c + 1) = IF o + b <= FileSize THEN b ELSE FileSize - o
    BY <1>1 DEF BlockLen, o
  <2> QED BY <1>1, <2>1, <2>2
<1> DEFINE x == block * b + wrap
           y == x + m.len
<1>3. /\ mem' = [p \in DOMAIN mem |-> IF p \in x .. y - 1 THEN m.from + p - x ELSE mem[p]]
      /\ net_boot_file_size' = IF net_boot_file_size < y THEN y ELSE net_boot_file_size
  BY Zenon DEF store_block
<1>4. Memory \subseteq Int /\ 0 .. FileSize - 1 \subseteq Memory /\ DOMAIN mem = Memory
  <2>1. Margin \in Nat
    BY TftpAssumption DEF Margin
  <2> QED BY <2>1, <1>1 DEF Memory, TypeOK
<1> HIDE DEF x
<1>5. x = o /\ m.from = o /\ y = e
  BY <1>2, Zenon DEF x
<1>6. \A p \in 0 .. FileSize - 1 : p < o => mem[p] = p
  BY Zenon DEF Holds
<1>7. net_boot_file_size <= FileSize
  OBVIOUS
<1> HIDE DEF y, e, o, b
<1>8. \A p \in Memory : mem'[p] = IF p \in o .. e - 1 THEN p ELSE mem[p]
  <2> TAKE p \in Memory
  <2>1. p \in Int /\ o + p - o = p
    BY <1>1, <1>4
  <2>2. mem'[p] = IF p \in x .. y - 1 THEN m.from + p - x ELSE mem[p]
    BY <1>3, <1>4, Zenon
  <2> QED BY <2>1, <2>2, <1>5, Zenon
<1>9. StoredInPlace'
  <2>1. \A p \in Memory : mem'[p] \in {-1, p}
    BY <1>8, Zenon DEF StoredInPlace
  <2> QED BY <2>1, Zenon DEF StoredInPlace
<1>10. Gains(mem, mem')
  BY <1>4, <1>8, Zenon DEF Gains
<1>11. \A p \in 0 .. FileSize - 1 : p < e => mem'[p] = p
  <2> SUFFICES ASSUME NEW p \in 0 .. FileSize - 1, p < e PROVE mem'[p] = p
    OBVIOUS
  <2>1. p \in Memory
    BY <1>4, Zenon
  <2>2. CASE p < o
    <3>1. mem[p] = p
      BY <2>2, <1>6, Zenon
    <3> QED BY <3>1, <2>1, <1>8, Zenon
  <2>3. CASE o <= p
    BY <2>1, <2>3, <1>1, <1>2, <1>8
  <2> QED BY <2>2, <2>3, <1>1
<1>12. Holds(mem', (c + 1) * b)
  BY <1>2, <1>11, Zenon DEF Holds
<1>13. /\ net_boot_file_size' <= FileSize /\ net_boot_file_size' >= net_boot_file_size
       /\ m.len < b => net_boot_file_size' = FileSize
  BY <1>1, <1>2, <1>3, <1>5, <1>7
<1>14. m.len < b => Holds(mem', FileSize)
  BY <1>2, <1>11, Zenon DEF Holds
<1> QED BY <1>9, <1>10, <1>12, <1>13, <1>14, Zenon DEF b

-----------------------------------------------------------------------------
(* The steps.                                                              *)

\* What a step of the client needs to keep the invariant.
LEMMA ClientStep ==
    ASSUME RInv, TypeInv', UNCHANGED <<session, tftp_our_port>>, Gains(mem, mem'),
           toClient' = toClient \/ \E i \in DOMAIN toClient : toClient' = RemoveAt(toClient, i),
           \/ toServer' = toServer
           \/ \E p \in Request :
                 /\ Transmit(p) /\ (eth_state = "ACTIVE" => RequestOK(mem', session, p))
                 /\ p.op = "RRQ" => p.src = tftp_our_port
                 /\ p.op = "ACK" => tftp_state' # "SEND_RRQ",
           tftp_state' = "SEND_RRQ" => tftp_state = "SEND_RRQ",
           StoredInPlace', CompleteImage', ClientInv', LoopInv'
    PROVE  RInv'
<1>1. toClient \in Seq(Reply) /\ toServer \in Seq(Request) /\ session \in Seq(Transfer)
      /\ tftp_our_port \in Nat
  BY Zenon DEF RInv, TypeInv, TypeOK
<1>2. Later(session, session)
  BY <1>1, LaterSame, Zenon
<1>3. TransfersInv'
  BY TransferOKGains, Zenon DEF RInv, TransfersInv
<1>4. RepliesInv'
  <2>1. CASE toClient' = toClient
    BY <2>1, Zenon DEF RInv, RepliesInv
  <2>2. CASE \E i \in DOMAIN toClient : toClient' = RemoveAt(toClient, i)
    <3>1. PICK i \in DOMAIN toClient : toClient' = RemoveAt(toClient, i)
      BY <2>2, Zenon
    <3>2. \A j \in DOMAIN toClient' : \E k \in DOMAIN toClient : toClient'[j] = toClient[k]
      BY <3>1, <1>1, RemoveAtKeeps
    <3> QED BY <3>2, Zenon DEF RInv, RepliesInv
  <2> QED BY <2>1, <2>2, Zenon
<1>5. \A i \in DOMAIN toServer : RequestOK(mem', session, toServer[i])
  <2> TAKE i \in DOMAIN toServer
  <2>1. RequestOK(mem, session, toServer[i])
    BY Zenon DEF RInv, RequestsInv
  <2>2. toServer[i].op = "ACK" => toServer[i].dst \in DOMAIN session
    BY Zenon DEF RInv, TypeInv, AddressInv
  <2> QED BY <2>1, <2>2, <1>2, RequestOKLater, Zenon
<1>6. \A j \in DOMAIN toServer' :
         \/ j \in DOMAIN toServer /\ toServer'[j] = toServer[j]
         \/ /\ RequestOK(mem', session, toServer'[j])
            /\ toServer'[j].op = "RRQ" => toServer'[j].src = tftp_our_port
            /\ toServer'[j].op = "ACK" => tftp_state' # "SEND_RRQ"
  <2>1. CASE toServer' = toServer
    BY <2>1, Zenon
  <2>2. CASE toServer' # toServer
    <3>1. PICK p \in Request :
                 /\ Transmit(p) /\ (eth_state = "ACTIVE" => RequestOK(mem', session, p))
                 /\ p.op = "RRQ" => p.src = tftp_our_port
                 /\ p.op = "ACK" => tftp_state' # "SEND_RRQ"
      BY <2>2, Zenon
    <3>2. eth_state = "ACTIVE"
      BY <2>2, <3>1, Zenon DEF Transmit
    <3>3. \A j \in DOMAIN toServer' :
             (j \in DOMAIN toServer /\ toServer'[j] = toServer[j]) \/ toServer'[j] = p
      BY <3>1, <1>1, TransmitProperties, Zenon
    <3> QED BY <3>1, <3>2, <3>3, Zenon
  <2> QED BY <2>1, <2>2, Zenon
<1>7. RequestsInv'
  BY <1>5, <1>6, Zenon DEF RequestsInv
<1>8. AttemptInv'
  <2>1. CASE PortReuse
    BY <2>1, Zenon DEF RInv, AttemptInv
  <2>2. CASE ~PortReuse
    <3>1. /\ \A t \in DOMAIN session : session[t].peer <= tftp_our_port
          /\ \A i \in DOMAIN toServer :
                toServer[i].op = "RRQ" => toServer[i].src <= tftp_our_port
          /\ tftp_state = "SEND_RRQ" =>
                \A t \in DOMAIN session : session[t].peer = tftp_our_port =>
                   /\ session[t].oack # 0 => session[t].blk = 0
                   /\ \A i \in DOMAIN toServer : toServer[i].op = "ACK" => toServer[i].dst # t
      BY <2>2, Zenon DEF RInv, AttemptInv
    <3>2. tftp_our_port <= tftp_our_port
      BY <1>1
    <3>3. \A i \in DOMAIN toServer' :
             toServer'[i].op = "RRQ" => toServer'[i].src <= tftp_our_port
      BY <3>1, <3>2, <1>6, Zenon
    <3>4. tftp_state' = "SEND_RRQ" =>
             \A t \in DOMAIN session : session[t].peer = tftp_our_port =>
                \A i \in DOMAIN toServer' : toServer'[i].op = "ACK" => toServer'[i].dst # t
      BY <3>1, <1>6, Zenon
    <3> QED BY <2>2, <3>1, <3>3, <3>4, Zenon DEF AttemptInv
  <2> QED BY <2>1, <2>2, Zenon
<1> QED BY <1>3, <1>4, <1>7, <1>8, Zenon DEF RInv

\* What a step of the server or of the network needs to keep the invariant.
LEMMA ServerStep ==
    ASSUME RInv, TypeInv', UNCHANGED <<tftpVars, loopVars, imageVars>>,
           Later(session, session'),
           \A j \in DOMAIN toServer' : \E k \in DOMAIN toServer : toServer'[j] = toServer[k],
           \A j \in DOMAIN toClient' :
              \/ \E k \in DOMAIN toClient : toClient'[j] = toClient[k]
              \/ ReplyOK(session', toClient'[j]),
           TransfersInv', AttemptInv'
    PROVE  RInv'
<1>1. toClient \in Seq(Reply) /\ toServer \in Seq(Request) /\ session \in Seq(Transfer)
      /\ session' \in Seq(Transfer)
  BY Zenon DEF RInv, TypeInv, TypeOK
<1>2. mem' = mem /\ Gains(mem, mem')
  BY Zenon DEF imageVars, Gains
<1>3. \A k \in DOMAIN toClient : ReplyOK(session', toClient[k])
  <2> TAKE k \in DOMAIN toClient
  <2>1. toClient[k] \in Reply
    BY <1>1
  <2>2. toClient[k].op \in {"DATA", "OACK"} => toClient[k].src \in DOMAIN session
    BY Zenon DEF RInv, TypeInv, AddressInv
  <2>3. ReplyOK(session, toClient[k])
    BY Zenon DEF RInv, RepliesInv
  <2> QED BY <2>1, <2>2, <2>3, <1>1, ReplyOKLater, Zenon
<1>4. RepliesInv'
  BY <1>3, Zenon DEF RepliesInv
<1>5. \A k \in DOMAIN toServer : RequestOK(mem', session', toServer[k])
  <2> TAKE k \in DOMAIN toServer
  <2>1. toServer[k].op = "ACK" => toServer[k].dst \in DOMAIN session
    BY Zenon DEF RInv, TypeInv, AddressInv
  <2>2. RequestOK(mem, session, toServer[k])
    BY Zenon DEF RInv, RequestsInv
  <2> QED BY <2>1, <2>2, <1>2, RequestOKLater, Zenon
<1>6. RequestsInv'
  BY <1>5, Zenon DEF RequestsInv
<1>7. StoredInPlace' /\ CompleteImage' /\ LoopInv'
  BY <1>2, Zenon DEF RInv, StoredInPlace, CompleteImage, LoopInv, tftpVars, loopVars, imageVars
<1>8. ClientInv'
  <2>1. tftp_state # "SEND_RRQ" => session'[tftp_remote_port].bs = session[tftp_remote_port].bs
    BY Zenon DEF RInv, TypeInv, AddressInv, Later
  <2> QED BY <2>1, <1>2, Zenon DEF RInv, ClientInv, tftpVars, loopVars, imageVars
<1> QED BY <1>4, <1>6, <1>7, <1>8, Zenon DEF RInv

\* When no transfer moves.
LEMMA QuietServerStep ==
    ASSUME RInv, TypeInv', UNCHANGED <<tftpVars, loopVars, imageVars, session>>,
           \A j \in DOMAIN toServer' : \E k \in DOMAIN toServer : toServer'[j] = toServer[k],
           \A j \in DOMAIN toClient' :
              \/ \E k \in DOMAIN toClient : toClient'[j] = toClient[k]
              \/ ReplyOK(session, toClient'[j])
    PROVE  RInv'
<1>1. Later(session, session')
  <2>1. session \in Seq(Transfer)
    BY Zenon DEF RInv, TypeInv, TypeOK
  <2> QED BY <2>1, LaterSame, Zenon
<1>2. TransfersInv'
  BY Zenon DEF RInv, TransfersInv, imageVars
<1>3. AttemptInv'
  BY ZenonT(40) DEF RInv, AttemptInv, tftpVars
<1> QED BY <1>1, <1>2, <1>3, ServerStep, Zenon

\* A loss keeps the invariant.
LEMMA LoseKeepsR == RInv /\ TypeInv' /\ Lose => RInv'
<1> SUFFICES ASSUME RInv, TypeInv', Lose PROVE RInv'
  OBVIOUS
<1>1. toClient \in Seq(Reply) /\ toServer \in Seq(Request)
      /\ UNCHANGED <<tftpVars, loopVars, imageVars, session>>
  BY Zenon DEF RInv, TypeInv, TypeOK, Lose
<1>2. CASE \E i \in DOMAIN toServer : toServer' = RemoveAt(toServer, i) /\ UNCHANGED toClient
  <2>1. PICK i \in DOMAIN toServer : toServer' = RemoveAt(toServer, i) /\ toClient' = toClient
    BY <1>2, Zenon
  <2>2. \A j \in DOMAIN toServer' : \E k \in DOMAIN toServer : toServer'[j] = toServer[k]
    BY <2>1, <1>1, RemoveAtKeeps
  <2> QED BY <2>1, <2>2, <1>1, QuietServerStep, Zenon
<1>3. CASE \E i \in DOMAIN toClient : toClient' = RemoveAt(toClient, i) /\ UNCHANGED toServer
  <2>1. PICK i \in DOMAIN toClient : toClient' = RemoveAt(toClient, i) /\ toServer' = toServer
    BY <1>3, Zenon
  <2>2. \A j \in DOMAIN toClient' : \E k \in DOMAIN toClient : toClient'[j] = toClient[k]
    BY <2>1, <1>1, RemoveAtKeeps
  <2> QED BY <2>1, <2>2, <1>1, QuietServerStep, Zenon
<1> QED BY <1>2, <1>3, Zenon DEF Lose

\* What Send() leaves in a queue.
LEMMA SendKeeps ==
    ASSUME NEW S, NEW q \in Seq(S), NEW m \in S, NEW r, r = Send(q, m)
    PROVE  \A j \in DOMAIN r : (\E k \in DOMAIN q : r[j] = q[k]) \/ r[j] = m
BY SendProperties

\* A repetition by the server keeps the invariant.
LEMMA ServerRetransmitKeepsR ==
    ASSUME NoWrap, RInv, TypeInv', ServerRetransmit
    PROVE  RInv'
<1>1. PICK t \in DOMAIN session : toClient' = Send(toClient, CurrentPacket(t, session[t]))
  BY Zenon DEF ServerRetransmit
<1>2. UNCHANGED <<tftpVars, loopVars, imageVars, toServer, session>>
  BY Zenon DEF ServerRetransmit
<1>3. toClient \in Seq(Reply) /\ session \in Seq(Transfer)
  BY Zenon DEF RInv, TypeInv, TypeOK
<1>4. CurrentPacket(t, session[t]) \in Reply
  <2>1. t \in Nat /\ session[t] \in Transfer
    BY <1>3
  <2> QED BY <2>1, CurrentPacketType, Zenon
<1>5. ReplyOK(session, CurrentPacket(t, session[t]))
  BY <1>3, CurrentOK, Zenon DEF RInv, TransfersInv, TransferOK
<1>6. \A j \in DOMAIN toClient' :
         (\E k \in DOMAIN toClient : toClient'[j] = toClient[k])
         \/ toClient'[j] = CurrentPacket(t, session[t])
  BY <1>1, <1>3, <1>4, SendKeeps
<1> QED BY <1>2, <1>5, <1>6, QuietServerStep, Zenon

\* So does an error it sends.
LEMMA ServerErrorKeepsR ==
    ASSUME RInv, TypeInv', ServerError
    PROVE  RInv'
<1>1. PICK t \in DOMAIN session, code \in Replies \cap {"ERROR", "ERROR_fatal"} :
         toClient' = Send(toClient, ErrorPacket(code, t, session[t].peer))
  BY Zenon DEF ServerError
<1>2. UNCHANGED <<tftpVars, loopVars, imageVars, toServer, session>>
  BY Zenon DEF ServerError
<1>3. toClient \in Seq(Reply) /\ session \in Seq(Transfer)
  BY Zenon DEF RInv, TypeInv, TypeOK
<1>4. t \in Nat /\ session[t].peer \in Nat
  <2>1. t \in Nat /\ session[t] \in Transfer
    BY <1>3
  <2> QED BY <2>1 DEF Transfer
<1>5. PICK m : m = ErrorPacket(code, t, session[t].peer)
  OBVIOUS
<1>6. m \in Reply /\ m.op \notin {"DATA", "OACK"}
  BY <1>4, <1>5, ErrorPacketType
<1>7. ReplyOK(session, m)
  BY <1>6 DEF ReplyOK
<1>8. \A j \in DOMAIN toClient' :
         (\E k \in DOMAIN toClient : toClient'[j] = toClient[k]) \/ toClient'[j] = m
  BY <1>1, <1>3, <1>5, <1>6, SendKeeps
<1> QED BY <1>2, <1>7, <1>8, QuietServerStep, Zenon

\* A new transfer has sent nothing the memory would have to hold.
LEMMA NewTransferOK ==
    ASSUME NEW reply, NEW peer \in Nat, NEW memory
    PROVE  LET s == NewSession(reply, peer) IN
           /\ TransferOK(memory, s) /\ s.peer = peer
           /\ s.oack # 0 => s.blk = 0 /\ reply = "OACK_blksize"
           /\ s.bs = IF reply = "OACK_blksize" THEN tftp_block_size_option ELSE TFTP_BLOCK_SIZE
<1> DEFINE s == NewSession(reply, peer)
<1>1. /\ s.peer = peer /\ s.blk = IF reply = "DATA" THEN 1 ELSE 0
      /\ s.bs = IF reply = "OACK_blksize" THEN tftp_block_size_option ELSE TFTP_BLOCK_SIZE
      /\ s.oack = IF reply = "OACK_blksize" THEN tftp_block_size_option ELSE 0
  BY DEF NewSession
<1> HIDE DEF s
<1>2. s.bs \in Nat /\ s.bs > 0 /\ FileSize \in Nat
  BY <1>1, TftpAssumption
<1>3. s.blk - 1 \in {-1, 0} /\ (s.blk > 0 => s.blk - 1 = 0)
  BY <1>1
<1>4. (s.blk - 1) * s.bs \in Int /\ (s.blk - 1) * s.bs <= 0
      /\ (s.blk > 0 => (s.blk - 1) * s.bs = 0)
  BY <1>2, <1>3
<1>5. Holds(memory, (s.blk - 1) * s.bs)
  BY <1>4, HoldsNone, Zenon
<1>6. s.blk > 0 => (s.blk - 1) * s.bs <= FileSize
  BY <1>2, <1>4
<1>7. s.bs = IF s.oack = 0 THEN TFTP_BLOCK_SIZE ELSE s.oack
  BY <1>1, TftpAssumption
<1>8. s.oack # 0 => s.blk = 0 /\ reply = "OACK_blksize"
  BY <1>1
<1> QED BY <1>1, <1>5, <1>6, <1>7, <1>8, Zenon DEF TransferOK, s

\* An RRQ served keeps the invariant.
LEMMA NewSessionKeepsR ==
    ASSUME NoWrap, OneBlockSize, RInv, TypeInv', UNCHANGED <<tftpVars, loopVars, imageVars>>,
           NEW i \in DOMAIN toServer, toServer' = RemoveAt(toServer, i),
           toServer[i].op = "RRQ", NEW reply \in Replies,
           NEW s, s = NewSession(reply, toServer[i].src), session' = Append(session, s),
           toClient' = Send(toClient, CurrentPacket(Len(session) + 1, s))
    PROVE  RInv'
<1> DEFINE n == Len(session) + 1
<1>1. toClient \in Seq(Reply) /\ toServer \in Seq(Request) /\ session \in Seq(Transfer)
      /\ session' \in Seq(Transfer) /\ tftp_our_port \in Nat
  BY Zenon DEF RInv, TypeInv, TypeOK
<1>2. toServer[i].src \in Nat
  <2>1. toServer[i] \in Request
    BY <1>1
  <2> QED BY <2>1 DEF Request
<1>3. s \in Transfer
  BY <1>2, NewSessionType, Zenon
<1>4. DOMAIN session' = 1 .. n /\ DOMAIN session = 1 .. Len(session) /\ n \in Nat
      /\ (\A t \in DOMAIN session : session'[t] = session[t]) /\ session'[n] = s
      /\ n \notin DOMAIN session /\ n \in DOMAIN session'
      /\ (\A t \in DOMAIN session' : t \in DOMAIN session \/ t = n)
      /\ DOMAIN session \subseteq DOMAIN session'
  <2>1. Len(session) \in Nat /\ DOMAIN session = 1 .. Len(session)
    BY <1>1, LenProperties
  <2>2. DOMAIN session' = 1 .. n /\ (\A t \in 1 .. Len(session) : session'[t] = session[t])
        /\ session'[n] = s
    BY <1>1, <1>3, AppendLast
  <2> QED BY <2>1, <2>2
<1> HIDE DEF n
<1>5. /\ TransferOK(mem, s) /\ s.peer = toServer[i].src
      /\ s.oack # 0 => s.blk = 0 /\ reply = "OACK_blksize"
      /\ s.bs = IF reply = "OACK_blksize" THEN tftp_block_size_option ELSE TFTP_BLOCK_SIZE
  BY <1>2, NewTransferOK, ZenonT(40)
<1>6. Later(session, session')
  <2>1. Later(session, session)
    BY <1>1, LaterSame, Zenon
  <2> QED BY <2>1, <1>4, Zenon DEF Later
<1>7. mem' = mem
  BY Zenon DEF imageVars
<1>8. TransfersInv'
  <2>1. \A t \in DOMAIN session : TransferOK(mem, session[t])
    BY Zenon DEF RInv, TransfersInv
  <2>2. \A t \in DOMAIN session' : TransferOK(mem, session'[t])
    BY <2>1, <1>4, <1>5, Zenon
  <2> QED BY <2>2, <1>7, Zenon DEF TransfersInv
<1>9. \A j \in DOMAIN toServer' : \E k \in DOMAIN toServer : toServer'[j] = toServer[k]
  BY <1>1, RemoveAtKeeps
<1>10. \A j \in DOMAIN toClient' :
          \/ \E k \in DOMAIN toClient : toClient'[j] = toClient[k]
          \/ ReplyOK(session', toClient'[j])
  <2>1. CurrentPacket(n, s) \in Reply
    BY <1>3, <1>4, CurrentPacketType, Zenon
  <2>2. ReplyOK(session', CurrentPacket(n, session'[n]))
    <3>1. session'[n].blk > 0 => (session'[n].blk - 1) * session'[n].bs <= FileSize
      BY <1>4, <1>5, Zenon DEF TransferOK
    <3> QED BY <3>1, <1>1, <1>4, CurrentOK, Zenon
  <2>3. toClient' = Send(toClient, CurrentPacket(n, s))
    BY Zenon DEF n
  <2>4. \A j \in DOMAIN toClient' :
           (\E k \in DOMAIN toClient : toClient'[j] = toClient[k])
           \/ toClient'[j] = CurrentPacket(n, s)
    BY <2>1, <2>3, <1>1, SendKeeps
  <2> QED BY <2>2, <2>4, <1>4, Zenon
<1>11. AttemptInv'
  <2>1. CASE PortReuse
    <3>1. s.bs = TFTP_BLOCK_SIZE
      BY <2>1, <1>5, Zenon DEF OneBlockSize
    <3>2. \A t \in DOMAIN session' : session'[t].bs = TFTP_BLOCK_SIZE
      BY <2>1, <3>1, <1>4, Zenon DEF RInv, AttemptInv
    <3> QED BY <2>1, <3>2, Zenon DEF AttemptInv
  <2>2. CASE ~PortReuse
    <3>1. /\ \A t \in DOMAIN session : session[t].peer <= tftp_our_port
          /\ \A j \in DOMAIN toServer :
                toServer[j].op = "RRQ" => toServer[j].src <= tftp_our_port
          /\ tftp_state = "SEND_RRQ" =>
                \A t \in DOMAIN session : session[t].peer = tftp_our_port =>
                   /\ session[t].oack # 0 => session[t].blk = 0
                   /\ \A j \in DOMAIN toServer : toServer[j].op = "ACK" => toServer[j].dst # t
      BY <2>2, Zenon DEF RInv, AttemptInv
    <3>2. \A j \in DOMAIN toServer : toServer[j].op = "ACK" => toServer[j].dst # n
      BY <1>4, Zenon DEF RInv, TypeInv, AddressInv
    <3>3. \A t \in DOMAIN session' : session'[t].peer <= tftp_our_port
      BY <3>1, <1>4, <1>5, SMTT(40)
    <3>4. \A j \in DOMAIN toServer' :
             toServer'[j].op = "RRQ" => toServer'[j].src <= tftp_our_port
      BY <3>1, <1>9
    <3>5. tftp_state = "SEND_RRQ" =>
             \A t \in DOMAIN session' : session'[t].peer = tftp_our_port =>
                /\ session'[t].oack # 0 => session'[t].blk = 0
                /\ \A j \in DOMAIN toServer' : toServer'[j].op = "ACK" => toServer'[j].dst # t
      <4> SUFFICES ASSUME tftp_state = "SEND_RRQ", NEW t \in DOMAIN session',
                          session'[t].peer = tftp_our_port
                   PROVE  /\ session'[t].oack # 0 => session'[t].blk = 0
                          /\ \A j \in DOMAIN toServer :
                                toServer[j].op = "ACK" => toServer[j].dst # t
        BY <1>9
      <4>1. CASE t = n
        BY <4>1, <3>2, <1>4, <1>5, Zenon
      <4>2. CASE t \in DOMAIN session
        BY <4>2, <3>1, <1>4, ZenonT(40)
      <4> QED BY <4>1, <4>2, <1>4, Zenon
    <3> QED BY <2>2, <3>3, <3>4, <3>5, Zenon DEF AttemptInv, tftpVars
  <2> QED BY <2>1, <2>2, Zenon
<1> QED BY <1>6, <1>8, <1>9, <1>10, <1>11, ServerStep, Zenon

\* An ACK that releases the next block keeps the invariant.
LEMMA AdvanceKeepsR ==
    ASSUME NoWrap, RInv, TypeInv', UNCHANGED <<tftpVars, loopVars, imageVars>>,
           NEW i \in DOMAIN toServer, toServer' = RemoveAt(toServer, i),
           toServer[i].op = "ACK", NEW t, t = toServer[i].dst,
           toServer[i].blk = session[t].blk % TFTP_SEQUENCE_SIZE, ~LastBlockSent(session[t]),
           NEW next, next = [session[t] EXCEPT !.blk = @ + 1],
           session' = [session EXCEPT ![t] = next],
           toClient' = Send(toClient, DataPacket(t, next))
    PROVE  RInv'
<1> DEFINE s == session[t]
<1>1. toClient \in Seq(Reply) /\ toServer \in Seq(Request) /\ session \in Seq(Transfer)
      /\ session' \in Seq(Transfer)
  BY Zenon DEF RInv, TypeInv, TypeOK
<1>2. t \in DOMAIN session
  BY Zenon DEF RInv, TypeInv, AddressInv
<1>3. s \in Transfer /\ t \in Nat /\ t \in 1 .. Len(session) /\ DOMAIN session = 1 .. Len(session)
  BY <1>1, <1>2
<1>4. TransferOK(mem, s)
  BY <1>2, Zenon DEF RInv, TransfersInv
<1>5. s.blk % TFTP_SEQUENCE_SIZE = s.blk /\ s.blk * s.bs <= FileSize
  BY <1>3, <1>4, ShortOfWrap, NotLast, Zenon DEF TransferOK
<1>6. Holds(mem, s.blk * s.bs)
  <2>1. RequestOK(mem, session, toServer[i])
    BY Zenon DEF RInv, RequestsInv
  <2> QED BY <2>1, <1>5, Zenon DEF RequestOK
<1>7. s.blk \in Nat /\ s.bs \in Nat
  BY <1>3, TftpAssumption, SMTT(40) DEF Transfer, BlockSize
<1>8. /\ next \in Transfer /\ next.peer = s.peer /\ next.bs = s.bs /\ next.oack = s.oack
      /\ next.blk = s.blk + 1 /\ next.blk # 0 /\ next.blk - 1 = s.blk /\ s.blk <= next.blk
  BY <1>3, <1>7, SMTT(40) DEF Transfer
<1>9. /\ DOMAIN session' = DOMAIN session /\ session'[t] = next
      /\ \A u \in DOMAIN session : u # t => session'[u] = session[u]
  BY <1>1, <1>3, <1>8, ExceptSeq
<1> HIDE DEF s
<1>10. TransferOK(mem, next)
  BY <1>4, <1>5, <1>6, <1>8, Zenon DEF TransferOK
<1>11. Later(session, session')
  <2>1. Later(session, session)
    BY <1>1, LaterSame, Zenon
  <2> QED BY <2>1, <1>8, <1>9 DEF Later, s
<1>12. mem' = mem
  BY Zenon DEF imageVars
<1>13. TransfersInv'
  <2>1. \A u \in DOMAIN session : TransferOK(mem, session[u])
    BY Zenon DEF RInv, TransfersInv
  <2>2. \A u \in DOMAIN session' : TransferOK(mem, session'[u])
    BY <2>1, <1>9, <1>10
  <2> QED BY <2>2, <1>12, Zenon DEF TransfersInv
<1>14. \A j \in DOMAIN toServer' : \E k \in DOMAIN toServer : toServer'[j] = toServer[k]
  BY <1>1, RemoveAtKeeps
<1>15. \A j \in DOMAIN toClient' :
          \/ \E k \in DOMAIN toClient : toClient'[j] = toClient[k]
          \/ ReplyOK(session', toClient'[j])
  <2>1. DataPacket(t, next) = CurrentPacket(t, session'[t])
    BY <1>8, <1>9, Zenon DEF CurrentPacket
  <2>2. ReplyOK(session', CurrentPacket(t, session'[t]))
    <3>1. session'[t].blk > 0 => (session'[t].blk - 1) * session'[t].bs <= FileSize
      BY <1>9, <1>10, Zenon DEF TransferOK
    <3>2. t \in DOMAIN session'
      BY <1>2, <1>9, Zenon
    <3> QED BY <3>1, <3>2, <1>1, CurrentOK, Zenon
  <2>3. DataPacket(t, next) \in Reply
    BY <1>3, <1>8, DataPacketType, Zenon
  <2>4. \A j \in DOMAIN toClient' :
           (\E k \in DOMAIN toClient : toClient'[j] = toClient[k])
           \/ toClient'[j] = DataPacket(t, next)
    BY <2>3, <1>1, SendKeeps
  <2> QED BY <2>1, <2>2, <2>4, ZenonT(40)
<1>16. AttemptInv'
  <2>1. CASE PortReuse
    <3>1. \A u \in DOMAIN session : session[u].bs = TFTP_BLOCK_SIZE
      BY <2>1, Zenon DEF RInv, AttemptInv
    <3>2. \A u \in DOMAIN session' : session'[u].bs = TFTP_BLOCK_SIZE
      BY <3>1, <1>8, <1>9 DEF s
    <3> QED BY <2>1, <3>2, Zenon DEF AttemptInv
  <2>2. CASE ~PortReuse
    <3>1. /\ \A u \in DOMAIN session : session[u].peer <= tftp_our_port
          /\ \A j \in DOMAIN toServer :
                toServer[j].op = "RRQ" => toServer[j].src <= tftp_our_port
          /\ tftp_state = "SEND_RRQ" =>
                \A u \in DOMAIN session : session[u].peer = tftp_our_port =>
                   /\ session[u].oack # 0 => session[u].blk = 0
                   /\ \A j \in DOMAIN toServer : toServer[j].op = "ACK" => toServer[j].dst # u
      BY <2>2, Zenon DEF RInv, AttemptInv
    <3>2. \A u \in DOMAIN session' : session'[u].peer = session[u].peer
      BY <1>8, <1>9 DEF s
    <3>3. \A u \in DOMAIN session' : session'[u].peer <= tftp_our_port
      BY <3>1, <3>2, <1>9
    <3>4. \A j \in DOMAIN toServer' :
             toServer'[j].op = "RRQ" => toServer'[j].src <= tftp_our_port
      BY <3>1, <1>14
    <3>5. tftp_state = "SEND_RRQ" =>
             \A u \in DOMAIN session' : session'[u].peer = tftp_our_port =>
                /\ session'[u].oack # 0 => session'[u].blk = 0
                /\ \A j \in DOMAIN toServer' : toServer'[j].op = "ACK" => toServer'[j].dst # u
      <4> SUFFICES ASSUME tftp_state = "SEND_RRQ", NEW u \in DOMAIN session',
                          session'[u].peer = tftp_our_port
                   PROVE  /\ session'[u].oack # 0 => session'[u].blk = 0
                          /\ \A j \in DOMAIN toServer :
                                toServer[j].op = "ACK" => toServer[j].dst # u
        BY <1>14
      <4>1. u \in DOMAIN session /\ session[u].peer = tftp_our_port
        BY <3>2, <1>9, Zenon
      <4>2. \A j \in DOMAIN toServer : toServer[j].op = "ACK" => toServer[j].dst # u
        BY <4>1, <3>1, Zenon
      <4>3. u # t
        BY <4>2, Zenon
      <4>4. session'[u] = session[u]
        BY <4>1, <4>3, <1>9, Zenon
      <4> QED BY <4>1, <4>2, <4>4, <3>1, Zenon
    <3> QED BY <2>2, <3>3, <3>4, <3>5, Zenon DEF AttemptInv, tftpVars
  <2> QED BY <2>1, <2>2, Zenon
<1> QED BY <1>11, <1>13, <1>14, <1>15, <1>16, ServerStep, Zenon

\* Whatever the server receives keeps the invariant.
LEMMA ServerReceiveKeepsR ==
    ASSUME NoWrap, OneBlockSize, RInv, TypeInv', ServerReceive
    PROVE  RInv'
<1>1. PICK i \in Deliverable(toServer) :
          /\ toServer' = RemoveAt(toServer, i)
          /\ \/ toServer[i].op = "RRQ" /\ \E reply \in Replies : ServeRRQ(toServer[i], reply)
             \/ toServer[i].op = "ACK" /\ ServeACK(toServer[i])
  BY Zenon DEF ServerReceive
<1>2. i \in DOMAIN toServer
  BY DEF Deliverable
<1>3. UNCHANGED <<tftpVars, loopVars, imageVars>>
  BY Zenon DEF ServerReceive
<1>4. toClient \in Seq(Reply) /\ toServer \in Seq(Request) /\ session \in Seq(Transfer)
  BY Zenon DEF RInv, TypeInv, TypeOK
<1>5. \A j \in DOMAIN toServer' : \E k \in DOMAIN toServer : toServer'[j] = toServer[k]
  BY <1>1, <1>2, <1>4, RemoveAtKeeps
<1>6. ASSUME UNCHANGED session, NEW m \in Reply, ReplyOK(session, m),
             toClient' = Send(toClient, m)
      PROVE  RInv'
  <2>1. \A j \in DOMAIN toClient' :
           (\E k \in DOMAIN toClient : toClient'[j] = toClient[k]) \/ toClient'[j] = m
    BY <1>4, <1>6, SendKeeps
  <2> QED BY <1>3, <1>5, <1>6, <2>1, QuietServerStep, Zenon
<1>7. ASSUME UNCHANGED <<session, toClient>>
      PROVE  RInv'
  BY <1>3, <1>5, <1>7, QuietServerStep, Zenon
<1>8. CASE toServer[i].op = "RRQ" /\ \E reply \in Replies : ServeRRQ(toServer[i], reply)
  <2>1. PICK reply \in Replies : ServeRRQ(toServer[i], reply)
    BY <1>8, Zenon
  <2>2. CASE reply \in {"ERROR", "ERROR_fatal"}
    <3> DEFINE m == ErrorPacket(reply, MaxTid + 1, toServer[i].src)
    <3>1. toServer[i].src \in Nat
      <4>1. toServer[i] \in Request
        BY <1>2, <1>4
      <4> QED BY <4>1 DEF Request
    <3>2. m \in Reply /\ m.op \notin {"DATA", "OACK"}
      BY <2>2, <3>1, ErrorPacketType, TftpAssumption
    <3>3. ReplyOK(session, m)
      BY <3>2 DEF ReplyOK
    <3>4. toClient' = Send(toClient, m) /\ UNCHANGED session
      BY <2>1, <2>2, Zenon DEF ServeRRQ
    <3> HIDE DEF m
    <3> QED BY <3>2, <3>3, <3>4, <1>6, Zenon
  <2>3. CASE reply \notin {"ERROR", "ERROR_fatal"} /\ Len(session) < MaxTid
    <3>1. PICK s : /\ s = NewSession(reply, toServer[i].src) /\ session' = Append(session, s)
                   /\ toClient' = Send(toClient, CurrentPacket(Len(session) + 1, s))
      BY <2>1, <2>3, Zenon DEF ServeRRQ
    <3> QED BY <3>1, <1>1, <1>2, <1>3, <1>8, NewSessionKeepsR, Zenon
  <2>4. CASE reply \notin {"ERROR", "ERROR_fatal"} /\ ~(Len(session) < MaxTid)
    <3>1. UNCHANGED <<session, toClient>>
      BY <2>1, <2>4, Zenon DEF ServeRRQ
    <3> QED BY <3>1, <1>7, Zenon
  <2> QED BY <2>2, <2>3, <2>4, Zenon
<1>9. CASE toServer[i].op = "ACK" /\ ServeACK(toServer[i])
  <2>1. PICK t : t = toServer[i].dst
    OBVIOUS
  <2>2. PICK next : next = [session[t] EXCEPT !.blk = @ + 1]
    BY Zenon
  <2>3. t \in DOMAIN session
    BY <2>1, <1>2, <1>9, Zenon DEF RInv, TypeInv, AddressInv
  <2>4. \/ /\ toServer[i].blk = session[t].blk % TFTP_SEQUENCE_SIZE /\ ~LastBlockSent(session[t])
           /\ session' = [session EXCEPT ![t] = next]
           /\ toClient' = Send(toClient, DataPacket(t, next))
        \/ toClient' = Send(toClient, CurrentPacket(t, session[t])) /\ UNCHANGED session
        \/ UNCHANGED <<session, toClient>>
    BY <1>9, <2>1, <2>2, Zenon DEF ServeACK
  <2>5. CASE /\ toServer[i].blk = session[t].blk % TFTP_SEQUENCE_SIZE
             /\ ~LastBlockSent(session[t])
             /\ session' = [session EXCEPT ![t] = next]
             /\ toClient' = Send(toClient, DataPacket(t, next))
    BY <2>1, <2>2, <2>5, <1>1, <1>2, <1>3, <1>9, AdvanceKeepsR, Zenon
  <2>6. CASE toClient' = Send(toClient, CurrentPacket(t, session[t])) /\ UNCHANGED session
    <3>1. t \in Nat /\ session[t] \in Transfer
      BY <2>3, <1>4
    <3>2. CurrentPacket(t, session[t]) \in Reply
      BY <3>1, CurrentPacketType, Zenon
    <3>3. ReplyOK(session, CurrentPacket(t, session[t]))
      BY <2>3, <1>4, CurrentOK, Zenon DEF RInv, TransfersInv, TransferOK
    <3> QED BY <3>2, <3>3, <2>6, <1>6, Zenon
  <2>7. CASE UNCHANGED <<session, toClient>>
    BY <2>7, <1>7, Zenon
  <2> QED BY <2>4, <2>5, <2>6, <2>7, Zenon
<1> QED BY <1>1, <1>8, <1>9, Zenon

\* net_start_again() stops the client from sending, and keeps the ports in order.
LEMMA StartAgainQuiet ==
    ASSUME TypeOK, ClientInv, LoopInv, NEW handler \in {time_handler, "none"},
           net_start_again(handler), UNCHANGED tftp_our_port
    PROVE  /\ ~(udp_handler' = "tftp" /\ eth_state' = "ACTIVE")
           /\ time_handler' = "tftp" => udp_handler' = "tftp"
           /\ LoopInv' /\ net_state' \in {net_state, "FAIL"}
<1>1. tftp_our_port \in Nat /\ net_try_count \in Nat /\ RetryCnt \in Nat
  BY TftpAssumption, Zenon DEF TypeOK
<1>2. CASE net_try_count >= RetryCnt
  BY <1>2, Zenon DEF net_start_again, ClientInv, LoopInv
<1>3. CASE ~(net_try_count >= RetryCnt)
  <2>1. /\ net_try_count' = net_try_count + 1 /\ time_handler' = "start_again"
        /\ udp_handler' = "dummy" /\ net_state' = net_state
    BY <1>3, Zenon DEF net_start_again
  <2>2. tftp_our_port <= net_try_count
    BY Zenon DEF LoopInv
  <2>3. LoopInv'
    BY <2>1, <2>2, <1>1 DEF LoopInv
  <2> QED BY <2>1, <2>3, Zenon
<1> QED BY <1>2, <1>3, Zenon

\* An image that is complete stays so when it is left alone and only fails.
LEMMA CompleteStays ==
    ASSUME CompleteImage, UNCHANGED imageVars, net_state' \in {net_state, "FAIL"}
    PROVE  CompleteImage'
BY Zenon DEF CompleteImage, imageVars

\* A packet that is dropped keeps the invariant.
LEMMA IgnoreKeepsR ==
    ASSUME RInv, TypeInv', UNCHANGED session, NEW i \in DOMAIN toClient,
           toClient' = RemoveAt(toClient, i), Ignore(toClient[i])
    PROVE  RInv'
<1>1. UNCHANGED <<tftpVars, loopVars, imageVars, toServer>>
  BY Zenon DEF Ignore
<1>2. Gains(mem, mem')
  BY <1>1, Zenon DEF Gains, imageVars
<1>3. StoredInPlace' /\ CompleteImage' /\ ClientInv' /\ LoopInv'
  BY <1>1, Zenon DEF RInv, StoredInPlace, CompleteImage, ClientInv, LoopInv,
                     tftpVars, loopVars, imageVars
<1> QED BY <1>1, <1>2, <1>3, ClientStep, Zenon DEF tftpVars

\* An error, and what net_start_again() makes of it.
LEMMA RecvErrorKeepsR ==
    ASSUME RInv, TypeInv', UNCHANGED session, NEW i \in DOMAIN toClient,
           toClient' = RemoveAt(toClient, i), RecvError(toClient[i])
    PROVE  RInv'
<1>1. UNCHANGED <<tftpVars, phase, ret, imageVars, toServer>>
  BY Zenon DEF RecvError
<1>2. Gains(mem, mem') /\ StoredInPlace' /\ UNCHANGED tftp_our_port
  BY <1>1, Zenon DEF Gains, RInv, StoredInPlace, imageVars, tftpVars
<1>3. TypeOK /\ ClientInv /\ LoopInv /\ CompleteImage
  BY Zenon DEF RInv, TypeInv
<1>4. /\ ~(udp_handler' = "tftp" /\ eth_state' = "ACTIVE")
      /\ time_handler' = "tftp" => udp_handler' = "tftp"
      /\ LoopInv' /\ net_state' \in {net_state, "FAIL"}
  <2>1. CASE /\ net_state' = "FAIL" /\ eth_state' = "PASSIVE"
             /\ UNCHANGED <<net_try_count, time_handler, udp_handler>>
    BY <2>1, <1>2, <1>3, Zenon DEF ClientInv, LoopInv
  <2>2. CASE net_start_again(time_handler)
    BY <2>2, <1>2, <1>3, StartAgainQuiet, Zenon
  <2> QED BY <2>1, <2>2, Zenon DEF RecvError
<1>5. ClientInv'
  BY <1>1, <1>3, <1>4, Zenon DEF ClientInv, tftpVars, imageVars
<1>6. CompleteImage'
  BY <1>1, <1>3, <1>4, CompleteStays, Zenon
<1> QED BY <1>1, <1>2, <1>4, <1>5, <1>6, ClientStep, Zenon DEF tftpVars

\* A DATA packet that is let through is of a transfer with the client's block
\* size, and memory holds the blocks before it.
LEMMA DataLetThrough ==
    ASSUME RInv, NEW i \in DOMAIN toClient, NEW m, m = toClient[i], Accepts(m), m.op = "DATA"
    PROVE  /\ m.src \in DOMAIN session /\ m.src \in Nat
           /\ tftp_state # "SEND_RRQ" => m.src = tftp_remote_port
           /\ session[m.src].bs = tftp_block_size
           /\ m.blk \in Nat /\ m.blk >= 1 /\ m.blk \in BlockNumber
           /\ m.from = (m.blk - 1) * tftp_block_size
           /\ m.len = BlockLen(tftp_block_size, m.blk)
           /\ (m.blk - 1) * tftp_block_size <= FileSize
           /\ Holds(mem, (m.blk - 1) * tftp_block_size)
<1> DEFINE s == session[m.src]
<1>1. toClient \in Seq(Reply) /\ session \in Seq(Transfer)
  BY Zenon DEF RInv, TypeInv, TypeOK
<1>2. m \in Reply
  BY <1>1
<1>3. m.src \in Nat /\ m.blk \in BlockNumber
  BY <1>2 DEF Reply
<1>4. m.src \in DOMAIN session
  BY Zenon DEF RInv, TypeInv, AddressInv
<1>5. s \in Transfer
  BY <1>1, <1>4
<1>6. s.blk \in Nat /\ s.bs \in Nat
  BY <1>5, TftpAssumption DEF Transfer, BlockSize
<1>7. m.dst = s.peer /\ m.blk \in 1 .. s.blk /\ m.from = (m.blk - 1) * s.bs
      /\ m.len = BlockLen(s.bs, m.blk)
  BY Zenon DEF RInv, RepliesInv, ReplyOK
<1>8. m.blk \in Nat /\ m.blk >= 1 /\ m.blk <= s.blk /\ s.blk > 0
  BY <1>6, <1>7
<1>9. TransferOK(mem, s)
  BY <1>4, Zenon DEF RInv, TransfersInv
<1>10. (m.blk - 1) * s.bs <= FileSize /\ Holds(mem, (m.blk - 1) * s.bs)
  <2>1. (s.blk - 1) * s.bs <= FileSize /\ Holds(mem, (s.blk - 1) * s.bs)
    BY <1>8, <1>9, Zenon DEF TransferOK
  <2>2. (m.blk - 1) * s.bs \in Int /\ (s.blk - 1) * s.bs \in Int
        /\ (m.blk - 1) * s.bs <= (s.blk - 1) * s.bs
    BY <1>6, <1>8, MulMono
  <2>3. (m.blk - 1) * s.bs <= FileSize
    BY <2>1, <2>2, TftpAssumption
  <2> QED BY <2>1, <2>2, <2>3, HoldsFewer, Zenon
<1>11. s.bs = tftp_block_size
  <2>1. CASE tftp_state # "SEND_RRQ"
    BY <2>1, Zenon DEF RInv, ClientInv, Accepts
  <2>2. CASE tftp_state = "SEND_RRQ"
    <3>1. tftp_block_size = TFTP_BLOCK_SIZE
      BY <2>2, Zenon DEF RInv, ClientInv
    <3>2. CASE PortReuse
      BY <3>1, <3>2, <1>4, Zenon DEF RInv, AttemptInv
    <3>3. CASE ~PortReuse
      <4>1. s.peer = tftp_our_port
        BY <1>7, Zenon DEF Accepts
      <4>2. s.oack = 0
        BY <2>2, <3>3, <4>1, <1>4, <1>8 DEF RInv, AttemptInv
      <4> QED BY <3>1, <4>2, <1>9, Zenon DEF TransferOK
    <3> QED BY <3>2, <3>3, Zenon
  <2> QED BY <2>1, <2>2, Zenon
<1>12. tftp_state # "SEND_RRQ" => m.src = tftp_remote_port
  BY Zenon DEF Accepts
<1> HIDE DEF s
<1>13. s.bs = session[m.src].bs
  BY Zenon DEF s
<1> QED BY <1>3, <1>4, <1>7, <1>8, <1>10, <1>11, <1>12, <1>13

\* update_block_number() and new_transfer() on such a packet: no wrap is counted.
LEMMA NoteNoWrap ==
    ASSUME RInv, NEW m, m.blk \in Nat, m.blk >= 1, NoteBlock(m),
           tftp_state # "SEND_RRQ" => m.src = tftp_remote_port
    PROVE  /\ tftp_block_wrap_offset' = 0 /\ tftp_cur_block' = m.blk
           /\ tftp_state' = "DATA" /\ tftp_remote_port' = m.src
           /\ UNCHANGED <<tftp_block_size, tftp_our_port>>
<1>1. ~Wrapped(m.blk)
  BY DEF Wrapped
<1>2. tftp_block_wrap_offset = 0
  BY Zenon DEF RInv, ClientInv
<1>3. ~First => tftp_state # "SEND_RRQ"
  BY Zenon DEF First
<1> QED BY <1>1, <1>2, <1>3, Zenon DEF NoteBlock

\* A block stored and acknowledged keeps the invariant.
LEMMA RecvBlockKeepsR ==
    ASSUME RInv, TypeInv', UNCHANGED session, NEW i \in DOMAIN toClient,
           toClient' = RemoveAt(toClient, i), RecvBlock(toClient[i])
    PROVE  RInv'
<1>0. PICK m : m = toClient[i]
  OBVIOUS
<1> DEFINE b == tftp_block_size
           p == Outgoing("DATA", m.blk, m.src, tftp_our_port)
<1>1. /\ Accepts(m) /\ m.op = "DATA" /\ NoteBlock(m) /\ tftp_prev_block' = m.blk
      /\ store_block(m.blk - 1, tftp_block_wrap_offset', m)
      /\ Transmit(Outgoing("DATA", m.blk, tftp_remote_port', tftp_our_port))
      /\ net_state' = IF m.len < b THEN "SUCCESS" ELSE net_state
      /\ time_handler' = "tftp"
      /\ UNCHANGED <<net_try_count, udp_handler, eth_state, phase, ret>>
  BY <1>0, Zenon DEF RecvBlock
<1>2. /\ m.src \in DOMAIN session /\ m.src \in Nat
      /\ tftp_state # "SEND_RRQ" => m.src = tftp_remote_port
      /\ session[m.src].bs = b
      /\ m.blk \in Nat /\ m.blk >= 1 /\ m.blk \in BlockNumber
      /\ m.from = (m.blk - 1) * b /\ m.len = BlockLen(b, m.blk)
      /\ (m.blk - 1) * b <= FileSize /\ Holds(mem, (m.blk - 1) * b)
  BY <1>0, <1>1, DataLetThrough, Zenon
<1>3. /\ tftp_block_wrap_offset' = 0 /\ tftp_cur_block' = m.blk
      /\ tftp_state' = "DATA" /\ tftp_remote_port' = m.src
      /\ UNCHANGED <<tftp_block_size, tftp_our_port>>
  BY <1>1, <1>2, NoteNoWrap, Zenon
<1>4. TypeOK /\ StoredInPlace /\ net_boot_file_size <= FileSize /\ LoopInv /\ CompleteImage
      /\ tftp_our_port \in Nat /\ b \in Nat /\ net_boot_file_size \in Int
      /\ net_boot_file_size' \in Int
  BY TftpAssumption, Zenon DEF RInv, ClientInv, TypeInv, TypeOK, BlockSize
<1>5. PICK c \in Nat : c = m.blk - 1
  BY <1>2
<1>6. /\ StoredInPlace' /\ Gains(mem, mem') /\ Holds(mem', m.blk * b)
      /\ net_boot_file_size' <= FileSize /\ net_boot_file_size' >= net_boot_file_size
      /\ m.len < b => net_boot_file_size' = FileSize /\ Holds(mem', FileSize)
  <2>1. c + 1 = m.blk
    BY <1>2, <1>5
  <2>2. (m.blk - 1) * b + 0 = c * b
    BY <1>4, <1>5
  <2>3. store_block(m.blk - 1, 0, m)
    BY <1>1, <1>3, Zenon
  <2> HIDE DEF b
  <2>4. c * b <= FileSize /\ Holds(mem, c * b) /\ m.from = c * b /\ m.len = BlockLen(b, c + 1)
    BY <2>1, <1>2, <1>5, Zenon
  <2>5. /\ StoredInPlace' /\ Gains(mem, mem') /\ Holds(mem', (c + 1) * b)
        /\ net_boot_file_size' <= FileSize /\ net_boot_file_size' >= net_boot_file_size
        /\ m.len < b => net_boot_file_size' = FileSize /\ Holds(mem', FileSize)
    BY <2>2, <2>3, <2>4, <1>4, StoreAtPlace, Zenon DEF b
  <2> QED BY <2>1, <2>5, Zenon
<1>7. p \in Request /\ p.op = "ACK" /\ p.dst = m.src /\ p.blk = m.blk
  BY <1>2, <1>4 DEF Outgoing, Request
<1>8. RequestOK(mem', session, p)
  BY <1>2, <1>6, <1>7, Zenon DEF RequestOK
<1>9. Transmit(p)
  BY <1>1, <1>3, Zenon
<1>10. CompleteImage'
  <2>1. CASE m.len < b
    BY <2>1, <1>6, TftpAssumption DEF CompleteImage, Holds
  <2>2. CASE ~(m.len < b)
    <3>1. net_state' = net_state
      BY <2>2, <1>1, Zenon
    <3> SUFFICES ASSUME net_state = "SUCCESS"
                 PROVE  net_boot_file_size' = FileSize /\ \A q \in 0 .. FileSize - 1 : mem'[q] = q
      BY <3>1, Zenon DEF CompleteImage
    <3>2. net_boot_file_size = FileSize /\ \A q \in 0 .. FileSize - 1 : mem[q] = q
      BY <1>4, Zenon DEF CompleteImage
    <3>3. net_boot_file_size' = FileSize
      BY <3>2, <1>4, <1>6, TftpAssumption
    <3> QED BY <3>2, <3>3, <1>6, Zenon DEF Gains
  <2> QED BY <2>1, <2>2, Zenon
<1>11. ClientInv'
  BY <1>1, <1>2, <1>3, <1>6, Zenon DEF ClientInv, Accepts
<1>12. LoopInv'
  BY <1>1, <1>3, <1>4, Zenon DEF LoopInv
<1> HIDE DEF p
<1> QED BY <1>3, <1>6, <1>7, <1>8, <1>9, <1>10, <1>11, <1>12, ClientStep, Zenon

\* A block repeated to the client keeps the invariant.
LEMMA RecvSameKeepsR ==
    ASSUME RInv, TypeInv', UNCHANGED session, NEW i \in DOMAIN toClient,
           toClient' = RemoveAt(toClient, i), RecvSame(toClient[i])
    PROVE  RInv'
<1>0. PICK m : m = toClient[i]
  OBVIOUS
<1>1. /\ Accepts(m) /\ m.op = "DATA" /\ ~First /\ m.blk = tftp_prev_block /\ NoteBlock(m)
      /\ UNCHANGED <<tftp_prev_block, loopVars, imageVars, toServer>>
  BY <1>0, Zenon DEF RecvSame
<1>2. /\ tftp_state # "SEND_RRQ" => m.src = tftp_remote_port
      /\ session[m.src].bs = tftp_block_size /\ m.blk \in Nat /\ m.blk >= 1
  BY <1>0, <1>1, DataLetThrough, Zenon
<1>3. /\ tftp_block_wrap_offset' = 0 /\ tftp_cur_block' = m.blk
      /\ tftp_state' = "DATA" /\ tftp_remote_port' = m.src
      /\ UNCHANGED <<tftp_block_size, tftp_our_port>>
  BY <1>1, <1>2, NoteNoWrap, Zenon
<1>4. tftp_state = "DATA"
  BY <1>1, Zenon DEF First, RInv, TypeInv, TypeOK
<1>5. Holds(mem, tftp_prev_block * tftp_block_size)
  BY <1>4, Zenon DEF RInv, ClientInv
<1>6. UNCHANGED <<net_state, net_try_count, time_handler, udp_handler, eth_state,
                  net_boot_file_size, mem, toServer, tftp_prev_block>>
  BY <1>1, Zenon DEF loopVars, imageVars
<1>7. ClientInv'
  BY <1>1, <1>2, <1>3, <1>5, <1>6, Zenon DEF RInv, ClientInv
<1>8. Gains(mem, mem') /\ StoredInPlace' /\ CompleteImage' /\ LoopInv'
  BY <1>3, <1>6, Zenon DEF Gains, RInv, StoredInPlace, CompleteImage, LoopInv
<1> QED BY <1>3, <1>6, <1>7, <1>8, ClientStep, Zenon

\* A first block that is not block 1 keeps the invariant: the attempt is over.
LEMMA RecvBadFirstKeepsR ==
    ASSUME RInv, TypeInv', UNCHANGED session, NEW i \in DOMAIN toClient,
           toClient' = RemoveAt(toClient, i), RecvBadFirst(toClient[i])
    PROVE  RInv'
<1>0. PICK m : m = toClient[i]
  OBVIOUS
<1>1. /\ Accepts(m) /\ m.op = "DATA" /\ NoteBlock(m) /\ tftp_prev_block' = 0
      /\ net_start_again(time_handler) /\ UNCHANGED <<phase, ret, imageVars, toServer>>
  BY <1>0, Zenon DEF RecvBadFirst
<1>2. /\ tftp_state # "SEND_RRQ" => m.src = tftp_remote_port
      /\ session[m.src].bs = tftp_block_size /\ m.blk \in Nat /\ m.blk >= 1
  BY <1>0, <1>1, DataLetThrough, Zenon
<1>3. /\ tftp_block_wrap_offset' = 0 /\ tftp_cur_block' = m.blk
      /\ tftp_state' = "DATA" /\ tftp_remote_port' = m.src
      /\ UNCHANGED <<tftp_block_size, tftp_our_port>>
  BY <1>1, <1>2, NoteNoWrap, Zenon
<1>4. TypeOK /\ ClientInv /\ LoopInv /\ CompleteImage
  BY Zenon DEF RInv, TypeInv
<1>5. /\ ~(udp_handler' = "tftp" /\ eth_state' = "ACTIVE")
      /\ time_handler' = "tftp" => udp_handler' = "tftp"
      /\ LoopInv' /\ net_state' \in {net_state, "FAIL"}
  BY <1>1, <1>3, <1>4, StartAgainQuiet, Zenon
<1>6. Holds(mem, tftp_prev_block' * tftp_block_size')
  <2>1. tftp_prev_block' * tftp_block_size' \in Int /\ tftp_prev_block' * tftp_block_size' <= 0
    <3>1. tftp_block_size \in Nat
      BY <1>4, TftpAssumption, Zenon DEF TypeOK, BlockSize
    <3> QED BY <3>1, <1>1, <1>3
  <2> QED BY <2>1, HoldsNone, Zenon
<1>7. UNCHANGED <<net_boot_file_size, mem>>
  BY <1>1, Zenon DEF imageVars
<1>8. ClientInv'
  BY <1>2, <1>3, <1>4, <1>5, <1>6, <1>7, Zenon DEF ClientInv
<1>9. Gains(mem, mem') /\ StoredInPlace'
  BY <1>7, Zenon DEF Gains, RInv, StoredInPlace
<1>10. CompleteImage'
  BY <1>1, <1>4, <1>5, CompleteStays, Zenon
<1> QED BY <1>1, <1>3, <1>5, <1>8, <1>9, <1>10, ClientStep, Zenon

\* An OACK, however late, keeps the invariant: it tells the block size of the
\* transfer it comes from.
LEMMA RecvOackKeepsR ==
    ASSUME RInv, TypeInv', UNCHANGED session, NEW i \in DOMAIN toClient,
           toClient' = RemoveAt(toClient, i), RecvOack(toClient[i])
    PROVE  RInv'
<1>0. PICK m : m = toClient[i]
  OBVIOUS
<1> DEFINE p == Outgoing("OACK", tftp_cur_block, m.src, tftp_our_port)
<1>1. /\ Accepts(m) /\ m.op = "OACK"
      /\ tftp_state' = "OACK" /\ tftp_remote_port' = m.src
      /\ tftp_block_size' = IF m.size = 0 THEN tftp_block_size ELSE m.size
      /\ Transmit(p)
      /\ UNCHANGED <<tftp_cur_block, tftp_prev_block, tftp_block_wrap_offset,
                     tftp_our_port, timeout_count, loopVars, imageVars>>
  BY <1>0, Zenon DEF RecvOack
<1>2. m.src \in DOMAIN session
  BY <1>0, <1>1, Zenon DEF RInv, TypeInv, AddressInv
<1>3. /\ m.size = session[m.src].oack
      /\ session[m.src].bs = IF session[m.src].oack = 0 THEN TFTP_BLOCK_SIZE
                             ELSE session[m.src].oack
  <2>1. TransferOK(mem, session[m.src])
    BY <1>2, Zenon DEF RInv, TransfersInv
  <2> QED BY <2>1, <1>0, <1>1, Zenon DEF TransferOK, RInv, RepliesInv, ReplyOK
<1>4. ClientInv
  BY Zenon DEF RInv
<1>5. tftp_block_size' = session[m.src].bs
      /\ (tftp_state # "SEND_RRQ" => session[m.src].bs = tftp_block_size)
  <2>1. CASE tftp_state = "SEND_RRQ"
    BY <2>1, <1>1, <1>3, <1>4, Zenon DEF ClientInv
  <2>2. CASE tftp_state # "SEND_RRQ"
    <3>1. m.src = tftp_remote_port
      BY <2>2, <1>1, Zenon DEF Accepts
    <3> QED BY <2>2, <3>1, <1>1, <1>3, <1>4, Zenon DEF ClientInv
  <2> QED BY <2>1, <2>2, Zenon
<1>6. UNCHANGED <<net_state, net_try_count, time_handler, udp_handler, eth_state,
                  net_boot_file_size, mem>>
  BY <1>1, Zenon DEF loopVars, imageVars
<1>7. udp_handler = "tftp"
  BY <1>1, Zenon DEF Accepts
<1>8. eth_state = "ACTIVE" => Holds(mem, tftp_cur_block * session[m.src].bs)
  <2>1. CASE tftp_state = "SEND_RRQ"
    <3>1. tftp_cur_block = 0 /\ session[m.src].bs \in Nat
      <4>1. session \in Seq(Transfer)
        BY Zenon DEF RInv, TypeInv, TypeOK
      <4>2. session[m.src] \in Transfer
        BY <4>1, <1>2
      <4>3. session[m.src].bs \in Nat
        BY <4>2, TftpAssumption DEF Transfer, BlockSize
      <4> QED BY <4>3, <2>1, <1>4, Zenon DEF ClientInv
    <3>2. tftp_cur_block * session[m.src].bs \in Int /\ tftp_cur_block * session[m.src].bs <= 0
      BY <3>1
    <3> QED BY <3>2, HoldsNone, Zenon
  <2>2. CASE tftp_state # "SEND_RRQ"
    BY <2>2, <1>4, <1>5, <1>7, Zenon DEF ClientInv
  <2> QED BY <2>1, <2>2, Zenon
<1>9. ClientInv'
  BY <1>1, <1>4, <1>5, <1>6, <1>8, Zenon DEF ClientInv
<1>10. p \in Request /\ p.op = "ACK" /\ p.dst = m.src /\ p.blk = tftp_cur_block
  <2>1. tftp_our_port \in Nat /\ tftp_cur_block \in BlockNumber /\ tftp_remote_port' \in Nat
    BY Zenon DEF RInv, TypeInv, TypeOK
  <2> QED BY <2>1, <1>1 DEF Outgoing, Request
<1>11. eth_state = "ACTIVE" => RequestOK(mem', session, p)
  BY <1>6, <1>8, <1>10, Zenon DEF RequestOK
<1>12. Gains(mem, mem') /\ StoredInPlace' /\ CompleteImage' /\ LoopInv'
  BY <1>1, <1>6, Zenon DEF Gains, RInv, StoredInPlace, CompleteImage, LoopInv
<1> HIDE DEF p
<1> QED BY <1>1, <1>9, <1>10, <1>11, <1>12, ClientStep, Zenon

\* Every packet received keeps the invariant.
LEMMA ClientReceiveKeepsR == RInv /\ TypeInv' /\ ClientReceive => RInv'
<1> SUFFICES ASSUME RInv, TypeInv', ClientReceive PROVE RInv'
  OBVIOUS
<1>1. PICK i \in Deliverable(toClient) :
          /\ toClient' = RemoveAt(toClient, i)
          /\ \/ Ignore(toClient[i]) \/ RecvOack(toClient[i]) \/ RecvBadFirst(toClient[i])
             \/ RecvSame(toClient[i]) \/ RecvBlock(toClient[i]) \/ RecvError(toClient[i])
  BY Zenon DEF ClientReceive
<1>2. i \in DOMAIN toClient
  BY DEF Deliverable
<1>3. UNCHANGED session
  BY Zenon DEF ClientReceive
<1> QED BY <1>1, <1>2, <1>3, IgnoreKeepsR, RecvOackKeepsR, RecvBadFirstKeepsR, RecvSameKeepsR,
           RecvBlockKeepsR, RecvErrorKeepsR, Zenon

\* A timeout, whether it repeats a packet or ends the attempt.
LEMMA TftpTimeoutKeepsR == RInv /\ TypeInv' /\ TftpTimeout => RInv'
<1> SUFFICES ASSUME RInv, TypeInv', TftpTimeout PROVE RInv'
  OBVIOUS
<1> DEFINE p == Outgoing(tftp_state, tftp_cur_block, tftp_remote_port, tftp_our_port)
<1>1. UNCHANGED <<tftp_state, tftp_cur_block, tftp_prev_block, tftp_block_wrap_offset,
                  tftp_block_size, tftp_remote_port, tftp_our_port,
                  ret, imageVars, toClient, session>>
  BY Zenon DEF TftpTimeout
<1>2. UNCHANGED <<net_boot_file_size, mem>>
  BY <1>1, Zenon DEF imageVars
<1>3. TypeOK /\ ClientInv /\ LoopInv /\ CompleteImage /\ StoredInPlace
  BY Zenon DEF RInv, TypeInv
<1>4. Gains(mem, mem') /\ StoredInPlace'
  BY <1>2, <1>3, Zenon DEF Gains, StoredInPlace
<1>5. CASE net_start_again("none") /\ UNCHANGED toServer
  <2>1. /\ ~(udp_handler' = "tftp" /\ eth_state' = "ACTIVE")
        /\ time_handler' = "tftp" => udp_handler' = "tftp"
        /\ LoopInv' /\ net_state' \in {net_state, "FAIL"}
    BY <1>1, <1>3, <1>5, StartAgainQuiet, Zenon
  <2>2. ClientInv'
    BY <2>1, <1>1, <1>2, <1>3, Zenon DEF ClientInv
  <2>3. CompleteImage'
    BY <2>1, <1>1, <1>3, CompleteStays, Zenon
  <2> QED BY <2>1, <2>2, <2>3, <1>1, <1>4, <1>5, ClientStep, Zenon
<1>6. CASE /\ Transmit(p)
           /\ UNCHANGED <<net_state, net_try_count, time_handler, udp_handler, eth_state>>
  <2>1. p \in Request /\ (p.op = "RRQ" => p.src = tftp_our_port)
        /\ (p.op = "ACK" => tftp_state # "SEND_RRQ" /\ p.dst = tftp_remote_port
                            /\ p.blk = tftp_cur_block)
    BY <1>3, OutgoingType DEF TypeOK
  <2> HIDE DEF p
  <2>2. udp_handler = "tftp"
    BY <1>3, Zenon DEF TftpTimeout, ClientInv
  <2>3. eth_state = "ACTIVE" => RequestOK(mem', session, p)
    BY <2>1, <2>2, <1>2, <1>3, Zenon DEF RequestOK, ClientInv
  <2>4. ClientInv' /\ LoopInv' /\ CompleteImage'
    BY <1>1, <1>2, <1>3, <1>6, Zenon DEF ClientInv, LoopInv, CompleteImage
  <2> QED BY <2>1, <2>3, <2>4, <1>1, <1>4, <1>6, ClientStep, Zenon
<1> QED BY <1>5, <1>6, Zenon DEF TftpTimeout

\* The end of net_loop and ctrl-C keep the invariant.
LEMMA ReturnKeepsR == RInv /\ TypeInv' /\ (NetLoopReturn \/ CtrlC) => RInv'
<1> SUFFICES ASSUME RInv, TypeInv', NetLoopReturn \/ CtrlC PROVE RInv'
  OBVIOUS
<1>1. /\ time_handler' = "none" /\ udp_handler' = "dummy"
      /\ UNCHANGED <<tftpVars, imageVars, net_state, net_try_count, toServer, toClient, session>>
  BY Zenon DEF NetLoopReturn, CtrlC
<1>2. Gains(mem, mem') /\ StoredInPlace' /\ CompleteImage' /\ LoopInv' /\ ClientInv'
  BY <1>1, Zenon DEF Gains, RInv, StoredInPlace, CompleteImage, LoopInv, ClientInv,
                     tftpVars, imageVars
<1> QED BY <1>1, <1>2, ClientStep, Zenon DEF tftpVars

\* A restart keeps the invariant: the memory keeps what earlier attempts stored.
LEMMA StartAgainKeepsR == RInv /\ TypeInv' /\ StartAgainTimeout => RInv'
<1> SUFFICES ASSUME RInv, TypeInv', StartAgainTimeout PROVE RInv'
  OBVIOUS
<1> DEFINE p == Outgoing("SEND_RRQ", 0, WELL_KNOWN_PORT, tftp_our_port')
<1>1. /\ time_handler = "start_again" /\ net_state' = "CONTINUE" /\ net_boot_file_size' = 0
      /\ tftp_state' = "SEND_RRQ" /\ tftp_cur_block' = 0 /\ tftp_block_size' = TFTP_BLOCK_SIZE
      /\ time_handler' = "tftp" /\ udp_handler' = "tftp" /\ Transmit(p)
      /\ tftp_our_port' \in IF PortReuse THEN 1 .. net_try_count ELSE {net_try_count}
      /\ UNCHANGED <<tftp_prev_block, tftp_block_wrap_offset, net_try_count, eth_state,
                     phase, ret, mem, toClient, session>>
  BY Zenon DEF StartAgainTimeout, tftp_start
<1>2. /\ net_try_count \in Nat /\ tftp_our_port' \in Nat /\ tftp_our_port \in Nat
      /\ toServer \in Seq(Request) /\ session \in Seq(Transfer)
  BY Zenon DEF RInv, TypeInv, TypeOK
<1>3. p \in Request /\ p.op = "RRQ" /\ p.src = tftp_our_port'
  BY <1>2 DEF Outgoing, Request
<1> HIDE DEF p
<1>4. \A j \in DOMAIN toServer' :
         (j \in DOMAIN toServer /\ toServer'[j] = toServer[j]) \/ toServer'[j] = p
  BY <1>1, <1>2, <1>3, TransmitProperties, Zenon
<1>5. TransfersInv' /\ RepliesInv' /\ StoredInPlace'
  BY <1>1, Zenon DEF RInv, TransfersInv, RepliesInv, StoredInPlace
<1>6. RequestsInv'
  <2>1. p.op # "ACK"
    BY <1>3
  <2> QED BY <2>1, <1>1, <1>4, Zenon DEF RInv, RequestsInv, RequestOK
<1>7. CompleteImage'
  BY <1>1 DEF CompleteImage
<1>8. ClientInv'
  <2>1. 0 * TFTP_BLOCK_SIZE \in Int /\ 0 * TFTP_BLOCK_SIZE <= 0 /\ 0 <= FileSize
    BY TftpAssumption
  <2>2. Holds(mem, 0 * TFTP_BLOCK_SIZE)
    BY <2>1, HoldsNone, Zenon
  <2>3. tftp_state' # "DATA" /\ ~(tftp_state' # "SEND_RRQ")
    BY <1>1
  <2>4. tftp_block_wrap_offset' = 0
    BY <1>1, Zenon DEF RInv, ClientInv
  <2> QED BY <2>1, <2>2, <2>3, <2>4, <1>1, Zenon DEF ClientInv
<1>9. tftp_our_port < net_try_count
  BY <1>1, Zenon DEF RInv, LoopInv
<1>10. LoopInv'
  <2>1. tftp_our_port' <= net_try_count
    BY <1>1, <1>2
  <2> QED BY <2>1, <1>1 DEF LoopInv
<1>11. AttemptInv'
  <2>1. CASE PortReuse
    BY <2>1, <1>1, Zenon DEF RInv, AttemptInv
  <2>2. CASE ~PortReuse
    <3>1. /\ \A t \in DOMAIN session : session[t].peer <= tftp_our_port
          /\ \A j \in DOMAIN toServer :
                toServer[j].op = "RRQ" => toServer[j].src <= tftp_our_port
      BY <2>2, Zenon DEF RInv, AttemptInv
    <3>2. tftp_our_port' = net_try_count
      BY <2>2, <1>1
    <3>3. \A t \in DOMAIN session : session[t].peer < tftp_our_port'
      <4> TAKE t \in DOMAIN session
      <4>1. session[t] \in Transfer
        BY <1>2
      <4>2. session[t].peer \in Nat
        BY <4>1 DEF Transfer
      <4> QED BY <4>2, <3>1, <3>2, <1>2, <1>9
    <3>4. \A t \in DOMAIN session :
             session[t].peer <= tftp_our_port' /\ session[t].peer # tftp_our_port'
      <4> TAKE t \in DOMAIN session
      <4>1. session[t] \in Transfer
        BY <1>2
      <4>2. session[t].peer \in Nat
        BY <4>1 DEF Transfer
      <4> QED BY <4>2, <3>3, <1>2
    <3>5. \A j \in DOMAIN toServer' :
             toServer'[j].op = "RRQ" => toServer'[j].src <= tftp_our_port'
      <4> SUFFICES ASSUME NEW j \in DOMAIN toServer', toServer'[j].op = "RRQ"
                   PROVE  toServer'[j].src <= tftp_our_port'
        OBVIOUS
      <4>1. CASE toServer'[j] = p
        BY <4>1, <1>2, <1>3
      <4>2. CASE j \in DOMAIN toServer /\ toServer'[j] = toServer[j]
        <5>1. toServer[j].src <= tftp_our_port
          BY <4>2, <3>1, Zenon
        <5>2. toServer[j] \in Request
          BY <4>2, <1>2
        <5>3. toServer[j].src \in Nat
          BY <5>2 DEF Request
        <5> QED BY <4>2, <5>1, <5>3, <3>2, <1>2, <1>9
      <4> QED BY <4>1, <4>2, <1>4, Zenon
    <3> QED BY <2>2, <3>4, <3>5, <1>1, Zenon DEF AttemptInv
  <2> QED BY <2>1, <2>2, Zenon
<1> QED BY <1>5, <1>6, <1>7, <1>8, <1>10, <1>11, Zenon DEF RInv

\* The invariant holds initially.
LEMMA InitRInv == Init => RInv
<1> SUFFICES ASSUME Init PROVE RInv
  OBVIOUS
<1>1. TypeInv
  BY InitTypeInv, Zenon
<1>2. StoredInPlace /\ CompleteImage
  BY DEF Init, StoredInPlace, CompleteImage
<1>3. session = <<>> /\ toClient = <<>> /\ DOMAIN session = {} /\ DOMAIN toClient = {}
  BY DEF Init
<1>4. TransfersInv /\ RepliesInv
  BY <1>3, Zenon DEF TransfersInv, RepliesInv
<1>5. \A i \in DOMAIN toServer : toServer[i].op = "RRQ" /\ toServer[i].src = tftp_our_port
  BY DEF Init, Outgoing
<1>6. RequestsInv
  BY <1>5 DEF RequestsInv, RequestOK
<1>7. ClientInv
  <2>1. 0 * TFTP_BLOCK_SIZE \in Int /\ 0 * TFTP_BLOCK_SIZE <= 0 /\ 0 <= FileSize
    BY TftpAssumption
  <2>2. Holds(mem, 0 * TFTP_BLOCK_SIZE)
    BY <2>1, HoldsNone, Zenon
  <2> QED BY <2>1, <2>2 DEF Init, ClientInv
<1>8. LoopInv
  BY DEF Init, LoopInv
<1>9. AttemptInv
  <2>1. tftp_our_port <= tftp_our_port
    BY DEF Init
  <2> QED BY <2>1, <1>3, <1>5 DEF AttemptInv
<1> QED BY <1>1, <1>2, <1>4, <1>6, <1>7, <1>8, <1>9, Zenon DEF RInv

\* Every step keeps the invariant.
LEMMA NextRInv ==
    ASSUME NoWrap, OneBlockSize
    PROVE  RInv /\ [Next]_vars => RInv'
<1> SUFFICES ASSUME RInv, [Next]_vars PROVE RInv'
  OBVIOUS
<1>1. TypeInv'
  BY NextTypeInv, Zenon DEF RInv
<1>2. CASE Client
  BY <1>1, <1>2, ClientReceiveKeepsR, TftpTimeoutKeepsR, StartAgainKeepsR, ReturnKeepsR, Zenon
     DEF Client
<1>3. CASE ServerReceive \/ ServerRetransmit \/ ServerError \/ Lose
  BY <1>1, <1>3, ServerReceiveKeepsR, ServerRetransmitKeepsR, ServerErrorKeepsR, LoseKeepsR, Zenon
<1>4. CASE UNCHANGED vars
  BY <1>1, <1>4, Zenon DEF vars, tftpVars, loopVars, imageVars, RInv, StoredInPlace,
     CompleteImage, TransfersInv, RepliesInv, RequestsInv, ClientInv, LoopInv, AttemptInv
<1> QED BY <1>2, <1>3, <1>4, Zenon DEF Next

\* The server is not ahead of the memory, whichever transfer the client follows.
LEMMA RInvAcked == RInv => AckedIsStored
<1> SUFFICES ASSUME RInv, NEW t \in DOMAIN session,
                    NEW p \in 0 .. (session[t].blk - 1) * session[t].bs - 1
             PROVE  mem[p] = p
  BY Zenon DEF AckedIsStored
<1> DEFINE n == (session[t].blk - 1) * session[t].bs
<1>1. session[t] \in Transfer
  BY DEF RInv, TypeInv, TypeOK
<1>2. session[t].blk \in Nat /\ session[t].bs \in Nat /\ FileSize \in Nat
  BY <1>1, TftpAssumption DEF Transfer, BlockSize
<1>3. Holds(mem, n) /\ (session[t].blk > 0 => n <= FileSize)
  BY Zenon DEF RInv, TransfersInv, TransferOK
<1>4. n \in Int /\ (session[t].blk = 0 => n <= 0)
  BY <1>2
<1> HIDE DEF n
<1>5. p \in 0 .. n - 1
  BY Zenon DEF n
<1>6. p \in 0 .. FileSize - 1 /\ p < n
  BY <1>2, <1>3, <1>4, <1>5
<1> QED BY <1>3, <1>6, Zenon DEF Holds

\* A file that ends before the block number wraps is stored in place, reported
\* complete only when it is, and never acknowledged ahead of what is stored, on
\* every network: whatever is lost, repeated, delayed or overtaken, and even
\* when a retry draws an earlier attempt's port, provided such attempts use one
\* block size.
THEOREM ShortFileIntegrity ==
    ASSUME NoWrap, OneBlockSize
    PROVE  Spec => [](StoredInPlace /\ CompleteImage /\ AckedIsStored)
<1>1. Init => RInv
  BY InitRInv
<1>2. RInv /\ [Next]_vars => RInv'
  BY NextRInv
<1>3. RInv => StoredInPlace /\ CompleteImage /\ AckedIsStored
  BY RInvAcked DEF RInv
<1> QED BY <1>1, <1>2, <1>3, PTL DEF Spec
=============================================================================
