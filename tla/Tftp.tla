-------------------------------- MODULE Tftp --------------------------------
(***************************************************************************)
(* The TFTP download of U-Boot (net/tftp.c) as `dhcp' and `tftpboot' run   *)
(* it from net_loop (net/net.c), against a TFTP server over an unreliable  *)
(* network.  One network interface, as on the NanoPi Fire3; TFTPPUT,       *)
(* TFTPSRV, multicast and tsize are not configured and are left out, and   *)
(* the ARP exchange that precedes the first packet is in module NetLoop.   *)
(*                                                                         *)
(* File contents are abstracted to positions: the file is the units        *)
(* 0 .. FileSize-1, unit i having the value i, and a DATA packet carries   *)
(* len units from position from on.  A block number is 16 bits wide on     *)
(* the wire: TFTP_SEQUENCE_SIZE stands for 65536.                          *)
(***************************************************************************)
EXTENDS Integers, Sequences

CONSTANTS
    TFTP_SEQUENCE_SIZE,     \* block numbers are taken modulo this
    TFTP_BLOCK_SIZE,        \* the default block size (512), in units
    tftp_block_size_option, \* the block size the RRQ asks for (1468), in units
    tftp_timeout_count_max, \* timeouts before the transfer is given up
    RetryCnt,               \* net_start_again's retrycnt, from `netretry'
    FileSize,               \* length of the file on the server, in units
    Replies,                \* what the server may answer to an RRQ, errors at any time
    Reorder,                \* may the network deliver out of order?
    PortReuse,              \* may a retry draw an earlier attempt's UDP port?
    MaxTid,                 \* bound: server transfers, one per RRQ served
    Cap                     \* bound: packets in flight in each direction

ASSUME TftpAssumption ==
    /\ TFTP_SEQUENCE_SIZE \in Nat /\ TFTP_SEQUENCE_SIZE >= 2
    /\ TFTP_BLOCK_SIZE \in Nat \ {0} /\ tftp_block_size_option \in Nat \ {0}
    /\ tftp_timeout_count_max \in Nat /\ RetryCnt \in Nat
    /\ FileSize \in Nat /\ MaxTid \in Nat /\ Cap \in Nat
    /\ Replies \subseteq {"DATA", "OACK", "OACK_blksize", "ERROR_fatal", "ERROR"}

ASSUME NetworkAssumption == Reorder \in BOOLEAN /\ PortReuse \in BOOLEAN

VARIABLES
    tftp_state, tftp_cur_block, tftp_prev_block, tftp_block_wrap_offset,
    tftp_block_size, tftp_remote_port, tftp_our_port, timeout_count,
    net_boot_file_size,     \* end of the stored image, in units
    mem,                    \* memory from load_addr on; -1: not written
    net_state, net_try_count, time_handler, udp_handler,
    eth_state,              \* of the interface: ACTIVE, or PASSIVE once eth_halt()ed
    phase,                  \* where net_loop is: see below
    ret,                    \* what net_loop has returned
    toServer, toClient,     \* packets in flight, oldest first
    session                 \* the server's transfers, by their UDP port (TID)

tftpVars == <<tftp_state, tftp_cur_block, tftp_prev_block,
              tftp_block_wrap_offset, tftp_block_size, tftp_remote_port,
              tftp_our_port, timeout_count>>
loopVars == <<net_state, net_try_count, time_handler, udp_handler, eth_state, phase, ret>>
imageVars == <<net_boot_file_size, mem>>
vars == <<tftpVars, loopVars, imageVars, toServer, toClient, session>>

\* Memory reaches past both ends of the file, so that a misplaced block is seen.
Margin == TFTP_SEQUENCE_SIZE * (TFTP_BLOCK_SIZE + tftp_block_size_option)
Memory == -Margin .. FileSize + Margin
WELL_KNOWN_PORT == 0
ETIMEDOUT == -1
EINTR == -2

-----------------------------------------------------------------------------
(* The network.  A full channel loses what is sent.                        *)

\* The packets of a channel without the one at position i.
RemoveAt(channel, i) == SubSeq(channel, 1, i - 1) \o SubSeq(channel, i + 1, Len(channel))

Send(channel, packet) ==
    IF Len(channel) < Cap THEN Append(channel, packet) ELSE channel

Deliverable(channel) == IF Reorder THEN DOMAIN channel ELSE DOMAIN channel \cap {1}

Lose ==
    /\ \/ \E i \in DOMAIN toServer :
              toServer' = RemoveAt(toServer, i) /\ UNCHANGED toClient
       \/ \E i \in DOMAIN toClient :
              toClient' = RemoveAt(toClient, i) /\ UNCHANGED toServer
    /\ UNCHANGED <<tftpVars, loopVars, imageVars, session>>

-----------------------------------------------------------------------------
(* The server: any that follows RFC 1350 and the option extension.         *)

BlockLen(bs, k) == IF k * bs <= FileSize THEN bs ELSE FileSize - (k - 1) * bs

DataPacket(tid, s) ==
    [op |-> "DATA", src |-> tid, dst |-> s.peer, blk |-> s.blk % TFTP_SEQUENCE_SIZE,
     from |-> (s.blk - 1) * s.bs, len |-> BlockLen(s.bs, s.blk)]

OackPacket(tid, s) ==
    [op |-> "OACK", src |-> tid, dst |-> s.peer, size |-> s.oack]

ErrorPacket(code, src, dst) == [op |-> code, src |-> src, dst |-> dst]

\* The packet a transfer waits to have acknowledged.
CurrentPacket(tid, s) == IF s.blk = 0 THEN OackPacket(tid, s) ELSE DataPacket(tid, s)

LastBlockSent(s) == s.blk > 0 /\ BlockLen(s.bs, s.blk) < s.bs

\* A transfer the server opens: oack is the blksize its OACK carries, 0 if none.
NewSession(reply, peer) ==
    [peer |-> peer,
     blk  |-> IF reply = "DATA" THEN 1 ELSE 0,
     bs   |-> IF reply = "OACK_blksize" THEN tftp_block_size_option ELSE TFTP_BLOCK_SIZE,
     oack |-> IF reply = "OACK_blksize" THEN tftp_block_size_option ELSE 0]

ServeRRQ(m, reply) ==
    IF reply \in {"ERROR", "ERROR_fatal"}
    THEN /\ toClient' = Send(toClient, ErrorPacket(reply, MaxTid + 1, m.src))
         /\ UNCHANGED session
    ELSE IF Len(session) < MaxTid
    THEN LET s == NewSession(reply, m.src) IN
         /\ session' = Append(session, s)
         /\ toClient' = Send(toClient, CurrentPacket(Len(session) + 1, s))
    ELSE UNCHANGED <<session, toClient>>

\* An ACK of the current packet releases the next block, a repeated ACK of the
\* one before has the current packet sent again, others are dropped.
ServeACK(m) ==
    LET s == session[m.dst]
        next == [s EXCEPT !.blk = @ + 1]
    IN  IF m.blk = s.blk % TFTP_SEQUENCE_SIZE /\ ~LastBlockSent(s)
        THEN /\ session' = [session EXCEPT ![m.dst] = next]
             /\ toClient' = Send(toClient, DataPacket(m.dst, next))
        ELSE IF s.blk > 0 /\ m.blk = (s.blk - 1) % TFTP_SEQUENCE_SIZE
        THEN /\ toClient' = Send(toClient, CurrentPacket(m.dst, s))
             /\ UNCHANGED session
        ELSE UNCHANGED <<session, toClient>>

ServerReceive ==
    /\ \E i \in Deliverable(toServer) :
          LET m == toServer[i] IN
          /\ toServer' = RemoveAt(toServer, i)
          /\ \/ m.op = "RRQ" /\ \E reply \in Replies : ServeRRQ(m, reply)
             \/ m.op = "ACK" /\ ServeACK(m)
    /\ UNCHANGED <<tftpVars, loopVars, imageVars>>

ServerRetransmit ==
    /\ \E tid \in DOMAIN session :
          toClient' = Send(toClient, CurrentPacket(tid, session[tid]))
    /\ UNCHANGED <<tftpVars, loopVars, imageVars, toServer, session>>

\* The server may give up a transfer at any point of it, and it is not assumed
\* to be silent afterwards.
ServerError ==
    /\ \E tid \in DOMAIN session, code \in Replies \cap {"ERROR", "ERROR_fatal"} :
          toClient' = Send(toClient, ErrorPacket(code, tid, session[tid].peer))
    /\ UNCHANGED <<tftpVars, loopVars, imageVars, toServer, session>>

-----------------------------------------------------------------------------
(* The client.  net_loop handles received packets (phase "rx"), then looks *)
(* at the timer; if net_state is then final it leaves ("switch", "done").  *)

\* The packet tftp_send() builds for a state.
Outgoing(state, cur_block, remote_port, our_port) ==
    IF state = "SEND_RRQ" THEN [op |-> "RRQ", src |-> our_port]
    ELSE [op |-> "ACK", src |-> our_port, dst |-> remote_port, blk |-> cur_block]

\* net_send_packet(): a halted interface sends nothing.
Transmit(packet) ==
    toServer' = IF eth_state = "ACTIVE" THEN Send(toServer, packet) ELSE toServer

\* net_start_again() with one interface; handler is time_handler at the call.
\* Out of retries it fails the loop; otherwise the only interface is tried
\* again after ten seconds of silence.
net_start_again(handler) ==
    IF net_try_count >= RetryCnt
    THEN /\ net_state' = "FAIL" /\ time_handler' = handler /\ eth_state' = "PASSIVE"
         /\ UNCHANGED <<net_try_count, udp_handler>>
    ELSE /\ net_try_count' = net_try_count + 1
         /\ time_handler' = "start_again" /\ udp_handler' = "dummy" /\ eth_state' = "ACTIVE"
         /\ UNCHANGED net_state

\* tftp_start(), from the `restart' label of net_loop for try number try.
tftp_start(try) ==
    /\ net_state' = "CONTINUE" /\ net_boot_file_size' = 0
    /\ tftp_state' = "SEND_RRQ" /\ tftp_remote_port' = WELL_KNOWN_PORT
    /\ timeout_count' = 0 /\ tftp_cur_block' = 0
    /\ tftp_block_size' = TFTP_BLOCK_SIZE
    /\ tftp_our_port' \in IF PortReuse THEN 1 .. try ELSE {try}
    /\ time_handler' = "tftp" /\ udp_handler' = "tftp"
    /\ Transmit(Outgoing("SEND_RRQ", 0, WELL_KNOWN_PORT, tftp_our_port'))

\* store_block(): the units of m land at the offset of their block number.
store_block(block, wrap_offset, m) ==
    LET offset == block * tftp_block_size + wrap_offset
        newsize == offset + m.len
    IN  /\ mem' = [p \in DOMAIN mem |->
                      IF p \in offset .. newsize - 1 THEN m.from + p - offset ELSE mem[p]]
        /\ net_boot_file_size' = IF net_boot_file_size < newsize THEN newsize
                                 ELSE net_boot_file_size

\* Mutant: once a transfer runs, its sender's port is not checked.
AcceptsAnySender(m) == udp_handler = "tftp" /\ m.dst = tftp_our_port

\* The port checks at the top of tftp_handler, and the dummy handler.
Accepts(m) ==
    /\ udp_handler = "tftp" /\ m.dst = tftp_our_port
    /\ tftp_state = "SEND_RRQ" \/ m.src = tftp_remote_port

Ignore(m) ==
    /\ ~Accepts(m)
    /\ UNCHANGED <<tftpVars, loopVars, imageVars, toServer>>

\* Mutant: the blksize of an OACK is taken without looking whether it has one.
RecvOackUnchecked(m) ==
    /\ Accepts(m) /\ m.op = "OACK"
    /\ tftp_state' = "OACK" /\ tftp_remote_port' = m.src
    /\ tftp_block_size' = m.size
    /\ Transmit(Outgoing("OACK", tftp_cur_block, m.src, tftp_our_port))
    /\ UNCHANGED <<tftp_cur_block, tftp_prev_block, tftp_block_wrap_offset,
                   tftp_our_port, timeout_count, loopVars, imageVars>>

\* case TFTP_OACK: the state goes back to OACK whatever it was.
RecvOack(m) ==
    /\ Accepts(m) /\ m.op = "OACK"
    /\ tftp_state' = "OACK" /\ tftp_remote_port' = m.src
    /\ tftp_block_size' = IF m.size = 0 THEN tftp_block_size ELSE m.size
    /\ Transmit(Outgoing("OACK", tftp_cur_block, m.src, tftp_our_port))
    /\ UNCHANGED <<tftp_cur_block, tftp_prev_block, tftp_block_wrap_offset,
                   tftp_our_port, timeout_count, loopVars, imageVars>>

\* Mutant: a repeated block 0 counts as another wrap.
WrappedAgain(blk) == blk = 0

\* Has the block number wrapped (update_block_number)?
Wrapped(blk) == blk = 0 /\ tftp_prev_block # 0

\* Is the next DATA packet the first of a transfer?
First == tftp_state \in {"SEND_RRQ", "OACK"}

\* Mutant: every DATA packet, a repeated one included, resets timeout_count.
NoteBlockResetsTimeouts(m) ==
    /\ tftp_cur_block' = m.blk
    /\ timeout_count' = 0
    /\ tftp_block_wrap_offset' =
          IF First THEN 0
          ELSE IF Wrapped(m.blk)
          THEN tftp_block_wrap_offset + tftp_block_size * TFTP_SEQUENCE_SIZE
          ELSE tftp_block_wrap_offset
    /\ tftp_state' = "DATA"
    /\ tftp_remote_port' = IF First THEN m.src ELSE tftp_remote_port
    /\ UNCHANGED <<tftp_block_size, tftp_our_port>>

\* What every DATA packet does before its block is looked at:
\* update_block_number, and new_transfer for the first one.
NoteBlock(m) ==
    /\ tftp_cur_block' = m.blk
    /\ timeout_count' = IF Wrapped(m.blk) THEN 0 ELSE timeout_count
    /\ tftp_block_wrap_offset' =
          IF First THEN 0
          ELSE IF Wrapped(m.blk)
          THEN tftp_block_wrap_offset + tftp_block_size * TFTP_SEQUENCE_SIZE
          ELSE tftp_block_wrap_offset
    /\ tftp_state' = "DATA"
    /\ tftp_remote_port' = IF First THEN m.src ELSE tftp_remote_port
    /\ UNCHANGED <<tftp_block_size, tftp_our_port>>

\* "First block is not block 1".
RecvBadFirst(m) ==
    /\ Accepts(m) /\ m.op = "DATA" /\ First /\ m.blk # 1
    /\ NoteBlock(m) /\ tftp_prev_block' = 0
    /\ net_start_again(time_handler)
    /\ UNCHANGED <<phase, ret, imageVars, toServer>>

\* "Same block again; ignore it": not even acknowledged.
RecvSame(m) ==
    /\ Accepts(m) /\ m.op = "DATA" /\ ~First /\ m.blk = tftp_prev_block
    /\ NoteBlock(m)
    /\ UNCHANGED <<tftp_prev_block, loopVars, imageVars, toServer>>

\* Mutant: a full block ends the transfer.
RecvBlockFullIsLast(m) ==
    /\ Accepts(m) /\ m.op = "DATA"
    /\ IF First THEN m.blk = 1 ELSE m.blk # tftp_prev_block
    /\ NoteBlock(m) /\ tftp_prev_block' = m.blk
    /\ store_block(m.blk - 1, tftp_block_wrap_offset', m)
    /\ Transmit(Outgoing("DATA", m.blk, tftp_remote_port', tftp_our_port))
    /\ net_state' = IF m.len <= tftp_block_size THEN "SUCCESS" ELSE net_state
    /\ time_handler' = "tftp"
    /\ UNCHANGED <<net_try_count, udp_handler, eth_state, phase, ret>>

\* A block not seen before is stored and acknowledged; a short one is the last.
RecvBlock(m) ==
    /\ Accepts(m) /\ m.op = "DATA"
    /\ IF First THEN m.blk = 1 ELSE m.blk # tftp_prev_block
    /\ NoteBlock(m) /\ tftp_prev_block' = m.blk
    /\ store_block(m.blk - 1, tftp_block_wrap_offset', m)
    /\ Transmit(Outgoing("DATA", m.blk, tftp_remote_port', tftp_our_port))
    /\ net_state' = IF m.len < tftp_block_size THEN "SUCCESS" ELSE net_state
    /\ time_handler' = "tftp"
    /\ UNCHANGED <<net_try_count, udp_handler, eth_state, phase, ret>>

\* case TFTP_ERROR: "File not found" and "Access denied" are final.
RecvError(m) ==
    /\ Accepts(m)
    /\ \/ /\ m.op = "ERROR_fatal"
          /\ net_state' = "FAIL" /\ eth_state' = "PASSIVE"
          /\ UNCHANGED <<net_try_count, time_handler, udp_handler>>
       \/ m.op = "ERROR" /\ net_start_again(time_handler)
    /\ UNCHANGED <<tftpVars, phase, ret, imageVars, toServer>>

\* eth_rx hands up packets until the ring is empty, whatever net_state has
\* become meanwhile: net_loop looks at it only afterwards.
ClientReceive ==
    /\ phase = "rx"
    /\ \E i \in Deliverable(toClient) :
          LET m == toClient[i] IN
          /\ toClient' = RemoveAt(toClient, i)
          /\ \/ Ignore(m) \/ RecvOack(m) \/ RecvBadFirst(m)
             \/ RecvSame(m) \/ RecvBlock(m) \/ RecvError(m)
    /\ UNCHANGED session

\* Mutant: a timeout acknowledges the block that is waited for.
TftpTimeoutAcksNext ==
    /\ phase = "rx" /\ time_handler = "tftp" /\ net_state # "SUCCESS"
    /\ timeout_count' = timeout_count + 1
    /\ IF timeout_count' > tftp_timeout_count_max
       THEN net_start_again("none") /\ UNCHANGED toServer
       ELSE /\ Transmit(Outgoing(tftp_state, (tftp_cur_block + 1) % TFTP_SEQUENCE_SIZE,
                                 tftp_remote_port, tftp_our_port))
            /\ UNCHANGED <<net_state, net_try_count, time_handler, udp_handler, eth_state>>
    /\ phase' = IF net_state' = "FAIL" THEN "switch" ELSE "rx"
    /\ UNCHANGED <<tftp_state, tftp_cur_block, tftp_prev_block, tftp_block_wrap_offset,
                   tftp_block_size, tftp_remote_port, tftp_our_port,
                   ret, imageVars, toClient, session>>

\* Mutant: the last timeout allowed already gives up.
TftpTimeoutGivesUpEarly ==
    /\ phase = "rx" /\ time_handler = "tftp" /\ net_state # "SUCCESS"
    /\ timeout_count' = timeout_count + 1
    /\ IF timeout_count' >= tftp_timeout_count_max
       THEN net_start_again("none") /\ UNCHANGED toServer
       ELSE /\ Transmit(Outgoing(tftp_state, tftp_cur_block, tftp_remote_port, tftp_our_port))
            /\ UNCHANGED <<net_state, net_try_count, time_handler, udp_handler, eth_state>>
    /\ phase' = IF net_state' = "FAIL" THEN "switch" ELSE "rx"
    /\ UNCHANGED <<tftp_state, tftp_cur_block, tftp_prev_block, tftp_block_wrap_offset,
                   tftp_block_size, tftp_remote_port, tftp_our_port,
                   ret, imageVars, toClient, session>>

\* tftp_timeout_handler().  A transfer that has just completed has also just
\* rearmed its timer, so it cannot time out before net_loop sees SUCCESS.
TftpTimeout ==
    /\ phase = "rx" /\ time_handler = "tftp" /\ net_state # "SUCCESS"
    /\ timeout_count' = timeout_count + 1
    /\ IF timeout_count' > tftp_timeout_count_max
       THEN net_start_again("none") /\ UNCHANGED toServer
       ELSE /\ Transmit(Outgoing(tftp_state, tftp_cur_block, tftp_remote_port, tftp_our_port))
            /\ UNCHANGED <<net_state, net_try_count, time_handler, udp_handler, eth_state>>
    /\ phase' = IF net_state' = "FAIL" THEN "switch" ELSE "rx"
    /\ UNCHANGED <<tftp_state, tftp_cur_block, tftp_prev_block, tftp_block_wrap_offset,
                   tftp_block_size, tftp_remote_port, tftp_our_port,
                   ret, imageVars, toClient, session>>

\* start_again_timeout_handler(), then NETLOOP_RESTART in net_loop.  When
\* net_state is final the timer has been armed since net_loop last looked at it.
StartAgainTimeout ==
    /\ phase = "rx" /\ time_handler = "start_again" /\ net_state = "CONTINUE"
    /\ tftp_start(net_try_count)
    /\ UNCHANGED <<tftp_prev_block, tftp_block_wrap_offset, net_try_count, eth_state,
                   phase, ret, mem, toClient, session>>

\* The end of net_loop.  On FAIL net_start_again() runs first; when it does not
\* refuse, net_state is FAIL all the same and eth_init()'s 0 is returned.
NetLoopReturn ==
    /\ phase # "done"
    /\ \/ net_state = "SUCCESS" /\ ret' = net_boot_file_size
       \/ /\ net_state = "FAIL"
          /\ ret' = IF net_try_count >= RetryCnt THEN ETIMEDOUT ELSE 0
    /\ phase' = "done"
    /\ time_handler' = "none" /\ udp_handler' = "dummy"
    /\ eth_state' = IF net_state = "FAIL" /\ net_try_count < RetryCnt THEN "ACTIVE" ELSE "PASSIVE"
    /\ UNCHANGED <<tftpVars, imageVars, net_state, net_try_count, toServer, toClient, session>>

\* ctrlc(): looked at after every eth_rx().
CtrlC ==
    /\ phase = "rx"
    /\ phase' = "done" /\ ret' = EINTR
    /\ time_handler' = "none" /\ udp_handler' = "dummy" /\ eth_state' = "PASSIVE"
    /\ UNCHANGED <<tftpVars, imageVars, net_state, net_try_count, toServer, toClient, session>>

-----------------------------------------------------------------------------

Init ==
    /\ tftp_state = "SEND_RRQ" /\ tftp_cur_block = 0
    /\ tftp_prev_block = 0 /\ tftp_block_wrap_offset = 0
    /\ tftp_block_size = TFTP_BLOCK_SIZE
    /\ tftp_remote_port = WELL_KNOWN_PORT /\ tftp_our_port = 1
    /\ timeout_count = 0
    /\ net_boot_file_size = 0 /\ mem = [p \in Memory |-> -1]
    /\ net_state = "CONTINUE" /\ net_try_count = 1
    /\ time_handler = "tftp" /\ udp_handler = "tftp"
    /\ eth_state = "ACTIVE" /\ phase = "rx" /\ ret = 0
    /\ toServer = <<Outgoing("SEND_RRQ", 0, WELL_KNOWN_PORT, 1)>>
    /\ toClient = <<>> /\ session = <<>>

Client == ClientReceive \/ TftpTimeout \/ StartAgainTimeout \/ NetLoopReturn \/ CtrlC

Next == Client \/ ServerReceive \/ ServerRetransmit \/ ServerError \/ Lose

Spec == Init /\ [][Next]_vars

\* net_loop polls: its timers fire and a terminating net_state is acted upon.
\* Nothing is assumed of the network or of the server.
FairSpec ==
    Spec /\ WF_vars(TftpTimeout) /\ WF_vars(StartAgainTimeout) /\ WF_vars(NetLoopReturn)

-----------------------------------------------------------------------------
(* Properties.                                                             *)

BlockNumber == 0 .. TFTP_SEQUENCE_SIZE - 1
BlockSize == {TFTP_BLOCK_SIZE, tftp_block_size_option}

Request ==
    [op : {"RRQ"}, src : Nat] \cup [op : {"ACK"}, src : Nat, dst : Nat, blk : BlockNumber]

Reply ==
    [op : {"DATA"}, src : Nat, dst : Nat, blk : BlockNumber, from : Int, len : Int]
    \cup [op : {"OACK"}, src : Nat, dst : Nat, size : BlockSize \cup {0}]
    \cup [op : {"ERROR", "ERROR_fatal"}, src : Nat, dst : Nat]

Transfer == [peer : Nat, blk : Nat, bs : BlockSize, oack : BlockSize \cup {0}]

\* The types of the client's variables, of the packets and of the transfers.
TypeOK ==
    /\ tftp_state \in {"SEND_RRQ", "OACK", "DATA"}
    /\ tftp_cur_block \in BlockNumber /\ tftp_prev_block \in BlockNumber
    /\ tftp_block_wrap_offset \in Nat /\ net_boot_file_size \in Int
    /\ tftp_block_size \in BlockSize
    /\ tftp_remote_port \in Nat /\ tftp_our_port \in Nat
    /\ timeout_count \in Nat /\ net_try_count \in Nat
    /\ mem \in [Memory -> Int]
    /\ net_state \in {"CONTINUE", "SUCCESS", "FAIL"}
    /\ time_handler \in {"none", "tftp", "start_again"}
    /\ udp_handler \in {"tftp", "dummy"}
    /\ eth_state \in {"ACTIVE", "PASSIVE"} /\ phase \in {"rx", "switch", "done"} /\ ret \in Int
    /\ toServer \in Seq(Request) /\ toClient \in Seq(Reply) /\ session \in Seq(Transfer)

\* Every unit store_block() has ever put in memory is the file's unit for that
\* address: whatever is lost, repeated or retried, over any number of wraps of
\* the block number, nothing lands at another offset, before load_addr or past
\* the end of the file.
StoredInPlace == \A p \in Memory : mem[p] \in {-1, p}

\* When tftp_complete() reports SUCCESS the whole file is in memory and
\* net_boot_file_size, which becomes $filesize, is its exact length.
CompleteImage ==
    net_state = "SUCCESS" =>
        /\ net_boot_file_size = FileSize
        /\ \A p \in 0 .. FileSize - 1 : mem[p] = p

\* The server is never more than one block ahead of what the client has stored
\* of the transfer it follows: an ACK is only ever sent for a stored block.
AckedIsStored ==
    \A tid \in DOMAIN session :
        /\ phase = "rx" /\ tftp_state # "SEND_RRQ" /\ tftp_remote_port = tid
        /\ session[tid].peer = tftp_our_port
        => \A p \in 0 .. (session[tid].blk - 1) * session[tid].bs - 1 : mem[p] = p

\* The /* Assertion */ of tftp_handler: the first DATA packet of a transfer
\* that it is given is block 1.
FirstBlockIsOne ==
    \A i \in Deliverable(toClient) :
        LET m == toClient[i] IN
        phase = "rx" /\ Accepts(m) /\ m.op = "DATA" /\ First => m.blk = 1

\* The command always returns: retransmissions, restarts and the wait between
\* them are bounded, whatever the network and the server do.
Returns == <>(phase = "done")

transferStatus == IF net_state = "SUCCESS" THEN "loaded"
                  ELSE IF net_state = "FAIL" THEN "failed" ELSE "loading"

Image == INSTANCE FileTransfer WITH
    image <- mem, size <- net_boot_file_size, status <- transferStatus

\* The download implements FileTransfer, whose image only ever receives the
\* file's own units and which reports success only for the whole file.
ImplementsFileTransfer == Image!Spec
=============================================================================
