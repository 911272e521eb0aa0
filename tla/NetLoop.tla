------------------------------ MODULE NetLoop ------------------------------
(***************************************************************************)
(* The network loop of U-Boot (net/net.c) with ARP (net/arp.c), DHCP       *)
(* (net/bootp.c) and ping (net/ping.c), over several commands given at the *)
(* prompt.  One network interface, as on the NanoPi Fire3.  Time is        *)
(* explicit: Tick is one unit of get_timer(), and a timer that is due runs *)
(* before time goes on, because net_loop polls.                            *)
(*                                                                         *)
(* The network may lose, repeat, delay and reorder: `sent' is all that the *)
(* board ever sent, and any answer to any of it may arrive at any time,    *)
(* any number of times or never.  The TFTP transfer that follows a         *)
(* resolved address is module Tftp; here it ends in one of its three ways. *)
(***************************************************************************)
EXTENDS Integers, Sequences, Functions

CONSTANTS
    Servers,                    \* DHCP servers; each leases one address, named like it
    Routers,                    \* those that name a router, themselves, in every OFFER and ACK
    Commands,                   \* what the user types: DHCP, TFTPGET, PING
    Local,                      \* the hosts on the board's own subnet
    RetryCnt,                   \* net_start_again's retrycnt, from `netretry'
    CONFIG_BOOTP_ID_CACHE_SIZE, \* 4
    BOOTP_TIMEOUT_MIN,          \* first DISCOVER timeout: 250 ms
    BOOTP_TIMEOUT_MAX,          \* its limit when doubled: 2000 ms
    TIMEOUT_MS,                 \* time for DHCP as a whole: 28 s
    REQUEST_TIMEOUT,            \* wait for the ACK: 5 s
    ARP_TIMEOUT,                \* 5 s
    ARP_TIMEOUT_COUNT,          \* 5
    START_AGAIN,                \* pause of net_start_again: 10 s
    PING_TIMEOUT,               \* 10 s
    MaxCommands                 \* bound: commands given

None == "none"                  \* the address 0.0.0.0
Hosts == {"tftphost", "pinghost"}
ETIMEDOUT == -1
EINTR == -2
ENODEV == -3

ASSUME NetLoopAssumption ==
    /\ Servers \cap (Hosts \cup {None, "static"}) = {} /\ Local \subseteq Hosts
    /\ Routers \subseteq Servers
    /\ Commands \subseteq {"DHCP", "TFTPGET", "PING"}
    /\ CONFIG_BOOTP_ID_CACHE_SIZE \in Nat /\ CONFIG_BOOTP_ID_CACHE_SIZE >= 2
    /\ {BOOTP_TIMEOUT_MIN, BOOTP_TIMEOUT_MAX, TIMEOUT_MS, REQUEST_TIMEOUT, ARP_TIMEOUT,
        ARP_TIMEOUT_COUNT, START_AGAIN, PING_TIMEOUT} \subseteq Nat \ {0}
    /\ BOOTP_TIMEOUT_MIN <= BOOTP_TIMEOUT_MAX
    /\ RetryCnt \in Nat /\ MaxCommands \in Nat

VARIABLES
    phase,                  \* "idle" at the prompt; "rx", "switch": in net_loop
    protocol, net_state, net_try_count, ret, commands,
    loaded,                 \* net_boot_file_size is that of the whole file
    time_handler, time_age, time_delta, udp_handler,
    net_ip, net_gateway,
    dhcp_state, bootp_ids, bootp_age, bootp_timeout,
    net_arp_wait_packet_ip, net_arp_wait_reply_ip, arp_age, arp_wait_try,
    net_tx_packet,          \* the one buffer outgoing IP packets are built in
    sent,                   \* history: all frames sent
    lastId, firstId,        \* history: id of the last DISCOVER, of the first since bootp_reset
    silence,                \* history: time since the last DHCP frame was sent
    arpFailed               \* history: has an ARP wait ever given up?

loopVars == <<phase, protocol, net_state, net_try_count, ret, commands, loaded>>
timerVars == <<time_handler, time_age, time_delta>>
addressVars == <<net_ip, net_gateway>>
bootpVars == <<dhcp_state, bootp_ids, bootp_age, bootp_timeout, lastId, firstId>>
arpVars == <<net_arp_wait_packet_ip, net_arp_wait_reply_ip, arp_age, arp_wait_try,
             arpFailed>>
wireVars == <<net_tx_packet, sent, silence>>
vars == <<loopVars, timerVars, udp_handler, addressVars, bootpVars, arpVars, wireVars>>

Waiting == net_arp_wait_packet_ip # None

\* The longest that DHCP may be silent.
Patience == IF BOOTP_TIMEOUT_MAX > REQUEST_TIMEOUT THEN BOOTP_TIMEOUT_MAX ELSE REQUEST_TIMEOUT

\* When DHCP must have given up.
Overtime == TIMEOUT_MS + BOOTP_TIMEOUT_MAX + REQUEST_TIMEOUT + 1

-----------------------------------------------------------------------------
(* Frames.                                                                 *)

Discover(id) == [op |-> "DISCOVER", id |-> id]
Request(id, server, ip) == [op |-> "REQUEST", id |-> id, server |-> server, ip |-> ip]
Rrq == [op |-> "RRQ", dst |-> "tftphost"]
Echo(ip) == [op |-> "ECHO", dst |-> "pinghost", src |-> ip]
Arp(target, ip) == [op |-> "ARP", target |-> target, src |-> ip]

Transmit(frame) ==
    /\ sent' = sent \cup {frame}
    /\ silence' = IF frame.op \in {"DISCOVER", "REQUEST"} THEN 0 ELSE silence

net_set_timeout_handler(delta, handler) ==
    time_handler' = handler /\ time_age' = 0 /\ time_delta' = delta

-----------------------------------------------------------------------------
(* ARP.                                                                    *)

\* arp_request(): a host that is not on the subnet is reached by the gateway.
arp_request(dest, ip, gateway) ==
    LET hop == IF (dest \in Local /\ ip # None) \/ gateway = None THEN dest ELSE gateway
    IN  net_arp_wait_reply_ip' = hop /\ Transmit(Arp(hop, ip))

\* A frame for a host whose address is not known waits in net_tx_packet.
arp_wait(frame, ip, gateway) ==
    /\ net_tx_packet' = frame /\ net_arp_wait_packet_ip' = frame.dst
    /\ arp_wait_try' = 1 /\ arp_age' = 0
    /\ arp_request(frame.dst, ip, gateway)
    /\ UNCHANGED arpFailed

\* Mutant: the tries are not counted.
ArpTimeoutForever ==
    /\ phase = "rx" /\ net_state = "CONTINUE" /\ Waiting /\ arp_age > ARP_TIMEOUT
    /\ IF arp_wait_try + 1 >= ARP_TIMEOUT_COUNT
       THEN /\ arp_wait_try' = 0 /\ net_state' = "FAIL" /\ arpFailed' = TRUE
            /\ UNCHANGED <<net_arp_wait_reply_ip, arp_age, sent, silence>>
       ELSE /\ arp_wait_try' = arp_wait_try /\ arp_age' = 0
            /\ arp_request(net_arp_wait_packet_ip, net_ip, net_gateway)
            /\ UNCHANGED <<net_state, arpFailed>>
    /\ UNCHANGED <<phase, protocol, net_try_count, ret, commands, loaded, timerVars, udp_handler,
                   addressVars, bootpVars, net_arp_wait_packet_ip, net_tx_packet>>

\* arp_timeout_check(), at the top of the loop.
ArpTimeout ==
    /\ phase = "rx" /\ net_state = "CONTINUE" /\ Waiting /\ arp_age > ARP_TIMEOUT
    /\ IF arp_wait_try + 1 >= ARP_TIMEOUT_COUNT
       THEN /\ arp_wait_try' = 0 /\ net_state' = "FAIL" /\ arpFailed' = TRUE
            /\ UNCHANGED <<net_arp_wait_reply_ip, arp_age, sent, silence>>
       ELSE /\ arp_wait_try' = arp_wait_try + 1 /\ arp_age' = 0
            /\ arp_request(net_arp_wait_packet_ip, net_ip, net_gateway)
            /\ UNCHANGED <<net_state, arpFailed>>
    /\ UNCHANGED <<phase, protocol, net_try_count, ret, commands, loaded, timerVars, udp_handler,
                   addressVars, bootpVars, net_arp_wait_packet_ip, net_tx_packet>>

\* arp_receive(), ARPOP_REPLY: the waiting frame is sent.
RecvArpReply ==
    /\ phase = "rx" /\ Waiting /\ net_ip # None
    /\ Arp(net_arp_wait_reply_ip, net_ip) \in sent
    /\ Transmit(net_tx_packet) /\ net_arp_wait_packet_ip' = None
    /\ UNCHANGED <<loopVars, timerVars, udp_handler, addressVars, bootpVars,
                   net_arp_wait_reply_ip, arp_age, arp_wait_try, arpFailed,
                   net_tx_packet>>

-----------------------------------------------------------------------------
(* TFTP and ping.                                                          *)

tftp_start(ip, gateway) ==
    /\ net_set_timeout_handler(1, "tftp") /\ udp_handler' = "tftp"
    /\ arp_wait(Rrq, ip, gateway)

ping_start ==
    /\ net_set_timeout_handler(PING_TIMEOUT, "ping")
    /\ arp_wait(Echo(net_ip), net_ip, net_gateway)

\* Mutant: the wait before the next try is not timed.
net_start_again_untimed(handler) ==
    IF net_try_count >= RetryCnt
    THEN /\ net_state' = "FAIL" /\ time_handler' = handler
         /\ UNCHANGED <<net_try_count, udp_handler, time_age, time_delta>>
    ELSE /\ net_try_count' = net_try_count + 1
         /\ time_handler' = handler /\ udp_handler' = "dummy"
         /\ UNCHANGED <<net_state, time_age, time_delta>>

\* net_start_again() with one interface; handler is time_handler at the call.
net_start_again(handler) ==
    IF net_try_count >= RetryCnt
    THEN /\ net_state' = "FAIL" /\ time_handler' = handler
         /\ UNCHANGED <<net_try_count, udp_handler, time_age, time_delta>>
    ELSE /\ net_try_count' = net_try_count + 1
         /\ net_set_timeout_handler(START_AGAIN, "start_again") /\ udp_handler' = "dummy"
         /\ UNCHANGED net_state

\* The transfer succeeds, meets a fatal error, or is started again.
TftpEnds ==
    /\ phase = "rx" /\ time_handler = "tftp" /\ ~Waiting
    /\ \/ /\ net_state' = "SUCCESS" /\ loaded' = TRUE
          /\ UNCHANGED <<net_try_count, timerVars, udp_handler>>
       \/ /\ net_state' = "FAIL"
          /\ UNCHANGED <<loaded, net_try_count, timerVars, udp_handler>>
       \/ net_start_again("none") /\ UNCHANGED loaded
    /\ UNCHANGED <<phase, protocol, ret, commands, addressVars, bootpVars, arpVars, wireVars>>

\* ping_receive(), ICMP_ECHO_REPLY: whatever the command is that now runs.
RecvEchoReply ==
    /\ phase = "rx"
    /\ \E ip \in Servers \cup {"static"} : Echo(ip) \in sent /\ net_ip \in {None, ip}
    /\ net_state' = "SUCCESS"
    /\ UNCHANGED <<phase, protocol, net_try_count, ret, commands, loaded, timerVars, udp_handler,
                   addressVars, bootpVars, arpVars, wireVars>>

-----------------------------------------------------------------------------
(* DHCP.                                                                   *)

\* Mutant: the cache is found full one id too late.
bootp_add_id_late(ids, id) ==
    LET n == CONFIG_BOOTP_ID_CACHE_SIZE IN
    IF Len(ids) <= n THEN Append(ids, id)
    ELSE [i \in 1 .. n |-> IF i = n THEN id ELSE IF i <= n - 2 THEN ids[i + 1] ELSE ids[i]]

\* bootp_add_id(): a full cache is shifted by memmove, of sizeof(ulong) bytes
\* less than the cache: that is the room of two ids.
bootp_add_id(ids, id) ==
    LET n == CONFIG_BOOTP_ID_CACHE_SIZE IN
    IF Len(ids) < n THEN Append(ids, id)
    ELSE [i \in 1 .. n |-> IF i = n THEN id ELSE IF i <= n - 2 THEN ids[i + 1] ELSE ids[i]]

\* bootp_request(): every DISCOVER has an id of its own.
bootp_request(ids, timeout) ==
    /\ lastId' = lastId + 1 /\ bootp_ids' = bootp_add_id(ids, lastId')
    /\ net_set_timeout_handler(timeout, "bootp")
    /\ dhcp_state' = "SELECTING" /\ udp_handler' = "dhcp"
    /\ net_tx_packet' = Discover(lastId') /\ Transmit(net_tx_packet')

\* Mutant: bootp_reset() leaves the id cache alone.
dhcp_start_keeps_ids ==
    /\ bootp_age' = 0 /\ bootp_timeout' = BOOTP_TIMEOUT_MIN /\ firstId' = lastId + 1
    /\ net_ip' = None
    /\ bootp_request(bootp_ids, BOOTP_TIMEOUT_MIN)

\* Mutant: net_ip is not cleared.
dhcp_start_keeps_ip ==
    /\ bootp_age' = 0 /\ bootp_timeout' = BOOTP_TIMEOUT_MIN /\ firstId' = lastId + 1
    /\ UNCHANGED net_ip
    /\ bootp_request(<<>>, BOOTP_TIMEOUT_MIN)

\* bootp_reset() and dhcp_request(), as net_loop calls them.
dhcp_start ==
    /\ bootp_age' = 0 /\ bootp_timeout' = BOOTP_TIMEOUT_MIN /\ firstId' = lastId + 1
    /\ net_ip' = None
    /\ bootp_request(<<>>, BOOTP_TIMEOUT_MIN)

\* Mutant: while an ACK is awaited the time is not looked at.
BootpTimeoutOnlySelecting ==
    /\ phase = "rx" /\ time_handler = "bootp" /\ time_age > time_delta
    /\ IF bootp_age >= TIMEOUT_MS /\ dhcp_state = "SELECTING"
       THEN net_start_again("none") /\ UNCHANGED <<bootpVars, wireVars>>
       ELSE /\ bootp_timeout' = IF 2 * bootp_timeout > BOOTP_TIMEOUT_MAX THEN BOOTP_TIMEOUT_MAX
                                ELSE 2 * bootp_timeout
            /\ bootp_request(bootp_ids, bootp_timeout')
            /\ UNCHANGED <<net_state, net_try_count, bootp_age, firstId>>
    /\ phase' = IF net_state' = "CONTINUE" THEN "rx" ELSE "switch"
    /\ UNCHANGED <<protocol, ret, commands, loaded, addressVars, arpVars>>

\* Mutant: the doubled timeout has no limit.
BootpTimeoutUnbounded ==
    /\ phase = "rx" /\ time_handler = "bootp" /\ time_age > time_delta
    /\ IF bootp_age >= TIMEOUT_MS
       THEN net_start_again("none") /\ UNCHANGED <<bootpVars, wireVars>>
       ELSE /\ bootp_timeout' = 2 * bootp_timeout
            /\ bootp_request(bootp_ids, bootp_timeout')
            /\ UNCHANGED <<net_state, net_try_count, bootp_age, firstId>>
    /\ phase' = IF net_state' = "CONTINUE" THEN "rx" ELSE "switch"
    /\ UNCHANGED <<protocol, ret, commands, loaded, addressVars, arpVars>>

\* bootp_timeout_handler().
BootpTimeout ==
    /\ phase = "rx" /\ time_handler = "bootp" /\ time_age > time_delta
    /\ IF bootp_age >= TIMEOUT_MS
       THEN net_start_again("none") /\ UNCHANGED <<bootpVars, wireVars>>
       ELSE /\ bootp_timeout' = IF 2 * bootp_timeout > BOOTP_TIMEOUT_MAX THEN BOOTP_TIMEOUT_MAX
                                ELSE 2 * bootp_timeout
            /\ bootp_request(bootp_ids, bootp_timeout')
            /\ UNCHANGED <<net_state, net_try_count, bootp_age, firstId>>
    /\ phase' = IF net_state' = "CONTINUE" THEN "rx" ELSE "switch"
    /\ UNCHANGED <<protocol, ret, commands, loaded, addressVars, arpVars>>

\* The answers a server may give to what was sent.  A server that is not one of
\* Routers names a router in some of its answers, or in none.
Answers ==
    { m \in [op : {"OFFER", "ACK", "NAK"}, id : 1 .. lastId, server : Servers, routed : BOOLEAN] :
        /\ IF m.op = "NAK" THEN ~m.routed ELSE m.server \in Routers => m.routed
        /\ CASE m.op = "OFFER" -> Discover(m.id) \in sent
             [] m.op = "ACK"   -> Request(m.id, m.server, m.server) \in sent
             [] OTHER          -> \E ip \in {None, m.server} : Request(m.id, m.server, ip) \in sent }

\* check_reply_packet().
Expected(m) == udp_handler = "dhcp" /\ m.id \in Range(bootp_ids)

\* dhcp_process_options(): a router option is taken, and where there is none
\* the router known before stays.
Gateway(m) == IF m.routed THEN m.server ELSE net_gateway

\* dhcp_handler() when SELECTING: the message type is not looked at.
RecvSelecting(m) ==
    /\ Expected(m) /\ dhcp_state = "SELECTING"
    /\ net_gateway' = Gateway(m)
    /\ dhcp_state' = "REQUESTING"
    /\ net_set_timeout_handler(REQUEST_TIMEOUT, "bootp")
    /\ net_tx_packet' = Request(m.id, m.server, IF m.op = "NAK" THEN None ELSE m.server)
    /\ Transmit(net_tx_packet')
    /\ UNCHANGED <<net_ip, udp_handler, bootp_ids, bootp_age, bootp_timeout, lastId, firstId, arpVars>>

\* Mutant: the options of the ACK are not taken.
RecvRequestingKeepsOptions(m) ==
    /\ Expected(m) /\ dhcp_state = "REQUESTING" /\ m.op = "ACK"
    /\ net_ip' = m.server /\ UNCHANGED net_gateway
    /\ dhcp_state' = "BOUND"
    /\ tftp_start(m.server, net_gateway)
    /\ UNCHANGED <<bootp_ids, bootp_age, bootp_timeout, lastId, firstId>>

\* dhcp_handler() when REQUESTING: an ACK binds the address, the rest is
\* ignored.  net_auto_load() goes on with TFTP.
RecvRequesting(m) ==
    /\ Expected(m) /\ dhcp_state = "REQUESTING" /\ m.op = "ACK"
    /\ net_gateway' = Gateway(m) /\ net_ip' = m.server
    /\ dhcp_state' = "BOUND"
    /\ tftp_start(m.server, Gateway(m))
    /\ UNCHANGED <<bootp_ids, bootp_age, bootp_timeout, lastId, firstId>>

RecvDhcp ==
    /\ phase = "rx" /\ udp_handler = "dhcp"
    /\ \E m \in Answers : RecvSelecting(m) \/ RecvRequesting(m)
    /\ UNCHANGED loopVars

-----------------------------------------------------------------------------
(* net_loop().                                                             *)

\* From the `restart' label on, for protocol p.
restart(p) ==
    /\ net_state' = "CONTINUE" /\ loaded' = FALSE
    /\ \/ p = "DHCP" /\ dhcp_start /\ UNCHANGED <<net_gateway, arpVars>>
       \/ p = "TFTPGET" /\ tftp_start(net_ip, net_gateway) /\ UNCHANGED <<addressVars, bootpVars>>
       \/ p = "PING" /\ ping_start /\ UNCHANGED <<addressVars, bootpVars, udp_handler>>

\* A command ends before it begins: eth_init() fails, with an error of the
\* driver, or net_check_prereq() finds that p needs an address and has none.
Refuse(p) ==
    /\ \/ ret' \in {ENODEV, ETIMEDOUT} /\ UNCHANGED net_state
       \/ p # "DHCP" /\ net_ip = None /\ ret' = ENODEV /\ net_state' = "CONTINUE"
    /\ UNCHANGED <<phase, loaded, timerVars, udp_handler, addressVars, bootpVars, arpVars, wireVars>>

\* net_loop() is called.
Command ==
    /\ phase = "idle" /\ commands < MaxCommands
    /\ commands' = commands + 1 /\ net_try_count' = 1
    /\ \E p \in Commands :
         /\ protocol' = p
         /\ \/ Refuse(p)
            \/ (p = "DHCP" \/ net_ip # None) /\ restart(p) /\ phase' = "rx" /\ UNCHANGED ret

PingTimeout ==
    /\ phase = "rx" /\ time_handler = "ping" /\ time_age > time_delta
    /\ net_state' = "FAIL" /\ phase' = "switch" /\ time_handler' = "none"
    /\ UNCHANGED <<protocol, net_try_count, ret, commands, loaded, time_age, time_delta,
                   udp_handler, addressVars, bootpVars, arpVars, wireVars>>

\* start_again_timeout_handler(), then NETLOOP_RESTART.
StartAgainTimeout ==
    /\ phase = "rx" /\ time_handler = "start_again" /\ time_age > time_delta
    /\ restart(protocol)
    /\ UNCHANGED <<phase, protocol, net_try_count, ret, commands>>

\* net_cleanup_loop(): the handlers go, a pending ARP wait does not.
net_cleanup_loop ==
    time_handler' = "none" /\ udp_handler' = "dummy" /\ UNCHANGED <<time_age, time_delta>>

\* Mutant: what net_start_again() returns is not kept.
NetLoopReturnForgets ==
    /\ phase # "idle" /\ net_state # "CONTINUE"
    /\ ret' = IF net_state = "SUCCESS" THEN IF loaded THEN 1 ELSE 0
              ELSE 0
    /\ phase' = "idle" /\ net_cleanup_loop
    /\ UNCHANGED <<protocol, net_state, net_try_count, commands, loaded, addressVars,
                   bootpVars, arpVars, wireVars>>

\* A terminating net_state.  On FAIL net_start_again() runs first; when it does
\* not refuse, net_state is FAIL all the same and eth_init()'s 0 is returned.
NetLoopReturn ==
    /\ phase # "idle" /\ net_state # "CONTINUE"
    /\ ret' = IF net_state = "SUCCESS" THEN IF loaded THEN 1 ELSE 0
              ELSE IF net_try_count >= RetryCnt THEN ETIMEDOUT ELSE 0
    /\ phase' = "idle" /\ net_cleanup_loop
    /\ UNCHANGED <<protocol, net_state, net_try_count, commands, loaded, addressVars,
                   bootpVars, arpVars, wireVars>>

\* Mutant: a pending ARP wait survives ctrl-C.
CtrlCKeepsWait ==
    /\ phase = "rx"
    /\ phase' = "idle" /\ ret' = EINTR /\ net_cleanup_loop
    /\ UNCHANGED <<protocol, net_state, net_try_count, commands, loaded, addressVars, bootpVars,
                   arpVars, wireVars>>

\* ctrlc(): "cancel any ARP that may not have completed".
CtrlC ==
    /\ phase = "rx"
    /\ phase' = "idle" /\ ret' = EINTR /\ net_cleanup_loop
    /\ net_arp_wait_packet_ip' = None
    /\ UNCHANGED <<protocol, net_state, net_try_count, commands, loaded, addressVars, bootpVars,
                   net_arp_wait_reply_ip, arp_age, arp_wait_try, arpFailed, wireVars>>

-----------------------------------------------------------------------------
(* Time.  While an ARP wait is pending net_loop restarts the handler's     *)
(* timer on every turn.  Ages stop where the code no longer tells them     *)
(* apart.                                                                  *)

Older(age, limit) == IF age > limit THEN age ELSE age + 1

TimerDue ==
    \/ Waiting /\ arp_age > ARP_TIMEOUT
    \/ time_handler # "none" /\ time_age > time_delta

Tick ==
    /\ phase = "rx" /\ net_state = "CONTINUE" /\ ~TimerDue
    /\ ~(time_handler = "tftp" /\ ~Waiting)
    /\ time_age' = IF Waiting THEN 0 ELSE Older(time_age, time_delta)
    /\ arp_age' = IF Waiting THEN arp_age + 1 ELSE arp_age
    /\ bootp_age' = IF protocol = "DHCP" THEN Older(bootp_age, Overtime) ELSE bootp_age
    /\ silence' = Older(silence, Patience + 1)
    /\ UNCHANGED <<loopVars, time_handler, time_delta, udp_handler, addressVars, dhcp_state,
                   bootp_ids, bootp_timeout, lastId, firstId, net_arp_wait_packet_ip,
                   net_arp_wait_reply_ip, arp_wait_try, arpFailed,
                   net_tx_packet, sent>>

\* The prompt: an ARP wait left behind by a command grows old.
Idle ==
    /\ phase = "idle" /\ Waiting /\ arp_age <= ARP_TIMEOUT
    /\ arp_age' = arp_age + 1
    /\ UNCHANGED <<loopVars, timerVars, udp_handler, addressVars, bootpVars, net_arp_wait_packet_ip,
                   net_arp_wait_reply_ip, arp_wait_try, arpFailed, wireVars>>

-----------------------------------------------------------------------------

Init ==
    /\ phase = "idle" /\ protocol = "none" /\ net_state = "CONTINUE"
    /\ net_try_count = 1 /\ ret = 0 /\ commands = 0 /\ loaded = FALSE
    /\ time_handler = "none" /\ time_age = 0 /\ time_delta = 0 /\ udp_handler = "dummy"
    /\ net_ip \in {None, "static"} /\ net_gateway = None
    /\ dhcp_state = "INIT" /\ bootp_ids = <<>> /\ bootp_age = 0
    /\ bootp_timeout = BOOTP_TIMEOUT_MIN
    /\ net_arp_wait_packet_ip = None /\ net_arp_wait_reply_ip = None
    /\ arp_age = 0 /\ arp_wait_try = 0
    /\ net_tx_packet = [op |-> "none"] /\ sent = {}
    /\ lastId = 0 /\ firstId = 0 /\ silence = 0 /\ arpFailed = FALSE

Timers == ArpTimeout \/ BootpTimeout \/ PingTimeout \/ StartAgainTimeout
Receive == RecvArpReply \/ RecvEchoReply \/ RecvDhcp

Next ==
    Command \/ Timers \/ Receive \/ TftpEnds \/ NetLoopReturn \/ CtrlC \/ Tick \/ Idle

Spec == Init /\ [][Next]_vars

\* The clock runs, timers that are due fire, a transfer ends (see Tftp) and a
\* terminating net_state is acted upon.  Nothing is assumed of the network.
FairSpec ==
    Spec /\ WF_vars(Tick) /\ WF_vars(Timers) /\ WF_vars(TftpEnds) /\ WF_vars(NetLoopReturn)

-----------------------------------------------------------------------------
(* Properties.                                                             *)

Frame ==
    [op : {"DISCOVER"}, id : Nat] \cup [op : {"RRQ"}, dst : {"tftphost"}]
    \cup [op : {"REQUEST"}, id : Nat, server : Servers, ip : Servers \cup {None}]
    \cup [op : {"ECHO"}, dst : {"pinghost"}, src : Servers \cup {"static"}]
    \cup [op : {"ARP"}, target : Hosts \cup Servers, src : Servers \cup {"static", None}]

\* The types of the variables; the id cache never outgrows its array.
TypeOK ==
    /\ phase \in {"idle", "rx", "switch"} /\ protocol \in Commands \cup {"none"}
    /\ net_state \in {"CONTINUE", "SUCCESS", "FAIL"} /\ net_try_count \in Nat
    /\ ret \in {ENODEV, EINTR, ETIMEDOUT, 0, 1} /\ commands \in Nat /\ loaded \in BOOLEAN
    /\ time_handler \in {"none", "bootp", "tftp", "ping", "start_again"}
    /\ time_age \in Nat /\ time_delta \in Nat /\ udp_handler \in {"dummy", "dhcp", "tftp"}
    /\ net_ip \in Servers \cup {"static", None} /\ net_gateway \in Servers \cup {None}
    /\ dhcp_state \in {"INIT", "SELECTING", "REQUESTING", "BOUND"}
    /\ bootp_ids \in Seq(Nat) /\ Len(bootp_ids) <= CONFIG_BOOTP_ID_CACHE_SIZE
    /\ bootp_age \in Nat /\ bootp_timeout \in Nat
    /\ net_arp_wait_packet_ip \in Hosts \cup {None}
    /\ net_arp_wait_reply_ip \in Hosts \cup Servers \cup {None}
    /\ arp_age \in Nat /\ arp_wait_try \in Nat
    /\ net_tx_packet \in Frame \cup {[op |-> "none"]} /\ sent \subseteq Frame
    /\ lastId \in Nat /\ firstId \in Nat /\ silence \in Nat
    /\ arpFailed \in BOOLEAN

\* A leased address is used with the router of the server that leased it, if
\* that server names one: dhcp_handler() takes the router of every OFFER it
\* follows, but the ACK that binds the address, even a late one of another
\* server, replaces it.  Of a server that names none nothing is said: the router
\* of an OFFER followed before then stays.
RouterFromLessor == net_ip \in Routers => net_gateway = net_ip

\* While DHCP runs, an answer to the newest DISCOVER is accepted, and none to
\* a DISCOVER from before bootp_reset(): an answer meant for an earlier command
\* or an earlier try cannot bind an address.
IdCacheSound ==
    phase = "rx" /\ udp_handler = "dhcp" =>
        lastId \in Range(bootp_ids) /\ Range(bootp_ids) \subseteq firstId .. lastId

\* Until its time is over DHCP keeps sending retry packets: it is never silent
\* for longer than its longest timeout.
KeepsSending ==
    phase = "rx" /\ time_handler = "bootp" => silence <= Patience + 1

\* An echo request has been sent, to which a late reply may come.
Pinged == \E f \in sent : f.op = "ECHO"

\* So it is at least as long as no ARP wait has given up and no late echo reply
\* can end a command in the middle of one: no other way a command ends, ctrl-C
\* included, stops the timer of the next one.
KeepsSendingUnlessWaitLeft == ~arpFailed /\ ~Pinged => KeepsSending

\* DHCP gives up in time: the last DISCOVER is sent before TIMEOUT_MS is over,
\* and after it comes at most one wait for an OFFER and one for the ACK.
GivesUpInTime == phase = "rx" /\ time_handler = "bootp" => bootp_age <= Overtime

\* net_loop clears time_handler before it calls the handler.  As long as the
\* command goes on a handler is set all the same, and it is the one of the
\* protocol that listens: whatever is lost, what can ask again will be called.
TimedByListener ==
    phase = "rx" /\ net_state = "CONTINUE" =>
        <<time_handler, udp_handler>> \in {<<"bootp", "dhcp">>, <<"tftp", "tftp">>, <<"ping", "dummy">>,
                                         <<"start_again", "dummy">>}

\* The frame an ARP reply releases from the one transmit buffer is the frame
\* that waited for it, although DHCP builds its frames in the same buffer.
ReleasesWhatWaits ==
    phase = "rx" /\ Waiting /\ net_ip # None /\ Arp(net_arp_wait_reply_ip, net_ip) \in sent =>
        net_tx_packet \in {Rrq, Echo(net_ip)} /\ net_tx_packet.dst = net_arp_wait_packet_ip

\* netboot_common() takes a result that is not negative for "net_loop ok": then
\* the boot file has been loaded (autoload is not switched off).
OkMeansLoaded ==
    phase = "idle" /\ protocol \in {"DHCP", "TFTPGET"} /\ ret >= 0 => loaded

\* So it is at least as long as no ping was ever sent, whose late answer would
\* end any command: not after a time-out, a NAK, an ARP wait that gave up or a
\* late answer to an earlier download.
OkMeansLoadedUnlessPinged == ~Pinged => OkMeansLoaded

\* Every command returns to the prompt, whatever the network does, also after
\* a command that left its ARP wait pending.
Returns == phase # "idle" ~> phase = "idle"
=============================================================================
