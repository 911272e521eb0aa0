--------------------------- MODULE NetLoopProofs ----------------------------
(***************************************************************************)
(* Proofs about the network loop, for any number of commands and servers,  *)
(* any timeouts and any size of the id cache.                              *)
(***************************************************************************)
EXTENDS NetLoop, TLAPS

Addresses == Servers \cup {"static", None}

-----------------------------------------------------------------------------
(* Frames.                                                                 *)

\* What the board sends is a frame.
LEMMA FrameTypes ==
    /\ \A id \in Nat : Discover(id) \in Frame
    /\ \A id \in Nat, server \in Servers, ip \in Servers \cup {None} :
           Request(id, server, ip) \in Frame
    /\ Rrq \in Frame /\ Rrq.dst = "tftphost"
    /\ \A ip \in Servers \cup {"static"} : Echo(ip) \in Frame
    /\ \A ip : Echo(ip).dst = "pinghost"
    /\ \A target \in Hosts \cup Servers, ip \in Addresses : Arp(target, ip) \in Frame
<1>1. \A id \in Nat : Discover(id) \in Frame
  BY DEF Discover, Frame
<1>2. \A id \in Nat, server \in Servers, ip \in Servers \cup {None} :
          Request(id, server, ip) \in Frame
  BY DEF Request, Frame
<1>3. Rrq \in Frame /\ Rrq.dst = "tftphost"
  BY DEF Rrq, Frame
<1>4. \A ip \in Servers \cup {"static"} : Echo(ip) \in Frame
  BY DEF Echo, Frame
<1>5. \A ip : Echo(ip).dst = "pinghost"
  BY DEF Echo
<1>6. \A target \in Hosts \cup Servers, ip \in Addresses : Arp(target, ip) \in Frame
  BY DEF Arp, Frame, Addresses
<1> QED BY <1>1, <1>2, <1>3, <1>4, <1>5, <1>6

\* Only an echo request is an ECHO.
LEMMA Ops ==
    /\ \A id : Discover(id).op = "DISCOVER"
    /\ \A id, server, ip : Request(id, server, ip).op = "REQUEST"
    /\ Rrq.op = "RRQ" /\ \A ip : Echo(ip).op = "ECHO"
    /\ \A target, ip : Arp(target, ip).op = "ARP"
BY DEF Discover, Request, Rrq, Echo, Arp

\* Intervals from 1 with the same members have the same end.
LEMMA SameInterval == \A a, b \in Nat : 1 .. a = 1 .. b => a = b
<1> SUFFICES ASSUME NEW a \in Nat, NEW b \in Nat, NEW S, S = 1 .. a, S = 1 .. b
             PROVE  a = b
  OBVIOUS
<1>1. (a > 0 => a \in S) /\ (b > 0 => b \in S)
  OBVIOUS
<1>2. (a > 0 => a \in 1 .. b) /\ (b > 0 => b \in 1 .. a)
  BY <1>1, Zenon
<1> QED BY <1>2

\* The id cache after bootp_add_id: still within its array, the new id last,
\* and nothing in it but the new id and what was there.
LEMMA AddId ==
    ASSUME NEW ids \in Seq(Nat), Len(ids) <= CONFIG_BOOTP_ID_CACHE_SIZE, NEW id \in Nat
    PROVE  LET new == bootp_add_id(ids, id) IN
           /\ new \in Seq(Nat) /\ Len(new) <= CONFIG_BOOTP_ID_CACHE_SIZE
           /\ id \in Range(new) /\ Range(new) \subseteq Range(ids) \cup {id}
<1> DEFINE n == CONFIG_BOOTP_ID_CACHE_SIZE
           new == bootp_add_id(ids, id)
<1>1. n \in Nat /\ n >= 2
  BY NetLoopAssumption
<1>2. CASE Len(ids) < n
  <2>1. new = Append(ids, id)
    BY <1>2 DEF bootp_add_id
  <2>2. new \in Seq(Nat) /\ Len(new) = Len(ids) + 1 /\ new[Len(ids) + 1] = id
        /\ \A i \in 1 .. Len(ids) : new[i] = ids[i]
    BY <2>1
  <2>3. DOMAIN new = 1 .. Len(ids) + 1 /\ DOMAIN ids = 1 .. Len(ids) /\ Len(ids) \in Nat
    BY <2>2
  <2>4. id \in Range(new) /\ Range(new) \subseteq Range(ids) \cup {id}
    BY <2>2, <2>3, SMTT(40) DEF Range
  <2> QED BY <1>1, <1>2, <2>2, <2>4
<1>3. CASE Len(ids) = n
  <2>1. new = [i \in 1 .. n |-> IF i = n THEN id ELSE IF i <= n - 2 THEN ids[i + 1] ELSE ids[i]]
    BY <1>1, <1>3 DEF bootp_add_id
  <2>2. \A i \in 1 .. n : new[i] = id \/ \E j \in 1 .. n : new[i] = ids[j]
    BY <1>1, <2>1
  <2>3. DOMAIN ids = 1 .. n /\ \A j \in 1 .. n : ids[j] \in Nat
    BY <1>3
  <2>4. new \in [1 .. n -> Nat]
    BY <1>1, <2>1, <2>3
  <2>5. new \in Seq(Nat) /\ Len(new) = n
    <3> HIDE DEF new, n
    <3>1. new \in Seq(Nat)
      BY <1>1, <2>4
    <3>2. Len(new) \in Nat /\ DOMAIN new = 1 .. Len(new) /\ DOMAIN new = 1 .. n
      BY <2>4, <3>1
    <3>3. n \in Nat /\ 1 .. Len(new) = 1 .. n
      BY <1>1, <3>2, Zenon
    <3>4. Len(new) = n
      BY <3>2, <3>3, SameInterval, Zenon
    <3> QED BY <3>1, <3>4, Zenon
  <2>6. id \in Range(new) /\ Range(new) \subseteq Range(ids) \cup {id}
    <3>1. DOMAIN new = 1 .. n /\ new[n] = id
      BY <1>1, <2>1
    <3> HIDE DEF new
    <3>2. n \in DOMAIN new
      BY <1>1, <3>1
    <3>3. id \in Range(new)
      BY <3>1, <3>2 DEF Range
    <3>4. ASSUME NEW v \in Range(new) PROVE v \in Range(ids) \cup {id}
      <4>1. PICK x \in DOMAIN new : v = new[x]
        BY DEF Range
      <4>2. v = id \/ \E j \in 1 .. n : v = ids[j]
        BY <2>2, <3>1, <4>1, Zenon
      <4> QED BY <2>3, <4>2, Zenon DEF Range
    <3> QED BY <3>3, <3>4, Zenon
  <2> QED BY <1>1, <2>5, <2>6
<1> QED BY <1>1, <1>2, <1>3

-----------------------------------------------------------------------------
(* Types, and what waits in the one transmit buffer.                       *)

\* While DHCP is under way the board has no address.
Addressless == udp_handler = "dhcp" \/ time_handler = "bootp" => net_ip = None

\* A ping under way has an address to come from.
Pinging == phase # "idle" /\ protocol = "PING" => net_ip # None

\* What waits for ARP is still in the buffer, once there is an address.
Held ==
    Waiting /\ net_ip # None =>
        net_tx_packet \in {Rrq, Echo(net_ip)} /\ net_tx_packet.dst = net_arp_wait_packet_ip

LoopTypes ==
    /\ phase \in {"idle", "rx", "switch"} /\ protocol \in Commands \cup {"none"}
    /\ net_state \in {"CONTINUE", "SUCCESS", "FAIL"} /\ net_try_count \in Nat
    /\ ret \in {ENODEV, EINTR, ETIMEDOUT, 0, 1} /\ commands \in Nat /\ loaded \in BOOLEAN

TimerTypes ==
    /\ time_handler \in {"none", "bootp", "tftp", "ping", "start_again"}
    /\ time_age \in Nat /\ time_delta \in Nat /\ udp_handler \in {"dummy", "dhcp", "tftp"}

AddressTypes == net_ip \in Addresses /\ net_gateway \in Servers \cup {None}

BootpTypes ==
    /\ dhcp_state \in {"INIT", "SELECTING", "REQUESTING", "BOUND"}
    /\ bootp_ids \in Seq(Nat) /\ Len(bootp_ids) <= CONFIG_BOOTP_ID_CACHE_SIZE
    /\ bootp_age \in Nat /\ bootp_timeout \in Nat /\ lastId \in Nat /\ firstId \in Nat

ArpTypes ==
    /\ net_arp_wait_packet_ip \in Hosts \cup {None}
    /\ net_arp_wait_reply_ip \in Hosts \cup Servers \cup {None}
    /\ arp_age \in Nat /\ arp_wait_try \in Nat /\ arpFailed \in BOOLEAN

WireTypes ==
    net_tx_packet \in Frame \cup {[op |-> "none"]} /\ sent \subseteq Frame /\ silence \in Nat

\* The types, part by part.
LEMMA TypeGroups ==
    TypeOK <=> LoopTypes /\ TimerTypes /\ AddressTypes /\ BootpTypes /\ ArpTypes /\ WireTypes
BY Zenon DEF TypeOK, LoopTypes, TimerTypes, AddressTypes, BootpTypes, ArpTypes, WireTypes, Addresses

\* A step keeps the types if it keeps those of the parts it changes.
LEMMA TypeStep ==
    ASSUME TypeOK,
           LoopTypes' \/ UNCHANGED loopVars, TimerTypes' \/ UNCHANGED <<timerVars, udp_handler>>,
           AddressTypes' \/ UNCHANGED addressVars, BootpTypes' \/ UNCHANGED bootpVars,
           ArpTypes' \/ UNCHANGED arpVars, WireTypes' \/ UNCHANGED wireVars
    PROVE  TypeOK'
<1> USE TypeGroups
<1>1. LoopTypes'
  BY Zenon DEF LoopTypes, loopVars
<1>2. TimerTypes'
  BY Zenon DEF TimerTypes, timerVars
<1>3. AddressTypes'
  BY Zenon DEF AddressTypes, addressVars
<1>4. BootpTypes'
  BY Zenon DEF BootpTypes, bootpVars
<1>5. ArpTypes'
  BY Zenon DEF ArpTypes, arpVars
<1>6. WireTypes'
  BY Zenon DEF WireTypes, wireVars
<1> QED BY <1>1, <1>2, <1>3, <1>4, <1>5, <1>6, PTL

AInv == TypeOK /\ Addressless /\ Pinging /\ Held

\* The names of the module are different from each other.
LEMMA Names ==
    /\ None = "none" /\ Hosts = {"tftphost", "pinghost"} /\ None \notin Servers
    /\ None \notin Hosts /\ "static" \notin Servers
BY NetLoopAssumption DEF None, Hosts

\* What is transmitted is added to what was sent.
LEMMA TransmitTypes ==
    ASSUME TypeOK, NEW frame \in Frame, Transmit(frame)
    PROVE  sent' \subseteq Frame /\ silence' \in Nat /\ silence' <= silence
BY DEF TypeOK, Transmit

\* An ARP request goes to a host or to the gateway.
LEMMA ArpRequestTypes ==
    ASSUME TypeOK, NEW dest \in Hosts, NEW ip \in Addresses, NEW gateway \in Servers \cup {None},
           arp_request(dest, ip, gateway)
    PROVE  /\ net_arp_wait_reply_ip' \in Hosts \cup Servers
           /\ sent' \subseteq Frame /\ silence' \in Nat /\ silence' = silence
           /\ Pinged' <=> Pinged
<1> DEFINE hop == IF (dest \in Local /\ ip # None) \/ gateway = None THEN dest ELSE gateway
<1>1. hop \in Hosts \cup Servers
  OBVIOUS
<1>2. net_arp_wait_reply_ip' = hop /\ Transmit(Arp(hop, ip))
  BY DEF arp_request
<1> HIDE DEF hop
<1>3. Arp(hop, ip) \in Frame /\ Arp(hop, ip).op = "ARP"
  BY <1>1, FrameTypes, Ops, Zenon
<1>4. silence' = silence /\ sent' = sent \cup {Arp(hop, ip)}
  BY <1>2, <1>3 DEF Transmit
<1>5. Pinged' <=> Pinged
  BY <1>3, <1>4 DEF Pinged
<1>6. sent' \subseteq Frame /\ silence' \in Nat
  BY <1>2, <1>3, TransmitTypes, Zenon
<1> QED BY <1>1, <1>2, <1>4, <1>5, <1>6

\* A frame that waits for ARP.
LEMMA ArpWaitTypes ==
    ASSUME TypeOK, NEW frame \in Frame, frame.dst \in Hosts, NEW ip \in Addresses,
           NEW gateway \in Servers \cup {None}, arp_wait(frame, ip, gateway)
    PROVE  /\ net_tx_packet' = frame /\ net_arp_wait_packet_ip' = frame.dst
           /\ arp_wait_try' \in Nat /\ arp_age' \in Nat /\ arpFailed' = arpFailed
           /\ net_arp_wait_reply_ip' \in Hosts \cup Servers
           /\ sent' \subseteq Frame /\ silence' \in Nat /\ silence' = silence
           /\ Pinged' <=> Pinged
<1>1. arp_request(frame.dst, ip, gateway)
  BY Zenon DEF arp_wait
<1>2. /\ net_arp_wait_reply_ip' \in Hosts \cup Servers
      /\ sent' \subseteq Frame /\ silence' \in Nat /\ silence' = silence
      /\ Pinged' <=> Pinged
  BY <1>1, ArpRequestTypes, Zenon
<1> QED BY <1>2 DEF arp_wait

\* tftp_start leaves the read request waiting.
LEMMA TftpStartTypes ==
    ASSUME TypeOK, NEW ip \in Addresses, NEW gateway \in Servers \cup {None},
           tftp_start(ip, gateway)
    PROVE  /\ net_tx_packet' = Rrq /\ net_arp_wait_packet_ip' = "tftphost"
           /\ arp_wait_try' \in Nat /\ arp_age' \in Nat /\ arpFailed' = arpFailed
           /\ net_arp_wait_reply_ip' \in Hosts \cup Servers
           /\ sent' \subseteq Frame /\ silence' \in Nat /\ silence' = silence
           /\ Pinged' <=> Pinged
           /\ time_handler' = "tftp" /\ time_age' = 0 /\ time_delta' = 1 /\ udp_handler' = "tftp"
<1>1. Rrq \in Frame /\ Rrq.dst = "tftphost" /\ Rrq.dst \in Hosts
  BY FrameTypes, Names
<1>2. arp_wait(Rrq, ip, gateway)
  BY Zenon DEF tftp_start
<1> HIDE DEF Rrq
<1>3. /\ net_tx_packet' = Rrq /\ net_arp_wait_packet_ip' = Rrq.dst
      /\ arp_wait_try' \in Nat /\ arp_age' \in Nat /\ arpFailed' = arpFailed
      /\ net_arp_wait_reply_ip' \in Hosts \cup Servers
      /\ sent' \subseteq Frame /\ silence' \in Nat /\ silence' = silence
      /\ Pinged' <=> Pinged
  BY <1>1, <1>2, ArpWaitTypes, Zenon
<1> QED BY <1>1, <1>3 DEF tftp_start, net_set_timeout_handler

\* ping_start leaves an echo request waiting.
LEMMA PingStartTypes ==
    ASSUME TypeOK, net_ip # None, ping_start
    PROVE  /\ net_tx_packet' = Echo(net_ip) /\ net_arp_wait_packet_ip' = "pinghost"
           /\ arp_wait_try' \in Nat /\ arp_age' \in Nat /\ arpFailed' = arpFailed
           /\ net_arp_wait_reply_ip' \in Hosts \cup Servers
           /\ sent' \subseteq Frame /\ silence' \in Nat /\ silence' = silence
           /\ Pinged' <=> Pinged
           /\ time_handler' = "ping" /\ time_age' = 0 /\ time_delta' \in Nat
<1> DEFINE echo == Echo(net_ip)
<1>1. net_ip \in Servers \cup {"static"} /\ net_ip \in Addresses /\ net_gateway \in Servers \cup {None}
  BY DEF TypeOK, Addresses
<1>2. echo \in Frame /\ echo.dst = "pinghost" /\ echo.dst \in Hosts
  BY <1>1, FrameTypes, Names
<1>3. arp_wait(echo, net_ip, net_gateway)
  BY Zenon DEF ping_start
<1> HIDE DEF echo
<1>4. /\ net_tx_packet' = echo /\ net_arp_wait_packet_ip' = echo.dst
      /\ arp_wait_try' \in Nat /\ arp_age' \in Nat /\ arpFailed' = arpFailed
      /\ net_arp_wait_reply_ip' \in Hosts \cup Servers
      /\ sent' \subseteq Frame /\ silence' \in Nat /\ silence' = silence
      /\ Pinged' <=> Pinged
  BY <1>1, <1>2, <1>3, ArpWaitTypes, Zenon
<1>5. time_handler' = "ping" /\ time_age' = 0 /\ time_delta' \in Nat
  BY NetLoopAssumption DEF ping_start, net_set_timeout_handler
<1> QED BY <1>2, <1>4, <1>5 DEF echo

\* bootp_request sends a DISCOVER with a new id and waits for the answer.
LEMMA BootpRequestTypes ==
    ASSUME TypeOK, NEW ids \in Seq(Nat), Len(ids) <= CONFIG_BOOTP_ID_CACHE_SIZE,
           NEW timeout \in Nat, bootp_request(ids, timeout)
    PROVE  /\ lastId' = lastId + 1 /\ lastId' \in Nat
           /\ bootp_ids' \in Seq(Nat) /\ Len(bootp_ids') <= CONFIG_BOOTP_ID_CACHE_SIZE
           /\ lastId' \in Range(bootp_ids') /\ Range(bootp_ids') \subseteq Range(ids) \cup {lastId'}
           /\ time_handler' = "bootp" /\ time_age' = 0 /\ time_delta' = timeout
           /\ dhcp_state' = "SELECTING" /\ udp_handler' = "dhcp"
           /\ net_tx_packet' \in Frame /\ sent' \subseteq Frame /\ silence' = 0
           /\ Pinged' <=> Pinged
<1>1. lastId' = lastId + 1 /\ lastId' \in Nat
  BY DEF bootp_request, TypeOK
<1>2. bootp_ids' = bootp_add_id(ids, lastId')
  BY Zenon DEF bootp_request
<1>3. /\ bootp_ids' \in Seq(Nat) /\ Len(bootp_ids') <= CONFIG_BOOTP_ID_CACHE_SIZE
      /\ lastId' \in Range(bootp_ids') /\ Range(bootp_ids') \subseteq Range(ids) \cup {lastId'}
  BY <1>1, <1>2, AddId, Zenon
<1>4. /\ time_handler' = "bootp" /\ time_age' = 0 /\ time_delta' = timeout
      /\ dhcp_state' = "SELECTING" /\ udp_handler' = "dhcp"
  BY Zenon DEF bootp_request, net_set_timeout_handler
<1>5. net_tx_packet' = Discover(lastId') /\ Transmit(net_tx_packet')
  BY Zenon DEF bootp_request
<1>6. net_tx_packet' \in Frame /\ net_tx_packet'.op = "DISCOVER"
  BY <1>1, <1>5, FrameTypes, Ops, Zenon
<1>7. silence' = 0 /\ sent' = sent \cup {net_tx_packet'}
  BY <1>5, <1>6 DEF Transmit
<1>8. (Pinged' <=> Pinged) /\ sent' \subseteq Frame
  BY <1>6, <1>7 DEF Pinged, TypeOK
<1> QED BY <1>1, <1>3, <1>4, <1>6, <1>7, <1>8, Zenon

\* DHCP starts over: a first DISCOVER, with an empty id cache and no address.
LEMMA DhcpStartTypes ==
    ASSUME TypeOK, dhcp_start
    PROVE  /\ bootp_age' = 0 /\ bootp_timeout' = BOOTP_TIMEOUT_MIN /\ net_ip' = None
           /\ lastId' = lastId + 1 /\ lastId' \in Nat /\ firstId' = lastId'
           /\ bootp_ids' \in Seq(Nat) /\ Len(bootp_ids') <= CONFIG_BOOTP_ID_CACHE_SIZE
           /\ lastId' \in Range(bootp_ids') /\ Range(bootp_ids') \subseteq {lastId'}
           /\ time_handler' = "bootp" /\ time_age' = 0 /\ time_delta' = BOOTP_TIMEOUT_MIN
           /\ dhcp_state' = "SELECTING" /\ udp_handler' = "dhcp"
           /\ net_tx_packet' \in Frame /\ sent' \subseteq Frame /\ silence' = 0
           /\ Pinged' <=> Pinged
<1> DEFINE none == <<>>
<1>1. none \in Seq(Nat) /\ Len(none) <= CONFIG_BOOTP_ID_CACHE_SIZE /\ BOOTP_TIMEOUT_MIN \in Nat
  BY NetLoopAssumption
<1>2. Range(none) = {}
  BY DEF Range
<1>3. bootp_request(none, BOOTP_TIMEOUT_MIN)
  BY Zenon DEF dhcp_start
<1> HIDE DEF none
<1>4. /\ lastId' = lastId + 1 /\ lastId' \in Nat
      /\ bootp_ids' \in Seq(Nat) /\ Len(bootp_ids') <= CONFIG_BOOTP_ID_CACHE_SIZE
      /\ lastId' \in Range(bootp_ids') /\ Range(bootp_ids') \subseteq Range(none) \cup {lastId'}
      /\ time_handler' = "bootp" /\ time_age' = 0 /\ time_delta' = BOOTP_TIMEOUT_MIN
      /\ dhcp_state' = "SELECTING" /\ udp_handler' = "dhcp"
      /\ net_tx_packet' \in Frame /\ sent' \subseteq Frame /\ silence' = 0
      /\ Pinged' <=> Pinged
  BY <1>1, <1>3, BootpRequestTypes, Zenon
<1>5. bootp_age' = 0 /\ bootp_timeout' = BOOTP_TIMEOUT_MIN /\ net_ip' = None /\ firstId' = lastId + 1
  BY Zenon DEF dhcp_start
<1> QED BY <1>2, <1>4, <1>5, Zenon

\* A restart keeps the types and the invariant on the buffer.
LEMMA RestartTypes ==
    ASSUME AInv, NEW p \in Commands, restart(p), p = "PING" => net_ip # None,
           protocol' = p, phase' = "rx", net_try_count' \in Nat, commands' \in Nat, ret' = ret
    PROVE  AInv'
<1>1. TypeOK /\ net_ip \in Addresses /\ net_gateway \in Servers \cup {None}
  BY TypeGroups, Zenon DEF AInv, AddressTypes
<1>9. LoopTypes'
  BY <1>1, TypeGroups, Zenon DEF LoopTypes, restart
<1>2. CASE p = "DHCP" /\ dhcp_start /\ UNCHANGED <<net_gateway, arpVars>>
  <2>1. /\ bootp_age' = 0 /\ bootp_timeout' = BOOTP_TIMEOUT_MIN /\ net_ip' = None
        /\ lastId' = lastId + 1 /\ lastId' \in Nat /\ firstId' = lastId'
        /\ bootp_ids' \in Seq(Nat) /\ Len(bootp_ids') <= CONFIG_BOOTP_ID_CACHE_SIZE
        /\ time_handler' = "bootp" /\ time_age' = 0 /\ time_delta' = BOOTP_TIMEOUT_MIN
        /\ dhcp_state' = "SELECTING" /\ udp_handler' = "dhcp"
        /\ net_tx_packet' \in Frame /\ sent' \subseteq Frame /\ silence' = 0
    BY <1>1, <1>2, DhcpStartTypes, Zenon
  <2>2. TypeOK'
    <3>1. AddressTypes'
      BY <1>1, <1>2, <2>1 DEF AddressTypes, Addresses
    <3>2. TimerTypes' /\ BootpTypes' /\ WireTypes'
      BY <2>1, NetLoopAssumption DEF TimerTypes, BootpTypes, WireTypes
    <3> QED BY <1>9, <1>1, <1>2, <3>1, <3>2, TypeStep, Zenon
  <2> QED BY <1>2, <2>1, <2>2 DEF AInv, Addressless, Pinging, Held
<1>3. CASE p = "TFTPGET" /\ tftp_start(net_ip, net_gateway) /\ UNCHANGED <<addressVars, bootpVars>>
  <2>1. /\ net_tx_packet' = Rrq /\ net_arp_wait_packet_ip' = "tftphost"
        /\ arp_wait_try' \in Nat /\ arp_age' \in Nat /\ arpFailed' = arpFailed
        /\ net_arp_wait_reply_ip' \in Hosts \cup Servers
        /\ sent' \subseteq Frame /\ silence' \in Nat
        /\ time_handler' = "tftp" /\ time_age' = 0 /\ time_delta' = 1 /\ udp_handler' = "tftp"
    BY <1>1, <1>3, TftpStartTypes, Zenon
  <2>2. Rrq \in Frame /\ Rrq.dst = "tftphost"
    BY FrameTypes, Zenon
  <2>3. TypeOK'
    <3>1. TimerTypes' /\ ArpTypes' /\ WireTypes'
      BY <1>1, <2>1, <2>2, Names, TypeGroups DEF TimerTypes, ArpTypes, WireTypes
    <3> QED BY <1>9, <1>1, <1>3, <3>1, TypeStep, Zenon
  <2>4. Addressless' /\ Pinging'
    BY <1>3, <2>1 DEF Addressless, Pinging
  <2>5. Held'
    BY <1>3, <2>1, <2>2 DEF Held
  <2> QED BY <2>3, <2>4, <2>5 DEF AInv
<1>4. CASE p = "PING" /\ ping_start /\ UNCHANGED <<addressVars, bootpVars, udp_handler>>
  <2>1. /\ net_tx_packet' = Echo(net_ip) /\ net_arp_wait_packet_ip' = "pinghost"
        /\ arp_wait_try' \in Nat /\ arp_age' \in Nat /\ arpFailed' = arpFailed
        /\ net_arp_wait_reply_ip' \in Hosts \cup Servers
        /\ sent' \subseteq Frame /\ silence' \in Nat
        /\ time_handler' = "ping" /\ time_age' = 0 /\ time_delta' \in Nat
    BY <1>1, <1>4, PingStartTypes, Zenon
  <2>2. net_ip \in Servers \cup {"static"}
    BY <1>1, <1>4 DEF Addresses
  <2>3. Echo(net_ip) \in Frame /\ Echo(net_ip).dst = "pinghost" /\ net_ip' = net_ip
    BY <1>4, <2>2, FrameTypes, Zenon DEF addressVars
  <2>4. TypeOK'
    <3>1. TimerTypes' /\ ArpTypes' /\ WireTypes'
      BY <1>1, <1>4, <2>1, <2>3, Names, TypeGroups DEF TimerTypes, ArpTypes, WireTypes
    <3> QED BY <1>9, <1>1, <1>4, <3>1, TypeStep, Zenon
  <2>5. Addressless' /\ Pinging'
    BY <1>4, <2>1, <2>3 DEF AInv, Addressless, Pinging
  <2>6. Held'
    BY <2>1, <2>3 DEF Held
  <2> QED BY <2>4, <2>5, <2>6 DEF AInv
<1> QED BY <1>2, <1>3, <1>4, Zenon DEF restart

\* net_start_again starts a pause, or makes net_loop fail.
LEMMA StartAgainTypes ==
    ASSUME TypeOK, net_start_again("none")
    PROVE  /\ net_state' \in {net_state, "FAIL"} /\ net_try_count' \in Nat
           /\ net_try_count' >= net_try_count
           /\ time_age' \in Nat /\ time_delta' \in Nat
           /\ \/ /\ time_handler' = "none" /\ udp_handler' = udp_handler /\ net_state' = "FAIL"
                 /\ UNCHANGED <<time_age, time_delta>>
              \/ time_handler' = "start_again" /\ udp_handler' = "dummy" /\ time_age' = 0
<1>1. net_try_count \in Nat /\ time_age \in Nat /\ time_delta \in Nat /\ START_AGAIN \in Nat
  BY NetLoopAssumption DEF TypeOK
<1>2. \A n \in Nat : n + 1 \in Nat /\ n + 1 >= n /\ n >= n
  OBVIOUS
<1> QED BY <1>1, <1>2 DEF net_start_again, net_set_timeout_handler

\* The invariant holds at first.
LEMMA InitA == Init => AInv
<1> SUFFICES ASSUME Init PROVE AInv
  OBVIOUS
<1>1. <<>> \in Seq(Nat) /\ Len(<<>>) = 0
  OBVIOUS
<1>2. TypeOK
  <2>1. bootp_ids \in Seq(Nat) /\ Len(bootp_ids) <= CONFIG_BOOTP_ID_CACHE_SIZE
    BY <1>1, NetLoopAssumption DEF Init
  <2>2. BOOTP_TIMEOUT_MIN \in Nat
    BY NetLoopAssumption
  <2>3. LoopTypes /\ TimerTypes /\ AddressTypes
    BY Zenon DEF Init, LoopTypes, TimerTypes, AddressTypes, Addresses
  <2>4. BootpTypes /\ ArpTypes /\ WireTypes
    BY <2>1, <2>2, Zenon DEF Init, BootpTypes, ArpTypes, WireTypes
  <2> QED BY <2>3, <2>4, TypeGroups, Zenon
<1> QED BY <1>2 DEF AInv, Init, Addressless, Pinging, Held, Waiting

\* A command keeps the invariant.
LEMMA CommandA == ASSUME AInv, Command PROVE AInv'
<1>1. /\ phase = "idle" /\ net_try_count' = 1 /\ commands' = commands + 1
  BY DEF Command
<1>2. PICK p \in Commands :
         /\ protocol' = p
         /\ \/ Refuse(p)
            \/ (p = "DHCP" \/ net_ip # None) /\ restart(p) /\ phase' = "rx" /\ UNCHANGED ret
  BY Zenon DEF Command
<1>3. net_try_count' \in Nat /\ commands' \in Nat
  BY <1>1 DEF AInv, TypeOK
<1>4. CASE Refuse(p)
  <2>1. /\ ret' \in {ENODEV, ETIMEDOUT} /\ net_state' \in {net_state, "CONTINUE"}
        /\ UNCHANGED <<phase, loaded, timerVars, udp_handler, addressVars, bootpVars, arpVars, wireVars>>
    BY <1>4 DEF Refuse
  <2>2. TypeOK'
    <3>1. LoopTypes'
      BY <1>2, <1>3, <2>1, TypeGroups DEF AInv, LoopTypes
    <3> QED BY <2>1, <3>1, TypeStep, Zenon DEF AInv
  <2>3. Addressless' /\ Pinging' /\ Held'
    BY <1>1, <2>1 DEF AInv, Addressless, Pinging, Held, Waiting,
                      timerVars, addressVars, arpVars, wireVars
  <2> QED BY <2>2, <2>3 DEF AInv
<1>5. CASE (p = "DHCP" \/ net_ip # None) /\ restart(p) /\ phase' = "rx" /\ UNCHANGED ret
  <2>1. p = "PING" => net_ip # None
    BY <1>5
  <2> QED BY <1>2, <1>3, <1>5, <2>1, RestartTypes, Zenon
<1> QED BY <1>2, <1>4, <1>5, Zenon

\* Timers keep the invariant.
LEMMA TimersA == ASSUME AInv, Timers PROVE AInv'
<1> USE DEF AInv
<1>1. TypeOK /\ net_ip \in Addresses /\ net_gateway \in Servers \cup {None}
  BY DEF TypeOK, Addresses
<1>2. CASE ArpTimeout
  <2>1. /\ Waiting /\ net_arp_wait_packet_ip \in Hosts /\ arp_wait_try + 1 \in Nat
        /\ UNCHANGED <<phase, protocol, net_try_count, ret, commands, loaded, timerVars, udp_handler,
                       addressVars, bootpVars, net_arp_wait_packet_ip, net_tx_packet>>
    BY <1>2, Names DEF ArpTimeout, Waiting, TypeOK
  <2>2. \/ /\ arp_wait_try' = 0 /\ net_state' = "FAIL" /\ arpFailed' = TRUE
           /\ UNCHANGED <<net_arp_wait_reply_ip, arp_age, sent, silence>>
        \/ /\ arp_wait_try' = arp_wait_try + 1 /\ arp_age' = 0
           /\ arp_request(net_arp_wait_packet_ip, net_ip, net_gateway)
           /\ UNCHANGED <<net_state, arpFailed>>
    BY <1>2, Zenon DEF ArpTimeout
  <2>3. /\ net_state' \in {net_state, "FAIL"} /\ arp_wait_try' \in Nat /\ arp_age' \in Nat
        /\ arpFailed' \in BOOLEAN
    <3>1. arp_age \in Nat /\ 0 \in Nat /\ arpFailed \in BOOLEAN
      BY DEF TypeOK
    <3> QED BY <2>1, <2>2, <3>1, Zenon
  <2>4. net_arp_wait_reply_ip' \in Hosts \cup Servers \cup {None}
        /\ sent' \subseteq Frame /\ silence' \in Nat
    <3>1. net_arp_wait_packet_ip \in Hosts
      BY <2>1, Zenon
    <3>2. CASE arp_request(net_arp_wait_packet_ip, net_ip, net_gateway)
      BY <1>1, <3>1, <3>2, ArpRequestTypes, Zenon
    <3>3. CASE UNCHANGED <<net_arp_wait_reply_ip, arp_age, sent, silence>>
      BY <3>3 DEF TypeOK
    <3> QED BY <2>2, <3>2, <3>3, Zenon
  <2>5. TypeOK'
    <3>1. LoopTypes'
      BY <2>1, <2>3, TypeGroups DEF LoopTypes
    <3>2. ArpTypes' /\ WireTypes'
      BY <2>1, <2>3, <2>4, TypeGroups, Zenon DEF ArpTypes, WireTypes
    <3> QED BY <2>1, <3>1, <3>2, TypeStep, Zenon
  <2> QED BY <2>1, <2>5 DEF Addressless, Pinging, Held, Waiting, timerVars, addressVars
<1>3. CASE BootpTimeout
  <2>1. /\ phase = "rx" /\ time_handler = "bootp" /\ net_ip = None
        /\ phase' = IF net_state' = "CONTINUE" THEN "rx" ELSE "switch"
        /\ UNCHANGED <<protocol, ret, commands, loaded, addressVars, arpVars>>
    BY <1>3 DEF BootpTimeout, Addressless
  <2>2. CASE net_start_again("none") /\ UNCHANGED <<bootpVars, wireVars>>
    <3>1. /\ net_state' \in {net_state, "FAIL"} /\ net_try_count' \in Nat
          /\ time_age' \in Nat /\ time_delta' \in Nat
          /\ time_handler' \in {"none", "start_again"} /\ udp_handler' \in {udp_handler, "dummy"}
      BY <1>1, <2>2, StartAgainTypes, Zenon
    <3>2. TypeOK'
      <4>1. LoopTypes' /\ TimerTypes'
        BY <2>1, <3>1, TypeGroups DEF LoopTypes, TimerTypes
      <4> QED BY <2>1, <2>2, <4>1, TypeStep, Zenon
    <3> QED BY <2>1, <3>1, <3>2 DEF Addressless, Pinging, Held, addressVars
  <2>3. CASE /\ bootp_timeout' = IF 2 * bootp_timeout > BOOTP_TIMEOUT_MAX THEN BOOTP_TIMEOUT_MAX
                                 ELSE 2 * bootp_timeout
             /\ bootp_request(bootp_ids, bootp_timeout')
             /\ UNCHANGED <<net_state, net_try_count, bootp_age, firstId>>
    <3>1. /\ bootp_ids \in Seq(Nat) /\ Len(bootp_ids) <= CONFIG_BOOTP_ID_CACHE_SIZE
          /\ bootp_timeout' \in Nat /\ bootp_request(bootp_ids, bootp_timeout')
      BY <2>3, NetLoopAssumption DEF TypeOK
    <3>2. /\ lastId' \in Nat
          /\ bootp_ids' \in Seq(Nat) /\ Len(bootp_ids') <= CONFIG_BOOTP_ID_CACHE_SIZE
          /\ time_handler' = "bootp" /\ time_age' = 0 /\ time_delta' = bootp_timeout'
          /\ dhcp_state' = "SELECTING" /\ udp_handler' = "dhcp"
          /\ net_tx_packet' \in Frame /\ sent' \subseteq Frame /\ silence' = 0
      BY <1>1, <3>1, BootpRequestTypes, Zenon
    <3>3. TypeOK'
      <4>1. LoopTypes'
        BY <2>1, <2>3, TypeGroups DEF LoopTypes
      <4>2. TimerTypes' /\ BootpTypes' /\ WireTypes'
        BY <2>3, <3>1, <3>2, TypeGroups DEF TimerTypes, BootpTypes, WireTypes
      <4> QED BY <2>1, <4>1, <4>2, TypeStep, Zenon
    <3> QED BY <2>1, <3>2, <3>3 DEF Addressless, Pinging, Held, addressVars
  <2> QED BY <1>3, <2>2, <2>3, Zenon DEF BootpTimeout
<1>4. CASE PingTimeout
  <2>1. TypeOK'
    <3>1. LoopTypes' /\ TimerTypes'
      BY <1>4, TypeGroups DEF PingTimeout, LoopTypes, TimerTypes
    <3> QED BY <1>4, <3>1, TypeStep, Zenon DEF PingTimeout
  <2> QED BY <1>4, <2>1 DEF PingTimeout, Addressless, Pinging, Held, Waiting,
                            addressVars, arpVars, wireVars
<1>5. CASE StartAgainTimeout
  <2>1. /\ phase = "rx" /\ restart(protocol)
        /\ UNCHANGED <<phase, protocol, net_try_count, ret, commands>>
    BY <1>5, Zenon DEF StartAgainTimeout
  <2>2. protocol \in {"DHCP", "TFTPGET", "PING"}
    BY <2>1, Zenon DEF restart
  <2>3. /\ protocol \in Commands /\ (protocol = "PING" => net_ip # None) /\ phase' = "rx"
        /\ net_try_count' \in Nat /\ commands' \in Nat /\ ret' = ret /\ protocol' = protocol
    BY <2>1, <2>2 DEF TypeOK, Pinging
  <2>4. AInv
    BY Zenon
  <2> HIDE DEF AInv
  <2> QED BY <2>1, <2>3, <2>4, RestartTypes, Zenon
<1> QED BY <1>2, <1>3, <1>4, <1>5, Zenon DEF Timers

\* An answer names an id that was used, and a server.
LEMMA AnswerTypes ==
    ASSUME NEW m \in Answers, TypeOK
    PROVE  /\ m.id \in Nat /\ m.server \in Servers /\ m.server \in Addresses
           /\ m.server \in Servers \cup {None} /\ Gateway(m) \in Servers \cup {None}
           /\ (m.op = "ACK" /\ m.server \in Routers => Gateway(m) = m.server)
<1>1. /\ m \in [op : {"OFFER", "ACK", "NAK"}, id : 1 .. lastId, server : Servers, routed : BOOLEAN]
      /\ IF m.op = "NAK" THEN ~m.routed ELSE m.server \in Routers => m.routed
  BY DEF Answers
<1> QED BY <1>1 DEF Gateway, Addresses, TypeOK

\* An answer taken when SELECTING: a REQUEST is sent, the wait is for the ACK.
LEMMA SelectingTypes ==
    ASSUME TypeOK, NEW m \in Answers, RecvSelecting(m)
    PROVE  /\ udp_handler = "dhcp" /\ net_gateway' \in Servers \cup {None}
           /\ dhcp_state = "SELECTING" /\ dhcp_state' = "REQUESTING"
           /\ time_handler' = "bootp" /\ time_age' = 0 /\ time_delta' = REQUEST_TIMEOUT
           /\ net_tx_packet' \in Frame /\ sent' \subseteq Frame /\ silence' = 0
           /\ Pinged' <=> Pinged
           /\ UNCHANGED <<net_ip, udp_handler, bootp_ids, bootp_age, bootp_timeout, lastId, firstId,
                          arpVars>>
<1> DEFINE ip == IF m.op = "NAK" THEN None ELSE m.server
<1>1. /\ Expected(m) /\ dhcp_state = "SELECTING" /\ net_gateway' = Gateway(m)
      /\ dhcp_state' = "REQUESTING" /\ net_set_timeout_handler(REQUEST_TIMEOUT, "bootp")
      /\ net_tx_packet' = Request(m.id, m.server, ip) /\ Transmit(net_tx_packet')
      /\ UNCHANGED <<net_ip, udp_handler, bootp_ids, bootp_age, bootp_timeout, lastId, firstId,
                     arpVars>>
  BY Zenon DEF RecvSelecting
<1>2. m.id \in Nat /\ m.server \in Servers /\ ip \in Servers \cup {None}
      /\ Gateway(m) \in Servers \cup {None}
  BY AnswerTypes
<1> HIDE DEF ip
<1>3. net_tx_packet' \in Frame /\ net_tx_packet'.op = "REQUEST"
  BY <1>1, <1>2, FrameTypes, Ops, ZenonT(40)
<1>4. silence' = 0 /\ sent' = sent \cup {net_tx_packet'}
  BY <1>1, <1>3 DEF Transmit
<1>5. (Pinged' <=> Pinged) /\ sent' \subseteq Frame
  BY <1>3, <1>4 DEF Pinged, TypeOK
<1> QED BY <1>1, <1>2, <1>3, <1>4, <1>5, Zenon DEF Expected, net_set_timeout_handler

\* An ACK binds the address and the router of a server that names one, and TFTP
\* starts.
LEMMA RequestingTypes ==
    ASSUME TypeOK, NEW m \in Answers, RecvRequesting(m)
    PROVE  /\ udp_handler = "dhcp"
           /\ net_ip' \in Servers /\ net_gateway' \in Servers \cup {None}
           /\ net_ip' \in Routers => net_gateway' = net_ip'
           /\ dhcp_state' = "BOUND"
           /\ net_tx_packet' = Rrq /\ net_arp_wait_packet_ip' = "tftphost"
           /\ arp_wait_try' \in Nat /\ arp_age' \in Nat /\ arpFailed' = arpFailed
           /\ net_arp_wait_reply_ip' \in Hosts \cup Servers
           /\ sent' \subseteq Frame /\ silence' \in Nat /\ silence' = silence
           /\ Pinged' <=> Pinged
           /\ time_handler' = "tftp" /\ time_age' = 0 /\ time_delta' = 1 /\ udp_handler' = "tftp"
           /\ UNCHANGED <<bootp_ids, bootp_age, bootp_timeout, lastId, firstId>>
<1>1. /\ Expected(m) /\ m.op = "ACK" /\ net_gateway' = Gateway(m) /\ net_ip' = m.server
      /\ dhcp_state' = "BOUND" /\ tftp_start(m.server, Gateway(m))
      /\ UNCHANGED <<bootp_ids, bootp_age, bootp_timeout, lastId, firstId>>
  BY Zenon DEF RecvRequesting
<1>2. /\ m.server \in Servers /\ m.server \in Addresses /\ m.server \in Servers \cup {None}
      /\ Gateway(m) \in Servers \cup {None} /\ (m.server \in Routers => Gateway(m) = m.server)
  BY <1>1, AnswerTypes
<1>3. /\ net_tx_packet' = Rrq /\ net_arp_wait_packet_ip' = "tftphost"
      /\ arp_wait_try' \in Nat /\ arp_age' \in Nat /\ arpFailed' = arpFailed
      /\ net_arp_wait_reply_ip' \in Hosts \cup Servers
      /\ sent' \subseteq Frame /\ silence' \in Nat /\ silence' = silence
      /\ Pinged' <=> Pinged
      /\ time_handler' = "tftp" /\ time_age' = 0 /\ time_delta' = 1 /\ udp_handler' = "tftp"
  BY <1>1, <1>2, TftpStartTypes, Zenon
<1> QED BY <1>1, <1>2, <1>3, Zenon DEF Expected

\* Packets that come in keep the invariant.
LEMMA ReceiveA == ASSUME AInv, Receive PROVE AInv'
<1> USE DEF AInv
<1>1. CASE RecvArpReply
  <2>1. /\ Waiting /\ net_ip # None /\ Transmit(net_tx_packet) /\ net_arp_wait_packet_ip' = None
        /\ UNCHANGED <<loopVars, timerVars, udp_handler, addressVars, bootpVars,
                       net_arp_wait_reply_ip, arp_age, arp_wait_try, arpFailed, net_tx_packet>>
    BY <1>1, Zenon DEF RecvArpReply
  <2>2. net_tx_packet \in {Rrq, Echo(net_ip)} /\ net_ip \in Servers \cup {"static"}
    BY <2>1 DEF Held, TypeOK
  <2>3. net_tx_packet \in Frame
    BY <2>2, FrameTypes, Zenon
  <2>4. sent' \subseteq Frame /\ silence' \in Nat
    BY <2>1, <2>3, TransmitTypes, Zenon
  <2>5. TypeOK'
    <3>1. ArpTypes' /\ WireTypes'
      BY <2>1, <2>4, TypeGroups, Zenon DEF ArpTypes, WireTypes
    <3> QED BY <2>1, <3>1, TypeStep, Zenon
  <2> QED BY <2>1, <2>5
          DEF Addressless, Pinging, Held, Waiting, loopVars, timerVars, addressVars
<1>2. CASE RecvEchoReply
  <2>1. TypeOK'
    <3>1. LoopTypes'
      BY <1>2, TypeGroups DEF RecvEchoReply, LoopTypes
    <3> QED BY <1>2, <3>1, TypeStep, Zenon DEF RecvEchoReply
  <2> QED BY <1>2, <2>1 DEF RecvEchoReply, Addressless, Pinging, Held, Waiting,
                            timerVars, addressVars, arpVars, wireVars
<1>3. CASE RecvDhcp
  <2>1. PICK m \in Answers : RecvSelecting(m) \/ RecvRequesting(m)
    BY <1>3, Zenon DEF RecvDhcp
  <2>2. UNCHANGED loopVars
    BY <1>3, Zenon DEF RecvDhcp
  <2>3. CASE RecvSelecting(m)
    <3>1. /\ udp_handler = "dhcp" /\ net_gateway' \in Servers \cup {None}
          /\ dhcp_state' = "REQUESTING"
          /\ time_handler' = "bootp" /\ time_age' = 0 /\ time_delta' = REQUEST_TIMEOUT
          /\ net_tx_packet' \in Frame /\ sent' \subseteq Frame /\ silence' = 0
          /\ UNCHANGED <<net_ip, udp_handler, bootp_ids, bootp_age, bootp_timeout, lastId, firstId,
                         arpVars>>
      BY <2>3, SelectingTypes, Zenon
    <3>2. REQUEST_TIMEOUT \in Nat /\ net_ip = None
      BY <3>1, NetLoopAssumption DEF Addressless
    <3>3. TypeOK'
      <4>1. TimerTypes' /\ AddressTypes'
        BY <3>1, <3>2, TypeGroups DEF TimerTypes, AddressTypes
      <4>2. BootpTypes' /\ WireTypes'
        BY <3>1, TypeGroups DEF BootpTypes, WireTypes
      <4> QED BY <2>2, <3>1, <4>1, <4>2, TypeStep, Zenon
    <3> QED BY <2>2, <3>1, <3>2, <3>3 DEF Addressless, Pinging, Held, loopVars
  <2>4. CASE RecvRequesting(m)
    <3>1. /\ net_ip' \in Servers /\ net_gateway' \in Servers \cup {None} /\ dhcp_state' = "BOUND"
          /\ net_tx_packet' = Rrq /\ net_arp_wait_packet_ip' = "tftphost"
          /\ arp_wait_try' \in Nat /\ arp_age' \in Nat /\ arpFailed' = arpFailed
          /\ net_arp_wait_reply_ip' \in Hosts \cup Servers
          /\ sent' \subseteq Frame /\ silence' \in Nat
          /\ time_handler' = "tftp" /\ time_age' = 0 /\ time_delta' = 1 /\ udp_handler' = "tftp"
          /\ UNCHANGED <<bootp_ids, bootp_age, bootp_timeout, lastId, firstId>>
      BY <2>4, RequestingTypes, Zenon
    <3>2. Rrq \in Frame /\ Rrq.dst = "tftphost" /\ net_ip' # None
      BY <3>1, FrameTypes, Names
    <3>3. TypeOK'
      <4>1. TimerTypes' /\ AddressTypes'
        BY <3>1 DEF TimerTypes, AddressTypes, Addresses
      <4>2. BootpTypes'
        BY <3>1, TypeGroups DEF BootpTypes
      <4>3. ArpTypes' /\ WireTypes'
        BY <3>1, <3>2, Names, TypeGroups DEF ArpTypes, WireTypes
      <4> QED BY <2>2, <4>1, <4>2, <4>3, TypeStep, Zenon
    <3> QED BY <2>2, <3>1, <3>2, <3>3 DEF Addressless, Pinging, Held, loopVars
  <2> QED BY <2>1, <2>3, <2>4, Zenon
<1> QED BY <1>1, <1>2, <1>3, Zenon DEF Receive

\* So do the ends of commands.
LEMMA EndsA == ASSUME AInv, TftpEnds \/ NetLoopReturn \/ CtrlC PROVE AInv'
<1> USE DEF AInv
<1>1. CASE TftpEnds
  <2>1. /\ time_handler = "tftp"
        /\ UNCHANGED <<phase, protocol, ret, commands, addressVars, bootpVars, arpVars, wireVars>>
    BY <1>1, Zenon DEF TftpEnds
  <2>2. /\ net_state' \in {"CONTINUE", "SUCCESS", "FAIL"} /\ loaded' \in BOOLEAN
        /\ net_try_count' \in Nat /\ time_age' \in Nat /\ time_delta' \in Nat
        /\ time_handler' \in {"none", "tftp", "start_again"}
        /\ udp_handler' \in {udp_handler, "dummy"}
    <3>1. CASE net_start_again("none") /\ UNCHANGED loaded
      BY <3>1, StartAgainTypes DEF TypeOK
    <3>2. CASE /\ net_state' = "SUCCESS" /\ loaded' = TRUE
               /\ UNCHANGED <<net_try_count, timerVars, udp_handler>>
      BY <2>1, <3>2 DEF TypeOK, timerVars
    <3>3. CASE /\ net_state' = "FAIL"
               /\ UNCHANGED <<loaded, net_try_count, timerVars, udp_handler>>
      BY <2>1, <3>3 DEF TypeOK, timerVars
    <3> QED BY <1>1, <3>1, <3>2, <3>3, Zenon DEF TftpEnds
  <2>3. TypeOK'
    <3>1. LoopTypes' /\ TimerTypes'
      BY <2>1, <2>2, TypeGroups DEF LoopTypes, TimerTypes
    <3> QED BY <2>1, <3>1, TypeStep, Zenon
  <2> QED BY <2>1, <2>2, <2>3 DEF Addressless, Pinging, Held, Waiting, addressVars, arpVars, wireVars
<1>2. CASE NetLoopReturn
  <2>1. TypeOK'
    <3>1. LoopTypes' /\ TimerTypes'
      BY <1>2, TypeGroups DEF NetLoopReturn, net_cleanup_loop, LoopTypes, TimerTypes
    <3> QED BY <1>2, <3>1, TypeStep, Zenon DEF NetLoopReturn
  <2> QED BY <1>2, <2>1 DEF NetLoopReturn, net_cleanup_loop, Addressless, Pinging, Held, Waiting,
                            addressVars, arpVars, wireVars
<1>3. CASE CtrlC
  <2>1. TypeOK'
    <3>1. LoopTypes' /\ TimerTypes'
      BY <1>3, TypeGroups DEF CtrlC, net_cleanup_loop, LoopTypes, TimerTypes
    <3>2. ArpTypes'
      BY <1>3, TypeGroups, Zenon DEF CtrlC, ArpTypes
    <3> QED BY <1>3, <3>1, <3>2, TypeStep, Zenon DEF CtrlC
  <2> QED BY <1>3, <2>1 DEF CtrlC, net_cleanup_loop, Addressless, Pinging, Held, Waiting,
                            addressVars, wireVars
<1> QED BY <1>1, <1>2, <1>3, Zenon

\* And so does time.
LEMMA TimeA == ASSUME AInv, Tick \/ Idle \/ UNCHANGED vars PROVE AInv'
<1> USE DEF AInv
<1>1. CASE Tick
  <2>1. TypeOK'
    <3>1. TimerTypes'
      BY <1>1, TypeGroups DEF Tick, Older, TimerTypes
    <3>2. BootpTypes'
      BY <1>1, TypeGroups DEF Tick, Older, BootpTypes
    <3>3. ArpTypes'
      BY <1>1, TypeGroups DEF Tick, ArpTypes
    <3>4. WireTypes'
      BY <1>1, TypeGroups DEF Tick, Older, WireTypes
    <3> QED BY <1>1, <3>1, <3>2, <3>3, <3>4, TypeStep, Zenon DEF Tick
  <2> QED BY <1>1, <2>1 DEF Tick, Addressless, Pinging, Held, Waiting, loopVars, addressVars
<1>2. CASE Idle
  <2>1. TypeOK'
    <3>1. ArpTypes'
      BY <1>2, TypeGroups DEF Idle, ArpTypes
    <3> QED BY <1>2, <3>1, TypeStep, Zenon DEF Idle
  <2> QED BY <1>2, <2>1 DEF Idle, Addressless, Pinging, Held, Waiting,
                            loopVars, timerVars, addressVars, wireVars
<1>3. CASE UNCHANGED vars
  <2>1. TypeOK'
    BY <1>3, TypeStep, Zenon DEF vars
  <2> QED BY <1>3, <2>1 DEF vars, Addressless, Pinging, Held, Waiting,
                            loopVars, timerVars, addressVars, arpVars, wireVars
<1> QED BY <1>1, <1>2, <1>3, Zenon

\* The types, and what waits in the buffer, on every behaviour.
LEMMA InvariantA == Spec => []AInv
<1>1. ASSUME AInv, [Next]_vars PROVE AInv'
  BY <1>1, CommandA, TimersA, ReceiveA, EndsA, TimeA, Zenon DEF Next
<1> QED BY <1>1, InitA, PTL DEF Spec

\* For any number of servers, commands and retries and any sequence of
\* answers, the variables of the network loop keep their types: in particular
\* the id cache never outgrows its array.
THEOREM TypeCorrect == Spec => []TypeOK
BY InvariantA, PTL DEF AInv

\* On every history of commands, the frame an ARP reply releases from the one
\* transmit buffer is the frame that waited for it.
THEOREM ReleasedIsWhatWaited == Spec => []ReleasesWhatWaits
<1>1. AInv => ReleasesWhatWaits
  BY Zenon DEF AInv, Held, ReleasesWhatWaits
<1> QED BY <1>1, InvariantA, PTL

-----------------------------------------------------------------------------
(* The kinds of steps.                                                     *)

\* A command or a restart begins protocol p.
Starts(p) ==
    /\ restart(p) /\ protocol' = p /\ phase' = "rx" /\ (p = "PING" => net_ip # None)
    /\ phase = "idle" \/ time_handler = "start_again"
    /\ net_try_count' \in {1, net_try_count}

\* A command is refused for want of an interface or an address.
Refuses ==
    /\ phase = "idle" /\ net_try_count' = 1 /\ ret' \in {ENODEV, ETIMEDOUT}
    /\ net_state' \in {net_state, "CONTINUE"}
    /\ UNCHANGED <<phase, loaded, timerVars, udp_handler, addressVars, bootpVars, arpVars,
                   wireVars>>

\* bootp_timeout_handler sends another DISCOVER.
Retries ==
    /\ phase = "rx" /\ time_handler = "bootp" /\ bootp_age < TIMEOUT_MS
    /\ (phase' = "rx" \/ phase' = "switch")
    /\ bootp_timeout' = IF 2 * bootp_timeout > BOOTP_TIMEOUT_MAX THEN BOOTP_TIMEOUT_MAX
                        ELSE 2 * bootp_timeout
    /\ bootp_request(bootp_ids, bootp_timeout')
    /\ UNCHANGED <<protocol, net_state, net_try_count, ret, loaded, addressVars, bootp_age, firstId,
                   arpVars>>

\* bootp_timeout_handler, or the end of a transfer, starts again or fails.
GivesUp ==
    /\ phase = "rx" /\ time_handler \in {"bootp", "tftp"} /\ (time_handler = "tftp" => ~Waiting)
    /\ net_start_again("none") /\ (phase' = "rx" \/ phase' = "switch")
    /\ (time_handler = "bootp" /\ net_state' # "CONTINUE" => phase' = "switch")
    /\ UNCHANGED <<protocol, ret, loaded, addressVars, bootpVars, arpVars, wireVars>>

\* The transfer ends for good.
Finishes ==
    /\ phase = "rx" /\ time_handler = "tftp" /\ ~Waiting
    /\ \/ net_state' = "SUCCESS" /\ loaded' = TRUE
       \/ net_state' = "FAIL" /\ UNCHANGED loaded
    /\ UNCHANGED <<phase, protocol, net_try_count, ret, timerVars, udp_handler, addressVars, bootpVars,
                   arpVars, wireVars>>

\* An answer of a DHCP server is taken.
Selects == phase = "rx" /\ UNCHANGED loopVars /\ \E m \in Answers : RecvSelecting(m)
Binds == phase = "rx" /\ UNCHANGED loopVars /\ \E m \in Answers : RecvRequesting(m)

\* Every step is of one of these kinds.
Steps ==
    \/ (\E p \in Commands : Starts(p)) \/ Refuses \/ ArpTimeout \/ Retries \/ GivesUp \/ PingTimeout
    \/ RecvArpReply \/ RecvEchoReply \/ Selects \/ Binds \/ Finishes \/ NetLoopReturn \/ CtrlC
    \/ Tick \/ Idle \/ UNCHANGED vars

\* What net_loop() does before it begins is a refusal.
LEMMA RefuseRefuses ==
    ASSUME NEW p, phase = "idle", net_try_count' = 1, Refuse(p) PROVE Refuses
BY DEF Refuse, Refuses

\* So it is with the steps of Next.
LEMMA NextSteps == ASSUME AInv, [Next]_vars PROVE Steps
<1>1. CASE Command
  <2>1. phase = "idle" /\ net_try_count' = 1
    BY <1>1, Zenon DEF Command
  <2>2. PICK p \in Commands :
           /\ protocol' = p
           /\ \/ Refuse(p)
              \/ (p = "DHCP" \/ net_ip # None) /\ restart(p) /\ phase' = "rx" /\ UNCHANGED ret
    BY <1>1, Zenon DEF Command
  <2>3. CASE Refuse(p)
    BY <2>1, <2>3, RefuseRefuses, Zenon DEF Steps
  <2>4. CASE (p = "DHCP" \/ net_ip # None) /\ restart(p) /\ phase' = "rx" /\ UNCHANGED ret
    <3>1. p = "PING" => net_ip # None
      BY <2>4
    <3>2. Starts(p)
      BY <2>1, <2>2, <2>4, <3>1, Zenon DEF Starts
    <3> QED BY <3>2, Zenon DEF Steps
  <2> QED BY <2>2, <2>3, <2>4, Zenon
<1>2. CASE BootpTimeout
  <2>1. /\ phase = "rx" /\ time_handler = "bootp"
        /\ phase' = IF net_state' = "CONTINUE" THEN "rx" ELSE "switch"
        /\ UNCHANGED <<protocol, ret, commands, loaded, addressVars, arpVars>>
    BY <1>2, Zenon DEF BootpTimeout
  <2>2. CASE bootp_age >= TIMEOUT_MS
    <3>1. net_start_again("none") /\ UNCHANGED <<bootpVars, wireVars>>
      BY <1>2, <2>2, Zenon DEF BootpTimeout
    <3>2. GivesUp
      BY <2>1, <3>1 DEF GivesUp
    <3> QED BY <3>2, Zenon DEF Steps
  <2>3. CASE ~(bootp_age >= TIMEOUT_MS)
    <3>1. /\ bootp_timeout' = IF 2 * bootp_timeout > BOOTP_TIMEOUT_MAX THEN BOOTP_TIMEOUT_MAX
                              ELSE 2 * bootp_timeout
          /\ bootp_request(bootp_ids, bootp_timeout')
          /\ UNCHANGED <<net_state, net_try_count, bootp_age, firstId>>
      BY <1>2, <2>3, Zenon DEF BootpTimeout
    <3>2. bootp_age < TIMEOUT_MS
      BY <2>3, NetLoopAssumption DEF AInv, TypeOK
    <3>3. Retries
      BY <2>1, <3>1, <3>2, Zenon DEF Retries
    <3> QED BY <3>3, Zenon DEF Steps
  <2> QED BY <2>2, <2>3, Zenon
<1>3. CASE StartAgainTimeout
  <2>1. /\ phase = "rx" /\ time_handler = "start_again" /\ restart(protocol)
        /\ UNCHANGED <<phase, protocol, net_try_count, ret, commands>>
    BY <1>3, Zenon DEF StartAgainTimeout
  <2>2. protocol \in {"DHCP", "TFTPGET", "PING"}
    BY <2>1, Zenon DEF restart
  <2>3. protocol \in Commands /\ (protocol = "PING" => net_ip # None)
    BY <2>1, <2>2 DEF AInv, TypeOK, Pinging
  <2>4. Starts(protocol)
    BY <2>1, <2>3, Zenon DEF Starts
  <2> QED BY <2>3, <2>4, Zenon DEF Steps
<1>4. CASE RecvDhcp
  <2>1. Selects \/ Binds
    BY <1>4, Zenon DEF RecvDhcp, Selects, Binds
  <2> QED BY <2>1, Zenon DEF Steps
<1>5. CASE TftpEnds
  <2>1. /\ phase = "rx" /\ time_handler = "tftp" /\ ~Waiting
        /\ UNCHANGED <<phase, protocol, ret, commands, addressVars, bootpVars, arpVars, wireVars>>
    BY <1>5, Zenon DEF TftpEnds
  <2>2. CASE net_start_again("none") /\ UNCHANGED loaded
    <3>1. GivesUp
      BY <2>1, <2>2 DEF GivesUp
    <3> QED BY <3>1, Zenon DEF Steps
  <2>3. CASE /\ net_state' = "SUCCESS" /\ loaded' = TRUE
             /\ UNCHANGED <<net_try_count, timerVars, udp_handler>>
    <3>1. Finishes
      BY <2>1, <2>3, Zenon DEF Finishes
    <3> QED BY <3>1, Zenon DEF Steps
  <2>4. CASE /\ net_state' = "FAIL"
             /\ UNCHANGED <<loaded, net_try_count, timerVars, udp_handler>>
    <3>1. Finishes
      BY <2>1, <2>4, Zenon DEF Finishes
    <3> QED BY <3>1, Zenon DEF Steps
  <2> QED BY <1>5, <2>2, <2>3, <2>4, Zenon DEF TftpEnds
<1> QED BY <1>1, <1>2, <1>3, <1>4, <1>5, Zenon DEF Next, Timers, Receive, Steps

\* What the beginning of a protocol changes.
LEMMA StartsEffects ==
    ASSUME AInv, NEW p \in Commands, Starts(p)
    PROVE  /\ net_state' = "CONTINUE" /\ loaded' = FALSE /\ time_age' = 0 /\ phase' = "rx"
           /\ arpFailed' = arpFailed /\ (Pinged' <=> Pinged)
           /\ \/ /\ p = "DHCP" /\ time_handler' = "bootp" /\ udp_handler' = "dhcp"
                 /\ dhcp_state' = "SELECTING" /\ time_delta' = BOOTP_TIMEOUT_MIN
                 /\ bootp_timeout' = BOOTP_TIMEOUT_MIN /\ bootp_age' = 0 /\ silence' = 0
                 /\ net_ip' = None /\ firstId' = lastId' /\ lastId' \in Nat
                 /\ lastId' \in Range(bootp_ids') /\ Range(bootp_ids') \subseteq {lastId'}
                 /\ UNCHANGED net_arp_wait_packet_ip
              \/ /\ time_handler' \in {"tftp", "ping"} /\ (time_handler' = "tftp" => udp_handler' = "tftp")
                 /\ udp_handler' \in {udp_handler, "tftp"} /\ UNCHANGED <<addressVars, bootpVars>>
<1>1. TypeOK /\ net_ip \in Addresses /\ net_gateway \in Servers \cup {None}
  BY DEF AInv, TypeOK, Addresses
<1>2. restart(p) /\ phase' = "rx" /\ (p = "PING" => net_ip # None)
  BY Zenon DEF Starts
<1>3. net_state' = "CONTINUE" /\ loaded' = FALSE
  BY <1>2, Zenon DEF restart
<1>4. CASE p = "DHCP" /\ dhcp_start /\ UNCHANGED <<net_gateway, arpVars>>
  <2>1. arpFailed' = arpFailed /\ UNCHANGED net_arp_wait_packet_ip
    BY <1>4 DEF arpVars
  <2> QED BY <1>1, <1>2, <1>3, <1>4, <2>1, DhcpStartTypes, Zenon
<1>5. CASE p = "TFTPGET" /\ tftp_start(net_ip, net_gateway) /\ UNCHANGED <<addressVars, bootpVars>>
  <2>1. /\ arpFailed' = arpFailed /\ (Pinged' <=> Pinged)
        /\ time_handler' = "tftp" /\ time_age' = 0 /\ udp_handler' = "tftp"
    BY <1>1, <1>5, TftpStartTypes, Zenon
  <2> QED BY <1>2, <1>3, <1>5, <2>1
<1>6. CASE p = "PING" /\ ping_start /\ UNCHANGED <<addressVars, bootpVars, udp_handler>>
  <2>1. /\ arpFailed' = arpFailed /\ (Pinged' <=> Pinged)
        /\ time_handler' = "ping" /\ time_age' = 0
    BY <1>1, <1>2, <1>6, PingStartTypes, Zenon
  <2> QED BY <1>2, <1>3, <1>6, <2>1
<1> QED BY <1>2, <1>4, <1>5, <1>6, Zenon DEF restart

\* What another DISCOVER changes.
LEMMA RetriesEffects ==
    ASSUME AInv, Retries
    PROVE  /\ lastId' = lastId + 1 /\ UNCHANGED <<firstId, addressVars, bootp_age, net_state, arpVars>>
           /\ lastId' \in Range(bootp_ids')
           /\ Range(bootp_ids') \subseteq Range(bootp_ids) \cup {lastId'}
           /\ time_handler' = "bootp" /\ time_age' = 0 /\ time_delta' = bootp_timeout'
           /\ bootp_timeout' \in Nat /\ bootp_timeout' <= BOOTP_TIMEOUT_MAX
           /\ dhcp_state' = "SELECTING" /\ udp_handler' = "dhcp" /\ silence' = 0
           /\ Pinged' <=> Pinged
<1>1. /\ bootp_ids \in Seq(Nat) /\ Len(bootp_ids) <= CONFIG_BOOTP_ID_CACHE_SIZE
      /\ bootp_timeout' \in Nat /\ bootp_timeout' <= BOOTP_TIMEOUT_MAX /\ TypeOK
  BY NetLoopAssumption, SMTT(40) DEF AInv, TypeOK, Retries
<1>2. bootp_request(bootp_ids, bootp_timeout')
  BY Zenon DEF Retries
<1>3. UNCHANGED <<firstId, addressVars, bootp_age, net_state, arpVars>>
  BY Zenon DEF Retries
<1> QED BY <1>1, <1>2, <1>3, BootpRequestTypes, ZenonT(40)

\* A step that leaves DHCP alone.
Quiet ==
    /\ UNCHANGED <<addressVars, bootp_ids, lastId, firstId, dhcp_state, bootp_timeout>>
    /\ udp_handler' = "dhcp" => udp_handler = "dhcp"
    /\ time_handler' = "bootp" => time_handler = "bootp"

\* A step that leaves its times alone too.
Still ==
    /\ Quiet /\ bootp_age' = bootp_age /\ silence' <= silence
    /\ time_handler' = "bootp" => UNCHANGED <<time_age, time_delta>>

\* Steps that are none of DHCP's.
LEMMA StillSteps ==
    ASSUME AInv, Refuses \/ ArpTimeout \/ GivesUp \/ PingTimeout \/ RecvArpReply \/ RecvEchoReply
                 \/ Finishes \/ NetLoopReturn \/ CtrlC \/ Idle \/ UNCHANGED vars
    PROVE  Still
<1> USE DEF Still, Quiet, addressVars, bootpVars
<1>1. TypeOK /\ silence \in Nat /\ net_ip \in Addresses /\ net_gateway \in Servers \cup {None}
  BY DEF AInv, TypeOK, Addresses
<1>2. CASE Refuses
  BY <1>1, <1>2 DEF Refuses, timerVars, wireVars
<1>3. CASE ArpTimeout
  <2>1. net_arp_wait_packet_ip \in Hosts
    BY <1>1, <1>3, Names, Zenon DEF ArpTimeout, Waiting, TypeOK
  <2>2. CASE arp_request(net_arp_wait_packet_ip, net_ip, net_gateway)
    <3>1. silence' = silence
      BY <1>1, <2>1, <2>2, ArpRequestTypes, Zenon
    <3> QED BY <1>1, <1>3, <3>1 DEF ArpTimeout, timerVars
  <2>3. CASE UNCHANGED <<net_arp_wait_reply_ip, arp_age, sent, silence>>
    BY <1>1, <1>3, <2>3 DEF ArpTimeout, timerVars
  <2> QED BY <1>3, <2>2, <2>3, Zenon DEF ArpTimeout
<1>4. CASE GivesUp
  <2>1. time_handler' # "bootp" /\ udp_handler' \in {udp_handler, "dummy"}
    BY <1>4 DEF GivesUp, net_start_again, net_set_timeout_handler
  <2> QED BY <1>1, <1>4, <2>1 DEF GivesUp, wireVars
<1>5. CASE PingTimeout
  BY <1>1, <1>5 DEF PingTimeout, wireVars
<1>6. CASE RecvArpReply
  <2>1. silence' <= silence
    BY <1>1, <1>6 DEF RecvArpReply, Transmit
  <2> QED BY <1>6, <2>1 DEF RecvArpReply, timerVars
<1>7. CASE RecvEchoReply
  BY <1>1, <1>7 DEF RecvEchoReply, timerVars, wireVars
<1>8. CASE Finishes
  BY <1>1, <1>8, SMTT(40) DEF Finishes, timerVars, wireVars
<1>9. CASE NetLoopReturn
  BY <1>1, <1>9, SMTT(40) DEF NetLoopReturn, net_cleanup_loop, wireVars
<1>10. CASE CtrlC
  BY <1>1, <1>10 DEF CtrlC, net_cleanup_loop, wireVars
<1>11. CASE Idle
  BY <1>1, <1>11 DEF Idle, timerVars, wireVars
<1>12. CASE UNCHANGED vars
  BY <1>1, <1>12 DEF vars, timerVars, wireVars
<1> QED BY <1>2, <1>3, <1>4, <1>5, <1>6, <1>7, <1>8, <1>9, <1>10, <1>11, <1>12, Zenon

\* Time leaves all of DHCP but its times alone.
LEMMA TickQuiet == ASSUME Tick PROVE Quiet
BY DEF Tick, Quiet

-----------------------------------------------------------------------------
(* DHCP: ids and parameters.                                               *)

\* While DHCP is under way, its cache holds ids given out since bootp_reset.
IdsOwn ==
    udp_handler = "dhcp" \/ time_handler = "bootp" =>
        lastId \in Range(bootp_ids) /\ Range(bootp_ids) \subseteq firstId .. lastId

DInv == RouterFromLessor /\ IdsOwn

\* Neither the address of no one nor a static one is a router's.
LEMMA NoRouter == None \notin Routers /\ "static" \notin Routers
BY NetLoopAssumption DEF None

\* Steps keep it.
LEMMA StepD == ASSUME AInv, DInv, Steps PROVE DInv'
<1>1. ASSUME Quiet PROVE DInv'
  BY <1>1, Zenon DEF Quiet, DInv, RouterFromLessor, IdsOwn, addressVars
<1>2. CASE \E p \in Commands : Starts(p)
  <2>1. PICK p \in Commands : Starts(p)
    BY <1>2
  <2>2. CASE /\ net_ip' = None /\ firstId' = lastId' /\ lastId' \in Nat
             /\ lastId' \in Range(bootp_ids') /\ Range(bootp_ids') \subseteq {lastId'}
    BY <2>2, NoRouter DEF DInv, RouterFromLessor, IdsOwn
  <2>3. CASE /\ time_handler' \in {"tftp", "ping"} /\ udp_handler' \in {udp_handler, "tftp"}
             /\ UNCHANGED <<addressVars, bootpVars>>
    <3>1. Quiet
      BY <2>3 DEF Quiet, bootpVars
    <3> QED BY <3>1, <1>1
  <2> QED BY <2>1, <2>2, <2>3, StartsEffects, Zenon
<1>3. CASE Retries
  <2>1. /\ lastId' = lastId + 1 /\ UNCHANGED <<firstId, addressVars>>
        /\ lastId' \in Range(bootp_ids')
        /\ Range(bootp_ids') \subseteq Range(bootp_ids) \cup {lastId'}
    BY <1>3, RetriesEffects, Zenon
  <2>2. lastId \in Nat /\ firstId \in Nat /\ time_handler = "bootp"
    BY <1>3 DEF AInv, TypeOK, Retries
  <2>3. lastId \in Range(bootp_ids) /\ Range(bootp_ids) \subseteq firstId .. lastId
    BY <2>2, Zenon DEF DInv, IdsOwn
  <2>4. lastId \in firstId .. lastId /\ Range(bootp_ids') \subseteq (firstId .. lastId) \cup {lastId + 1}
    BY <2>1, <2>3, Zenon
  <2>5. Range(bootp_ids') \subseteq firstId' .. lastId'
    BY <2>1, <2>2, <2>4
  <2> QED BY <2>1, <2>5, Zenon DEF DInv, RouterFromLessor, IdsOwn, addressVars
<1>4. CASE Selects
  <2>1. /\ udp_handler = "dhcp"
        /\ UNCHANGED <<net_ip, bootp_ids, lastId, firstId>>
    BY <1>4, SelectingTypes, Zenon DEF Selects, AInv
  <2>2. net_ip = None
    BY <2>1, Zenon DEF AInv, Addressless
  <2> QED BY <2>1, <2>2, NoRouter, Zenon DEF DInv, RouterFromLessor, IdsOwn
<1>5. CASE Binds
  <2>1. /\ net_ip' \in Routers => net_gateway' = net_ip'
        /\ time_handler' = "tftp" /\ udp_handler' = "tftp"
    BY <1>5, RequestingTypes, Zenon DEF Binds, AInv
  <2> QED BY <2>1 DEF DInv, RouterFromLessor, IdsOwn
<1>6. CASE Tick
  BY <1>1, <1>6, TickQuiet, Zenon
<1> QED BY <1>1, <1>2, <1>3, <1>4, <1>5, <1>6, StillSteps, Zenon DEF Steps, Still

\* The ids and parameters of DHCP, on every behaviour.
LEMMA InvariantD == Spec => []DInv
<1>1. Init => DInv
  BY NoRouter DEF Init, DInv, RouterFromLessor, IdsOwn
<1>2. ASSUME AInv, DInv, [Next]_vars PROVE DInv'
  BY <1>2, NextSteps, StepD, Zenon
<1> QED BY <1>1, <1>2, InvariantA, PTL DEF Spec

\* With any number of servers and however their answers are delayed, repeated
\* and mixed, an address leased by a server that names a router in every OFFER
\* and ACK is used with that router, whatever router an OFFER of another server
\* or an earlier lease brought before.
THEOREM RouterIsLessors == Spec => []RouterFromLessor
BY InvariantD, PTL DEF DInv

\* For every size of the id cache and any number of tries and commands, the
\* cache holds the newest id and none from before bootp_reset while DHCP runs.
THEOREM IdsAreOwn == Spec => []IdCacheSound
<1>1. DInv => IdCacheSound
  BY Zenon DEF DInv, IdsOwn, IdCacheSound
<1> QED BY <1>1, InvariantD, PTL

-----------------------------------------------------------------------------
(* What a result tells.                                                    *)

\* What was sent stays sent, and an ARP wait that gave up is not forgotten.
LEMMA HistoryStays ==
    ASSUME AInv, Steps
    PROVE  (Pinged => Pinged') /\ (arpFailed => arpFailed')
<1>1. TypeOK /\ net_ip \in Addresses /\ net_gateway \in Servers \cup {None}
  BY DEF AInv, TypeOK, Addresses
<1>2. ASSUME UNCHANGED <<sent, arpFailed>> PROVE (Pinged => Pinged') /\ (arpFailed => arpFailed')
  BY <1>2, Zenon DEF Pinged
<1>3. CASE \E p \in Commands : Starts(p)
  BY <1>3, StartsEffects, Zenon
<1>4. CASE ArpTimeout
  <2>1. net_arp_wait_packet_ip \in Hosts
    BY <1>1, <1>4, Names DEF ArpTimeout, Waiting, TypeOK
  <2>2. CASE arp_request(net_arp_wait_packet_ip, net_ip, net_gateway) /\ UNCHANGED <<net_state, arpFailed>>
    BY <1>1, <2>1, <2>2, ArpRequestTypes, Zenon
  <2>3. CASE arpFailed' = TRUE /\ UNCHANGED <<net_arp_wait_reply_ip, arp_age, sent, silence>>
    BY <2>3, Zenon DEF Pinged
  <2> QED BY <1>4, <2>2, <2>3, Zenon DEF ArpTimeout
<1>5. CASE Retries
  <2>1. arpFailed' = arpFailed
    BY <1>5 DEF Retries, arpVars
  <2>2. Pinged' <=> Pinged
    BY <1>5, RetriesEffects, Zenon
  <2> QED BY <2>1, <2>2, Zenon
<1>6. CASE Selects
  BY <1>1, <1>6, SelectingTypes, Zenon DEF Selects, arpVars
<1>7. CASE Binds
  BY <1>1, <1>7, RequestingTypes, Zenon DEF Binds
<1>8. CASE RecvArpReply
  <2>1. sent' = sent \cup {net_tx_packet} /\ arpFailed' = arpFailed
    BY <1>8, Zenon DEF RecvArpReply, Transmit
  <2> QED BY <2>1 DEF Pinged
<1>9. CASE Refuses \/ GivesUp \/ PingTimeout \/ RecvEchoReply \/ Finishes \/ NetLoopReturn \/ CtrlC
           \/ Tick \/ Idle \/ UNCHANGED vars
  BY <1>2, <1>9, Zenon
     DEF Refuses, GivesUp, PingTimeout, RecvEchoReply, Finishes, NetLoopReturn, CtrlC, Tick, Idle, vars,
         arpVars, wireVars
<1> QED BY <1>3, <1>4, <1>5, <1>6, <1>7, <1>8, <1>9, ZenonT(40) DEF Steps

\* net_loop succeeds with the file, or because of an echo reply.
LInv ==
    /\ net_try_count >= 1
    /\ net_state = "SUCCESS" => loaded \/ Pinged
    /\ OkMeansLoadedUnlessPinged

\* Steps keep it, if net_start_again refuses at once.
LEMMA StepL == ASSUME AInv, LInv, Steps, RetryCnt <= 1 PROVE LInv'
<1>1. TypeOK /\ net_try_count \in Nat /\ RetryCnt \in Nat /\ (Pinged => Pinged')
  BY HistoryStays, NetLoopAssumption DEF AInv, TypeOK
<1>2. ASSUME UNCHANGED <<phase, protocol, net_state, net_try_count, ret, loaded>> PROVE LInv'
  BY <1>1, <1>2, Zenon DEF LInv, OkMeansLoadedUnlessPinged, OkMeansLoaded
<1>3. ASSUME phase' # "idle", UNCHANGED <<net_try_count, loaded>>, net_state' \in {net_state, "FAIL"}
      PROVE  LInv'
  BY <1>1, <1>3 DEF LInv, OkMeansLoadedUnlessPinged, OkMeansLoaded
<1>4. CASE \E p \in Commands : Starts(p)
  <2>1. PICK p \in Commands : Starts(p)
    BY <1>4
  <2>2. net_state' = "CONTINUE" /\ phase' = "rx" /\ net_try_count' \in {1, net_try_count}
    BY <2>1, StartsEffects, Zenon DEF Starts
  <2> QED BY <1>1, <2>2 DEF LInv, OkMeansLoadedUnlessPinged, OkMeansLoaded
<1>5. CASE Refuses
  <2>1. /\ ret' \in {-3, -1} /\ net_try_count' = 1 /\ UNCHANGED loaded
        /\ net_state' \in {net_state, "CONTINUE"}
    BY <1>5 DEF Refuses, ENODEV, ETIMEDOUT
  <2> QED BY <1>1, <2>1 DEF LInv, OkMeansLoadedUnlessPinged, OkMeansLoaded
<1>6. CASE ArpTimeout
  <2>1. phase' # "idle" /\ UNCHANGED <<net_try_count, loaded>> /\ net_state' \in {net_state, "FAIL"}
    BY <1>6 DEF ArpTimeout
  <2> QED BY <1>3, <2>1
<1>7. CASE Retries \/ PingTimeout
  <2>1. phase' # "idle" /\ UNCHANGED <<net_try_count, loaded>> /\ net_state' \in {net_state, "FAIL"}
    BY <1>7 DEF Retries, PingTimeout
  <2> QED BY <1>3, <2>1
<1>8. CASE GivesUp
  <2>1. /\ net_state' \in {net_state, "FAIL"} /\ net_try_count' \in Nat
        /\ net_try_count' >= net_try_count
    BY <1>1, <1>8, StartAgainTypes, Zenon DEF GivesUp
  <2>2. phase' # "idle" /\ loaded' = loaded
    BY <1>8 DEF GivesUp
  <2> QED BY <1>1, <2>1, <2>2 DEF LInv, OkMeansLoadedUnlessPinged, OkMeansLoaded
<1>9. CASE RecvEchoReply
  <2>1. PICK ip : Echo(ip) \in sent
    BY <1>9, Zenon DEF RecvEchoReply
  <2>2. Pinged
    BY <2>1, Ops, Zenon DEF Pinged
  <2>3. net_try_count' = net_try_count
    BY <1>9, Zenon DEF RecvEchoReply
  <2> QED BY <1>1, <2>2, <2>3, Zenon DEF LInv, OkMeansLoadedUnlessPinged
<1>10. CASE Finishes
  <2>1. /\ net_state' = "SUCCESS" => loaded' = TRUE
        /\ phase' # "idle" /\ net_try_count' = net_try_count
    BY <1>10 DEF Finishes
  <2> QED BY <1>1, <2>1, Zenon DEF LInv, OkMeansLoadedUnlessPinged, OkMeansLoaded
<1>11. CASE NetLoopReturn
  <2>1. /\ net_state # "CONTINUE"
        /\ ret' = IF net_state = "SUCCESS" THEN IF loaded THEN 1 ELSE 0
                  ELSE IF net_try_count >= RetryCnt THEN ETIMEDOUT ELSE 0
        /\ UNCHANGED <<net_state, net_try_count, loaded>>
    BY <1>11, Zenon DEF NetLoopReturn
  <2>2. CASE net_state = "SUCCESS"
    BY <1>1, <2>1, <2>2, Zenon DEF LInv, OkMeansLoadedUnlessPinged, OkMeansLoaded
  <2>3. CASE net_state # "SUCCESS"
    <3>1. net_try_count >= RetryCnt
      BY <1>1 DEF LInv
    <3>2. ret' = -1
      BY <2>1, <2>3, <3>1, Zenon DEF ETIMEDOUT
    <3> QED BY <1>1, <2>1, <3>2 DEF LInv, OkMeansLoadedUnlessPinged, OkMeansLoaded
  <2> QED BY <2>2, <2>3
<1>12. CASE CtrlC
  <2>1. ret' = -2 /\ UNCHANGED <<net_state, net_try_count, loaded>>
    BY <1>12, Zenon DEF CtrlC, EINTR
  <2> QED BY <1>1, <2>1 DEF LInv, OkMeansLoadedUnlessPinged, OkMeansLoaded
<1>13. CASE RecvArpReply \/ Selects \/ Binds \/ Tick \/ Idle \/ UNCHANGED vars
  <2>1. UNCHANGED <<phase, protocol, net_state, net_try_count, ret, loaded>>
    BY <1>13 DEF RecvArpReply, Selects, Binds, Tick, Idle, vars, loopVars
  <2> QED BY <1>2, <2>1, SMTT(40)
<1> QED BY <1>4, <1>5, <1>6, <1>7, <1>8, <1>9, <1>10, <1>11, <1>12, <1>13, ZenonT(40) DEF Steps

\* If `netretry' leaves no second try and no ping was sent, then over any
\* number of commands net_loop says "ok" only when the file is loaded.
THEOREM OkIsLoaded == ASSUME RetryCnt <= 1 PROVE Spec => []OkMeansLoadedUnlessPinged
<1>1. Init => LInv
  BY DEF Init, LInv, OkMeansLoadedUnlessPinged, OkMeansLoaded
<1>2. ASSUME AInv, LInv, [Next]_vars PROVE LInv'
  BY <1>2, NextSteps, StepL, Zenon
<1>3. LInv => OkMeansLoadedUnlessPinged
  BY DEF LInv
<1> QED BY <1>1, <1>2, <1>3, InvariantA, PTL DEF Spec

-----------------------------------------------------------------------------
(* The times of DHCP.                                                      *)

\* Which handlers go together.
Handlers ==
    /\ time_handler = "bootp" => udp_handler = "dhcp" /\ dhcp_state \in {"SELECTING", "REQUESTING"}
    /\ time_handler = "tftp" => udp_handler = "tftp"
    /\ time_handler = "start_again" \/ phase = "idle" => udp_handler = "dummy"
    /\ phase = "rx" /\ udp_handler = "dhcp" => time_handler = "bootp"
    /\ bootp_timeout <= BOOTP_TIMEOUT_MAX

\* No ARP wait has been left behind, or could be.
Undisturbed == ~arpFailed /\ ~Pinged

\* Then no ARP wait is pending at the prompt, while DHCP runs, between two
\* tries, or when a command ends; and a pending one holds the timer at 0.
NoneLeft ==
    Undisturbed =>
        /\ udp_handler = "dhcp" \/ time_handler = "start_again" \/ phase = "idle"
              \/ net_state # "CONTINUE" => ~Waiting
        /\ phase = "rx" /\ net_state # "CONTINUE" => udp_handler # "dhcp"
        /\ Waiting => time_age = 0

WInv == Handlers /\ NoneLeft

\* Steps keep the first part.
LEMMA StepHandlers == ASSUME AInv, Handlers, Steps PROVE Handlers'
<1>1. BOOTP_TIMEOUT_MIN \in Nat /\ BOOTP_TIMEOUT_MIN <= BOOTP_TIMEOUT_MAX /\ bootp_timeout \in Nat
      /\ bootp_timeout <= BOOTP_TIMEOUT_MAX
  BY NetLoopAssumption DEF AInv, TypeOK, Handlers
<1>2. ASSUME UNCHANGED <<time_handler, udp_handler, dhcp_state, bootp_timeout, phase>>
      PROVE  Handlers'
  BY <1>2, Zenon DEF Handlers
<1>3. ASSUME time_handler' \in {"none", "start_again"}, udp_handler' = "dummy", bootp_timeout' = bootp_timeout
      PROVE  Handlers'
  BY <1>1, <1>3 DEF Handlers
<1>4. CASE \E p \in Commands : Starts(p)
  <2>1. PICK p \in Commands : Starts(p)
    BY <1>4
  <2>2. phase' = "rx" /\ udp_handler = "dummy"
    BY <2>1, Zenon DEF Starts, Handlers
  <2>3. CASE /\ time_handler' = "bootp" /\ udp_handler' = "dhcp" /\ dhcp_state' = "SELECTING"
             /\ bootp_timeout' = BOOTP_TIMEOUT_MIN
    BY <1>1, <2>2, <2>3 DEF Handlers
  <2>4. CASE /\ time_handler' \in {"tftp", "ping"} /\ (time_handler' = "tftp" => udp_handler' = "tftp")
             /\ udp_handler' \in {udp_handler, "tftp"} /\ UNCHANGED <<addressVars, bootpVars>>
    BY <1>1, <2>2, <2>4 DEF Handlers, bootpVars
  <2> QED BY <2>1, <2>3, <2>4, StartsEffects, Zenon
<1>5. CASE Refuses \/ ArpTimeout \/ RecvArpReply \/ RecvEchoReply \/ Finishes \/ Tick \/ Idle
           \/ UNCHANGED vars
  <2>1. UNCHANGED <<time_handler, udp_handler, dhcp_state, bootp_timeout, phase>>
    BY <1>5, Zenon DEF Refuses, ArpTimeout, RecvArpReply, RecvEchoReply, Finishes, Tick, Idle, vars,
                loopVars, timerVars, bootpVars
  <2> QED BY <1>2, <2>1
<1>6. CASE Retries
  <2>1. /\ bootp_timeout' <= BOOTP_TIMEOUT_MAX /\ dhcp_state' = "SELECTING"
        /\ time_handler' = "bootp" /\ udp_handler' = "dhcp"
    BY <1>6, RetriesEffects, Zenon
  <2>2. phase' # "idle"
    BY <1>6 DEF Retries
  <2> QED BY <2>1, <2>2 DEF Handlers
<1>7. CASE GivesUp
  <2>1. phase' # "idle" /\ bootp_timeout' = bootp_timeout /\ time_handler \in {"bootp", "tftp"}
        /\ (time_handler = "bootp" /\ net_state' = "FAIL" => phase' = "switch")
    BY <1>7 DEF GivesUp, bootpVars
  <2>2. \/ time_handler' = "none" /\ udp_handler' = udp_handler /\ net_state' = "FAIL"
        \/ time_handler' = "start_again" /\ udp_handler' = "dummy"
    BY <1>7, StartAgainTypes, Zenon DEF GivesUp, AInv
  <2> QED BY <1>1, <2>1, <2>2 DEF Handlers
<1>8. CASE PingTimeout
  <2>1. phase' = "switch" /\ time_handler' = "none" /\ bootp_timeout' = bootp_timeout
    BY <1>8 DEF PingTimeout, bootpVars
  <2> QED BY <1>1, <2>1 DEF Handlers
<1>9. CASE Selects
  <2>1. /\ udp_handler = "dhcp" /\ dhcp_state' = "REQUESTING" /\ time_handler' = "bootp"
        /\ UNCHANGED <<udp_handler, bootp_timeout>>
    BY <1>9, SelectingTypes, Zenon DEF Selects, AInv
  <2>2. phase' # "idle"
    BY <1>9 DEF Selects, loopVars
  <2> QED BY <1>1, <2>1, <2>2 DEF Handlers
<1>10. CASE Binds
  <2>1. time_handler' = "tftp" /\ udp_handler' = "tftp" /\ UNCHANGED bootp_timeout
    BY <1>10, RequestingTypes, Zenon DEF Binds, AInv
  <2>2. phase' # "idle"
    BY <1>10 DEF Binds, loopVars
  <2> QED BY <1>1, <2>1, <2>2 DEF Handlers
<1>11. CASE NetLoopReturn \/ CtrlC
  <2>1. time_handler' = "none" /\ udp_handler' = "dummy" /\ bootp_timeout' = bootp_timeout
    BY <1>11 DEF NetLoopReturn, CtrlC, net_cleanup_loop, bootpVars
  <2> QED BY <1>3, <2>1, SMTT(40)
<1> QED BY <1>4, <1>5, <1>6, <1>7, <1>8, <1>9, <1>10, <1>11, ZenonT(40) DEF Steps

\* And the second.
LEMMA StepNoneLeft == ASSUME AInv, WInv, Steps PROVE NoneLeft'
<1> SUFFICES ASSUME Undisturbed'
             PROVE  /\ udp_handler' = "dhcp" \/ time_handler' = "start_again" \/ phase' = "idle"
                          \/ net_state' # "CONTINUE" => ~Waiting'
                    /\ phase' = "rx" /\ net_state' # "CONTINUE" => udp_handler' # "dhcp"
                    /\ Waiting' => time_age' = 0
  BY Zenon DEF NoneLeft
<1>1. Undisturbed /\ ~arpFailed' /\ ~Pinged
  BY HistoryStays, Zenon DEF Undisturbed
<1>2. /\ udp_handler = "dhcp" \/ time_handler = "start_again" \/ phase = "idle"
            \/ net_state # "CONTINUE" => ~Waiting
      /\ phase = "rx" /\ net_state # "CONTINUE" => udp_handler # "dhcp"
      /\ Waiting => time_age = 0
  BY <1>1, Zenon DEF WInv, NoneLeft
<1>3. /\ time_handler = "bootp" => udp_handler = "dhcp"
      /\ time_handler = "tftp" => udp_handler = "tftp"
      /\ time_handler = "start_again" \/ phase = "idle" => udp_handler = "dummy"
  BY Zenon DEF WInv, Handlers
<1>4. time_age \in Nat /\ time_delta \in Nat
  BY DEF AInv, TypeOK
<1>5. ASSUME net_arp_wait_packet_ip' = net_arp_wait_packet_ip PROVE Waiting' <=> Waiting
  BY <1>5, Zenon DEF Waiting
<1>6. CASE \E p \in Commands : Starts(p)
  <2>1. PICK p \in Commands : Starts(p)
    BY <1>6
  <2>2. net_state' = "CONTINUE" /\ time_age' = 0 /\ phase' = "rx"
    BY <2>1, StartsEffects, Zenon
  <2>3. ~Waiting /\ udp_handler # "dhcp"
    BY <1>2, <1>3, <2>1 DEF Starts
  <2>4. \/ time_handler' = "bootp" /\ UNCHANGED net_arp_wait_packet_ip
        \/ time_handler' \in {"tftp", "ping"} /\ udp_handler' \in {udp_handler, "tftp"}
    BY <2>1, StartsEffects, Zenon
  <2> QED BY <1>5, <2>2, <2>3, <2>4
<1>7. CASE Refuses \/ RecvArpReply \/ UNCHANGED vars
  <2>1. /\ UNCHANGED <<udp_handler, time_handler, phase, time_age>>
        /\ Waiting' => Waiting
        /\ net_state' = net_state \/ phase = "idle"
    BY <1>7 DEF Refuses, RecvArpReply, vars, loopVars, timerVars, arpVars, Waiting
  <2> QED BY <1>2, <2>1
<1>8. CASE ArpTimeout
  <2>1. /\ UNCHANGED <<udp_handler, time_handler, phase, time_age, net_arp_wait_packet_ip>>
        /\ net_state' = net_state
    BY <1>1, <1>8 DEF ArpTimeout, timerVars
  <2> QED BY <1>2, <1>5, <2>1, Zenon
<1>9. CASE Retries
  <2>1. phase = "rx" /\ time_handler = "bootp" /\ UNCHANGED <<net_state, net_arp_wait_packet_ip>>
    BY <1>9 DEF Retries, arpVars
  <2>2. ~Waiting /\ net_state' = "CONTINUE"
    BY <1>2, <1>3, <2>1, Zenon
  <2> QED BY <1>5, <2>1, <2>2
<1>10. CASE GivesUp
  <2>1. ~Waiting /\ ~Waiting'
    BY <1>2, <1>3, <1>10 DEF GivesUp, Waiting, arpVars
  <2>2. phase' = "rx" /\ net_state' # "CONTINUE" => time_handler = "tftp"
    BY <1>10 DEF GivesUp
  <2>3. udp_handler' \in {udp_handler, "dummy"}
    BY <1>10, StartAgainTypes, Zenon DEF GivesUp, AInv
  <2> QED BY <1>3, <2>1, <2>2, <2>3
<1>11. CASE PingTimeout
  <2>1. /\ time_age > time_delta /\ phase' = "switch"
        /\ net_arp_wait_packet_ip' = net_arp_wait_packet_ip
    BY <1>11 DEF PingTimeout, arpVars
  <2>2. ~Waiting
    BY <1>2, <1>4, <2>1
  <2> QED BY <1>5, <2>1, <2>2
<1>12. CASE RecvEchoReply
  <2>1. PICK ip : Echo(ip) \in sent
    BY <1>12, Zenon DEF RecvEchoReply
  <2>2. Pinged
    BY <2>1, Ops, Zenon DEF Pinged
  <2> QED BY <1>1, <2>2
<1>13. CASE Selects
  <2>1. /\ udp_handler = "dhcp" /\ UNCHANGED <<net_ip, udp_handler, bootp_ids, bootp_age, bootp_timeout,
                                                lastId, firstId, arpVars>>
    BY <1>13, SelectingTypes, Zenon DEF Selects, AInv
  <2>2. phase = "rx" /\ UNCHANGED <<phase, net_state>>
    BY <1>13 DEF Selects, loopVars
  <2>3. net_arp_wait_packet_ip' = net_arp_wait_packet_ip
    BY <2>1 DEF arpVars
  <2> QED BY <1>2, <1>5, <2>1, <2>2, <2>3
<1>14. CASE Binds
  <2>1. udp_handler = "dhcp" /\ time_handler' = "tftp" /\ time_age' = 0 /\ udp_handler' = "tftp"
    BY <1>14, RequestingTypes, Zenon DEF Binds, AInv
  <2>2. phase = "rx" /\ UNCHANGED <<phase, net_state>>
    BY <1>14 DEF Binds, loopVars
  <2> QED BY <1>2, <2>1, <2>2
<1>15. CASE Finishes
  <2>1. ~Waiting /\ time_handler = "tftp" /\ UNCHANGED <<udp_handler, net_arp_wait_packet_ip>>
    BY <1>15 DEF Finishes, arpVars
  <2> QED BY <1>3, <1>5, <2>1
<1>16. CASE NetLoopReturn
  <2>1. net_state # "CONTINUE" /\ phase' = "idle" /\ net_arp_wait_packet_ip' = net_arp_wait_packet_ip
    BY <1>16 DEF NetLoopReturn, arpVars
  <2> QED BY <1>2, <1>5, <2>1
<1>17. CASE CtrlC
  <2>1. ~Waiting' /\ phase' = "idle"
    BY <1>17 DEF CtrlC, Waiting
  <2> QED BY <2>1
<1>18. CASE Tick
  <2>1. /\ UNCHANGED <<udp_handler, time_handler, phase, net_state, net_arp_wait_packet_ip>>
        /\ Waiting => time_age' = 0
    BY <1>18 DEF Tick, loopVars
  <2> QED BY <1>2, <1>5, <2>1, Zenon
<1>19. CASE Idle
  BY <1>2, <1>19, ZenonT(40) DEF Idle
<1> QED
  BY <1>6, <1>7, <1>8, <1>9, <1>10, <1>11, <1>12, <1>13, <1>14, <1>15, <1>16, <1>17, <1>18, <1>19, Zenon
  DEF Steps

\* The waits on every behaviour.
LEMMA InvariantW == Spec => []WInv
<1>1. Init => WInv
  BY NetLoopAssumption DEF Init, WInv, Handlers, NoneLeft, Waiting
<1>2. ASSUME AInv, WInv, [Next]_vars PROVE WInv'
  <2>1. Steps
    BY <1>2, NextSteps, Zenon
  <2> QED BY <1>2, <2>1, StepHandlers, StepNoneLeft, Zenon DEF WInv
<1> QED BY <1>1, <1>2, InvariantA, PTL DEF Spec

\* In every state of every behaviour in which the command goes on, the timeout
\* handler of the protocol that listens is set.
THEOREM AlwaysTimed == Spec => []TimedByListener
<1>1. Init => TimedByListener
  BY DEF Init, TimedByListener
<1>2. ASSUME AInv, WInv, TimedByListener, [Next]_vars PROVE TimedByListener'
  <2> DEFINE Pairs == {<<"bootp", "dhcp">>, <<"tftp", "tftp">>, <<"ping", "dummy">>,
                       <<"start_again", "dummy">>}
  <2>1. Steps /\ TypeOK
    BY <1>2, NextSteps DEF AInv
  <2>2. ASSUME UNCHANGED <<phase, time_handler, udp_handler>>, net_state' \in {net_state, "FAIL", "SUCCESS"}
        PROVE  TimedByListener'
    BY <1>2, <2>2 DEF TimedByListener
  <2>3. ASSUME <<time_handler', udp_handler'>> \in Pairs PROVE TimedByListener'
    BY <2>3, Zenon DEF TimedByListener
  <2>4. ASSUME phase' # "rx" \/ net_state' # "CONTINUE" PROVE TimedByListener'
    BY <2>4, Zenon DEF TimedByListener
  <2>5. CASE \E p \in Commands : Starts(p)
    <3>1. PICK p \in Commands : Starts(p)
      BY <2>5
    <3>2. udp_handler = "dummy" /\ restart(p)
      BY <1>2, <3>1, Zenon DEF Starts, WInv, Handlers
    <3>3. CASE p = "DHCP" /\ dhcp_start
      BY <2>3, <3>3 DEF dhcp_start, bootp_request, net_set_timeout_handler
    <3>4. CASE p = "TFTPGET" /\ tftp_start(net_ip, net_gateway)
      BY <2>3, <3>4 DEF tftp_start, net_set_timeout_handler
    <3>5. CASE p = "PING" /\ ping_start /\ UNCHANGED udp_handler
      BY <2>3, <3>2, <3>5 DEF ping_start, net_set_timeout_handler
    <3> QED BY <3>2, <3>3, <3>4, <3>5, Zenon DEF restart
  <2>6. CASE Retries
    BY <2>3, <2>6 DEF Retries, bootp_request, net_set_timeout_handler
  <2>7. CASE GivesUp
    <3>1. \/ net_state' = "FAIL"
          \/ time_handler' = "start_again" /\ udp_handler' = "dummy"
      BY <2>1, <2>7, StartAgainTypes, Zenon DEF GivesUp
    <3> QED BY <2>3, <2>4, <3>1
  <2>8. CASE Selects
    <3>1. time_handler' = "bootp" /\ udp_handler' = "dhcp"
      BY <2>1, <2>8, SelectingTypes, Zenon DEF Selects
    <3> QED BY <2>3, <3>1
  <2>9. CASE Binds
    <3>1. time_handler' = "tftp" /\ udp_handler' = "tftp"
      BY <2>1, <2>9, RequestingTypes, Zenon DEF Binds
    <3> QED BY <2>3, <3>1
  <2>10. CASE Refuses \/ PingTimeout \/ NetLoopReturn \/ CtrlC
    BY <2>4, <2>10 DEF Refuses, PingTimeout, NetLoopReturn, CtrlC
  <2>11. CASE ArpTimeout \/ RecvArpReply \/ RecvEchoReply \/ Finishes \/ Tick \/ Idle
              \/ UNCHANGED vars
    <3>1. UNCHANGED <<phase, time_handler, udp_handler>> /\ net_state' \in {net_state, "FAIL", "SUCCESS"}
      BY <2>11, ZenonT(40) DEF ArpTimeout, RecvArpReply, RecvEchoReply, Finishes, Tick, Idle, vars, loopVars, timerVars
    <3> QED BY <2>2, <3>1, ZenonT(40)
  <2> QED BY <2>1, <2>5, <2>6, <2>7, <2>8, <2>9, <2>10, <2>11, Zenon DEF Steps
<1> QED BY <1>1, <1>2, InvariantA, InvariantW, PTL DEF Spec

\* How long the wait for an OFFER or an ACK has lasted, and DHCP as a whole.
Times ==
    Undisturbed /\ time_handler = "bootp" =>
        /\ time_age <= time_delta + 1 /\ silence <= time_age
        /\ dhcp_state = "SELECTING" =>
               time_delta <= BOOTP_TIMEOUT_MAX /\ bootp_age < TIMEOUT_MS + time_age
        /\ dhcp_state = "REQUESTING" =>
               time_delta = REQUEST_TIMEOUT /\ bootp_age <= TIMEOUT_MS + BOOTP_TIMEOUT_MAX + time_age

\* Steps keep the times.
LEMMA StepTimes == ASSUME AInv, AInv', WInv, Times, Steps PROVE Times'
<1> SUFFICES ASSUME Undisturbed', time_handler' = "bootp"
             PROVE  /\ time_age' <= time_delta' + 1 /\ silence' <= time_age'
                    /\ dhcp_state' = "SELECTING" =>
                           time_delta' <= BOOTP_TIMEOUT_MAX /\ bootp_age' < TIMEOUT_MS + time_age'
                    /\ dhcp_state' = "REQUESTING" =>
                           /\ time_delta' = REQUEST_TIMEOUT
                           /\ bootp_age' <= TIMEOUT_MS + BOOTP_TIMEOUT_MAX + time_age'
  BY Zenon DEF Times
<1>1. Undisturbed
  BY HistoryStays, ZenonT(40) DEF Undisturbed
<1>2. /\ time_age \in Nat /\ time_delta \in Nat /\ silence \in Nat /\ bootp_age \in Nat
      /\ bootp_timeout \in Nat /\ TIMEOUT_MS \in Nat \ {0} /\ BOOTP_TIMEOUT_MIN \in Nat \ {0}
      /\ BOOTP_TIMEOUT_MAX \in Nat \ {0} /\ REQUEST_TIMEOUT \in Nat \ {0}
      /\ BOOTP_TIMEOUT_MIN <= BOOTP_TIMEOUT_MAX
  <2>1. TIMEOUT_MS \in Nat \ {0} /\ BOOTP_TIMEOUT_MIN \in Nat \ {0} /\ BOOTP_TIMEOUT_MAX \in Nat \ {0}
        /\ REQUEST_TIMEOUT \in Nat \ {0} /\ BOOTP_TIMEOUT_MIN <= BOOTP_TIMEOUT_MAX
    BY NetLoopAssumption, Zenon
  <2>2. /\ time_age \in Nat /\ time_delta \in Nat /\ silence \in Nat
        /\ bootp_age \in Nat /\ bootp_timeout \in Nat
    BY ZenonT(40) DEF AInv, TypeOK
  <2> QED BY <2>1, <2>2, Zenon
<1>3. silence' \in Nat /\ time_age' \in Nat
  BY ZenonT(40) DEF AInv, TypeOK
<1>4. time_handler = "bootp" =>
        /\ time_age <= time_delta + 1 /\ silence <= time_age /\ udp_handler = "dhcp"
        /\ dhcp_state = "SELECTING" =>
               time_delta <= BOOTP_TIMEOUT_MAX /\ bootp_age < TIMEOUT_MS + time_age
        /\ dhcp_state = "REQUESTING" =>
               time_delta = REQUEST_TIMEOUT /\ bootp_age <= TIMEOUT_MS + BOOTP_TIMEOUT_MAX + time_age
  BY <1>1, Zenon DEF Times, WInv, Handlers
<1>5. udp_handler = "dhcp" => ~Waiting
  BY <1>1, Zenon DEF WInv, NoneLeft
<1>6. CASE \E p \in Commands : Starts(p)
  <2>1. /\ dhcp_state' = "SELECTING" /\ time_delta' = BOOTP_TIMEOUT_MIN /\ bootp_age' = 0
        /\ silence' = 0 /\ time_age' = 0
    BY <1>6, StartsEffects, Zenon
  <2> QED BY <1>2, <2>1
<1>7. CASE Retries
  <2>1. /\ dhcp_state' = "SELECTING" /\ time_delta' = bootp_timeout' /\ bootp_timeout' \in Nat
        /\ bootp_timeout' <= BOOTP_TIMEOUT_MAX /\ silence' = 0 /\ time_age' = 0
    BY <1>7, RetriesEffects, Zenon
  <2>2. bootp_age < TIMEOUT_MS /\ bootp_age' = bootp_age
    BY <1>7 DEF Retries
  <2>3. /\ time_delta' \in Nat /\ time_delta' <= BOOTP_TIMEOUT_MAX /\ silence' = 0 /\ time_age' = 0
        /\ dhcp_state' = "SELECTING"
    BY <2>1, Zenon
  <2>4. bootp_age' < TIMEOUT_MS + time_age'
    BY <1>2, <2>2, <2>3
  <2>5. time_age' <= time_delta' + 1 /\ silence' <= time_age'
    <3>1. \A d \in Nat : 0 <= d + 1 /\ 0 <= 0
      OBVIOUS
    <3> QED BY <2>3, <3>1, Zenon
  <2>6. dhcp_state' # "REQUESTING"
    BY <2>3
  <2> QED BY <2>3, <2>4, <2>5, <2>6, Zenon
<1>8. CASE Selects
  <2>1. /\ udp_handler = "dhcp" /\ dhcp_state = "SELECTING" /\ dhcp_state' = "REQUESTING"
        /\ time_delta' = REQUEST_TIMEOUT /\ silence' = 0 /\ time_age' = 0 /\ bootp_age' = bootp_age
    BY <1>8, SelectingTypes, Zenon DEF Selects, AInv
  <2>2. time_handler = "bootp"
    BY <1>8, <2>1, Zenon DEF Selects, WInv, Handlers
  <2>3. bootp_age <= TIMEOUT_MS + BOOTP_TIMEOUT_MAX
    BY <1>2, <1>4, <2>1, <2>2
  <2> QED BY <1>2, <2>1, <2>3
<1>9. CASE Binds
  <2>1. time_handler' = "tftp"
    BY <1>9, RequestingTypes, Zenon DEF Binds, AInv
  <2> QED BY <2>1
<1>10. CASE Tick
  <2>1. time_handler = "bootp" /\ UNCHANGED <<time_delta, dhcp_state>> /\ ~TimerDue
        /\ time_age' = (IF Waiting THEN 0 ELSE Older(time_age, time_delta))
        /\ bootp_age' = (IF protocol = "DHCP" THEN Older(bootp_age, Overtime) ELSE bootp_age)
        /\ silence' = Older(silence, Patience + 1)
    BY <1>10 DEF Tick
  <2>2. ~Waiting /\ ~(time_age > time_delta)
    BY <1>4, <1>5, <2>1 DEF TimerDue
  <2>3. time_age' = time_age + 1 /\ bootp_age' \in {bootp_age, bootp_age + 1}
        /\ silence' \in {silence, silence + 1}
    BY <2>1, <2>2, SMTT(40) DEF Older
  <2> QED BY <1>2, <1>4, <2>1, <2>2, <2>3, SMTT(40)
<1>11. CASE Still
  <2>1. /\ time_handler = "bootp" /\ UNCHANGED <<time_age, time_delta, bootp_age, dhcp_state>>
        /\ silence' <= silence
    BY <1>11 DEF Still, Quiet
  <2> QED BY <1>2, <1>3, <1>4, <2>1
<1> QED BY <1>6, <1>7, <1>8, <1>9, <1>10, <1>11, StillSteps, Zenon DEF Steps

\* The times of DHCP, on every behaviour.
LEMMA InvariantTimes == Spec => [](AInv /\ WInv /\ Times)
<1>1. Init => Times
  BY DEF Init, Times
<1>2. ASSUME AInv, AInv', WInv, Times, [Next]_vars PROVE Times'
  BY <1>2, NextSteps, StepTimes, Zenon
<1> QED BY <1>1, <1>2, InvariantA, InvariantW, PTL DEF Spec

\* For all timeouts and any number of tries and commands DHCP is never silent
\* for longer than its longest timeout, as long as no ARP wait has given up and
\* no ping was sent.
THEOREM KeepsOnSending == Spec => []KeepsSendingUnlessWaitLeft
<1>1. AInv /\ WInv /\ Times => KeepsSendingUnlessWaitLeft
  <2> SUFFICES ASSUME AInv, WInv, Times, Undisturbed, time_handler = "bootp"
               PROVE  silence <= Patience + 1
    BY Zenon DEF KeepsSendingUnlessWaitLeft, KeepsSending, Undisturbed
  <2>1. /\ dhcp_state \in {"SELECTING", "REQUESTING"}
        /\ time_age <= time_delta + 1 /\ silence <= time_age
        /\ dhcp_state = "SELECTING" => time_delta <= BOOTP_TIMEOUT_MAX
        /\ dhcp_state = "REQUESTING" => time_delta = REQUEST_TIMEOUT
    BY Zenon DEF WInv, Handlers, Times
  <2>2. time_age \in Nat /\ time_delta \in Nat /\ silence \in Nat
    BY DEF AInv, TypeOK
  <2>3. Patience \in Nat /\ BOOTP_TIMEOUT_MAX <= Patience /\ REQUEST_TIMEOUT <= Patience
        /\ BOOTP_TIMEOUT_MAX \in Nat /\ REQUEST_TIMEOUT \in Nat
    BY NetLoopAssumption DEF Patience
  <2> QED BY <2>1, <2>2, <2>3
<1> QED BY <1>1, InvariantTimes, PTL

\* And under the same conditions it gives up in time.
THEOREM GivenUpInTime == Spec => [](~arpFailed /\ ~Pinged => GivesUpInTime)
<1>1. AInv /\ WInv /\ Times => (~arpFailed /\ ~Pinged => GivesUpInTime)
  <2> SUFFICES ASSUME AInv, WInv, Times, Undisturbed, time_handler = "bootp"
               PROVE  bootp_age <= Overtime
    BY Zenon DEF GivesUpInTime, Undisturbed
  <2>1. /\ dhcp_state \in {"SELECTING", "REQUESTING"} /\ time_age <= time_delta + 1
        /\ dhcp_state = "SELECTING" =>
               time_delta <= BOOTP_TIMEOUT_MAX /\ bootp_age < TIMEOUT_MS + time_age
        /\ dhcp_state = "REQUESTING" =>
               time_delta = REQUEST_TIMEOUT /\ bootp_age <= TIMEOUT_MS + BOOTP_TIMEOUT_MAX + time_age
    BY Zenon DEF WInv, Handlers, Times
  <2>2. time_age \in Nat /\ time_delta \in Nat /\ bootp_age \in Nat
    BY DEF AInv, TypeOK
  <2>3. BOOTP_TIMEOUT_MAX \in Nat /\ REQUEST_TIMEOUT \in Nat /\ TIMEOUT_MS \in Nat
    BY NetLoopAssumption
  <2> QED BY <2>1, <2>2, <2>3 DEF Overtime
<1> QED BY <1>1, InvariantTimes, PTL

-----------------------------------------------------------------------------
(* The first command.                                                      *)

\* Only the DHCP command runs DHCP's handlers.
OnlyDhcp == protocol # "DHCP" => time_handler # "bootp" /\ udp_handler # "dhcp"

\* Nothing is pending before the first command.
Fresh == commands = 0 => phase = "idle" /\ Undisturbed /\ ~Waiting

\* DHCP is over and will not be started again.
DhcpIsOver ==
    /\ time_handler # "bootp" /\ udp_handler # "dhcp"
    /\ phase # "idle" => net_state # "CONTINUE"
    /\ time_handler = "start_again" => time_age <= time_delta

\* When the first command is DHCP no echo request is sent or waits, and an ARP
\* wait that gives up is the command's end.
FirstDhcp ==
    commands = 1 /\ protocol = "DHCP" =>
        /\ ~Pinged /\ net_arp_wait_packet_ip # "pinghost"
        /\ arpFailed => DhcpIsOver

FInv == OnlyDhcp /\ Fresh /\ FirstDhcp

\* The command and its number change at the prompt only.
LEMMA OneCommand ==
    ASSUME [Next]_vars
    PROVE  \/ Command
           \/ ~Command /\ UNCHANGED <<commands, protocol>>
<1>1. CASE Command
  BY <1>1
<1>2. CASE ~Command
  <2>1. CASE Timers
    BY <2>1, <1>2 DEF Timers, ArpTimeout, BootpTimeout, PingTimeout, StartAgainTimeout
  <2>2. CASE Receive
    BY <2>2, <1>2, SMTT(40) DEF Receive, RecvArpReply, RecvEchoReply, RecvDhcp, loopVars
  <2>3. CASE TftpEnds \/ NetLoopReturn \/ CtrlC \/ Tick \/ Idle \/ UNCHANGED vars
    BY <2>3, <1>2 DEF TftpEnds, NetLoopReturn, CtrlC, Tick, Idle, vars, loopVars
  <2> QED BY <1>2, <2>1, <2>2, <2>3, Zenon DEF Next
<1> QED BY <1>1, <1>2

\* An echo request is sent only when it waited for an ARP reply.
LEMMA PingsWaited ==
    ASSUME AInv, Steps, ~Pinged, net_arp_wait_packet_ip # "pinghost"
    PROVE  ~Pinged'
<1>1. TypeOK /\ net_ip \in Addresses /\ net_gateway \in Servers \cup {None}
  BY DEF AInv, TypeOK, Addresses
<1>2. ASSUME UNCHANGED sent PROVE ~Pinged'
  BY <1>2, Zenon DEF Pinged
<1>3. CASE \E p \in Commands : Starts(p)
  BY <1>3, StartsEffects, Zenon
<1>4. CASE ArpTimeout
  <2>1. net_arp_wait_packet_ip \in Hosts
    BY <1>1, <1>4, Names DEF ArpTimeout, Waiting, TypeOK
  <2>2. CASE arp_request(net_arp_wait_packet_ip, net_ip, net_gateway) /\ UNCHANGED <<net_state, arpFailed>>
    BY <1>1, <2>1, <2>2, ArpRequestTypes, Zenon
  <2>3. CASE arpFailed' = TRUE /\ UNCHANGED <<net_arp_wait_reply_ip, arp_age, sent, silence>>
    BY <1>2, <2>3, Zenon
  <2> QED BY <1>4, <2>2, <2>3, ZenonT(40) DEF ArpTimeout
<1>5. CASE Retries
  BY <1>5, RetriesEffects, Zenon
<1>6. CASE Selects
  BY <1>1, <1>6, SelectingTypes, Zenon DEF Selects
<1>7. CASE Binds
  BY <1>1, <1>7, RequestingTypes, Zenon DEF Binds
<1>8. CASE RecvArpReply
  <2>1. sent' = sent \cup {net_tx_packet} /\ Waiting /\ net_ip # None
    BY <1>8, Zenon DEF RecvArpReply, Transmit
  <2>2. net_tx_packet \in {Rrq, Echo(net_ip)} /\ net_tx_packet.dst = net_arp_wait_packet_ip
    BY <2>1, Zenon DEF AInv, Held
  <2>3. net_tx_packet = Rrq
    <3>1. Echo(net_ip).dst = "pinghost"
      BY DEF Echo
    <3> QED BY <2>2, <3>1, Zenon
  <2>4. net_tx_packet.op # "ECHO"
    BY <2>3 DEF Rrq
  <2> QED BY <2>1, <2>4, Zenon DEF Pinged
<1>9. CASE Refuses \/ GivesUp \/ PingTimeout \/ RecvEchoReply \/ Finishes \/ NetLoopReturn \/ CtrlC
           \/ Tick \/ Idle \/ UNCHANGED vars
  BY <1>2, <1>9, Zenon
     DEF Refuses, GivesUp, PingTimeout, RecvEchoReply, Finishes, NetLoopReturn, CtrlC, Tick, Idle, vars,
         wireVars
<1> QED BY <1>3, <1>4, <1>5, <1>6, <1>7, <1>8, <1>9, ZenonT(40) DEF Steps

\* Only DHCP runs DHCP's handlers, after every step.
LEMMA StepOnlyDhcp == ASSUME AInv, WInv, OnlyDhcp, [Next]_vars PROVE OnlyDhcp'
<1>1. Steps
  BY NextSteps
<1>2. /\ time_handler = "bootp" => udp_handler = "dhcp"
      /\ time_handler = "start_again" \/ phase = "idle" => udp_handler = "dummy"
  BY Zenon DEF WInv, Handlers
<1>3. CASE Command
  <2>1. PICK p \in Commands : protocol' = p /\ (p = "DHCP" \/ Starts(p) \/ Refuses)
    <3>1. phase = "idle" /\ net_try_count' = 1
      BY <1>3, Zenon DEF Command
    <3>2. PICK p \in Commands :
             /\ protocol' = p
             /\ \/ Refuse(p)
                \/ (p = "DHCP" \/ net_ip # None) /\ restart(p) /\ phase' = "rx" /\ UNCHANGED ret
      BY <1>3, Zenon DEF Command
    <3>3. CASE Refuse(p)
      BY <3>1, <3>2, <3>3, RefuseRefuses, Zenon
    <3>4. CASE p # "DHCP" /\ net_ip # None /\ restart(p) /\ phase' = "rx"
      BY <3>1, <3>2, <3>4, Zenon DEF Starts
    <3> QED BY <3>2, <3>3, <3>4, Zenon
  <2>2. udp_handler = "dummy" /\ time_handler # "bootp"
    BY <1>2, <1>3 DEF Command
  <2>3. CASE p = "DHCP"
    BY <2>1, <2>3 DEF OnlyDhcp
  <2>4. CASE p # "DHCP" /\ Starts(p)
    <3>1. time_handler' \in {"tftp", "ping"} /\ udp_handler' \in {udp_handler, "tftp"}
      BY <2>4, StartsEffects, Zenon
    <3> QED BY <2>2, <3>1 DEF OnlyDhcp
  <2>5. CASE Refuses
    BY <2>2, <2>5 DEF OnlyDhcp, Refuses, timerVars
  <2> QED BY <2>1, <2>3, <2>4, <2>5, Zenon
<1>4. CASE ~Command
  <2>1. protocol' = protocol
    BY <1>4, OneCommand
  <2> SUFFICES ASSUME protocol # "DHCP" PROVE time_handler' # "bootp" /\ udp_handler' # "dhcp"
    BY <2>1 DEF OnlyDhcp
  <2>2. time_handler # "bootp" /\ udp_handler # "dhcp"
    BY DEF OnlyDhcp
  <2>3. ASSUME Quiet PROVE time_handler' # "bootp" /\ udp_handler' # "dhcp"
    BY <2>2, <2>3, Zenon DEF Quiet
  <2>4. CASE \E p \in Commands : Starts(p)
    <3>1. PICK p \in Commands : Starts(p)
      BY <2>4
    <3>2. protocol' = p
      BY <3>1, Zenon DEF Starts
    <3>3. time_handler' \in {"tftp", "ping"} /\ udp_handler' \in {udp_handler, "tftp"}
      BY <2>1, <3>1, <3>2, StartsEffects, Zenon
    <3> QED BY <2>2, <3>3
  <2>5. CASE Retries
    BY <2>2, <2>5 DEF Retries
  <2>6. CASE Selects
    BY <2>2, <2>6, SelectingTypes, Zenon DEF Selects, AInv
  <2>7. CASE Binds
    BY <2>2, <2>7, RequestingTypes, Zenon DEF Binds, AInv
  <2>8. CASE Tick
    BY <2>3, <2>8, TickQuiet
  <2>9. CASE Still
    BY <2>3, <2>9, Zenon DEF Still
  <2> QED BY <1>1, <2>4, <2>5, <2>6, <2>7, <2>8, <2>9, StillSteps, Zenon DEF Steps
<1> QED BY <1>3, <1>4

\* Nothing happens before the first command.
LEMMA StepFresh == ASSUME AInv, Fresh, [Next]_vars PROVE Fresh'
<1> SUFFICES ASSUME commands' = 0 PROVE phase' = "idle" /\ Undisturbed' /\ ~Waiting'
  BY SMTT(40) DEF Fresh
<1>1. commands \in Nat
  BY DEF AInv, TypeOK
<1>2. ~Command
  BY <1>1 DEF Command
<1>3. phase = "idle" /\ Undisturbed /\ ~Waiting
  BY <1>2, OneCommand DEF Fresh
<1>4. UNCHANGED vars
  <2>1. ~Timers /\ ~Receive
    BY <1>3, SMTT(40) DEF Timers, ArpTimeout, BootpTimeout, PingTimeout, StartAgainTimeout, Receive,
                RecvArpReply, RecvEchoReply, RecvDhcp
  <2>2. ~TftpEnds /\ ~NetLoopReturn /\ ~CtrlC /\ ~Tick /\ ~Idle
    BY <1>3 DEF TftpEnds, NetLoopReturn, CtrlC, Tick, Idle
  <2> QED BY <1>2, <2>1, <2>2, ZenonT(40) DEF Next
<1> QED BY <1>3, <1>4 DEF vars, loopVars, arpVars, wireVars, Undisturbed, Pinged, Waiting

\* The first command, if it is DHCP, begins undisturbed.
LEMMA CommandFirst == ASSUME AInv, Fresh, Command PROVE FirstDhcp'
<1> SUFFICES ASSUME commands' = 1, protocol' = "DHCP"
             PROVE  ~Pinged' /\ net_arp_wait_packet_ip' # "pinghost" /\ ~arpFailed'
  BY SMTT(40) DEF FirstDhcp
<1>1. TypeOK /\ commands \in Nat
  BY DEF AInv, TypeOK
<1>2. commands = 0
  BY <1>1 DEF Command
<1>3. ~Pinged /\ ~arpFailed /\ net_arp_wait_packet_ip = None
  BY <1>2 DEF Fresh, Undisturbed, Waiting
<1>4. Refuse("DHCP") \/ restart("DHCP")
  BY Zenon DEF Command
<1>5. CASE Refuse("DHCP")
  BY <1>3, <1>5, Names, ZenonT(40) DEF Refuse, arpVars, wireVars, Pinged
<1>6. CASE restart("DHCP")
  <2>1. dhcp_start /\ UNCHANGED arpVars
    BY <1>6 DEF restart
  <2>2. ~Pinged'
    BY <1>1, <1>3, <2>1, DhcpStartTypes, Zenon
  <2> QED BY <1>3, <2>1, <2>2, Names DEF arpVars
<1> QED BY <1>4, <1>5, <1>6

\* Only a restart takes net_loop back to NETLOOP_CONTINUE, and only a command
\* takes it away from the prompt.
LEMMA Restarted ==
    ASSUME AInv, [Next]_vars, ~Command
    PROVE  /\ net_state # "CONTINUE" /\ net_state' = "CONTINUE" => StartAgainTimeout
           /\ phase = "idle" => phase' = "idle"
<1>1. CASE ArpTimeout \/ PingTimeout \/ Receive
  BY <1>1 DEF ArpTimeout, PingTimeout, Receive, RecvArpReply, RecvEchoReply, RecvDhcp, loopVars
<1>2. CASE BootpTimeout
  <2>1. net_state' \in {net_state, "FAIL"} /\ phase = "rx"
    BY <1>2 DEF BootpTimeout, net_start_again
  <2> QED BY <2>1
<1>3. CASE StartAgainTimeout
  BY <1>3 DEF StartAgainTimeout
<1>4. CASE TftpEnds
  BY <1>4, SMTT(40) DEF TftpEnds, net_start_again
<1>5. CASE NetLoopReturn \/ CtrlC \/ Tick \/ Idle \/ UNCHANGED vars
  BY <1>5 DEF NetLoopReturn, CtrlC, Tick, Idle, vars, loopVars
<1> QED BY <1>1, <1>2, <1>3, <1>4, <1>5, ZenonT(40) DEF Next, Timers

\* An ARP wait that gives up is the end of the first command.
LEMMA StepFirst == ASSUME AInv, WInv, FirstDhcp, [Next]_vars, ~Command PROVE FirstDhcp'
<1> SUFFICES ASSUME commands' = 1, protocol' = "DHCP"
             PROVE  /\ ~Pinged' /\ net_arp_wait_packet_ip' # "pinghost"
                    /\ arpFailed' => DhcpIsOver'
  BY DEF FirstDhcp
<1>1. /\ ~Pinged /\ net_arp_wait_packet_ip # "pinghost" /\ protocol = "DHCP"
      /\ arpFailed => DhcpIsOver
  BY OneCommand DEF FirstDhcp
<1>2. Steps /\ TypeOK /\ protocol' = protocol
  BY NextSteps, OneCommand DEF AInv
<1>3. ~Pinged'
  BY <1>1, <1>2, PingsWaited, Zenon
<1>4. /\ time_handler = "bootp" => udp_handler = "dhcp"
      /\ time_handler = "tftp" => udp_handler = "tftp"
  BY Zenon DEF WInv, Handlers
<1>5. ASSUME UNCHANGED <<net_arp_wait_packet_ip, arpFailed>>, arpFailed => DhcpIsOver'
      PROVE  net_arp_wait_packet_ip' # "pinghost" /\ (arpFailed' => DhcpIsOver')
  BY <1>1, <1>5, Zenon
<1> SUFFICES net_arp_wait_packet_ip' # "pinghost" /\ (arpFailed' => DhcpIsOver')
  BY <1>3, Zenon
<1>6. CASE \E p \in Commands : Starts(p)
  <2>1. PICK p \in Commands : Starts(p)
    BY <1>6
  <2>2. restart(p) /\ p = "DHCP" /\ phase' = "rx"
    BY <1>1, <1>2, <2>1, Zenon DEF Starts
  <2>3. UNCHANGED arpVars /\ net_state' = "CONTINUE"
    BY <2>2, SMTT(40) DEF restart
  <2>4. ~arpFailed
    <3>1. SUFFICES ASSUME arpFailed PROVE FALSE
      OBVIOUS
    <3>2. phase # "idle"
      BY <2>2, Restarted
    <3>3. StartAgainTimeout
      BY <1>1, <2>3, <3>1, <3>2, Restarted, Zenon DEF DhcpIsOver
    <3>4. time_handler = "start_again" /\ time_age > time_delta
      BY <3>3, Zenon DEF StartAgainTimeout
    <3> QED BY <1>1, <1>2, <3>1, <3>4 DEF DhcpIsOver, TypeOK
  <2> QED BY <1>5, <2>3, <2>4 DEF arpVars
<1>7. CASE ArpTimeout
  <2>1. /\ phase = "rx" /\ net_state = "CONTINUE" /\ Waiting
        /\ UNCHANGED <<phase, timerVars, udp_handler, net_arp_wait_packet_ip>>
        /\ UNCHANGED arpFailed \/ net_state' = "FAIL"
    BY <1>7, Zenon DEF ArpTimeout
  <2>2. ~arpFailed
    BY <1>1, <2>1 DEF DhcpIsOver
  <2>3. udp_handler # "dhcp" /\ time_handler # "start_again"
    BY <1>1, <2>1, <2>2, Zenon DEF WInv, NoneLeft, Undisturbed
  <2>4. CASE UNCHANGED arpFailed
    BY <1>5, <2>1, <2>2, <2>4
  <2>5. CASE net_state' = "FAIL"
    <3>1. DhcpIsOver'
      BY <1>4, <2>1, <2>3, <2>5 DEF DhcpIsOver, timerVars
    <3> QED BY <1>1, <2>1, <3>1
  <2> QED BY <2>1, <2>4, <2>5
<1>8. CASE Retries \/ Selects
  <2>1. /\ udp_handler = "dhcp" \/ time_handler = "bootp"
        /\ UNCHANGED arpVars
    <3>1. CASE Retries
      BY <3>1, Zenon DEF Retries
    <3>2. CASE Selects
      BY <1>2, <3>2, SelectingTypes, Zenon DEF Selects
    <3> QED BY <1>8, <3>1, <3>2
  <2>2. ~arpFailed
    BY <1>1, <2>1 DEF DhcpIsOver
  <2> QED BY <1>5, <2>1, <2>2 DEF arpVars
<1>9. CASE Binds
  <2>1. udp_handler = "dhcp" /\ net_arp_wait_packet_ip' = "tftphost" /\ arpFailed' = arpFailed
    BY <1>2, <1>9, RequestingTypes, Zenon DEF Binds
  <2>2. ~arpFailed
    BY <1>1, <2>1 DEF DhcpIsOver
  <2> QED BY <2>1, <2>2
<1>10. CASE GivesUp
  <2>1. UNCHANGED arpVars /\ phase = "rx" /\ net_start_again("none")
    BY <1>10, Zenon DEF GivesUp
  <2>2. ASSUME arpFailed PROVE DhcpIsOver'
    <3>1. net_state # "CONTINUE" /\ udp_handler # "dhcp"
      BY <1>1, <2>1, <2>2 DEF DhcpIsOver
    <3>2. /\ net_state' \in {net_state, "FAIL"} /\ time_age' \in Nat /\ time_delta' \in Nat
          /\ \/ time_handler' = "none" /\ udp_handler' = udp_handler
             \/ time_handler' = "start_again" /\ udp_handler' = "dummy" /\ time_age' = 0
      BY <1>2, <2>1, StartAgainTypes, Zenon
    <3> QED BY <3>1, <3>2 DEF DhcpIsOver
  <2> QED BY <1>5, <2>1, <2>2 DEF arpVars
<1>11. CASE RecvArpReply
  <2>1. net_arp_wait_packet_ip' = None /\ UNCHANGED <<loopVars, timerVars, udp_handler, arpFailed>>
    BY <1>11, Zenon DEF RecvArpReply
  <2>2. arpFailed => DhcpIsOver'
    BY <1>1, <2>1 DEF DhcpIsOver, loopVars, timerVars
  <2> QED BY <2>1, <2>2, Names
<1>12. CASE Finishes \/ RecvEchoReply \/ PingTimeout
  <2>1. /\ UNCHANGED arpVars /\ net_state' # "CONTINUE"
        /\ \/ UNCHANGED <<timerVars, udp_handler>>
           \/ time_handler' = "none" /\ UNCHANGED udp_handler
    BY <1>12 DEF Finishes, RecvEchoReply, PingTimeout
  <2>2. arpFailed => DhcpIsOver'
    BY <1>1, <2>1 DEF DhcpIsOver, timerVars
  <2> QED BY <1>5, <2>1, <2>2, SMTT(40) DEF arpVars
<1>13. CASE NetLoopReturn \/ CtrlC
  <2>1. /\ phase' = "idle" /\ time_handler' = "none" /\ udp_handler' = "dummy" /\ UNCHANGED arpFailed
        /\ net_arp_wait_packet_ip' \in {net_arp_wait_packet_ip, None}
    BY <1>13, SMTT(40) DEF NetLoopReturn, CtrlC, net_cleanup_loop, arpVars
  <2> QED BY <1>1, <2>1, Names, SMTT(40) DEF DhcpIsOver
<1>14. CASE Tick
  <2>1. phase = "rx" /\ net_state = "CONTINUE" /\ UNCHANGED <<net_arp_wait_packet_ip, arpFailed>>
    BY <1>14, Zenon DEF Tick
  <2> QED BY <1>1, <1>5, <2>1 DEF DhcpIsOver
<1>15. CASE Refuses \/ Idle \/ UNCHANGED vars
  <2>1. /\ UNCHANGED <<phase, timerVars, udp_handler, net_arp_wait_packet_ip, arpFailed>>
        /\ net_state' = net_state \/ phase = "idle"
    BY <1>15 DEF Refuses, Idle, vars, loopVars, arpVars
  <2>2. arpFailed => DhcpIsOver'
    BY <1>1, <2>1 DEF DhcpIsOver, timerVars
  <2> QED BY <1>5, <2>1, <2>2, SMTT(40)
<1> QED
  BY <1>2, <1>6, <1>7, <1>8, <1>9, <1>10, <1>11, <1>12, <1>13, <1>14, <1>15, Zenon DEF Steps

\* For all timeouts, any number of tries and whatever is lost on the network,
\* while the first command runs DHCP is never silent for longer than its
\* longest timeout and gives up in time: it takes an ARP wait that an earlier
\* command left behind to hold its timer back.
THEOREM FirstCommandKeepsSending == Spec => [](commands <= 1 => KeepsSending /\ GivesUpInTime)
<1>1. Init => FInv
  BY Names DEF Init, FInv, OnlyDhcp, Fresh, FirstDhcp, Undisturbed, Pinged, Waiting
<1>2. ASSUME AInv, WInv, FInv, [Next]_vars PROVE FInv'
  <2>1. OnlyDhcp' /\ Fresh'
    BY <1>2, StepOnlyDhcp, StepFresh, Zenon DEF FInv
  <2>2. FirstDhcp'
    BY <1>2, CommandFirst, StepFirst, Zenon DEF FInv
  <2> QED BY <2>1, <2>2 DEF FInv
<1>3. ASSUME AInv, FInv, KeepsSendingUnlessWaitLeft, ~arpFailed /\ ~Pinged => GivesUpInTime
      PROVE  commands <= 1 => KeepsSending /\ GivesUpInTime
  <2> SUFFICES ASSUME commands <= 1, phase = "rx", time_handler = "bootp"
               PROVE  KeepsSending /\ GivesUpInTime
    BY SMTT(40) DEF KeepsSending, GivesUpInTime
  <2>1. protocol = "DHCP" /\ commands = 1
    BY <1>3 DEF FInv, OnlyDhcp, Fresh, AInv, TypeOK
  <2>2. ~Pinged /\ ~arpFailed
    BY <1>3, <2>1, Zenon DEF FInv, FirstDhcp, DhcpIsOver
  <2> QED BY <1>3, <2>2, Zenon DEF KeepsSendingUnlessWaitLeft
<1> QED BY <1>1, <1>2, <1>3, InvariantA, InvariantW, KeepsOnSending, GivenUpInTime, PTL DEF Spec

=============================================================================
