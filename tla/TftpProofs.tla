----------------------------- MODULE TftpProofs -----------------------------
(***************************************************************************)
(* Type correctness of the TFTP download, proved for every file, block     *)
(* size, width of the block number, number of retries and network.         *)
(***************************************************************************)
EXTENDS Tftp, TLAPS

-----------------------------------------------------------------------------
(* Sequences used as queues, and the remainder.                            *)

\* A sequence is a function on 1 .. Len.
LEMMA LenProperties ==
    ASSUME NEW S, NEW q \in Seq(S)
    PROVE  Len(q) \in Nat /\ DOMAIN q = 1 .. Len(q) /\ \A j \in 1 .. Len(q) : q[j] \in S
OBVIOUS

\* Replacing an element.
LEMMA ExceptSeq ==
    ASSUME NEW S, NEW q \in Seq(S), NEW i \in 1 .. Len(q), NEW e \in S
    PROVE  /\ [q EXCEPT ![i] = e] \in Seq(S) /\ Len([q EXCEPT ![i] = e]) = Len(q)
           /\ \A j \in 1 .. Len(q) : [q EXCEPT ![i] = e][j] = IF j = i THEN e ELSE q[j]
OBVIOUS

\* A part of a sequence.
LEMMA SubSeqProperties ==
    ASSUME NEW S, NEW q \in Seq(S), NEW m \in 1 .. Len(q) + 1, NEW n \in 0 .. Len(q), m <= n + 1
    PROVE  /\ SubSeq(q, m, n) \in Seq(S) /\ Len(SubSeq(q, m, n)) = n - m + 1
           /\ \A j \in 1 .. n - m + 1 : SubSeq(q, m, n)[j] = q[m + j - 1]
OBVIOUS

\* Two sequences, one after the other.
LEMMA ConcatProperties ==
    ASSUME NEW S, NEW a \in Seq(S), NEW b \in Seq(S)
    PROVE  /\ a \o b \in Seq(S) /\ Len(a \o b) = Len(a) + Len(b)
           /\ \A j \in 1 .. Len(a) + Len(b) :
                 (a \o b)[j] = IF j <= Len(a) THEN a[j] ELSE b[j - Len(a)]
OBVIOUS

\* RemoveAt() shifts what follows the removed element.
LEMMA RemoveAtProperties ==
    ASSUME NEW S, NEW q \in Seq(S), NEW i \in DOMAIN q
    PROVE  /\ RemoveAt(q, i) \in Seq(S)
           /\ Len(RemoveAt(q, i)) = Len(q) - 1
           /\ DOMAIN RemoveAt(q, i) = 1 .. Len(q) - 1
           /\ \A j \in 1 .. Len(q) - 1 :
                 RemoveAt(q, i)[j] = IF j < i THEN q[j] ELSE q[j + 1]
<1> DEFINE a == SubSeq(q, 1, i - 1)
           b == SubSeq(q, i + 1, Len(q))
           n == Len(q)
<1>1. i \in 1 .. n /\ n \in Nat
  BY LenProperties
<1>2. a \in Seq(S) /\ Len(a) = i - 1 /\ \A j \in 1 .. i - 1 : a[j] = q[j]
  BY <1>1, SubSeqProperties
<1>3. b \in Seq(S) /\ Len(b) = n - i /\ \A j \in 1 .. n - i : b[j] = q[i + j]
  BY <1>1, SubSeqProperties
<1>4. RemoveAt(q, i) = a \o b
  BY DEF RemoveAt
<1> HIDE DEF a, b, n
<1>5. a \o b \in Seq(S) /\ Len(a \o b) = n - 1
      /\ \A j \in 1 .. n - 1 : (a \o b)[j] = IF j <= i - 1 THEN a[j] ELSE b[j - (i - 1)]
  <2>1. Len(a) + Len(b) = n - 1
    BY <1>1, <1>2, <1>3
  <2>2. a \o b \in Seq(S) /\ Len(a \o b) = Len(a) + Len(b)
        /\ \A j \in 1 .. Len(a) + Len(b) :
              (a \o b)[j] = IF j <= Len(a) THEN a[j] ELSE b[j - Len(a)]
    BY <1>2, <1>3, ConcatProperties, Zenon
  <2>3. Len(a) = i - 1
    BY <1>2
  <2> QED BY <2>1, <2>2, <2>3, Zenon
<1>6. DOMAIN (a \o b) = 1 .. n - 1
  BY <1>5, LenProperties
<1>7. \A j \in 1 .. n - 1 : (a \o b)[j] = IF j < i THEN q[j] ELSE q[j + 1]
  <2> TAKE j \in 1 .. n - 1
  <2>1. CASE j < i
    <3>1. j \in 1 .. i - 1 /\ j <= i - 1
      BY <2>1, <1>1
    <3> QED BY <3>1, <2>1, <1>2, <1>5
  <2>2. CASE j >= i
    <3>1. j - (i - 1) \in 1 .. n - i /\ i + (j - (i - 1)) = j + 1
          /\ ~(j <= i - 1) /\ ~(j < i)
      BY <2>2, <1>1
    <3>2. (a \o b)[j] = b[j - (i - 1)]
      BY <3>1, <1>5, Zenon
    <3>3. b[j - (i - 1)] = q[j + 1]
      BY <3>1, <1>3, Zenon
    <3> QED BY <3>1, <3>2, <3>3, Zenon
  <2>3. j < i \/ j >= i
    BY <1>1
  <2> QED BY <2>1, <2>2, <2>3, Zenon
<1> QED BY <1>4, <1>5, <1>6, <1>7 DEF n

\* Append() keeps what is there and puts the new element last.
LEMMA AppendLast ==
    ASSUME NEW S, NEW q \in Seq(S), NEW m \in S
    PROVE  /\ Append(q, m) \in Seq(S)
           /\ DOMAIN Append(q, m) = 1 .. Len(q) + 1
           /\ \A j \in 1 .. Len(q) : Append(q, m)[j] = q[j]
           /\ Append(q, m)[Len(q) + 1] = m
OBVIOUS

\* Division with remainder.
LEMMA DivMod ==
    ASSUME NEW n \in Nat, NEW q \in Nat, q >= 2
    PROVE  n % q \in 0 .. q - 1 /\ n \div q \in Nat /\ n = q * (n \div q) + (n % q)
OBVIOUS

\* The only multiple of q strictly between -q and q is 0.
LEMMA SmallMultiple ==
    ASSUME NEW q \in Nat, q >= 2, NEW k \in Int, NEW e \in Int,
           -q < e, e < q, q * k = e
    PROVE  e = 0
<1>1. CASE k = 0
  BY <1>1
<1>2. CASE k >= 1
  <2>1. q * k >= q
    BY <1>2
  <2> QED BY <2>1
<1>3. CASE k <= -1
  <2>1. q * k <= -q
    BY <1>3
  <2> QED BY <2>1
<1> QED BY <1>1, <1>2, <1>3

\* Counting modulo q: the next number, which is another one.
LEMMA NextMod ==
    ASSUME NEW n \in Nat, NEW q \in Nat, q >= 2
    PROVE  (n + 1) % q = IF n % q = q - 1 THEN 0 ELSE (n % q) + 1
<1> DEFINE d == n \div q
           r == n % q
           e == (n + 1) \div q
           s == (n + 1) % q
<1>1. r \in 0 .. q - 1 /\ d \in Nat /\ n = q * d + r
  BY DivMod, Zenon
<1>2. n + 1 \in Nat
  OBVIOUS
<1>3. s \in 0 .. q - 1 /\ e \in Nat /\ n + 1 = q * e + s
  BY <1>2, DivMod, Zenon
<1> HIDE DEF d, r, e, s
<1>4. CASE r = q - 1
  <2>1. q * (e - d - 1) = -s
    BY <1>1, <1>3, <1>4
  <2>2. s = 0
    BY <2>1, <1>1, <1>3, SmallMultiple
  <2> QED BY <2>2, <1>4 DEF r, s
<1>5. CASE r # q - 1
  <2>1. q * (e - d) = r + 1 - s
    BY <1>1, <1>3
  <2>2. r + 1 - s = 0
    BY <2>1, <1>1, <1>3, <1>5, SmallMultiple
  <2> QED BY <2>2, <1>1, <1>3, <1>5 DEF r, s
<1> QED BY <1>4, <1>5

\* Neighbouring block numbers differ on the wire.
LEMMA NextModDiffers ==
    ASSUME NEW n \in Nat, NEW q \in Nat, q >= 2
    PROVE  (n + 1) % q # n % q
<1>1. n % q \in 0 .. q - 1
  BY DivMod
<1>2. (n + 1) % q = IF n % q = q - 1 THEN 0 ELSE (n % q) + 1
  BY NextMod, Zenon
<1> QED BY <1>1, <1>2

-----------------------------------------------------------------------------
(* Packets and queues.                                                     *)

\* Send() keeps what is queued and may put the packet last.
LEMMA SendProperties ==
    ASSUME NEW S, NEW q \in Seq(S), NEW m \in S
    PROVE  /\ Send(q, m) \in Seq(S)
           /\ \A j \in DOMAIN q : j \in DOMAIN Send(q, m) /\ Send(q, m)[j] = q[j]
           /\ \A j \in DOMAIN Send(q, m) :
                 \/ j \in DOMAIN q /\ Send(q, m)[j] = q[j]
                 \/ j = Len(q) + 1 /\ Send(q, m)[j] = m
<1>1. CASE Len(q) < Cap
  <2>1. Send(q, m) = Append(q, m)
    BY <1>1 DEF Send
  <2> QED BY <2>1, AppendLast, LenProperties
<1>2. CASE ~(Len(q) < Cap)
  BY <1>2 DEF Send
<1> QED BY <1>1, <1>2, Zenon

\* An element of a queue that lost one was in the queue before, and in the same
\* order: at position j there is now what was at Shift(i, j).
Shift(i, j) == IF j < i THEN j ELSE j + 1

\* A shortened queue holds the packets of the queue, in order.
LEMMA RemoveAtShift ==
    ASSUME NEW S, NEW q \in Seq(S), NEW i \in DOMAIN q
    PROVE  /\ RemoveAt(q, i) \in Seq(S)
           /\ \A j \in DOMAIN RemoveAt(q, i) :
                 Shift(i, j) \in DOMAIN q /\ RemoveAt(q, i)[j] = q[Shift(i, j)]
           /\ \A j, k \in DOMAIN RemoveAt(q, i) : j <= k => Shift(i, j) <= Shift(i, k)
<1>1. i \in 1 .. Len(q) /\ DOMAIN q = 1 .. Len(q) /\ Len(q) \in Nat
  BY LenProperties
<1>2. DOMAIN RemoveAt(q, i) = 1 .. Len(q) - 1
  BY RemoveAtProperties
<1>3. \A j \in 1 .. Len(q) - 1 : Shift(i, j) \in 1 .. Len(q)
  BY <1>1 DEF Shift
<1>4. \A j \in 1 .. Len(q) - 1 : RemoveAt(q, i)[j] = q[Shift(i, j)]
  BY RemoveAtProperties, Zenon DEF Shift
<1>5. \A j, k \in 1 .. Len(q) - 1 : j <= k => Shift(i, j) <= Shift(i, k)
  BY <1>1 DEF Shift
<1>6. RemoveAt(q, i) \in Seq(S)
  BY RemoveAtProperties
<1> QED BY <1>1, <1>2, <1>3, <1>4, <1>5, <1>6

\* What is left was there before.
LEMMA RemoveAtKeeps ==
    ASSUME NEW S, NEW q \in Seq(S), NEW i \in DOMAIN q, NEW r, r = RemoveAt(q, i)
    PROVE  r \in Seq(S) /\ \A j \in DOMAIN r : \E k \in DOMAIN q : r[j] = q[k]
BY RemoveAtShift

\* The packets of the server.
LEMMA DataPacketType ==
    ASSUME NEW tid \in Nat, NEW s \in Transfer
    PROVE  /\ DataPacket(tid, s) \in Reply
           /\ DataPacket(tid, s).op = "DATA" /\ DataPacket(tid, s).src = tid
           /\ DataPacket(tid, s).dst = s.peer
<1>1. s.blk % TFTP_SEQUENCE_SIZE \in BlockNumber
  <2>1. s.blk \in Nat
    BY DEF Transfer
  <2> QED BY <2>1, TftpAssumption, DivMod DEF BlockNumber
<1>2. (s.blk - 1) * s.bs \in Int /\ BlockLen(s.bs, s.blk) \in Int
  BY TftpAssumption DEF Transfer, BlockSize, BlockLen
<1> QED BY <1>1, <1>2 DEF DataPacket, Reply, Transfer

\* The server's packets have their type.
LEMMA CurrentPacketType ==
    ASSUME NEW tid \in Nat, NEW s \in Transfer
    PROVE  /\ CurrentPacket(tid, s) \in Reply
           /\ CurrentPacket(tid, s).op \in {"DATA", "OACK"}
           /\ CurrentPacket(tid, s).src = tid /\ CurrentPacket(tid, s).dst = s.peer
<1>1. CASE s.blk = 0
  BY <1>1 DEF CurrentPacket, OackPacket, Reply, Transfer
<1>2. CASE s.blk # 0
  BY <1>2, DataPacketType DEF CurrentPacket
<1> QED BY <1>1, <1>2

\* A transfer the server opens has its type.
LEMMA NewSessionType ==
    ASSUME NEW reply, NEW peer \in Nat
    PROVE  NewSession(reply, peer) \in Transfer
BY TftpAssumption DEF NewSession, Transfer, BlockSize

\* A packet of tftp_send().
LEMMA OutgoingType ==
    ASSUME NEW state, NEW cur \in BlockNumber, NEW remote \in Nat, NEW our \in Nat
    PROVE  /\ Outgoing(state, cur, remote, our) \in Request
           /\ Outgoing(state, cur, remote, our).op = "ACK" =>
                 /\ state # "SEND_RRQ"
                 /\ Outgoing(state, cur, remote, our).dst = remote
                 /\ Outgoing(state, cur, remote, our).blk = cur
           /\ Outgoing(state, cur, remote, our).op = "RRQ" =>
                 Outgoing(state, cur, remote, our).src = our
BY DEF Outgoing, Request

\* A block that is not the last one leaves room for the next in the file.
LEMMA NotLast ==
    ASSUME NEW s \in Transfer, ~LastBlockSent(s)
    PROVE  s.blk * s.bs <= FileSize
<1>1. s.blk \in Nat /\ s.bs \in Nat
  BY TftpAssumption, Zenon DEF Transfer, BlockSize
<1>2. CASE s.blk = 0
  BY <1>1, <1>2, TftpAssumption
<1>3. CASE s.blk > 0
  <2>1. ~(BlockLen(s.bs, s.blk) < s.bs)
    BY <1>3, Zenon DEF LastBlockSent
  <2>2. (s.blk - 1) * s.bs = s.blk * s.bs - s.bs
    BY <1>1
  <2>3. s.blk * s.bs \in Int
    BY <1>1
  <2> QED BY <1>1, <2>1, <2>2, <2>3, TftpAssumption DEF BlockLen
<1> QED BY <1>1, <1>2, <1>3

-----------------------------------------------------------------------------
(* Type correctness, on any network.                                       *)

\* Addresses are those of existing transfers.
AddressInv ==
    /\ \A i \in DOMAIN toServer : toServer[i].op = "ACK" => toServer[i].dst \in DOMAIN session
    /\ \A i \in DOMAIN toClient :
          toClient[i].op \in {"DATA", "OACK"} => toClient[i].src \in DOMAIN session
    /\ tftp_state # "SEND_RRQ" => tftp_remote_port \in DOMAIN session

TypeInv == TypeOK /\ AddressInv

\* The types hold initially.
LEMMA InitTypeInv == Init => TypeInv
<1> SUFFICES ASSUME Init PROVE TypeInv
  OBVIOUS
<1> USE TftpAssumption
<1>1. Outgoing("SEND_RRQ", 0, WELL_KNOWN_PORT, 1) \in Request
      /\ Outgoing("SEND_RRQ", 0, WELL_KNOWN_PORT, 1).op = "RRQ"
  BY DEF Outgoing, Request, WELL_KNOWN_PORT
<1>2. toServer \in Seq(Request) /\ \A i \in DOMAIN toServer : toServer[i].op = "RRQ"
  BY <1>1 DEF Init
<1>3. toClient \in Seq(Reply) /\ session \in Seq(Transfer) /\ toClient = <<>>
  BY DEF Init
<1>4. mem \in [Memory -> Int]
  BY DEF Init
<1>5. TypeOK
  BY <1>2, <1>3, <1>4 DEF Init, TypeOK, BlockNumber, BlockSize, WELL_KNOWN_PORT
<1>6. AddressInv
  BY <1>2, <1>3 DEF Init, AddressInv
<1> QED BY <1>5, <1>6 DEF TypeInv

\* The two ways a queue changes keep it well addressed.
LEMMA LoseTypeInv == TypeInv /\ Lose => TypeInv'
<1> SUFFICES ASSUME TypeInv, Lose PROVE TypeInv'
  OBVIOUS
<1>1. CASE \E i \in DOMAIN toServer : toServer' = RemoveAt(toServer, i) /\ UNCHANGED toClient
  <2>1. PICK i \in DOMAIN toServer : toServer' = RemoveAt(toServer, i) /\ UNCHANGED toClient
    BY <1>1
  <2>2. toServer' \in Seq(Request)
        /\ \A j \in DOMAIN toServer' :
              Shift(i, j) \in DOMAIN toServer /\ toServer'[j] = toServer[Shift(i, j)]
    BY <2>1, RemoveAtShift DEF TypeInv, TypeOK
  <2>3. TypeOK'
    BY <2>1, <2>2 DEF TypeInv, TypeOK, Lose, tftpVars, loopVars, imageVars
  <2>4. AddressInv'
    BY <2>1, <2>2 DEF TypeInv, AddressInv, Lose, tftpVars
  <2> QED BY <2>3, <2>4 DEF TypeInv
<1>2. CASE \E i \in DOMAIN toClient : toClient' = RemoveAt(toClient, i) /\ UNCHANGED toServer
  <2>1. PICK i \in DOMAIN toClient : toClient' = RemoveAt(toClient, i) /\ UNCHANGED toServer
    BY <1>2
  <2>2. toClient' \in Seq(Reply)
        /\ \A j \in DOMAIN toClient' :
              Shift(i, j) \in DOMAIN toClient /\ toClient'[j] = toClient[Shift(i, j)]
    BY <2>1, RemoveAtShift DEF TypeInv, TypeOK
  <2>3. TypeOK'
    BY <2>1, <2>2 DEF TypeInv, TypeOK, Lose, tftpVars, loopVars, imageVars
  <2>4. AddressInv'
    BY <2>1, <2>2, SMTT(40) DEF TypeInv, AddressInv, Lose, tftpVars
  <2> QED BY <2>3, <2>4 DEF TypeInv
<1> QED BY <1>1, <1>2 DEF Lose

\* The type of an error packet.
LEMMA ErrorPacketType ==
    ASSUME NEW code \in {"ERROR", "ERROR_fatal"}, NEW src \in Nat, NEW dst \in Nat
    PROVE  /\ ErrorPacket(code, src, dst) \in Reply
           /\ ErrorPacket(code, src, dst).op = code
           /\ ErrorPacket(code, src, dst).op \notin {"DATA", "OACK"}
BY DEF ErrorPacket, Reply

\* A repetition keeps the types.
LEMMA ServerRetransmitTypeInv == TypeInv /\ ServerRetransmit => TypeInv'
<1> SUFFICES ASSUME TypeInv, ServerRetransmit PROVE TypeInv'
  OBVIOUS
<1>1. PICK tid \in DOMAIN session : toClient' = Send(toClient, CurrentPacket(tid, session[tid]))
  BY DEF ServerRetransmit
<1>2. tid \in Nat /\ session[tid] \in Transfer
  BY DEF TypeInv, TypeOK
<1> DEFINE m == CurrentPacket(tid, session[tid])
<1>3. m \in Reply /\ m.src = tid
  BY <1>2, CurrentPacketType
<1> HIDE DEF m
<1>4. toClient' \in Seq(Reply)
      /\ \A j \in DOMAIN toClient' :
            (j \in DOMAIN toClient /\ toClient'[j] = toClient[j]) \/ toClient'[j] = m
  BY <1>1, <1>3, SendProperties DEF TypeInv, TypeOK, m
<1>5. TypeOK'
  BY <1>4 DEF TypeInv, TypeOK, ServerRetransmit, tftpVars, loopVars, imageVars
<1>6. AddressInv'
  BY <1>3, <1>4 DEF TypeInv, AddressInv, ServerRetransmit, tftpVars
<1> QED BY <1>5, <1>6 DEF TypeInv

\* An error the server sends keeps the types.
LEMMA ServerErrorTypeInv == TypeInv /\ ServerError => TypeInv'
<1> SUFFICES ASSUME TypeInv, ServerError PROVE TypeInv'
  OBVIOUS
<1>1. PICK tid \in DOMAIN session, code \in Replies \cap {"ERROR", "ERROR_fatal"} :
         toClient' = Send(toClient, ErrorPacket(code, tid, session[tid].peer))
  BY DEF ServerError
<1>2. tid \in Nat /\ session[tid].peer \in Nat
  <2>1. session \in Seq(Transfer)
    BY Zenon DEF TypeInv, TypeOK
  <2>2. tid \in Nat /\ session[tid] \in Transfer
    BY <2>1
  <2> QED BY <2>2 DEF Transfer
<1> DEFINE m == ErrorPacket(code, tid, session[tid].peer)
<1>3. m \in Reply /\ m.op \notin {"DATA", "OACK"}
  BY <1>2, ErrorPacketType
<1> HIDE DEF m
<1>4. toClient' \in Seq(Reply)
      /\ \A j \in DOMAIN toClient' :
            (j \in DOMAIN toClient /\ toClient'[j] = toClient[j]) \/ toClient'[j] = m
  BY <1>1, <1>3, SendProperties DEF TypeInv, TypeOK, m
<1>5. TypeOK'
  BY <1>4 DEF TypeInv, TypeOK, ServerError, tftpVars, loopVars, imageVars
<1>6. AddressInv'
  BY <1>3, <1>4 DEF TypeInv, AddressInv, ServerError, tftpVars
<1> QED BY <1>5, <1>6 DEF TypeInv

\* What the server does with a request: its queue loses the request, its
\* transfers are those it had or one more, each keeping its peer and block size,
\* and its answer, if any, comes from one of them.
LEMMA ServerReceiveShape ==
    ASSUME TypeInv, ServerReceive
    PROVE  /\ \E i \in DOMAIN toServer : toServer' = RemoveAt(toServer, i)
           /\ session' \in Seq(Transfer)
           /\ DOMAIN session \subseteq DOMAIN session'
           /\ \/ toClient' = toClient
              \/ \E m \in Reply : /\ toClient' = Send(toClient, m)
                                  /\ m.op \in {"DATA", "OACK"} => m.src \in DOMAIN session'
<1>1. PICK i \in Deliverable(toServer) :
          /\ toServer' = RemoveAt(toServer, i)
          /\ \/ toServer[i].op = "RRQ" /\ \E reply \in Replies : ServeRRQ(toServer[i], reply)
             \/ toServer[i].op = "ACK" /\ ServeACK(toServer[i])
  BY DEF ServerReceive
<1>2. i \in DOMAIN toServer
  BY DEF Deliverable
<1> DEFINE r == toServer[i]
<1>3. r \in Request
  BY <1>2 DEF TypeInv, TypeOK
<1>4. session \in Seq(Transfer) /\ Len(session) \in Nat
  BY LenProperties DEF TypeInv, TypeOK
<1>5. CASE r.op = "RRQ" /\ \E reply \in Replies : ServeRRQ(r, reply)
  <2>1. PICK reply \in Replies : ServeRRQ(r, reply)
    BY <1>5
  <2>2. r.src \in Nat
    BY <1>3, <1>5 DEF Request
  <2>3. CASE reply \in {"ERROR", "ERROR_fatal"}
    <3> DEFINE m == ErrorPacket(reply, MaxTid + 1, r.src)
    <3>1. m \in Reply /\ m.op \notin {"DATA", "OACK"}
      BY <2>2, <2>3, ErrorPacketType, TftpAssumption
    <3>2. toClient' = Send(toClient, m) /\ session' = session
      BY <2>1, <2>3 DEF ServeRRQ
    <3> QED BY <3>1, <3>2, <1>1, <1>2, <1>4
  <2>4. CASE reply \notin {"ERROR", "ERROR_fatal"} /\ Len(session) < MaxTid
    <3> DEFINE s == NewSession(reply, r.src)
               m == CurrentPacket(Len(session) + 1, s)
    <3>1. s \in Transfer
      BY <2>2, NewSessionType
    <3>2. m \in Reply /\ m.src = Len(session) + 1
      BY <3>1, <1>4, CurrentPacketType
    <3>3. session' = Append(session, s) /\ toClient' = Send(toClient, m)
      BY <2>1, <2>4 DEF ServeRRQ
    <3> HIDE DEF s, m
    <3>4. session' \in Seq(Transfer) /\ DOMAIN session' = 1 .. Len(session) + 1
          /\ DOMAIN session = 1 .. Len(session)
      BY <3>1, <3>3, <1>4, AppendLast, LenProperties
    <3> QED BY <3>2, <3>3, <3>4, <1>1, <1>2, <1>4
  <2>5. CASE reply \notin {"ERROR", "ERROR_fatal"} /\ ~(Len(session) < MaxTid)
    <3>1. session' = session /\ toClient' = toClient
      BY <2>1, <2>5 DEF ServeRRQ
    <3> QED BY <3>1, <1>1, <1>2, <1>4
  <2> QED BY <2>3, <2>4, <2>5
<1>6. CASE r.op = "ACK" /\ ServeACK(r)
  <2> DEFINE s == session[r.dst]
             next == [s EXCEPT !.blk = @ + 1]
  <2>1. r.dst \in DOMAIN session /\ r.dst \in Nat /\ s \in Transfer
    BY <1>2, <1>4, <1>6 DEF TypeInv, AddressInv
  <2>2. next \in Transfer
    BY <2>1 DEF Transfer
  <2>3. DataPacket(r.dst, next) \in Reply /\ DataPacket(r.dst, next).src = r.dst
        /\ CurrentPacket(r.dst, s) \in Reply /\ CurrentPacket(r.dst, s).src = r.dst
    BY <2>1, <2>2, DataPacketType, CurrentPacketType
  <2>4. \/ session' = [session EXCEPT ![r.dst] = next]
           /\ toClient' = Send(toClient, DataPacket(r.dst, next))
        \/ session' = session /\ toClient' = Send(toClient, CurrentPacket(r.dst, s))
        \/ session' = session /\ toClient' = toClient
    BY <1>6 DEF ServeACK
  <2> HIDE DEF s, next
  <2>5. session' \in Seq(Transfer) /\ DOMAIN session' = DOMAIN session
    BY <2>1, <2>2, <2>4, <1>4, ExceptSeq
  <2> QED BY <2>1, <2>3, <2>4, <2>5, <1>1, <1>2
<1> QED BY <1>1, <1>5, <1>6

\* The server's answers keep the types.
LEMMA ServerReceiveTypeInv == TypeInv /\ ServerReceive => TypeInv'
<1> SUFFICES ASSUME TypeInv, ServerReceive PROVE TypeInv'
  OBVIOUS
<1>1. PICK i \in DOMAIN toServer : toServer' = RemoveAt(toServer, i)
  BY ServerReceiveShape
<1>2. toServer' \in Seq(Request)
      /\ \A j \in DOMAIN toServer' :
            Shift(i, j) \in DOMAIN toServer /\ toServer'[j] = toServer[Shift(i, j)]
  BY <1>1, RemoveAtShift DEF TypeInv, TypeOK
<1>3. session' \in Seq(Transfer) /\ DOMAIN session \subseteq DOMAIN session'
  BY ServerReceiveShape
<1>4. toClient' \in Seq(Reply)
      /\ \A j \in DOMAIN toClient' :
            toClient'[j].op \in {"DATA", "OACK"} => toClient'[j].src \in DOMAIN session'
  <2>1. CASE toClient' = toClient
    BY <2>1, <1>3 DEF TypeInv, TypeOK, AddressInv
  <2>2. CASE \E m \in Reply : /\ toClient' = Send(toClient, m)
                              /\ m.op \in {"DATA", "OACK"} => m.src \in DOMAIN session'
    <3>1. PICK m \in Reply : /\ toClient' = Send(toClient, m)
                             /\ m.op \in {"DATA", "OACK"} => m.src \in DOMAIN session'
      BY <2>2
    <3>2. toClient' \in Seq(Reply)
          /\ \A j \in DOMAIN toClient' :
                (j \in DOMAIN toClient /\ toClient'[j] = toClient[j]) \/ toClient'[j] = m
      BY <3>1, SendProperties DEF TypeInv, TypeOK
    <3> QED BY <3>1, <3>2, <1>3 DEF TypeInv, AddressInv
  <2> QED BY <2>1, <2>2, ServerReceiveShape
<1>5. TypeOK'
  BY <1>2, <1>3, <1>4 DEF TypeInv, TypeOK, ServerReceive, tftpVars, loopVars, imageVars
<1>6. AddressInv'
  BY <1>2, <1>3, <1>4 DEF TypeInv, AddressInv, ServerReceive, tftpVars
<1> QED BY <1>5, <1>6 DEF TypeInv

\* The client's packet joins the queue to the server, or is lost.
LEMMA TransmitProperties ==
    ASSUME toServer \in Seq(Request), NEW m \in Request, Transmit(m)
    PROVE  /\ toServer' \in Seq(Request)
           /\ \A j \in DOMAIN toServer' :
                 (j \in DOMAIN toServer /\ toServer'[j] = toServer[j]) \/ toServer'[j] = m
<1>1. CASE eth_state = "ACTIVE"
  <2>1. toServer' = Send(toServer, m)
    BY <1>1 DEF Transmit
  <2> QED BY <2>1, SendProperties
<1>2. CASE eth_state # "ACTIVE"
  BY <1>2 DEF Transmit
<1> QED BY <1>1, <1>2

\* store_block() keeps the memory a function to units.
LEMMA StoreBlockType ==
    ASSUME TypeOK, NEW block \in Int, NEW wrap_offset \in Int, NEW m,
           m.from \in Int, m.len \in Int, store_block(block, wrap_offset, m)
    PROVE  mem' \in [Memory -> Int] /\ net_boot_file_size' \in Int
<1> DEFINE offset == block * tftp_block_size + wrap_offset
           newsize == offset + m.len
<1>1. offset \in Int /\ newsize \in Int
  BY TftpAssumption DEF TypeOK, BlockSize
<1>2. mem' = [p \in DOMAIN mem |->
                 IF p \in offset .. newsize - 1 THEN m.from + p - offset ELSE mem[p]]
      /\ net_boot_file_size' = IF net_boot_file_size < newsize THEN newsize
                               ELSE net_boot_file_size
  BY DEF store_block
<1> HIDE DEF offset, newsize
<1>3. DOMAIN mem = Memory /\ \A p \in Memory : mem[p] \in Int /\ p \in Int
  BY TftpAssumption DEF TypeOK, Memory, Margin
<1>4. \A p \in Memory :
         (IF p \in offset .. newsize - 1 THEN m.from + p - offset ELSE mem[p]) \in Int
  BY <1>1, <1>3
<1> QED BY <1>1, <1>2, <1>3, <1>4 DEF TypeOK

\* net_start_again() keeps the types of what it changes.
LEMMA NetStartAgainType ==
    ASSUME TypeOK, NEW handler \in {"none", "tftp", "start_again"}, net_start_again(handler)
    PROVE  /\ net_state' \in {"CONTINUE", "SUCCESS", "FAIL"} /\ net_try_count' \in Nat
           /\ time_handler' \in {"none", "tftp", "start_again"}
           /\ udp_handler' \in {"tftp", "dummy"} /\ eth_state' \in {"ACTIVE", "PASSIVE"}
BY DEF TypeOK, net_start_again

\* update_block_number() keeps the types.
LEMMA NoteBlockType ==
    ASSUME TypeOK, NEW m, m.blk \in BlockNumber, m.src \in Nat, NoteBlock(m)
    PROVE  /\ tftp_cur_block' \in BlockNumber /\ timeout_count' \in Nat
           /\ tftp_block_wrap_offset' \in Nat /\ tftp_state' = "DATA"
           /\ tftp_remote_port' \in Nat
           /\ UNCHANGED <<tftp_block_size, tftp_our_port>>
<1>1. tftp_block_size * TFTP_SEQUENCE_SIZE \in Nat
  BY TftpAssumption DEF TypeOK, BlockSize
<1> QED BY <1>1 DEF TypeOK, NoteBlock

\* Every packet received keeps the types.
LEMMA ClientReceiveTypeInv == TypeInv /\ ClientReceive => TypeInv'
<1> SUFFICES ASSUME TypeInv, ClientReceive PROVE TypeInv'
  OBVIOUS
<1>1. PICK i \in Deliverable(toClient) :
          /\ toClient' = RemoveAt(toClient, i)
          /\ \/ Ignore(toClient[i]) \/ RecvOack(toClient[i]) \/ RecvBadFirst(toClient[i])
             \/ RecvSame(toClient[i]) \/ RecvBlock(toClient[i]) \/ RecvError(toClient[i])
  BY DEF ClientReceive
<1> DEFINE m == toClient[i]
<1>2. i \in DOMAIN toClient /\ m \in Reply
  BY DEF Deliverable, TypeInv, TypeOK
<1>3. m.src \in Nat /\ (m.op \in {"DATA", "OACK"} => m.src \in DOMAIN session)
  BY <1>2 DEF TypeInv, AddressInv, Reply
<1>4. m.op = "DATA" => m.blk \in BlockNumber /\ m.from \in Int /\ m.len \in Int
  BY <1>2 DEF Reply
<1>5. m.op = "OACK" => m.size \in BlockSize \cup {0}
  BY <1>2 DEF Reply
<1>6. UNCHANGED session
  BY DEF ClientReceive
<1>7. toClient' \in Seq(Reply)
      /\ \A j \in DOMAIN toClient' :
            toClient'[j].op \in {"DATA", "OACK"} => toClient'[j].src \in DOMAIN session
  <2>1. toClient \in Seq(Reply)
    BY SMTT(40) DEF TypeInv, TypeOK
  <2>2. toClient' \in Seq(Reply)
        /\ \A j \in DOMAIN toClient' :
              Shift(i, j) \in DOMAIN toClient /\ toClient'[j] = toClient[Shift(i, j)]
    BY <1>1, <1>2, <2>1, RemoveAtShift
  <2> QED BY <2>2 DEF TypeInv, AddressInv
<1> HIDE DEF m
<1>8. CASE Ignore(m)
  BY <1>6, <1>7, <1>8
     DEF Ignore, TypeInv, TypeOK, AddressInv, tftpVars, loopVars, imageVars
<1>9. CASE RecvOack(m)
  <2> DEFINE p == Outgoing("OACK", tftp_cur_block, m.src, tftp_our_port)
  <2>1. p \in Request /\ (p.op = "ACK" => p.dst = m.src)
    BY <1>3, OutgoingType, SMTT(40) DEF TypeInv, TypeOK
  <2> HIDE DEF p
  <2>2. toServer' \in Seq(Request)
        /\ \A j \in DOMAIN toServer' :
              (j \in DOMAIN toServer /\ toServer'[j] = toServer[j]) \/ toServer'[j] = p
    BY <1>9, <2>1, TransmitProperties, SMTT(40) DEF RecvOack, TypeInv, TypeOK, p
  <2>3. TypeOK'
    BY <1>3, <1>5, <1>6, <1>7, <1>9, <2>2, SMTT(40)
       DEF RecvOack, TypeInv, TypeOK, loopVars, imageVars
  <2>4. AddressInv'
    BY <1>3, <1>6, <1>7, <1>9, <2>1, <2>2 DEF RecvOack, TypeInv, AddressInv
  <2> QED BY <2>3, <2>4 DEF TypeInv
<1>10. CASE RecvBadFirst(m)
  <2>1. m.op = "DATA" /\ NoteBlock(m) /\ tftp_prev_block' = 0 /\ net_start_again(time_handler)
        /\ UNCHANGED <<phase, ret, imageVars, toServer>>
    BY <1>10 DEF RecvBadFirst
  <2>2. 0 \in BlockNumber
    BY TftpAssumption, SMTT(40) DEF BlockNumber
  <2>3. TypeOK'
    BY <1>3, <1>4, <1>6, <1>7, <2>1, <2>2, NoteBlockType, NetStartAgainType, SMTT(40)
       DEF TypeInv, TypeOK, imageVars
  <2>4. AddressInv'
    BY <1>3, <1>6, <1>7, <2>1 DEF TypeInv, AddressInv, NoteBlock, First
  <2> QED BY <2>3, <2>4 DEF TypeInv
<1>11. CASE RecvSame(m)
  <2>1. m.op = "DATA" /\ NoteBlock(m)
        /\ UNCHANGED <<tftp_prev_block, loopVars, imageVars, toServer>>
    BY <1>11 DEF RecvSame
  <2>2. TypeOK'
    BY <1>3, <1>4, <1>6, <1>7, <2>1, NoteBlockType, SMTT(40)
       DEF TypeInv, TypeOK, loopVars, imageVars
  <2>3. AddressInv'
    BY <1>3, <1>6, <1>7, <2>1 DEF TypeInv, AddressInv, NoteBlock, First
  <2> QED BY <2>2, <2>3 DEF TypeInv
<1>12. CASE RecvBlock(m)
  <2> DEFINE p == Outgoing("DATA", m.blk, tftp_remote_port', tftp_our_port)
  <2>1. m.op = "DATA" /\ NoteBlock(m) /\ tftp_prev_block' = m.blk
        /\ store_block(m.blk - 1, tftp_block_wrap_offset', m) /\ Transmit(p)
        /\ net_state' \in {"SUCCESS", net_state} /\ time_handler' = "tftp"
        /\ UNCHANGED <<net_try_count, udp_handler, eth_state, phase, ret>>
    BY <1>12 DEF RecvBlock
  <2>2. tftp_cur_block' \in BlockNumber /\ timeout_count' \in Nat
        /\ tftp_block_wrap_offset' \in Nat /\ tftp_state' = "DATA"
        /\ tftp_remote_port' \in Nat /\ UNCHANGED <<tftp_block_size, tftp_our_port>>
    BY <1>3, <1>4, <2>1, NoteBlockType, SMTT(40) DEF TypeInv
  <2>3. tftp_remote_port' \in DOMAIN session
    BY <1>3, <2>1 DEF TypeInv, AddressInv, NoteBlock, First
  <2>4. p \in Request /\ (p.op = "ACK" => p.dst = tftp_remote_port')
    BY <1>4, <2>1, <2>2, OutgoingType, SMTT(40) DEF TypeInv, TypeOK
  <2> HIDE DEF p
  <2>5. toServer' \in Seq(Request)
        /\ \A j \in DOMAIN toServer' :
              (j \in DOMAIN toServer /\ toServer'[j] = toServer[j]) \/ toServer'[j] = p
    BY <2>1, <2>4, TransmitProperties DEF TypeInv, TypeOK
  <2>6. mem' \in [Memory -> Int] /\ net_boot_file_size' \in Int
    <3>1. m.blk - 1 \in Int /\ tftp_block_wrap_offset' \in Int
      BY <1>4, <2>1, <2>2, TftpAssumption, SMTT(40) DEF BlockNumber
    <3> QED BY <1>4, <2>1, <3>1, StoreBlockType DEF TypeInv
  <2>7. TypeOK'
    BY <1>4, <1>6, <1>7, <2>1, <2>2, <2>5, <2>6 DEF TypeInv, TypeOK
  <2>8. AddressInv'
    BY <1>6, <1>7, <2>3, <2>4, <2>5 DEF TypeInv, AddressInv
  <2> QED BY <2>7, <2>8 DEF TypeInv
<1>13. CASE RecvError(m)
  <2>1. /\ \/ /\ net_state' = "FAIL" /\ eth_state' = "PASSIVE"
              /\ UNCHANGED <<net_try_count, time_handler, udp_handler>>
           \/ net_start_again(time_handler)
        /\ UNCHANGED <<tftpVars, phase, ret, imageVars, toServer>>
    BY <1>13 DEF RecvError
  <2>2. /\ net_state' \in {"CONTINUE", "SUCCESS", "FAIL"} /\ net_try_count' \in Nat
        /\ time_handler' \in {"none", "tftp", "start_again"}
        /\ udp_handler' \in {"tftp", "dummy"} /\ eth_state' \in {"ACTIVE", "PASSIVE"}
    BY <2>1, NetStartAgainType DEF TypeInv, TypeOK
  <2>3. TypeOK'
    BY <1>6, <1>7, <2>1, <2>2, SMTT(40) DEF TypeInv, TypeOK, tftpVars, imageVars
  <2>4. AddressInv'
    BY <1>6, <1>7, <2>1 DEF TypeInv, AddressInv, tftpVars
  <2> QED BY <2>3, <2>4 DEF TypeInv
<1> QED BY <1>1, <1>8, <1>9, <1>10, <1>11, <1>12, <1>13 DEF m

\* tftp_timeout_handler() keeps the types.
LEMMA TftpTimeoutTypeInv == TypeInv /\ TftpTimeout => TypeInv'
<1> SUFFICES ASSUME TypeInv, TftpTimeout PROVE TypeInv'
  OBVIOUS
<1> DEFINE p == Outgoing(tftp_state, tftp_cur_block, tftp_remote_port, tftp_our_port)
<1>1. timeout_count' \in Nat /\ phase' \in {"rx", "switch"}
      /\ UNCHANGED <<tftp_state, tftp_cur_block, tftp_prev_block, tftp_block_wrap_offset,
                     tftp_block_size, tftp_remote_port, tftp_our_port,
                     ret, imageVars, toClient, session>>
  BY DEF TftpTimeout, TypeInv, TypeOK
<1>2. p \in Request /\ (p.op = "ACK" => tftp_state # "SEND_RRQ" /\ p.dst = tftp_remote_port)
  BY OutgoingType DEF TypeInv, TypeOK
<1>3. \/ net_start_again("none") /\ UNCHANGED toServer
      \/ /\ Transmit(p)
         /\ UNCHANGED <<net_state, net_try_count, time_handler, udp_handler, eth_state>>
  BY SMTT(40) DEF TftpTimeout
<1> HIDE DEF p
<1>4. toServer' \in Seq(Request)
      /\ \A j \in DOMAIN toServer' :
            (j \in DOMAIN toServer /\ toServer'[j] = toServer[j]) \/ toServer'[j] = p
  BY <1>2, <1>3, TransmitProperties DEF TypeInv, TypeOK
<1>5. /\ net_state' \in {"CONTINUE", "SUCCESS", "FAIL"} /\ net_try_count' \in Nat
      /\ time_handler' \in {"none", "tftp", "start_again"}
      /\ udp_handler' \in {"tftp", "dummy"} /\ eth_state' \in {"ACTIVE", "PASSIVE"}
  BY <1>3, NetStartAgainType DEF TypeInv, TypeOK
<1>6. TypeOK'
  BY <1>1, <1>4, <1>5 DEF TypeInv, TypeOK, imageVars
<1>7. AddressInv'
  BY <1>1, <1>2, <1>4 DEF TypeInv, AddressInv
<1> QED BY <1>6, <1>7 DEF TypeInv

\* start_again_timeout_handler() keeps the types.
LEMMA StartAgainTimeoutTypeInv == TypeInv /\ StartAgainTimeout => TypeInv'
<1> SUFFICES ASSUME TypeInv, StartAgainTimeout PROVE TypeInv'
  OBVIOUS
<1> DEFINE p == Outgoing("SEND_RRQ", 0, WELL_KNOWN_PORT, tftp_our_port')
<1>1. tftp_our_port' \in Nat
  <2>1. tftp_our_port' \in IF PortReuse THEN 1 .. net_try_count ELSE {net_try_count}
    BY DEF StartAgainTimeout, tftp_start
  <2>2. net_try_count \in Nat
    BY DEF TypeInv, TypeOK
  <2> QED BY <2>1, <2>2
<1>2. 0 \in BlockNumber /\ WELL_KNOWN_PORT \in Nat /\ TFTP_BLOCK_SIZE \in BlockSize
  BY TftpAssumption DEF BlockNumber, WELL_KNOWN_PORT, BlockSize
<1>3. p \in Request /\ p.op # "ACK"
  BY <1>1, <1>2, OutgoingType
<1>4. Transmit(p)
  BY DEF StartAgainTimeout, tftp_start
<1>5. /\ net_state' = "CONTINUE" /\ net_boot_file_size' = 0
      /\ tftp_state' = "SEND_RRQ" /\ tftp_remote_port' = WELL_KNOWN_PORT
      /\ timeout_count' = 0 /\ tftp_cur_block' = 0 /\ tftp_block_size' = TFTP_BLOCK_SIZE
      /\ time_handler' = "tftp" /\ udp_handler' = "tftp"
      /\ UNCHANGED <<tftp_prev_block, tftp_block_wrap_offset, net_try_count, eth_state,
                     phase, ret, mem, toClient, session>>
  BY DEF StartAgainTimeout, tftp_start
<1> HIDE DEF p
<1>6. toServer' \in Seq(Request)
      /\ \A j \in DOMAIN toServer' :
            (j \in DOMAIN toServer /\ toServer'[j] = toServer[j]) \/ toServer'[j] = p
  BY <1>3, <1>4, TransmitProperties DEF TypeInv, TypeOK
<1>7. TypeOK'
  BY <1>1, <1>2, <1>5, <1>6, SMTT(40) DEF TypeInv, TypeOK
<1>8. AddressInv'
  BY <1>3, <1>5, <1>6 DEF TypeInv, AddressInv
<1> QED BY <1>7, <1>8 DEF TypeInv

\* The end of net_loop and ctrl-C keep the types.
LEMMA ReturnTypeInv == TypeInv /\ (NetLoopReturn \/ CtrlC) => TypeInv'
<1> SUFFICES ASSUME TypeInv, NetLoopReturn \/ CtrlC PROVE TypeInv'
  OBVIOUS
<1>1. /\ ret' \in {net_boot_file_size, ETIMEDOUT, 0, EINTR} /\ phase' = "done"
      /\ time_handler' = "none" /\ udp_handler' = "dummy"
      /\ eth_state' \in {"ACTIVE", "PASSIVE"}
      /\ UNCHANGED <<tftpVars, imageVars, net_state, net_try_count, toServer, toClient, session>>
  <2>1. CASE NetLoopReturn
    BY <2>1 DEF NetLoopReturn
  <2>2. CASE CtrlC
    BY <2>2 DEF CtrlC
  <2> QED BY <2>1, <2>2
<1>2. TypeOK'
  BY <1>1, SMTT(40) DEF TypeInv, TypeOK, tftpVars, imageVars, ETIMEDOUT, EINTR
<1>3. AddressInv'
  BY <1>1 DEF TypeInv, AddressInv, tftpVars
<1> QED BY <1>2, <1>3 DEF TypeInv

\* Every step keeps the types.
LEMMA NextTypeInv == TypeInv /\ [Next]_vars => TypeInv'
<1> SUFFICES ASSUME TypeInv, [Next]_vars PROVE TypeInv'
  OBVIOUS
<1>1. CASE Client
  BY <1>1, ClientReceiveTypeInv, TftpTimeoutTypeInv, StartAgainTimeoutTypeInv, ReturnTypeInv
     DEF Client
<1>2. CASE ServerReceive \/ ServerRetransmit \/ ServerError \/ Lose
  BY <1>2, ServerReceiveTypeInv, ServerRetransmitTypeInv, ServerErrorTypeInv, LoseTypeInv, SMTT(40)
<1>3. CASE UNCHANGED vars
  BY <1>3 DEF vars, tftpVars, loopVars, imageVars, TypeInv, TypeOK, AddressInv
<1> QED BY <1>1, <1>2, <1>3 DEF Next

\* Types are respected on any network, whatever it loses, repeats or reorders,
\* and whichever ports the attempts draw.
THEOREM TypeCorrect == Spec => []TypeOK
<1>1. Init => TypeInv
  BY InitTypeInv
<1>2. TypeInv /\ [Next]_vars => TypeInv'
  BY NextTypeInv
<1>3. TypeInv => TypeOK
  BY DEF TypeInv
<1> QED BY <1>1, <1>2, <1>3, PTL DEF Spec
=============================================================================
