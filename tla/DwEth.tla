------------------------------- MODULE DwEth -------------------------------
(***************************************************************************)
(* The ethernet driver (drivers/net/designware.c) below eth_rx and         *)
(* eth_send (net/eth.c): two rings of descriptors, each descriptor owned   *)
(* by the CPU or by the DMA engine, which runs beside the program.         *)
(*                                                                         *)
(* A received frame is the number of its arrival; EmptyFrames are those    *)
(* whose length the hardware gives as 0.  The length of a frame to send is *)
(* the set of its binary digits.  Descriptors count from 0.                *)
(***************************************************************************)
EXTENDS Integers, Sequences, FiniteSets

CONSTANTS
    CONFIG_RX_DESCR_NUM,    \* 16
    CONFIG_TX_DESCR_NUM,    \* 16
    RX_BATCH,               \* packets eth_rx processes at one time: 32
    Lengths,                \* lengths of the frames sent
    EmptyFrames,            \* the arrivals that come out with length 0
    NetRetry,               \* is `netretry' set: may net_start_again restart the interface?
    MaxArrivals,            \* bound: frames received
    Unending,               \* do frames keep coming, numbered from 1 again?
    MaxSends, MaxStarts     \* bound: frames sent after one start, starts of the interface

ASSUME DwEthAssumption ==
    /\ CONFIG_RX_DESCR_NUM \in Nat \ {0} /\ CONFIG_TX_DESCR_NUM \in Nat \ {0}
    /\ RX_BATCH \in Nat \ {0} /\ NetRetry \in BOOLEAN /\ Unending \in BOOLEAN
    /\ MaxArrivals \in Nat /\ (Unending => MaxArrivals > 0)
    /\ MaxSends \in Nat /\ MaxStarts \in Nat
    /\ EmptyFrames \subseteq Nat

VARIABLES
    rx_owner, rx_buff,      \* of each receive descriptor
    rx_currdescnum,         \* where the driver looks next
    rx_dma,                 \* where the DMA engine writes next
    tx_owner, tx_cntl, tx_buff, tx_currdescnum, tx_dma,
    running,                \* "on" when MAC and DMA are enabled
    command,                \* "open" while net_loop runs a command
    pc, batch, packet,      \* eth_rx: where it is, packets so far, the packet in hand
    arrivals, starts,       \* the last frame that came in, starts of the interface
    delivered,              \* the last frame given to net_process_received_packet
    accepted,               \* history: frames eth_send has taken since the start
    wire                    \* history: frames transmitted since the start

rxVars == <<rx_owner, rx_buff, rx_currdescnum, rx_dma>>
txVars == <<tx_owner, tx_cntl, tx_buff, tx_currdescnum, tx_dma, accepted, wire>>
pollVars == <<pc, batch, packet, delivered>>
vars == <<rxVars, txVars, pollVars, running, command, arrivals, starts>>

RxRing == 0 .. CONFIG_RX_DESCR_NUM - 1
TxRing == 0 .. CONFIG_TX_DESCR_NUM - 1

\* Mutant: the ring index wraps one too late.
RxNext_late(n) == IF n + 1 > CONFIG_RX_DESCR_NUM THEN 0 ELSE n + 1
RxNext(n) == IF n + 1 >= CONFIG_RX_DESCR_NUM THEN 0 ELSE n + 1
TxNext(n) == IF n + 1 >= CONFIG_TX_DESCR_NUM THEN 0 ELSE n + 1

-----------------------------------------------------------------------------
(* The DMA engine.                                                         *)

\* A frame comes in; without a descriptor of its own to put it in, the DMA
\* engine drops it, and looks at the descriptor again for the next one.
FrameArrives ==
    /\ \/ arrivals < MaxArrivals /\ arrivals' = arrivals + 1
       \/ Unending /\ arrivals = MaxArrivals /\ arrivals' = 1
    /\ IF running = "on" /\ rx_owner[rx_dma] = "dma"
       THEN /\ rx_buff' = [rx_buff EXCEPT ![rx_dma] = arrivals']
            /\ rx_owner' = [rx_owner EXCEPT ![rx_dma] = "cpu"]
            /\ rx_dma' = RxNext(rx_dma)
       ELSE UNCHANGED <<rx_buff, rx_owner, rx_dma>>
    /\ UNCHANGED <<rx_currdescnum, txVars, pollVars, running, command, starts>>

FrameLeaves ==
    /\ running = "on" /\ tx_owner[tx_dma] = "dma"
    /\ wire' = Append(wire, [data |-> tx_buff[tx_dma], length |-> tx_cntl[tx_dma]])
    /\ tx_owner' = [tx_owner EXCEPT ![tx_dma] = "cpu"]
    /\ tx_dma' = TxNext(tx_dma)
    /\ UNCHANGED <<tx_cntl, tx_buff, tx_currdescnum, accepted, rxVars, pollVars, running,
                   command, arrivals, starts>>

-----------------------------------------------------------------------------
(* The driver.                                                             *)

\* Mutant: a restart does not take the driver back to descriptor 0.
rx_descs_init_keeps ==
    /\ rx_owner' = [n \in RxRing |-> "dma"] /\ rx_dma' = 0
    /\ UNCHANGED <<rx_buff, rx_currdescnum>>

rx_descs_init ==
    /\ rx_owner' = [n \in RxRing |-> "dma"] /\ rx_dma' = 0 /\ rx_currdescnum' = 0
    /\ UNCHANGED rx_buff

\* Mutant: a restart does not take the driver back to descriptor 0.
tx_descs_init_keeps ==
    /\ tx_owner' = [n \in TxRing |-> "cpu"] /\ tx_cntl' = [n \in TxRing |-> {}]
    /\ tx_dma' = 0 /\ accepted' = <<>> /\ wire' = <<>>
    /\ UNCHANGED <<tx_buff, tx_currdescnum>>

tx_descs_init ==
    /\ tx_owner' = [n \in TxRing |-> "cpu"] /\ tx_cntl' = [n \in TxRing |-> {}]
    /\ tx_dma' = 0 /\ tx_currdescnum' = 0
    /\ accepted' = <<>> /\ wire' = <<>> /\ UNCHANGED tx_buff

\* _dw_eth_init() after _dw_eth_halt(): the reset of the DMA engine may time out
\* before the rings are set up, and the PHY may have no link after that.
_dw_eth_init ==
    /\ starts < MaxStarts /\ starts' = starts + 1
    /\ \/ running' = "off" /\ UNCHANGED <<rxVars, txVars>>
       \/ running' \in {"on", "off"} /\ rx_descs_init /\ tx_descs_init

\* Mutant: the owner of the descriptor is not looked at.
_dw_eth_send_unchecked(data, length) ==
    /\ tx_buff' = [tx_buff EXCEPT ![tx_currdescnum] = data]
    /\ tx_cntl' = [tx_cntl EXCEPT ![tx_currdescnum] = @ \cup length]
    /\ tx_owner' = [tx_owner EXCEPT ![tx_currdescnum] = "dma"]
    /\ tx_currdescnum' = TxNext(tx_currdescnum)
    /\ accepted' = Append(accepted, [data |-> data, length |-> length])
    /\ UNCHANGED <<tx_dma, wire>>

\* _dw_eth_send(): the length is or-ed into the descriptor.
_dw_eth_send(data, length) ==
    IF tx_owner[tx_currdescnum] = "dma"
    THEN UNCHANGED txVars
    ELSE /\ tx_buff' = [tx_buff EXCEPT ![tx_currdescnum] = data]
         /\ tx_cntl' = [tx_cntl EXCEPT ![tx_currdescnum] = @ \cup length]
         /\ tx_owner' = [tx_owner EXCEPT ![tx_currdescnum] = "dma"]
         /\ tx_currdescnum' = TxNext(tx_currdescnum)
         /\ accepted' = Append(accepted, [data |-> data, length |-> length])
         /\ UNCHANGED <<tx_dma, wire>>

\* Mutant: the driver does not move on to the next descriptor.
_dw_free_pkt_stays ==
    /\ rx_owner' = [rx_owner EXCEPT ![rx_currdescnum] = "dma"]
    /\ UNCHANGED <<rx_buff, rx_dma, rx_currdescnum>>

\* _dw_free_pkt(): "Make the current descriptor valid again and go to the next one".
_dw_free_pkt ==
    /\ rx_owner' = [rx_owner EXCEPT ![rx_currdescnum] = "dma"]
    /\ rx_currdescnum' = RxNext(rx_currdescnum)
    /\ UNCHANGED <<rx_buff, rx_dma>>

-----------------------------------------------------------------------------
(* eth_rx(): up to RX_BATCH packets at one time.                           *)

EthRx ==
    /\ command = "open" /\ pc = "idle" /\ pc' = "recv" /\ batch' = 0
    /\ UNCHANGED <<packet, delivered, rxVars, txVars, running, command, arrivals, starts>>

\* Mutant: the descriptor is given back before the packet is processed.
RecvFrees ==
    /\ pc = "recv"
    /\ IF rx_owner[rx_currdescnum] = "dma"
       THEN pc' = "idle" /\ UNCHANGED <<packet, rx_owner>>
       ELSE /\ packet' = rx_buff[rx_currdescnum]
            /\ rx_owner' = [rx_owner EXCEPT ![rx_currdescnum] = "dma"]
            /\ pc' = IF packet' \in EmptyFrames THEN "free_last" ELSE "process"
    /\ UNCHANGED <<batch, delivered, rx_buff, rx_currdescnum, rx_dma, txVars, running, command,
                   arrivals, starts>>

\* _dw_eth_recv(), and the test of its result.
Recv ==
    /\ pc = "recv"
    /\ IF rx_owner[rx_currdescnum] = "dma"
       THEN pc' = "idle" /\ UNCHANGED packet
       ELSE /\ packet' = rx_buff[rx_currdescnum]
            /\ pc' = IF packet' \in EmptyFrames THEN "free_last" ELSE "process"
    /\ UNCHANGED <<batch, delivered, rxVars, txVars, running, command, arrivals, starts>>

\* net_process_received_packet(): a packet handler may send (see Send), and then
\* return, stop the interface, or restart it (net_start_again).
Process ==
    /\ pc = "process" /\ pc' = "free" /\ delivered' = packet
    /\ \/ UNCHANGED <<rxVars, txVars, running, starts>>
       \/ running' = "off" /\ UNCHANGED <<rxVars, txVars, starts>>
       \/ NetRetry /\ _dw_eth_init
    /\ UNCHANGED <<batch, packet, command, arrivals>>

\* Mutant: a frame of length 0 is not given back.
FreeNotLast ==
    /\ pc \in {"free", "free_last"}
    /\ IF pc = "free" THEN _dw_free_pkt ELSE UNCHANGED rxVars
    /\ batch' = batch + 1
    /\ pc' = IF pc = "free_last" \/ batch' = RX_BATCH THEN "idle" ELSE "recv"
    /\ UNCHANGED <<packet, delivered, txVars, running, command, arrivals, starts>>

\* Mutant: the driver's free_pkt is not called.
FreeForgotten ==
    /\ pc \in {"free", "free_last"}
    /\ batch' = batch + 1
    /\ pc' = IF pc = "free_last" \/ batch' = RX_BATCH THEN "idle" ELSE "recv"
    /\ UNCHANGED <<packet, delivered, rxVars, txVars, running, command, arrivals, starts>>

\* Mutant: the batch has no limit.
FreeUnbounded ==
    /\ pc \in {"free", "free_last"}
    /\ _dw_free_pkt
    /\ pc' = IF pc = "free_last" THEN "idle" ELSE "recv"
    /\ UNCHANGED <<batch, packet, delivered, txVars, running, command, arrivals, starts>>

Free ==
    /\ pc \in {"free", "free_last"}
    /\ _dw_free_pkt
    /\ batch' = batch + 1
    /\ pc' = IF pc = "free_last" \/ batch' = RX_BATCH THEN "idle" ELSE "recv"
    /\ UNCHANGED <<packet, delivered, txVars, running, command, arrivals, starts>>

-----------------------------------------------------------------------------
(* What net_loop and its handlers do besides.                              *)

Send ==
    /\ \/ command = "open" /\ pc = "idle"
       \/ pc = "process"
    /\ Len(accepted) < MaxSends
    /\ \E length \in Lengths : _dw_eth_send(Len(accepted) + 1, length)
    /\ UNCHANGED <<rxVars, pollVars, running, command, arrivals, starts>>

\* A command begins, unless the interface does not start.
Begin ==
    /\ command = "none" /\ _dw_eth_init
    /\ command' = IF running' = "on" THEN "open" ELSE "none"
    /\ UNCHANGED <<pollVars, arrivals>>

\* A timeout handler starts again; a start that fails is not looked at.
StartAgain ==
    /\ NetRetry /\ command = "open" /\ pc = "idle" /\ _dw_eth_init
    /\ UNCHANGED <<pollVars, command, arrivals>>

\* A command ends: eth_halt().
End ==
    /\ command = "open" /\ pc = "idle" /\ command' = "none" /\ running' = "off"
    /\ UNCHANGED <<rxVars, txVars, pollVars, arrivals, starts>>

\* dm_eth memory is allocated zeroed: every descriptor belongs to the CPU, of no use
\* before the first start.
Init ==
    /\ rx_owner = [n \in RxRing |-> "cpu"] /\ rx_buff = [n \in RxRing |-> 0]
    /\ rx_currdescnum = 0 /\ rx_dma = 0
    /\ tx_owner = [n \in TxRing |-> "cpu"] /\ tx_cntl = [n \in TxRing |-> {}]
    /\ tx_buff = [n \in TxRing |-> 0] /\ tx_currdescnum = 0 /\ tx_dma = 0
    /\ running = "off" /\ command = "none"
    /\ pc = "idle" /\ batch = 0 /\ packet = 0
    /\ arrivals = 0 /\ starts = 0 /\ delivered = 0
    /\ accepted = <<>> /\ wire = <<>>

Driver == EthRx \/ Recv \/ Process \/ Free

Next ==
    \/ FrameArrives \/ FrameLeaves \/ Driver
    \/ Send \/ Begin \/ StartAgain \/ End

Spec == Init /\ [][Next]_vars

\* net_loop polls without end while a command runs, a handler returns, and the
\* hardware transmits what it has been given.
FairSpec == Spec /\ WF_vars(Driver) /\ WF_vars(FrameLeaves)

-----------------------------------------------------------------------------
Frames == 0 .. MaxArrivals
Queued == [data : 0 .. MaxSends, length : {{}} \cup SUBSET UNION Lengths]

\* Every variable keeps its type: in particular the two ring positions the driver
\* keeps stay within the rings, and eth_rx within its batch.
TypeOK ==
    /\ rx_owner \in [RxRing -> {"cpu", "dma"}] /\ rx_buff \in [RxRing -> Frames]
    /\ rx_currdescnum \in RxRing /\ rx_dma \in RxRing
    /\ tx_owner \in [TxRing -> {"cpu", "dma"}] /\ tx_cntl \in [TxRing -> SUBSET UNION Lengths]
    /\ tx_buff \in [TxRing -> 0 .. MaxSends]
    /\ tx_currdescnum \in TxRing /\ tx_dma \in TxRing
    /\ running \in {"on", "off"} /\ command \in {"none", "open"}
    /\ pc \in {"idle", "recv", "process", "free", "free_last"}
    /\ batch \in 0 .. RX_BATCH /\ packet \in Frames /\ delivered \in Frames
    /\ arrivals \in Frames /\ starts \in 0 .. MaxStarts
    /\ accepted \in Seq(Queued) /\ wire \in Seq(Queued)

\* recv: "Check if the hardware received a packet. If so, set the pointer to the
\* packet buffer": when _dw_eth_recv looks at a descriptor of the DMA engine and
\* reports an empty ring, no descriptor holds a frame.
RecvSeesFrames ==
    running = "on" /\ pc = "recv" /\ rx_owner[rx_currdescnum] = "dma" =>
        \A n \in RxRing : rx_owner[n] = "dma"

\* A packet stays in its buffer until it has been processed: the DMA engine cannot
\* write over the frame a handler is reading.
PacketStays ==
    pc = "process" => rx_buff[rx_currdescnum] = packet /\ rx_owner[rx_currdescnum] = "cpu"

\* Frames reach the network stack in the order they arrived, each once, over any
\* number of stops and starts of the interface: whenever eth_rx hands a packet to
\* net_process_received_packet, it arrived after the one handed over before.
DeliversInOrder == [][pc = "process" /\ pc' = "free" => delivered' > delivered]_vars

\* The DMA engine finds no descriptor for a frame only when the whole ring is
\* full of frames the program has not taken.
DropsOnlyWhenFull ==
    running = "on" /\ rx_owner[rx_dma] = "cpu" => \A n \in RxRing : rx_owner[n] = "cpu"

\* A frame in the ring is taken out of it, empty frames included, unless the
\* interface is stopped first.
FrameIsTaken ==
    \A n \in RxRing : rx_owner[n] = "cpu" ~> rx_owner[n] = "dma" \/ running = "off"

\* eth_rx returns to net_loop, which then looks at its timeouts and at the
\* console, even if packets come in as fast as it takes them.
EthRxReturns == pc # "idle" ~> pc = "idle"

\* Frames leave in the order eth_send took them, none twice and none lost, with
\* all their bytes, while the ring wraps and the interface restarts.
SendsInOrder ==
    /\ Len(wire) <= Len(accepted)
    /\ \A i \in DOMAIN wire : /\ wire[i].data = accepted[i].data
                              /\ accepted[i].length \subseteq wire[i].length

\* send: "Send the bytes passed in "packet" as a packet on the wire": a frame is
\* as long on the wire as the caller said.
SendsTheBytesPassed == \A i \in DOMAIN wire : wire[i].length = accepted[i].length

\* eth_send refuses a frame only when every transmit descriptor is waiting for
\* the DMA engine.
RefusesOnlyWhenFull ==
    tx_owner[tx_currdescnum] = "dma" => \A n \in TxRing : tx_owner[n] = "dma"

\* A frame eth_send has taken leaves, unless the interface is stopped first.
TakenIsSent ==
    \A k \in 1 .. MaxSends : Len(accepted) = k ~> Len(wire) >= k \/ running = "off" \/ Len(accepted) < k
=============================================================================
