---------------------------- MODULE DwEthProofs ----------------------------
(***************************************************************************)
(* Proofs about the descriptor rings, for rings of every size and any      *)
(* number of frames and starts of the interface.                           *)
(***************************************************************************)
EXTENDS DwEth, TLAPS

-----------------------------------------------------------------------------
(* Distances on a ring                                                     *)

\* how far index n is from index lo on a ring of `size' descriptors
Ahead(size, lo, n) == IF n >= lo THEN n - lo ELSE n - lo + size

After(size, n) == IF n + 1 >= size THEN 0 ELSE n + 1

\* Distances are below the size, and 0 for the index itself.
LEMMA AheadFacts ==
    ASSUME NEW size \in Nat \ {0}, NEW lo \in 0 .. size - 1
    PROVE  \A n \in 0 .. size - 1 :
               Ahead(size, lo, n) \in 0 .. size - 1 /\ (Ahead(size, lo, n) = 0 <=> n = lo)
BY DEF Ahead

\* One step on brings every index one nearer, but the one left behind.
LEMMA AheadAfter ==
    ASSUME NEW size \in Nat \ {0}, NEW lo \in 0 .. size - 1
    PROVE  /\ After(size, lo) \in 0 .. size - 1
           /\ Ahead(size, After(size, lo), lo) = size - 1
           /\ \A n \in 0 .. size - 1 :
                  /\ n # lo => Ahead(size, After(size, lo), n) = Ahead(size, lo, n) - 1
                  /\ Ahead(size, lo, After(size, n)) =
                       IF Ahead(size, lo, n) = size - 1 THEN 0 ELSE Ahead(size, lo, n) + 1
BY DEF Ahead, After

\* Indices of the ring from lo on, k of them, of which hi is the next
Span(size, held, lo, hi, k) ==
    /\ k \in 0 .. size
    /\ held = {n \in 0 .. size - 1 : Ahead(size, lo, n) < k}
    /\ Ahead(size, lo, hi) = IF k = size THEN 0 ELSE k

\* The producer adds the index at its position.
LEMMA SpanGrows ==
    ASSUME NEW size \in Nat \ {0}, NEW lo \in 0 .. size - 1, NEW hi \in 0 .. size - 1,
           NEW held, NEW k, Span(size, held, lo, hi, k), hi \notin held
    PROVE  k < size /\ Span(size, held \cup {hi}, lo, After(size, hi), k + 1)
<1>0. ~ Ahead(size, lo, hi) < k
    BY DEF Span
<1>1. k \in 0 .. size /\ k < size
    BY <1>0, AheadFacts DEF Span
<1>2. Ahead(size, lo, hi) = k
    BY <1>1 DEF Span
<1>3. \A n \in 0 .. size - 1 : Ahead(size, lo, n) < k + 1 <=> Ahead(size, lo, n) < k \/ n = hi
    <2> TAKE n \in 0 .. size - 1
    <2>1. Ahead(size, lo, n) \in 0 .. size - 1 /\ (Ahead(size, lo, n) = Ahead(size, lo, hi) => n = hi)
        BY DEF Ahead
    <2>2. QED BY <1>1, <1>2, <2>1
<1>4. Ahead(size, lo, After(size, hi)) = IF k + 1 = size THEN 0 ELSE k + 1
    BY <1>1, <1>2, AheadAfter
<1>5. QED BY <1>1, <1>3, <1>4 DEF Span

\* The consumer takes the index at its position away.
LEMMA SpanShrinks ==
    ASSUME NEW size \in Nat \ {0}, NEW lo \in 0 .. size - 1, NEW hi \in 0 .. size - 1,
           NEW held, NEW k, Span(size, held, lo, hi, k), lo \in held
    PROVE  k > 0 /\ Span(size, held \ {lo}, After(size, lo), hi, k - 1)
<1>0. Ahead(size, lo, lo) < k
    BY DEF Span
<1>1. k \in 0 .. size /\ k > 0
    BY <1>0, AheadFacts DEF Span
<1>2. \A n \in 0 .. size - 1 : Ahead(size, After(size, lo), n) < k - 1 <=> Ahead(size, lo, n) < k /\ n # lo
    <2> TAKE n \in 0 .. size - 1
    <2>1. CASE n = lo
        BY <1>1, <2>1, AheadAfter
    <2>2. CASE n # lo
        <3>1. Ahead(size, After(size, lo), n) = Ahead(size, lo, n) - 1
            BY <2>2, AheadAfter
        <3>2. Ahead(size, lo, n) \in 0 .. size - 1
            BY AheadFacts, Zenon
        <3>3. QED BY <1>1, <2>2, <3>1, <3>2
    <2>3. QED BY <2>1, <2>2
<1>3. Ahead(size, After(size, lo), hi) = IF k - 1 = size THEN 0 ELSE k - 1
    <2>1. CASE k = size
        <3>1. hi = lo
            BY <2>1, AheadFacts DEF Span
        <3>2. QED BY <2>1, <3>1, AheadAfter
    <2>2. CASE k # size
        <3>1. Ahead(size, lo, hi) = k /\ hi # lo
            BY <1>1, <2>2, AheadFacts DEF Span
        <3>2. QED BY <1>1, <2>2, <3>1, AheadAfter
    <2>3. QED BY <2>1, <2>2
<1>4. QED BY <1>1, <1>2, <1>3 DEF Span

\* If the consumer's index is not held none is; if the producer's is, all are.
LEMMA SpanEnds ==
    ASSUME NEW size \in Nat \ {0}, NEW lo \in 0 .. size - 1, NEW hi \in 0 .. size - 1,
           NEW held, NEW k, Span(size, held, lo, hi, k)
    PROVE  /\ held \subseteq 0 .. size - 1
           /\ lo \notin held => held = {}
           /\ hi \in held => held = 0 .. size - 1
<1>1. k \in 0 .. size
    BY DEF Span
<1>2. \A n \in 0 .. size - 1 : n \in held <=> Ahead(size, lo, n) < k
    BY DEF Span
<1>3. lo \notin held => k = 0
    BY <1>1, <1>2, AheadFacts
<1>4. hi \in held => k = size
    BY <1>1, <1>2, AheadFacts DEF Span
<1>5. held \subseteq 0 .. size - 1
    BY DEF Span
<1>6. \A n \in 0 .. size - 1 : Ahead(size, lo, n) \in 0 .. size - 1
    BY AheadFacts, Zenon
<1>7. lo \notin held => held = {}
    BY <1>2, <1>3, <1>5, <1>6
<1>8. ASSUME hi \in held PROVE held = 0 .. size - 1
    <2>1. \A n \in 0 .. size - 1 : Ahead(size, lo, n) < k
        BY <1>4, <1>6, <1>8
    <2>2. QED BY <1>2, <1>5, <2>1, Zenon
<1>9. QED BY <1>5, <1>7, <1>8

-----------------------------------------------------------------------------
(* Types                                                                   *)

\* eth_rx has room in its batch as long as it is at work
TInv == /\ TypeOK
        /\ pc # "idle" => batch < RX_BATCH
        /\ Len(accepted) <= MaxSends

\* The position after one on the ring is on the ring.
LEMMA NextFacts == /\ \A n \in RxRing : RxNext(n) = After(CONFIG_RX_DESCR_NUM, n) /\ RxNext(n) \in RxRing
                   /\ \A n \in TxRing : TxNext(n) = After(CONFIG_TX_DESCR_NUM, n) /\ TxNext(n) \in TxRing
                   /\ 0 \in RxRing /\ 0 \in TxRing
BY DwEthAssumption DEF DwEthAssumption, RxNext, TxNext, RxRing, TxRing, After

\* The types hold at first.
LEMMA InitTInv == Init => TInv
<1>1. 0 \in RxRing /\ 0 \in TxRing
    BY NextFacts
<1>2. QED BY <1>1, DwEthAssumption DEF DwEthAssumption, Init, TInv, TypeOK, Frames

\* A start of the interface keeps the types of the rings.
LEMMA StartTypes ==
    ASSUME TInv, _dw_eth_init
    PROVE  /\ rx_owner' \in [RxRing -> {"cpu", "dma"}] /\ rx_buff' \in [RxRing -> Frames]
           /\ rx_currdescnum' \in RxRing /\ rx_dma' \in RxRing
           /\ tx_owner' \in [TxRing -> {"cpu", "dma"}] /\ tx_cntl' \in [TxRing -> SUBSET UNION Lengths]
           /\ tx_buff' \in [TxRing -> 0 .. MaxSends]
           /\ tx_currdescnum' \in TxRing /\ tx_dma' \in TxRing
           /\ running' \in {"on", "off"} /\ starts' \in 0 .. MaxStarts
           /\ accepted' \in Seq(Queued) /\ wire' \in Seq(Queued) /\ Len(accepted') <= MaxSends
<1>1. starts' \in 0 .. MaxStarts /\ running' \in {"on", "off"}
    BY DwEthAssumption DEF DwEthAssumption, TInv, TypeOK, _dw_eth_init
<1>2. CASE UNCHANGED <<rxVars, txVars>>
    BY <1>1, <1>2 DEF TInv, TypeOK, rxVars, txVars
<1>3. CASE rx_descs_init /\ tx_descs_init
    BY <1>1, <1>3, NextFacts, DwEthAssumption DEF DwEthAssumption, TInv, TypeOK, rx_descs_init, tx_descs_init
<1>4. QED BY <1>2, <1>3 DEF _dw_eth_init

\* Every step keeps the types.
LEMMA NextTInv == TInv /\ [Next]_vars => TInv'
<1> SUFFICES ASSUME TInv, [Next]_vars PROVE TInv'
    OBVIOUS
<1> USE DwEthAssumption DEF DwEthAssumption
<1>1. CASE FrameArrives
    <2>1. arrivals' \in Frames
        BY <1>1 DEF TInv, TypeOK, FrameArrives, Frames
    <2>2. CASE running = "on" /\ rx_owner[rx_dma] = "dma"
        BY <1>1, <2>1, <2>2, NextFacts, ZenonT(40) DEF TInv, TypeOK, FrameArrives, txVars, pollVars
    <2>3. CASE ~ (running = "on" /\ rx_owner[rx_dma] = "dma")
        BY <1>1, <2>1, <2>3 DEF TInv, TypeOK, FrameArrives, txVars, pollVars
    <2>4. QED BY <2>2, <2>3
<1>2. CASE FrameLeaves
    <2>1. [data |-> tx_buff[tx_dma], length |-> tx_cntl[tx_dma]] \in Queued
        BY DEF TInv, TypeOK, Queued
    <2>2. wire' \in Seq(Queued)
        BY <1>2, <2>1 DEF TInv, TypeOK, FrameLeaves
    <2>3. QED BY <1>2, <2>2, NextFacts DEF TInv, TypeOK, FrameLeaves, rxVars, pollVars
<1>3. CASE EthRx
    BY <1>3 DEF TInv, TypeOK, EthRx, rxVars, txVars
<1>4. CASE Recv
    BY <1>4 DEF TInv, TypeOK, Recv, rxVars, txVars
<1>5. CASE Process
    <2>1. CASE _dw_eth_init
        BY <1>5, <2>1, StartTypes, Zenon DEF TInv, TypeOK, Process
    <2>2. CASE UNCHANGED <<rxVars, txVars, starts>> /\ running' \in {running, "off"}
        BY <1>5, <2>2 DEF TInv, TypeOK, Process, rxVars, txVars
    <2>3. QED BY <1>5, <2>1, <2>2 DEF Process
<1>6. CASE Free
    BY <1>6, NextFacts DEF TInv, TypeOK, Free, _dw_free_pkt, txVars
<1>7. CASE Send
    <2>1. PICK length \in Lengths : _dw_eth_send(Len(accepted) + 1, length)
        BY <1>7 DEF Send
    <2>2. Len(accepted) \in Nat /\ Len(accepted) + 1 \in 0 .. MaxSends
        BY <1>7 DEF Send, TInv, TypeOK
    <2>3. CASE tx_owner[tx_currdescnum] = "dma"
        BY <1>7, <2>1, <2>3 DEF Send, _dw_eth_send, TInv, TypeOK, txVars, rxVars, pollVars
    <2>4. CASE tx_owner[tx_currdescnum] # "dma"
        <3> DEFINE frame == [data |-> Len(accepted) + 1, length |-> length]
        <3>0. /\ tx_buff' = [tx_buff EXCEPT ![tx_currdescnum] = Len(accepted) + 1]
              /\ tx_cntl' = [tx_cntl EXCEPT ![tx_currdescnum] = @ \cup length]
              /\ tx_owner' = [tx_owner EXCEPT ![tx_currdescnum] = "dma"]
              /\ tx_currdescnum' = TxNext(tx_currdescnum)
              /\ accepted' = Append(accepted, frame)
              /\ UNCHANGED <<tx_dma, wire>>
            BY <2>1, <2>4, Zenon DEF _dw_eth_send
        <3>1. length \in SUBSET UNION Lengths
            OBVIOUS
        <3>2. frame \in Queued
            BY <2>2, <3>1 DEF Queued
        <3> HIDE DEF frame
        <3>3. accepted' \in Seq(Queued) /\ Len(accepted') = Len(accepted) + 1
            BY <3>0, <3>2 DEF TInv, TypeOK
        <3>4. tx_cntl' \in [TxRing -> SUBSET UNION Lengths]
            BY <3>0, <3>1 DEF TInv, TypeOK
        <3>5. QED
            BY <1>7, <2>2, <3>0, <3>3, <3>4, NextFacts DEF Send, TInv, TypeOK, rxVars, pollVars
    <2>5. QED BY <2>3, <2>4
<1>8. CASE Begin
    BY <1>8, StartTypes, SMTT(40) DEF TInv, TypeOK, Begin, pollVars
<1>9. CASE StartAgain
    BY <1>9, StartTypes, SMTT(40) DEF TInv, TypeOK, StartAgain, pollVars
<1>10. CASE End
    BY <1>10 DEF TInv, TypeOK, End, rxVars, txVars, pollVars
<1>11. CASE UNCHANGED vars
    BY <1>11 DEF TInv, TypeOK, vars, rxVars, txVars, pollVars
<1>12. QED
    BY <1>1, <1>2, <1>3, <1>4, <1>5, <1>6, <1>7, <1>8, <1>9, <1>10, <1>11 DEF Next, Driver

\* The driver never leaves its rings, and eth_rx keeps to its batch, for
\* rings and batches of every size.
THEOREM TypeCorrect == Spec => []TypeOK
<1>1. TInv => TypeOK
    BY DEF TInv
<1>2. QED BY <1>1, InitTInv, NextTInv, PTL DEF Spec

-----------------------------------------------------------------------------
(* Transmitting                                                            *)

\* The k descriptors from dma on hold the last k frames taken, in order
Holding(size, buff, cntl, dma, taken, gone, k) ==
    /\ Len(taken) = Len(gone) + k
    /\ \A n \in 0 .. size - 1 :
           Ahead(size, dma, n) < k =>
               /\ buff[n] = taken[Len(gone) + 1 + Ahead(size, dma, n)].data
               /\ taken[Len(gone) + 1 + Ahead(size, dma, n)].length \subseteq cntl[n]

InOrder(taken, gone) ==
    /\ Len(gone) <= Len(taken)
    /\ \A i \in DOMAIN gone : /\ gone[i].data = taken[i].data
                              /\ taken[i].length \subseteq gone[i].length

\* eth_send puts a frame behind those that wait.
LEMMA HoldingGrows ==
    ASSUME NEW size \in Nat \ {0}, NEW k \in 0 .. size - 1, NEW S,
           NEW buff, NEW cntl, NEW dma \in 0 .. size - 1, NEW curr \in 0 .. size - 1,
           DOMAIN buff = 0 .. size - 1, DOMAIN cntl = 0 .. size - 1,
           NEW taken \in Seq(S), NEW gone \in Seq(S), NEW frame \in S,
           Ahead(size, dma, curr) = k,
           Holding(size, buff, cntl, dma, taken, gone, k), InOrder(taken, gone)
    PROVE  /\ Holding(size, [buff EXCEPT ![curr] = frame.data],
                       [cntl EXCEPT ![curr] = @ \cup frame.length], dma,
                       Append(taken, frame), gone, k + 1)
           /\ InOrder(Append(taken, frame), gone)
<1> DEFINE next == Append(taken, frame)
<1>1. next \in Seq(S) /\ Len(next) = Len(taken) + 1 /\ Len(taken) \in Nat /\ Len(gone) \in Nat
    OBVIOUS
<1>2. next[Len(taken) + 1] = frame /\ \A i \in 1 .. Len(taken) : next[i] = taken[i]
    OBVIOUS
<1> HIDE DEF next
<1>3. Len(taken) = Len(gone) + k
    BY DEF Holding
<1>4. ASSUME NEW n \in 0 .. size - 1, Ahead(size, dma, n) < k + 1
      PROVE  /\ [buff EXCEPT ![curr] = frame.data][n] = next[Len(gone) + 1 + Ahead(size, dma, n)].data
             /\ next[Len(gone) + 1 + Ahead(size, dma, n)].length
                    \subseteq [cntl EXCEPT ![curr] = @ \cup frame.length][n]
    <2>1. Ahead(size, dma, n) \in 0 .. size - 1 /\ (Ahead(size, dma, n) = Ahead(size, dma, curr) => n = curr)
        BY DEF Ahead
    <2>2. CASE n = curr
        <3>1. Len(gone) + 1 + Ahead(size, dma, n) = Len(taken) + 1
            BY <1>1, <1>3, <2>2
        <3>2. QED BY <1>2, <2>2, <3>1
    <2>3. CASE n # curr
        <3>1. Ahead(size, dma, n) < k
            BY <1>4, <2>1, <2>3
        <3>2. Len(gone) + 1 + Ahead(size, dma, n) \in 1 .. Len(taken)
            BY <1>1, <1>3, <2>1, <3>1
        <3>3. next[Len(gone) + 1 + Ahead(size, dma, n)] = taken[Len(gone) + 1 + Ahead(size, dma, n)]
            BY <1>2, <3>2
        <3>4. /\ buff[n] = taken[Len(gone) + 1 + Ahead(size, dma, n)].data
              /\ taken[Len(gone) + 1 + Ahead(size, dma, n)].length \subseteq cntl[n]
            BY <3>1 DEF Holding
        <3>5. QED BY <2>3, <3>3, <3>4
    <2>4. QED BY <2>2, <2>3
<1>5. Holding(size, [buff EXCEPT ![curr] = frame.data], [cntl EXCEPT ![curr] = @ \cup frame.length], dma,
              next, gone, k + 1)
    <2>1. Len(next) = Len(gone) + (k + 1)
        BY <1>1, <1>3
    <2>2. QED BY <1>4, <2>1, Zenon DEF Holding
<1>6. InOrder(next, gone)
    <2>1. Len(gone) <= Len(next)
        BY <1>1, <1>3
    <2>2. \A i \in DOMAIN gone : i \in 1 .. Len(taken)
        BY <1>1, <1>3
    <2>3. QED BY <1>2, <2>1, <2>2, Zenon DEF InOrder
<1>7. QED BY <1>5, <1>6 DEF next

\* The DMA engine takes the first of them away.
LEMMA HoldingShrinks ==
    ASSUME NEW size \in Nat \ {0}, NEW k \in 1 .. size, NEW S,
           NEW buff, NEW cntl, NEW dma \in 0 .. size - 1,
           NEW taken \in Seq(S), NEW gone \in Seq(S), NEW frame \in S,
           frame.data = buff[dma], frame.length = cntl[dma],
           Holding(size, buff, cntl, dma, taken, gone, k), InOrder(taken, gone)
    PROVE  /\ Holding(size, buff, cntl, After(size, dma), taken, Append(gone, frame), k - 1)
           /\ InOrder(taken, Append(gone, frame))
<1> DEFINE next == Append(gone, frame)
<1>1. next \in Seq(S) /\ Len(next) = Len(gone) + 1 /\ Len(taken) \in Nat /\ Len(gone) \in Nat
    OBVIOUS
<1>2. next[Len(gone) + 1] = frame /\ (\A i \in 1 .. Len(gone) : next[i] = gone[i]) /\ DOMAIN next = 1 .. Len(gone) + 1
    OBVIOUS
<1> HIDE DEF next
<1>3. Len(taken) = Len(gone) + k
    BY DEF Holding
<1>4. ASSUME NEW n \in 0 .. size - 1, Ahead(size, After(size, dma), n) < k - 1
      PROVE  /\ buff[n] = taken[Len(next) + 1 + Ahead(size, After(size, dma), n)].data
             /\ taken[Len(next) + 1 + Ahead(size, After(size, dma), n)].length \subseteq cntl[n]
    <2>1. n # dma
        BY <1>4, AheadAfter
    <2>2. Ahead(size, After(size, dma), n) = Ahead(size, dma, n) - 1
        BY <2>1, AheadAfter
    <2>3. Ahead(size, dma, n) \in 0 .. size - 1
        BY AheadFacts, Zenon
    <2>4. Ahead(size, dma, n) < k /\ Len(next) + 1 + Ahead(size, After(size, dma), n) = Len(gone) + 1 + Ahead(size, dma, n)
        BY <1>1, <1>4, <2>2, <2>3, SMTT(40)
    <2>5. QED BY <2>4 DEF Holding
<1>5. Holding(size, buff, cntl, After(size, dma), taken, next, k - 1)
    <2>1. Len(taken) = Len(next) + (k - 1)
        BY <1>1, <1>3
    <2>2. QED BY <1>4, <2>1, Zenon DEF Holding
<1>6. InOrder(taken, next)
    <2>1. Len(next) <= Len(taken)
        BY <1>1, <1>3
    <2>2. Ahead(size, dma, dma) = 0 /\ Len(gone) + 1 + 0 = Len(gone) + 1
        BY <1>1, AheadFacts
    <2>3. frame.data = taken[Len(gone) + 1].data /\ taken[Len(gone) + 1].length \subseteq frame.length
        BY <2>2 DEF Holding
    <2>4. DOMAIN gone = 1 .. Len(gone)
        OBVIOUS
    <2>5. QED BY <1>1, <1>2, <2>1, <2>3, <2>4, SMTT(40) DEF InOrder
<1>7. QED BY <1>5, <1>6 DEF next

Busy == {n \in TxRing : tx_owner[n] = "dma"}

Waiting(k) ==
    /\ Span(CONFIG_TX_DESCR_NUM, Busy, tx_dma, tx_currdescnum, k)
    /\ Holding(CONFIG_TX_DESCR_NUM, tx_buff, tx_cntl, tx_dma, accepted, wire, k)
    /\ InOrder(accepted, wire)

\* The inductive invariant of the transmit ring: the descriptors of the DMA
\* engine are those from tx_dma up to tx_currdescnum, and hold the frames
\* taken that have not left.
TxInv == \E k \in 0 .. CONFIG_TX_DESCR_NUM : Waiting(k)

TxEmpty == /\ tx_owner = [n \in TxRing |-> "cpu"]
           /\ tx_dma = 0 /\ tx_currdescnum = 0
           /\ accepted = <<>> /\ wire = <<>>

\* An empty ring satisfies the invariant.
LEMMA EmptyTxInv == TxEmpty => TxInv
<1> SUFFICES ASSUME TxEmpty PROVE TxInv
    OBVIOUS
<1> USE DEF TxEmpty
<1>1. Busy = {}
    BY DEF Busy
<1>2. 0 \in 0 .. CONFIG_TX_DESCR_NUM /\ CONFIG_TX_DESCR_NUM # 0 /\ CONFIG_TX_DESCR_NUM \in Nat \ {0} /\ 0 \in 0 .. CONFIG_TX_DESCR_NUM - 1
    BY DwEthAssumption DEF DwEthAssumption
<1>3. \A n \in 0 .. CONFIG_TX_DESCR_NUM - 1 : Ahead(CONFIG_TX_DESCR_NUM, 0, n) \in 0 .. CONFIG_TX_DESCR_NUM - 1
    BY <1>2, AheadFacts
<1>4. \A n \in 0 .. CONFIG_TX_DESCR_NUM - 1 : ~ Ahead(CONFIG_TX_DESCR_NUM, 0, n) < 0
    BY <1>3
<1>5. Ahead(CONFIG_TX_DESCR_NUM, 0, 0) = 0
    BY DEF Ahead
<1>6. Span(CONFIG_TX_DESCR_NUM, Busy, tx_dma, tx_currdescnum, 0)
    BY <1>1, <1>2, <1>4, <1>5 DEF Span
<1>7. Holding(CONFIG_TX_DESCR_NUM, tx_buff, tx_cntl, tx_dma, accepted, wire, 0)
    BY <1>4 DEF Holding
<1>8. InOrder(accepted, wire)
    BY DEF InOrder
<1>9. QED BY <1>2, <1>6, <1>7, <1>8 DEF TxInv, Waiting

\* A start of the interface keeps the invariant, whether it fails or not.
LEMMA StartTxInv == ASSUME TxInv, _dw_eth_init PROVE TxInv'
<1>1. CASE UNCHANGED txVars
    BY <1>1 DEF TxInv, Waiting, Busy, txVars
<1>2. CASE tx_descs_init
    <2>1. TxEmpty'
        BY <1>2 DEF tx_descs_init, TxEmpty
    <2>2. QED BY <2>1, EmptyTxInv, PTL
<1>3. QED BY <1>1, <1>2 DEF _dw_eth_init

\* Every step keeps the invariant.
LEMMA NextTxInv == TInv /\ TxInv /\ [Next]_vars => TxInv'
<1> SUFFICES ASSUME TInv, TxInv, [Next]_vars PROVE TxInv'
    OBVIOUS
<1> DEFINE N == CONFIG_TX_DESCR_NUM
<1>0. N \in Nat \ {0} /\ TxRing = 0 .. N - 1
    BY DwEthAssumption DEF DwEthAssumption, TxRing
<1> HIDE DEF N
<1>1. /\ tx_owner \in [TxRing -> {"cpu", "dma"}] /\ DOMAIN tx_buff = 0 .. N - 1 /\ DOMAIN tx_cntl = 0 .. N - 1
      /\ tx_currdescnum \in 0 .. N - 1 /\ tx_dma \in 0 .. N - 1
      /\ accepted \in Seq(Queued) /\ wire \in Seq(Queued)
    BY <1>0 DEF TInv, TypeOK
<1>2. PICK k \in 0 .. N : Waiting(k)
    BY DEF TxInv, N
<1>3. CASE FrameLeaves
    <2> DEFINE frame == [data |-> tx_buff[tx_dma], length |-> tx_cntl[tx_dma]]
    <2>1. tx_dma \in Busy /\ wire' = Append(wire, frame) /\ tx_dma' = After(N, tx_dma)
        BY <1>0, <1>1, <1>3, NextFacts DEF FrameLeaves, Busy, N
    <2>2. frame \in Queued /\ frame.data = tx_buff[tx_dma] /\ frame.length = tx_cntl[tx_dma]
        BY DEF TInv, TypeOK, Queued
    <2> HIDE DEF frame
    <2>3. Busy' = Busy \ {tx_dma}
        BY <1>1, <1>3 DEF FrameLeaves, Busy
    <2>4. k > 0 /\ Span(N, Busy', tx_dma', tx_currdescnum, k - 1)
        BY <1>0, <1>1, <1>2, <2>1, <2>3, SpanShrinks, Zenon DEF Waiting, N
    <2>5. k \in 1 .. N /\ k - 1 \in 0 .. N
        BY <1>0, <2>4
    <2>6. /\ Holding(N, tx_buff, tx_cntl, tx_dma', accepted, wire', k - 1)
          /\ InOrder(accepted, wire')
        BY <1>0, <1>1, <1>2, <2>1, <2>2, <2>5, HoldingShrinks, Zenon DEF Waiting, N
    <2>7. UNCHANGED <<tx_buff, tx_cntl, tx_currdescnum, accepted>>
        BY <1>3 DEF FrameLeaves
    <2>8. Waiting(k - 1)'
        BY <2>4, <2>6, <2>7 DEF Waiting, N
    <2>9. QED BY <2>5, <2>8 DEF TxInv, N
<1>4. CASE Send
    <2>1. PICK length \in Lengths : _dw_eth_send(Len(accepted) + 1, length)
        BY <1>4 DEF Send
    <2>2. CASE tx_owner[tx_currdescnum] = "dma"
        BY <2>1, <2>2 DEF _dw_eth_send, TxInv, Waiting, Busy, txVars
    <2>3. CASE tx_owner[tx_currdescnum] # "dma"
        <3> DEFINE frame == [data |-> Len(accepted) + 1, length |-> length]
        <3>1. /\ tx_buff' = [tx_buff EXCEPT ![tx_currdescnum] = frame.data]
              /\ tx_cntl' = [tx_cntl EXCEPT ![tx_currdescnum] = @ \cup frame.length]
              /\ tx_owner' = [tx_owner EXCEPT ![tx_currdescnum] = "dma"]
              /\ tx_currdescnum' = TxNext(tx_currdescnum)
              /\ accepted' = Append(accepted, frame)
              /\ UNCHANGED <<tx_dma, wire>>
            BY <2>1, <2>3, Zenon DEF _dw_eth_send
        <3>2. frame \in Queued
            <4>1. Len(accepted) \in Nat /\ Len(accepted) + 1 \in 0 .. MaxSends
                BY <1>4, DwEthAssumption DEF DwEthAssumption, Send, TInv, TypeOK
            <4>2. QED BY <4>1 DEF Queued
        <3> HIDE DEF frame
        <3>3. tx_currdescnum \notin Busy /\ Busy' = Busy \cup {tx_currdescnum} /\ tx_currdescnum' = After(N, tx_currdescnum)
            BY <1>0, <1>1, <2>3, <3>1, NextFacts, Zenon DEF Busy, N
        <3>4. k < N /\ Span(N, Busy', tx_dma, tx_currdescnum', k + 1)
            BY <1>0, <1>1, <1>2, <3>3, SpanGrows, ZenonT(40) DEF Waiting, N
        <3>5. k \in 0 .. N - 1 /\ k + 1 \in 0 .. N
            BY <1>0, <3>4
        <3>6. Ahead(N, tx_dma, tx_currdescnum) = k
            BY <1>0, <1>2, <3>4 DEF Waiting, Span, N
        <3>7. /\ Holding(N, tx_buff', tx_cntl', tx_dma, accepted', wire, k + 1)
              /\ InOrder(accepted', wire)
            BY <1>0, <1>1, <1>2, <3>1, <3>2, <3>5, <3>6, HoldingGrows, Zenon DEF Waiting, N
        <3>8. Waiting(k + 1)'
            BY <3>1, <3>4, <3>7 DEF Waiting, N
        <3>9. QED BY <3>5, <3>8 DEF TxInv, N
    <2>4. QED BY <2>2, <2>3
<1>5. CASE _dw_eth_init
    BY <1>5, StartTxInv
<1>6. CASE UNCHANGED txVars
    BY <1>6 DEF TxInv, Waiting, Busy, txVars
<1>7. QED
    BY <1>3, <1>4, <1>5, <1>6
    DEF Next, Driver, FrameArrives, EthRx, Recv, Process, Free, Begin, StartAgain, End, vars

\* Frames leave in the order eth_send took them, none lost or sent twice, with
\* all their bytes, for rings of every size and over all restarts.
THEOREM FramesLeaveInOrder == Spec => []SendsInOrder
<1>1. Init => TxInv
    BY EmptyTxInv DEF Init, TxEmpty
<1>2. TxInv => SendsInOrder
    BY DEF TxInv, Waiting, InOrder, SendsInOrder
<1>3. QED BY <1>1, <1>2, InitTInv, NextTInv, NextTxInv, PTL DEF Spec

\* eth_send refuses a frame only when the whole ring waits.
THEOREM RefusedOnlyWhenFull == Spec => []RefusesOnlyWhenFull
<1>1. Init => TxInv
    BY EmptyTxInv DEF Init, TxEmpty
<1>2. TInv /\ TxInv => RefusesOnlyWhenFull
    <2> SUFFICES ASSUME TInv, TxInv, tx_owner[tx_currdescnum] = "dma"
                 PROVE  \A n \in TxRing : tx_owner[n] = "dma"
        BY DEF RefusesOnlyWhenFull
    <2>1. PICK k : Span(CONFIG_TX_DESCR_NUM, Busy, tx_dma, tx_currdescnum, k)
        BY DEF TxInv, Waiting
    <2>2. tx_currdescnum \in Busy
        BY DEF Busy, TInv, TypeOK
    <2>3. Busy = TxRing
        BY <2>1, <2>2, SpanEnds, DwEthAssumption DEF DwEthAssumption, TInv, TypeOK, TxRing
    <2>4. QED BY <2>3 DEF Busy
<1>3. QED BY <1>1, <1>2, InitTInv, NextTInv, NextTxInv, PTL DEF Spec

-----------------------------------------------------------------------------
(* Receiving                                                               *)

Full == {n \in RxRing : rx_owner[n] = "cpu"}

OneSpan == \E k \in 0 .. CONFIG_RX_DESCR_NUM : Span(CONFIG_RX_DESCR_NUM, Full, rx_currdescnum, rx_dma, k)

\* The inductive invariant of the receive ring: the driver's descriptors are
\* those from rx_currdescnum up to rx_dma, and the packet in hand is in the
\* first of them.
RxInv ==
    /\ OneSpan
    /\ pc \in {"process", "free", "free_last"} => rx_currdescnum \in Full
    /\ pc = "process" => rx_buff[rx_currdescnum] = packet
    /\ pc # "idle" => command = "open"

RxEmpty == rx_owner = [n \in RxRing |-> "dma"] /\ rx_dma = 0 /\ rx_currdescnum = 0

\* An empty ring is one span.
LEMMA EmptySpan == RxEmpty => Full = {} /\ OneSpan
<1> SUFFICES ASSUME RxEmpty PROVE Full = {} /\ OneSpan
    OBVIOUS
<1> USE DEF RxEmpty
<1>1. Full = {}
    BY DEF Full
<1>2. 0 \in 0 .. CONFIG_RX_DESCR_NUM /\ CONFIG_RX_DESCR_NUM # 0 /\ CONFIG_RX_DESCR_NUM \in Nat \ {0} /\ 0 \in 0 .. CONFIG_RX_DESCR_NUM - 1
    BY DwEthAssumption DEF DwEthAssumption
<1>3. \A n \in 0 .. CONFIG_RX_DESCR_NUM - 1 : Ahead(CONFIG_RX_DESCR_NUM, 0, n) \in 0 .. CONFIG_RX_DESCR_NUM - 1
    BY <1>2, AheadFacts
<1>4. \A n \in 0 .. CONFIG_RX_DESCR_NUM - 1 : ~ Ahead(CONFIG_RX_DESCR_NUM, 0, n) < 0
    BY <1>3
<1>5. Ahead(CONFIG_RX_DESCR_NUM, 0, 0) = 0
    BY DEF Ahead
<1>6. Span(CONFIG_RX_DESCR_NUM, Full, rx_currdescnum, rx_dma, 0)
    BY <1>1, <1>2, <1>4, <1>5 DEF Span
<1>7. QED BY <1>1, <1>2, <1>6 DEF OneSpan

\* Before the first start every descriptor is the CPU's, which is one span too.
LEMMA InitRxInv == Init => RxInv
<1> SUFFICES ASSUME Init PROVE RxInv
    OBVIOUS
<1>1. Full = 0 .. CONFIG_RX_DESCR_NUM - 1
    BY DEF Full, Init, RxRing
<1>2. CONFIG_RX_DESCR_NUM \in 0 .. CONFIG_RX_DESCR_NUM /\ CONFIG_RX_DESCR_NUM \in Nat \ {0} /\ 0 \in 0 .. CONFIG_RX_DESCR_NUM - 1
    BY DwEthAssumption DEF DwEthAssumption
<1>3. \A n \in 0 .. CONFIG_RX_DESCR_NUM - 1 : Ahead(CONFIG_RX_DESCR_NUM, 0, n) \in 0 .. CONFIG_RX_DESCR_NUM - 1
    BY <1>2, AheadFacts
<1>4. \A n \in 0 .. CONFIG_RX_DESCR_NUM - 1 : Ahead(CONFIG_RX_DESCR_NUM, 0, n) < CONFIG_RX_DESCR_NUM
    BY <1>2, <1>3
<1>5. Ahead(CONFIG_RX_DESCR_NUM, 0, 0) = 0
    BY DEF Ahead
<1>6. Span(CONFIG_RX_DESCR_NUM, Full, rx_currdescnum, rx_dma, CONFIG_RX_DESCR_NUM)
    BY <1>1, <1>2, <1>4, <1>5 DEF Span, Init
<1>7. QED BY <1>2, <1>6 DEF RxInv, OneSpan, Init

\* Every step keeps the invariant, if no handler restarts the interface.
LEMMA NextRxInv == ~NetRetry /\ TInv /\ RxInv /\ [Next]_vars => RxInv'
<1> SUFFICES ASSUME ~NetRetry, TInv, RxInv, [Next]_vars PROVE RxInv'
    OBVIOUS
<1> DEFINE N == CONFIG_RX_DESCR_NUM
<1>0. N \in Nat \ {0} /\ RxRing = 0 .. N - 1
    BY DwEthAssumption DEF DwEthAssumption, RxRing
<1> HIDE DEF N
<1>1. /\ rx_owner \in [RxRing -> {"cpu", "dma"}] /\ rx_buff \in [RxRing -> Frames]
      /\ rx_currdescnum \in 0 .. N - 1 /\ rx_dma \in 0 .. N - 1
    BY <1>0 DEF TInv, TypeOK
<1>2. PICK k \in 0 .. N : Span(N, Full, rx_currdescnum, rx_dma, k)
    BY DEF RxInv, OneSpan, N
<1>3. CASE FrameArrives
    <2>1. CASE running = "on" /\ rx_owner[rx_dma] = "dma"
        <3>1. /\ rx_dma \notin Full /\ Full' = Full \cup {rx_dma} /\ rx_dma' = After(N, rx_dma)
              /\ rx_buff' = [rx_buff EXCEPT ![rx_dma] = arrivals']
            BY <1>0, <1>1, <1>3, <2>1, NextFacts, ZenonT(40) DEF FrameArrives, Full, N
        <3>2. k < N /\ Span(N, Full', rx_currdescnum, rx_dma', k + 1)
            BY <1>0, <1>1, <1>2, <3>1, SpanGrows, Zenon
        <3>3. k + 1 \in 0 .. N
            BY <1>0, <3>2
        <3>4. UNCHANGED <<rx_currdescnum, pc, packet, command>>
            BY <1>3 DEF FrameArrives, pollVars
        <3>5. rx_currdescnum \in Full => rx_buff'[rx_currdescnum] = rx_buff[rx_currdescnum]
            BY <1>0, <1>1, <3>1
        <3>6. QED BY <3>1, <3>2, <3>3, <3>4, <3>5 DEF RxInv, OneSpan, N
    <2>2. CASE ~ (running = "on" /\ rx_owner[rx_dma] = "dma")
        BY <1>3, <2>2 DEF FrameArrives, RxInv, OneSpan, Full, pollVars
    <2>3. QED BY <2>1, <2>2
<1>4. CASE Free
    <2>1. /\ rx_currdescnum \in Full /\ Full' = Full \ {rx_currdescnum}
          /\ rx_currdescnum' = After(N, rx_currdescnum) /\ UNCHANGED <<rx_dma, command>>
        BY <1>0, <1>1, <1>4, NextFacts, SMTT(40) DEF Free, _dw_free_pkt, RxInv, Full, N
    <2>2. k > 0 /\ Span(N, Full', rx_currdescnum', rx_dma, k - 1)
        BY <1>0, <1>1, <1>2, <2>1, SpanShrinks, SMTT(40)
    <2>3. k - 1 \in 0 .. N
        BY <1>0, <2>2
    <2>4. pc' \in {"idle", "recv"} /\ pc # "idle"
        BY <1>4 DEF Free
    <2>5. QED BY <2>1, <2>2, <2>3, <2>4 DEF RxInv, OneSpan, N
<1>5. CASE Begin
    <2>1. pc = "idle" /\ pc' = "idle"
        BY <1>5 DEF Begin, RxInv, pollVars, TInv, TypeOK
    <2>2. CASE UNCHANGED rxVars
        BY <2>1, <2>2 DEF RxInv, OneSpan, Full, rxVars
    <2>3. CASE rx_descs_init
        <3>1. RxEmpty'
            BY <2>3 DEF rx_descs_init, RxEmpty
        <3>2. OneSpan'
            BY <3>1, EmptySpan, PTL
        <3>3. QED BY <2>1, <3>2 DEF RxInv
    <2>4. QED BY <1>5, <2>2, <2>3 DEF Begin, _dw_eth_init
<1>6. CASE Recv
    BY <1>0, <1>1, <1>6, Zenon DEF Recv, RxInv, OneSpan, Full, rxVars
<1>7. CASE Process
    BY <1>7 DEF Process, RxInv, OneSpan, Full, rxVars
<1>8. CASE EthRx
    BY <1>8 DEF EthRx, RxInv, OneSpan, Full, rxVars
<1>9. CASE End
    BY <1>9 DEF End, RxInv, OneSpan, Full, rxVars, pollVars
<1>10. CASE UNCHANGED <<rxVars, pollVars, command>>
    BY <1>10 DEF RxInv, OneSpan, Full, rxVars, pollVars
<1>11. QED
    BY <1>3, <1>4, <1>5, <1>6, <1>7, <1>8, <1>9, <1>10
    DEF Next, Driver, FrameLeaves, Send, StartAgain, vars

\* The receive ring as the driver and the DMA engine see it.
LEMMA RxFacts == TInv /\ RxInv => RecvSeesFrames /\ PacketStays /\ DropsOnlyWhenFull
<1> SUFFICES ASSUME TInv, RxInv PROVE RecvSeesFrames /\ PacketStays /\ DropsOnlyWhenFull
    OBVIOUS
<1>1. PICK k : Span(CONFIG_RX_DESCR_NUM, Full, rx_currdescnum, rx_dma, k)
    BY DEF RxInv, OneSpan
<1>2. /\ rx_currdescnum \notin Full => Full = {}
      /\ rx_dma \in Full => Full = RxRing
    BY <1>1, SpanEnds, DwEthAssumption DEF DwEthAssumption, TInv, TypeOK, RxRing
<1>3. RecvSeesFrames
    BY <1>2, SMTT(40) DEF RecvSeesFrames, Full, TInv, TypeOK
<1>4. PacketStays
    BY DEF PacketStays, RxInv, Full
<1>5. DropsOnlyWhenFull
    BY <1>2 DEF DropsOnlyWhenFull, Full, TInv, TypeOK
<1>6. QED BY <1>3, <1>4, <1>5

\* If no handler restarts the interface, _dw_eth_recv reports an empty ring
\* only if the ring is empty.
THEOREM FramesAreSeen == ASSUME ~NetRetry PROVE Spec => []RecvSeesFrames
BY InitTInv, NextTInv, InitRxInv, NextRxInv, RxFacts, PTL DEF Spec

\* Then a packet stays in its buffer until it has been processed.
THEOREM PacketsStay == ASSUME ~NetRetry PROVE Spec => []PacketStays
BY InitTInv, NextTInv, InitRxInv, NextRxInv, RxFacts, PTL DEF Spec

\* And the DMA engine drops a frame only when the whole ring is full.
THEOREM DroppedOnlyWhenFull == ASSUME ~NetRetry PROVE Spec => []DropsOnlyWhenFull
BY InitTInv, NextTInv, InitRxInv, NextRxInv, RxFacts, PTL DEF Spec

-----------------------------------------------------------------------------
(* Order                                                                   *)

Earlier(m, n) == Ahead(CONFIG_RX_DESCR_NUM, rx_currdescnum, m) < Ahead(CONFIG_RX_DESCR_NUM, rx_currdescnum, n)

\* While a command runs the frames in the ring are in order of their arrival,
\* and after the one delivered last, but for the one that is being freed.
OInv == /\ delivered <= arrivals
        /\ command = "open" =>
               \A n \in Full : /\ rx_buff[n] <= arrivals
                               /\ (pc = "free" /\ n = rx_currdescnum) \/ delivered < rx_buff[n]
                               /\ \A m \in Full : Earlier(m, n) => rx_buff[m] < rx_buff[n]

\* At first no command runs.
LEMMA InitOInv == Init => OInv
BY DEF Init, OInv

\* Every step keeps the order.
LEMMA NextOInv == ~NetRetry /\ ~Unending /\ TInv /\ RxInv /\ OInv /\ [Next]_vars => OInv'
<1> SUFFICES ASSUME ~NetRetry, ~Unending, TInv, RxInv, OInv, [Next]_vars PROVE OInv'
    OBVIOUS
<1> DEFINE N == CONFIG_RX_DESCR_NUM
           A(n) == Ahead(N, rx_currdescnum, n)
<1>0. N \in Nat \ {0} /\ RxRing = 0 .. N - 1
    BY DwEthAssumption DEF DwEthAssumption, RxRing
<1> HIDE DEF N
<1>1. /\ rx_owner \in [RxRing -> {"cpu", "dma"}] /\ rx_buff \in [RxRing -> Int]
      /\ rx_currdescnum \in 0 .. N - 1 /\ rx_dma \in 0 .. N - 1
      /\ arrivals \in Int /\ delivered \in Int /\ Full \subseteq RxRing
    BY <1>0, DwEthAssumption DEF DwEthAssumption, TInv, TypeOK, Frames, Full
<1>2. PICK k \in 0 .. N : Span(N, Full, rx_currdescnum, rx_dma, k)
    BY DEF RxInv, OneSpan, N
<1>3. \A n \in RxRing : A(n) \in 0 .. N - 1 /\ (A(n) = 0 <=> n = rx_currdescnum)
    BY <1>0, <1>1, AheadFacts
<1>4. \A n \in Full : A(n) < k
    BY <1>0, <1>2 DEF Span
<1>5. \A m, n : Earlier(m, n) <=> A(m) < A(n)
    BY DEF Earlier, N
<1>6. CASE FrameArrives
    <2>1. arrivals' = arrivals + 1 /\ UNCHANGED <<rx_currdescnum, pc, delivered, command>>
        BY <1>6 DEF FrameArrives, pollVars
    <2>2. CASE running = "on" /\ rx_owner[rx_dma] = "dma"
        <3>1. /\ rx_dma \notin Full /\ Full' = Full \cup {rx_dma}
              /\ rx_buff' = [rx_buff EXCEPT ![rx_dma] = arrivals']
            BY <1>0, <1>1, <1>6, <2>2 DEF FrameArrives, Full
        <3>2. A(rx_dma) = k
            <4>1. k < N
                BY <1>0, <1>1, <1>2, <3>1, SpanGrows, Zenon
            <4>2. QED BY <1>0, <1>2, <4>1 DEF Span
        <3>3. rx_buff'[rx_dma] = arrivals + 1 /\ \A n \in Full : rx_buff'[n] = rx_buff[n] /\ rx_buff[n] \in Int
            BY <1>0, <1>1, <2>1, <3>1
        <3>4. \A m, n : Earlier(m, n)' <=> A(m) < A(n)
            BY <2>1 DEF Earlier, N
        <3> HIDE DEF A
        <3>5. \A n \in Full : ~ A(rx_dma) < A(n)
            BY <1>0, <1>1, <1>3, <1>4, <3>2
        <3>6. ~ A(rx_dma) < A(rx_dma)
            BY <1>0, <3>2
        <3>7. \A x, y \in Int : x <= y => x < y + 1 /\ x <= y + 1
            OBVIOUS
        <3>8. \A y \in Int : y + 1 <= y + 1
            OBVIOUS
        <3>9. ASSUME command' = "open", NEW n \in Full'
              PROVE  /\ rx_buff'[n] <= arrivals'
                     /\ (pc' = "free" /\ n = rx_currdescnum') \/ delivered' < rx_buff'[n]
                     /\ \A m \in Full' : Earlier(m, n)' => rx_buff'[m] < rx_buff'[n]
            <4>1. CASE n \in Full
                BY <1>1, <1>5, <2>1, <3>1, <3>3, <3>4, <3>5, <3>7, <3>9, <4>1 DEF OInv
            <4>2. CASE n = rx_dma
                BY <1>1, <2>1, <3>1, <3>3, <3>4, <3>6, <3>7, <3>8, <3>9, <4>2 DEF OInv
            <4>3. QED BY <3>1, <3>9, <4>1, <4>2
        <3>10. delivered' <= arrivals'
            BY <1>1, <2>1, <3>7 DEF OInv
        <3>11. QED BY <3>9, <3>10 DEF OInv
    <2>3. CASE ~ (running = "on" /\ rx_owner[rx_dma] = "dma")
        <3>1. UNCHANGED <<rx_owner, rx_buff>>
            BY <1>6, <2>3 DEF FrameArrives
        <3>2. \A x \in Int : x <= arrivals => x <= arrivals'
            BY <1>1, <2>1
        <3>3. \A n \in Full : rx_buff[n] \in Int
            BY <1>1
        <3>4. QED BY <1>1, <2>1, <3>1, <3>2, <3>3 DEF OInv, Full, Earlier
    <2>4. QED BY <2>2, <2>3
<1>7. CASE Free
    <2>1. /\ rx_currdescnum \in Full /\ Full' = Full \ {rx_currdescnum}
          /\ rx_currdescnum' = After(N, rx_currdescnum)
          /\ UNCHANGED <<rx_buff, arrivals, delivered, command>>
        BY <1>0, <1>1, <1>7, NextFacts, Zenon DEF Free, _dw_free_pkt, RxInv, Full, N
    <2>2. \A n \in RxRing : n # rx_currdescnum => Ahead(N, rx_currdescnum', n) = A(n) - 1
        BY <1>0, <1>1, <2>1, AheadAfter
    <2>3. ASSUME NEW m \in Full', NEW n \in Full' PROVE Earlier(m, n)' <=> Earlier(m, n)
        <3>1. m \in RxRing /\ n \in RxRing /\ m # rx_currdescnum /\ n # rx_currdescnum
            BY <1>1, <2>1
        <3>2. A(m) \in Int /\ A(n) \in Int
            BY <1>0, <1>3, <3>1
        <3>3. A(m) - 1 < A(n) - 1 <=> A(m) < A(n)
            BY <3>2
        <3>4. QED BY <2>2, <3>1, <3>3 DEF Earlier, N
    <2>4. QED BY <2>1, <2>3 DEF OInv
<1>8. CASE Process
    <2>1. /\ delivered' = rx_buff[rx_currdescnum] /\ pc' = "free" /\ rx_currdescnum \in Full /\ command = "open"
          /\ UNCHANGED <<rxVars, command, arrivals>>
        BY <1>8 DEF Process, RxInv
    <2>2. \A n \in Full : n # rx_currdescnum => Earlier(rx_currdescnum, n)
        BY <1>0, <1>1, <1>3, <1>5
    <2>3. QED BY <2>1, <2>2 DEF OInv, rxVars, Full, Earlier
<1>9. CASE Begin
    <2>1. UNCHANGED <<arrivals, delivered>>
        BY <1>9 DEF Begin, pollVars
    <2>2. CASE running' = "on"
        <3>1. RxEmpty'
            BY <1>9, <2>2 DEF Begin, _dw_eth_init, rx_descs_init, RxEmpty
        <3>2. (Full = {})'
            BY <3>1, EmptySpan, PTL
        <3>3. QED BY <2>1, <3>2 DEF OInv
    <2>3. CASE running' # "on"
        BY <1>9, <2>1, <2>3, SMTT(40) DEF Begin, OInv
    <2>4. QED BY <2>2, <2>3
<1>10. CASE EthRx \/ Recv
    BY <1>10 DEF EthRx, Recv, OInv, rxVars, Full, Earlier
<1>11. CASE End
    BY <1>11, SMTT(40) DEF End, OInv, pollVars
<1>12. CASE UNCHANGED <<rxVars, pollVars, command, arrivals>>
    BY <1>12 DEF OInv, rxVars, pollVars, Full, Earlier
<1>13. QED
    BY <1>6, <1>7, <1>8, <1>9, <1>10, <1>11, <1>12
    DEF Next, Driver, FrameLeaves, Send, StartAgain, vars

\* If no handler restarts the interface, frames are delivered in the order of
\* their arrival, each once, over any number of stops and starts.
THEOREM DeliveredInOrder == ASSUME ~NetRetry, ~Unending PROVE Spec => DeliversInOrder
<1>1. TInv /\ RxInv /\ OInv /\ [Next]_vars => [pc = "process" /\ pc' = "free" => delivered' > delivered]_vars
    <2> SUFFICES ASSUME TInv, RxInv, OInv, Next, pc = "process", pc' = "free"
                 PROVE  delivered' > delivered
        BY SMTT(40)
    <2>1. Process
        BY DEF Next, Driver, FrameArrives, FrameLeaves, EthRx, Recv, Free, Send, Begin, StartAgain, End, pollVars
    <2>2. /\ delivered' = rx_buff[rx_currdescnum] /\ rx_currdescnum \in Full
          /\ command = "open" /\ pc # "free"
        BY <2>1 DEF Process, RxInv
    <2>3. delivered < rx_buff[rx_currdescnum]
        BY <2>2 DEF OInv
    <2>4. delivered \in Int /\ rx_buff[rx_currdescnum] \in Int
        BY DwEthAssumption DEF DwEthAssumption, TInv, TypeOK, Frames
    <2>5. QED BY <2>2, <2>3, <2>4
<1>2. QED BY <1>1, InitTInv, NextTInv, InitRxInv, NextRxInv, InitOInv, NextOInv, PTL DEF Spec, DeliversInOrder
=============================================================================
