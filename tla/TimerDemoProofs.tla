--------------------------- MODULE TimerDemoProofs --------------------------
(***************************************************************************)
(* Proofs about the Timer program, for every depth of the UART's FIFO,     *)
(* every text and any number of expirations and of other interrupts.       *)
(***************************************************************************)
EXTENDS TimerDemo, SequenceTheorems, TLAPS

-----------------------------------------------------------------------------
(* Interrupts and the count                                                *)

Boot == {"gic_init", "timer_init", "zero", "print"}
Handling == {"timer", "print", "unpend", "eret"}

\* a + b + c, kept apart from the variables it is used for
Sums(t, a, b, c) == t = a + b + c

CountTypes ==
    /\ istat \in {0, 1} /\ masked \in {0, 1}
    /\ tcount \in Nat /\ ticks \in Nat /\ merged \in Nat /\ interrupts \in Nat
    /\ pc \in Boot \cup {"print_open", "loop"}
    /\ ipc \in Handling \cup {"none", "who"}
    /\ lines \subseteq (Ppis \cup Spis) \ {IRQ_TIMER0} /\ left \subseteq Sgis

\* What main has set up, step by step
SetUp ==
    /\ pc \in Boot => masked = 1 /\ ipc = "none"
    /\ latched \cap Sgis \subseteq left
    /\ pc # "gic_init" => edge \subseteq Ppis /\ latched \subseteq Sgis /\ enabled \subseteq Sgis \cup {IRQ_TIMER0}

\* An interrupt taken is still there when the handler asks which it is, and
\* the timer's status bit is set until the handler clears it
Handled ==
    /\ ipc # "none" => masked = 1
    /\ ipc = "who" => Signalled # {}
    /\ ipc = "timer" => istat = 1

Counted ==
    /\ pc = "zero" => Sums(ticks, 0, merged, istat)
    /\ pc \notin {"gic_init", "timer_init", "zero"} => Sums(ticks, tcount, merged, istat)

CInv == CountTypes /\ SetUp /\ Handled /\ Counted

\* An expiration adds one to the count due, a handled one moves from the
\* status bit to the count.
LEMMA SumFacts ==
    /\ \A t, a, b \in Nat, c \in {0, 1} : Sums(t, a, b, c) => Sums(t + 1, a, b + c, 1)
    /\ \A t, a, b \in Nat : Sums(t, a, b, 1) => Sums(t, a + 1, b, 0)
    /\ \A c \in {0, 1}, b \in Nat : b + c \in Nat
    /\ Sums(0, 0, 0, 0)
BY DEF Sums

\* Once gic_init has run, the timer's interrupt is signalled only while its
\* status bit is set, and another one only if U-Boot left it pending.
LEMMA SignalFacts ==
    ASSUME CInv, pc # "gic_init"
    PROVE  /\ Signalled \subseteq {IRQ_TIMER0} \cup left
           /\ IRQ_TIMER0 \in Signalled => istat = 1
<1>1. IRQ_TIMER0 \notin Sgis /\ IRQ_TIMER0 \notin lines /\ lines \cap Sgis = {}
    BY TimerDemoAssumption DEF TimerDemoAssumption, CInv, CountTypes
<1>2. latched \subseteq left /\ IRQ_TIMER0 \notin latched /\ enabled \subseteq Sgis \cup {IRQ_TIMER0}
    BY <1>1 DEF CInv, SetUp
<1>3. QED BY <1>1, <1>2 DEF Signalled, Pending, Line

\* The invariant holds at first, whatever U-Boot left behind.
LEMMA InitCInv == Init => CInv
BY SMTT(40) DEF Init, CInv, CountTypes, SetUp, Handled, Counted, Boot, Handling

\* A step that leaves the GIC and the timer's interrupt alone leaves alone what
\* is signalled.
LEMMA SignalledStays ==
    ASSUME UNCHANGED <<enabled, active, latched, edge, lines, istat, ienable>>
    PROVE  Signalled' = Signalled
BY SMTT(40) DEF Signalled, Pending, Line

\* Every step keeps it.
LEMMA NextCInv == CInv /\ [Next]_vars => CInv'
<1> SUFFICES ASSUME CInv, [Next]_vars PROVE CInv'
    OBVIOUS
<1> USE DEF Boot, Handling
<1>1. CASE Tick
    <2>1. ticks' = ticks + 1 /\ merged' = merged + istat /\ istat' = 1
        BY <1>1 DEF Tick
    <2>2. UNCHANGED <<enabled, active, edge, lines, ienable, masked, tcount, pc, ipc, left, interrupts>>
        BY <1>1 DEF Tick, mainVars, irqVars
    <2>3. IRQ_TIMER0 \notin Sgis /\ IRQ_TIMER0 \notin Ppis
        BY TimerDemoAssumption DEF TimerDemoAssumption
    <2>4. latched' = latched \/ (pc = "gic_init" /\ latched' = latched \cup {IRQ_TIMER0})
        BY <1>1, <2>3, SMTT(40) DEF Tick, CInv, SetUp
    <2>5. CountTypes'
        BY <2>1, <2>2, SumFacts, SMTT(40) DEF CInv, CountTypes
    <2>6. SetUp'
        BY <2>2, <2>3, <2>4, SMTT(40) DEF CInv, SetUp
    <2>7. Signalled \subseteq Signalled'
        BY <2>1, <2>2, <2>4 DEF Signalled, Pending, Line
    <2>8. Handled'
        BY <2>1, <2>2, <2>7 DEF CInv, Handled
    <2>9. Counted'
        BY <2>1, <2>2, SumFacts, SMTT(40) DEF CInv, CountTypes, Counted
    <2>10. QED BY <2>5, <2>6, <2>8, <2>9, Zenon DEF CInv
<1>2. CASE gic_init
    <2>1. /\ pc = "gic_init" /\ pc' = "timer_init" /\ edge' = edge \cap Ppis /\ enabled' = Sgis
          /\ latched' = latched \cap Sgis
          /\ UNCHANGED <<lines, istat, ticks, merged, masked, tcount, ipc, left, interrupts>>
        BY <1>2 DEF gic_init, timer, irqVars
    <2>2. CountTypes' /\ SetUp'
        BY <2>1 DEF CInv, CountTypes, SetUp
    <2>3. Handled' /\ Counted'
        BY <2>1 DEF CInv, SetUp, Handled, Counted
    <2>4. QED BY <2>2, <2>3 DEF CInv
<1>3. CASE timer_init
    <2>1. /\ pc = "timer_init" /\ pc' = "zero" /\ istat' = 0 /\ ticks' = 0 /\ merged' = 0
          /\ enabled' = enabled \cup {IRQ_TIMER0}
          /\ UNCHANGED <<latched, edge, lines, masked, tcount, ipc, left, interrupts>>
        BY <1>3 DEF timer_init, irqVars
    <2>2. CountTypes' /\ SetUp'
        BY <2>1 DEF CInv, CountTypes, SetUp
    <2>3. Handled' /\ Counted'
        BY <2>1, SumFacts DEF CInv, SetUp, Handled, Counted
    <2>4. QED BY <2>2, <2>3 DEF CInv
<1>4. CASE ZeroCount
    BY <1>4 DEF ZeroCount, CInv, CountTypes, SetUp, Handled, Counted, gic, timer, irqVars
<1>5. CASE INT_unlock
    BY <1>5 DEF INT_unlock, CInv, CountTypes, SetUp, Handled, Counted, gic, timer, irqVars
<1>6. CASE MainLoops
    BY <1>6 DEF MainLoops, CInv, CountTypes, SetUp, Handled, Counted, gic, timer, irqVars
<1>7. CASE TakeIrq
    <2>1. /\ pc \in {"print_open", "loop"} /\ ipc' = "who" /\ masked' = 1 /\ Signalled # {}
          /\ interrupts' = interrupts + 1 /\ UNCHANGED <<gic, timer, pc, left, tcount>>
        BY <1>7 DEF TakeIrq, CInv, CountTypes, SetUp, mainVars
    <2>2. Signalled' = Signalled
        BY <2>1, SignalledStays DEF gic, timer
    <2>3. CountTypes' /\ SetUp' /\ Counted'
        BY <2>1 DEF CInv, CountTypes, SetUp, Counted, gic, timer
    <2>4. QED BY <2>1, <2>2, <2>3, SMTT(40) DEF CInv, Handled
<1>8. CASE intcon_irqwho
    <2>1. pc \notin Boot /\ ipc = "who" /\ Signalled # {}
        BY <1>8 DEF intcon_irqwho, CInv, SetUp, Handled
    <2>2. /\ irq' \in Signalled /\ latched' = latched \ {irq'} /\ left' = left \ {irq'} /\ ipc' = handle_irq(irq')
          /\ UNCHANGED <<enabled, edge, lines, timer, pc, interrupts, masked, tcount>>
        BY <1>8, <2>1, SMTT(40) DEF intcon_irqwho, mainVars
    <2>3. ipc' \in {"timer", "print"} /\ (ipc' = "timer" => istat = 1)
        BY <2>1, <2>2, SignalFacts, SMTT(40) DEF handle_irq
    <2>4. CountTypes'
        BY <2>2, <2>3 DEF CInv, CountTypes, timer
    <2>5. SetUp'
        BY <2>1, <2>2, SMTT(40) DEF CInv, SetUp
    <2>6. Handled' /\ Counted'
        BY <2>1, <2>2, <2>3, SMTT(40) DEF CInv, Handled, Counted, timer
    <2>7. QED BY <2>4, <2>5, <2>6 DEF CInv
<1>9. CASE timer_handler
    <2>1. istat = 1 /\ istat' = 0 /\ tcount' = tcount + 1 /\ ipc = "timer" /\ ipc' = "print" /\ pc \notin Boot
        BY <1>9 DEF timer_handler, CInv, CountTypes, SetUp, Handled
    <2>2. UNCHANGED <<gic, ticks, merged, pc, masked, left, interrupts>>
        BY <1>9 DEF timer_handler, mainVars
    <2>3. Counted' /\ tcount' \in Nat
        BY <2>1, <2>2, SumFacts, SMTT(40) DEF CInv, CountTypes, Counted
    <2>4. QED BY <2>1, <2>2, <2>3, SMTT(40) DEF CInv, CountTypes, SetUp, Handled, gic
<1>10. CASE Eoi \/ Eret
    BY <1>10, SMTT(40) DEF Eoi, Eret, CInv, CountTypes, SetUp, Handled, Counted, gic, timer, mainVars
<1>11. CASE gic_unpend
    BY <1>11, SMTT(40) DEF gic_unpend, CInv, CountTypes, SetUp, Handled, Counted, timer, mainVars
<1>12. CASE UNCHANGED <<gic, timer, pc, ipc, masked, tcount, left, interrupts>>
    <2>1. Signalled' = Signalled
        BY <1>12, SignalledStays DEF gic, timer
    <2>2. QED BY <1>12, <2>1 DEF CInv, CountTypes, SetUp, Handled, Counted, gic, timer
<1>13. CASE Drain \/ MainWaits \/ MainPuts \/ HandlerPuts \/ UNCHANGED vars
    <2>1. UNCHANGED <<gic, timer, pc, ipc, masked, tcount, left, interrupts>>
        BY <1>13, Zenon DEF Drain, MainWaits, MainPuts, HandlerPuts, vars, mainVars, irqVars
    <2>2. QED BY <1>12, <2>1, Zenon
<1>14. QED
    BY <1>1, <1>2, <1>3, <1>4, <1>5, <1>6, <1>7, <1>8, <1>9, <1>10, <1>11, <1>13, Zenon
    DEF Next, Main, Handler

\* Every expiration is counted once, is about to be, or came while the one
\* before it had not been noticed, however main, the handler and the timer
\* interleave.
THEOREM EveryTickAccounted == Spec => []TicksAccounted
<1>1. CInv => TicksAccounted
    BY SMTT(40) DEF CInv, Counted, Sums, TicksAccounted
<1>2. QED BY <1>1, InitCInv, NextCInv, PTL DEF Spec

\* Whatever U-Boot left enabled or pending, handle_irq is called for the
\* timer and, once each, for software-generated interrupts U-Boot left pending.
THEOREM NoStrayInterrupts == Spec => NoStrayInterrupt
<1>1. ASSUME CInv, [Next]_vars, ipc = "who", ipc' # "who"
      PROVE  irq' \in {IRQ_TIMER0} \cup left
    <2>1. intcon_irqwho
        BY <1>1 DEF Next, Main, Handler, Tick, Drain, gic_init, timer_init, ZeroCount, INT_unlock, MainWaits,
                    MainPuts, MainLoops, TakeIrq, timer_handler, HandlerPuts, Eoi, gic_unpend, Eret,
                    vars, irqVars, CInv, SetUp, Handled, Boot
    <2>2. Signalled # {} /\ pc # "gic_init"
        BY <1>1 DEF CInv, SetUp, Handled, Boot
    <2>3. irq' \in Signalled
        BY <2>1, <2>2 DEF intcon_irqwho
    <2>4. QED BY <1>1, <2>2, <2>3, SignalFacts, SMTT(40)
<1>2. CInv /\ [Next]_vars => [ipc = "who" /\ ipc' # "who" => irq' \in {IRQ_TIMER0} \cup left]_vars
    BY <1>1
<1>3. QED BY <1>2, InitCInv, NextCInv, PTL DEF Spec, NoStrayInterrupt

-----------------------------------------------------------------------------
(* The UART                                                                *)

\* What the UART has been given, printed or not
Out == sent \o fifo

WholeLines(s) ==
    \A i \in DOMAIN s :
        s[i].by = "irq" /\ s[i].char > 1 => i > 1 /\ s[i - 1] = [s[i] EXCEPT !.char = @ - 1]

\* A character the FIFO has no room for is lost to main only, which has been
\* interrupted since it saw room; the handler's characters follow each other
OInv ==
    /\ fifo \in Seq(Chars) /\ sent \in Seq(Chars) /\ lost \in Seq(Chars)
    /\ pos \in Nat /\ ipos \in Nat /\ put \in {0, 1}
    /\ ipc # "none" => Len(lost) < interrupts
    /\ put = 1 => Len(fifo) < FifoSize \/ Len(lost) < interrupts
    /\ Len(lost) <= interrupts
    /\ \A i \in DOMAIN lost : lost[i].by = "main"
    /\ WholeLines(Out)
    /\ ipc = "timer" => ipos = 0
    /\ ipc = "print" /\ ipos > 0 =>
           Len(Out) > 0 /\ Out[Len(Out)] = [by |-> "irq", line |-> interrupts, char |-> ipos]

\* Moving the head of one sequence to the end of another keeps their
\* concatenation; appending to the second appends to it.
LEMMA ConcatFacts ==
    ASSUME NEW S, NEW p \in Seq(S), NEW q \in Seq(S), NEW e \in S
    PROVE  /\ q # <<>> => Append(p, Head(q)) \o Tail(q) = p \o q
           /\ p \o Append(q, e) = Append(p \o q, e)
<1>1. ASSUME q # <<>> PROVE Append(p, Head(q)) \o Tail(q) = p \o q
    <2>1. Head(q) \in S /\ Tail(q) \in Seq(S) /\ <<Head(q)>> \o Tail(q) = q
        BY <1>1, HeadTailProperties, ConcatSimplifications, SMTT(40)
    <2>2. Append(p, Head(q)) = p \o <<Head(q)>>
        BY <2>1, AppendIsConcat
    <2>3. QED BY <2>1, <2>2, ConcatAssociative, SMTT(40)
<1>2. Append(q, e) = q \o <<e>> /\ p \o q \in Seq(S) /\ Append(p \o q, e) = (p \o q) \o <<e>>
    BY AppendIsConcat, ConcatProperties
<1>3. <<e>> \in Seq(S)
    OBVIOUS
<1>4. (p \o q) \o <<e>> = p \o (q \o <<e>>)
    BY <1>3, ConcatAssociative
<1>5. QED BY <1>1, <1>2, <1>4, Zenon

\* A line goes on with the character after the last one, or another begins.
LEMMA WholeLinesGrows ==
    ASSUME NEW s \in Seq(Chars), NEW c \in Chars, WholeLines(s),
           c.by = "irq" /\ c.char > 1 => Len(s) > 0 /\ s[Len(s)] = [c EXCEPT !.char = @ - 1]
    PROVE  WholeLines(Append(s, c))
<1> DEFINE t == Append(s, c)
<1>1. Len(s) \in Nat /\ DOMAIN t = 1 .. Len(s) + 1 /\ DOMAIN s = 1 .. Len(s)
    OBVIOUS
<1>2. t[Len(s) + 1] = c /\ \A i \in 1 .. Len(s) : t[i] = s[i]
    OBVIOUS
<1> HIDE DEF t
<1>3. ASSUME NEW i \in DOMAIN t, t[i].by = "irq", t[i].char > 1
      PROVE  i > 1 /\ t[i - 1] = [t[i] EXCEPT !.char = @ - 1]
    <2>1. CASE i \in 1 .. Len(s)
        <3>1. i > 1 /\ s[i - 1] = [s[i] EXCEPT !.char = @ - 1]
            BY <1>1, <1>2, <1>3, <2>1, SMTT(40) DEF WholeLines
        <3>2. i - 1 \in 1 .. Len(s)
            BY <1>1, <2>1, <3>1, SMTT(40)
        <3>3. QED BY <1>2, <2>1, <3>1, <3>2, SMTT(40)
    <2>2. CASE i = Len(s) + 1
        <3>1. Len(s) > 0 /\ s[Len(s)] = [c EXCEPT !.char = @ - 1]
            BY <1>2, <1>3, <2>2, SMTT(40)
        <3>2. i > 1 /\ i - 1 = Len(s) /\ Len(s) \in 1 .. Len(s)
            BY <1>1, <2>2, <3>1, SMTT(40)
        <3>3. QED BY <1>2, <2>2, <3>1, <3>2, SMTT(40)
    <2>3. QED BY <1>1, <2>1, <2>2, SMTT(40)
<1>4. WholeLines(t)
    BY <1>3 DEF WholeLines
<1>5. QED BY <1>4 DEF t

\* Nothing has been printed at first.
LEMMA InitOInv == Init => OInv
<1> SUFFICES ASSUME Init PROVE OInv
    OBVIOUS
<1>1. Out = <<>>
    BY SMTT(40) DEF Init, Out
<1>2. QED BY <1>1 DEF Init, OInv, WholeLines

\* Every step keeps the invariant.
LEMMA NextOInv == CInv /\ OInv /\ [Next]_vars => OInv'
<1> SUFFICES ASSUME CInv, OInv, [Next]_vars PROVE OInv'
    OBVIOUS
<1> USE DEF Boot, Handling
<1>1. CASE Drain
    <2>1. Out' = Out
        BY <1>1, ConcatFacts, HeadTailProperties, ZenonT(40) DEF Drain, Out, OInv
    <2>2. fifo' \in Seq(Chars) /\ sent' \in Seq(Chars) /\ Len(fifo') = Len(fifo) - 1 /\ Len(fifo) \in Nat
        BY <1>1, HeadTailProperties DEF Drain, OInv
    <2>3. Len(fifo) < FifoSize => Len(fifo') < FifoSize
        BY <2>2, TimerDemoAssumption DEF TimerDemoAssumption
    <2>4. UNCHANGED <<lost, pc, pos, put, ipc, ipos, interrupts>>
        BY <1>1 DEF Drain, mainVars, irqVars
    <2>5. QED BY <2>1, <2>2, <2>3, <2>4, SMTT(40) DEF OInv
<1>2. CASE MainPuts
    <2> DEFINE c == [by |-> "main", line |-> 0, char |-> pos + 1]
    <2>1. c \in Chars /\ c.by = "main" /\ pos + 1 \in Nat
        BY DEF Chars, OInv
    <2>2. WriteTxh(c) /\ ipc = "none" /\ put = 1 /\ put' = 0 /\ pos' = pos + 1 /\ UNCHANGED <<pc, ipc, ipos, interrupts>>
        BY <1>2 DEF MainPuts, irqVars
    <2> HIDE DEF c
    <2>3. CASE Len(fifo) < FifoSize
        <3>1. fifo' = Append(fifo, c) /\ UNCHANGED <<sent, lost>>
            BY <2>2, <2>3, SMTT(40) DEF WriteTxh
        <3>2. Out' = Append(Out, c) /\ Out \in Seq(Chars)
            BY <2>1, <3>1, ConcatFacts, ConcatProperties, SMTT(40) DEF Out, OInv
        <3>3. WholeLines(Out')
            BY <2>1, <3>2, WholeLinesGrows, ZenonT(40) DEF OInv
        <3>4. QED BY <2>1, <2>2, <3>1, <3>3, SMTT(40) DEF OInv
    <2>4. CASE ~ (Len(fifo) < FifoSize)
        <3>1. lost' = Append(lost, c) /\ UNCHANGED <<sent, fifo>>
            BY <2>2, <2>4 DEF WriteTxh
        <3>2. Out' = Out
            BY <3>1 DEF Out
        <3>3. Len(lost) < interrupts
            BY <2>2, <2>4, SMTT(40) DEF OInv
        <3>4. lost' \in Seq(Chars) /\ \A i \in DOMAIN lost' : lost'[i].by = "main"
            BY <2>1, <3>1, SMTT(40) DEF OInv
        <3>5. Len(lost') <= interrupts
            BY <2>1, <3>1, <3>3, SMTT(40) DEF OInv, CInv, CountTypes
        <3>6. QED BY <2>1, <2>2, <3>1, <3>2, <3>4, <3>5, SMTT(40) DEF OInv
    <2>5. QED BY <2>3, <2>4
<1>3. CASE HandlerPuts
    <2> DEFINE c == [by |-> "irq", line |-> interrupts, char |-> ipos + 1]
    <2>1. c \in Chars /\ ipos + 1 \in Nat /\ c.char = ipos + 1
        BY DEF Chars, OInv, CInv, CountTypes
    <2>2. /\ WriteTxh(c) /\ ipc = "print" /\ ipos' = ipos + 1 /\ Len(fifo) < FifoSize
          /\ UNCHANGED <<pc, pos, put, ipc, interrupts>>
        BY <1>3 DEF HandlerPuts, mainVars
    <2>3. fifo' = Append(fifo, c) /\ UNCHANGED <<sent, lost>>
        BY <2>2 DEF WriteTxh
    <2>4. Out' = Append(Out, c) /\ Out \in Seq(Chars)
        <3> HIDE DEF c
        <3> QED BY <2>1, <2>3, ConcatFacts, ConcatProperties, ZenonT(40) DEF Out, OInv
    <2>5. ASSUME c.char > 1 PROVE Len(Out) > 0 /\ Out[Len(Out)] = [c EXCEPT !.char = @ - 1]
        <3>1. ipos \in Nat /\ ipos > 0 /\ (ipos + 1) - 1 = ipos
            BY <2>1, <2>5 DEF OInv
        <3>2. [c EXCEPT !.char = @ - 1] = [by |-> "irq", line |-> interrupts, char |-> ipos]
            BY <3>1
        <3>3. QED BY <2>2, <3>1, <3>2 DEF OInv
    <2>6. Len(Out') > 0 /\ Out'[Len(Out')] = c
        <3> HIDE DEF c
        <3> QED BY <2>1, <2>4
    <2>7. WholeLines(Out')
        <3> HIDE DEF c
        <3> QED BY <2>1, <2>4, <2>5, WholeLinesGrows, SMTT(40) DEF OInv
    <2>8. fifo' \in Seq(Chars)
        <3> HIDE DEF c
        <3> QED BY <2>1, <2>3, SMTT(40) DEF OInv
    <2>9. QED BY <2>1, <2>2, <2>3, <2>6, <2>7, <2>8, SMTT(40) DEF OInv
<1>4. CASE TakeIrq
    <2>1. ipc = "none" /\ ipc' = "who" /\ interrupts' = interrupts + 1 /\ UNCHANGED <<uart, pos, put, ipos>>
        BY <1>4 DEF TakeIrq, mainVars, CInv, CountTypes, Handled
    <2>2. Len(lost) <= interrupts /\ Len(lost) \in Nat /\ interrupts \in Nat
        BY DEF OInv, CInv, CountTypes
    <2>3. Len(lost') < interrupts' /\ Len(lost') <= interrupts'
        BY <2>1, <2>2, SMTT(40) DEF uart
    <2>4. QED BY <2>1, <2>3, SMTT(40) DEF OInv, Out, uart
<1>5. CASE MainWaits
    BY <1>5, SMTT(40) DEF MainWaits, OInv, Out, uart, irqVars
<1>6. CASE intcon_irqwho
    <2>1. ipc = "who" /\ ipos' = 0 /\ UNCHANGED <<uart, pos, put, interrupts>>
        BY <1>6, SMTT(40) DEF intcon_irqwho, mainVars
    <2>2. QED BY <2>1, SMTT(40) DEF OInv, Out, uart
<1>7. CASE timer_handler \/ Eoi \/ gic_unpend \/ Eret
    BY <1>7, SMTT(40) DEF timer_handler, Eoi, gic_unpend, Eret, OInv, Out, uart, mainVars
<1>8. CASE UNCHANGED <<uart, pos, put, ipc, ipos, interrupts>>
    BY <1>8 DEF OInv, Out, uart
<1>9. CASE \/ Tick \/ gic_init \/ timer_init \/ ZeroCount \/ INT_unlock \/ MainLoops
           \/ UNCHANGED vars
    <2>1. UNCHANGED <<uart, pos, put, ipc, ipos, interrupts>>
        BY <1>9, Zenon DEF Tick, gic_init, timer_init, ZeroCount, INT_unlock, MainLoops, vars, mainVars, irqVars
    <2>2. QED BY <1>8, <2>1, Zenon
<1>10. QED
    BY <1>1, <1>2, <1>3, <1>4, <1>5, <1>6, <1>7, <1>9, Zenon DEF Next, Main, Handler

\* The handler's line is printed whole, however the FIFO fills and drains.
THEOREM LinesAreWhole == Spec => []HandlerLineWhole
<1>1. OInv => HandlerLineWhole
    <2> SUFFICES ASSUME OInv, NEW i \in DOMAIN sent, sent[i].by = "irq", sent[i].char > 1
                 PROVE  i > 1 /\ sent[i - 1] = [sent[i] EXCEPT !.char = @ - 1]
        BY DEF HandlerLineWhole
    <2>1. Len(sent) \in Nat /\ Len(fifo) \in Nat /\ i \in 1 .. Len(sent) /\ DOMAIN Out = 1 .. Len(sent) + Len(fifo)
        BY ConcatProperties, LenProperties, SMTT(40) DEF OInv, Out
    <2>2. \A j \in 1 .. Len(sent) : Out[j] = sent[j]
        BY <2>1, ConcatProperties, SMTT(40) DEF OInv, Out
    <2>3. i \in DOMAIN Out /\ Out[i] = sent[i]
        BY <2>1, <2>2
    <2>4. i > 1 /\ Out[i - 1] = [Out[i] EXCEPT !.char = @ - 1]
        BY <2>3 DEF OInv, WholeLines
    <2>5. i - 1 \in 1 .. Len(sent)
        BY <2>1, <2>4
    <2>6. QED BY <2>2, <2>3, <2>4, <2>5, SMTT(40)
<1>2. QED BY <1>1, InitCInv, NextCInv, InitOInv, NextOInv, PTL DEF Spec

\* main loses at most one character for each interrupt, the handler none.
THEOREM LittleIsLost == Spec => []LosesLittle
<1>1. CInv /\ OInv => LosesLittle
    BY DEF CInv, CountTypes, OInv, LosesLittle
<1>2. QED BY <1>1, InitCInv, NextCInv, InitOInv, NextOInv, PTL DEF Spec
=============================================================================
