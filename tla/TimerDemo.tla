----------------------------- MODULE TimerDemo -----------------------------
(***************************************************************************)
(* The Timer program (Timer/): main() sets up the GIC-400 and timer 0,     *)
(* opens interrupts and prints; the interrupt handler counts expirations   *)
(* of the timer and prints too, on the same UART.  The timer, the GIC and  *)
(* the UART's FIFO run beside the CPU.                                     *)
(*                                                                         *)
(* A text is the sequence of its characters, of which only newlines matter *)
(* ("nl", and "x" for any other).                                          *)
(*                                                                         *)
(* The GIC tells three kinds of interrupt apart: software-generated ones,  *)
(* which have no input and wait latched (here those core 0 sends itself:   *)
(* the other cores are not running), and the inputs private to the core    *)
(* and shared, of which timer 0 is one.                                    *)
(***************************************************************************)
EXTENDS Integers, Sequences, SequencesExt, FiniteSets

CONSTANTS
    Sgis, Ppis, Spis,       \* interrupt ids: software-generated, private, shared
    IRQ_TIMER0,             \* interrupt id of timer 0, a shared one
    Spurious,               \* the id GIC gives when nothing is pending: 1023
    Before, After,          \* texts main prints before and after INT_unlock
    TickText, IrqText,      \* texts of timer_handler, and of handle_irq for another interrupt
    FifoSize,               \* depth of the UART's transmit FIFO
    MaxTicks                \* bound: expirations of the timer

Irqs == Sgis \cup Ppis \cup Spis

ASSUME TimerDemoAssumption ==
    /\ Sgis \cap (Ppis \cup Spis) = {} /\ Ppis \cap Spis = {}
    /\ IRQ_TIMER0 \in Spis /\ Spurious \notin Irqs
    /\ FifoSize \in Nat \ {0} /\ MaxTicks \in Nat

VARIABLES
    enabled, latched, active, edge, \* distributor: sets of interrupt ids
    lines,                          \* interrupt inputs of other devices that are up
    ienable, istat, run,            \* timer 0: interrupt enable, status, running: 0 or 1
    masked,                         \* PSTATE.I: 1 while the CPU takes no interrupt
    tcount,
    pc, pos, put,                   \* main: where it is, characters printed so far,
                                    \*   and whether it has seen room in the FIFO
    ipc, irq, ipos,                 \* the same for the interrupt handler
    fifo, sent,                     \* UART: in the FIFO; history: printed
    ticks, merged, lost,            \* history: expirations since timer_init, those that
                                    \*   found istat set; characters written to a full FIFO
    left, interrupts                \* history: software-generated interrupts left pending by
                                    \*   U-Boot and not handled yet; interrupts taken

gic == <<enabled, latched, active, edge, lines>>
timer == <<ienable, istat, run, ticks, merged>>
uart == <<fifo, sent, lost>>
mainVars == <<pc, pos, put>>
irqVars == <<ipc, irq, ipos, left, interrupts>>
vars == <<gic, timer, uart, mainVars, irqVars, masked, tcount>>

\* serial_putc() sends a carriage return before a newline.
Expand(text) == FlattenSeq([i \in DOMAIN text |-> IF text[i] = "nl" THEN <<"cr", "nl">> ELSE <<text[i]>>])
MainText == Expand(Before) \o Expand(After)
HandlerText == Expand(IF irq = IRQ_TIMER0 THEN TickText ELSE IrqText)

-----------------------------------------------------------------------------
(* The hardware.                                                           *)

Line(i) == i \in lines \/ (i = IRQ_TIMER0 /\ istat = 1 /\ ienable = 1)
Pending(i) == i \in latched \/ (i \notin edge /\ Line(i))
Signalled == {i \in enabled \ active : Pending(i)}

\* The timer counts down to 0 and starts again.
Tick ==
    /\ run = 1 /\ ticks < MaxTicks /\ ticks' = ticks + 1
    /\ istat' = 1 /\ merged' = merged + istat
    /\ latched' = IF istat = 0 /\ ienable = 1 /\ IRQ_TIMER0 \in edge
                  THEN latched \cup {IRQ_TIMER0} ELSE latched
    /\ UNCHANGED <<enabled, active, edge, lines, ienable, run, uart, mainVars, irqVars, masked,
                   tcount>>

Drain ==
    /\ fifo # <<>> /\ fifo' = Tail(fifo) /\ sent' = Append(sent, Head(fifo))
    /\ UNCHANGED <<lost, gic, timer, mainVars, irqVars, masked, tcount>>

\* A write to txh.
WriteTxh(c) ==
    /\ IF Len(fifo) < FifoSize
       THEN fifo' = Append(fifo, c) /\ UNCHANGED lost
       ELSE lost' = Append(lost, c) /\ UNCHANGED fifo
    /\ UNCHANGED sent

-----------------------------------------------------------------------------
(* main().                                                                 *)

\* Mutant: interrupts that were enabled stay so.
gic_init_keeps_enabled ==
    /\ pc = "gic_init" /\ pc' = "timer_init"
    /\ edge' = edge \cap Ppis /\ enabled' = enabled \cup Sgis /\ latched' = latched \cap Sgis
    /\ UNCHANGED <<active, lines, timer, uart, pos, put, irqVars, masked, tcount>>

\* Mutant: the timer interrupt is edge triggered.
gic_init_edge ==
    /\ pc = "gic_init" /\ pc' = "timer_init"
    /\ edge' = Spis /\ enabled' = Sgis /\ latched' = latched \cap Sgis
    /\ UNCHANGED <<active, lines, timer, uart, pos, put, irqVars, masked, tcount>>

\* Every shared interrupt is made level triggered, all but the software-generated
\* ones are disabled, and those are enabled.  Pending ones are cleared, again
\* except for the software-generated ones, which pclear does not reach.
gic_init ==
    /\ pc = "gic_init" /\ pc' = "timer_init"
    /\ edge' = edge \cap Ppis /\ enabled' = Sgis /\ latched' = latched \cap Sgis
    /\ UNCHANGED <<active, lines, timer, uart, pos, put, irqVars, masked, tcount>>

\* The timer is stopped and loaded; int_cstat |= T0_IENABLE writes the status
\* it has read back, which clears it; then interrupt and timer are started.
timer_init ==
    /\ pc = "timer_init" /\ pc' = "zero"
    /\ ienable' = 1 /\ istat' = 0 /\ run' = 1 /\ ticks' = 0 /\ merged' = 0
    /\ enabled' = enabled \cup {IRQ_TIMER0}
    /\ UNCHANGED <<latched, active, edge, lines, uart, pos, put, irqVars, masked, tcount>>

\* "We don't yet initialize the BSS".
ZeroCount ==
    /\ pc = "zero" /\ pc' = "print" /\ tcount' = 0
    /\ UNCHANGED <<gic, timer, uart, pos, put, irqVars, masked>>

INT_unlock ==
    /\ pc = "print" /\ put = 0 /\ pos = Len(Expand(Before)) /\ pc' = "print_open" /\ masked' = 0
    /\ UNCHANGED <<gic, timer, uart, pos, put, irqVars, tcount>>

\* Mutant: the FIFO is not looked at.
MainWaits_unchecked ==
    /\ ipc = "none" /\ put = 0 /\ put' = 1
    /\ \/ pc = "print" /\ pos < Len(Expand(Before))
       \/ pc = "print_open" /\ pos < Len(MainText)
    /\ UNCHANGED <<gic, timer, uart, pc, pos, irqVars, masked, tcount>>

\* serial_putc(): wait for room in the FIFO ...
MainWaits ==
    /\ ipc = "none" /\ put = 0 /\ Len(fifo) < FifoSize /\ put' = 1
    /\ \/ pc = "print" /\ pos < Len(Expand(Before))
       \/ pc = "print_open" /\ pos < Len(MainText)
    /\ UNCHANGED <<gic, timer, uart, pc, pos, irqVars, masked, tcount>>

\* ... and write; an interrupt may come between the two.
MainPuts ==
    /\ ipc = "none" /\ put = 1 /\ put' = 0 /\ pos' = pos + 1
    /\ WriteTxh([by |-> "main", line |-> 0, char |-> pos + 1])
    /\ UNCHANGED <<gic, timer, pc, irqVars, masked, tcount>>

MainLoops ==
    /\ ipc = "none" /\ pc = "print_open" /\ put = 0 /\ pos = Len(MainText) /\ pc' = "loop"
    /\ UNCHANGED <<gic, timer, uart, pos, put, irqVars, masked, tcount>>

-----------------------------------------------------------------------------
(* Interrupts: the vector at 0x280, sync_handler(), handle_irq().          *)

TakeIrq ==
    /\ masked = 0 /\ Signalled # {} /\ masked' = 1 /\ ipc' = "who"
    /\ interrupts' = interrupts + 1
    /\ UNCHANGED <<gic, timer, uart, mainVars, irq, ipos, left, tcount>>

\* Where handle_irq() goes with interrupt n.
handle_irq(n) == IF n = IRQ_TIMER0 THEN "timer" ELSE "print"

intcon_irqwho ==
    /\ ipc = "who"
    /\ IF Signalled = {} THEN irq' = Spurious /\ UNCHANGED <<active, latched>>
       ELSE /\ irq' \in Signalled
            /\ active' = active \cup {irq'} /\ latched' = latched \ {irq'}
    /\ ipos' = 0 /\ ipc' = handle_irq(irq') /\ left' = left \ {irq'}
    /\ UNCHANGED <<enabled, edge, lines, timer, uart, mainVars, interrupts, masked, tcount>>

\* Mutant: the status bit is not cleared.
timer_handler_keeps_stat ==
    /\ ipc = "timer" /\ ipc' = "print"
    /\ tcount' = tcount + 1
    /\ UNCHANGED <<gic, timer, uart, mainVars, irq, ipos, left, interrupts, masked>>

\* int_cstat |= T0_ISTAT clears the status.
timer_handler ==
    /\ ipc = "timer" /\ ipc' = "print"
    /\ istat' = 0 /\ tcount' = tcount + 1
    /\ UNCHANGED <<gic, ienable, run, ticks, merged, uart, mainVars, irq, ipos, left, interrupts, masked>>

\* Mutant: the FIFO is not looked at.
HandlerPuts_unchecked ==
    /\ ipc = "print" /\ ipos < Len(HandlerText)
    /\ WriteTxh([by |-> "irq", line |-> interrupts, char |-> ipos + 1]) /\ ipos' = ipos + 1
    /\ UNCHANGED <<gic, timer, mainVars, ipc, irq, left, interrupts, masked, tcount>>

\* The handler's serial_putc(): nothing comes between the wait and the write.
HandlerPuts ==
    /\ ipc = "print" /\ ipos < Len(HandlerText) /\ Len(fifo) < FifoSize
    /\ WriteTxh([by |-> "irq", line |-> interrupts, char |-> ipos + 1]) /\ ipos' = ipos + 1
    /\ UNCHANGED <<gic, timer, mainVars, ipc, irq, left, interrupts, masked, tcount>>

\* intcon_irqack(): end of interrupt, ...
Eoi ==
    /\ ipc = "print" /\ ipos = Len(HandlerText) /\ ipc' = "unpend"
    /\ active' = active \ {irq}
    /\ UNCHANGED <<enabled, latched, edge, lines, timer, uart, mainVars, irq, ipos, left, interrupts,
                   masked, tcount>>

\* ... and after it the pending state is cleared, which a software-generated
\* interrupt does not notice.
gic_unpend ==
    /\ ipc = "unpend" /\ ipc' = "eret" /\ latched' = latched \ ({irq} \ Sgis)
    /\ UNCHANGED <<enabled, active, edge, lines, timer, uart, mainVars, irq, ipos, left, interrupts,
                   masked, tcount>>

Eret ==
    /\ ipc = "eret" /\ ipc' = "none" /\ masked' = 0
    /\ UNCHANGED <<gic, timer, uart, mainVars, irq, ipos, left, interrupts, tcount>>

-----------------------------------------------------------------------------
\* U-Boot may leave any interrupt enabled or pending, edge or level triggered, and
\* the timer running or not.  It leaves interrupts masked and, as it takes none
\* itself (an interrupt resets the board), none active.  tcount is not initialized.
Init ==
    /\ enabled \in SUBSET Irqs /\ latched \in SUBSET Irqs /\ edge \in SUBSET (Ppis \cup Spis)
    /\ active = {} /\ lines \in SUBSET ((Ppis \cup Spis) \ {IRQ_TIMER0})
    /\ ienable \in {0, 1} /\ istat \in {0, 1} /\ run \in {0, 1}
    /\ masked = 1 /\ tcount \in {0, 7}
    /\ pc = "gic_init" /\ pos = 0 /\ put = 0
    /\ ipc = "none" /\ irq = Spurious /\ ipos = 0
    /\ fifo = <<>> /\ sent = <<>> /\ lost = <<>> /\ ticks = 0 /\ merged = 0
    /\ left = latched \cap Sgis /\ interrupts = 0

Main == gic_init \/ timer_init \/ ZeroCount \/ INT_unlock \/ MainWaits \/ MainPuts \/ MainLoops
Handler == TakeIrq \/ intcon_irqwho \/ timer_handler \/ HandlerPuts \/ Eoi \/ gic_unpend \/ Eret

Next == Tick \/ Drain \/ Main \/ Handler

Spec == Init /\ [][Next]_vars

\* The CPU and the UART keep going.  The timer's period leaves main time to run:
\* expirations are bounded.
FairSpec == Spec /\ WF_vars(Main) /\ WF_vars(Handler) /\ WF_vars(Drain)

-----------------------------------------------------------------------------
Chars == [by : {"main", "irq"}, line : Nat, char : Nat \ {0}]

\* Once the count has been set to 0, every expiration of the timer has been
\* counted once, is about to be, or came before the one before it was noticed;
\* none is counted twice.
TicksAccounted ==
    pc \notin {"gic_init", "timer_init", "zero"} => ticks = tcount + merged + istat

\* Whatever U-Boot left enabled or pending, handle_irq is called for the timer and,
\* once each, for software-generated interrupts U-Boot left pending, which gic_init
\* enables and cannot clear: never for another device, never for a spurious one.
NoStrayInterrupt ==
    [][ipc = "who" /\ ipc' # "who" => irq' \in {IRQ_TIMER0} \cup left]_vars

\* An expiration is noticed, although intcon_irqack clears the pending state
\* after the end of interrupt, when the next expiration may be there already.
TickIsNoticed == masked = 0 /\ istat = 1 ~> istat = 0

\* The handler's line is never cut nor mixed with what main prints.
HandlerLineWhole ==
    \A i \in DOMAIN sent :
        sent[i].by = "irq" /\ sent[i].char > 1 =>
            i > 1 /\ sent[i - 1] = [sent[i] EXCEPT !.char = @ - 1]

\* main loses at most one character to an interrupt (which fills the FIFO after
\* serial_putc has seen room), the handler none.
LosesLittle ==
    /\ Len(lost) <= interrupts
    /\ \A i \in DOMAIN lost : lost[i].by = "main"
=============================================================================
