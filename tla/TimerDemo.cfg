CONSTANTS
    IRQ_TIMER0 = irqTimer0
    Sgis = {sgi}
    Ppis = {ppi}
    Spis = {irqTimer0, spi}
    Spurious = spurious
    Before <- MCBefore
    After <- MCAfter
    TickText <- MCTickText
    IrqText <- MCIrqText
    FifoSize = 2
    MaxTicks = 3
SPECIFICATION FairSpec
INVARIANTS TicksAccounted HandlerLineWhole LosesLittle
PROPERTIES NoStrayInterrupt TickIsNoticed
CHECK_DEADLOCK FALSE
