---------------------------- MODULE NexellTimer ----------------------------
(***************************************************************************)
(* U-Boot's clock on the board (arch/arm/mach-nexell/timer.c): a 32 bit    *)
(* counter in hardware, made into a 64 bit time stamp by whoever asks for  *)
(* the time, and the delays and timeouts measured with it.                 *)
(*                                                                         *)
(* now is TIMER_COUNT less the down counter, so it counts up.  PCLK is     *)
(* taken to be a multiple of 1 MHz, so that timer_init finds a divisor for *)
(* a counter of exactly that rate.  Nothing lives for 2^64 ticks: the time *)
(* stamp has no bound, and __udelay's branch for its overflow is left out. *)
(***************************************************************************)
EXTENDS Integers

CONSTANTS
    TIMER_COUNT,    \* last value of the counter: 2^32 - 1
    Thousand,       \* the 1000 of the conversions
    Delays,         \* arguments of __udelay, in microseconds
    Deltas,         \* timeouts of net_loop, in milliseconds
    MaxElapsed      \* bound: ticks in all

ASSUME NexellTimerAssumption ==
    /\ TIMER_COUNT \in Nat \ {0} /\ Thousand \in Nat \ {0}
    /\ Delays \subseteq Nat /\ Deltas \subseteq Nat \ {0}
    /\ MaxElapsed \in Nat

VARIABLES
    now, lastdec, timestamp,
    pc,                 \* "run", or "delay" in __udelay
    tmo, usec,          \* __udelay: when to wake, the argument
    handler,            \* "none", or "set": net_loop's time_handler
    time_start, time_delta,
    elapsed, polledAt,  \* history: ticks so far, and at the last look at the counter
    wraps,              \* history: roll-overs of the counter, seen or not
    rolls, wrapsThen,   \* history: roll-overs seen, and all of them, at that look
    from, since         \* history: when the delay was asked for, the timeout set

TIMER_FREQ == Thousand * Thousand
CONFIG_SYS_HZ == Thousand
TIMER_HZ == TIMER_FREQ \div CONFIG_SYS_HZ

clock == <<now, elapsed, wraps>>
delayVars == <<pc, tmo, usec, from>>
timeoutVars == <<handler, time_start, time_delta, since>>
vars == <<clock, lastdec, timestamp, polledAt, rolls, wrapsThen, delayVars, timeoutVars>>

\* The counter rolls over after TIMER_COUNT.
Tick ==
    /\ elapsed < MaxElapsed
    /\ elapsed' = elapsed + 1
    /\ IF now = TIMER_COUNT THEN now' = 0 /\ wraps' = wraps + 1
       ELSE now' = now + 1 /\ UNCHANGED wraps
    /\ UNCHANGED <<lastdec, timestamp, polledAt, rolls, wrapsThen, delayVars, timeoutVars>>

\* The history at a look at the counter.
Looked ==
    /\ polledAt' = elapsed /\ wrapsThen' = wraps
    /\ rolls' = rolls + IF now >= lastdec THEN 0 ELSE 1

\* Mutant: the ticks before the roll-over are not added.
get_timer_masked_short ==
    /\ timestamp' = timestamp + IF now >= lastdec THEN now - lastdec ELSE now
    /\ lastdec' = now /\ Looked

\* Mutant: the roll-over is taken for one of 2^32 + 1 ticks.
get_timer_masked_long ==
    /\ timestamp' = timestamp + IF now >= lastdec THEN now - lastdec
                                ELSE now + TIMER_COUNT + 2 - lastdec
    /\ lastdec' = now /\ Looked

get_timer_masked ==
    /\ timestamp' = timestamp + IF now >= lastdec THEN now - lastdec
                                ELSE now + TIMER_COUNT - lastdec
    /\ lastdec' = now /\ Looked

get_timer(stamp, base) == stamp \div TIMER_HZ - base

-----------------------------------------------------------------------------
\* The ticks of a delay: from a millisecond up, whole milliseconds.
DelayTicks(u) ==
    IF u >= Thousand THEN ((u \div Thousand) * TIMER_FREQ) \div Thousand
    ELSE (u * TIMER_FREQ) \div (Thousand * Thousand)

\* __udelay(): the time to wake ...
UdelayBegins ==
    /\ pc = "run" /\ pc' = "delay" /\ from' = elapsed
    /\ get_timer_masked
    /\ usec' \in Delays /\ tmo' = DelayTicks(usec') + timestamp'
    /\ UNCHANGED <<clock, timeoutVars>>

\* Mutant: the loop ends one tick early.
UdelayLoops_early ==
    /\ pc = "delay" /\ get_timer_masked
    /\ pc' = IF tmo > timestamp' + 1 THEN "delay" ELSE "run"
    /\ UNCHANGED <<clock, tmo, usec, from, timeoutVars>>

\* ... and the loop until then.
UdelayLoops ==
    /\ pc = "delay" /\ get_timer_masked
    /\ pc' = IF tmo > timestamp' THEN "delay" ELSE "run"
    /\ UNCHANGED <<clock, tmo, usec, from, timeoutVars>>

\* net_set_timeout_handler(), with a time ...
SetTimeout ==
    /\ pc = "run" /\ handler' = "set" /\ since' = elapsed
    /\ get_timer_masked
    /\ time_start' = get_timer(timestamp', 0)
    /\ \E iv \in Deltas : time_delta' = (iv * CONFIG_SYS_HZ) \div Thousand
    /\ UNCHANGED <<clock, delayVars>>

\* ... and with 0.
CancelTimeout ==
    /\ pc = "run" /\ handler' = "none"
    /\ UNCHANGED <<clock, lastdec, timestamp, polledAt, rolls, wrapsThen, delayVars, time_start,
                   time_delta, since>>

\* net_loop looks whether the timeout has come.
CheckTimeout ==
    /\ pc = "run" /\ handler = "set"
    /\ get_timer_masked
    /\ handler' = IF get_timer(timestamp', 0) - time_start > time_delta THEN "none" ELSE "set"
    /\ UNCHANGED <<clock, delayVars, time_start, time_delta, since>>

\* After timer_init().
Init ==
    /\ now \in 0 .. TIMER_COUNT /\ lastdec = now /\ timestamp = 0
    /\ pc = "run" /\ tmo = 0 /\ usec = 0
    /\ handler = "none" /\ time_start = 0 /\ time_delta = 0
    /\ elapsed = 0 /\ polledAt = 0 /\ from = 0 /\ since = 0
    /\ wraps = 0 /\ rolls = 0 /\ wrapsThen = 0

Next == Tick \/ UdelayBegins \/ UdelayLoops \/ SetTimeout \/ CancelTimeout \/ CheckTimeout

Spec == Init /\ [][Next]_vars

-----------------------------------------------------------------------------

\* Every variable keeps its type; the last value read is one of the counter.
TypeOK ==
    /\ now \in 0 .. TIMER_COUNT /\ lastdec \in 0 .. TIMER_COUNT /\ timestamp \in Nat
    /\ pc \in {"run", "delay"} /\ tmo \in Nat /\ usec \in Nat
    /\ handler \in {"none", "set"} /\ time_start \in Nat /\ time_delta \in Nat
    /\ elapsed \in Nat /\ polledAt \in Nat /\ from \in Nat /\ since \in Nat
    /\ wraps \in Nat /\ rolls \in Nat /\ wrapsThen \in Nat

\* The time stamp of get_timer_masked is the time that has passed, less one tick for
\* every roll-over it sees (it adds TIMER_COUNT where the counter takes TIMER_COUNT
\* + 1), and less a whole round for every roll-over it does not see.
Accurate ==
    timestamp = polledAt - rolls - (wrapsThen - rolls) * (TIMER_COUNT + 1)

\* However seldom the counter is read, __udelay never returns before its time, but
\* for the part of a millisecond it drops from a delay of more than one.
DelayNotShort ==
    [][pc = "delay" /\ pc' = "run" =>
         \/ elapsed - from >= usec
         \/ usec >= Thousand /\ elapsed - from > usec - Thousand]_vars

\* A timeout of net_loop never comes before its time: the rounding of get_timer to
\* milliseconds, once when it is set and once when it is looked at, does not
\* bring it forward.
TimeoutNotEarly ==
    [][CheckTimeout /\ handler' = "none" => elapsed - since > time_delta * TIMER_HZ]_vars
=============================================================================
