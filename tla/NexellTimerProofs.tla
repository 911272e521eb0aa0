------------------------- MODULE NexellTimerProofs -------------------------
(***************************************************************************)
(* Proofs about NexellTimer, for every width of the counter, every rate    *)
(* and all delays and timeouts.                                            *)
(***************************************************************************)
EXTENDS NexellTimer, TLAPS

\* How far the counter is past the value read last, as get_timer_masked ought
\* to see it.
Ahead == IF now >= lastdec THEN now - lastdec ELSE now + TIMER_COUNT + 1 - lastdec

\* The counter is never further ahead than time is.
Behind == polledAt + Ahead <= elapsed

\* While a delay or a timeout runs the time stamp has not advanced by more than
\* the time that has passed since it was asked for.
DelayInv == pc = "delay" => timestamp + DelayTicks(usec) + from <= polledAt + tmo
TimeoutInv ==
    handler = "set" => timestamp + since < polledAt + (time_start + 1) * Thousand

SlowInv == TypeOK /\ Behind /\ DelayInv /\ TimeoutInv

\* The time that has passed, e, is the time stamp t with what is missing from it:
\* the o roll-overs seen make c ticks of the counter, and all of them make a.
\* The counter is now n, and was l at the last look.
Round == TIMER_COUNT + 1
Balance(e, l, c, t, o, n, a) == e + l + c = t + o + n + a
Stamp(e, c, t, o, a) == t + o + a = e + c

ClockInv == Balance(elapsed, lastdec, rolls * Round, timestamp, rolls, now, wraps * Round)
StampInv == Stamp(polledAt, rolls * Round, timestamp, rolls, wrapsThen * Round)

-----------------------------------------------------------------------------

\* Division rounds down.
LEMMA DivBounds ==
    ASSUME NEW s \in Nat
    PROVE  /\ s \div Thousand \in Nat
           /\ (s \div Thousand) * Thousand <= s
           /\ s < (s \div Thousand + 1) * Thousand
  BY NexellTimerAssumption

\* Division undoes multiplication.
LEMMA DivExact == ASSUME NEW n \in Nat, NEW d \in Nat \ {0} PROVE (n * d) \div d = n
  OBVIOUS

\* One unit of get_timer() is a thousand ticks.
LEMMA Hertz == TIMER_HZ = Thousand
  BY NexellTimerAssumption, DivExact DEF TIMER_HZ, TIMER_FREQ, CONFIG_SYS_HZ

\* A delay of less than a millisecond keeps all of its ticks, a longer one those of
\* its whole milliseconds.
LEMMA Ticks ==
    ASSUME NEW u \in Nat
    PROVE  /\ DelayTicks(u) \in Nat
           /\ u < Thousand => DelayTicks(u) = u
           /\ DelayTicks(u) > u - Thousand
<1> DEFINE q == u \div Thousand
<1>1. Thousand \in Nat \ {0} /\ Thousand * Thousand \in Nat \ {0}
  BY NexellTimerAssumption
<1>2. q \in Nat /\ q * Thousand \in Nat /\ u < (q + 1) * Thousand
  BY DivBounds, <1>1
<1>3. CASE u >= Thousand
  <2> HIDE DEF q
  <2>1. q * TIMER_FREQ = (q * Thousand) * Thousand
    BY <1>1, <1>2 DEF TIMER_FREQ
  <2>2. DelayTicks(u) = q * Thousand
    BY <1>1, <1>2, <1>3, <2>1, DivExact DEF DelayTicks, q
  <2>3. (q + 1) * Thousand = q * Thousand + Thousand
    BY <1>1, <1>2
  <2> QED BY <1>1, <1>2, <1>3, <2>2, <2>3
<1>4. CASE ~ (u >= Thousand)
  <2>1. DelayTicks(u) = u
    BY <1>1, <1>4, DivExact DEF DelayTicks, TIMER_FREQ
  <2> QED BY <1>1, <1>4, <2>1
<1> QED BY <1>3, <1>4

\* Thousands of natural numbers are natural numbers.
LEMMA TimesHz ==
    ASSUME NEW t \in Nat
    PROVE  t * Thousand \in Nat /\ (t + 1) * Thousand \in Nat
  BY NexellTimerAssumption

\* Sums of the clock's values, for the provers.
LEMMA WakeLater ==
    \A p, f, t, u, m \in Nat : p = f /\ m = u + t => t + u + f <= p + m
  OBVIOUS

\* Past the time to wake, the delay has passed.
LEMMA WokeLate ==
    \A e, f, t, u, m \in Nat : t + u + f <= e + m /\ ~ (m > t) => e - f >= u
  OBVIOUS

\* The bound on a delay survives a look at the counter.
LEMMA WakeKept ==
    \A t, u, f, p, m, l, e \in Nat :
        t + u + f <= p + m /\ l + p <= t + e => l + u + f <= e + m
  OBVIOUS

\* The bound on a timeout survives a look at the counter.
LEMMA StampSlower ==
    \A t, s, p, d, e, l \in Nat : t + s < p + d /\ l + p <= t + e => l + s < e + d
  OBVIOUS

\* What a look at the counter does: the time stamp advances, by no more than the
\* time that has passed since the look before.
LEMMA Poll ==
    ASSUME TypeOK, Behind, get_timer_masked, UNCHANGED clock
    PROVE  /\ now' \in 0 .. TIMER_COUNT /\ lastdec' \in 0 .. TIMER_COUNT
           /\ timestamp' \in Nat /\ elapsed' \in Nat /\ polledAt' \in Nat
           /\ wraps' \in Nat /\ rolls' \in Nat /\ wrapsThen' \in Nat
           /\ polledAt' = elapsed /\ elapsed' = elapsed
           /\ timestamp <= timestamp' /\ timestamp' + polledAt <= timestamp + elapsed
           /\ Behind'
  BY NexellTimerAssumption DEF TypeOK, Behind, Ahead, get_timer_masked, Looked, clock

\* While the clock ticks nothing else changes.
LEMMA TickStep == ASSUME SlowInv, Tick PROVE SlowInv'
<1>1. TypeOK'
  BY NexellTimerAssumption DEF SlowInv, TypeOK, Tick, delayVars, timeoutVars
<1>2. Behind'
  BY NexellTimerAssumption DEF SlowInv, TypeOK, Behind, Ahead, Tick
<1>3. DelayInv' /\ TimeoutInv'
  BY DEF SlowInv, DelayInv, TimeoutInv, Tick, delayVars, timeoutVars
<1> QED BY <1>1, <1>2, <1>3 DEF SlowInv

\* A delay begins at the time stamp of its own look at the counter.
LEMMA UdelayBeginsStep == ASSUME SlowInv, UdelayBegins PROVE SlowInv'
<1>1. get_timer_masked /\ UNCHANGED clock
  BY DEF UdelayBegins
<1>2. TypeOK /\ Behind
  BY DEF SlowInv
<1>3. TypeOK'
  <2>1. usec' \in Nat /\ timestamp' \in Nat
    BY <1>1, <1>2, Poll, NexellTimerAssumption DEF UdelayBegins
  <2>2. tmo' \in Nat
    BY <2>1, Ticks DEF UdelayBegins
  <2> QED BY <1>1, <1>2, <2>1, <2>2, Poll, Zenon DEF TypeOK, UdelayBegins, timeoutVars
<1>4. DelayInv'
  <2>1. polledAt' = from' /\ tmo' = DelayTicks(usec') + timestamp'
    BY <1>1, <1>2, Poll DEF UdelayBegins
  <2>2. /\ polledAt' \in Nat /\ from' \in Nat /\ timestamp' \in Nat /\ tmo' \in Nat
        /\ DelayTicks(usec') \in Nat
    BY <1>3, Ticks DEF TypeOK
  <2>3. timestamp' + DelayTicks(usec') + from' <= polledAt' + tmo'
    BY <2>1, <2>2, WakeLater, Zenon
  <2> QED BY <2>3 DEF DelayInv
<1>5. TimeoutInv'
  <2> SUFFICES ASSUME handler' = "set"
               PROVE  timestamp' + since' < polledAt' + (time_start' + 1) * Thousand
    BY DEF TimeoutInv
  <2>1. handler = "set" /\ since' = since /\ time_start' = time_start
    BY DEF UdelayBegins, timeoutVars
  <2>2. timestamp + since < polledAt + (time_start + 1) * Thousand
    BY <2>1 DEF SlowInv, TimeoutInv
  <2>3. (time_start + 1) * Thousand \in Nat
    BY <1>2, TimesHz DEF TypeOK
  <2> QED BY <1>1, <1>2, <2>1, <2>2, <2>3, Poll DEF TypeOK
<1> QED BY <1>1, <1>2, <1>3, <1>4, <1>5, Poll DEF SlowInv

\* The loop of a delay looks at the counter and leaves the time to wake alone.
LEMMA UdelayLoopsStep ==
    ASSUME SlowInv, UdelayLoops
    PROVE  SlowInv' /\ (pc' = "run" => elapsed - from >= DelayTicks(usec))
<1>1. get_timer_masked /\ UNCHANGED clock
  BY DEF UdelayLoops
<1>2. TypeOK /\ Behind
  BY DEF SlowInv
<1>3. TypeOK'
  BY <1>1, <1>2, Poll DEF TypeOK, UdelayLoops, timeoutVars
<1>4. timestamp' + DelayTicks(usec) + from <= polledAt' + tmo
  <2>1. timestamp + DelayTicks(usec) + from <= polledAt + tmo
    BY DEF SlowInv, DelayInv, UdelayLoops
  <2>2. timestamp' + polledAt <= timestamp + elapsed /\ timestamp' \in Nat /\ polledAt' = elapsed
    BY <1>1, <1>2, Poll
  <2>3. /\ timestamp \in Nat /\ polledAt \in Nat /\ elapsed \in Nat /\ from \in Nat /\ tmo \in Nat
        /\ DelayTicks(usec) \in Nat
    BY <1>2, Ticks DEF TypeOK
  <2> QED BY <2>1, <2>2, <2>3, WakeKept, Zenon
<1>5. DelayInv'
  BY <1>4 DEF DelayInv, UdelayLoops
<1>6. pc' = "run" => elapsed - from >= DelayTicks(usec)
  <2>1. pc' = "run" => ~ (tmo > timestamp')
    BY DEF UdelayLoops
  <2>2. timestamp' + DelayTicks(usec) + from <= elapsed + tmo /\ timestamp' \in Nat
    BY <1>1, <1>2, <1>4, Poll
  <2>3. elapsed \in Nat /\ from \in Nat /\ DelayTicks(usec) \in Nat /\ tmo \in Nat
    BY <1>2, Ticks DEF TypeOK
  <2> QED BY <2>1, <2>2, <2>3, WokeLate, Zenon
<1>7. TimeoutInv'
  <2> SUFFICES ASSUME handler' = "set"
               PROVE  timestamp' + since' < polledAt' + (time_start' + 1) * Thousand
    BY DEF TimeoutInv
  <2>1. handler = "set" /\ since' = since /\ time_start' = time_start
    BY DEF UdelayLoops, timeoutVars
  <2>2. timestamp + since < polledAt + (time_start + 1) * Thousand
    BY <2>1 DEF SlowInv, TimeoutInv
  <2>3. (time_start + 1) * Thousand \in Nat
    BY <1>2, TimesHz DEF TypeOK
  <2> QED BY <1>1, <1>2, <2>1, <2>2, <2>3, Poll DEF TypeOK
<1> QED BY <1>1, <1>2, <1>3, <1>5, <1>6, <1>7, Poll DEF SlowInv

\* A timeout starts from the time stamp rounded down to milliseconds.
LEMMA SetTimeoutStep == ASSUME SlowInv, SetTimeout PROVE SlowInv'
<1>1. get_timer_masked /\ UNCHANGED clock
  BY DEF SetTimeout
<1>2. TypeOK /\ Behind
  BY DEF SlowInv
<1>3. /\ time_start' = timestamp' \div Thousand - 0
      /\ timestamp' \in Nat
  BY <1>1, <1>2, Poll, Hertz DEF SetTimeout, get_timer
<1>4. time_start' \in Nat /\ timestamp' < (time_start' + 1) * Thousand
  BY <1>3, DivBounds
<1>5. TypeOK'
  <2>1. time_delta' \in Nat
    BY NexellTimerAssumption, DivExact DEF SetTimeout, CONFIG_SYS_HZ
  <2> QED BY <1>1, <1>2, <1>4, <2>1, Poll DEF TypeOK, SetTimeout, delayVars
<1>6. DelayInv'
  BY DEF DelayInv, SetTimeout, delayVars
<1>7. TimeoutInv'
  <2>1. polledAt' = elapsed /\ since' = elapsed /\ elapsed \in Nat
    BY <1>1, <1>2, Poll DEF SetTimeout, TypeOK
  <2>2. (time_start' + 1) * Thousand \in Nat
    BY <1>4, TimesHz
  <2> QED BY <1>3, <1>4, <2>1, <2>2 DEF TimeoutInv
<1> QED BY <1>1, <1>2, <1>5, <1>6, <1>7, Poll DEF SlowInv

\* Without a timeout nothing is claimed of one.
LEMMA CancelTimeoutStep == ASSUME SlowInv, CancelTimeout PROVE SlowInv'
<1>1. TypeOK'
  BY DEF SlowInv, TypeOK, CancelTimeout, clock, delayVars
<1>2. Behind'
  BY DEF SlowInv, Behind, Ahead, CancelTimeout, clock
<1>3. DelayInv' /\ TimeoutInv'
  BY DEF SlowInv, DelayInv, TimeoutInv, CancelTimeout, delayVars
<1> QED BY <1>1, <1>2, <1>3 DEF SlowInv

\* A timeout that comes is more than time_delta whole milliseconds after the one
\* it started in.
LEMMA CheckTimeoutStep ==
    ASSUME SlowInv, CheckTimeout
    PROVE  SlowInv' /\ (handler' = "none" => elapsed - since > time_delta * Thousand)
<1>1. get_timer_masked /\ UNCHANGED clock
  BY DEF CheckTimeout
<1>2. TypeOK /\ Behind
  BY DEF SlowInv
<1>3. TypeOK'
  BY <1>1, <1>2, Poll DEF TypeOK, CheckTimeout, delayVars
<1>4. DelayInv'
  <2>1. pc' # "delay"
    BY DEF CheckTimeout, delayVars
  <2> QED BY <2>1 DEF DelayInv
<1>5. /\ time_start \in Nat /\ time_delta \in Nat /\ since \in Nat /\ elapsed \in Nat
      /\ polledAt \in Nat /\ timestamp \in Nat /\ timestamp' \in Nat
      /\ (time_start + 1) * Thousand \in Nat
  BY <1>1, <1>2, Poll, TimesHz DEF TypeOK
<1>6. timestamp + since < polledAt + (time_start + 1) * Thousand
  BY DEF SlowInv, TimeoutInv, CheckTimeout
<1>7. timestamp' + since < elapsed + (time_start + 1) * Thousand
  <2>1. timestamp' + polledAt <= timestamp + elapsed
    BY <1>1, <1>2, Poll
  <2> QED BY <1>5, <1>6, <2>1, StampSlower, Zenon
<1>8. TimeoutInv'
  BY <1>1, <1>2, <1>7, Poll DEF TimeoutInv, CheckTimeout
<1>9. ASSUME handler' = "none"
      PROVE  elapsed - since > time_delta * Thousand
  <2> DEFINE q == timestamp' \div Thousand
  <2>1. q \in Nat /\ q * Thousand <= timestamp'
    BY <1>5, DivBounds
  <2>2. q - time_start > time_delta
    BY <1>9, <1>5, <2>1, Hertz DEF CheckTimeout, get_timer
  <2> HIDE DEF q
  <2>3. q >= time_start + 1 + time_delta
    BY <1>5, <2>1, <2>2
  <2>4. q * Thousand >= (time_start + 1) * Thousand + time_delta * Thousand
    BY <1>5, <2>1, <2>3, NexellTimerAssumption
  <2>5. time_delta * Thousand \in Nat /\ q * Thousand \in Nat
    BY <1>5, <2>1, TimesHz
  <2> QED BY <1>5, <1>7, <2>1, <2>4, <2>5
<1> QED BY <1>1, <1>2, <1>3, <1>4, <1>8, <1>9, Poll DEF SlowInv

\* The invariant holds after timer_init().
LEMMA SlowInvInit == Init => SlowInv
<1> SUFFICES ASSUME Init PROVE SlowInv
  OBVIOUS
<1>1. TypeOK
  BY NexellTimerAssumption DEF Init, TypeOK
<1>2. Behind
  BY <1>1 DEF Init, Behind, Ahead, TypeOK
<1> QED BY <1>1, <1>2 DEF Init, SlowInv, DelayInv, TimeoutInv

\* Every step keeps the invariant.
LEMMA SlowInvNext == SlowInv /\ [Next]_vars => SlowInv'
<1> SUFFICES ASSUME SlowInv, [Next]_vars PROVE SlowInv'
  OBVIOUS
<1>1. CASE UNCHANGED vars
  BY <1>1 DEF vars, clock, delayVars, timeoutVars, SlowInv, TypeOK, Behind, Ahead, DelayInv,
              TimeoutInv
<1> QED BY <1>1, TickStep, UdelayBeginsStep, UdelayLoopsStep, SetTimeoutStep, CancelTimeoutStep,
           CheckTimeoutStep
           DEF Next

\* The time stamp is never faster than time, since a delay or a timeout began.
THEOREM SlowInvariant == Spec => []SlowInv
  BY SlowInvInit, SlowInvNext, PTL DEF Spec

\* The values of the clock, of a delay and of a timeout keep their types: the time
\* stamp get_timer_masked computes is never negative, whenever it is called.
THEOREM TypeCorrect == Spec => []TypeOK
<1>1. SlowInv => TypeOK
  BY DEF SlowInv
<1> QED BY <1>1, SlowInvariant, PTL

\* __udelay() never returns before the time it was asked to wait has passed, but for
\* the part of a millisecond it drops, for any delay, any width of the counter and
\* any time between two looks at it.
THEOREM DelayTheorem == Spec => DelayNotShort
<1> DEFINE Late == \/ elapsed - from >= usec
                   \/ usec >= Thousand /\ elapsed - from > usec - Thousand
<1>1. SlowInv /\ [Next]_vars => [pc = "delay" /\ pc' = "run" => Late]_vars
  <2> SUFFICES ASSUME SlowInv, Next, pc = "delay", pc' = "run" PROVE Late
    OBVIOUS
  <2>1. UdelayLoops
    BY DEF Next, Tick, UdelayBegins, SetTimeout, CancelTimeout, CheckTimeout, delayVars
  <2>2. elapsed - from >= DelayTicks(usec)
    BY <2>1, UdelayLoopsStep
  <2>3. elapsed \in Nat /\ from \in Nat /\ usec \in Nat /\ Thousand \in Nat
    BY NexellTimerAssumption DEF SlowInv, TypeOK
  <2>4. /\ DelayTicks(usec) \in Nat
        /\ usec < Thousand => DelayTicks(usec) = usec
        /\ DelayTicks(usec) > usec - Thousand
    BY <2>3, Ticks
  <2> HIDE DEF DelayTicks
  <2> QED BY <2>2, <2>3, <2>4
<1> QED BY <1>1, SlowInvariant, PTL DEF Spec, DelayNotShort

\* A timeout of net_loop() never comes before its time, whatever the rounding of
\* get_timer() and the time between two looks at the counter.
THEOREM TimeoutTheorem == Spec => TimeoutNotEarly
<1>1. SlowInv => [CheckTimeout /\ handler' = "none" => elapsed - since > time_delta * TIMER_HZ]_vars
  BY CheckTimeoutStep, Hertz
<1> QED BY <1>1, SlowInvariant, PTL DEF Spec, TimeoutNotEarly

-----------------------------------------------------------------------------

\* What a round is, and the rounds of one roll-over more.
LEMMA Rounds ==
    /\ Round \in Nat
    /\ \A n \in Nat : n * Round \in Nat /\ (n + 1) * Round = n * Round + Round
  BY NexellTimerAssumption DEF Round

\* The balance after a tick ...
LEMMA TickSum ==
    \A e, l, c, t, o, n, a \in Nat :
        Balance(e, l, c, t, o, n, a) => Balance(e + 1, l, c, t, o, n + 1, a)
  BY DEF Balance

\* ... one that rolls over ...
LEMMA TickRollSum ==
    \A e, l, c, t, o, n, a, r \in Nat :
        Balance(e, l, c, t, o, n, a) /\ n + 1 = r => Balance(e + 1, l, c, t, o, 0, a + r)
  BY DEF Balance

\* ... a look that sees no roll-over, after which the time stamp is s ...
LEMMA LookSum ==
    \A e, l, c, t, o, n, a, s \in Nat :
        Balance(e, l, c, t, o, n, a) /\ s + l = t + n => Balance(e, n, c, s, o, n, a)
  BY DEF Balance

\* ... a look that sees one ...
LEMMA LookRollSum ==
    \A e, l, c, t, o, n, a, s, r \in Nat :
        Balance(e, l, c, t, o, n, a) /\ s + l + 1 = t + n + r =>
            Balance(e, n, c + r, s, o + 1, n, a)
  BY DEF Balance

\* ... and the time stamp after it.
LEMMA StampSum ==
    \A e, c, t, o, n, a \in Nat : Balance(e, n, c, t, o, n, a) => Stamp(e, c, t, o, a)
  BY DEF Balance, Stamp

\* What is missing from the time stamp, when w of the roll-overs were not seen.
LEMMA MissingSum ==
    \A p, c, t, o, b \in Nat, w \in Int :
        Stamp(p, c, t, o, b) /\ w = b - c => t = p - o - w
  BY DEF Stamp

\* A tick moves the counter and time alike.
LEMMA ClockTick == ASSUME TypeOK, ClockInv, Tick PROVE ClockInv'
<1>1. /\ elapsed \in Nat /\ lastdec \in Nat /\ now \in Nat /\ timestamp \in Nat
      /\ rolls \in Nat /\ Round \in Nat /\ wraps * Round \in Nat /\ rolls * Round \in Nat
      /\ (rolls + 1) * Round = rolls * Round + Round
      /\ (wraps + 1) * Round = wraps * Round + Round
  BY Rounds, NexellTimerAssumption DEF TypeOK
<1>2. elapsed' = elapsed + 1 /\ lastdec' = lastdec /\ rolls' = rolls /\ timestamp' = timestamp
  BY DEF Tick
<1>3. CASE now = TIMER_COUNT
  <2>1. now' = 0 /\ wraps' = wraps + 1 /\ now + 1 = Round
    BY <1>3 DEF Tick, Round
  <2>2. Balance(elapsed + 1, lastdec, rolls * Round, timestamp, rolls, 0, wraps * Round + Round)
    BY <1>1, <2>1, TickRollSum, Zenon DEF ClockInv
  <2> QED BY <1>1, <1>2, <2>1, <2>2, Zenon DEF ClockInv, Round
<1>4. CASE now # TIMER_COUNT
  <2>1. now' = now + 1 /\ wraps' = wraps
    BY <1>4 DEF Tick
  <2>2. Balance(elapsed + 1, lastdec, rolls * Round, timestamp, rolls, now + 1, wraps * Round)
    BY <1>1, TickSum, Zenon DEF ClockInv
  <2> QED BY <1>2, <2>1, <2>2, Zenon DEF ClockInv, Round
<1> QED BY <1>3, <1>4, Zenon

\* A look at the counter adds what the counter shows.
LEMMA ClockLook ==
    ASSUME TypeOK, ClockInv, get_timer_masked, UNCHANGED clock, TypeOK'
    PROVE  ClockInv' /\ StampInv'
<1>1. /\ elapsed \in Nat /\ lastdec \in Nat /\ now \in Nat /\ timestamp \in Nat
      /\ rolls \in Nat /\ Round \in Nat /\ wraps * Round \in Nat /\ rolls * Round \in Nat
      /\ (rolls + 1) * Round = rolls * Round + Round
      /\ (wraps + 1) * Round = wraps * Round + Round
  BY Rounds, NexellTimerAssumption DEF TypeOK
<1>2. /\ lastdec' = now /\ now' = now /\ elapsed' = elapsed /\ polledAt' = elapsed
      /\ wrapsThen' = wraps /\ wraps' = wraps
  BY DEF get_timer_masked, Looked, clock
<1>3. timestamp' \in Nat /\ rolls' \in Nat /\ rolls' * Round \in Nat
  BY Rounds, Zenon DEF TypeOK
<1>4. Balance(elapsed, now, rolls' * Round, timestamp', rolls', now, wraps * Round)
  <2>1. CASE now >= lastdec
    <3>1. timestamp' + lastdec = timestamp + now /\ rolls' = rolls
      BY <1>1, <2>1 DEF get_timer_masked, Looked
    <3>2. Balance(elapsed, now, rolls * Round, timestamp', rolls, now, wraps * Round)
      BY <1>1, <1>3, <3>1, LookSum, Zenon DEF ClockInv
    <3> QED BY <3>1, <3>2, Zenon
  <2>2. CASE ~ (now >= lastdec)
    <3>1. rolls' = rolls + 1
      BY <2>2 DEF get_timer_masked, Looked
    <3>2. timestamp' + lastdec + 1 = timestamp + now + Round
      BY <1>1, <2>2, NexellTimerAssumption DEF get_timer_masked, Round
    <3>3. Balance(elapsed, now, rolls * Round + Round, timestamp', rolls + 1, now, wraps * Round)
      BY <1>1, <1>3, <3>2, LookRollSum, Zenon DEF ClockInv
    <3> QED BY <1>1, <3>1, <3>3, Zenon
  <2> QED BY <2>1, <2>2, Zenon
<1>5. Stamp(elapsed, rolls' * Round, timestamp', rolls', wraps * Round)
  BY <1>1, <1>3, <1>4, StampSum, Zenon
<1> QED BY <1>2, <1>4, <1>5, Zenon DEF ClockInv, StampInv, Round

\* The time stamp misses one tick for every roll-over get_timer_masked() sees, a
\* round for every one it does not see, and nothing else.
THEOREM AccurateTheorem == Spec => []Accurate
<1>1. Init => ClockInv /\ StampInv
  BY NexellTimerAssumption DEF Init, ClockInv, StampInv, Balance, Stamp, Round
<1>2. TypeOK /\ TypeOK' /\ ClockInv /\ StampInv /\ [Next]_vars => ClockInv' /\ StampInv'
  <2> SUFFICES ASSUME TypeOK, TypeOK', ClockInv, StampInv, [Next]_vars
               PROVE  ClockInv' /\ StampInv'
    OBVIOUS
  <2>1. CASE UNCHANGED vars
    BY <2>1 DEF vars, clock, ClockInv, StampInv, Round
  <2>2. CASE Tick
    <3>1. StampInv'
      BY <2>2 DEF Tick, StampInv, Round
    <3> QED BY <2>2, <3>1, ClockTick
  <2>3. CASE UdelayBegins \/ UdelayLoops \/ SetTimeout \/ CheckTimeout
    BY <2>3, ClockLook DEF UdelayBegins, UdelayLoops, SetTimeout, CheckTimeout
  <2>4. CASE CancelTimeout
    BY <2>4 DEF CancelTimeout, clock, ClockInv, StampInv, Round
  <2> QED BY <2>1, <2>2, <2>3, <2>4 DEF Next
<1>3. TypeOK /\ StampInv => Accurate
  <2> SUFFICES ASSUME TypeOK, StampInv PROVE Accurate
    OBVIOUS
  <2>1. /\ timestamp \in Nat /\ rolls \in Nat /\ polledAt \in Nat /\ wrapsThen \in Nat
        /\ wrapsThen * Round \in Nat /\ rolls * Round \in Nat
    BY Rounds DEF TypeOK
  <2>2. /\ (wrapsThen - rolls) * Round \in Int
        /\ (wrapsThen - rolls) * Round = wrapsThen * Round - rolls * Round
    BY <2>1, Rounds
  <2> QED BY <2>1, <2>2, MissingSum, Zenon DEF StampInv, Accurate, Round
<1> QED BY <1>1, <1>2, <1>3, TypeCorrect, PTL DEF Spec
=============================================================================
