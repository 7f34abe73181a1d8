------------------------ MODULE ClockReadings_proofs ------------------------
(***************************************************************************)
(* Theorems about the conversions of PerfectClock, about ClockReadings,    *)
(* and about Watchdog on its node: for every frequency, offset, delay and  *)
(* global time.                                                            *)
(***************************************************************************)
EXTENDS Watchdog, TLAPS

\* Time (double) yields a time.
LEMMA LroundType ==
  ASSUME NEW p \in Int, NEW q \in Nat \ {0}
  PROVE  Lround(p, q) \in Int
BY DEF Lround

\* Local times are times, also for a clock whose frequency is 0.
LEMMA GlobalToLocalTimeType ==
  ASSUME NEW c \in [num : Nat, den : Nat \ {0}, offset : Int],
         NEW g \in Int
  PROVE  GlobalToLocalTime(c, g) \in Int
<1>1. g * c.num \in Int
  OBVIOUS
<1>2. Lround(g * c.num, c.den) \in Int
  BY <1>1, LroundType
<1> QED  BY <1>2 DEF GlobalToLocalTime

\* Quotients by a positive number are integers.
LEMMA QuotientType ==
  ASSUME NEW p \in Int, NEW q \in Nat \ {0}
  PROVE  p \div q \in Int
OBVIOUS

\* Global times are times.
LEMMA LocalToGlobalTimeType ==
  ASSUME NEW c \in ClockModel, NEW l \in Int
  PROVE  LocalToGlobalTime(c, l) \in Int
<1>1. c.num \in Nat \ {0} /\ c.den \in Int /\ c.offset \in Int
  BY DEF ClockModel
<1>2. (l - c.offset) * c.den \in Int
  BY <1>1
<1> QED  BY <1>1, <1>2, QuotientType DEF LocalToGlobalTime

\* Global delays are times.
LEMMA LocalToGlobalDelayType ==
  ASSUME NEW c \in ClockModel, NEW at \in Int, NEW d \in Int
  PROVE  LocalToGlobalDelay(c, at, d) \in Int
<1>1. GetLocalTime(c, at) \in Int
  BY GlobalToLocalTimeType DEF GetLocalTime, ClockModel
<1>2. LocalToGlobalTime(c, GetLocalTime(c, at) + d) \in Int
  BY <1>1, LocalToGlobalTimeType
<1> QED  BY <1>2 DEF LocalToGlobalDelay

\* Local delays are times, also for a clock whose frequency is 0.
LEMMA GlobalToLocalDelayType ==
  ASSUME NEW c \in [num : Nat, den : Nat \ {0}, offset : Int],
         NEW at \in Int, NEW d \in Int
  PROVE  GlobalToLocalDelay(c, at, d) \in Int
<1>1. GlobalToLocalTime(c, at + d) \in Int /\ GlobalToLocalTime(c, at) \in Int
  BY GlobalToLocalTimeType
<1> QED  BY <1>1 DEF GlobalToLocalDelay, GetLocalTime

-----------------------------------------------------------------------------
\* A clock with an integral frequency: no rounding takes place.
IntegralRate(c) == c \in ClockModel /\ c.den = 1

\* lround of an integer is that integer.
LEMMA LroundExact ==
  ASSUME NEW p \in Int
  PROVE  Lround(p, 1) = p
BY DEF Lround

\* A quotient of a multiple is exact.
LEMMA ExactQuotient ==
  ASSUME NEW k \in Int, NEW n \in Nat \ {0}
  PROVE  (k * n) \div n = k
OBVIOUS

\* With an integral frequency the global time is recovered exactly from the
\* local time, so an event scheduled "now" is due now (ScheduleNow, line 349
\* of localtime-simulator-impl.cc).  No such theorem holds for other
\* frequencies.
THEOREM IntegralRateNow ==
  ASSUME NEW c, IntegralRate(c), NEW at \in Int
  PROVE  LocalToGlobalDelay(c, at, 0) = 0
<1>1. /\ c \in ClockModel
      /\ c.num \in Nat \ {0}
      /\ c.den = 1
      /\ c.offset \in Int
  BY DEF IntegralRate, ClockModel
<1> DEFINE l == GetLocalTime(c, at) + 0
<1>2. at * c.num \in Int
  BY <1>1
<1>3. l = at * c.num + c.offset
  BY <1>1, <1>2, LroundExact DEF GetLocalTime, GlobalToLocalTime
<1> HIDE DEF l
<1>4. (l - c.offset) * c.den = at * c.num
  BY <1>1, <1>2, <1>3
<1>5. (at * c.num) \div c.num = at
  BY <1>1, ExactQuotient
<1>6. LocalToGlobalTime(c, l) = at
  BY <1>4, <1>5 DEF LocalToGlobalTime
<1> QED  BY <1>6 DEF LocalToGlobalDelay, l

-----------------------------------------------------------------------------
(***************************************************************************)
(* Rounding.  Both conversions are characterised by inequalities without   *)
(* quotients; what follows is linear in the products that occur in them.   *)
(***************************************************************************)

\* What a quotient is.
LEMMA QuotientBounds ==
  ASSUME NEW p \in Int, NEW q \in Nat \ {0}
  PROVE  /\ p \div q \in Int
         /\ q * (p \div q) <= p
         /\ p < q * (p \div q) + q
OBVIOUS

\* A floor is the greatest integer that is small enough.
LEMMA QuotientGreatest ==
  ASSUME NEW p \in Int, NEW q \in Nat \ {0}, NEW k \in Int, q * k <= p
  PROVE  k <= p \div q
<1> DEFINE m == p \div q
<1>1. m \in Int /\ p < q * m + q
  BY QuotientBounds
<1> HIDE DEF m
<1>2. q * k < q * (m + 1)
  BY <1>1
<1>3. k < m + 1
  BY <1>1, <1>2
<1> QED  BY <1>1, <1>3 DEF m

\* lround is off by half at most.
LEMMA LroundBounds ==
  ASSUME NEW p \in Int, NEW q \in Nat \ {0}
  PROVE  /\ Lround(p, q) \in Int
         /\ 2 * p - q <= 2 * (q * Lround(p, q))
         /\ 2 * (q * Lround(p, q)) <= 2 * p + q
<1>1. CASE p >= 0
  <2> DEFINE m == (2 * p + q) \div (2 * q)
  <2>1. 2 * p + q \in Int /\ 2 * q \in Nat \ {0}
    OBVIOUS
  <2>2. m \in Int /\ (2 * q) * m <= 2 * p + q /\ 2 * p + q < (2 * q) * m + 2 * q
    BY <2>1, QuotientBounds
  <2>3. Lround(p, q) = m
    BY <1>1 DEF Lround
  <2> HIDE DEF m
  <2>4. (2 * q) * m = 2 * (q * m)
    BY <2>2
  <2> QED  BY <2>2, <2>3, <2>4
<1>2. CASE ~(p >= 0)
  <2> DEFINE m == (q - 2 * p) \div (2 * q)
  <2>1. q - 2 * p \in Int /\ 2 * q \in Nat \ {0}
    OBVIOUS
  <2>2. m \in Int /\ (2 * q) * m <= q - 2 * p /\ q - 2 * p < (2 * q) * m + 2 * q
    BY <2>1, QuotientBounds
  <2>3. Lround(p, q) = -m
    BY <1>2 DEF Lround
  <2> HIDE DEF m
  <2>4. (2 * q) * m = 2 * (q * m) /\ q * (-m) = -(q * m)
    BY <2>2
  <2> QED  BY <2>2, <2>3, <2>4
<1> QED  BY <1>1, <1>2

\* A positive local delay never becomes a negative global one: the assertion
\* in Schedule (lines 262 to 264 of localtime-simulator-impl.cc) does not fail,
\* whatever the frequency, the offset and the time.
THEOREM PositiveDelay ==
  ASSUME NEW c \in ClockModel, NEW at \in Int, NEW d \in Nat \ {0}
  PROVE  LocalToGlobalDelay(c, at, d) >= 0
<1> DEFINE p == at * c.num
           r == Lround(p, c.den)
           l == GetLocalTime(c, at) + d
<1>1. c.num \in Nat \ {0} /\ c.den \in Nat \ {0} /\ c.offset \in Int
  BY DEF ClockModel
<1>2. p \in Int
  BY <1>1
<1>3. r \in Int /\ 2 * p - c.den <= 2 * (c.den * r)
  BY <1>1, <1>2, LroundBounds
<1>4. l - c.offset = r + d /\ l \in Int
  BY <1>1, <1>3 DEF GetLocalTime, GlobalToLocalTime
<1> HIDE DEF p, r, l
<1>5. (r + d) * c.den = c.den * r + c.den * d /\ c.den * d >= c.den
  BY <1>1, <1>3
<1>6. c.den * r \in Int /\ c.den * d \in Int
  BY <1>1, <1>3
<1>7. p <= (r + d) * c.den
  BY <1>1, <1>2, <1>3, <1>5, <1>6
<1>8. c.num * at = p
  BY <1>1 DEF p
<1>9. (r + d) * c.den \in Int
  BY <1>1, <1>3
<1>10. at <= ((r + d) * c.den) \div c.num
  BY <1>1, <1>7, <1>8, <1>9, QuotientGreatest
<1>11. LocalToGlobalTime(c, l) = ((r + d) * c.den) \div c.num
  BY <1>4 DEF LocalToGlobalTime
<1>12. LocalToGlobalTime(c, l) \in Int
  BY <1>4, LocalToGlobalTimeType
<1>13. LocalToGlobalDelay(c, at, d) = LocalToGlobalTime(c, l) - at
  BY DEF LocalToGlobalDelay, l
<1> QED  BY <1>10, <1>11, <1>12, <1>13

-----------------------------------------------------------------------------
\* The event of the timer has the time stamp its target stands for.
Inv == TypeOK /\ fires = LocalToGlobalTime(clock, target)

\* lround does not exceed an integer bound of the quotient.
LEMMA LroundAtMost ==
  ASSUME NEW p \in Int, NEW q \in Nat \ {0}, NEW k \in Int, p <= q * k
  PROVE  Lround(p, q) <= k
<1> DEFINE r == Lround(p, q)
<1>1. r \in Int /\ 2 * (q * r) <= 2 * p + q
  BY LroundBounds
<1> HIDE DEF r
<1>2. q * r \in Int /\ q * k \in Int
  BY <1>1
<1>3. q * r < q * k + q
  BY <1>1, <1>2
<1>4. q * r < q * (k + 1)
  BY <1>1, <1>3
<1>5. r < k + 1
  BY <1>1, <1>4
<1> QED  BY <1>1, <1>5 DEF r

LEMMA LroundAtLeast ==
  ASSUME NEW p \in Int, NEW q \in Nat \ {0}, NEW k \in Int, q * k <= p
  PROVE  k <= Lround(p, q)
<1> DEFINE r == Lround(p, q)
<1>1. r \in Int /\ 2 * p - q <= 2 * (q * r)
  BY LroundBounds
<1> HIDE DEF r
<1>2. q * r \in Int /\ q * k \in Int
  BY <1>1
<1>3. q * k < q * r + q
  BY <1>1, <1>2
<1>4. q * k < q * (r + 1)
  BY <1>1, <1>3
<1>5. k < r + 1
  BY <1>1, <1>4
<1> QED  BY <1>1, <1>5 DEF r

LEMMA LroundMonotone ==
  ASSUME NEW p \in Int, NEW r \in Int, NEW q \in Nat \ {0}, p <= r
  PROVE  Lround(p, q) <= Lround(r, q)
<1>1. CASE p >= 0
  <2> DEFINE m == (2 * p + q) \div (2 * q)
  <2>1. 2 * p + q \in Int /\ 2 * q \in Nat \ {0} /\ 2 * r + q \in Int
    OBVIOUS
  <2>2. m \in Int /\ (2 * q) * m <= 2 * p + q
    BY <2>1, QuotientBounds
  <2>3. Lround(p, q) = m /\ Lround(r, q) = (2 * r + q) \div (2 * q)
    BY <1>1 DEF Lround
  <2> HIDE DEF m
  <2>4. (2 * q) * m <= 2 * r + q
    BY <2>1, <2>2
  <2> QED  BY <2>1, <2>2, <2>3, <2>4, QuotientGreatest
<1>2. CASE p < 0 /\ r >= 0
  <2>1. p <= q * 0 /\ q * 0 <= r
    BY <1>2
  <2>2. Lround(p, q) <= 0 /\ 0 <= Lround(r, q)
    BY <2>1, LroundAtMost, LroundAtLeast
  <2> QED  BY <2>2, LroundType
<1>3. CASE r < 0
  <2> DEFINE m == (q - 2 * r) \div (2 * q)
  <2>1. q - 2 * p \in Int /\ 2 * q \in Nat \ {0} /\ q - 2 * r \in Int
    OBVIOUS
  <2>2. m \in Int /\ (2 * q) * m <= q - 2 * r
    BY <2>1, QuotientBounds
  <2>3. Lround(r, q) = -m /\ Lround(p, q) = -((q - 2 * p) \div (2 * q))
    BY <1>3 DEF Lround
  <2> HIDE DEF m
  <2>4. (2 * q) * m <= q - 2 * p
    BY <2>1, <2>2
  <2>5. m <= (q - 2 * p) \div (2 * q)
    BY <2>1, <2>2, <2>4, QuotientGreatest
  <2>6. (q - 2 * p) \div (2 * q) \in Int
    BY <2>1, QuotientType
  <2> QED  BY <2>2, <2>3, <2>5, <2>6
<1> QED  BY <1>1, <1>2, <1>3

\* Up to the time stamp of a local time the clock reads that time at most,
\* after it that time at least.
LEMMA ReadingAround ==
  ASSUME NEW c \in ClockModel, NEW t \in Int, NEW g \in Int
  PROVE  /\ g <= LocalToGlobalTime(c, t) => GetLocalTime(c, g) <= t
         /\ g > LocalToGlobalTime(c, t) => GetLocalTime(c, g) >= t
<1> DEFINE k == t - c.offset
           f == (k * c.den) \div c.num
           r == Lround(g * c.num, c.den)
<1>1. c.num \in Nat \ {0} /\ c.den \in Nat \ {0} /\ c.offset \in Int
  BY DEF ClockModel
<1>2. k \in Int /\ k * c.den \in Int /\ k * c.den = c.den * k
  BY <1>1
<1>3. f \in Int /\ c.num * f <= k * c.den /\ k * c.den < c.num * f + c.num
  BY <1>1, <1>2, QuotientBounds
<1>4. g * c.num \in Int /\ g * c.num = c.num * g
  BY <1>1
<1>5. r \in Int
  BY <1>1, <1>4, LroundType
<1>6. LocalToGlobalTime(c, t) = f /\ GetLocalTime(c, g) = r + c.offset
  BY DEF LocalToGlobalTime, GetLocalTime, GlobalToLocalTime
<1>7. ASSUME g <= f PROVE r <= k
  <2> HIDE DEF f, k
  <2>1. c.num * g <= c.num * f
    BY <1>1, <1>3, <1>7
  <2>2. c.num * g \in Int /\ c.num * f \in Int
    BY <1>1, <1>3
  <2>3. g * c.num <= c.den * k
    BY <1>2, <1>3, <1>4, <2>1, <2>2
  <2> QED  BY <1>1, <1>2, <1>4, <2>3, LroundAtMost
<1>8. ASSUME g > f PROVE k <= r
  <2> HIDE DEF f, k
  <2>1. c.num * (f + 1) <= c.num * g
    BY <1>1, <1>3, <1>8
  <2>2. c.num * (f + 1) = c.num * f + c.num /\ c.num * f \in Int
    BY <1>1, <1>3
  <2>3. c.den * k <= g * c.num
    BY <1>1, <1>2, <1>3, <1>4, <2>1, <2>2
  <2> QED  BY <1>1, <1>2, <1>4, <2>3, LroundAtLeast
<1> HIDE DEF f, r
<1> QED  BY <1>1, <1>2, <1>3, <1>5, <1>6, <1>7, <1>8

LEMMA InvInit == Init => Inv
<1> SUFFICES ASSUME Init PROVE Inv
  OBVIOUS
<1>1. clock \in ClockModel /\ now = 0 /\ target = clock.offset /\ fires = 0
  BY ClockAssumption DEF Init
<1>2. clock.num \in Nat \ {0} /\ clock.den \in Int /\ clock.offset \in Int
  BY <1>1 DEF ClockModel
<1>3. (target - clock.offset) * clock.den = 0
  BY <1>1, <1>2
<1>4. 0 \div clock.num = 0
  BY <1>2
<1> QED  BY <1>1, <1>2, <1>3, <1>4 DEF Inv, TypeOK, LocalToGlobalTime

LEMMA InvNext == Inv /\ [Next]_vars => Inv'
<1> SUFFICES ASSUME Inv, [Next]_vars PROVE Inv'
  OBVIOUS
<1>1. CASE SetTimer
  <2>1. PICK d \in Delay : /\ target' = GetLocalTime(clock, now) + d
                           /\ fires' = AbsoluteTime(d)
                           /\ UNCHANGED <<clock, now>>
    BY <1>1 DEF SetTimer
  <2>2. d \in Int /\ clock \in ClockModel /\ now \in Nat
    BY DelayAssumption DEF Inv, TypeOK
  <2>3. GetLocalTime(clock, now) \in Int
    BY <2>2, GlobalToLocalTimeType DEF GetLocalTime, ClockModel
  <2>4. target' \in Int
    BY <2>1, <2>2, <2>3
  <2>5. LocalToGlobalTime(clock, target') \in Int
    BY <2>2, <2>4, LocalToGlobalTimeType
  <2>6. fires' = now + (LocalToGlobalTime(clock, target') - now)
    BY <2>1 DEF AbsoluteTime, LocalToGlobalDelay
  <2>7. fires' = LocalToGlobalTime(clock, target')
    BY <2>2, <2>5, <2>6
  <2> QED  BY <2>1, <2>2, <2>4, <2>5, <2>7 DEF Inv, TypeOK
<1>2. CASE Elapse
  BY <1>2 DEF Inv, TypeOK, Elapse
<1>3. CASE UNCHANGED vars
  BY <1>3 DEF Inv, TypeOK, vars
<1> QED  BY <1>1, <1>2, <1>3 DEF Next

LEMMA InvAlways == Spec => []Inv
BY InvInit, InvNext, PTL DEF Spec

\* A timer is punctual on its own clock to the global time step.
THEOREM TimersOnTime == Spec => []TimerOnTime
<1>1. Inv => TimerOnTime
  BY ReadingAround DEF Inv, TypeOK, TimerOnTime
<1> QED  BY <1>1, InvAlways, PTL

\* Schedule accepts every positive delay, and with an integral frequency an
\* event scheduled "now" is due now.
THEOREM DelaysAccepted == Spec => []DelayAccepted
<1>1. Inv => DelayAccepted
  BY DelayAssumption, PositiveDelay, IntegralRateNow
     DEF Inv, TypeOK, DelayAccepted, IntegralRate
<1> QED  BY <1>1, InvAlways, PTL

\* A clock update that changes nothing moves an event by the rounding only.
THEOREM SameClockStays == Spec => []SameClockMovesLittle
<1>1. ASSUME Inv, NEW g \in Delay
      PROVE  LET moved == LocalToGlobalDelay(clock, now,
                             GlobalToLocalDelay(clock, now, g))
             IN  /\ 2 * clock.num * (moved - g) <= clock.den
                 /\ 2 * clock.num * (g - moved) <= clock.den + 2 * clock.num
  <2> DEFINE t == now + g
             p == t * clock.num
             r == Lround(p, clock.den)
             f == (r * clock.den) \div clock.num
             moved == LocalToGlobalDelay(clock, now,
                         GlobalToLocalDelay(clock, now, g))
  <2>1. /\ clock \in ClockModel /\ now \in Int /\ g \in Int
        /\ clock.num \in Nat \ {0} /\ clock.den \in Nat \ {0}
        /\ clock.offset \in Int
    BY <1>1, DelayAssumption DEF Inv, TypeOK, ClockModel
  <2>2. t \in Int /\ p \in Int /\ p = clock.num * t
    BY <2>1
  <2>3. /\ r \in Int
        /\ 2 * p - clock.den <= 2 * (clock.den * r)
        /\ 2 * (clock.den * r) <= 2 * p + clock.den
    BY <2>1, <2>2, LroundBounds
  <2>4. r * clock.den \in Int /\ r * clock.den = clock.den * r
    BY <2>1, <2>3
  <2>5. /\ f \in Int
        /\ clock.num * f <= r * clock.den
        /\ r * clock.den < clock.num * f + clock.num
    BY <2>1, <2>4, QuotientBounds
  <2>6. moved = f - now
    <3>1. GetLocalTime(clock, now) \in Int
      BY <2>1, GlobalToLocalTimeType DEF GetLocalTime, ClockModel
    <3>2. GlobalToLocalTime(clock, now + g) = r + clock.offset
      BY DEF GlobalToLocalTime
    <3>3. GetLocalTime(clock, now) + GlobalToLocalDelay(clock, now, g)
            = r + clock.offset
      <4> HIDE DEF r
      <4> QED  BY <2>1, <2>3, <3>1, <3>2 DEF GlobalToLocalDelay
    <3>4. (r + clock.offset) - clock.offset = r
      <4> HIDE DEF r
      <4> QED  BY <2>1, <2>3
    <3> QED  BY <3>3, <3>4 DEF LocalToGlobalDelay, LocalToGlobalTime
  <2> HIDE DEF p, r, f, moved
  <2>7. moved - g = f - t /\ g - moved = t - f
    BY <2>1, <2>2, <2>5, <2>6
  <2> HIDE DEF t
  <2>8. /\ 2 * clock.num * (f - t) = 2 * (clock.num * f) - 2 * p
        /\ 2 * clock.num * (t - f) = 2 * p - 2 * (clock.num * f)
        /\ clock.num * f \in Int
    BY <2>1, <2>2, <2>5
  <2>9. /\ 2 * clock.num * (f - t) <= clock.den
        /\ 2 * clock.num * (t - f) <= clock.den + 2 * clock.num
    BY <2>1, <2>2, <2>3, <2>4, <2>5, <2>8
  <2> QED  BY <2>7, <2>9 DEF moved
<1>2. Inv => SameClockMovesLittle
  BY <1>1 DEF SameClockMovesLittle
<1> QED  BY <1>2, InvAlways, PTL

\* The local clock does not run backwards.
THEOREM LocalTimeAdvances == Spec => ReadingAdvances
<1>1. Inv /\ [Next]_vars =>
        [GetLocalTime(clock', now') >= GetLocalTime(clock, now)]_vars
  <2> SUFFICES ASSUME Inv, Next
               PROVE  GetLocalTime(clock', now') >= GetLocalTime(clock, now)
    OBVIOUS
  <2>1. /\ clock \in ClockModel /\ now \in Int /\ now' \in Int /\ clock' = clock
        /\ now <= now'
    BY DEF Inv, TypeOK, Next, SetTimer, Elapse
  <2>2. clock.num \in Nat \ {0} /\ clock.den \in Nat \ {0} /\ clock.offset \in Int
    BY <2>1 DEF ClockModel
  <2>3. /\ now * clock.num \in Int /\ now' * clock.num \in Int
        /\ now * clock.num <= now' * clock.num
    BY <2>1, <2>2
  <2>4. Lround(now * clock.num, clock.den) <= Lround(now' * clock.num, clock.den)
    BY <2>2, <2>3, LroundMonotone
  <2>5. /\ Lround(now * clock.num, clock.den) \in Int
        /\ Lround(now' * clock.num, clock.den) \in Int
    BY <2>2, <2>3, LroundType
  <2> QED  BY <2>1, <2>2, <2>4, <2>5 DEF GetLocalTime, GlobalToLocalTime
<1> QED  BY <1>1, InvAlways, PTL DEF Spec, ReadingAdvances

-----------------------------------------------------------------------------
(***************************************************************************)
(* Watchdog.                                                               *)
(***************************************************************************)
\* While the watchdog waits its event lies ahead; while it does not, the
\* function was invoked when the latest ping has asked for.
WatchdogInv ==
  /\ end \in Nat /\ promised \in Nat /\ invoked \in Nat
  /\ event \in Int /\ failed \in BOOLEAN
  /\ end = promised
  /\ invoked <= promised /\ invoked <= now
  /\ event = NoEvent \/ event >= now
  /\ ~failed /\ event = NoEvent => invoked = promised
  /\ clock.num >= clock.den => ~failed /\ event <= promised

\* On a clock that is not slower than global time a delay is not longer in
\* global time.
LEMMA FastDelay ==
  ASSUME NEW c \in ClockModel, c.num >= c.den, NEW t \in Nat, NEW d \in Nat
  PROVE  LocalToGlobalDelay(c, t, d) <= d
<1> DEFINE p == t * c.num
           r == Lround(p, c.den)
           k == r + d
           f == (k * c.den) \div c.num
<1>1. c.num \in Nat \ {0} /\ c.den \in Nat \ {0} /\ c.offset \in Int
  BY DEF ClockModel
<1>2. p \in Int
  BY <1>1
<1>3. r \in Int /\ 2 * (c.den * r) <= 2 * p + c.den
  BY <1>1, <1>2, LroundBounds
<1>4. LocalToGlobalDelay(c, t, d) = f - t
  <2>1. (r + c.offset + d) - c.offset = k
    <3> HIDE DEF r
    <3> QED  BY <1>1, <1>3
  <2> QED  BY <2>1 DEF LocalToGlobalDelay, LocalToGlobalTime, GetLocalTime,
                       GlobalToLocalTime
<1> HIDE DEF r
<1>5. k \in Int /\ k * c.den \in Int /\ k * c.den = c.den * r + c.den * d
  BY <1>1, <1>3
<1> HIDE DEF k
<1>6. f \in Int /\ c.num * f <= k * c.den
  BY <1>1, <1>5, QuotientBounds
<1> HIDE DEF f
<1>7. /\ c.den * r \in Int /\ c.den * d \in Int /\ c.num * d \in Int
      /\ c.num * f \in Int /\ p = c.num * t
      /\ c.den * d <= c.num * d
  <2>1. c.den * d <= c.num * d
    BY <1>1
  <2> QED  BY <1>1, <1>3, <1>6, <2>1
<1>8. f <= t + d
  <2> SUFFICES ASSUME f >= t + d + 1 PROVE FALSE
    BY <1>6
  <2>1. c.num * f >= c.num * (t + d + 1)
    BY <1>1, <1>6
  <2>2. c.num * (t + d + 1) = p + c.num * d + c.num
    BY <1>1, <1>7
  <2>3. c.num * f <= c.den * r + c.den * d
    BY <1>5, <1>6
  <2> HIDE DEF p
  <2>4. ASSUME NEW a \in Int, NEW b \in Int, NEW s \in Int, NEW n \in Int,
               NEW m \in Int, p + a + n <= s + b, 2 * s <= 2 * p + m,
               b <= a, m <= n, m > 0
        PROVE  FALSE
    BY <1>2, <2>4
  <2>5. p + c.num * d + c.num <= c.den * r + c.den * d
    <3>1. c.num * (t + d + 1) \in Int
      BY <1>1
    <3> QED  BY <1>7, <2>1, <2>2, <2>3, <3>1
  <2>6. c.den <= c.num /\ c.den > 0 /\ c.num \in Int /\ c.den \in Int
    BY <1>1
  <2> QED  BY <1>3, <1>7, <2>4, <2>5, <2>6
<1> QED  BY <1>4, <1>6, <1>8

\* The node reads its clock and sets timers as without a watchdog.
LEMMA NodeUndisturbed == WatchdogSpec => Spec
<1>1. WatchdogInit => Init
  BY DEF WatchdogInit
<1>2. [WatchdogNext]_<<vars, watchdogVars>> => [Next]_vars
  BY DEF WatchdogNext, Ping, Expire, NodeStep, Next, vars
<1> QED  BY <1>1, <1>2, PTL DEF WatchdogSpec, Spec

LEMMA WatchdogInitial == WatchdogInit => WatchdogInv
<1> SUFFICES ASSUME WatchdogInit PROVE WatchdogInv
  OBVIOUS
<1>1. /\ end = 0 /\ event = NoEvent /\ promised = 0 /\ invoked = 0 /\ now = 0
      /\ ~failed
  BY DEF WatchdogInit, Init
<1>2. failed \in BOOLEAN
  BY Zenon DEF WatchdogInit
<1> QED  BY <1>1, <1>2 DEF WatchdogInv, NoEvent

\* What scheduling Expire does to the event.
LEMMA ExpireScheduled ==
  ASSUME Inv, NEW d \in Nat \ {0}, ScheduleExpire(d)
  PROVE  /\ failed' = failed /\ event' \in Int /\ event' >= now
         /\ clock.num >= clock.den => event' <= now + d
<1> DEFINE g == LocalToGlobalDelay(clock, now, d)
<1>1. clock \in ClockModel /\ now \in Nat
  BY DEF Inv, TypeOK
<1>2. g \in Int /\ g >= 0
  BY <1>1, PositiveDelay, LocalToGlobalDelayType
<1>3. clock.num >= clock.den => g <= d
  BY <1>1, FastDelay
<1>4. failed' = failed /\ event' = now + g
  BY <1>2 DEF ScheduleExpire
<1> HIDE DEF g
<1> QED  BY <1>1, <1>2, <1>3, <1>4

LEMMA WatchdogStep ==
  Inv /\ WatchdogInv /\ [WatchdogNext]_<<vars, watchdogVars>> => WatchdogInv'
<1> SUFFICES ASSUME Inv, WatchdogInv, [WatchdogNext]_<<vars, watchdogVars>>
             PROVE  WatchdogInv'
  OBVIOUS
<1>1. /\ now \in Nat /\ end \in Nat /\ promised \in Nat /\ invoked \in Nat
      /\ event \in Int /\ end = promised
      /\ invoked <= promised /\ invoked <= now
      /\ event = NoEvent \/ event >= now
  BY DEF Inv, TypeOK, WatchdogInv
<1>2. failed \in BOOLEAN
  BY DEF WatchdogInv
<1>3. ASSUME NEW d \in PingDelay, Ping(d) PROVE WatchdogInv'
  <2>1. /\ ~failed
        /\ end' = Later(end, now + d) /\ promised' = Later(promised, now + d)
        /\ UNCHANGED <<clock, now, invoked>>
    BY <1>3 DEF Ping
  <2>2. d \in Nat \ {0}
    BY PingDelayAssumption
  <2>3. /\ end' \in Nat /\ end' = promised' /\ promised' >= promised
        /\ end' >= now + d
    BY <1>1, <2>1, <2>2 DEF Later
  <2>4. CASE event # NoEvent
    <3>1. UNCHANGED <<event, failed>>
      BY <1>3, <2>4 DEF Ping
    <3>2. clock.num >= clock.den => event' <= promised'
      BY <1>1, <2>3, <3>1 DEF WatchdogInv
    <3> QED  BY <1>1, <1>2, <2>1, <2>3, <2>4, <3>1, <3>2 DEF WatchdogInv
  <2>5. CASE event = NoEvent
    <3> DEFINE e == Later(end, now + d)
    <3>1. ScheduleExpire(e - now)
      BY <1>3, <2>5 DEF Ping
    <3>2. e - now \in Nat \ {0} /\ now + (e - now) = e /\ e = end'
      BY <1>1, <2>1, <2>2 DEF Later
    <3> HIDE DEF e
    <3>3. /\ failed' = failed /\ event' \in Int /\ event' >= now
          /\ clock.num >= clock.den => event' <= end'
      BY <3>1, <3>2, ExpireScheduled
    <3>4. event' # NoEvent
      BY <1>1, <3>3 DEF NoEvent
    <3> QED  BY <1>1, <1>2, <2>1, <2>3, <3>3, <3>4 DEF WatchdogInv
  <2> QED  BY <2>4, <2>5
<1>4. CASE Expire
  <2>1. ~failed /\ event = now /\ UNCHANGED <<clock, now, end, promised>>
    BY <1>4 DEF Expire
  <2>2. CASE end = now /\ invoked' = now /\ event' = NoEvent /\ failed' = failed
    BY <1>1, <1>2, <2>1, <2>2 DEF WatchdogInv, NoEvent
  <2>3. CASE end # now /\ ScheduleExpire(end - now) /\ invoked' = invoked
    <3>1. CASE clock.num >= clock.den \/ end > now
      <4>1. end - now \in Nat \ {0} /\ now + (end - now) = end
        BY <1>1, <2>1, <2>3, <3>1 DEF WatchdogInv
      <4>2. /\ failed' = failed /\ event' \in Int /\ event' >= now
            /\ clock.num >= clock.den => event' <= end
        BY <2>3, <4>1, ExpireScheduled
      <4>3. event' # NoEvent
        BY <1>1, <4>2 DEF NoEvent
      <4> QED  BY <1>1, <1>2, <2>1, <2>3, <4>2, <4>3 DEF WatchdogInv
    <3>2. CASE ~(clock.num >= clock.den)
      <4>1. \/ failed' = TRUE /\ event' = event
            \/ failed' = failed /\ event' \in Int /\ event' >= now
        <5>1. LocalToGlobalDelay(clock, now, end - now) \in Int
          BY <1>1, LocalToGlobalDelayType DEF Inv, TypeOK
        <5> QED  BY <1>1, <2>3, <5>1 DEF ScheduleExpire
      <4>2. event' # NoEvent /\ event' \in Int /\ event' >= now
        BY <1>1, <2>1, <4>1 DEF NoEvent
      <4>3. failed' \in BOOLEAN
        BY <1>2, <4>1, Zenon
      <4> QED  BY <1>1, <2>1, <2>3, <3>2, <4>2, <4>3 DEF WatchdogInv
    <3> QED  BY <3>1, <3>2
  <2> QED  BY <1>4, <2>2, <2>3 DEF Expire
<1>5. CASE NodeStep
  <2>1. /\ UNCHANGED <<clock, end, event, failed, promised, invoked>>
        /\ now' = now \/ (event # now /\ now' = now + 1)
    BY <1>5 DEF NodeStep, SetTimer, Elapse, watchdogVars
  <2> QED  BY <1>1, <1>2, <2>1 DEF WatchdogInv
<1>6. CASE UNCHANGED <<vars, watchdogVars>>
  BY <1>6 DEF vars, watchdogVars, WatchdogInv
<1> QED  BY <1>3, <1>4, <1>5, <1>6 DEF WatchdogNext

\* For every clock and any pings: an event is under way as long as the latest
\* ping has asked for; where the clock is not slower than global time it is
\* never late and no assertion fails; where their rates are equal the function
\* is invoked exactly at that time (Watchdog::Ping, Watchdog::Expire).
THEOREM WatchdogsKept == WatchdogSpec => []WatchdogKept
<1>1. Inv /\ WatchdogInv => WatchdogKept
  <2> SUFFICES ASSUME Inv, WatchdogInv PROVE WatchdogKept
    OBVIOUS
  <2>1. /\ now \in Nat /\ promised \in Nat /\ invoked \in Nat /\ event \in Int
        /\ clock.num \in Nat \ {0} /\ clock.den \in Nat \ {0}
    BY DEF Inv, TypeOK, ClockModel, WatchdogInv
  <2> QED  BY <2>1 DEF WatchdogInv, WatchdogKept
<1>2. WatchdogSpec => []Inv
  BY NodeUndisturbed, InvAlways, PTL
<1>3. WatchdogSpec => []WatchdogInv
  BY <1>2, WatchdogInitial, WatchdogStep, PTL DEF WatchdogSpec
<1> QED  BY <1>1, <1>2, <1>3, PTL
=============================================================================
