------------------------ MODULE SchedulerRuns_proofs ------------------------
(***************************************************************************)
(* Theorems about SchedulerRuns, for any length of the day, any settings   *)
(* and edits, jobs of any duration, failing writes and restarts.           *)
(***************************************************************************)
EXTENDS SchedulerRuns, SequenceTheorems, FiniteSetTheorems, TLAPS

-------------------------------------------------------------------------------
(* Days *)

LEMMA DayLenPositive == DayLen \in Nat /\ DayLen > 0
<1>1. DayLen \in Nat \ {0} BY SchedulerAssumption DEF SchedulerAssumption
<1> QED BY <1>1

LEMMA Division ==
  ASSUME NEW t \in Nat, NEW n \in Nat, n > 0
  PROVE  t \div n \in Nat /\ (t \div n) * n <= t /\ t < (t \div n) * n + n
OBVIOUS

LEMMA DayBounds ==
  ASSUME NEW t \in Nat
  PROVE  /\ N!Day(t) \in Nat
         /\ N!Day(t) * DayLen <= t /\ t < (N!Day(t) + 1) * DayLen
<1>1. (N!Day(t) + 1) * DayLen = N!Day(t) * DayLen + DayLen
  BY DayLenPositive, Division DEF N!Day
<1> QED BY <1>1, DayLenPositive, Division DEF N!Day

LEMMA TimesMonotone ==
  ASSUME NEW a \in Nat, NEW b \in Nat, NEW c \in Nat, a <= b
  PROVE  a * c <= b * c
<1>1. b = a + (b - a) /\ b - a \in Nat OBVIOUS
<1>2. b * c = a * c + (b - a) * c BY <1>1
<1>3. (b - a) * c \in Nat /\ a * c \in Nat BY <1>1
<1> QED BY <1>2, <1>3

\* A later instant falls on the same day or a later one.
LEMMA DayMonotone ==
  ASSUME NEW a \in Nat, NEW b \in Nat, a <= b PROVE N!Day(a) <= N!Day(b)
<1> DEFINE p == N!Day(a)  q == N!Day(b)
<1>1. p \in Nat /\ q \in Nat /\ p * DayLen <= a /\ b < (q + 1) * DayLen BY DayBounds
<1>2. SUFFICES ASSUME p > q PROVE FALSE BY <1>1
<1>3. (q + 1) * DayLen <= p * DayLen
  BY <1>1, <1>2, TimesMonotone, DayLenPositive
<1>4. q * DayLen \in Nat /\ p * DayLen \in Nat /\ (q + 1) * DayLen \in Nat
  BY <1>1, DayLenPositive
<1> HIDE DEF p, q
<1> QED BY <1>1, <1>3, <1>4

\* An instant at or after the midnight that begins a day is on that day or later.
LEMMA DayAfterMidnight ==
  ASSUME NEW d \in Nat, NEW t \in Nat, N!Midnight(d) <= t PROVE d <= N!Day(t)
<1> DEFINE q == N!Day(t)
<1>1. q \in Nat /\ t < (q + 1) * DayLen BY DayBounds
<1>2. SUFFICES ASSUME d > q PROVE FALSE BY <1>1
<1>3. (q + 1) * DayLen <= d * DayLen
  BY <1>1, <1>2, TimesMonotone, DayLenPositive
<1>4. d * DayLen \in Nat /\ (q + 1) * DayLen \in Nat BY <1>1, DayLenPositive
<1> HIDE DEF q
<1> QED BY <1>1, <1>3, <1>4 DEF N!Midnight

-------------------------------------------------------------------------------
(* Induction: the provers take no operator as a parameter, so a claim about all numbers *)
(* is proved from the least one that it would fail for.                                  *)

LEMMA LeastNumber ==
  ASSUME NEW T, T \subseteq Nat, T # {}
  PROVE  \E x \in T : \A y \in T : x <= y
<1> DEFINE R == OpToRel(<, Nat)
<1>1. IsWellFoundedOn(R, Nat) BY NatLessThanWellFounded
<1>2. \A x, y \in Nat : <<x, y>> \in R <=> x < y BY DEF OpToRel
<1> HIDE DEF R
<1>3. PICK x \in T : \A y \in T : <<y, x>> \notin R BY <1>1, WFMin
<1>4. \A y \in T : x \in Nat /\ y \in Nat /\ ~(y < x) BY <1>2, <1>3
<1>5. \A y \in T : x <= y BY <1>4
<1> QED BY <1>5

\* The least member of a set of numbers.
LEMMA MinIsLeast ==
  ASSUME NEW T, T \subseteq Nat, T # {}
  PROVE  N!Min(T) \in T /\ \A y \in T : N!Min(T) <= y
<1>1. \E x \in T : \A y \in T : x <= y BY LeastNumber
<1> QED BY <1>1 DEF N!Min

-------------------------------------------------------------------------------
(* Schedules *)

\* A minute of the day is what is left of an instant after its midnight.
LEMMA MinuteOfDay ==
  ASSUME NEW d \in Nat, NEW m \in 0..(DayLen - 1)
  PROVE  (d * DayLen + m) % DayLen = m /\ N!Day(d * DayLen + m) = d
<1> DEFINE t == d * DayLen + m
           q == N!Day(t)
<1>1. DayLen \in Nat /\ DayLen > 0 /\ d * DayLen \in Nat /\ t \in Nat BY DayLenPositive
<1>2. q \in Nat /\ q * DayLen <= t /\ t < (q + 1) * DayLen BY <1>1, DayBounds
<1>3. (d + 1) * DayLen = d * DayLen + DayLen /\ (q + 1) * DayLen = q * DayLen + DayLen
  BY <1>1, <1>2
<1>4. q * DayLen \in Nat BY <1>1, <1>2
<1>5. ~(q < d)
  <2>1. SUFFICES ASSUME q < d PROVE FALSE OBVIOUS
  <2>2. (q + 1) * DayLen <= d * DayLen BY <2>1, <1>1, <1>2, TimesMonotone
  <2> QED BY <2>2, <1>1, <1>2, <1>3, <1>4
<1>6. ~(d < q)
  <2>1. SUFFICES ASSUME d < q PROVE FALSE OBVIOUS
  <2>2. (d + 1) * DayLen <= q * DayLen BY <2>1, <1>1, <1>2, TimesMonotone
  <2> QED BY <2>2, <1>1, <1>2, <1>3, <1>4
<1>7. q = d BY <1>2, <1>5, <1>6
<1>8. t = (t \div DayLen) * DayLen + (t % DayLen) BY <1>1
<1>9. t % DayLen \in Nat BY <1>1
<1> QED BY <1>1, <1>7, <1>8, <1>9 DEF N!Day

\* Every minute of the day comes within a day.
LEMMA MinuteComes ==
  ASSUME NEW t \in Nat, NEW m \in 0..(DayLen - 1)
  PROVE  \E u \in (t + 1)..(t + DayLen) : u % DayLen = m
<1> DEFINE d == N!Day(t)
           a == d * DayLen + m
           b == (d + 1) * DayLen + m
<1>1. /\ d \in Nat /\ d * DayLen <= t /\ t < (d + 1) * DayLen
      /\ DayLen \in Nat /\ d * DayLen \in Nat /\ m \in Nat /\ m < DayLen
  BY DayBounds, DayLenPositive
<1>2. (d + 1) * DayLen = d * DayLen + DayLen BY <1>1
<1>3. a % DayLen = m /\ b % DayLen = m BY <1>1, MinuteOfDay
<1>4. CASE a > t
  <2>1. a \in (t + 1)..(t + DayLen) BY <1>1, <1>4
  <2> QED BY <2>1, <1>3
<1>5. CASE ~(a > t)
  <2>1. b \in (t + 1)..(t + DayLen) BY <1>1, <1>2, <1>5
  <2> QED BY <2>1, <1>3
<1> QED BY <1>4, <1>5

\* The next match of an expression is the first after t.
LEMMA NextMatchOfCron ==
  ASSUME NEW slots, slots \subseteq 0..(DayLen - 1), slots # {}, NEW t \in Nat
  PROVE  LET u == N!CronNext(slots, t) IN
         /\ u \in Nat /\ t < u /\ u % DayLen \in slots
         /\ \A v \in Nat : t < v /\ v % DayLen \in slots => u <= v
<1> DEFINE T == {v \in (t + 1)..(t + DayLen) : v % DayLen \in slots}
           u == N!Min(T)
<1>1. u = N!CronNext(slots, t) BY DEF N!CronNext
<1>2. T \subseteq Nat OBVIOUS
<1>3. T # {}
  <2>1. PICK m \in slots : TRUE OBVIOUS
  <2>2. \E v \in (t + 1)..(t + DayLen) : v % DayLen = m BY <2>1, MinuteComes
  <2> QED BY <2>1, <2>2
<1>4. u \in T /\ \A v \in T : u <= v BY <1>2, <1>3, MinIsLeast
<1>5. u \in Nat /\ t < u /\ u <= t + DayLen /\ u % DayLen \in slots BY <1>4, DayLenPositive
<1>6. ASSUME NEW v \in Nat, t < v, v % DayLen \in slots PROVE u <= v
  <2>1. CASE v <= t + DayLen BY <2>1, <1>4, <1>6, DayLenPositive
  <2>2. CASE ~(v <= t + DayLen) BY <2>2, <1>5, DayLenPositive
  <2> QED BY <2>1, <2>2
<1> QED BY <1>1, <1>5, <1>6

LEMMA SiteNumbers ==
  ASSUME NEW cfg \in SiteConfigs
  PROVE  cfg \in SiteConfig
BY SchedulerAssumption DEF SchedulerAssumption

LEMMA CronNextIsTime ==
  ASSUME NEW slots, slots \subseteq 0..(DayLen - 1), NEW t \in Nat
  PROVE  N!CronNext(slots, t) \in Nat
<1>1. CASE slots = {} BY <1>1 DEF N!CronNext, N!Zero
<1>2. CASE slots # {} BY <1>2, NextMatchOfCron
<1> QED BY <1>1, <1>2

\* Today at the time of the schedule, or tomorrow.
LEMMA NextOfDaily ==
  ASSUME NEW m \in 0..(DayLen - 1), NEW t \in Nat
  PROVE  LET u == N!DailyNext(m, t) IN
         /\ u \in Nat /\ t < u /\ u <= t + DayLen /\ u % DayLen = m
<1> DEFINE d == N!Day(t)
           u == N!DailyNext(m, t)
<1>1. /\ d \in Nat /\ d * DayLen <= t /\ t < (d + 1) * DayLen
      /\ DayLen \in Nat /\ d * DayLen \in Nat /\ m \in Nat /\ m < DayLen
  BY DayBounds, DayLenPositive
<1>2. (d + 1) * DayLen = d * DayLen + DayLen BY <1>1
<1>3. (d * DayLen + m) % DayLen = m /\ ((d + 1) * DayLen + m) % DayLen = m
  BY <1>1, MinuteOfDay
<1>4. CASE d * DayLen + m > t
  <2>1. u = d * DayLen + m BY <1>4 DEF N!DailyNext, N!Midnight
  <2> QED BY <2>1, <1>1, <1>2, <1>3, <1>4
<1>5. CASE ~(d * DayLen + m > t)
  <2>1. u = (d + 1) * DayLen + m BY <1>1, <1>2, <1>5 DEF N!DailyNext, N!Midnight
  <2> QED BY <2>1, <1>1, <1>2, <1>3, <1>5
<1> QED BY <1>4, <1>5

LEMMA DailyNextIsTime ==
  ASSUME NEW m \in Nat, NEW t \in Nat
  PROVE  N!DailyNext(m, t) \in Nat
<1> DEFINE d == N!Day(t)
<1>1. d \in Nat /\ DayLen \in Nat /\ d * DayLen \in Nat BY DayBounds, DayLenPositive
<1> HIDE DEF d
<1> QED BY <1>1 DEF N!DailyNext, N!Midnight, d

LEMMA FirstMatchIsTime ==
  ASSUME NEW cfg \in SiteConfig, NEW now \in Nat
  PROVE  N!FirstMatch(cfg, now) \in Nat
<1>1. cfg.slots \subseteq 0..(DayLen - 1) /\ cfg.time \in Nat BY DEF SiteConfig
<1> QED BY <1>1, CronNextIsTime, DailyNextIsTime DEF N!FirstMatch

LEMMA RoundIsTime ==
  ASSUME NEW cfg \in SiteConfig, NEW t \in Nat
  PROVE  N!Round(cfg, t) \in Nat
<1>1. cfg.slots \subseteq 0..(DayLen - 1) BY DEF SiteConfig
<1>2. N!CronNext(cfg.slots, t + 1) \in Nat BY <1>1, CronNextIsTime
<1>3. t + DayLen \in Nat BY DayLenPositive
<1> QED BY <1>2, <1>3 DEF N!Round, N!NextMatch

\* The rounds of the loop over the skip list, from the first match to the last.
Rounds(cfg, first, k, f) ==
  /\ f \in [0..k -> Nat]
  /\ f[0] = first
  /\ \A n \in 1..k : f[n] = N!Round(cfg, f[n - 1])

LEMMA RoundsGoOn ==
  ASSUME NEW cfg \in SiteConfig, NEW first \in Nat, NEW k \in Nat
  PROVE  \E f : Rounds(cfg, first, k, f)
<1> DEFINE Open == {i \in Nat : ~ \E f : Rounds(cfg, first, i, f)}
<1>1. SUFFICES ASSUME Open # {} PROVE FALSE OBVIOUS
<1>2. \E i \in Open : \A y \in Open : i <= y
  <2>1. Open \subseteq Nat OBVIOUS
  <2> HIDE DEF Open
  <2> QED BY <1>1, <2>1, LeastNumber
<1>3. PICK i \in Open : \A y \in Open : i <= y BY <1>2
<1>4. i \in Nat /\ ~ \E f : Rounds(cfg, first, i, f) BY <1>3
<1>5. i # 0
  <2>1. SUFFICES ASSUME i = 0 PROVE FALSE OBVIOUS
  <2>2. Rounds(cfg, first, 0, [n \in 0..0 |-> first]) BY DEF Rounds
  <2> QED BY <1>4, <2>1, <2>2
<1>6. i - 1 \in Nat /\ ~(i <= i - 1) BY <1>4, <1>5
<1>7. PICK g : Rounds(cfg, first, i - 1, g) BY <1>3, <1>6
<1> DEFINE last == N!Round(cfg, g[i - 1])
           h == [n \in 0..i |-> IF n = i THEN last ELSE g[n]]
<1>8. /\ g \in [0..(i - 1) -> Nat] /\ g[0] = first
      /\ \A n \in 1..(i - 1) : g[n] = N!Round(cfg, g[n - 1])
  BY <1>7 DEF Rounds
<1>9. last \in Nat
  <2>1. g[i - 1] \in Nat BY <1>6, <1>8
  <2> QED BY <2>1, RoundIsTime
<1>10. \A n \in 0..i : n # i => n \in 0..(i - 1) BY <1>4
<1>11. h \in [0..i -> Nat]
  <2> HIDE DEF last
  <2> QED BY <1>8, <1>9, <1>10
<1>12. h[0] = first BY <1>4, <1>5, <1>8
<1>13. ASSUME NEW n \in 1..i PROVE h[n] = N!Round(cfg, h[n - 1])
  <2>1. n - 1 \in 0..i /\ n - 1 # i /\ n \in 0..i BY <1>4
  <2>2. h[n - 1] = g[n - 1] BY <2>1
  <2>3. CASE n = i BY <2>1, <2>2, <2>3
  <2>4. CASE n # i
    <3>1. n \in 1..(i - 1) BY <2>4, <1>4
    <3>2. h[n] = g[n] BY <2>1, <2>4
    <3> QED BY <1>8, <2>2, <3>1, <3>2
  <2> QED BY <2>3, <2>4
<1>14. Rounds(cfg, first, i, h)
  <2> HIDE DEF h
  <2> QED BY <1>11, <1>12, <1>13 DEF Rounds
<1> QED BY <1>4, <1>14

\* The loop ends in the last of its rounds.
LEMMA SkipDatesIsLastRound ==
  ASSUME NEW cfg \in SiteConfig, NEW first \in Nat
  PROVE  \E f : Rounds(cfg, first, MaxIter, f) /\ N!SkipDates(cfg, first) = f[MaxIter]
<1> DEFINE after[n \in 0..MaxIter] == IF n = 0 THEN first ELSE N!Round(cfg, after[n - 1])
           Loop(f) == [n \in 0..MaxIter |-> IF n = 0 THEN first ELSE N!Round(cfg, f[n - 1])]
<1>0. MaxIter \in Nat BY SchedulerAssumption DEF SchedulerAssumption
<1>1. N!SkipDates(cfg, first) = after[MaxIter] BY DEF N!SkipDates
<1>2. after = CHOOSE f : f = Loop(f) OBVIOUS
<1>3. PICK g : Rounds(cfg, first, MaxIter, g) BY <1>0, RoundsGoOn
<1>4. g = Loop(g)
  <2>1. g \in [0..MaxIter -> Nat] /\ g[0] = first BY <1>3 DEF Rounds
  <2>2. ASSUME NEW n \in 0..MaxIter
        PROVE  g[n] = IF n = 0 THEN first ELSE N!Round(cfg, g[n - 1])
    <3>1. CASE n = 0 BY <2>1, <3>1
    <3>2. CASE n # 0
      <4>1. n \in 1..MaxIter BY <3>2, <1>0
      <4> QED BY <1>3, <3>2, <4>1 DEF Rounds
    <3> QED BY <3>1, <3>2
  <2> QED BY <2>1, <2>2
<1> HIDE DEF after
<1>5. after = Loop(after) BY <1>2, <1>4
<1>6. /\ DOMAIN after = 0..MaxIter /\ after[0] = first
      /\ \A n \in 1..MaxIter : after[n] = N!Round(cfg, after[n - 1])
  <2>1. DOMAIN after = 0..MaxIter BY <1>5
  <2>2. \A n \in 0..MaxIter : after[n] = IF n = 0 THEN first ELSE N!Round(cfg, after[n - 1])
    BY <1>5
  <2>3. 0 \in 0..MaxIter /\ \A n \in 1..MaxIter : n \in 0..MaxIter /\ n # 0 BY <1>0
  <2> QED BY <2>1, <2>2, <2>3
<1>7. \A n \in 0..MaxIter : after[n] \in Nat
  <2> DEFINE Odd == {n \in 0..MaxIter : after[n] \notin Nat}
  <2>1. SUFFICES ASSUME Odd # {} PROVE FALSE OBVIOUS
  <2>2. Odd \subseteq Nat OBVIOUS
  <2>3. \E n \in Odd : \A y \in Odd : n <= y
    <3> HIDE DEF Odd
    <3> QED BY <2>1, <2>2, LeastNumber
  <2>4. PICK n \in Odd : \A y \in Odd : n <= y BY <2>3
  <2>5. n \in 0..MaxIter /\ after[n] \notin Nat BY <2>4
  <2>6. n # 0 BY <2>5, <1>6
  <2>7. n \in 1..MaxIter /\ n - 1 \in 0..MaxIter /\ ~(n <= n - 1) BY <2>5, <2>6, <1>0
  <2>8. after[n - 1] \in Nat BY <2>4, <2>7
  <2> QED BY <2>5, <2>7, <2>8, <1>6, RoundIsTime
<1>8. after \in [0..MaxIter -> Nat] BY <1>5, <1>7
<1>9. Rounds(cfg, first, MaxIter, after) BY <1>6, <1>8 DEF Rounds
<1> QED BY <1>1, <1>9

LEMMA NextRunIsTime ==
  ASSUME NEW cfg \in SiteConfig, NEW now \in Nat
  PROVE  N!ComputeNextRun(cfg, now) \in Nat
<1> DEFINE first == N!FirstMatch(cfg, now)
           end == N!SkipDates(cfg, first)
<1>1. first \in Nat BY FirstMatchIsTime
<1>2. end \in Nat
  <2>0. MaxIter \in Nat BY SchedulerAssumption DEF SchedulerAssumption
  <2>1. \E f : Rounds(cfg, first, MaxIter, f) /\ end = f[MaxIter]
    BY <1>1, SkipDatesIsLastRound
  <2> QED BY <2>0, <2>1 DEF Rounds
<1>3. N!Delay(cfg) \in Nat
  <2>1. cfg.dmin \in Nat /\ cfg.dmax \in Nat BY DEF SiteConfig
  <2>2. (cfg.dmin + cfg.dmax) \div 2 \in Nat BY <2>1, Division
  <2> QED BY <2>2 DEF N!Delay
<1> HIDE DEF end
<1> QED BY <1>2, <1>3 DEF N!ComputeNextRun, end

-------------------------------------------------------------------------------
(* The first minute a schedule asks for *)

\* u is the first match after t.
FirstAfter(cfg, t, u) ==
  /\ u \in Nat /\ t < u /\ Matches(cfg, u)
  /\ \A v \in Nat : t < v /\ Matches(cfg, v) => u <= v

\* Two instants of the same minute are a day apart.
LEMMA SameMinute ==
  ASSUME NEW a \in Nat, NEW b \in Nat, a < b, a % DayLen = b % DayLen
  PROVE  a + DayLen <= b
<1> DEFINE p == N!Day(a)  q == N!Day(b)  r == a % DayLen
<1>1. DayLen \in Nat /\ DayLen > 0 BY DayLenPositive
<1>2. p \in Nat /\ q \in Nat BY DayBounds
<1>3. a = p * DayLen + r /\ b = q * DayLen + r BY <1>1 DEF N!Day
<1>4. r \in Nat /\ p * DayLen \in Nat /\ q * DayLen \in Nat BY <1>1, <1>2
<1> HIDE DEF p, q, r
<1>5. p < q
  <2>1. SUFFICES ASSUME q <= p PROVE FALSE BY <1>2
  <2>2. q * DayLen <= p * DayLen BY <2>1, <1>1, <1>2, TimesMonotone
  <2> QED BY <2>2, <1>3, <1>4
<1>6. (p + 1) * DayLen <= q * DayLen
  <2>1. p + 1 <= q /\ p + 1 \in Nat BY <1>2, <1>5
  <2> QED BY <2>1, <1>1, <1>2, TimesMonotone
<1>7. (p + 1) * DayLen = p * DayLen + DayLen BY <1>1, <1>2
<1> QED BY <1>1, <1>3, <1>4, <1>6, <1>7

\* The minute after.
LEMMA MinuteAfter ==
  ASSUME NEW t \in Nat
  PROVE  (t + 1) % DayLen = ((t % DayLen) + 1) % DayLen
<1> DEFINE d == N!Day(t)  m == t % DayLen
<1>1. DayLen \in Nat /\ DayLen > 0 /\ d \in Nat BY DayLenPositive, DayBounds
<1>2. t = d * DayLen + m BY <1>1 DEF N!Day
<1>3. m \in 0..(DayLen - 1) /\ d * DayLen \in Nat BY <1>1
<1> HIDE DEF d, m
<1>4. CASE m + 1 < DayLen
  <2>1. m + 1 \in 0..(DayLen - 1) BY <1>1, <1>3, <1>4
  <2>2. (d * DayLen + (m + 1)) % DayLen = m + 1 /\ (0 * DayLen + (m + 1)) % DayLen = m + 1
    BY <2>1, <1>1, MinuteOfDay
  <2>3. t + 1 = d * DayLen + (m + 1) /\ 0 * DayLen + (m + 1) = m + 1
    BY <1>1, <1>2, <1>3
  <2> QED BY <2>2, <2>3 DEF m
<1>5. CASE ~(m + 1 < DayLen)
  <2>1. m + 1 = DayLen BY <1>1, <1>3, <1>5
  <2>2. 0 \in 0..(DayLen - 1) /\ d + 1 \in Nat /\ 1 \in Nat BY <1>1
  <2>3. ((d + 1) * DayLen + 0) % DayLen = 0 /\ (1 * DayLen + 0) % DayLen = 0
    BY <2>2, MinuteOfDay
  <2>4. (d + 1) * DayLen = d * DayLen + DayLen BY <1>1
  <2>5. t + 1 = (d + 1) * DayLen + 0 /\ 1 * DayLen + 0 = DayLen
    BY <1>1, <1>2, <1>3, <2>1, <2>4
  <2>6. (t + 1) % DayLen = 0 /\ DayLen % DayLen = 0 BY <2>3, <2>5
  <2> QED BY <2>1, <2>6 DEF m
<1> QED BY <1>4, <1>5

LEMMA RegularMinutes ==
  ASSUME NEW cfg, Regular(cfg)
  PROVE  /\ cfg.slots \subseteq 0..(DayLen - 1) /\ cfg.time \in 0..(DayLen - 1)
         /\ Minutes(cfg) \subseteq 0..(DayLen - 1)
<1>1. cfg.slots \subseteq 0..(DayLen - 1) /\ cfg.time \in Nat /\ cfg.time < DayLen
  BY DEF Regular, SiteConfig
<1>2. cfg.time \in 0..(DayLen - 1) BY <1>1, DayLenPositive
<1> QED BY <1>1, <1>2 DEF Minutes

LEMMA FirstMatchIsFirst ==
  ASSUME NEW cfg, Regular(cfg), NEW now \in Nat
  PROVE  FirstAfter(cfg, now, N!FirstMatch(cfg, now))
<1>1. CASE cfg.hasCron /\ cfg.slots # {}
  <2> DEFINE u == N!CronNext(cfg.slots, now)
  <2>1. cfg.slots \subseteq 0..(DayLen - 1) /\ cfg.slots # {}
    BY <1>1, RegularMinutes
  <2>2. /\ u \in Nat /\ now < u /\ u % DayLen \in cfg.slots
        /\ \A v \in Nat : now < v /\ v % DayLen \in cfg.slots => u <= v
    BY <2>1, NextMatchOfCron
  <2> HIDE DEF u
  <2>3. u # 0 BY <2>2
  <2>4. N!FirstMatch(cfg, now) = u BY <1>1, <2>3 DEF N!FirstMatch, N!Zero, u
  <2>5. Minutes(cfg) = cfg.slots BY <1>1 DEF Minutes
  <2> QED BY <2>2, <2>4, <2>5 DEF FirstAfter, Matches
<1>2. CASE ~(cfg.hasCron /\ cfg.slots # {})
  <2> DEFINE u == N!DailyNext(cfg.time, now)
  <2>1. u \in Nat /\ now < u /\ u <= now + DayLen /\ u % DayLen = cfg.time
    BY RegularMinutes, NextOfDaily
  <2>2. N!FirstMatch(cfg, now) = u BY <1>2 DEF N!FirstMatch, N!CronNext
  <2> HIDE DEF u
  <2>3. Minutes(cfg) = {cfg.time} BY <1>2 DEF Minutes
  <2>4. ASSUME NEW v \in Nat, now < v, v % DayLen = cfg.time PROVE u <= v
    <3>1. SUFFICES ASSUME v < u PROVE FALSE BY <2>1
    <3>2. v + DayLen <= u BY <2>1, <2>4, <3>1, SameMinute
    <3> QED BY <2>1, <2>4, <3>2, DayLenPositive
  <2> QED BY <2>1, <2>2, <2>3, <2>4 DEF FirstAfter, Matches
<1> QED BY <1>1, <1>2

\* From a match to the next.
LEMMA NextMatchIsNext ==
  ASSUME NEW cfg, Regular(cfg), NEW t \in Nat, Matches(cfg, t), N!IsDateSkipped(cfg, t)
  PROVE  FirstAfter(cfg, t, N!NextMatch(cfg, t))
<1>1. CASE cfg.hasCron
  <2> DEFINE u == N!CronNext(cfg.slots, t + 1)
  <2>1. cfg.slots \subseteq 0..(DayLen - 1) /\ cfg.slots # {} /\ t + 1 \in Nat
    BY <1>1, RegularMinutes DEF Regular, N!IsDateSkipped
  <2>2. /\ u \in Nat /\ t + 1 < u /\ u % DayLen \in cfg.slots
        /\ \A v \in Nat : t + 1 < v /\ v % DayLen \in cfg.slots => u <= v
    BY <2>1, NextMatchOfCron
  <2>3. N!NextMatch(cfg, t) = u BY <1>1 DEF N!NextMatch
  <2> HIDE DEF u
  <2>4. Minutes(cfg) = cfg.slots BY <1>1, <2>1 DEF Minutes
  <2>5. (t + 1) % DayLen \notin cfg.slots
    <3>1. t % DayLen \in cfg.slots BY <2>4 DEF Matches
    <3>2. ((t % DayLen) + 1) % DayLen \notin cfg.slots BY <1>1, <3>1 DEF Regular
    <3> QED BY <3>2, MinuteAfter
  <2>6. ASSUME NEW v \in Nat, t < v, v % DayLen \in cfg.slots PROVE u <= v
    <3>1. v # t + 1 BY <2>5, <2>6
    <3>2. t + 1 < v BY <2>6, <3>1
    <3> QED BY <2>2, <2>6, <3>2
  <2> QED BY <2>2, <2>3, <2>4, <2>6 DEF FirstAfter, Matches
<1>2. CASE ~cfg.hasCron
  <2>1. N!NextMatch(cfg, t) = t + DayLen BY <1>2 DEF N!NextMatch
  <2>2. Minutes(cfg) = {cfg.time} BY <1>2 DEF Minutes
  <2>3. t % DayLen = cfg.time BY <2>2 DEF Matches
  <2>4. t + DayLen \in Nat /\ t < t + DayLen BY DayLenPositive
  <2>5. (t + DayLen) % DayLen = cfg.time
    <3> DEFINE d == N!Day(t)
    <3>1. d \in Nat /\ d + 1 \in Nat /\ d * DayLen \in Nat /\ DayLen \in Nat /\ DayLen > 0
      BY DayBounds, DayLenPositive
    <3>2. t = d * DayLen + cfg.time BY <2>3, <3>1 DEF N!Day
    <3>3. (d + 1) * DayLen = d * DayLen + DayLen BY <3>1
    <3>4. ((d + 1) * DayLen + cfg.time) % DayLen = cfg.time
      BY <3>1, RegularMinutes, MinuteOfDay
    <3>5. cfg.time \in Nat BY RegularMinutes, DayLenPositive
    <3> HIDE DEF d
    <3>6. t + DayLen = (d + 1) * DayLen + cfg.time BY <3>1, <3>2, <3>3, <3>5
    <3> QED BY <3>4, <3>6
  <2>6. ASSUME NEW v \in Nat, t < v, v % DayLen = cfg.time PROVE t + DayLen <= v
    BY <2>3, <2>6, SameMinute
  <2> QED BY <2>1, <2>2, <2>4, <2>5, <2>6 DEF FirstAfter, Matches
<1> QED BY <1>1, <1>2

\* Between now and a round of the loop lie only matches that fall on skipped dates.
NothingMissed(cfg, now, t) ==
  /\ now < t /\ Matches(cfg, t)
  /\ \A v \in Nat : now < v /\ v < t /\ Matches(cfg, v) => N!IsDateSkipped(cfg, v)

LEMMA RoundMissesNothing ==
  ASSUME NEW cfg, Regular(cfg), NEW now \in Nat, NEW t \in Nat, NothingMissed(cfg, now, t)
  PROVE  NothingMissed(cfg, now, N!Round(cfg, t))
<1>1. CASE ~N!IsDateSkipped(cfg, t) BY <1>1 DEF N!Round
<1>2. CASE N!IsDateSkipped(cfg, t)
  <2> DEFINE u == N!NextMatch(cfg, t)
  <2>1. Matches(cfg, t) /\ now < t BY DEF NothingMissed
  <2>2. FirstAfter(cfg, t, u) BY <1>2, <2>1, NextMatchIsNext
  <2>3. N!Round(cfg, t) = u BY <1>2 DEF N!Round
  <2> HIDE DEF u
  <2>4. u \in Nat /\ t < u /\ Matches(cfg, u) BY <2>2 DEF FirstAfter
  <2>5. ASSUME NEW v \in Nat, now < v, v < u, Matches(cfg, v)
        PROVE  N!IsDateSkipped(cfg, v)
    <3>1. ~(t < v)
      <4>1. SUFFICES ASSUME t < v PROVE FALSE OBVIOUS
      <4>2. u <= v BY <2>2, <2>5, <4>1 DEF FirstAfter
      <4> QED BY <2>4, <2>5, <4>2
    <3>2. CASE v = t BY <1>2, <3>2
    <3>3. CASE v # t
      <4>1. v < t BY <3>1, <3>3
      <4> QED BY <2>5, <4>1 DEF NothingMissed
    <3> QED BY <3>2, <3>3
  <2>6. now < u BY <2>1, <2>4
  <2> QED BY <2>3, <2>4, <2>5, <2>6 DEF NothingMissed
<1> QED BY <1>1, <1>2

LEMMA RoundsMissNothing ==
  ASSUME NEW cfg, Regular(cfg), NEW now \in Nat, NEW k \in Nat, NEW f,
         Rounds(cfg, N!FirstMatch(cfg, now), k, f)
  PROVE  \A n \in 0..k : NothingMissed(cfg, now, f[n])
<1> DEFINE first == N!FirstMatch(cfg, now)
           Odd == {n \in 0..k : ~NothingMissed(cfg, now, f[n])}
<1>0. /\ f \in [0..k -> Nat] /\ f[0] = first
      /\ \A n \in 1..k : f[n] = N!Round(cfg, f[n - 1])
  BY DEF Rounds
<1>1. SUFFICES ASSUME Odd # {} PROVE FALSE OBVIOUS
<1>2. \E n \in Odd : \A y \in Odd : n <= y
  <2>1. Odd \subseteq Nat OBVIOUS
  <2> HIDE DEF Odd
  <2> QED BY <1>1, <2>1, LeastNumber
<1>3. PICK n \in Odd : \A y \in Odd : n <= y BY <1>2
<1>4. n \in 0..k /\ ~NothingMissed(cfg, now, f[n]) BY <1>3
<1>5. n # 0
  <2>1. FirstAfter(cfg, now, first) BY FirstMatchIsFirst
  <2> HIDE DEF first
  <2>2. first \in Nat /\ now < first /\ Matches(cfg, first) BY <2>1 DEF FirstAfter
  <2>3. \A v \in Nat : now < v /\ v < first => ~Matches(cfg, v)
    <3>1. SUFFICES ASSUME NEW v \in Nat, now < v, v < first, Matches(cfg, v) PROVE FALSE
      OBVIOUS
    <3>2. first <= v BY <2>1, <3>1 DEF FirstAfter
    <3> QED BY <2>2, <3>1, <3>2
  <2>4. NothingMissed(cfg, now, first) BY <2>2, <2>3 DEF NothingMissed
  <2> QED BY <1>0, <1>4, <2>4
<1>6. n \in 1..k /\ n - 1 \in 0..k /\ ~(n <= n - 1) BY <1>4, <1>5
<1>7. NothingMissed(cfg, now, f[n - 1]) /\ f[n - 1] \in Nat BY <1>0, <1>3, <1>6
<1> QED BY <1>0, <1>4, <1>6, <1>7, RoundMissesNothing

\* A loop that ends on a skipped date has found nothing but skipped dates, each match
\* after the one before.
LEMMA RoundsAllSkipped ==
  ASSUME NEW cfg, Regular(cfg), NEW now \in Nat, NEW k \in Nat, NEW f,
         Rounds(cfg, N!FirstMatch(cfg, now), k, f), N!IsDateSkipped(cfg, f[k])
  PROVE  \A n \in 0..k : N!IsDateSkipped(cfg, f[n])
<1>0. f \in [0..k -> Nat] /\ \A n \in 1..k : f[n] = N!Round(cfg, f[n - 1])
  BY DEF Rounds
<1>1. SUFFICES ASSUME NEW a \in 0..k, ~N!IsDateSkipped(cfg, f[a]) PROVE FALSE
  OBVIOUS
<1> DEFINE Odd == {n \in a..k : f[n] # f[a]}
<1>2. Odd # {}
  <2>1. k \in a..k BY <1>1
  <2> QED BY <1>1, <2>1
<1>3. \E n \in Odd : \A y \in Odd : n <= y
  <2>1. Odd \subseteq Nat BY <1>1
  <2> HIDE DEF Odd
  <2> QED BY <1>2, <2>1, LeastNumber
<1>4. PICK n \in Odd : \A y \in Odd : n <= y BY <1>3
<1>5. n \in a..k /\ f[n] # f[a] BY <1>4
<1>6. n # a BY <1>5
<1>7. n \in 1..k /\ n - 1 \in a..k /\ ~(n <= n - 1) BY <1>1, <1>5, <1>6
<1>8. f[n - 1] = f[a] BY <1>4, <1>7
<1>9. f[n] = f[a] BY <1>0, <1>1, <1>7, <1>8 DEF N!Round
<1> QED BY <1>5, <1>9

LEMMA RoundsIncrease ==
  ASSUME NEW cfg, Regular(cfg), NEW now \in Nat, NEW k \in Nat, NEW f,
         Rounds(cfg, N!FirstMatch(cfg, now), k, f), N!IsDateSkipped(cfg, f[k]),
         NEW a \in 0..k, NEW b \in 0..k, a < b
  PROVE  f[a] < f[b]
<1>0. f \in [0..k -> Nat] /\ \A n \in 1..k : f[n] = N!Round(cfg, f[n - 1])
  BY DEF Rounds
<1>1. ASSUME NEW n \in 1..k PROVE f[n - 1] < f[n]
  <2>1. n - 1 \in 0..k BY <1>1
  <2>2. f[n - 1] \in Nat /\ Matches(cfg, f[n - 1])
    BY <1>0, <2>1, RoundsMissNothing DEF NothingMissed
  <2>3. N!IsDateSkipped(cfg, f[n - 1]) BY <2>1, RoundsAllSkipped
  <2>4. f[n] = N!NextMatch(cfg, f[n - 1]) BY <1>0, <1>1, <2>3 DEF N!Round
  <2>5. FirstAfter(cfg, f[n - 1], N!NextMatch(cfg, f[n - 1])) BY <2>2, <2>3, NextMatchIsNext
  <2> QED BY <2>4, <2>5 DEF FirstAfter
<1> DEFINE Odd == {n \in (a + 1)..k : ~(f[a] < f[n])}
<1>2. SUFFICES ASSUME Odd # {} PROVE FALSE
  <2>1. b \in (a + 1)..k OBVIOUS
  <2> QED BY <2>1
<1>3. \E n \in Odd : \A y \in Odd : n <= y
  <2>1. Odd \subseteq Nat OBVIOUS
  <2> HIDE DEF Odd
  <2> QED BY <1>2, <2>1, LeastNumber
<1>4. PICK n \in Odd : \A y \in Odd : n <= y BY <1>3
<1>5. n \in (a + 1)..k /\ ~(f[a] < f[n]) BY <1>4
<1>6. n \in 1..k /\ n - 1 \in 0..k /\ n \in 0..k BY <1>5
<1>7. f[a] \in Nat /\ f[n] \in Nat /\ f[n - 1] \in Nat BY <1>0, <1>6
<1>8. f[n - 1] < f[n] BY <1>1, <1>6
<1>9. CASE n = a + 1
  <2>1. f[n - 1] = f[a] BY <1>9
  <2> QED BY <1>5, <1>8, <2>1
<1>10. CASE n # a + 1
  <2>1. n - 1 \in (a + 1)..k /\ ~(n <= n - 1) BY <1>5, <1>10
  <2>2. f[a] < f[n - 1] BY <1>4, <2>1
  <2> QED BY <1>5, <1>7, <1>8, <2>2
<1> QED BY <1>9, <1>10

\* With more rounds than matches on skipped dates the loop finds a date that is not.
LEMMA RoundsSuffice ==
  ASSUME NEW cfg, Regular(cfg), NEW now \in Nat, NEW k \in Nat, NEW f,
         Rounds(cfg, N!FirstMatch(cfg, now), k, f),
         IsFiniteSet(cfg.skip), Cardinality(cfg.skip) * Cardinality(Minutes(cfg)) <= k
  PROVE  ~N!IsDateSkipped(cfg, f[k])
<1> DEFINE M == Minutes(cfg)
           S == cfg.skip \X M
           g == [n \in 0..k |-> <<N!Day(f[n]), f[n] % DayLen>>]
<1>1. SUFFICES ASSUME N!IsDateSkipped(cfg, f[k]) PROVE FALSE OBVIOUS
<1>2. IsFiniteSet(S) /\ Cardinality(S) <= k /\ Cardinality(S) \in Nat
  <2>1. 0 \in Int /\ DayLen - 1 \in Int BY DayLenPositive
  <2>2. IsFiniteSet(0..(DayLen - 1)) BY <2>1, FS_Interval
  <2>3. IsFiniteSet(M) BY <2>2, RegularMinutes, FS_Subset
  <2>4. IsFiniteSet(S) /\ Cardinality(S) = Cardinality(cfg.skip) * Cardinality(M)
    BY <2>3, FS_Product
  <2> QED BY <2>4, FS_CardinalityType
<1>3. IsFiniteSet(0..k) /\ Cardinality(0..k) = k + 1
  <2>1. 0 \in Int /\ k \in Int /\ ~(0 > k) BY k \in Nat
  <2> QED BY <2>1, FS_Interval
<1>4. f \in [0..k -> Nat] BY DEF Rounds
<1>5. ASSUME NEW n \in 0..k PROVE N!Day(f[n]) \in cfg.skip /\ f[n] % DayLen \in M
  <2>1. N!IsDateSkipped(cfg, f[n]) BY <1>1, RoundsAllSkipped
  <2>2. Matches(cfg, f[n]) BY RoundsMissNothing DEF NothingMissed
  <2> QED BY <2>1, <2>2 DEF N!IsDateSkipped, Matches
<1>6. g \in [0..k -> S] BY <1>5
<1>7. ASSUME NEW a \in 0..k, NEW b \in 0..k, g[a] = g[b] PROVE f[a] = f[b]
  <2>1. N!Day(f[a]) = N!Day(f[b]) /\ f[a] % DayLen = f[b] % DayLen BY <1>7
  <2>2. f[a] \in Nat /\ f[b] \in Nat BY <1>4
  <2>3. DayLen \in Nat /\ DayLen > 0 BY DayLenPositive
  <2>4. f[a] = N!Day(f[a]) * DayLen + (f[a] % DayLen) BY <2>2, <2>3 DEF N!Day
  <2>5. f[b] = N!Day(f[b]) * DayLen + (f[b] % DayLen) BY <2>2, <2>3 DEF N!Day
  <2> QED BY <2>1, <2>4, <2>5
<1> HIDE DEF g, S
<1>8. PICK a, b \in 0..k : a # b /\ g[a] = g[b]
  <2>1. Cardinality(S) < Cardinality(0..k) BY <1>2, <1>3
  <2> QED BY <1>2, <1>3, <1>6, <2>1, FS_PigeonHole
<1>9. f[a] = f[b] BY <1>7, <1>8
<1>10. f[a] \in Nat /\ f[b] \in Nat BY <1>4
<1>11. CASE a < b
  <2>1. f[a] < f[b] BY <1>1, <1>11, RoundsIncrease
  <2> QED BY <1>9, <1>10, <2>1
<1>12. CASE b < a
  <2>1. f[b] < f[a] BY <1>1, <1>12, RoundsIncrease
  <2> QED BY <1>9, <1>10, <2>1
<1> QED BY <1>8, <1>11, <1>12

\* ComputeNextRun, before the delay: an instant after now at which the schedule fires,
\* with nothing before it that the schedule asks for.  The date itself is not a skipped
\* one if MaxIter reaches over every match on the skipped dates
\* (schedules.go:242-301).
THEOREM NextRunIsFirst ==
  ASSUME NEW cfg, Regular(cfg), NEW now \in Nat
  PROVE  LET run == N!SkipDates(cfg, N!FirstMatch(cfg, now)) IN
         /\ run \in Nat /\ now < run /\ Matches(cfg, run)
         /\ \A t \in Nat : now < t /\ t < run => ~AskedFor(cfg, t)
         /\ IsFiniteSet(cfg.skip)
              /\ Cardinality(cfg.skip) * Cardinality(Minutes(cfg)) <= MaxIter
            => AskedFor(cfg, run)
<1> DEFINE first == N!FirstMatch(cfg, now)
           run == N!SkipDates(cfg, first)
<1>0. MaxIter \in Nat BY SchedulerAssumption DEF SchedulerAssumption
<1>1. cfg \in SiteConfig BY DEF Regular
<1>2. first \in Nat BY <1>1, FirstMatchIsTime
<1>3. PICK f : Rounds(cfg, first, MaxIter, f) /\ run = f[MaxIter]
  BY <1>1, <1>2, SkipDatesIsLastRound
<1>4. f \in [0..MaxIter -> Nat] /\ MaxIter \in 0..MaxIter BY <1>0, <1>3 DEF Rounds
<1>5. run \in Nat BY <1>3, <1>4
<1>6. NothingMissed(cfg, now, run) BY <1>0, <1>3, <1>4, RoundsMissNothing
<1>7. ASSUME IsFiniteSet(cfg.skip),
             Cardinality(cfg.skip) * Cardinality(Minutes(cfg)) <= MaxIter
      PROVE  ~N!IsDateSkipped(cfg, run)
  BY <1>0, <1>3, <1>7, RoundsSuffice
<1> HIDE DEF run
<1>8. \A t \in Nat : now < t /\ t < run => ~AskedFor(cfg, t)
  BY <1>6 DEF NothingMissed, AskedFor
<1>9. now < run /\ Matches(cfg, run) BY <1>6 DEF NothingMissed
<1>10. (IsFiniteSet(cfg.skip)
          /\ Cardinality(cfg.skip) * Cardinality(Minutes(cfg)) <= MaxIter)
       => AskedFor(cfg, run)
  BY <1>7, <1>9 DEF AskedFor
<1> QED BY <1>5, <1>8, <1>9, <1>10 DEF run

LEMMA FirstAskedFirst == FirstAsked
<1> SUFFICES ASSUME NEW cfg \in Schedules, NEW now \in 0..MaxNow, Regular(cfg),
                    Cardinality(cfg.skip) * Cardinality(Minutes(cfg)) <= MaxIter
             PROVE  LET run == N!ComputeNextRun(cfg, now) - N!Delay(cfg)
                    IN  now < run /\ AskedFor(cfg, run) /\ \A t \in (now + 1)..(run - 1) : ~AskedFor(cfg, t)
  BY DEF FirstAsked
<1> DEFINE run == N!SkipDates(cfg, N!FirstMatch(cfg, now))
<1>1. now \in Nat /\ IsFiniteSet(cfg.skip)
  <2>1. now \in Nat OBVIOUS
  <2>2. IsFiniteSet(cfg.skip) BY SchedulerAssumption DEF SchedulerAssumption
  <2> QED BY <2>1, <2>2
<1>2. run \in Nat /\ now < run /\ AskedFor(cfg, run) BY <1>1, NextRunIsFirst
<1>3. \A t \in Nat : now < t /\ t < run => ~AskedFor(cfg, t) BY <1>1, NextRunIsFirst
<1>4. N!Delay(cfg) \in Nat
  <2>1. cfg.dmin \in Nat /\ cfg.dmax \in Nat BY DEF Regular, SiteConfig
  <2>2. (cfg.dmin + cfg.dmax) \div 2 \in Nat BY <2>1, Division
  <2> QED BY <2>2 DEF N!Delay
<1>5. N!ComputeNextRun(cfg, now) = run + N!Delay(cfg) BY DEF N!ComputeNextRun
<1> HIDE DEF run
<1>6. N!ComputeNextRun(cfg, now) - N!Delay(cfg) = run BY <1>2, <1>4, <1>5
<1>7. \A t \in (now + 1)..(run - 1) : t \in Nat /\ now < t /\ t < run BY <1>1, <1>2
<1> QED BY <1>2, <1>3, <1>6, <1>7

\* What ComputeNextRun returns, before its delay, is the first minute after now that the
\* schedule asks for: the property FirstAsked, of any schedules and any length of the day.
THEOREM FirstRunIsAsked == Spec => []FirstAsked
<1>1. FirstAsked BY FirstAskedFirst
<1> QED BY <1>1, PTL

-------------------------------------------------------------------------------
(* The invariant *)

Time == Int \cup {NoTime}

RowFields == {"status", "planned", "next", "last", "finished"}

RowsShape ==
  /\ DOMAIN rows = Jobs
  /\ \A j \in Jobs : DOMAIN rows[j] = RowFields
  /\ rows["checkin"].next \in Time /\ rows["checkin"].last \in Time

Shape ==
  /\ clock \in 0..MaxNow
  /\ daily \in DailyConfigs
  /\ begun \in [0..N!Day(MaxNow) -> Nat]
  /\ DOMAIN guard = Range(IntervalJobs)
  /\ RowsShape

\* The goroutine executes in a job only, and a tick starts with the daily check-in
\* at once.
Control ==
  /\ executing \in BOOLEAN
  /\ executing => unit \in Jobs \cup {"site loop"}
  /\ At("checkin") => tickNow = clock

\* The guard of a job is held while the goroutine executes it.
Guards == \A j \in Range(IntervalJobs) : guard[j] <=> (unit = j /\ executing)

\* The row of the daily run, while it executes, names the day it began on.
RunInHand ==
  unit = "checkin" /\ executing =>
    /\ tickNow \in Nat
    /\ rows["checkin"].last = N!Day(tickNow) /\ rows["checkin"].planned = N!Day(tickNow)

\* No day has had two daily runs, and the row remembers the last day that had one:
\* never a day to come.
Days ==
  /\ rows["checkin"].last # NoTime => rows["checkin"].last <= N!Day(clock)
  /\ \A d \in DOMAIN begun :
       /\ begun[d] <= 1
       /\ begun[d] = 1 => rows["checkin"].last # NoTime /\ d <= rows["checkin"].last

Inv == Shape /\ Control /\ Guards /\ RunInHand /\ Days /\ RunningRowIsTrue

-------------------------------------------------------------------------------
(* Names, units and rows *)

LEMMA Names ==
  /\ "checkin" \in Jobs /\ Range(IntervalJobs) \subseteq Jobs
  /\ \A j \in Jobs : j \notin {"sites", "site loop", "reset", "wait", "closed", "down"}
  /\ \A j \in Range(IntervalJobs) : j # "checkin"
  /\ NoTime \notin Int /\ MaxNow \in Nat /\ IntervalJobs \in Seq(STRING)
<1>1. SchedulerAssumption BY SchedulerAssumption
<1>2. Range(IntervalJobs) \cap
        {"checkin", "sites", "site loop", "reset", "wait", "closed", "down"} = {}
  BY <1>1 DEF SchedulerAssumption
<1>3. NoTime \notin Int /\ MaxNow \in Nat /\ IntervalJobs \in Seq(STRING)
  BY <1>1 DEF SchedulerAssumption
<1> QED BY <1>2, <1>3 DEF Jobs

LEMMA DailyNumbers ==
  ASSUME NEW cfg \in DailyConfigs
  PROVE  cfg.time \in Nat /\ cfg.dmin \in Nat /\ cfg.dmax \in Nat
<1>1. DailyConfigs \subseteq DailyConfig BY SchedulerAssumption DEF SchedulerAssumption
<1> QED BY <1>1 DEF DailyConfig

LEMMA UnitSequence ==
  /\ Len(IntervalJobs) \in Nat
  /\ DOMAIN Units = 1..Len(Units) /\ Len(Units) = Len(IntervalJobs) + 2
  /\ Units[2] = "sites"
  /\ \A k \in 3..Len(Units) : Units[k] \in Range(IntervalJobs)
  /\ DOMAIN IntervalJobs = 1..Len(IntervalJobs)
  /\ \A k \in 1..Len(IntervalJobs) : Units[k + 2] = IntervalJobs[k]
<1> DEFINE head == <<"checkin", "sites">>
           Name == STRING \cup {"checkin", "sites"}
<1>1. IntervalJobs \in Seq(Name) BY Names, SeqMonotonic
<1>2. head \in Seq(Name) /\ Len(head) = 2 /\ head[2] = "sites" OBVIOUS
<1>3. Units = head \o IntervalJobs BY DEF Units
<1> HIDE DEF head, Name
<1>c. /\ head \o IntervalJobs \in Seq(Name)
      /\ Len(head \o IntervalJobs) = Len(head) + Len(IntervalJobs)
      /\ \A k \in 1 .. Len(head) + Len(IntervalJobs) :
           (head \o IntervalJobs)[k] =
             IF k <= Len(head) THEN head[k] ELSE IntervalJobs[k - Len(head)]
  BY <1>1, <1>2, ConcatProperties
<1>4. /\ Units \in Seq(Name) /\ Len(Units) = 2 + Len(IntervalJobs)
      /\ \A k \in 1 .. 2 + Len(IntervalJobs) :
           Units[k] = IF k <= 2 THEN head[k] ELSE IntervalJobs[k - 2]
  BY <1>2, <1>3, <1>c
<1>5. Len(IntervalJobs) \in Nat /\ DOMAIN IntervalJobs = 1..Len(IntervalJobs)
      /\ DOMAIN Units = 1..Len(Units)
  BY <1>1, <1>4, LenProperties
<1>6. ASSUME NEW k \in 3..Len(Units) PROVE Units[k] \in Range(IntervalJobs)
  <2>1. Units[k] = IntervalJobs[k - 2] /\ k - 2 \in DOMAIN IntervalJobs BY <1>4, <1>5
  <2> QED BY <2>1 DEF Range
<1>7. ASSUME NEW k \in 1..Len(IntervalJobs) PROVE Units[k + 2] = IntervalJobs[k]
  <2>1. k + 2 \in 1 .. 2 + Len(IntervalJobs) /\ ~(k + 2 <= 2) /\ k + 2 - 2 = k BY <1>5
  <2> QED BY <1>4, <2>1
<1> QED BY <1>2, <1>4, <1>5, <1>6, <1>7

\* After a unit comes another, but never the first.
LEMMA NotCheckinNext ==
  ASSUME NEW u \in Range(Units)
  PROVE  UnitAfter(u) # "checkin"
<1> DEFINE i == CHOOSE k \in DOMAIN Units : Units[k] = u
<1>1. i \in 1..Len(Units) BY UnitSequence DEF Range
<1> HIDE DEF i
<1>4. ASSUME i # Len(Units) PROVE Units[i + 1] # "checkin"
  <2>1. CASE i = 1 BY UnitSequence, <2>1
  <2>2. CASE i # 1
    <3>1. i + 1 \in 3..Len(Units) BY UnitSequence, <1>1, <1>4, <2>2
    <3>2. Units[i + 1] \in Range(IntervalJobs) BY UnitSequence, <3>1
    <3> QED BY <3>2, Names
  <2> QED BY <2>1, <2>2
<1> QED BY <1>4 DEF UnitAfter, i

\* A plan marks no row running and clears none that is, and keeps its last run.
LEMMA PlanKeepsRows ==
  ASSUME RowsShape, NEW j \in Jobs, NEW k, NEW n, j = "checkin" => n \in Time,
         NEW row \in {rows[j], Planned(rows[j], k, n)},
         rows' = [rows EXCEPT ![j] = row]
  PROVE  /\ RowsShape'
         /\ \A i \in Jobs : rows'[i].status = "running" => rows[i].status = "running"
         /\ rows'["checkin"].last = rows["checkin"].last
<1>1. /\ DOMAIN row = RowFields /\ row.last = rows[j].last
      /\ row.status = "running" => rows[j].status = "running"
      /\ j = "checkin" => row.next \in Time
  BY DEF RowsShape, RowFields, Planned
<1> HIDE DEF Planned
<1>2. \A i \in Jobs : rows'[i] = IF i = j THEN row ELSE rows[i] BY DEF RowsShape
<1>3. DOMAIN rows' = Jobs BY DEF RowsShape
<1> QED BY <1>1, <1>2, <1>3, Names DEF RowsShape

\* The write that ends a run marks its row ended, or leaves the job to the stuck ones.
LEMMA FinishKeepsRows ==
  ASSUME RowsShape, NEW j \in Jobs, FinishRow(j),
         j = "checkin" => rows[j].planned = rows[j].last
  PROVE  /\ RowsShape'
         /\ \A i \in Jobs : rows'[i].status = "running" =>
              (rows[i].status = "running" /\ i # j /\ (i \in stuck <=> i \in stuck'))
                \/ i \in stuck'
         /\ rows'["checkin"].last = rows["checkin"].last
<1>1. CASE rows' = rows /\ stuck' = stuck \cup {j} BY <1>1 DEF RowsShape
<1>2. CASE /\ rows' = [rows EXCEPT ![j] = Ended(@, rows[j].planned)]
           /\ stuck' = stuck \ {j}
  <2> DEFINE row == Ended(rows[j], rows[j].planned)
  <2>1. /\ DOMAIN row = RowFields /\ row.last = rows[j].planned /\ row.next = rows[j].next
        /\ row.status # "running"
    BY DEF RowsShape, RowFields, Ended
  <2>2. rows' = [rows EXCEPT ![j] = row] BY <1>2
  <2> HIDE DEF row
  <2>3. \A i \in Jobs : rows'[i] = IF i = j THEN row ELSE rows[i] BY <2>2 DEF RowsShape
  <2>4. DOMAIN rows' = Jobs BY <2>2 DEF RowsShape
  <2> QED BY <1>2, <2>1, <2>3, <2>4, Names DEF RowsShape
<1> QED BY <1>1, <1>2 DEF FinishRow

-------------------------------------------------------------------------------
(* The daily run and the calendar *)

LEMMA PlanFacts ==
  ASSUME Shape, tickNow \in Nat
  PROVE  /\ CheckinPlan.start \in Nat /\ CheckinPlan.end \in Nat
         /\ CheckinPlan.key = N!Day(CheckinPlan.start)
         /\ N!Midnight(N!Day(tickNow)) <= CheckinPlan.start
<1> DEFINE dmax  == IF daily.dmax < daily.dmin THEN daily.dmin ELSE daily.dmax
           today == N!Midnight(N!Day(tickNow)) + daily.time
           base  == IF tickNow > today + dmax THEN today + DayLen ELSE today
<1>1. daily.time \in Nat /\ daily.dmin \in Nat /\ daily.dmax \in Nat
  BY DailyNumbers DEF Shape
<1>2. N!Midnight(N!Day(tickNow)) \in Nat BY DayBounds, DayLenPositive DEF N!Midnight
<1>3. today \in Nat /\ dmax \in Nat /\ N!Midnight(N!Day(tickNow)) <= today BY <1>1, <1>2
<1>4. base \in Nat /\ today <= base BY <1>3, DayLenPositive
<1>5. CheckinPlan = [start |-> base + daily.dmin, end |-> base + dmax,
                     key |-> N!Day(base + daily.dmin)]
  BY DEF CheckinPlan
<1> HIDE DEF dmax, today, base
<1> QED BY <1>1, <1>2, <1>3, <1>4, <1>5

\* An instant the row may hold is one of the plan's window or after its start.
LEMMA RunAtFacts ==
  ASSUME Shape, tickNow \in Nat, NEW runAt \in RunAts(rows["checkin"], CheckinPlan)
  PROVE  runAt \in Int /\ CheckinPlan.start <= runAt
<1>1. CASE Kept(rows["checkin"], CheckinPlan)
  <2>1. runAt = rows["checkin"].next /\ rows["checkin"].next \in Time
    BY <1>1 DEF RunAts, Shape, RowsShape
  <2> QED BY <1>1, <2>1, Names DEF Kept, InWindow, Time
<1>2. CASE ~Kept(rows["checkin"], CheckinPlan)
  <2>1. runAt \in CheckinPlan.start .. CheckinPlan.end BY <1>2 DEF RunAts
  <2> QED BY <2>1, PlanFacts
<1> QED BY <1>1, <1>2

\* What is due is the run of the day of the tick.
LEMMA DueToday ==
  ASSUME Shape, tickNow \in Nat, NEW runAt \in RunAts(rows["checkin"], CheckinPlan),
         DailyDue(rows["checkin"], CheckinPlan, runAt)
  PROVE  CheckinPlan.key = N!Day(tickNow)
<1>1. CheckinPlan.start <= tickNow BY RunAtFacts, PlanFacts DEF DailyDue
<1>2. N!Day(CheckinPlan.start) <= N!Day(tickNow) BY <1>1, PlanFacts, DayMonotone
<1>3. N!Day(tickNow) <= N!Day(CheckinPlan.start)
  BY PlanFacts, DayBounds, DayAfterMidnight
<1>4. N!Day(tickNow) \in Nat /\ N!Day(CheckinPlan.start) \in Nat BY PlanFacts, DayBounds
<1> QED BY <1>2, <1>3, <1>4, PlanFacts

-------------------------------------------------------------------------------
(* Steps that keep the invariant *)

LEMMA InitHolds == ASSUME Init PROVE Inv
<1>1. TickPeriod \in Nat \ {0} /\ MaxNow \in Nat /\ TickPeriod <= MaxNow
  BY SchedulerAssumption DEF SchedulerAssumption
<1>2. unit = "down" /\ ~executing /\ executing \in BOOLEAN BY DEF Init
<1>3. rows = [j \in Jobs |-> NoRow] BY DEF Init
<1>4. DOMAIN NoRow = RowFields /\ NoRow.last = NoTime /\ NoRow.next = NoTime
  BY DEF NoRow, RowFields
<1>5. RowsShape BY <1>3, <1>4, Names DEF RowsShape, Time
<1>6. clock \in 0..MaxNow
  <2>1. clock \in 0..(TickPeriod - 1) BY DEF Init
  <2> QED BY <1>1, <2>1
<1>7. begun = [d \in 0..N!Day(MaxNow) |-> 0] /\ daily \in DailyConfigs BY DEF Init
<1>8. guard = [j \in Range(IntervalJobs) |-> FALSE] BY DEF Init
<1>9. Shape BY <1>5, <1>6, <1>7, <1>8 DEF Shape
<1>10. Control /\ RunInHand BY <1>2 DEF Control, RunInHand, At
<1>11. Guards BY <1>2, <1>8 DEF Guards
<1>12. Days
  <2>1. rows["checkin"].last = NoTime BY <1>3, <1>4, Names
  <2>2. \A d \in DOMAIN begun : begun[d] = 0 BY <1>7
  <2> QED BY <2>1, <2>2 DEF Days
<1>13. RunningRowIsTrue BY <1>2 DEF RunningRowIsTrue
<1> QED BY <1>9, <1>10, <1>11, <1>12, <1>13 DEF Inv

\* No job executes afterwards.
LEMMA IdleKeeps ==
  ASSUME Inv, RowsShape', UNCHANGED <<clock, begun>>, daily' \in DailyConfigs,
         DOMAIN guard' = Range(IntervalJobs), \A j \in Range(IntervalJobs) : ~guard'[j],
         executing' = FALSE, unit' = "checkin" => tickNow' = clock,
         rows'["checkin"].last = rows["checkin"].last,
         unit' \notin {"down", "reset"} =>
           \A j \in Jobs : rows'[j].status = "running" => j \in stuck'
  PROVE  Inv'
<1>1. Shape' BY DEF Inv, Shape
<1>2. Control' /\ Guards' /\ RunInHand' BY DEF Control, Guards, RunInHand, At
<1>3. Days' BY DEF Inv, Days
<1>4. RunningRowIsTrue' BY DEF RunningRowIsTrue
<1> QED BY <1>1, <1>2, <1>3, <1>4 DEF Inv

\* Between jobs only the stuck ones have a running row, and no guard is held.
LEMMA WhenIdle ==
  ASSUME Inv, ~executing
  PROVE  /\ \A j \in Range(IntervalJobs) : ~guard[j]
         /\ unit \notin {"down", "reset"} =>
              \A j \in Jobs : rows[j].status = "running" => j \in stuck
BY DEF Inv, Guards, RunningRowIsTrue

\* The goroutine leaves a unit without a job, or goes on between two.
LEMMA MoveKeeps ==
  ASSUME Inv, ~executing, unit \notin {"down", "reset"}, executing' = FALSE,
         unit' = "checkin" => tickNow' = clock,
         UNCHANGED <<clock, begun, daily, guard, stuck>>, RowsShape',
         \A i \in Jobs : rows'[i].status = "running" => rows[i].status = "running",
         rows'["checkin"].last = rows["checkin"].last
  PROVE  Inv'
<1>1. daily' \in DailyConfigs /\ DOMAIN guard' = Range(IntervalJobs) BY DEF Inv, Shape
<1>2. \A j \in Range(IntervalJobs) : ~guard'[j] BY WhenIdle
<1>3. \A j \in Jobs : rows'[j].status = "running" => j \in stuck' BY WhenIdle
<1> QED BY <1>1, <1>2, <1>3, IdleKeeps

LEMMA SameRows ==
  ASSUME Inv, rows' = rows
  PROVE  /\ RowsShape' /\ rows'["checkin"].last = rows["checkin"].last
         /\ \A i \in Jobs : rows'[i].status = "running" => rows[i].status = "running"
BY DEF Inv, Shape, RowsShape

LEMMA ResetKeeps == ASSUME Inv, Reset PROVE Inv'
<1>1. PICK ok \in Written :
        IF ok THEN rows' = [j \in Jobs |-> AfterReset(rows[j])] /\ stuck' = {}
        ELSE /\ stuck' = stuck \cup {j \in Jobs : rows[j].status = "running"}
             /\ UNCHANGED rows
  BY DEF Reset
<1>2. /\ ~executing /\ executing' = FALSE /\ unit' = "checkin" /\ tickNow' = clock
      /\ UNCHANGED <<clock, begun, daily, guard>>
  BY DEF Reset, At, Inv, Control, configVars
<1>3. \A j \in Jobs : /\ DOMAIN AfterReset(rows[j]) = RowFields
                      /\ AfterReset(rows[j]).status # "running"
                      /\ AfterReset(rows[j]).last = rows[j].last
                      /\ AfterReset(rows[j]).next = rows[j].next
  BY DEF AfterReset, Inv, Shape, RowsShape, RowFields
<1>4. /\ RowsShape' /\ rows'["checkin"].last = rows["checkin"].last
      /\ \A j \in Jobs : rows'[j].status = "running" => j \in stuck'
  <2>1. CASE ok BY <1>1, <1>3, <2>1, Names DEF Inv, Shape, RowsShape
  <2>2. CASE ~ok BY <1>1, <2>2 DEF Inv, Shape, RowsShape
  <2> QED BY <2>1, <2>2
<1>5. daily' \in DailyConfigs /\ DOMAIN guard' = Range(IntervalJobs)
  BY <1>2 DEF Inv, Shape
<1> QED BY <1>2, <1>4, <1>5, WhenIdle, IdleKeeps

LEMMA StartTickKeeps == ASSUME Inv, StartTick PROVE Inv'
<1>1. /\ ~executing /\ executing' = FALSE /\ unit = "wait" /\ tickNow' = clock
      /\ UNCHANGED <<clock, begun, daily, guard, stuck, rows>>
  BY DEF StartTick, At, Inv, Control, configVars, historyVars
<1> QED BY <1>1, SameRows, MoveKeeps

LEMMA StopWaitingKeeps == ASSUME Inv, StopWaiting PROVE Inv'
<1>1. /\ ~executing /\ executing' = FALSE /\ unit = "wait" /\ unit' = "closed"
      /\ UNCHANGED <<clock, begun, daily, guard, stuck, rows>>
  BY DEF StopWaiting, At, Inv, Control, timeVars, configVars, historyVars
<1> QED BY <1>1, SameRows, MoveKeeps

\* Leaving a unit, with the plan of its job written or not.
LEMMA LeaveKeeps ==
  ASSUME Inv, NEW u \in Range(Units), Leave(u), ~executing, unit \notin {"down", "reset"},
         UNCHANGED <<clock, begun, daily, guard, stuck>>, RowsShape',
         \A i \in Jobs : rows'[i].status = "running" => rows[i].status = "running",
         rows'["checkin"].last = rows["checkin"].last
  PROVE  Inv'
<1>1. unit' # "checkin" /\ executing' = FALSE BY NotCheckinNext DEF Leave
<1> QED BY <1>1, MoveKeeps

LEMMA UnitNames ==
  /\ "checkin" \in Range(Units) /\ "sites" \in Range(Units)
  /\ Range(IntervalJobs) \subseteq Range(Units)
<1>1. 1 \in DOMAIN Units /\ 2 \in DOMAIN Units /\ Units[2] = "sites" BY UnitSequence
<1>2. Units[1] = "checkin" BY DEF Units
<1>3. ASSUME NEW j \in Range(IntervalJobs) PROVE j \in Range(Units)
  <2>1. PICK k \in 1..Len(IntervalJobs) : IntervalJobs[k] = j BY UnitSequence DEF Range
  <2>2. Units[k + 2] = j /\ k + 2 \in DOMAIN Units BY UnitSequence, <2>1
  <2> QED BY <2>2 DEF Range
<1> QED BY <1>1, <1>2, <1>3 DEF Range
-------------------------------------------------------------------------------
(* The daily check-in *)

\* No step of a tick but the first leaves the daily unit idle or another unit.
LEMMA AtUnit ==
  ASSUME Inv, NEW u \in Jobs, At(u)
  PROVE  ~executing /\ unit = u /\ unit \notin {"down", "reset"}
BY Names DEF At

LEMMA SkipCheckinKeeps == ASSUME Inv, SkipCheckin PROVE Inv'
<1>1. /\ At("checkin") /\ Leave("checkin")
      /\ UNCHANGED <<clock, begun, daily, guard, stuck>>
  BY DEF SkipCheckin, configVars, historyVars
<1>2. PICK ok \in Written :
        rows' = IF ok THEN [rows EXCEPT !["checkin"] = Planned(@, NoTime, NoTime)] ELSE rows
  BY DEF SkipCheckin
<1>3. /\ RowsShape' /\ rows'["checkin"].last = rows["checkin"].last
      /\ \A i \in Jobs : rows'[i].status = "running" => rows[i].status = "running"
  <2>1. CASE ok
    <3> DEFINE row == Planned(rows["checkin"], NoTime, NoTime)
    <3>1. rows' = [rows EXCEPT !["checkin"] = row] BY <1>2, <2>1
    <3>2. RowsShape /\ NoTime \in Time BY DEF Inv, Shape, Time
    <3>3. row \in {rows["checkin"], Planned(rows["checkin"], NoTime, NoTime)} OBVIOUS
    <3> HIDE DEF row
    <3> QED BY <3>1, <3>2, <3>3, Names, PlanKeepsRows
  <2>2. CASE ~ok BY <1>2, <2>2, SameRows
  <2> QED BY <2>1, <2>2
<1> QED BY <1>1, <1>3, AtUnit, UnitNames, Names, LeaveKeeps

LEMMA NumbersAreTimes == \A n \in Nat : n \in Time /\ n # NoTime
<1>1. NoTime \notin Int BY Names
<1> QED BY <1>1 DEF Time

LEMMA ClockFacts ==
  ASSUME Inv PROVE clock \in Nat /\ MaxNow \in Nat /\ clock <= MaxNow /\ N!Day(clock) \in Nat
<1>1. MaxNow \in Nat BY Names
<1>2. clock \in 0..MaxNow BY DEF Inv, Shape
<1>3. clock \in Nat /\ clock <= MaxNow BY <1>1, <1>2
<1> QED BY <1>1, <1>3, DayBounds

\* The row after the plan is the old one or one that holds an instant.
LEMMA PlannedCheckin ==
  ASSUME Inv, At("checkin"),
         NEW runAt \in RunAts(rows["checkin"], CheckinPlan),
         NEW row \in PlanWritten(rows["checkin"], CheckinPlan, runAt)
  PROVE  /\ tickNow = clock /\ tickNow \in Nat /\ runAt \in Time
         /\ row \in {rows["checkin"], Planned(rows["checkin"], CheckinPlan.key, runAt)}
<1>1. tickNow = clock /\ tickNow \in Nat BY ClockFacts DEF Inv, Control
<1>2. runAt \in Time BY <1>1, RunAtFacts DEF Inv, Time
<1>3. row \in {rows["checkin"], Planned(rows["checkin"], CheckinPlan.key, runAt)}
  BY DEF PlanWritten
<1> QED BY <1>1, <1>2, <1>3

LEMMA WaitForCheckinKeeps == ASSUME Inv, WaitForCheckin PROVE Inv'
<1>1. /\ At("checkin") /\ Leave("checkin")
      /\ UNCHANGED <<clock, begun, daily, guard, stuck>>
  BY DEF WaitForCheckin, configVars, historyVars
<1>2. PICK runAt \in RunAts(rows["checkin"], CheckinPlan) :
        \E row \in PlanWritten(rows["checkin"], CheckinPlan, runAt) :
          rows' = [rows EXCEPT !["checkin"] = row]
  BY DEF WaitForCheckin
<1>3. PICK row \in PlanWritten(rows["checkin"], CheckinPlan, runAt) :
        rows' = [rows EXCEPT !["checkin"] = row]
  BY <1>2
<1>4. /\ runAt \in Time
      /\ row \in {rows["checkin"], Planned(rows["checkin"], CheckinPlan.key, runAt)}
  BY <1>1, PlannedCheckin
<1>5. /\ RowsShape' /\ rows'["checkin"].last = rows["checkin"].last
      /\ \A i \in Jobs : rows'[i].status = "running" => rows[i].status = "running"
  <2>1. RowsShape BY DEF Inv, Shape
  <2> QED BY <1>3, <1>4, <2>1, Names, PlanKeepsRows
<1> QED BY <1>1, <1>5, AtUnit, UnitNames, Names, LeaveKeeps

\* The run of a day begins on that day, and no other run of it has begun before.
LEMMA BeginCheckinKeeps == ASSUME Inv, BeginCheckin PROVE Inv'
<1>1. /\ At("checkin") /\ Stay("checkin") /\ begun' = [begun EXCEPT ![CheckinPlan.key] = @ + 1]
      /\ UNCHANGED <<clock, daily, guard, stuck>>
  BY DEF BeginCheckin, configVars
<1>2. PICK runAt \in RunAts(rows["checkin"], CheckinPlan) :
        \E row \in PlanWritten(rows["checkin"], CheckinPlan, runAt) :
          /\ DailyDue(rows["checkin"], CheckinPlan, runAt)
          /\ rows' = [rows EXCEPT !["checkin"] = Begun(row, CheckinPlan.key)]
  BY DEF BeginCheckin
<1>3. PICK row \in PlanWritten(rows["checkin"], CheckinPlan, runAt) :
        rows' = [rows EXCEPT !["checkin"] = Begun(row, CheckinPlan.key)]
  BY <1>2
<1>4. /\ tickNow = clock /\ tickNow \in Nat /\ runAt \in Time
      /\ row \in {rows["checkin"], Planned(rows["checkin"], CheckinPlan.key, runAt)}
  BY <1>1, PlannedCheckin
<1> DEFINE day == N!Day(clock)
<1>5. CheckinPlan.key = day BY <1>2, <1>4, DueToday DEF Inv
<1>6. day \in Nat /\ day <= N!Day(MaxNow) /\ N!Day(MaxNow) \in Nat /\ MaxNow \in Nat
  <2>1. clock \in Nat /\ MaxNow \in Nat /\ clock <= MaxNow BY ClockFacts
  <2> QED BY <2>1, DayBounds, DayMonotone
<1>7. rows["checkin"].last # day BY <1>2, <1>5 DEF DailyDue
<1> HIDE DEF day
<1> DEFINE new == Begun(row, day)
<1>8. DOMAIN new = RowFields /\ new.last = day /\ new.planned = day /\ new.next \in Time
  <2>1. DOMAIN row = RowFields /\ row.next \in Time
    BY <1>4, Names DEF Planned, Inv, Shape, RowsShape, RowFields
  <2> QED BY <2>1 DEF Begun, RowFields
<1>9. rows' = [rows EXCEPT !["checkin"] = new] BY <1>3, <1>5
<1> HIDE DEF new
<1>10. \A j \in Jobs : rows'[j] = IF j = "checkin" THEN new ELSE rows[j]
  BY <1>9 DEF Inv, Shape, RowsShape
<1>11. DOMAIN rows' = Jobs /\ RowsShape'
  <2>1. DOMAIN rows' = Jobs BY <1>9 DEF Inv, Shape, RowsShape
  <2>2. \A j \in Jobs : DOMAIN rows'[j] = RowFields
    BY <1>8, <1>10 DEF Inv, Shape, RowsShape
  <2>3. rows'["checkin"] = new /\ day \in Time BY <1>6, <1>10, Names, NumbersAreTimes
  <2> QED BY <1>8, <2>1, <2>2, <2>3 DEF RowsShape
<1>12. begun[day] = 0
  <2>1. day \in DOMAIN begun /\ begun[day] \in Nat BY <1>6 DEF Inv, Shape
  <2>2. rows["checkin"].last \in Time BY DEF Inv, Shape, RowsShape
  <2>3. SUFFICES ASSUME begun[day] = 1 PROVE FALSE BY <2>1 DEF Inv, Days
  <2>4. /\ rows["checkin"].last # NoTime /\ day <= rows["checkin"].last
        /\ rows["checkin"].last <= day
    BY <2>1, <2>3 DEF Inv, Days, day
  <2> QED BY <1>6, <1>7, <2>2, <2>4 DEF Time
<1>13. begun' = [begun EXCEPT ![day] = 1]
  BY <1>1, <1>5, <1>6, <1>12 DEF Inv, Shape
<1>14. Shape'
  <2>1. begun' \in [0..N!Day(MaxNow) -> Nat] BY <1>13 DEF Inv, Shape
  <2> QED BY <1>1, <1>11, <2>1 DEF Inv, Shape
<1>15. unit' = "checkin" /\ executing' = TRUE /\ tickNow' = tickNow BY <1>1 DEF Stay
<1>16. Control' BY <1>15, Names DEF Control, At
<1>17. Guards' BY <1>1, <1>15, Names DEF Inv, Guards, At
<1>18. RunInHand' BY <1>4, <1>8, <1>10, <1>15, Names DEF RunInHand, day
<1>19. Days'
  <2>1. rows'["checkin"].last = day /\ N!Day(clock') = day BY <1>1, <1>8, <1>10, Names DEF day
  <2>2. rows["checkin"].last \in Time BY DEF Inv, Shape, RowsShape
  <2>3. ASSUME NEW d \in DOMAIN begun', begun'[d] = 1 PROVE d <= day
    <3>1. d \in Nat BY <1>13 DEF Inv, Shape
    <3>2. CASE d = day BY <1>6, <3>2
    <3>3. CASE d # day
      <4>1. d \in DOMAIN begun /\ begun[d] = 1 BY <1>13, <2>3, <3>3 DEF Inv, Shape
      <4>2. /\ rows["checkin"].last # NoTime /\ d <= rows["checkin"].last
            /\ rows["checkin"].last <= day
        BY <4>1 DEF Inv, Days, day
      <4> QED BY <1>6, <2>2, <3>1, <4>2 DEF Time
    <3> QED BY <3>2, <3>3
  <2>4. \A d \in DOMAIN begun' : begun'[d] <= 1 BY <1>13 DEF Inv, Shape, Days
  <2>5. day # NoTime BY <1>6, NumbersAreTimes
  <2> HIDE DEF day
  <2> QED BY <1>6, <2>1, <2>3, <2>4, <2>5 DEF Days
<1>20. RunningRowIsTrue'
  BY <1>1, <1>10, <1>15, AtUnit, WhenIdle, Names DEF RunningRowIsTrue
<1> QED BY <1>14, <1>16, <1>17, <1>18, <1>19, <1>20 DEF Inv

LEMMA EndCheckinKeeps == ASSUME Inv, EndCheckin PROVE Inv'
<1>1. /\ unit = "checkin" /\ executing /\ FinishRow("checkin") /\ Leave("checkin")
      /\ UNCHANGED <<clock, begun, daily, guard>>
  BY DEF EndCheckin, configVars
<1>2. rows["checkin"].planned = rows["checkin"].last BY <1>1 DEF Inv, RunInHand
<1>3. /\ RowsShape' /\ rows'["checkin"].last = rows["checkin"].last
      /\ \A i \in Jobs : rows'[i].status = "running" =>
           (rows[i].status = "running" /\ i # "checkin" /\ (i \in stuck <=> i \in stuck'))
             \/ i \in stuck'
  BY <1>1, <1>2, Names, FinishKeepsRows DEF Inv, Shape
<1>4. \A j \in Jobs : rows'[j].status = "running" => j \in stuck'
  BY <1>1, <1>3 DEF Inv, RunningRowIsTrue
<1>5. \A j \in Range(IntervalJobs) : ~guard'[j] BY <1>1, Names DEF Inv, Guards
<1>6. unit' # "checkin" /\ executing' = FALSE
  BY <1>1, UnitNames, NotCheckinNext DEF Leave
<1>7. daily' \in DailyConfigs /\ DOMAIN guard' = Range(IntervalJobs)
  BY <1>1 DEF Inv, Shape
<1> QED BY <1>1, <1>3, <1>4, <1>5, <1>6, <1>7, IdleKeeps

-------------------------------------------------------------------------------
(* Sites *)

LEMMA ListSitesKeeps == ASSUME Inv, ListSites PROVE Inv'
<1>1. /\ ~executing /\ unit = "sites" /\ unit' = "site loop" /\ executing' = FALSE
      /\ UNCHANGED <<clock, begun, daily, guard, stuck, rows>>
  BY DEF ListSites, At, Inv, Control, timeVars, configVars, historyVars
<1> QED BY <1>1, SameRows, MoveKeeps

LEMMA EndSitesKeeps == ASSUME Inv, EndSites PROVE Inv'
<1>1. /\ ~executing /\ unit = "site loop" /\ Leave("sites")
      /\ UNCHANGED <<clock, begun, daily, guard, stuck, rows>>
  BY DEF EndSites, At, configVars
<1> QED BY <1>1, SameRows, UnitNames, LeaveKeeps

LEMMA BeginSiteKeeps == ASSUME Inv, NEW e, BeginSite(e) PROVE Inv'
<1>1. /\ unit = "site loop" /\ ~executing /\ Stay("site loop")
      /\ UNCHANGED <<clock, begun, daily, guard, stuck, rows>>
  BY DEF BeginSite, At, configVars, historyVars
<1>2. unit' = "site loop" /\ executing' = TRUE BY <1>1 DEF Stay
<1>3. Shape' /\ Days' BY <1>1 DEF Inv, Shape, RowsShape, Days
<1>4. Control' /\ RunInHand' BY <1>2 DEF Control, RunInHand, At
<1>5. Guards' BY <1>1, <1>2, Names DEF Inv, Guards
<1>6. RunningRowIsTrue' BY <1>1, <1>2, WhenIdle DEF RunningRowIsTrue
<1> QED BY <1>3, <1>4, <1>5, <1>6 DEF Inv

LEMMA EndSiteKeeps == ASSUME Inv, NEW r, EndSite(r) PROVE Inv'
<1>1. /\ unit = "site loop" /\ executing /\ unit' = "site loop" /\ executing' = FALSE
      /\ UNCHANGED <<clock, begun, daily, guard, stuck, rows>>
  BY DEF EndSite, configVars
<1>2. \A j \in Range(IntervalJobs) : ~guard'[j] BY <1>1, Names DEF Inv, Guards
<1>3. \A j \in Jobs : rows'[j].status = "running" => j \in stuck'
  BY <1>1, Names DEF Inv, RunningRowIsTrue
<1>4. daily' \in DailyConfigs /\ DOMAIN guard' = Range(IntervalJobs)
  BY <1>1 DEF Inv, Shape
<1> QED BY <1>1, <1>2, <1>3, <1>4, SameRows, IdleKeeps

-------------------------------------------------------------------------------
(* Interval jobs *)

LEMMA SkipJobKeeps ==
  ASSUME Inv, NEW j \in Range(IntervalJobs), SkipJob(j) PROVE Inv'
<1>1. /\ At(j) /\ Leave(j) /\ UNCHANGED <<clock, begun, daily, guard, stuck>>
  BY DEF SkipJob, configVars, historyVars
<1>2. PICK ok \in Written :
        rows' = IF ok THEN [rows EXCEPT ![j] = Planned(@, NoTime, NoTime)] ELSE rows
  BY DEF SkipJob
<1>3. /\ RowsShape' /\ rows'["checkin"].last = rows["checkin"].last
      /\ \A i \in Jobs : rows'[i].status = "running" => rows[i].status = "running"
  <2>1. CASE ok
    <3> DEFINE row == Planned(rows[j], NoTime, NoTime)
    <3>1. rows' = [rows EXCEPT ![j] = row] BY <1>2, <2>1
    <3>2. RowsShape BY DEF Inv, Shape
    <3>3. row \in {rows[j], Planned(rows[j], NoTime, NoTime)} OBVIOUS
    <3> HIDE DEF row
    <3> QED BY <3>1, <3>2, <3>3, Names, PlanKeepsRows
  <2>2. CASE ~ok BY <1>2, <2>2, SameRows
  <2> QED BY <2>1, <2>2
<1> QED BY <1>1, <1>3, AtUnit, UnitNames, Names, LeaveKeeps

LEMMA WaitForJobKeeps ==
  ASSUME Inv, NEW j \in Range(IntervalJobs), WaitForJob(j) PROVE Inv'
<1>1. /\ At(j) /\ Leave(j) /\ UNCHANGED <<clock, begun, daily, guard, stuck>>
  BY DEF WaitForJob, GuardAfterRefusal, configVars, historyVars
<1>2. PICK row \in JobPlanWritten(j) : rows' = [rows EXCEPT ![j] = row] BY DEF WaitForJob
<1>3. row \in {rows[j], Planned(rows[j], NoTime, NextOfJob(j))} BY DEF JobPlanWritten
<1>4. /\ RowsShape' /\ rows'["checkin"].last = rows["checkin"].last
      /\ \A i \in Jobs : rows'[i].status = "running" => rows[i].status = "running"
  <2>1. RowsShape BY DEF Inv, Shape
  <2> QED BY <1>2, <1>3, <2>1, Names, PlanKeepsRows
<1> QED BY <1>1, <1>4, AtUnit, UnitNames, Names, LeaveKeeps

LEMMA BeginJobKeeps ==
  ASSUME Inv, NEW j \in Range(IntervalJobs), BeginJob(j) PROVE Inv'
<1>1. /\ At(j) /\ Stay(j) /\ guard' = [guard EXCEPT ![j] = TRUE]
      /\ UNCHANGED <<clock, begun, daily, stuck>>
  BY DEF BeginJob, configVars
<1>2. PICK row \in JobPlanWritten(j) : rows' = [rows EXCEPT ![j] = Begun(row, NoTime)]
  BY DEF BeginJob
<1>3. row \in {rows[j], Planned(rows[j], NoTime, NextOfJob(j))} BY DEF JobPlanWritten
<1> DEFINE new == Begun(row, NoTime)
<1>4. DOMAIN new = RowFields
  BY <1>3, Names DEF Begun, Planned, Inv, Shape, RowsShape, RowFields
<1>5. rows' = [rows EXCEPT ![j] = new] BY <1>2
<1> HIDE DEF new
<1>6. \A i \in Jobs : rows'[i] = IF i = j THEN new ELSE rows[i]
  BY <1>5 DEF Inv, Shape, RowsShape
<1>7. RowsShape' /\ rows'["checkin"] = rows["checkin"]
  BY <1>4, <1>5, <1>6, Names DEF Inv, Shape, RowsShape
<1>8. unit' = j /\ executing' = TRUE BY <1>1 DEF Stay
<1>9. Shape' /\ Days' BY <1>1, <1>7 DEF Inv, Shape, Days
<1>10. Control' /\ RunInHand' BY <1>8, Names DEF Control, RunInHand, At
<1>11. Guards' BY <1>1, <1>8, AtUnit, WhenIdle, Names DEF Inv, Guards, Shape
<1>12. RunningRowIsTrue'
  BY <1>1, <1>6, <1>8, AtUnit, WhenIdle, Names DEF RunningRowIsTrue
<1> QED BY <1>9, <1>10, <1>11, <1>12 DEF Inv

LEMMA EndJobKeeps ==
  ASSUME Inv, NEW j \in Range(IntervalJobs), EndJob(j) PROVE Inv'
<1>1. /\ unit = j /\ executing /\ FinishRow(j) /\ Leave(j)
      /\ guard' = [guard EXCEPT ![j] = FALSE] /\ UNCHANGED <<clock, begun, daily>>
  BY DEF EndJob, configVars
<1>2. /\ RowsShape' /\ rows'["checkin"].last = rows["checkin"].last
      /\ \A i \in Jobs : rows'[i].status = "running" =>
           (rows[i].status = "running" /\ i # j /\ (i \in stuck <=> i \in stuck'))
             \/ i \in stuck'
  BY <1>1, Names, FinishKeepsRows DEF Inv, Shape
<1>3. \A i \in Jobs : rows'[i].status = "running" => i \in stuck'
  BY <1>1, <1>2, Names DEF Inv, RunningRowIsTrue
<1>4. \A i \in Range(IntervalJobs) : ~guard'[i] BY <1>1 DEF Inv, Guards, Shape
<1>5. unit' # "checkin" /\ executing' = FALSE
  BY <1>1, UnitNames, NotCheckinNext DEF Leave
<1>6. daily' \in DailyConfigs /\ DOMAIN guard' = Range(IntervalJobs)
  BY <1>1 DEF Inv, Shape
<1> QED BY <1>1, <1>2, <1>3, <1>4, <1>5, <1>6, IdleKeeps

-------------------------------------------------------------------------------
(* Time, users and the end of the process *)

LEMMA AdvanceKeeps == ASSUME Inv, Advance PROVE Inv'
<1>1. /\ clock < MaxNow /\ clock' = clock + 1 /\ ~At("checkin")
      /\ UNCHANGED <<tickNow, unit, executing, guard, rows, daily, begun, stuck>>
  BY Names DEF Advance, At, controlVars, configVars, historyVars
<1>2. /\ clock' \in 0..MaxNow /\ N!Day(clock) <= N!Day(clock') /\ N!Day(clock') \in Nat
      /\ N!Day(clock) \in Nat
  BY <1>1, ClockFacts, DayMonotone, DayBounds
<1>3. Shape' BY <1>1, <1>2 DEF Inv, Shape, RowsShape
<1>4. Control' /\ Guards' /\ RunInHand' /\ RunningRowIsTrue'
  BY <1>1 DEF Inv, Control, Guards, RunInHand, RunningRowIsTrue, At
<1>5. Days'
  <2>1. rows["checkin"].last \in Time BY DEF Inv, Shape, RowsShape
  <2> QED BY <1>1, <1>2, <2>1 DEF Inv, Days, Time
<1> QED BY <1>3, <1>4, <1>5 DEF Inv

\* A user's edit, and Close: nothing of the invariant but the setting changes.
LEMMA EditKeeps ==
  ASSUME Inv, daily' \in DailyConfigs,
         UNCHANGED <<clock, tickNow, unit, executing, guard, rows, begun, stuck>>
  PROVE  Inv'
<1>1. Shape' BY DEF Inv, Shape, RowsShape
<1>2. Control' /\ Guards' /\ RunInHand' /\ Days' /\ RunningRowIsTrue'
  BY DEF Inv, Control, Guards, RunInHand, Days, RunningRowIsTrue, At
<1> QED BY <1>1, <1>2 DEF Inv

LEMMA SaveKeeps ==
  ASSUME Inv,
         \/ \E cfg \in DailyConfigs : SaveDaily(cfg)
         \/ \E j \in Range(IntervalJobs), cfg \in IntervalConfigs : SaveJob(j, cfg)
         \/ \E s \in Sites, cfg \in SiteConfigs : SaveSite(s, cfg)
         \/ Close
  PROVE  Inv'
<1>0. daily \in DailyConfigs BY DEF Inv, Shape
<1>1. CASE \E cfg \in DailyConfigs : SaveDaily(cfg)
  BY <1>1, EditKeeps DEF SaveDaily, timeVars, controlVars, historyVars
<1>2. CASE \E j \in Range(IntervalJobs), cfg \in IntervalConfigs : SaveJob(j, cfg)
  BY <1>0, <1>2, EditKeeps DEF SaveJob, timeVars, controlVars, historyVars
<1>3. CASE \E s \in Sites, cfg \in SiteConfigs : SaveSite(s, cfg)
  BY <1>0, <1>3, EditKeeps DEF SaveSite, timeVars, controlVars, historyVars
<1>4. CASE Close
  BY <1>0, <1>4, EditKeeps DEF Close, timeVars, configVars, historyVars
<1> QED BY <1>1, <1>2, <1>3, <1>4

LEMMA BootKeeps == ASSUME Inv, Boot PROVE Inv'
<1>1. /\ unit = "down" /\ unit' = "reset" /\ ~executing /\ executing' = FALSE
      /\ UNCHANGED <<clock, guard, rows, daily, begun, stuck>>
  BY Names DEF Boot, Inv, Control, configVars, historyVars
<1>2. daily' \in DailyConfigs /\ DOMAIN guard' = Range(IntervalJobs) BY <1>1 DEF Inv, Shape
<1>3. \A j \in Range(IntervalJobs) : ~guard'[j] BY <1>1, WhenIdle
<1> QED BY <1>1, <1>2, <1>3, SameRows, IdleKeeps

LEMMA ExitKeeps == ASSUME Inv, Exit PROVE Inv'
<1>1. /\ unit' = "down" /\ executing' = FALSE
      /\ guard' = [j \in Range(IntervalJobs) |-> FALSE]
      /\ UNCHANGED <<clock, rows, daily, begun, stuck>>
  BY DEF Exit, configVars
<1>2. daily' \in DailyConfigs /\ DOMAIN guard' = Range(IntervalJobs) BY <1>1 DEF Inv, Shape
<1>3. \A j \in Range(IntervalJobs) : ~guard'[j] BY <1>1
<1> QED BY <1>1, <1>2, <1>3, SameRows, IdleKeeps

LEMMA NextKeeps == ASSUME Inv, [Next]_vars PROVE Inv'
<1>1. CASE UNCHANGED vars
  <2>1. daily \in DailyConfigs BY DEF Inv, Shape
  <2> QED BY <1>1, <2>1, EditKeeps
        DEF vars, timeVars, controlVars, configVars, historyVars
<1>2. CASE Scheduler
  BY <1>2, ResetKeeps, StartTickKeeps, StopWaitingKeeps, SkipCheckinKeeps,
     WaitForCheckinKeeps, BeginCheckinKeeps, EndCheckinKeeps, ListSitesKeeps, EndSitesKeeps,
     BeginSiteKeeps, EndSiteKeeps, SkipJobKeeps, WaitForJobKeeps, BeginJobKeeps, EndJobKeeps
  DEF Scheduler
<1>3. CASE Environment
  BY <1>3, AdvanceKeeps, BootKeeps, ExitKeeps, SaveKeeps DEF Environment
<1> QED BY <1>1, <1>2, <1>3 DEF Next

-------------------------------------------------------------------------------
(* The schedules of single sites *)

\* What the goroutine has read of the schedules, and what it has planned for them.
SitesShape ==
  /\ clock \in Nat
  /\ siteConfig \in [Sites -> SiteConfigs]
  /\ siteNext \in [Sites -> Nat]
  /\ todo \subseteq Sites \X SiteConfigs
  /\ unit = "site loop" /\ executing => inHand \in Sites \X SiteConfigs

LEMMA SitesShapeHolds == Init => SitesShape
<1>1. ASSUME Init PROVE SitesShape
  <2>1. clock \in 0..(TickPeriod - 1) /\ TickPeriod \in Nat
    BY <1>1, SchedulerAssumption DEF Init, SchedulerAssumption
  <2>2. clock \in Nat BY <2>1
  <2>3. siteConfig \in [Sites -> SiteConfigs] BY <1>1 DEF Init
  <2>4. \A s \in Sites : N!ComputeNextRun(siteConfig[s], clock) \in Nat
    BY <2>2, <2>3, SiteNumbers, NextRunIsTime
  <2>5. siteNext = [s \in Sites |-> N!ComputeNextRun(siteConfig[s], clock)]
    BY <1>1 DEF Init
  <2>6. siteNext \in [Sites -> Nat] BY <2>4, <2>5
  <2>7. todo = {} /\ executing = FALSE BY <1>1 DEF Init
  <2> QED BY <2>2, <2>3, <2>6, <2>7 DEF SitesShape
<1> QED BY <1>1

\* Most steps leave the schedules, their plans and what was read of them alone.
LEMMA SitesAside ==
  ASSUME SitesShape, clock' \in Nat, todo' \subseteq todo,
         UNCHANGED <<siteConfig, siteNext>>,
         \/ executing' = FALSE
         \/ unit' # "site loop"
         \/ UNCHANGED <<unit, executing, inHand>>
  PROVE  SitesShape'
<1>1. siteConfig' \in [Sites -> SiteConfigs] /\ siteNext' \in [Sites -> Nat]
  BY DEF SitesShape
<1>2. todo' \subseteq Sites \X SiteConfigs BY DEF SitesShape
<1>3. CASE executing' = FALSE \/ unit' # "site loop" BY <1>1, <1>2, <1>3 DEF SitesShape
<1>4. CASE UNCHANGED <<unit, executing, inHand>> BY <1>1, <1>2, <1>4 DEF SitesShape
<1> QED BY <1>3, <1>4

LEMMA GoroutineKeepsSites ==
  ASSUME SitesShape,
         \/ Reset \/ StartTick \/ StopWaiting
         \/ SkipCheckin \/ WaitForCheckin \/ BeginCheckin \/ EndCheckin \/ EndSites
         \/ \E j \in Range(IntervalJobs) :
              SkipJob(j) \/ WaitForJob(j) \/ BeginJob(j) \/ EndJob(j)
  PROVE  SitesShape' /\ UNCHANGED <<siteConfig, siteNext, clock>>
<1>0. clock \in Nat BY DEF SitesShape
<1>1. ASSUME Reset \/ StartTick \/ StopWaiting
      PROVE  /\ UNCHANGED <<siteConfig, siteNext, clock, todo>>
             /\ unit' # "site loop"
  BY <1>1 DEF Reset, StartTick, StopWaiting, configVars, siteVars, timeVars
<1>2. ASSUME SkipCheckin \/ WaitForCheckin \/ EndCheckin
      PROVE  /\ UNCHANGED <<siteConfig, siteNext, clock, todo>>
             /\ executing' = FALSE
  BY <1>2 DEF SkipCheckin, WaitForCheckin, EndCheckin, Leave, configVars, siteVars
<1>3. ASSUME BeginCheckin
      PROVE  /\ UNCHANGED <<siteConfig, siteNext, clock, todo>>
             /\ unit' # "site loop"
  BY <1>3 DEF BeginCheckin, Stay, configVars, siteVars
<1>4. ASSUME EndSites
      PROVE  /\ UNCHANGED <<siteConfig, siteNext, clock>> /\ todo' = {}
             /\ executing' = FALSE
  BY <1>4 DEF EndSites, Leave, configVars
<1>5. ASSUME NEW j \in Range(IntervalJobs), SkipJob(j) \/ WaitForJob(j) \/ EndJob(j)
      PROVE  /\ UNCHANGED <<siteConfig, siteNext, clock, todo>>
             /\ executing' = FALSE
  BY <1>5 DEF SkipJob, WaitForJob, EndJob, Leave, configVars, siteVars
<1>6. ASSUME NEW j \in Range(IntervalJobs), BeginJob(j)
      PROVE  /\ UNCHANGED <<siteConfig, siteNext, clock, todo>>
             /\ unit' # "site loop"
  BY <1>6, Names DEF BeginJob, Stay, configVars, siteVars
<1>7. UNCHANGED <<siteConfig, siteNext, clock>> /\ todo' \subseteq todo
      /\ (executing' = FALSE \/ unit' # "site loop")
  BY <1>1, <1>2, <1>3, <1>4, <1>5, <1>6
<1> QED BY <1>0, <1>7, SitesAside

LEMMA ListSitesKeepsSites ==
  ASSUME SitesShape, ListSites
  PROVE  SitesShape' /\ UNCHANGED <<siteConfig, siteNext, clock>>
<1>1. /\ UNCHANGED <<siteConfig, siteNext, clock>>
      /\ todo' \subseteq Sites \X SiteConfigs
      /\ ~executing /\ executing' = executing
  BY DEF ListSites, At, timeVars, configVars
<1> QED BY <1>1 DEF SitesShape

LEMMA BeginSiteKeepsSites ==
  ASSUME SitesShape, NEW e \in todo, BeginSite(e)
  PROVE  SitesShape' /\ UNCHANGED <<siteConfig, siteNext, clock>>
<1>1. UNCHANGED <<siteConfig, siteNext, clock, todo>> /\ inHand' = e
  BY DEF BeginSite, configVars
<1> QED BY <1>1 DEF SitesShape

\* A run that ends plans the next one of its own site only, and only if every account
\* was tried.
LEMMA EndSiteKeepsSites ==
  ASSUME SitesShape, NEW result \in {"complete", "cut", "error"}, EndSite(result)
  PROVE  /\ SitesShape' /\ UNCHANGED <<siteConfig, clock>>
         /\ \A s \in Sites : siteNext'[s] # siteNext[s] => s \in served'
<1>1. /\ UNCHANGED <<siteConfig, clock>> /\ executing' = FALSE
      /\ unit = "site loop" /\ executing
      /\ todo' = RestOfSites
      /\ result = "cut" => ctxDone
      /\ served' = IF result = "complete" THEN served \cup {inHand[1]} ELSE served
  BY DEF EndSite, configVars
<1>2. PICK ok \in Written :
        siteNext' = IF Advances(result) /\ ok
                    THEN [siteNext EXCEPT ![inHand[1]] = N!ComputeNextRun(inHand[2], clock)]
                    ELSE siteNext
  BY DEF EndSite, SiteWritten
<1>3. inHand[1] \in Sites /\ inHand[2] \in SiteConfigs /\ clock \in Nat
  BY <1>1 DEF SitesShape
<1>4. N!ComputeNextRun(inHand[2], clock) \in Nat BY <1>3, SiteNumbers, NextRunIsTime
<1>5. siteNext \in [Sites -> Nat] /\ todo \subseteq Sites \X SiteConfigs BY DEF SitesShape
<1>6. siteNext' \in [Sites -> Nat] BY <1>2, <1>3, <1>4, <1>5
<1>7. todo' \subseteq todo BY <1>1 DEF RestOfSites
<1>8. SitesShape' BY <1>1, <1>3, <1>5, <1>6, <1>7 DEF SitesShape
<1>9. ASSUME NEW s \in Sites, siteNext'[s] # siteNext[s] PROVE s \in served'
  <2>1. Advances(result) /\ ok /\ s = inHand[1] BY <1>2, <1>5, <1>9
  <2>2. result # "cut"
    <3>1. ctxDone => ok = FALSE BY <1>2 DEF Written
    <3> QED BY <1>1, <2>1, <3>1
  <2>3. result = "complete" BY <2>1, <2>2 DEF Advances
  <2> QED BY <1>1, <2>1, <2>3
<1> QED BY <1>1, <1>8, <1>9

LEMMA SaveSiteKeepsSites ==
  ASSUME SitesShape, NEW s \in Sites, NEW cfg \in SiteConfigs, SaveSite(s, cfg)
  PROVE  /\ SitesShape' /\ UNCHANGED clock
         /\ \A t \in Sites \ {s} : UNCHANGED <<siteConfig[t], siteNext[t]>>
<1>1. /\ siteConfig' = [siteConfig EXCEPT ![s] = cfg]
      /\ siteNext' = [siteNext EXCEPT ![s] = N!ComputeNextRun(cfg, clock)]
      /\ UNCHANGED <<clock, unit, executing, todo, inHand>>
  BY DEF SaveSite, timeVars, controlVars, siteVars
<1>2. clock \in Nat /\ siteConfig \in [Sites -> SiteConfigs] /\ siteNext \in [Sites -> Nat]
  BY DEF SitesShape
<1>3. N!ComputeNextRun(cfg, clock) \in Nat BY <1>2, SiteNumbers, NextRunIsTime
<1>4. siteConfig' \in [Sites -> SiteConfigs] /\ siteNext' \in [Sites -> Nat]
  BY <1>1, <1>2, <1>3
<1>5. SitesShape' BY <1>1, <1>2, <1>4 DEF SitesShape
<1>6. \A t \in Sites \ {s} : siteConfig'[t] = siteConfig[t] /\ siteNext'[t] = siteNext[t]
  BY <1>1, <1>2
<1> QED BY <1>1, <1>5, <1>6

\* Time goes on, and other edits, a new process and its end leave the schedules alone.
LEMMA OthersKeepSites ==
  ASSUME SitesShape,
         \/ Advance \/ Boot \/ Close \/ Exit
         \/ \E cfg \in DailyConfigs : SaveDaily(cfg)
         \/ \E j \in Range(IntervalJobs), cfg \in IntervalConfigs : SaveJob(j, cfg)
         \/ UNCHANGED vars
  PROVE  SitesShape' /\ UNCHANGED <<siteConfig, siteNext>> /\ clock' >= clock
<1>0. clock \in Nat BY DEF SitesShape
<1>1. ASSUME Advance
      PROVE  /\ UNCHANGED <<siteConfig, siteNext, todo, unit, executing, inHand>>
             /\ clock' = clock + 1
  BY <1>1 DEF Advance, controlVars, siteVars, configVars
<1>2. ASSUME Boot
      PROVE  /\ UNCHANGED <<siteConfig, siteNext, clock, todo>>
             /\ unit' # "site loop"
  BY <1>2 DEF Boot, siteVars, configVars
<1>3. ASSUME Exit
      PROVE  /\ UNCHANGED <<siteConfig, siteNext, clock>> /\ todo' = {}
             /\ executing' = FALSE
  BY <1>3 DEF Exit, configVars
<1>4. ASSUME \/ Close
             \/ \E cfg \in DailyConfigs : SaveDaily(cfg)
             \/ \E j \in Range(IntervalJobs), cfg \in IntervalConfigs : SaveJob(j, cfg)
      PROVE  UNCHANGED <<siteConfig, siteNext, clock, todo, unit, executing, inHand>>
  BY <1>4 DEF Close, SaveDaily, SaveJob, timeVars, controlVars, siteVars, configVars
<1>5. ASSUME UNCHANGED vars
      PROVE  UNCHANGED <<siteConfig, siteNext, clock, todo, unit, executing, inHand>>
  BY <1>5 DEF vars, timeVars, controlVars, siteVars, configVars
<1>6. /\ UNCHANGED <<siteConfig, siteNext>> /\ todo' \subseteq todo
      /\ clock' = clock \/ clock' = clock + 1
      /\ \/ executing' = FALSE
         \/ unit' # "site loop"
         \/ UNCHANGED <<unit, executing, inHand>>
  BY <1>1, <1>2, <1>3, <1>4, <1>5
<1>7. clock' \in Nat /\ clock' >= clock
  <2>1. clock' = clock \/ clock' = clock + 1 BY <1>6
  <2>2. CASE clock' = clock BY <1>0, <2>2
  <2>3. CASE clock' = clock + 1 BY <1>0, <2>3
  <2> QED BY <2>1, <2>2, <2>3
<1> QED BY <1>6, <1>7, SitesAside

\* What a step may do to the plan of a site: postpone it after a complete run, or put
\* the one of a schedule saved anew in its place.
PlansMove ==
  /\ clock' >= clock
  /\ \A s \in Sites :
       \/ UNCHANGED <<siteConfig[s], siteNext[s]>>
       \/ siteConfig'[s] = siteConfig[s] /\ s \in served'
       \/ \E cfg \in SiteConfigs : SaveSite(s, cfg)

LEMMA NextKeepsSites == ASSUME SitesShape, [Next]_vars PROVE SitesShape' /\ PlansMove
<1>0. clock \in Nat BY DEF SitesShape
<1>1. CASE \/ Reset \/ StartTick \/ StopWaiting
           \/ SkipCheckin \/ WaitForCheckin \/ BeginCheckin \/ EndCheckin \/ EndSites
           \/ \E j \in Range(IntervalJobs) :
                SkipJob(j) \/ WaitForJob(j) \/ BeginJob(j) \/ EndJob(j)
  <2>1. SitesShape' /\ UNCHANGED <<siteConfig, siteNext, clock>>
    BY <1>1, GoroutineKeepsSites
  <2> QED BY <1>0, <2>1 DEF PlansMove
<1>2. CASE ListSites \/ \E e \in todo : BeginSite(e)
  <2>1. SitesShape' /\ UNCHANGED <<siteConfig, siteNext, clock>>
    BY <1>2, ListSitesKeepsSites, BeginSiteKeepsSites
  <2> QED BY <1>0, <2>1 DEF PlansMove
<1>3. CASE \E r \in {"complete", "cut", "error"} : EndSite(r)
  <2>1. /\ SitesShape' /\ UNCHANGED <<siteConfig, clock>>
        /\ \A s \in Sites : siteNext'[s] # siteNext[s] => s \in served'
    BY <1>3, EndSiteKeepsSites
  <2> QED BY <1>0, <2>1 DEF PlansMove
<1>4. CASE \E s \in Sites, cfg \in SiteConfigs : SaveSite(s, cfg)
  <2>1. PICK s \in Sites : \E cfg \in SiteConfigs : SaveSite(s, cfg) BY <1>4
  <2>2. /\ SitesShape' /\ UNCHANGED clock
        /\ \A t \in Sites \ {s} : UNCHANGED <<siteConfig[t], siteNext[t]>>
    BY <2>1, SaveSiteKeepsSites
  <2> QED BY <1>0, <2>1, <2>2 DEF PlansMove
<1>5. CASE \/ Advance \/ Boot \/ Close \/ Exit
           \/ \E cfg \in DailyConfigs : SaveDaily(cfg)
           \/ \E j \in Range(IntervalJobs), cfg \in IntervalConfigs : SaveJob(j, cfg)
           \/ UNCHANGED vars
  <2>1. SitesShape' /\ UNCHANGED <<siteConfig, siteNext>> /\ clock' >= clock
    BY <1>5, OthersKeepSites
  <2> QED BY <2>1 DEF PlansMove
<1> QED BY <1>1, <1>2, <1>3, <1>4, <1>5 DEF Next, Scheduler, Environment

-------------------------------------------------------------------------------
(* The clock of a scheduler that nothing disturbs *)

\* Nothing fails, nobody edits a setting, the process goes on; no job is listed twice.
Undisturbed ==
  /\ Faults = {} /\ IsFiniteSet(Sites)
  /\ \A i, k \in 1..Len(IntervalJobs) : IntervalJobs[i] = IntervalJobs[k] => i = k

\* The time of n jobs.
Budget(n) == MaxRun * n

\* The row of the daily run holds a plan that has not begun.
Pending ==
  rows["checkin"].planned # NoTime /\ rows["checkin"].last # rows["checkin"].planned

\* The instant of a plan that has not begun lies after the tick, of which n jobs have
\* ended.
Behind(n) ==
  Pending => /\ rows["checkin"].next \in Int /\ tickNow < rows["checkin"].next
             /\ clock <= tickNow + Budget(n) + spent

Clockwork ==
  /\ clock \in Nat /\ spent \in 0..MaxRun /\ (~executing => spent = 0)
  /\ ~ctxDone
  /\ rows["checkin"].status = "running" => unit = "checkin" /\ executing

InTick == unit \in {"checkin", "sites", "site loop"} \cup Range(IntervalJobs)

\* The next tick fires within a period of this one, or the ticker is still to come.
FireSoon == tickNow \in Nat /\ (fire = NoTime \/ (fire \in Nat /\ fire <= tickNow + TickPeriod))

\* What is left of the sites in the loop.
SitesLeft ==
  /\ IsFiniteSet(todo) /\ Cardinality(todo) <= Cardinality(Sites)
  /\ executing => inHand \in todo
  /\ Behind(Cardinality(Sites) - Cardinality(todo))

\* The latest that the ticker may fire for a plan that has not begun.
FireInTime ==
  /\ fire \in Nat
  /\ Pending => /\ rows["checkin"].next \in Int
                /\ fire < rows["checkin"].next + TickPeriod
                            + Budget(Cardinality(Sites) + Len(IntervalJobs))

Progress ==
  /\ unit \in {"down", "reset"} => fire = NoTime /\ rows["checkin"].planned = NoTime
  /\ InTick => FireSoon
  /\ unit = "checkin" /\ executing => ~Pending
  /\ unit = "sites" => Behind(0)
  /\ unit = "site loop" => SitesLeft
  /\ \A p \in 1..Len(IntervalJobs) :
       unit = IntervalJobs[p] => Behind(Cardinality(Sites) + p - 1)
  /\ unit = "wait" => FireInTime

Prompt == Clockwork /\ Progress

LEMMA Periods ==
  /\ TickPeriod \in Nat /\ TickPeriod > 0 /\ MaxRun \in Nat
  /\ NoTime \notin Int /\ Len(IntervalJobs) \in Nat
<1>1. TickPeriod \in Nat \ {0} /\ MaxRun \in Nat BY SchedulerAssumption DEF SchedulerAssumption
<1>2. TickPeriod \in Nat /\ TickPeriod > 0 BY <1>1
<1>3. NoTime \notin Int BY Names
<1>4. Len(IntervalJobs) \in Nat BY UnitSequence
<1> QED BY <1>1, <1>2, <1>3, <1>4

LEMMA Budgets ==
  /\ Budget(0) = 0
  /\ \A n \in Nat : Budget(n) \in Nat /\ Budget(n + 1) = Budget(n) + MaxRun
  /\ \A m, n \in Nat : m <= n => Budget(m) <= Budget(n)
<1>1. MaxRun \in Nat BY Periods
<1>2. Budget(0) = 0 BY <1>1 DEF Budget
<1>3. ASSUME NEW n \in Nat PROVE Budget(n) \in Nat /\ Budget(n + 1) = Budget(n) + MaxRun
  BY <1>1 DEF Budget
<1>4. ASSUME NEW m \in Nat, NEW n \in Nat, m <= n PROVE Budget(m) <= Budget(n)
  <2>1. m * MaxRun <= n * MaxRun BY <1>1, <1>4, TimesMonotone
  <2>2. Budget(m) = m * MaxRun /\ Budget(n) = n * MaxRun BY <1>1 DEF Budget
  <2> QED BY <2>1, <2>2
<1> QED BY <1>2, <1>3, <1>4

LEMMA HowManySites == ASSUME Undisturbed PROVE Cardinality(Sites) \in Nat
BY FS_CardinalityType DEF Undisturbed

LEMMA OnlyWritten == ASSUME Undisturbed, ~ctxDone PROVE Written = {TRUE}
BY DEF Undisturbed, Written

\* The unit that follows is the next of the list, or the goroutine waits.
LEMMA FollowingUnit ==
  ASSUME Undisturbed, ~ctxDone, NEW k \in 1..Len(Units)
  PROVE  UnitAfter(Units[k]) = IF k = Len(Units) THEN "wait" ELSE Units[k + 1]
<1> DEFINE i == CHOOSE m \in DOMAIN Units : Units[m] = Units[k]
<1>1. i \in 1..Len(Units) /\ Units[i] = Units[k] BY UnitSequence
<1> HIDE DEF i
<1>2. Units[1] = "checkin" /\ Units[2] = "sites" BY UnitSequence DEF Units
<1>3. \A m \in 3..Len(Units) : Units[m] # "checkin" /\ Units[m] # "sites"
  <2>1. \A m \in 3..Len(Units) : Units[m] \in Range(IntervalJobs) BY UnitSequence
  <2>2. Range(IntervalJobs) \subseteq Jobs /\ \A j \in Range(IntervalJobs) : j # "checkin"
    BY Names
  <2> QED BY <2>1, <2>2, Names
<1>4. i = k
  <2>1. CASE k = 1 \/ k = 2 \/ i = 1 \/ i = 2
    <3>1. i \in 3..Len(Units) \/ i = 1 \/ i = 2 BY <1>1
    <3>2. k \in 3..Len(Units) \/ k = 1 \/ k = 2 OBVIOUS
    <3> QED BY <2>1, <3>1, <3>2, <1>1, <1>2, <1>3
  <2>2. CASE ~(k = 1 \/ k = 2 \/ i = 1 \/ i = 2)
    <3>1. /\ i - 2 \in 1..Len(IntervalJobs) /\ k - 2 \in 1..Len(IntervalJobs)
          /\ i - 2 + 2 = i /\ k - 2 + 2 = k
      BY <1>1, <2>2, UnitSequence
    <3>2. Units[i] = IntervalJobs[i - 2] /\ Units[k] = IntervalJobs[k - 2]
      BY <3>1, UnitSequence
    <3>3. i - 2 = k - 2 BY <1>1, <3>1, <3>2 DEF Undisturbed
    <3> QED BY <3>1, <3>3
  <2> QED BY <2>1, <2>2
<1>5. UnitAfter(Units[k]) = IF ctxDone THEN "closed"
                            ELSE IF i = Len(Units) THEN "wait" ELSE Units[i + 1]
  BY DEF UnitAfter, i
<1> QED BY <1>4, <1>5

\* Names apart.
LEMMA NamesApart ==
  /\ \A p \in 1..Len(IntervalJobs) :
       /\ IntervalJobs[p] \in Range(IntervalJobs)
       /\ IntervalJobs[p] \notin
            {"checkin", "sites", "site loop", "reset", "wait", "closed", "down"}
  /\ \A j \in Range(IntervalJobs) : \E p \in 1..Len(IntervalJobs) : j = IntervalJobs[p]
<1>1. \A p \in 1..Len(IntervalJobs) : IntervalJobs[p] \in Range(IntervalJobs)
  BY UnitSequence DEF Range
<1>2. \A j \in Range(IntervalJobs) : \E p \in 1..Len(IntervalJobs) : j = IntervalJobs[p]
  BY UnitSequence DEF Range
<1>3. \A j \in Range(IntervalJobs) :
        j \notin {"checkin", "sites", "site loop", "reset", "wait", "closed", "down"}
  BY Names
<1> QED BY <1>1, <1>2, <1>3

\* Leaving the sites (p = 0) or an interval job, with everything before it over.
LEMMA LeavePlace ==
  ASSUME Undisturbed, ~ctxDone, clock \in Nat, FireSoon, NEW p \in 0..Len(IntervalJobs),
         Leave(Units[p + 2]), UNCHANGED <<clock, ctxDone>>,
         rows'["checkin"] = rows["checkin"],
         Pending => /\ rows["checkin"].next \in Int /\ tickNow < rows["checkin"].next
                    /\ clock <= tickNow + Budget(Cardinality(Sites) + p)
  PROVE  Progress'
<1> DEFINE J == Len(IntervalJobs)
           S == Cardinality(Sites)
<1>0. J \in Nat /\ S \in Nat /\ Len(Units) = J + 2 /\ p + 2 \in 1..Len(Units)
  BY HowManySites, UnitSequence
<1>1. UnitAfter(Units[p + 2]) = IF p = J THEN "wait" ELSE IntervalJobs[p + 1]
  <2>1. UnitAfter(Units[p + 2]) = IF p + 2 = Len(Units) THEN "wait" ELSE Units[p + 2 + 1]
    BY <1>0, FollowingUnit
  <2>2. ASSUME p # J PROVE Units[p + 2 + 1] = IntervalJobs[p + 1]
    <3>1. p + 1 \in 1..J /\ p + 2 + 1 = (p + 1) + 2 BY <1>0, <2>2
    <3>2. Units[(p + 1) + 2] = IntervalJobs[p + 1] BY <3>1, UnitSequence
    <3> QED BY <3>1, <3>2
  <2>3. p # J => Units[p + 2 + 1] = IntervalJobs[p + 1] BY <2>2
  <2> QED BY <1>0, <2>1, <2>3
<1>2. Pending' <=> Pending BY DEF Pending
<1>3. CASE p # J
  <2>1. p + 1 \in 1..J BY <1>0, <1>3
  <2>2. /\ unit' = IntervalJobs[p + 1] /\ executing' = FALSE /\ spent' = 0
        /\ tickNow' = tickNow /\ fire' = fire
    BY <1>1, <1>3, <2>1, NamesApart DEF Leave
  <2>3. FireSoon' BY <2>2 DEF FireSoon
  <2>4. ASSUME NEW q \in 1..J, unit' = IntervalJobs[q] PROVE Behind(S + q - 1)'
    <3>1. q = p + 1 BY <2>1, <2>2, <2>4 DEF Undisturbed
    <3>2. S + q - 1 = S + p BY <1>0, <3>1
    <3>3. Budget(S + p) \in Nat
      <4>1. S + p \in Nat BY <1>0
      <4> QED BY <4>1, Budgets
    <3>4. clock' = clock /\ tickNow \in Nat BY DEF FireSoon
    <3>5. SUFFICES ASSUME Pending'
                   PROVE  /\ rows'["checkin"].next \in Int /\ tickNow' < rows'["checkin"].next
                          /\ clock' <= tickNow' + Budget(S + p) + spent'
      BY <3>2 DEF Behind, Budget
    <3>6. /\ rows["checkin"].next \in Int /\ tickNow < rows["checkin"].next
          /\ clock <= tickNow + Budget(S + p)
      BY <1>2, <3>5
    <3> QED BY <2>2, <3>3, <3>4, <3>6
  <2>5. unit' \notin {"down", "reset", "checkin", "sites", "site loop", "wait"}
    BY <2>1, <2>2, NamesApart
  <2> QED BY <2>3, <2>4, <2>5 DEF Progress
<1>4. CASE p = J
  <2>1. /\ unit' = "wait"
        /\ fire' = IF fire = NoTime THEN clock + TickPeriod ELSE fire
    BY <1>1, <1>4 DEF Leave
  <2>2. fire' \in Nat BY <2>1, Periods DEF FireSoon
  <2>3. ASSUME Pending'
        PROVE  /\ rows'["checkin"].next \in Int
               /\ fire' < rows'["checkin"].next + TickPeriod + Budget(S + J)
    <3>1. /\ rows["checkin"].next \in Int /\ tickNow < rows["checkin"].next
          /\ clock <= tickNow + Budget(S + J)
      BY <1>2, <1>4, <2>3
    <3>2. Budget(S + J) \in Nat
      <4>1. S + J \in Nat BY <1>0
      <4> QED BY <4>1, Budgets
    <3>3. tickNow \in Nat /\ TickPeriod \in Nat BY Periods DEF FireSoon
    <3>4. CASE fire = NoTime
      <4>1. fire' = clock + TickPeriod BY <2>1, <3>4
      <4>2. clock + TickPeriod < rows["checkin"].next + TickPeriod + Budget(S + J)
        BY <3>1, <3>2, <3>3
      <4> QED BY <3>1, <4>1, <4>2
    <3>5. CASE fire # NoTime
      <4>1. fire' = fire /\ fire \in Nat /\ fire <= tickNow + TickPeriod
        BY <2>1, <3>5 DEF FireSoon
      <4>2. fire < rows["checkin"].next + TickPeriod + Budget(S + J)
        BY <3>1, <3>2, <3>3, <4>1
      <4> QED BY <3>1, <4>1, <4>2
    <3> QED BY <3>4, <3>5
  <2>4. FireInTime' BY <2>2, <2>3 DEF FireInTime, Budget
  <2>5. ~InTick'
    <3>1. "wait" \notin Range(IntervalJobs) BY NamesApart
    <3> QED BY <2>1, <3>1 DEF InTick
  <2>6. \A q \in 1..J : unit' # IntervalJobs[q] BY <2>1, NamesApart
  <2> QED BY <2>1, <2>4, <2>5, <2>6 DEF Progress
<1> QED BY <1>3, <1>4

\* The first unit is left for the sites.
LEMMA LeaveCheckin ==
  ASSUME Undisturbed, ~ctxDone, FireSoon, Leave("checkin"), Behind(0)'
  PROVE  Progress'
<1>1. UnitAfter("checkin") = "sites"
  <2>1. Units[1] = "checkin" /\ Units[1 + 1] = "sites" /\ 1 \in 1..Len(Units)
        /\ 1 # Len(Units)
    BY UnitSequence DEF Units
  <2> QED BY <2>1, FollowingUnit
<1>2. unit' = "sites" /\ executing' = FALSE /\ tickNow' = tickNow /\ fire' = fire
  BY <1>1 DEF Leave
<1>3. FireSoon' BY <1>2 DEF FireSoon
<1>4. \A q \in 1..Len(IntervalJobs) : unit' # IntervalJobs[q] BY <1>2, NamesApart
<1> QED BY <1>2, <1>3, <1>4 DEF Progress

LEMMA PromptHolds == ASSUME Undisturbed, Init PROVE Prompt
<1>1. /\ unit = "down" /\ ~executing /\ ~ctxDone /\ fire = NoTime /\ spent = 0
      /\ rows = [j \in Jobs |-> NoRow] /\ clock \in 0..(TickPeriod - 1)
  BY DEF Init
<1>2. rows["checkin"].planned = NoTime /\ rows["checkin"].status # "running"
  BY <1>1, Names DEF NoRow
<1>3. clock \in Nat /\ spent \in 0..MaxRun BY <1>1, Periods
<1>4. ~InTick /\ \A p \in 1..Len(IntervalJobs) : unit # IntervalJobs[p]
  BY <1>1, NamesApart, Names DEF InTick
<1> QED BY <1>1, <1>2, <1>3, <1>4 DEF Prompt, Clockwork, Progress

LEMMA ResetIsPrompt == ASSUME Undisturbed, Inv, Prompt, Reset PROVE Prompt'
<1>1. /\ unit = "reset" /\ ~executing /\ unit' = "checkin" /\ ~executing' /\ tickNow' = clock
      /\ UNCHANGED <<clock, fire, spent, ctxDone>>
  BY DEF Reset, At, Inv, Control
<1>2. fire = NoTime /\ rows["checkin"].planned = NoTime BY <1>1 DEF Prompt, Progress
<1>3. clock \in Nat /\ spent \in 0..MaxRun /\ spent = 0 /\ ~ctxDone
  BY <1>1 DEF Prompt, Clockwork
<1>4. Written = {TRUE} BY <1>3, OnlyWritten
<1>5. rows' = [j \in Jobs |-> AfterReset(rows[j])] BY <1>4 DEF Reset
<1>6. rows'["checkin"].status # "running"
  <2>1. DOMAIN rows["checkin"] = RowFields BY Names DEF Inv, Shape, RowsShape
  <2>2. AfterReset(rows["checkin"]).status # "running" BY <2>1 DEF AfterReset, RowFields
  <2> QED BY <1>5, <2>2, Names
<1>7. FireSoon' BY <1>1, <1>2, <1>3 DEF FireSoon
<1>8. \A p \in 1..Len(IntervalJobs) : unit' # IntervalJobs[p] BY <1>1, NamesApart
<1> QED BY <1>1, <1>3, <1>6, <1>7, <1>8 DEF Prompt, Clockwork, Progress

LEMMA StartTickIsPrompt == ASSUME Undisturbed, Inv, Prompt, StartTick PROVE Prompt'
<1>1. /\ unit = "wait" /\ ~executing /\ fire <= clock /\ unit' = "checkin" /\ ~executing'
      /\ tickNow' = clock
      /\ fire' = fire + TickPeriod * ((clock - fire) \div TickPeriod + 1)
      /\ UNCHANGED <<clock, spent, ctxDone, rows>>
  BY DEF StartTick, At, Inv, Control
<1>2. fire \in Nat BY <1>1 DEF Prompt, Progress, FireInTime
<1>3. clock \in Nat /\ spent \in 0..MaxRun /\ spent = 0 /\ ~ctxDone
      /\ rows["checkin"].status # "running"
  BY <1>1 DEF Prompt, Clockwork
<1>4. fire' \in Nat /\ fire' <= clock + TickPeriod
  <2> DEFINE t == clock - fire
             q == t \div TickPeriod
  <2>1. t \in Nat BY <1>1, <1>2, <1>3
  <2>2. q \in Nat /\ q * TickPeriod <= t BY <2>1, Periods, Division
  <2>3. TickPeriod * (q + 1) = q * TickPeriod + TickPeriod BY <2>2, Periods
  <2>4. q * TickPeriod \in Nat /\ TickPeriod \in Nat BY <2>2, Periods
  <2>5. fire' = fire + (q * TickPeriod + TickPeriod) BY <1>1, <2>3
  <2> HIDE DEF q
  <2> QED BY <1>2, <1>3, <2>2, <2>4, <2>5
<1>5. FireSoon' BY <1>1, <1>3, <1>4 DEF FireSoon
<1>6. \A p \in 1..Len(IntervalJobs) : unit' # IntervalJobs[p] BY <1>1, NamesApart
<1> QED BY <1>1, <1>3, <1>5, <1>6 DEF Prompt, Clockwork, Progress

\* The daily check-in.

LEMMA AtCheckin ==
  ASSUME Undisturbed, Inv, Prompt, At("checkin")
  PROVE  /\ unit = "checkin" /\ ~executing /\ tickNow = clock /\ clock \in Nat
         /\ FireSoon /\ Written = {TRUE} /\ ~ctxDone /\ spent = 0
         /\ rows["checkin"].status # "running"
<1>1. unit = "checkin" /\ ~executing BY DEF At
<1>2. tickNow = clock BY DEF Inv, Control
<1>3. clock \in Nat /\ ~ctxDone /\ spent = 0 /\ rows["checkin"].status # "running"
  BY <1>1 DEF Prompt, Clockwork
<1>4. FireSoon BY <1>1 DEF Prompt, Progress, InTick
<1> QED BY <1>1, <1>2, <1>3, <1>4, OnlyWritten

LEMMA LeaveCheckinIsPrompt ==
  ASSUME Undisturbed, FireSoon, ~ctxDone, Leave("checkin"), clock \in Nat,
         UNCHANGED <<clock, ctxDone>>, rows'["checkin"].status # "running",
         Pending' => /\ rows'["checkin"].next \in Int /\ tickNow < rows'["checkin"].next
                     /\ clock = tickNow
  PROVE  Prompt'
<1>1. UnitAfter("checkin") = "sites"
  <2>1. Units[1] = "checkin" /\ Units[1 + 1] = "sites" /\ 1 \in 1..Len(Units)
        /\ 1 # Len(Units)
    BY UnitSequence DEF Units
  <2> QED BY <2>1, FollowingUnit
<1>2. executing' = FALSE /\ spent' = 0 /\ tickNow' = tickNow BY <1>1 DEF Leave
<1>3. Behind(0)'
  <2>1. SUFFICES ASSUME Pending'
                 PROVE  /\ rows'["checkin"].next \in Int /\ tickNow' < rows'["checkin"].next
                        /\ clock' <= tickNow' + Budget(0) + spent'
    BY DEF Behind, Budget
  <2>2. clock' = tickNow /\ tickNow' + Budget(0) + spent' = tickNow
    BY <1>2, <2>1, Budgets
  <2> QED BY <1>2, <2>1, <2>2
<1>4. Progress' BY <1>3, LeaveCheckin
<1>5. 0 \in 0..MaxRun BY Periods
<1> QED BY <1>2, <1>4, <1>5 DEF Prompt, Clockwork

LEMMA SkipCheckinIsPrompt == ASSUME Undisturbed, Inv, Prompt, SkipCheckin PROVE Prompt'
<1>1. At("checkin") /\ Leave("checkin") /\ UNCHANGED <<clock, ctxDone>>
  BY DEF SkipCheckin
<1>2. PICK ok \in Written :
        rows' = IF ok THEN [rows EXCEPT !["checkin"] = Planned(@, NoTime, NoTime)] ELSE rows
  BY DEF SkipCheckin
<1>3. ok
  <2>1. Written = {TRUE} BY <1>1, AtCheckin
  <2> QED BY <1>2, <2>1
<1> DEFINE row == Planned(rows["checkin"], NoTime, NoTime)
<1>4. row.planned = NoTime /\ row.status # "running"
  <2>1. DOMAIN rows["checkin"] = RowFields BY Names DEF Inv, Shape, RowsShape
  <2>2. rows["checkin"].status # "running" BY <1>1, AtCheckin
  <2> QED BY <2>1, <2>2 DEF Planned, RowFields
<1>5. rows' = [rows EXCEPT !["checkin"] = row] BY <1>2, <1>3
<1> HIDE DEF row
<1>6. rows'["checkin"] = row BY <1>5, Names DEF Inv, Shape, RowsShape
<1>7. ~Pending' BY <1>4, <1>6 DEF Pending
<1> QED BY <1>1, <1>4, <1>6, <1>7, AtCheckin, LeaveCheckinIsPrompt

\* The window of the plan of a tick is never over.
LEMMA WindowOpen ==
  ASSUME Shape, tickNow \in Nat PROVE tickNow <= CheckinPlan.end /\ CheckinPlan.end \in Nat
<1> DEFINE mid   == N!Midnight(N!Day(tickNow))
           dmax  == IF daily.dmax < daily.dmin THEN daily.dmin ELSE daily.dmax
           today == mid + daily.time
           base  == IF tickNow > today + dmax THEN today + DayLen ELSE today
<1>1. daily.time \in Nat /\ daily.dmin \in Nat /\ daily.dmax \in Nat
  BY DailyNumbers DEF Shape
<1>2. mid \in Nat /\ tickNow < mid + DayLen /\ DayLen \in Nat
  <2> DEFINE d == N!Day(tickNow)
  <2>1. d \in Nat /\ tickNow < (d + 1) * DayLen /\ DayLen \in Nat BY DayBounds, DayLenPositive
  <2>2. mid = d * DayLen BY DEF N!Midnight
  <2> HIDE DEF d, mid
  <2>3. (d + 1) * DayLen = d * DayLen + DayLen /\ d * DayLen \in Nat BY <2>1
  <2> QED BY <2>1, <2>2, <2>3
<1> HIDE DEF mid
<1>3. today \in Nat /\ dmax \in Nat /\ mid <= today BY <1>1, <1>2
<1>4. CheckinPlan.end = base + dmax BY DEF CheckinPlan, mid
<1> HIDE DEF today, dmax
<1>5. base + dmax \in Nat /\ tickNow <= base + dmax
  <2>1. CASE tickNow > today + dmax BY <1>2, <1>3, <2>1
  <2>2. CASE ~(tickNow > today + dmax) BY <1>2, <1>3, <2>2
  <2> QED BY <2>1, <2>2
<1> HIDE DEF base
<1> QED BY <1>4, <1>5

\* A plan that is not due yet lies after the tick.
LEMMA WaitForCheckinIsPrompt ==
  ASSUME Undisturbed, Inv, Prompt, WaitForCheckin PROVE Prompt'
<1>1. At("checkin") /\ Leave("checkin") /\ UNCHANGED <<clock, ctxDone>>
  BY DEF WaitForCheckin
<1>2. PICK runAt \in RunAts(rows["checkin"], CheckinPlan) :
        \E row \in PlanWritten(rows["checkin"], CheckinPlan, runAt) :
          /\ \/ ~DailyDue(rows["checkin"], CheckinPlan, runAt)
             \/ row.status = "running"
             \/ FALSE \in Written
          /\ rows' = [rows EXCEPT !["checkin"] = row]
  BY DEF WaitForCheckin
<1>3. PICK row \in PlanWritten(rows["checkin"], CheckinPlan, runAt) :
        /\ \/ ~DailyDue(rows["checkin"], CheckinPlan, runAt)
           \/ row.status = "running"
           \/ FALSE \in Written
        /\ rows' = [rows EXCEPT !["checkin"] = row]
  BY <1>2
<1> DEFINE old  == rows["checkin"]
           plan == CheckinPlan
<1>4. /\ tickNow = clock /\ clock \in Nat /\ Written = {TRUE} /\ old.status # "running"
      /\ FireSoon /\ ~ctxDone
  BY <1>1, AtCheckin
<1>5. row = IF ~Kept(old, plan) THEN Planned(old, plan.key, runAt) ELSE old
  BY <1>3, <1>4 DEF PlanWritten
<1>6. DOMAIN old = RowFields BY Names DEF Inv, Shape, RowsShape
<1>7. /\ row.planned = plan.key /\ row.next = runAt /\ row.last = old.last
      /\ row.status # "running"
  <2>1. CASE Kept(old, plan)
    <3>1. row = old /\ runAt = old.next /\ old.planned = plan.key
      BY <1>5, <2>1, <1>2 DEF Kept, RunAts
    <3> QED BY <1>4, <3>1
  <2>2. CASE ~Kept(old, plan)
    <3>1. row = Planned(old, plan.key, runAt) BY <1>5, <2>2
    <3> QED BY <1>4, <1>6, <3>1 DEF Planned, RowFields
  <2> QED BY <2>1, <2>2
<1>8. rows'["checkin"] = row BY <1>3, Names DEF Inv, Shape, RowsShape
<1>9. Shape /\ tickNow \in Nat BY <1>4 DEF Inv
<1>10. runAt \in Int BY <1>9, RunAtFacts
<1>11. ~DailyDue(old, plan, runAt) BY <1>3, <1>4, <1>7
<1> HIDE DEF old, plan
<1>12. ASSUME Pending' PROVE tickNow < runAt
  <2>1. old.last # plan.key BY <1>7, <1>8, <1>12 DEF Pending
  <2>2. ~(runAt <= tickNow /\ tickNow <= plan.end) BY <1>11, <2>1 DEF DailyDue
  <2>3. tickNow <= plan.end BY <1>9, WindowOpen DEF plan
  <2> QED BY <1>9, <1>10, <2>2, <2>3
<1>13. Pending' => /\ rows'["checkin"].next \in Int /\ tickNow < rows'["checkin"].next
                   /\ clock = tickNow
  BY <1>4, <1>7, <1>8, <1>10, <1>12
<1> QED BY <1>1, <1>4, <1>7, <1>8, <1>13, LeaveCheckinIsPrompt

LEMMA BeginCheckinIsPrompt == ASSUME Undisturbed, Inv, Prompt, BeginCheckin PROVE Prompt'
<1>1. At("checkin") /\ Stay("checkin") /\ UNCHANGED <<clock, ctxDone>>
  BY DEF BeginCheckin
<1>2. PICK row : rows' = [rows EXCEPT !["checkin"] = Begun(row, CheckinPlan.key)]
                 /\ row \in {rows["checkin"]}
                      \cup {Planned(rows["checkin"], CheckinPlan.key, r) :
                              r \in RunAts(rows["checkin"], CheckinPlan)}
  BY DEF BeginCheckin, PlanWritten
<1>3. DOMAIN rows["checkin"] = RowFields BY Names DEF Inv, Shape, RowsShape
<1>4. DOMAIN row = RowFields BY <1>2, <1>3 DEF Planned
<1> DEFINE new == Begun(row, CheckinPlan.key)
<1>5. new.last = new.planned BY <1>4 DEF Begun, RowFields
<1>6. rows' = [rows EXCEPT !["checkin"] = new] BY <1>2
<1> HIDE DEF new
<1>7. rows'["checkin"] = new BY <1>6, Names DEF Inv, Shape, RowsShape
<1>8. ~Pending' BY <1>5, <1>7 DEF Pending
<1>9. /\ unit' = "checkin" /\ executing' = TRUE /\ spent' = 0 /\ tickNow' = tickNow
      /\ fire' = fire
  BY <1>1 DEF Stay
<1>10. clock \in Nat /\ FireSoon /\ ~ctxDone BY <1>1, AtCheckin
<1>11. FireSoon' BY <1>9, <1>10 DEF FireSoon
<1>12. \A p \in 1..Len(IntervalJobs) : unit' # IntervalJobs[p] BY <1>9, NamesApart
<1>13. 0 \in 0..MaxRun BY Periods
<1> QED BY <1>1, <1>8, <1>9, <1>10, <1>11, <1>12, <1>13 DEF Prompt, Clockwork, Progress

LEMMA EndCheckinIsPrompt == ASSUME Undisturbed, Inv, Prompt, EndCheckin PROVE Prompt'
<1>1. /\ unit = "checkin" /\ executing /\ FinishRow("checkin") /\ Leave("checkin")
      /\ UNCHANGED <<clock, ctxDone>>
  BY DEF EndCheckin
<1>2. clock \in Nat /\ ~ctxDone BY DEF Prompt, Clockwork
<1>3. Written = {TRUE} BY <1>2, OnlyWritten
<1> DEFINE row == Ended(rows["checkin"], rows["checkin"].planned)
<1>4. rows' = [rows EXCEPT !["checkin"] = row] BY <1>1, <1>3 DEF FinishRow
<1>5. row.last = row.planned /\ row.status # "running"
  <2>1. DOMAIN rows["checkin"] = RowFields BY Names DEF Inv, Shape, RowsShape
  <2> QED BY <2>1 DEF Ended, RowFields
<1> HIDE DEF row
<1>6. rows'["checkin"] = row BY <1>4, Names DEF Inv, Shape, RowsShape
<1>7. ~Pending' BY <1>5, <1>6 DEF Pending
<1>8. FireSoon BY <1>1 DEF Prompt, Progress, InTick
<1> QED BY <1>1, <1>2, <1>5, <1>6, <1>7, <1>8, LeaveCheckinIsPrompt

\* The sites.

\* What is left of the sites after a step, m of them being done.
LEMMA SitesLeftNext ==
  ASSUME NEW m \in Nat, IsFiniteSet(todo'), Cardinality(todo') <= Cardinality(Sites),
         Cardinality(Sites) - Cardinality(todo') = m, executing' => inHand' \in todo',
         Pending' => /\ rows'["checkin"].next \in Int /\ tickNow' < rows'["checkin"].next
                     /\ clock' <= tickNow' + Budget(m) + spent'
  PROVE  SitesLeft'
<1>1. MaxRun * (Cardinality(Sites) - Cardinality(todo')) = Budget(m) BY DEF Budget
<1>2. Behind(Cardinality(Sites) - Cardinality(todo))'
  <2>1. SUFFICES ASSUME Pending'
                 PROVE  /\ rows'["checkin"].next \in Int /\ tickNow' < rows'["checkin"].next
                        /\ clock' <= tickNow'
                             + MaxRun * (Cardinality(Sites) - Cardinality(todo')) + spent'
    BY DEF Behind, Budget
  <2> QED BY <1>1, <2>1
<1> QED BY <1>2 DEF SitesLeft

LEMMA ListSitesIsPrompt == ASSUME Undisturbed, Inv, Prompt, ListSites PROVE Prompt'
<1> DEFINE S == Cardinality(Sites)
<1>1. /\ unit = "sites" /\ ~executing /\ unit' = "site loop" /\ ~executing'
      /\ todo' \subseteq {e \in Sites \X SiteConfigs : e[2] = siteConfig[e[1]]}
      /\ UNCHANGED <<clock, spent, tickNow, fire, ctxDone, rows>>
  BY DEF ListSites, At, timeVars
<1>2. Behind(0) /\ FireSoon BY <1>1 DEF Prompt, Progress, InTick
<1>3. clock \in Nat /\ spent \in 0..MaxRun /\ spent = 0 /\ ~ctxDone
      /\ rows["checkin"].status # "running"
  BY <1>1 DEF Prompt, Clockwork
<1>4. IsFiniteSet(todo') /\ Cardinality(todo') <= S
  <2> DEFINE f == [e \in todo' |-> e[1]]
  <2>1. f \in [todo' -> Sites] BY <1>1
  <2>2. \A a, b \in todo' : a[1] = b[1] => a = b
    <3>1. \A a \in todo' : a \in Sites \X SiteConfigs /\ a[2] = siteConfig[a[1]] BY <1>1
    <3>2. \A a \in Sites \X SiteConfigs : a = <<a[1], a[2]>> OBVIOUS
    <3> QED BY <3>1, <3>2
  <2>3. \A a, b \in todo' : f[a] = f[b] => a = b BY <2>2
  <2>4. f \in Injection(todo', Sites) BY <2>1, <2>3 DEF Injection, IsInjective
  <2>5. IsFiniteSet(Sites) BY DEF Undisturbed
  <2> HIDE DEF f
  <2> QED BY <2>4, <2>5, FS_Injection
<1>5. S \in Nat /\ Cardinality(todo') \in Nat BY <1>4, HowManySites, FS_CardinalityType
<1>6. PICK m \in Nat : m = S - Cardinality(todo') BY <1>4, <1>5
<1>m. Pending' => /\ rows'["checkin"].next \in Int /\ tickNow' < rows'["checkin"].next
                  /\ clock' <= tickNow' + Budget(m) + spent'
  <2>1. Budget(m) \in Nat /\ Budget(0) = 0 BY Budgets
  <2>2. tickNow \in Nat BY <1>2 DEF FireSoon
  <2>3. SUFFICES ASSUME Pending
                 PROVE  /\ rows["checkin"].next \in Int /\ tickNow < rows["checkin"].next
                        /\ clock <= tickNow + Budget(m) + spent
    BY <1>1 DEF Pending
  <2>4. /\ rows["checkin"].next \in Int /\ tickNow < rows["checkin"].next
        /\ clock <= tickNow + Budget(0) + spent
    BY <1>2, <2>3 DEF Behind
  <2> QED BY <1>3, <2>1, <2>2, <2>4
<1>7. SitesLeft' BY <1>1, <1>4, <1>6, <1>m, SitesLeftNext
<1>8. FireSoon' BY <1>1, <1>2 DEF FireSoon
<1>9. \A p \in 1..Len(IntervalJobs) : unit' # IntervalJobs[p] BY <1>1, NamesApart
<1> QED BY <1>1, <1>3, <1>7, <1>8, <1>9 DEF Prompt, Clockwork, Progress

\* In the site loop, with what is left of the sites.
LEMMA InSiteLoop ==
  ASSUME Undisturbed, Prompt, unit = "site loop"
  PROVE  /\ FireSoon /\ SitesLeft /\ clock \in Nat /\ spent \in 0..MaxRun /\ ~ctxDone
         /\ ~executing => spent = 0
         /\ rows["checkin"].status # "running"
BY DEF Prompt, Clockwork, Progress, InTick

\* The loop goes on with what is left of the sites.
LEMMA StayInSiteLoop ==
  ASSUME Undisturbed, SitesLeft', FireSoon, UNCHANGED <<tickNow, fire>>, unit' = "site loop",
         clock' \in Nat, spent' \in 0..MaxRun, ~executing' => spent' = 0, ~ctxDone',
         rows'["checkin"].status # "running"
  PROVE  Prompt'
<1>1. FireSoon' BY DEF FireSoon
<1>2. \A p \in 1..Len(IntervalJobs) : unit' # IntervalJobs[p] BY NamesApart
<1> QED BY <1>1, <1>2 DEF Prompt, Clockwork, Progress

LEMMA BeginSiteIsPrompt ==
  ASSUME Undisturbed, Inv, Prompt, NEW e \in todo, BeginSite(e) PROVE Prompt'
<1>1. /\ unit = "site loop" /\ ~executing /\ inHand' = e
      /\ unit' = "site loop" /\ executing' = TRUE /\ spent' = 0
      /\ UNCHANGED <<clock, tickNow, fire, todo, ctxDone, rows>>
  BY DEF BeginSite, At, Stay
<1>2. /\ FireSoon /\ SitesLeft /\ clock \in Nat /\ spent = 0 /\ ~ctxDone
      /\ rows["checkin"].status # "running"
  BY <1>1, InSiteLoop
<1>3. SitesLeft' BY <1>1, <1>2 DEF SitesLeft, Behind, Pending, Budget
<1>4. 0 \in 0..MaxRun BY Periods
<1> QED BY <1>1, <1>2, <1>3, <1>4, StayInSiteLoop

LEMMA EndSiteIsPrompt ==
  ASSUME Undisturbed, Inv, Prompt, NEW r, EndSite(r) PROVE Prompt'
<1> DEFINE S == Cardinality(Sites)
           c == Cardinality(todo)
<1>1. /\ unit = "site loop" /\ executing /\ todo' = todo \ {inHand}
      /\ unit' = "site loop" /\ executing' = FALSE /\ spent' = 0
      /\ UNCHANGED <<clock, tickNow, fire, ctxDone, rows>>
  BY DEF EndSite, RestOfSites
<1>2. /\ FireSoon /\ SitesLeft /\ clock \in Nat /\ spent \in 0..MaxRun /\ ~ctxDone
      /\ rows["checkin"].status # "running"
  BY <1>1, InSiteLoop
<1>3. IsFiniteSet(todo) /\ c <= S /\ inHand \in todo /\ Behind(S - c)
  BY <1>1, <1>2 DEF SitesLeft
<1>4. IsFiniteSet(todo') /\ Cardinality(todo') = c - 1
  BY <1>1, <1>3, FS_RemoveElement
<1>5. S \in Nat /\ c \in Nat BY <1>3, HowManySites, FS_CardinalityType
<1>6. PICK m \in Nat : m = S - c BY <1>3, <1>5
<1>7. m + 1 \in Nat /\ S - Cardinality(todo') = m + 1 /\ Cardinality(todo') <= S
  BY <1>3, <1>4, <1>5, <1>6
<1>8. Pending' => /\ rows'["checkin"].next \in Int /\ tickNow' < rows'["checkin"].next
                  /\ clock' <= tickNow' + Budget(m + 1) + spent'
  <2>1. Budget(m) \in Nat /\ Budget(m + 1) = Budget(m) + MaxRun BY Budgets
  <2>2. tickNow \in Nat /\ MaxRun \in Nat BY <1>2, Periods DEF FireSoon
  <2>3. SUFFICES ASSUME Pending
                 PROVE  /\ rows["checkin"].next \in Int /\ tickNow < rows["checkin"].next
                        /\ clock <= tickNow + Budget(m + 1) + 0
    BY <1>1 DEF Pending
  <2>4. /\ rows["checkin"].next \in Int /\ tickNow < rows["checkin"].next
        /\ clock <= tickNow + Budget(m) + spent
    <3>1. Behind(m) BY <1>3, <1>6
    <3> QED BY <2>3, <3>1 DEF Behind
  <2> QED BY <1>2, <2>1, <2>2, <2>4
<1>9. SitesLeft' BY <1>1, <1>4, <1>7, <1>8, SitesLeftNext
<1>10. 0 \in 0..MaxRun BY Periods
<1> QED BY <1>1, <1>2, <1>9, <1>10, StayInSiteLoop

LEMMA EndSitesIsPrompt == ASSUME Undisturbed, Inv, Prompt, EndSites PROVE Prompt'
<1> DEFINE S == Cardinality(Sites)
<1>1. /\ unit = "site loop" /\ ~executing /\ Leave("sites")
      /\ todo = {} \/ ctxDone
      /\ UNCHANGED <<clock, ctxDone, rows>>
  BY DEF EndSites, At
<1>2. /\ FireSoon /\ SitesLeft /\ clock \in Nat /\ spent = 0 /\ ~ctxDone
      /\ rows["checkin"].status # "running"
  BY <1>1, InSiteLoop
<1>3. S \in Nat /\ S - Cardinality(todo) = S + 0
  <2>1. Cardinality(todo) = 0 BY <1>1, <1>2, FS_EmptySet
  <2> QED BY <2>1, HowManySites
<1>4. Behind(S + 0) BY <1>2, <1>3 DEF SitesLeft
<1>5. Units[0 + 2] = "sites" /\ 0 \in 0..Len(IntervalJobs) BY UnitSequence
<1>6. Pending => /\ rows["checkin"].next \in Int /\ tickNow < rows["checkin"].next
                 /\ clock <= tickNow + Budget(S + 0)
  <2>1. Budget(S + 0) \in Nat /\ tickNow \in Nat BY <1>2, <1>3, Budgets DEF FireSoon
  <2> QED BY <1>2, <1>4, <2>1 DEF Behind
<1>7. Leave(Units[0 + 2]) BY <1>1, <1>5
<1>8. Progress' BY <1>1, <1>2, <1>5, <1>6, <1>7, LeavePlace
<1>9. executing' = FALSE /\ spent' = 0 BY <1>1 DEF Leave
<1>10. 0 \in 0..MaxRun BY Periods
<1> QED BY <1>1, <1>2, <1>8, <1>9, <1>10 DEF Prompt, Clockwork

\* Interval jobs.

LEMMA InJob ==
  ASSUME Undisturbed, Prompt, NEW p \in 1..Len(IntervalJobs), unit = IntervalJobs[p]
  PROVE  /\ FireSoon /\ Behind(Cardinality(Sites) + p - 1) /\ clock \in Nat
         /\ spent \in 0..MaxRun /\ ~ctxDone /\ (~executing => spent = 0)
         /\ rows["checkin"].status # "running"
<1>1. InTick BY NamesApart DEF InTick
<1>2. unit # "checkin" BY NamesApart
<1> QED BY <1>1, <1>2 DEF Prompt, Clockwork, Progress

\* A job is left, run or not, and the row of the daily run is none of its business.
LEMMA LeaveJobIsPrompt ==
  ASSUME Undisturbed, Prompt, NEW p \in 1..Len(IntervalJobs), unit = IntervalJobs[p],
         Leave(IntervalJobs[p]), UNCHANGED <<clock, ctxDone>>,
         rows'["checkin"] = rows["checkin"]
  PROVE  Prompt'
<1> DEFINE S == Cardinality(Sites)
<1>1. /\ FireSoon /\ Behind(S + p - 1) /\ clock \in Nat
      /\ spent \in 0..MaxRun /\ ~ctxDone /\ rows["checkin"].status # "running"
  BY InJob
<1>2. /\ Len(IntervalJobs) \in Nat /\ S \in Nat /\ p \in 0..Len(IntervalJobs)
      /\ S + p - 1 \in Nat /\ S + p = (S + p - 1) + 1
  BY Periods, HowManySites
<1>3. Budget(S + p - 1) \in Nat /\ Budget(S + p) = Budget(S + p - 1) + MaxRun
  <2>1. Budget((S + p - 1) + 1) = Budget(S + p - 1) + MaxRun BY <1>2, Budgets
  <2> QED BY <1>2, <2>1, Budgets
<1>4. Pending => /\ rows["checkin"].next \in Int /\ tickNow < rows["checkin"].next
                 /\ clock <= tickNow + Budget(S + p)
  <2>1. SUFFICES ASSUME Pending
                 PROVE  /\ rows["checkin"].next \in Int /\ tickNow < rows["checkin"].next
                        /\ clock <= tickNow + Budget(S + p)
    OBVIOUS
  <2>2. /\ rows["checkin"].next \in Int /\ tickNow < rows["checkin"].next
        /\ clock <= tickNow + Budget(S + p - 1) + spent
    BY <1>1, <2>1 DEF Behind
  <2>3. tickNow \in Nat /\ MaxRun \in Nat BY <1>1, Periods DEF FireSoon
  <2> QED BY <1>1, <1>3, <2>2, <2>3
<1>5. Units[p + 2] = IntervalJobs[p] BY UnitSequence
<1>6. Leave(Units[p + 2]) BY <1>5
<1>7. Progress' BY <1>1, <1>2, <1>4, <1>6, LeavePlace
<1>8. executing' = FALSE /\ spent' = 0 BY DEF Leave
<1>9. 0 \in 0..MaxRun BY Periods
<1> QED BY <1>1, <1>7, <1>8, <1>9 DEF Prompt, Clockwork

LEMMA OtherRow ==
  ASSUME Inv, NEW j \in Range(IntervalJobs), NEW row, rows' = [rows EXCEPT ![j] = row]
  PROVE  rows'["checkin"] = rows["checkin"]
BY Names DEF Inv, Shape, RowsShape

LEMMA IdleJobIsPrompt ==
  ASSUME Undisturbed, Inv, Prompt, NEW j \in Range(IntervalJobs),
         SkipJob(j) \/ WaitForJob(j) \/ EndJob(j)
  PROVE  Prompt'
<1>1. unit = j /\ Leave(j) /\ UNCHANGED <<clock, ctxDone>>
  BY DEF SkipJob, WaitForJob, EndJob, At
<1>2. rows'["checkin"] = rows["checkin"]
  <2>1. CASE SkipJob(j)
    <3>1. rows' = rows \/ rows' = [rows EXCEPT ![j] = Planned(rows[j], NoTime, NoTime)]
      BY <2>1 DEF SkipJob
    <3> QED BY <3>1, OtherRow
  <2>2. CASE WaitForJob(j)
    <3>1. \E row : rows' = [rows EXCEPT ![j] = row] BY <2>2 DEF WaitForJob
    <3> QED BY <3>1, OtherRow
  <2>3. CASE EndJob(j)
    <3>1. rows' = rows \/ rows' = [rows EXCEPT ![j] = Ended(rows[j], rows[j].planned)]
      BY <2>3 DEF EndJob, FinishRow
    <3> QED BY <3>1, OtherRow
  <2> QED BY <2>1, <2>2, <2>3
<1>3. PICK p \in 1..Len(IntervalJobs) : j = IntervalJobs[p] BY NamesApart
<1> QED BY <1>1, <1>2, <1>3, LeaveJobIsPrompt

LEMMA BeginJobIsPrompt ==
  ASSUME Undisturbed, Inv, Prompt, NEW j \in Range(IntervalJobs), BeginJob(j)
  PROVE  Prompt'
<1>1. /\ unit = j /\ unit' = j /\ executing' = TRUE /\ spent' = 0 /\ ~executing
      /\ UNCHANGED <<clock, tickNow, fire, ctxDone>>
  BY DEF BeginJob, At, Stay
<1>2. rows'["checkin"] = rows["checkin"]
  <2>1. \E row : rows' = [rows EXCEPT ![j] = row] BY DEF BeginJob
  <2> QED BY <2>1, OtherRow
<1>3. PICK p \in 1..Len(IntervalJobs) : j = IntervalJobs[p] BY NamesApart
<1>4. /\ FireSoon /\ Behind(Cardinality(Sites) + p - 1) /\ clock \in Nat
      /\ spent = 0 /\ ~ctxDone /\ rows["checkin"].status # "running"
  BY <1>1, <1>3, InJob
<1>5. FireSoon' BY <1>1, <1>4 DEF FireSoon
<1>6. Behind(Cardinality(Sites) + p - 1)' BY <1>1, <1>2, <1>4 DEF Behind, Pending, Budget
<1>7. \A q \in 1..Len(IntervalJobs) : unit' = IntervalJobs[q] => q = p
  BY <1>1, <1>3 DEF Undisturbed
<1>8. unit' \notin {"down", "reset", "checkin", "sites", "site loop", "wait"}
  BY <1>1, <1>3, NamesApart
<1>9. Progress' BY <1>5, <1>6, <1>7, <1>8 DEF Progress
<1>10. 0 \in 0..MaxRun BY Periods
<1> QED BY <1>1, <1>2, <1>4, <1>9, <1>10 DEF Prompt, Clockwork

\* Time and the process.

LEMMA AdvanceIsPrompt == ASSUME Undisturbed, Inv, Prompt, Advance PROVE Prompt'
<1>1. /\ clock' = clock + 1 /\ spent' = IF executing THEN spent + 1 ELSE 0
      /\ UNCHANGED <<tickNow, fire, unit, executing, ctxDone, todo, inHand, rows>>
      /\ (unit = "down" \/ unit = "wait" \/ (executing /\ spent < MaxRun))
  BY DEF Advance, At, controlVars, siteVars
<1>2. clock \in Nat /\ spent \in 0..MaxRun /\ (~executing => spent = 0) /\ ~ctxDone
      /\ (rows["checkin"].status = "running" => unit = "checkin" /\ executing)
  BY DEF Prompt, Clockwork
<1>3. ~executing => unit = "down" \/ unit = "wait" BY <1>1
<1>4. executing => unit # "down" /\ unit # "wait" /\ unit # "sites" /\ unit # "reset"
  BY Names DEF Inv, Control
<1>5. executing => spent + 1 \in 0..MaxRun BY <1>1, <1>2, <1>4, Periods
<1>6. Clockwork'
  <2>1. clock' \in Nat BY <1>1, <1>2
  <2>2. 0 \in 0..MaxRun BY Periods
  <2>3. spent' \in 0..MaxRun /\ (~executing' => spent' = 0) BY <1>1, <1>5, <2>2
  <2> QED BY <1>1, <1>2, <2>1, <2>3 DEF Clockwork
<1>7. Pending' <=> Pending BY <1>1 DEF Pending
<1>8. ASSUME executing, FireSoon, NEW n \in Nat, Behind(n) PROVE Behind(n)'
  <2>1. SUFFICES ASSUME Pending
                 PROVE  /\ rows["checkin"].next \in Int /\ tickNow < rows["checkin"].next
                        /\ clock + 1 <= tickNow + Budget(n) + (spent + 1)
    BY <1>1, <1>7, <1>8 DEF Behind, Budget
  <2>2. /\ rows["checkin"].next \in Int /\ tickNow < rows["checkin"].next
        /\ clock <= tickNow + Budget(n) + spent
    BY <1>8, <2>1 DEF Behind
  <2>3. tickNow \in Nat /\ Budget(n) \in Nat BY <1>8, Budgets DEF FireSoon
  <2> QED BY <1>2, <2>2, <2>3
<1>9. InTick => FireSoon BY DEF Prompt, Progress
<1>10. InTick' => FireSoon' BY <1>1, <1>9 DEF InTick, FireSoon
<1>11. unit = "site loop" => SitesLeft'
  <2>1. SUFFICES ASSUME unit = "site loop" PROVE SitesLeft' OBVIOUS
  <2>2. SitesLeft /\ FireSoon /\ executing BY <1>3, <2>1, InSiteLoop
  <2>3. Cardinality(Sites) \in Nat /\ Cardinality(todo) \in Nat
        /\ Cardinality(todo) <= Cardinality(Sites)
    BY <2>2, HowManySites, FS_CardinalityType DEF SitesLeft
  <2>4. PICK m \in Nat : m = Cardinality(Sites) - Cardinality(todo) BY <2>3
  <2>5. Behind(m) BY <2>2, <2>4 DEF SitesLeft
  <2>6. Behind(m)' BY <1>8, <2>2, <2>5
  <2>7. todo' = todo /\ inHand' = inHand /\ executing' = executing BY <1>1
  <2>8. Pending' => /\ rows'["checkin"].next \in Int /\ tickNow' < rows'["checkin"].next
                    /\ clock' <= tickNow' + Budget(m) + spent'
    BY <2>6 DEF Behind, Budget
  <2>9. IsFiniteSet(todo) /\ (executing => inHand \in todo) BY <2>2 DEF SitesLeft
  <2> QED BY <2>3, <2>4, <2>7, <2>8, <2>9, SitesLeftNext
<1>12. \A p \in 1..Len(IntervalJobs) :
         unit = IntervalJobs[p] => Behind(Cardinality(Sites) + p - 1)'
  <2>1. SUFFICES ASSUME NEW p \in 1..Len(IntervalJobs), unit = IntervalJobs[p]
                 PROVE  Behind(Cardinality(Sites) + p - 1)'
    OBVIOUS
  <2>2. executing BY <1>3, <2>1, NamesApart
  <2>3. FireSoon /\ Behind(Cardinality(Sites) + p - 1) BY <2>1, InJob
  <2>4. Cardinality(Sites) + p - 1 \in Nat BY HowManySites, Periods
  <2> QED BY <1>8, <2>2, <2>3, <2>4
<1>13. unit = "wait" => FireInTime'
  <2>1. unit = "wait" => FireInTime BY DEF Prompt, Progress
  <2> QED BY <1>1, <1>7, <2>1 DEF FireInTime, Budget
<1>14. unit = "sites" => FALSE BY <1>1, <1>4
<1>15. /\ unit \in {"down", "reset"} => fire = NoTime /\ rows["checkin"].planned = NoTime
       /\ unit = "checkin" /\ executing => ~Pending
  BY DEF Prompt, Progress
<1>16. Progress'
  BY <1>1, <1>7, <1>10, <1>11, <1>12, <1>13, <1>14, <1>15 DEF Progress
<1> QED BY <1>6, <1>16 DEF Prompt

LEMMA BootIsPrompt == ASSUME Undisturbed, Inv, Prompt, Boot PROVE Prompt'
<1>1. /\ unit = "down" /\ unit' = "reset" /\ ~executing
      /\ UNCHANGED <<clock, spent, executing, fire, ctxDone, rows>>
  BY Names DEF Boot, Inv, Control
<1>2. fire = NoTime /\ rows["checkin"].planned = NoTime BY <1>1 DEF Prompt, Progress
<1>3. Clockwork' BY <1>1 DEF Prompt, Clockwork
<1>4. \A p \in 1..Len(IntervalJobs) : unit' # IntervalJobs[p] BY <1>1, NamesApart
<1>5. ~InTick'
  <2>1. "reset" \notin Range(IntervalJobs) BY NamesApart
  <2> QED BY <1>1, <2>1 DEF InTick
<1>6. Progress' BY <1>1, <1>2, <1>4, <1>5 DEF Progress
<1> QED BY <1>3, <1>6 DEF Prompt

\* Nothing else happens.
LEMMA NothingDisturbs ==
  ASSUME Undisturbed, Prompt
  PROVE  /\ ~StopWaiting /\ ~Close /\ ~Exit
         /\ \A cfg : ~SaveDaily(cfg)
         /\ \A j, cfg : ~SaveJob(j, cfg)
         /\ \A s, cfg : ~SaveSite(s, cfg)
<1>1. ~ctxDone /\ Faults = {} BY DEF Prompt, Clockwork, Undisturbed
<1> QED BY <1>1 DEF StopWaiting, Close, Exit, SaveDaily, SaveJob, SaveSite

LEMMA NextIsPrompt == ASSUME Undisturbed, Inv, Prompt, [Next]_vars PROVE Prompt'
<1>1. CASE UNCHANGED vars
  <2>1. UNCHANGED <<clock, spent, executing, ctxDone, rows, unit, tickNow, fire, todo, inHand>>
    BY <1>1 DEF vars, timeVars, controlVars, siteVars
  <2>2. (Pending' <=> Pending) /\ \A n : Behind(n)' <=> Behind(n)
    BY <2>1 DEF Behind, Pending, Budget
  <2>3. (SitesLeft' <=> SitesLeft) /\ (FireInTime' <=> FireInTime)
    BY <2>1, <2>2 DEF SitesLeft, FireInTime, Budget, Behind
  <2> QED BY <2>1, <2>2, <2>3 DEF Prompt, Clockwork, Progress, InTick, FireSoon
<1>2. CASE Scheduler
  BY <1>2, NothingDisturbs, ResetIsPrompt, StartTickIsPrompt, SkipCheckinIsPrompt,
     WaitForCheckinIsPrompt, BeginCheckinIsPrompt, EndCheckinIsPrompt, ListSitesIsPrompt,
     EndSitesIsPrompt, BeginSiteIsPrompt, EndSiteIsPrompt, IdleJobIsPrompt, BeginJobIsPrompt
  DEF Scheduler
<1>3. CASE Environment
  BY <1>3, NothingDisturbs, AdvanceIsPrompt, BootIsPrompt DEF Environment
<1> QED BY <1>1, <1>2, <1>3 DEF Next

-------------------------------------------------------------------------------
(* Theorems *)

\* What the goroutine, its guards and its rows agree on, in every reachable state.
THEOREM RowsAndGuards == Spec => []Inv
BY InitHolds, NextKeeps, PTL DEF Spec

\* The daily run begins at most once a day, whatever the length of a day, the windows
\* and their edits, the duration of jobs, failing writes and restarts
\* (scheduler.go:199-247, :724-767).
THEOREM OncePerDay == Spec => []OneDailyRunPerDay
<1>1. Inv => OneDailyRunPerDay BY DEF Inv, Days, OneDailyRunPerDay
<1> QED BY <1>1, RowsAndGuards, PTL

\* The run of a day begins on that day, even when its window was planned the day before
\* or reaches over midnight (scheduler.go:740).
THEOREM RunsOnItsDay == Spec => []DailyRunOnItsDay
<1>1. Inv => DailyRunOnItsDay BY DEF Inv, RunInHand, DailyRunOnItsDay
<1> QED BY <1>1, RowsAndGuards, PTL

\* The guard of an interval job is held exactly while the job runs: no way out of
\* beginSchedulerJob and finishSchedulerJob leaks it (scheduler.go:515-588).
THEOREM GuardsAreReleased == Spec => []GuardReleased
<1>1. Inv => GuardReleased BY DEF Inv, Guards, GuardReleased
<1> QED BY <1>1, RowsAndGuards, PTL

\* A row that says running has its job, or a write of this process that failed
\* (scheduler.go:504, :526, :575).
THEOREM RunningRowsAreTrue == Spec => []RunningRowIsTrue
<1>1. Inv => RunningRowIsTrue BY DEF Inv
<1> QED BY <1>1, RowsAndGuards, PTL

\* A due site stays due until a run for it was complete, unless its schedule is saved
\* anew meanwhile: not a refused or failed run, not one the end of the process cut
\* short, nor time itself closes its window (scheduler.go:181).
THEOREM DueWindowsAreKept == Spec => DueWindowKept
<1>1. Spec => []SitesShape BY SitesShapeHolds, NextKeepsSites, PTL DEF Spec
<1>2. SitesShape /\ [Next]_vars =>
        [\A s \in Sites :
           SiteDue(s, clock) /\ ~SiteDue(s, clock)'
             => s \in served' \/ \E cfg \in SiteConfigs : SaveSite(s, cfg)]_vars
  <2>1. SUFFICES ASSUME SitesShape, [Next]_vars, NEW s \in Sites,
                        SiteDue(s, clock), ~SiteDue(s, clock)', s \notin served',
                        ~ \E cfg \in SiteConfigs : SaveSite(s, cfg)
                 PROVE  FALSE
    OBVIOUS
  <2>2. SitesShape' /\ PlansMove BY <2>1, NextKeepsSites
  <2>3. clock' >= clock /\ siteConfig'[s] = siteConfig[s] /\ siteNext'[s] = siteNext[s]
    BY <2>1, <2>2 DEF PlansMove
  <2>4. clock \in Nat /\ clock' \in Nat /\ siteNext[s] \in Nat
    BY <2>1, <2>2 DEF SitesShape
  <2>5. siteConfig[s].enabled /\ siteNext[s] <= clock BY <2>1 DEF SiteDue
  <2>6. ~(siteConfig'[s].enabled /\ siteNext'[s] <= clock') BY <2>1 DEF SiteDue
  <2>7. siteNext[s] <= clock' BY <2>3, <2>4, <2>5
  <2> QED BY <2>3, <2>5, <2>6, <2>7
<1> QED BY <1>1, <1>2, PTL DEF Spec, DueWindowKept

\* While nothing fails, nobody edits a setting and the process goes on, the planned
\* daily run begins within a tick of its instant and the time of every other job once
\* (scheduler.go:111, :199-247).
THEOREM RunsArePrompt == ASSUME Undisturbed PROVE Spec => []PlannedRunIsPrompt
<1>1. Init => Prompt BY PromptHolds
<1>2. Inv /\ Prompt /\ [Next]_vars => Prompt' BY NextIsPrompt
<1>3. Inv /\ Prompt => PlannedRunIsPrompt
  <2> DEFINE row == rows["checkin"]
             K   == MaxRun * (Cardinality(Sites) + Len(IntervalJobs))
  <2>1. SUFFICES ASSUME Inv, Prompt, At("wait"), fire > clock, row.planned = N!Day(clock),
                        row.next + TickPeriod + K < clock, row.last # row.planned
                 PROVE  FALSE
    BY DEF PlannedRunIsPrompt
  <2>2. Pending
    <3>1. N!Day(clock) \in Nat /\ NoTime \notin Int BY <2>1, ClockFacts, Names
    <3> QED BY <2>1, <3>1 DEF Pending
  <2>3. fire \in Nat /\ row.next \in Int /\ fire < row.next + TickPeriod + K
    BY <2>1, <2>2 DEF At, Prompt, Progress, FireInTime, Budget
  <2>4. clock \in Nat BY <2>1, ClockFacts
  <2>5. K \in Nat
    <3>1. Cardinality(Sites) + Len(IntervalJobs) \in Nat BY HowManySites, Periods
    <3>2. Budget(Cardinality(Sites) + Len(IntervalJobs)) \in Nat BY <3>1, Budgets
    <3> QED BY <3>2 DEF Budget
  <2>6. TickPeriod \in Nat BY Periods
  <2> HIDE DEF row, K
  <2> QED BY <2>1, <2>3, <2>4, <2>5, <2>6
<1> QED BY <1>1, <1>2, <1>3, RowsAndGuards, PTL DEF Spec

===============================================================================
