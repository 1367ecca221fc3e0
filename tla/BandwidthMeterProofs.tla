------------------------ MODULE BandwidthMeterProofs ------------------------
(***************************************************************************)
(* Theorems about BandwidthMeter: no refusal and no pass without ground,   *)
(* for any windows, limits and records.                                    *)
(*                                                                         *)
(* Sums are defined by recursion over ages.  Facts about them are proved   *)
(* by the least age at which they would fail.                              *)
(***************************************************************************)
EXTENDS BandwidthMeter, Integers, WellFoundedInduction, TLAPS

-----------------------------------------------------------------------------
(* Ages                                                                    *)

LEMMA LeastAge ==
  ASSUME NEW S, S \subseteq Nat, S # {}
  PROVE  \E n \in S : \A i \in S : n <= i
<1> DEFINE R == {ss \in Nat \X Nat : ss[1] < ss[2]}
<1>1. IsWellFoundedOn(R, Nat)
  BY NatLessThanWellFounded, Zenon DEF OpToRel
<1> HIDE DEF R
<1>2. PICK n \in S : \A i \in S : <<i, n>> \notin R
  BY <1>1, WFMin, Zenon
<1>3. ASSUME NEW i \in S, i < n  PROVE FALSE
  <2>1. <<i, n>> \in Nat \X Nat  OBVIOUS
  <2>2. <<i, n>>[1] = i /\ <<i, n>>[2] = n  OBVIOUS
  <2>3. <<i, n>> \in R  BY <2>1, <2>2, <1>3, Zenon DEF R
  <2> QED  BY <2>3, <1>2
<1>4. \A i \in S : n <= i  BY <1>3
<1> QED  BY <1>4

LEMMA HorizonIsWindow ==
  /\ Horizon \in Windows /\ \A w \in Windows : w <= Horizon
  /\ Windows \subseteq Nat \ {0}
  /\ Horizon \in Nat \ {0}
<1>1. \E w \in Windows : \A v \in Windows : v <= w
  BY MeterAssumption
<1>2. Horizon \in Windows /\ \A w \in Windows : w <= Horizon
  BY <1>1 DEF Horizon
<1> QED  BY <1>2, MeterAssumption

\* A claim about an age holds for all of them if it holds at 0 and passes from
\* each age to the next: the set of ages at which it holds is all ages.
LEMMA AllAges ==
  ASSUME NEW S, 0 \in S, \A n \in Ages : n + 1 \in Ages /\ n \in S => n + 1 \in S
  PROVE  Ages \subseteq S
<1> DEFINE Bad == Ages \ S
<1>1. SUFFICES ASSUME Bad # {}  PROVE FALSE  OBVIOUS
<1>2. Ages \subseteq Nat  BY HorizonIsWindow DEF Ages
<1>3. PICK n \in Bad : \A i \in Bad : n <= i  BY <1>1, <1>2, LeastAge
<1>4. n \in Nat /\ n # 0  BY <1>2
<1>5. n - 1 \in Ages /\ n - 1 + 1 = n /\ ~(n <= n - 1)
  BY <1>4, HorizonIsWindow DEF Ages
<1>6. n - 1 \in S  BY <1>3, <1>5
<1> QED  BY <1>5, <1>6

-----------------------------------------------------------------------------
(* Sums                                                                    *)

Counts == [Ages -> Nat]

IsTotal(t, series) ==
    t = [n \in Ages |-> IF n = 0 THEN series[0] ELSE t[n - 1] + series[n]]

\* The recursion in Sum defines a function.
LEMMA TotalExists ==
  ASSUME NEW series \in Counts
  PROVE  \E t \in Counts : IsTotal(t, series)
<1> DEFINE Step(t, n) == IF n = 0 THEN series[0] ELSE t[n - 1] + series[n]
           Good == {m \in Ages : \E t \in [0..m -> Nat] :
                                    \A n \in 0..m : t[n] = Step(t, n)}
<1>0. Horizon \in Nat /\ 0 \in Ages  BY HorizonIsWindow DEF Ages
<1>1. 0 \in Good
  <2> DEFINE t == [n \in 0..0 |-> series[0]]
  <2>1. t \in [0..0 -> Nat]  BY <1>0 DEF Counts
  <2>2. \A n \in 0..0 : t[n] = Step(t, n)  OBVIOUS
  <2> QED  BY <1>0, <2>1, <2>2
<1>2. ASSUME NEW m \in Ages, m + 1 \in Ages, m \in Good
      PROVE  m + 1 \in Good
  <2>1. PICK t \in [0..m -> Nat] : \A n \in 0..m : t[n] = Step(t, n)
    BY <1>2
  <2> DEFINE u == [n \in 0..(m + 1) |->
                     IF n = m + 1 THEN t[m] + series[m + 1] ELSE t[n]]
  <2>2. m \in Nat /\ m \in 0..m  BY <1>0 DEF Ages
  <2>3. t[m] \in Nat /\ series[m + 1] \in Nat  BY <2>2, <1>2 DEF Counts
  <2>4. u \in [0..(m + 1) -> Nat]  BY <2>2, <2>3
  <2>5. ASSUME NEW n \in 0..(m + 1)  PROVE u[n] = Step(u, n)
    <3>1. CASE n = m + 1
      <4>1. u[m] = t[m]  BY <2>2
      <4>2. n - 1 = m /\ n # 0  BY <2>2, <3>1
      <4> QED  BY <3>1, <4>1, <4>2
    <3>2. CASE n # m + 1 /\ n # 0
      <4>1. n \in 0..m /\ n - 1 \in 0..(m + 1) /\ n - 1 # m + 1
        BY <3>2, <2>2
      <4>2. u[n] = t[n] /\ u[n - 1] = t[n - 1]  BY <4>1, <3>2
      <4> QED  BY <2>1, <3>2, <4>1, <4>2
    <3>3. CASE n # m + 1 /\ n = 0
      BY <2>1, <2>2, <3>3
    <3> QED  BY <3>1, <3>2, <3>3
  <2> HIDE DEF u
  <2> QED  BY <1>2, <2>4, <2>5
<1>3. Horizon \in Good
  <2> HIDE DEF Good
  <2>1. Ages \subseteq Good  BY <1>1, <1>2, AllAges
  <2> QED  BY <2>1, <1>0 DEF Ages
<1>4. PICK t \in [0..Horizon -> Nat] : \A n \in 0..Horizon : t[n] = Step(t, n)
  BY <1>3
<1>5. t = [n \in Ages |-> t[n]]  BY DEF Ages
<1>6. t = [n \in Ages |-> Step(t, n)]  BY <1>4, <1>5, Zenon DEF Ages
<1> QED  BY <1>4, <1>6 DEF IsTotal, Counts, Ages

\* Sum, by what it is at the youngest age and from each age to the next.
LEMMA SumSteps ==
  ASSUME NEW series \in Counts
  PROVE  /\ \A n \in Ages : Sum(series, n) \in Nat
         /\ Sum(series, 0) = series[0]
         /\ \A n \in Ages : n + 1 \in Ages =>
               Sum(series, n + 1) = Sum(series, n) + series[n + 1]
<1> DEFINE t == CHOOSE u : IsTotal(u, series)
<1>1. \A n \in Ages : Sum(series, n) = t[n]
  BY DEF Sum, IsTotal
<1>2. IsTotal(t, series)
  BY TotalExists
<1> HIDE DEF t
<1>3. 0 \in Ages /\ Ages \subseteq Nat  BY HorizonIsWindow DEF Ages
<1>4. \A n \in Ages : t[n] = IF n = 0 THEN series[0] ELSE t[n - 1] + series[n]
  BY <1>2 DEF IsTotal
<1>5. t[0] = series[0]  BY <1>3, <1>4
<1>6. ASSUME NEW n \in Ages, n + 1 \in Ages
      PROVE  t[n + 1] = t[n] + series[n + 1]
  BY <1>3, <1>4, <1>6
<1>7. \A n \in Ages : t[n] \in Nat
  <2> DEFINE S == {n \in Ages : t[n] \in Nat}
  <2>1. 0 \in S  BY <1>3, <1>5 DEF Counts
  <2>2. \A n \in Ages : n + 1 \in Ages /\ n \in S => n + 1 \in S
    BY <1>6 DEF Counts
  <2> HIDE DEF S
  <2>3. Ages \subseteq S  BY <2>1, <2>2, AllAges
  <2> QED  BY <2>3 DEF S
<1> QED  BY <1>1, <1>3, <1>5, <1>6, <1>7

\* More bytes at each age up to one, more bytes up to that age.
LEMMA SumMonotone ==
  ASSUME NEW s \in Counts, NEW t \in Counts, NEW m \in Ages,
         \A n \in Ages : n <= m => s[n] <= t[n]
  PROVE  Sum(s, m) <= Sum(t, m)
<1> DEFINE S == {n \in Ages : n <= m => Sum(s, n) <= Sum(t, n)}
<1>1. 0 \in Ages /\ Ages \subseteq Nat  BY HorizonIsWindow DEF Ages
<1>2. 0 \in S  BY <1>1, SumSteps
<1>3. ASSUME NEW n \in Ages, n + 1 \in Ages, n \in S  PROVE n + 1 \in S
  <2>1. /\ Sum(s, n) \in Nat /\ Sum(s, n + 1) = Sum(s, n) + s[n + 1]
        /\ Sum(t, n) \in Nat /\ Sum(t, n + 1) = Sum(t, n) + t[n + 1]
        /\ s[n + 1] \in Nat /\ t[n + 1] \in Nat
    BY <1>3, SumSteps DEF Counts
  <2> QED  BY <1>1, <1>3, <2>1
<1> HIDE DEF S
<1>4. Ages \subseteq S  BY <1>2, <1>3, AllAges
<1> QED  BY <1>1, <1>4 DEF S

LEMMA SumCoversYoungest ==
  ASSUME NEW s \in Counts
  PROVE  s[0] <= Sum(s, Horizon)
<1> DEFINE S == {n \in Ages : s[0] <= Sum(s, n)}
<1>1. 0 \in Ages /\ Horizon \in Ages  BY HorizonIsWindow DEF Ages
<1>2. 0 \in S  BY <1>1, SumSteps DEF Counts
<1>3. ASSUME NEW n \in Ages, n + 1 \in Ages, n \in S  PROVE n + 1 \in S
  <2>1. /\ Sum(s, n) \in Nat /\ Sum(s, n + 1) = Sum(s, n) + s[n + 1]
        /\ s[0] \in Nat /\ s[n + 1] \in Nat
    BY <1>1, <1>3, SumSteps DEF Counts
  <2> QED  BY <1>3, <2>1
<1> HIDE DEF S
<1>4. Ages \subseteq S  BY <1>2, <1>3, AllAges
<1> QED  BY <1>1, <1>4 DEF S

\* What is left after prune is what the window holds.
LEMMA SumOfPruned ==
  ASSUME NEW s \in Counts, window \in Windows
  PROVE  /\ Pruned(s) \in Counts
         /\ Sum(Pruned(s), Horizon) = Sum(s, window)
<1> DEFINE p == Pruned(s)
<1>1. /\ 0 \in Ages /\ Horizon \in Ages /\ Ages \subseteq Nat
      /\ window \in Ages /\ \A n \in Ages : n <= Horizon
  BY HorizonIsWindow DEF Ages
<1>2. /\ p \in Counts
      /\ \A n \in Ages : p[n] = IF n <= window THEN s[n] ELSE 0
  BY DEF Pruned, Counts
<1> HIDE DEF p
<1>3. Sum(p, window) = Sum(s, window)
  <2>1. \A n \in Ages : s[n] \in Nat /\ p[n] \in Nat  BY <1>2 DEF Counts
  <2>2. Sum(p, window) <= Sum(s, window) /\ Sum(s, window) <= Sum(p, window)
    BY <1>1, <1>2, <2>1, SumMonotone
  <2> QED  BY <1>1, <1>2, <2>2, SumSteps
<1> DEFINE S == {n \in Ages : window <= n => Sum(p, n) = Sum(p, window)}
<1>4. 0 \in S  BY <1>1
<1>5. ASSUME NEW n \in Ages, n + 1 \in Ages, n \in S  PROVE n + 1 \in S
  <2>1. Sum(p, n) \in Nat /\ Sum(p, n + 1) = Sum(p, n) + p[n + 1]
    BY <1>2, <1>5, SumSteps
  <2>2. n \in Nat /\ window \in Nat  BY <1>1
  <2>3. CASE window = n + 1  BY <1>5, <2>3
  <2>4. CASE window <= n
    <3>1. p[n + 1] = 0  BY <1>2, <1>5, <2>2, <2>4
    <3> QED  BY <1>5, <2>1, <2>4, <3>1
  <2> QED  BY <1>5, <2>2, <2>3, <2>4
<1> HIDE DEF S
<1>6. Ages \subseteq S  BY <1>4, <1>5, AllAges
<1>7. Sum(p, Horizon) = Sum(p, window)  BY <1>1, <1>6 DEF S
<1> QED  BY <1>2, <1>3, <1>7 DEF p

-----------------------------------------------------------------------------
(* The invariant                                                           *)

\* Nothing is kept that was not recorded, at its age.
Recorded(series) == \A n \in Ages : series[n] <= log[n]

\* A firm record is kept as long as the window holds it.
KeptIn(series) == \A n \in Ages : n < window => firm[n] <= series[n]

\* The alarm does not fire while the window holds a firm record.
AlarmWaits ==
    \A n \in Ages : n < window /\ firm[n] > 0 =>
        alarm \in Nat /\ window <= alarm + n

MeterInv ==
    /\ TypeOK
    /\ Recorded(memory) /\ Recorded(stored) /\ Recorded(firm)
    /\ loaded => KeptIn(memory)
    /\ KeptIn(stored)
    /\ AlarmWaits
    /\ RefusalEarned
    /\ PassEarned

-----------------------------------------------------------------------------
(* Series                                                                  *)

LEMMA SeriesCount == Series \subseteq Counts
  BY MeterAssumption DEF Series, Counts

LEMMA WindowProperties ==
  ASSUME window \in Windows
  PROVE  /\ window \in Ages /\ window - 1 \in Ages
         /\ window \in Nat /\ window >= 1
         /\ 0 \in Ages /\ Horizon \in Ages /\ Ages \subseteq Nat
  BY HorizonIsWindow DEF Ages

LEMMA NoBytesProperties ==
  NoBytes \in Series /\ \A n \in Ages : NoBytes[n] = 0
  BY MeterAssumption DEF NoBytes, Series

LEMMA OlderProperties ==
  ASSUME NEW s \in Series
  PROVE  /\ Older(s) \in Series
         /\ Older(s)[0] = 0
         /\ \A n \in Ages : n # 0 => n - 1 \in Ages /\ Older(s)[n] = s[n - 1]
<1>1. 0 \in Ages /\ \A n \in Ages : n # 0 => n - 1 \in Ages
  BY HorizonIsWindow DEF Ages
<1> QED  BY <1>1, MeterAssumption DEF Older, Series

LEMMA AddedProperties ==
  ASSUME NEW s \in Series, NEW b \in Nat, s[0] + b <= MaxMoved
  PROVE  /\ Added(s, b) \in Series
         /\ Added(s, b)[0] = s[0] + b
         /\ \A n \in Ages : n # 0 => Added(s, b)[n] = s[n]
<1>1. 0 \in Ages  BY HorizonIsWindow DEF Ages
<1>2. s[0] + b \in 0..MaxMoved  BY <1>1, MeterAssumption DEF Series
<1> QED  BY <1>1, <1>2 DEF Added, Series

LEMMA PrunedProperties ==
  ASSUME NEW s \in Series, window \in Windows
  PROVE  /\ Pruned(s) \in Series
         /\ \A n \in Ages : Pruned(s)[n] = IF n <= window THEN s[n] ELSE 0
  BY MeterAssumption DEF Pruned, Series

\* What a handler finds, loaded or not.
LEMMA LoadedProperties ==
  ASSUME MeterInv
  PROVE  Loaded \in Series /\ Recorded(Loaded) /\ KeptIn(Loaded)
  BY DEF MeterInv, TypeOK, Loaded

-----------------------------------------------------------------------------
(* The steps                                                               *)

LEMMA InitMeterInv == Init => MeterInv
<1> SUFFICES ASSUME Init  PROVE MeterInv  OBVIOUS
<1>1. TypeOK  BY NoBytesProperties DEF Init, TypeOK
<1>2. RefusalEarned /\ PassEarned
  BY MeterAssumption, Zenon DEF Init, RefusalEarned, PassEarned
<1>3. KeptIn(stored) /\ Recorded(memory) /\ Recorded(stored) /\ Recorded(firm)
  BY NoBytesProperties DEF Init, KeptIn, Recorded
<1>4. AlarmWaits  BY NoBytesProperties DEF Init, AlarmWaits
<1> QED  BY <1>1, <1>2, <1>3, <1>4 DEF Init, MeterInv

\* A check answers by what the window holds in memory.
LEMMA CheckKeeps ==
  ASSUME MeterInv, NEW b \in Sizes, Check(b)
  PROVE  MeterInv'
<1> DEFINE p == Pruned(Loaded)
           sum == Sum(p, Horizon)
<1>1. /\ memory' = p /\ loaded' = TRUE
      /\ verdict' = [bytes |-> b, ok |-> sum + b <= Limit]
      /\ UNCHANGED <<stored, alarm, window, log, firm>>
  BY DEF Check
<1>2. /\ Loaded \in Series /\ Recorded(Loaded) /\ KeptIn(Loaded)
      /\ window \in Windows /\ log \in Series /\ firm \in Series
  BY LoadedProperties DEF MeterInv, TypeOK
<1>3. /\ p \in Series /\ \A n \in Ages : p[n] = IF n <= window THEN Loaded[n] ELSE 0
  BY <1>2, PrunedProperties
<1>4. sum = Sum(Loaded, window)
  BY <1>2, SeriesCount, SumOfPruned
<1> HIDE DEF p, sum
<1>5. /\ Loaded \in Counts /\ log \in Counts /\ firm \in Counts
      /\ \A n \in Ages : Loaded[n] \in Nat /\ log[n] \in Nat /\ firm[n] \in Nat
  BY <1>2, SeriesCount DEF Counts
<1>6. window \in Ages /\ window - 1 \in Ages /\ window \in Nat /\ Ages \subseteq Nat
  BY <1>2, WindowProperties
<1>7. sum \in Nat /\ sum <= Sum(log, window)
  BY <1>2, <1>4, <1>5, <1>6, SumMonotone, SumSteps DEF Recorded
<1>8. Sum(firm, window - 1) <= sum
  <2>1. \A n \in Ages : n <= window - 1 => firm[n] <= Loaded[n]
    BY <1>2, <1>6 DEF KeptIn
  <2>2. Sum(firm, window - 1) <= Sum(Loaded, window - 1)
    BY <1>5, <1>6, <2>1, SumMonotone
  <2>3. Sum(Loaded, window) = Sum(Loaded, window - 1) + Loaded[window]
    BY <1>5, <1>6, SumSteps
  <2> QED
    BY <1>4, <1>5, <1>6, <2>2, <2>3, SumSteps
<1>9. b \in Nat /\ Limit \in Nat  BY MeterAssumption
<1>10. Sum(log, window) \in Nat /\ Sum(firm, window - 1) \in Nat
  BY <1>5, <1>6, SumSteps
<1>11. verdict' \in Verdicts  BY <1>1 DEF Verdicts
<1>12. RefusalEarned'
  <2>1. SUFFICES ASSUME verdict' \in [bytes : Sizes, ok : {FALSE}]
                 PROVE  Sum(log, window)' + verdict'.bytes > Limit
    BY DEF RefusalEarned
  <2>2. ~(sum + b <= Limit) /\ verdict'.bytes = b
    BY <1>1, <2>1
  <2>3. Sum(log, window)' = Sum(log, window)  BY <1>1 DEF Sum
  <2> QED  BY <1>7, <1>9, <1>10, <2>2, <2>3
<1>13. PassEarned'
  <2>1. SUFFICES ASSUME verdict' \in [bytes : Sizes, ok : {TRUE}]
                 PROVE  Sum(firm, window - 1)' + verdict'.bytes <= Limit
    BY DEF PassEarned
  <2>2. sum + b <= Limit /\ verdict'.bytes = b
    BY <1>1, <2>1
  <2>3. Sum(firm, window - 1)' = Sum(firm, window - 1)  BY <1>1 DEF Sum
  <2> QED  BY <1>7, <1>8, <1>9, <1>10, <2>2, <2>3
<1>14. Recorded(memory)' /\ KeptIn(memory)'
  BY <1>1, <1>2, <1>3, <1>5, <1>6 DEF Recorded, KeptIn
<1>15. /\ Recorded(stored)' /\ Recorded(firm)' /\ KeptIn(stored)' /\ AlarmWaits'
  BY <1>1 DEF MeterInv, Recorded, KeptIn, AlarmWaits
<1>16. TypeOK'
  BY <1>1, <1>3, <1>11 DEF MeterInv, TypeOK
<1> QED  BY <1>12, <1>13, <1>14, <1>15, <1>16 DEF MeterInv

\* A step that is no check answers nothing.
LEMMA NoAnswer ==
  ASSUME verdict' = NoVerdict
  PROVE  RefusalEarned' /\ PassEarned'
<1>1. NoVerdict \notin [bytes : Sizes, ok : BOOLEAN]  BY MeterAssumption
<1>2. /\ verdict' \notin [bytes : Sizes, ok : {FALSE}]
      /\ verdict' \notin [bytes : Sizes, ok : {TRUE}]
  BY <1>1
<1> QED  BY <1>2 DEF RefusalEarned, PassEarned

\* The part that both records share: what is in memory afterwards.
LEMMA PushKeeps ==
  ASSUME MeterInv, NEW b \in Sizes, Push(b)
  PROVE  /\ b \in Nat
         /\ memory' \in Series /\ log' \in Series
         /\ firm \in Series /\ Added(firm, b) \in Series
         /\ \A n \in Ages :
               /\ memory'[n] <= log'[n] /\ stored[n] <= log'[n]
               /\ Added(firm, b)[n] <= log'[n] /\ firm[n] <= log'[n]
               /\ n < window => firm[n] <= memory'[n]
               /\ n < window => Added(firm, b)[n] <= memory'[n]
               /\ n # 0 => Added(firm, b)[n] = firm[n]
         /\ loaded' = TRUE /\ window' = window /\ verdict' = NoVerdict
<1> DEFINE p == Pruned(Loaded)
<1>1. /\ Sum(log, Horizon) + b <= MaxMoved
      /\ memory' = Added(p, b) /\ log' = Added(log, b)
      /\ loaded' = TRUE /\ window' = window /\ verdict' = NoVerdict
  BY DEF Push
<1>2. /\ Loaded \in Series /\ Recorded(Loaded) /\ KeptIn(Loaded)
      /\ window \in Windows /\ log \in Series /\ firm \in Series /\ stored \in Series
      /\ Recorded(firm) /\ Recorded(stored)
  BY LoadedProperties DEF MeterInv, TypeOK
<1>3. b \in Nat /\ MaxMoved \in Nat  BY MeterAssumption
<1>4. /\ 0 \in Ages /\ Horizon \in Ages /\ Ages \subseteq Nat
      /\ window \in Nat
  BY <1>2, WindowProperties
<1>5. /\ p \in Series
      /\ \A n \in Ages : p[n] = IF n <= window THEN Loaded[n] ELSE 0
  BY <1>2, PrunedProperties
<1> HIDE DEF p
<1>6. \A n \in Ages : /\ p[n] \in Nat /\ Loaded[n] \in Nat /\ stored[n] \in Nat
                      /\ log[n] \in Nat /\ firm[n] \in Nat
  BY <1>2, <1>5, SeriesCount DEF Counts
<1>7. log[0] <= Sum(log, Horizon) /\ Sum(log, Horizon) \in Nat
  BY <1>2, <1>4, SeriesCount, SumCoversYoungest, SumSteps
<1>8. log[0] + b <= MaxMoved /\ p[0] + b <= MaxMoved /\ firm[0] + b <= MaxMoved
  <2>1. p[0] <= log[0] /\ firm[0] <= log[0]
    BY <1>2, <1>4, <1>5, <1>6 DEF Recorded
  <2> QED  BY <1>1, <1>3, <1>4, <1>6, <1>7, <2>1
<1>9. /\ memory' \in Series /\ memory'[0] = p[0] + b
      /\ \A n \in Ages : n # 0 => memory'[n] = p[n]
  BY <1>1, <1>3, <1>5, <1>8, AddedProperties
<1>10. /\ log' \in Series /\ log'[0] = log[0] + b
       /\ \A n \in Ages : n # 0 => log'[n] = log[n]
  BY <1>1, <1>2, <1>3, <1>8, AddedProperties
<1>11. /\ Added(firm, b) \in Series /\ Added(firm, b)[0] = firm[0] + b
       /\ \A n \in Ages : n # 0 => Added(firm, b)[n] = firm[n]
  BY <1>2, <1>3, <1>8, AddedProperties
<1>12. \A n \in Ages : p[n] <= log[n] /\ (n < window => firm[n] <= p[n])
  BY <1>2, <1>4, <1>5, <1>6 DEF Recorded, KeptIn
<1>13. ASSUME NEW n \in Ages
       PROVE  /\ memory'[n] <= log'[n] /\ stored[n] <= log'[n]
              /\ Added(firm, b)[n] <= log'[n] /\ firm[n] <= log'[n]
              /\ n < window => firm[n] <= memory'[n]
              /\ n < window => Added(firm, b)[n] <= memory'[n]
  <2>1. stored[n] <= log[n] /\ firm[n] <= log[n]  BY <1>2 DEF Recorded
  <2>2. n \in Nat  BY <1>4
  <2>3. CASE n = 0
    BY <1>3, <1>4, <1>6, <1>9, <1>10, <1>11, <1>12, <2>1, <2>3
  <2>4. CASE n # 0
    BY <1>6, <1>9, <1>10, <1>11, <1>12, <2>1, <2>4
  <2> QED  BY <2>3, <2>4
<1> QED  BY <1>1, <1>2, <1>3, <1>9, <1>10, <1>11, <1>13

LEMMA RecordKeeps ==
  ASSUME MeterInv, NEW b \in Sizes, Record(b)
  PROVE  MeterInv'
<1>1. Push(b) /\ stored' = memory' /\ alarm' = window /\ firm' = Added(firm, b)
  BY DEF Record
<1>2. /\ b \in Nat
      /\ memory' \in Series /\ log' \in Series /\ firm' \in Series
      /\ \A n \in Ages : /\ memory'[n] <= log'[n] /\ firm'[n] <= log'[n]
                         /\ n < window => firm'[n] <= memory'[n]
      /\ loaded' = TRUE /\ window' = window /\ verdict' = NoVerdict
  BY <1>1, PushKeeps
<1>3. /\ window \in Windows /\ window \in Ages /\ window \in Nat
      /\ Ages \subseteq Nat
  BY WindowProperties DEF MeterInv, TypeOK
<1>4. TypeOK'  BY <1>1, <1>2, <1>3 DEF TypeOK
<1>5. /\ Recorded(memory)' /\ Recorded(stored)' /\ Recorded(firm)'
      /\ KeptIn(memory)' /\ KeptIn(stored)'
  BY <1>1, <1>2 DEF Recorded, KeptIn
<1>6. AlarmWaits'  BY <1>1, <1>2, <1>3 DEF AlarmWaits
<1>7. RefusalEarned' /\ PassEarned'  BY <1>2, NoAnswer
<1> QED  BY <1>4, <1>5, <1>6, <1>7 DEF MeterInv

LEMMA RecordFailsKeeps ==
  ASSUME MeterInv, NEW b \in Sizes, RecordFails(b)
  PROVE  MeterInv'
<1>1. Push(b) /\ stored' \in {stored, memory'} /\ alarm' = alarm /\ firm' = firm
  BY DEF RecordFails
<1>2. /\ memory' \in Series /\ log' \in Series
      /\ \A n \in Ages :
            /\ memory'[n] <= log'[n] /\ stored[n] <= log'[n] /\ firm[n] <= log'[n]
            /\ n < window => firm[n] <= memory'[n]
      /\ loaded' = TRUE /\ window' = window /\ verdict' = NoVerdict
  BY <1>1, PushKeeps
<1>3. TypeOK'  BY <1>1, <1>2 DEF MeterInv, TypeOK
<1>4. /\ Recorded(memory)' /\ Recorded(stored)' /\ Recorded(firm)'
      /\ KeptIn(memory)' /\ KeptIn(stored)'
  BY <1>1, <1>2 DEF MeterInv, Recorded, KeptIn
<1>5. AlarmWaits'  BY <1>1, <1>2 DEF MeterInv, AlarmWaits
<1>6. RefusalEarned' /\ PassEarned'  BY <1>2, NoAnswer
<1> QED  BY <1>3, <1>4, <1>5, <1>6 DEF MeterInv

\* When the alarm fires, no firm record is left inside the window.
LEMMA AlarmKeeps ==
  ASSUME MeterInv, Alarm
  PROVE  MeterInv'
<1>1. /\ alarm = 0 /\ memory' = NoBytes /\ loaded' = TRUE /\ verdict' = NoVerdict
      /\ \/ stored' = NoBytes /\ alarm' = NoAlarm
         \/ stored' = stored /\ alarm' = alarm
      /\ UNCHANGED <<window, log, firm>>
  BY DEF Alarm
<1>2. /\ memory \in Series /\ stored \in Series /\ log \in Series /\ firm \in Series
      /\ window \in Windows /\ window \in Nat /\ Ages \subseteq Nat
  BY WindowProperties DEF MeterInv, TypeOK
<1>3. \A n \in Ages : /\ log[n] \in Nat /\ firm[n] \in Nat /\ NoBytes[n] = 0
  BY <1>2, SeriesCount, NoBytesProperties DEF Counts
<1>4. \A n \in Ages : n < window => firm[n] = 0
  BY <1>1, <1>2, <1>3 DEF MeterInv, AlarmWaits
<1>5. TypeOK'
  BY <1>1, NoBytesProperties DEF MeterInv, TypeOK
<1>6. \A n \in Ages : NoBytes[n] <= log[n] /\ (n < window => firm[n] <= NoBytes[n])
  BY <1>3, <1>4
<1>7. /\ Recorded(memory)' /\ Recorded(stored)' /\ Recorded(firm)'
      /\ KeptIn(memory)' /\ KeptIn(stored)'
  BY <1>1, <1>6 DEF MeterInv, Recorded, KeptIn
<1>8. AlarmWaits'  BY <1>1, <1>4 DEF AlarmWaits
<1>9. RefusalEarned' /\ PassEarned'  BY <1>1, NoAnswer
<1> QED  BY <1>5, <1>7, <1>8, <1>9 DEF MeterInv

LEMMA EvictKeeps ==
  ASSUME MeterInv, Evict
  PROVE  MeterInv'
<1>1. /\ memory' = NoBytes /\ loaded' = FALSE /\ verdict' = NoVerdict
      /\ UNCHANGED <<stored, alarm, window, log, firm>>
  BY DEF Evict
<1>2. TypeOK'  BY <1>1, NoBytesProperties DEF MeterInv, TypeOK
<1>3. \A n \in Ages : NoBytes[n] = 0 /\ log[n] \in Nat
  BY NoBytesProperties, SeriesCount DEF MeterInv, TypeOK, Counts
<1>4. /\ Recorded(memory)' /\ Recorded(stored)' /\ Recorded(firm)'
      /\ KeptIn(stored)' /\ AlarmWaits'
  BY <1>1, <1>3 DEF MeterInv, Recorded, KeptIn, AlarmWaits
<1>5. RefusalEarned' /\ PassEarned'  BY <1>1, NoAnswer
<1> QED  BY <1>1, <1>2, <1>4, <1>5 DEF MeterInv

\* A wider window forgets what was firm; in a narrower one less has to be kept.
LEMMA ReconfigureKeeps ==
  ASSUME MeterInv, NEW w \in Windows, Reconfigure(w)
  PROVE  MeterInv'
<1>1. /\ window' = w /\ firm' = (IF w > window THEN NoBytes ELSE firm)
      /\ verdict' = NoVerdict
      /\ UNCHANGED <<memory, loaded, stored, alarm, log>>
  BY DEF Reconfigure
<1>2. /\ memory \in Series /\ stored \in Series /\ log \in Series /\ firm \in Series
      /\ window \in Nat /\ w \in Nat /\ Ages \subseteq Nat
  BY WindowProperties, MeterAssumption DEF MeterInv, TypeOK
<1>3. \A n \in Ages : /\ memory[n] \in Nat /\ stored[n] \in Nat /\ log[n] \in Nat
                      /\ firm[n] \in Nat /\ NoBytes[n] = 0
  BY <1>2, SeriesCount, NoBytesProperties DEF Counts
<1>4. TypeOK'  BY <1>1, NoBytesProperties DEF MeterInv, TypeOK
<1>5. Recorded(memory)' /\ Recorded(stored)' /\ Recorded(firm)'
  BY <1>1, <1>3 DEF MeterInv, Recorded
<1>6. (loaded => KeptIn(memory))' /\ KeptIn(stored)' /\ AlarmWaits'
  <2>1. CASE w > window
    BY <1>1, <1>3, <2>1 DEF KeptIn, AlarmWaits
  <2>2. CASE ~(w > window)
    <3>1. \A n \in Ages : n < w => n < window  BY <1>2, <2>2
    <3>2. firm' = firm  BY <1>1, <2>2
    <3>3. (loaded => KeptIn(memory))' /\ KeptIn(stored)'
      BY <1>1, <3>1, <3>2 DEF MeterInv, KeptIn
    <3>4. AlarmWaits'
      <4>1. ASSUME NEW n \in Ages, n < w, firm[n] > 0
            PROVE  alarm \in Nat /\ w <= alarm + n
        <5>1. n \in Nat /\ alarm \in Nat /\ window <= alarm + n
          BY <1>2, <3>1, <4>1 DEF MeterInv, AlarmWaits
        <5> QED  BY <1>2, <2>2, <5>1
      <4> QED  BY <1>1, <3>2, <4>1 DEF AlarmWaits
    <3> QED  BY <3>3, <3>4
  <2> QED  BY <2>1, <2>2
<1>7. RefusalEarned' /\ PassEarned'  BY <1>1, NoAnswer
<1> QED  BY <1>4, <1>5, <1>6, <1>7 DEF MeterInv

LEMMA TickKeeps ==
  ASSUME MeterInv, Tick
  PROVE  MeterInv'
<1>1. /\ memory' = Older(memory) /\ stored' = Older(stored)
      /\ log' = Older(log) /\ firm' = Older(firm)
      /\ alarm' = (IF alarm \in {NoAlarm, 0} THEN alarm ELSE alarm - 1)
      /\ verdict' = NoVerdict
      /\ UNCHANGED <<loaded, window>>
  BY DEF Tick
<1>2. /\ memory \in Series /\ stored \in Series /\ log \in Series /\ firm \in Series
      /\ window \in Nat /\ Ages \subseteq Nat
      /\ alarm \in Ages \union {NoAlarm}
  BY WindowProperties DEF MeterInv, TypeOK
<1>3. /\ memory' \in Series /\ stored' \in Series /\ log' \in Series /\ firm' \in Series
      /\ memory'[0] = 0 /\ stored'[0] = 0 /\ log'[0] = 0 /\ firm'[0] = 0
      /\ \A n \in Ages : n # 0 =>
            /\ n - 1 \in Ages
            /\ memory'[n] = memory[n - 1] /\ stored'[n] = stored[n - 1]
            /\ log'[n] = log[n - 1] /\ firm'[n] = firm[n - 1]
  BY <1>1, <1>2, OlderProperties
<1>4. alarm' \in Ages \union {NoAlarm}
  BY <1>1, <1>2, HorizonIsWindow DEF Ages
<1>5. TypeOK'  BY <1>1, <1>3, <1>4 DEF MeterInv, TypeOK
<1>6. Recorded(memory)' /\ Recorded(stored)' /\ Recorded(firm)'
  <2>1. ASSUME NEW n \in Ages
        PROVE  memory'[n] <= log'[n] /\ stored'[n] <= log'[n] /\ firm'[n] <= log'[n]
    <3>1. CASE n = 0  BY <1>3, <3>1
    <3>2. CASE n # 0  BY <1>3, <3>2 DEF MeterInv, Recorded
    <3> QED  BY <3>1, <3>2
  <2> QED  BY <2>1 DEF Recorded
<1>7. (loaded => KeptIn(memory))' /\ KeptIn(stored)'
  <2>1. ASSUME NEW n \in Ages, n < window
        PROVE  /\ loaded => firm'[n] <= memory'[n]
               /\ firm'[n] <= stored'[n]
    <3>1. CASE n = 0  BY <1>3, <3>1
    <3>2. CASE n # 0
      <4>1. n - 1 \in Ages /\ n - 1 < window  BY <1>2, <1>3, <2>1, <3>2
      <4> QED  BY <1>3, <3>2, <4>1 DEF MeterInv, KeptIn
    <3> QED  BY <3>1, <3>2
  <2> QED  BY <1>1, <2>1 DEF KeptIn
<1>8. AlarmWaits'
  <2>1. ASSUME NEW n \in Ages, n < window, firm'[n] > 0
        PROVE  alarm' \in Nat /\ window <= alarm' + n
    <3>1. n # 0 /\ n - 1 \in Ages /\ firm[n - 1] > 0  BY <1>3, <2>1
    <3>2. n \in Nat /\ n - 1 < window  BY <1>2, <2>1
    <3>3. alarm \in Nat /\ window <= alarm + (n - 1)
      BY <3>1, <3>2 DEF MeterInv, AlarmWaits
    <3>4. alarm # 0 /\ alarm # NoAlarm
      BY <1>2, <2>1, <3>2, <3>3, MeterAssumption
    <3>5. alarm' = alarm - 1  BY <1>1, <3>4
    <3> QED  BY <1>2, <3>2, <3>3, <3>4, <3>5
  <2> QED  BY <1>1, <2>1 DEF AlarmWaits
<1>9. RefusalEarned' /\ PassEarned'  BY <1>1, NoAnswer
<1> QED  BY <1>5, <1>6, <1>7, <1>8, <1>9 DEF MeterInv

LEMMA NextMeterInv == MeterInv /\ [Next]_vars => MeterInv'
<1> SUFFICES ASSUME MeterInv, [Next]_vars  PROVE MeterInv'  OBVIOUS
<1>1. CASE \E b \in Sizes : Check(b) \/ Record(b) \/ RecordFails(b)
  BY <1>1, CheckKeeps, RecordKeeps, RecordFailsKeeps
<1>2. CASE Alarm  BY <1>2, AlarmKeeps
<1>3. CASE Evict  BY <1>3, EvictKeeps
<1>4. CASE Tick  BY <1>4, TickKeeps
<1>5. CASE \E w \in Windows : Reconfigure(w)  BY <1>5, ReconfigureKeeps
<1>6. CASE UNCHANGED vars
  BY <1>6 DEF vars, MeterInv, TypeOK, Recorded, KeptIn, AlarmWaits,
              RefusalEarned, PassEarned, Sum
<1> QED  BY <1>1, <1>2, <1>3, <1>4, <1>5, <1>6 DEF Next

-----------------------------------------------------------------------------

\* The bounds on what memory and storage hold, and the order of the alarm and
\* the records that it must not clear, hold in every state (bandwidth.rs:73-177).
THEOREM MeterInductive == Spec => []MeterInv
  BY InitMeterInv, NextMeterInv, PTL DEF Spec

\* Every state of the meter is well typed; memory and storage never hold more
\* than was recorded, because nothing is kept twice (bandwidth.rs:90-119).
THEOREM MeterTyped == Spec => []TypeOK
  BY MeterInductive, PTL DEF MeterInv

\* A refusal is earned by bytes recorded inside the window, for any windows and
\* limits (bandwidth.rs:110-143).
THEOREM MeterRefusals == Spec => []RefusalEarned
  BY MeterInductive, PTL DEF MeterInv

\* A pass is earned as far as records succeeded under a window that was not
\* widened since, whatever is evicted or fails (bandwidth.rs:73-177).
THEOREM MeterPasses == Spec => []PassEarned
  BY MeterInductive, PTL DEF MeterInv
=============================================================================
