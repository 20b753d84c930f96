------------------------- MODULE RateLimiterProofs -------------------------
(***************************************************************************)
(* For every rate, burst, idle time and ticker period, the limiter         *)
(* implements the forgetful token buckets of TokenBucket, bounds what a    *)
(* key is granted in every window of time, serves the clients that keep    *)
(* below the rate, and keeps the buckets of recent clients only.           *)
(***************************************************************************)
EXTENDS RateLimiter, TLAPS

LEMMA CapType == Cap \in Nat
<1>1. Rate \div Cost \in Nat
  BY LimiterAssumption
<1>2. FlagBurst \in Nat
  BY <1>1, LimiterAssumption DEF FlagBurst
<1>3. Burst \in Nat
  BY <1>2, LimiterAssumption DEF Burst
<1> QED BY <1>3, LimiterAssumption DEF Cap

LEMMA FilledType == ASSUME NEW n \in Nat PROVE Filled(n) \in 0..Cap
BY CapType DEF Filled

LEMMA GainType == ASSUME NEW t \in Nat PROVE t * Rate \in Nat
BY LimiterAssumption

LEMMA GainGrows == ASSUME NEW t \in Nat PROVE (t + 1) * Rate = t * Rate + Rate
BY LimiterAssumption

LEMMA GainMonotone ==
  ASSUME NEW s \in Nat, NEW t \in Nat, s <= t PROVE s * Rate <= t * Rate
BY LimiterAssumption

-----------------------------------------------------------------------------

\* A bucket the code looks at holds the key's level, dated now.
LEMMA BucketIsLevel ==
  ASSUME TypeOK, NEW k \in Keys
  PROVE  BucketOf(k) = [tokens |-> Level(k), lastTick |-> now] /\ Level(k) \in 0..Cap
<1>1. CASE buckets[k] = NoBucket
  <2>1. (now - now) * Rate = 0
    BY LimiterAssumption DEF TypeOK
  <2>2. Filled(Cap + (now - now) * Rate) = Cap
    BY <2>1, CapType DEF Filled
  <2> QED BY <1>1, <2>2, CapType DEF BucketOf, Refill, Level
<1>2. CASE buckets[k] # NoBucket
  <2>1. buckets[k] \in BucketType
    BY <1>2 DEF TypeOK
  <2>2. now - buckets[k].lastTick \in Nat /\ buckets[k].tokens \in Nat
    BY <2>1, CapType, LimiterAssumption DEF BucketType, TypeOK
  <2>3. buckets[k].tokens + (now - buckets[k].lastTick) * Rate \in Nat
    BY <2>2, GainType
  <2> QED BY <1>2, <2>3, FilledType DEF BucketOf, Refill, Level
<1> QED BY <1>1, <1>2

\* A bucket written now is at its own level.
LEMMA FreshLevel ==
  ASSUME NEW n \in 0..Cap, now \in Nat
  PROVE  Filled(n + (now - now) * Rate) = n
<1>1. (now - now) * Rate = 0
  BY LimiterAssumption
<1> QED BY <1>1, CapType DEF Filled

\* The step of Allow, in terms of levels.
LEMMA AllowLevel ==
  ASSUME TypeOK, NEW k \in Keys, Allow(k)
  PROVE  /\ buckets'[k] = [tokens |-> IF Level(k) >= Cost THEN Level(k) - Cost ELSE Level(k),
                           lastTick |-> now]
         /\ \A j \in Keys \ {k} : buckets'[j] = buckets[j]
         /\ Level(k)' = IF Level(k) >= Cost THEN Level(k) - Cost ELSE Level(k)
         /\ \A j \in Keys \ {k} : Level(j)' = Level(j)
         /\ granted' = [granted EXCEPT ![k] = IF Level(k) >= Cost THEN @ + 1 ELSE @]
         /\ answer' = [key |-> k, ok |-> Level(k) >= Cost]
<1> DEFINE n == IF Level(k) >= Cost THEN Level(k) - Cost ELSE Level(k)
<1>1. BucketOf(k) = [tokens |-> Level(k), lastTick |-> now] /\ Level(k) \in 0..Cap
  BY BucketIsLevel
<1>2. n \in 0..Cap
  BY <1>1, CapType, LimiterAssumption
<1>3. buckets'[k] = [tokens |-> n, lastTick |-> now]
  BY <1>1 DEF Allow, CanPay, Paid, Unpaid, TypeOK
<1>4. \A j \in Keys \ {k} : buckets'[j] = buckets[j]
  BY DEF Allow, TypeOK
<1>5. now' = now /\ now \in Nat
  BY LimiterAssumption DEF Allow, TypeOK
<1>6. Level(k)' = n
  <2>1. buckets'[k] # NoBucket
    BY <1>2, <1>3, <1>5, CapType, LimiterAssumption
  <2>2. Level(k)' = Filled(n + (now - now) * Rate)
    BY <1>3, <1>5, <2>1 DEF Level, Filled
  <2> QED BY <1>2, <1>5, <2>2, FreshLevel
<1>7. \A j \in Keys \ {k} : Level(j)' = Level(j)
  BY <1>4, <1>5 DEF Level, Filled
<1> HIDE DEF n
<1>8. /\ granted' = [granted EXCEPT ![k] = IF Level(k) >= Cost THEN @ + 1 ELSE @]
      /\ answer' = [key |-> k, ok |-> Level(k) >= Cost]
  BY <1>1 DEF Allow, CanPay
<1> QED BY <1>3, <1>4, <1>6, <1>7, <1>8 DEF n

\* A tick adds the rate to every level, up to the cap.
LEMMA TickLevel ==
  ASSUME TypeOK, Tick, NEW k \in Keys
  PROVE  Level(k)' = Filled(Level(k) + Rate)
<1>1. buckets' = buckets /\ now' = now + 1 /\ now \in Nat
  BY LimiterAssumption DEF Tick, TypeOK
<1>2. CASE buckets[k] = NoBucket
  BY <1>1, <1>2, CapType, LimiterAssumption DEF Level, Filled
<1>3. CASE buckets[k] # NoBucket
  <2> DEFINE n == buckets[k].tokens
             t == now - buckets[k].lastTick
  <2>1. n \in Nat /\ t \in Nat
    BY <1>1, <1>3, CapType, LimiterAssumption DEF TypeOK, BucketType
  <2>2. now' - buckets'[k].lastTick = t + 1
    BY <1>1, <1>3, CapType, LimiterAssumption DEF TypeOK, BucketType
  <2>3. Level(k)' = Filled(n + (t + 1) * Rate) /\ Level(k) = Filled(n + t * Rate)
    BY <1>1, <1>3, <2>2 DEF Level, Filled
  <2> HIDE DEF n, t
  <2>4. (t + 1) * Rate = t * Rate + Rate /\ t * Rate \in Nat
    BY <2>1, GainGrows, GainType
  <2> QED BY <2>1, <2>3, <2>4, CapType, LimiterAssumption DEF Filled
<1> QED BY <1>2, <1>3

-----------------------------------------------------------------------------

LEMMA IdleGainType ==
  /\ IdleGain \in Nat /\ Rate * MaxIdle \in Nat /\ Cap * MaxIdle \in Nat
  /\ Rate * MaxIdle <= IdleGain /\ Cap <= IdleGain
<1>1. Rate * MaxIdle \in Nat /\ Cap * MaxIdle \in Nat
  BY CapType, LimiterAssumption
<1> QED BY <1>1, CapType DEF IdleGain

LEMMA Monotone ==
  ASSUME NEW a \in Nat, NEW b \in Nat, NEW c \in Nat, a <= b
  PROVE  a * c <= b * c /\ c * a <= c * b /\ a * c \in Nat /\ b * c \in Nat
OBVIOUS

\* A bucket of n units, written t ticks ago, as if it were refilled at the larger
\* rate, in MaxIdle-ths of a unit.
Refilled(n, t) ==
  LET m == n * MaxIdle + IdleGain * t
  IN IF m > Cap * MaxIdle THEN Cap * MaxIdle ELSE m

\* What key k could have by now at that rate.
Virtual(k) ==
  IF buckets[k] = NoBucket THEN Cap * MaxIdle
  ELSE Refilled(buckets[k].tokens, now - buckets[k].lastTick)

LEMMA RefilledType ==
  ASSUME NEW n \in Nat, NEW t \in Nat
  PROVE  /\ Refilled(n, t) \in Nat /\ Refilled(n, t) <= Cap * MaxIdle
         /\ Refilled(n, t) <= n * MaxIdle + IdleGain * t
         /\ n * MaxIdle \in Nat /\ IdleGain * t \in Nat
<1>1. n * MaxIdle \in Nat /\ IdleGain * t \in Nat
  BY IdleGainType, LimiterAssumption
<1> QED BY <1>1, IdleGainType DEF Refilled

LEMMA VirtualType ==
  ASSUME TypeOK, NEW k \in Keys
  PROVE  Virtual(k) \in Nat /\ Virtual(k) <= Cap * MaxIdle
<1>1. CASE buckets[k] = NoBucket
  BY <1>1, IdleGainType DEF Virtual
<1>2. CASE buckets[k] # NoBucket
  <2>1. now - buckets[k].lastTick \in Nat /\ buckets[k].tokens \in Nat
    BY <1>2, CapType, LimiterAssumption DEF TypeOK, BucketType
  <2> QED BY <1>2, <2>1, RefilledType DEF Virtual
<1> QED BY <1>1, <1>2

\* The level is within what the larger rate would give.
LEMMA LevelIsVirtual ==
  ASSUME TypeOK, NEW k \in Keys
  PROVE  Level(k) * MaxIdle <= Virtual(k)
<1>1. CASE buckets[k] = NoBucket
  BY <1>1, IdleGainType DEF Virtual, Level
<1>2. CASE buckets[k] # NoBucket
  <2> DEFINE n == buckets[k].tokens
             t == now - buckets[k].lastTick
             l == Level(k)
  <2>1. n \in Nat /\ t \in Nat
    BY <1>2, CapType, LimiterAssumption DEF TypeOK, BucketType
  <2>2. l = Filled(n + t * Rate) /\ l \in 0..Cap /\ Virtual(k) = Refilled(n, t)
    BY <1>2, BucketIsLevel DEF Level, Virtual
  <2> HIDE DEF n, t, l
  <2>3. t * Rate \in Nat
    BY <2>1, GainType
  <2>4. l <= Cap /\ l <= n + t * Rate /\ l \in Nat
    BY <2>1, <2>2, <2>3, CapType DEF Filled
  <2>5. l * MaxIdle <= Cap * MaxIdle /\ l * MaxIdle \in Nat
    BY <2>4, CapType, Monotone, LimiterAssumption
  <2>6. l * MaxIdle <= (n + t * Rate) * MaxIdle
    BY <2>1, <2>3, <2>4, Monotone, LimiterAssumption
  <2>7. (n + t * Rate) * MaxIdle = n * MaxIdle + t * (Rate * MaxIdle)
    BY <2>1, LimiterAssumption
  <2>8. t * (Rate * MaxIdle) <= t * IdleGain /\ t * IdleGain = IdleGain * t
    BY <2>1, IdleGainType, Monotone
  <2>9. l * MaxIdle <= n * MaxIdle + IdleGain * t
    <3>1. n * MaxIdle \in Nat /\ t * (Rate * MaxIdle) \in Nat /\ IdleGain * t \in Nat
      BY <2>1, IdleGainType, LimiterAssumption
    <3> QED BY <2>5, <2>6, <2>7, <2>8, <3>1
  <2> QED BY <2>2, <2>5, <2>9 DEF Refilled, l
<1> QED BY <1>1, <1>2

\* After Allow the key has no more than the units left in its bucket.
LEMMA AllowVirtual ==
  ASSUME TypeOK, NEW k \in Keys, Allow(k)
  PROVE  /\ Virtual(k)' <= Level(k)' * MaxIdle
         /\ \A j \in Keys \ {k} : Virtual(j)' = Virtual(j)
<1> DEFINE n == IF Level(k) >= Cost THEN Level(k) - Cost ELSE Level(k)
<1>1. /\ buckets'[k] = [tokens |-> n, lastTick |-> now] /\ Level(k)' = n
      /\ \A j \in Keys \ {k} : buckets'[j] = buckets[j]
  BY AllowLevel
<1>2. now' = now /\ now \in Nat
  BY LimiterAssumption DEF Allow, TypeOK
<1>3. n \in Nat /\ n <= Cap
  BY BucketIsLevel, CapType, LimiterAssumption
<1> HIDE DEF n
<1>4. buckets'[k] # NoBucket
  BY <1>1, <1>2, <1>3, LimiterAssumption
<1>5. Virtual(k)' = Refilled(n, 0)
  BY <1>1, <1>2, <1>4 DEF Virtual, Refilled, IdleGain, Cap, Burst, FlagBurst
<1>6. IdleGain * 0 = 0
  BY IdleGainType
<1>7. Refilled(n, 0) <= n * MaxIdle
  BY <1>3, <1>6, RefilledType
<1>8. \A j \in Keys \ {k} : Virtual(j)' = Virtual(j)
  BY <1>1, <1>2 DEF Virtual, Refilled, IdleGain, Cap, Burst, FlagBurst
<1> QED BY <1>1, <1>5, <1>7, <1>8

LEMMA TickVirtual ==
  ASSUME TypeOK, Tick, NEW k \in Keys
  PROVE  Virtual(k)' <= Virtual(k) + IdleGain
<1>1. buckets' = buckets /\ now' = now + 1 /\ now \in Nat
  BY LimiterAssumption DEF Tick, TypeOK
<1>2. CASE buckets[k] = NoBucket
  <2>1. Virtual(k)' = Cap * MaxIdle /\ Virtual(k) = Cap * MaxIdle
    BY <1>1, <1>2 DEF Virtual, Cap, Burst, FlagBurst
  <2> QED BY <2>1, IdleGainType
<1>3. CASE buckets[k] # NoBucket
  <2> DEFINE n == buckets[k].tokens
             t == now - buckets[k].lastTick
  <2>1. n \in Nat /\ t \in Nat /\ now' - buckets'[k].lastTick = t + 1
    BY <1>1, <1>3, CapType, LimiterAssumption DEF TypeOK, BucketType
  <2>2. Virtual(k)' = Refilled(n, t + 1) /\ Virtual(k) = Refilled(n, t)
    BY <1>1, <1>3, <2>1 DEF Virtual, Refilled, IdleGain, Cap, Burst, FlagBurst
  <2> HIDE DEF n, t
  <2>3. IdleGain * (t + 1) = IdleGain * t + IdleGain
    BY <2>1, IdleGainType
  <2>4. n * MaxIdle \in Nat /\ IdleGain * t \in Nat
    BY <2>1, RefilledType
  <2> QED BY <2>2, <2>3, <2>4, IdleGainType DEF Refilled
<1> QED BY <1>2, <1>3

\* Forgetting a stale bucket adds nothing: at the larger rate it was full.
LEMMA SweepVirtual ==
  ASSUME TypeOK, Sweep, NEW k \in Keys
  PROVE  Virtual(k)' = Virtual(k)
<1>1. now' = now /\ now \in Nat
  BY LimiterAssumption DEF Sweep, TypeOK
<1>2. CASE buckets[k] # NoBucket /\ Stale(buckets[k])
  <2> DEFINE n == buckets[k].tokens
             t == now - buckets[k].lastTick
  <2>1. n \in Nat /\ t \in Nat /\ MaxIdle <= t
    BY <1>1, <1>2, CapType, LimiterAssumption DEF TypeOK, BucketType, Stale
  <2>2. Virtual(k) = Refilled(n, t) /\ Virtual(k)' = Cap * MaxIdle
    BY <1>1, <1>2 DEF Virtual, Sweep, Cap, Burst, FlagBurst
  <2> HIDE DEF n, t
  <2>3. Cap * MaxIdle <= Cap * t /\ Cap * t <= IdleGain * t /\ Cap * t \in Nat
    BY <2>1, CapType, IdleGainType, Monotone, LimiterAssumption
  <2>4. n * MaxIdle \in Nat /\ IdleGain * t \in Nat
    BY <2>1, RefilledType
  <2>5. Cap * MaxIdle <= n * MaxIdle + IdleGain * t
    BY <2>3, <2>4, IdleGainType
  <2> QED BY <2>2, <2>4, <2>5, IdleGainType DEF Refilled
<1>3. CASE ~(buckets[k] # NoBucket /\ Stale(buckets[k]))
  BY <1>1, <1>3 DEF Virtual, Sweep, Refilled, IdleGain, Cap, Burst, FlagBurst
<1> QED BY <1>2, <1>3

-----------------------------------------------------------------------------

\* What a key was granted and what it could have by now stay within its burst and
\* what the larger rate has added since the window opened.
TokensInv ==
  \A k \in Keys : granted[k] * Cost * MaxIdle + Virtual(k)
                   <= Cap * MaxIdle + IdleGain * (now - start)

IInv == TypeOK /\ TokensInv

LEMMA TypeStep == TypeOK /\ [Next]_vars => TypeOK'
<1> SUFFICES ASSUME TypeOK, [Next]_vars PROVE TypeOK'
  OBVIOUS
<1> USE LimiterAssumption, CapType
<1>1. ASSUME NEW r \in Requests, Request(r) PROVE TypeOK'
  <2> DEFINE k == rateLimitKey(r)
             n == IF Level(k) >= Cost THEN Level(k) - Cost ELSE Level(k)
  <2>1. k \in Keys
    BY DEF Keys
  <2>2. Allow(k)
    BY <1>1 DEF Request
  <2>3. n \in 0..Cap
    BY <2>1, BucketIsLevel
  <2>4. /\ buckets'[k] = [tokens |-> n, lastTick |-> now]
        /\ \A j \in Keys \ {k} : buckets'[j] = buckets[j]
    BY <2>1, <2>2, AllowLevel
  <2>5. UNCHANGED <<now, nextFire, fired, stopped, cleaning, start>>
    BY <2>2 DEF Allow
  <2> HIDE DEF n, k
  <2>6. BucketType' = BucketType /\ [tokens |-> n, lastTick |-> now] \in BucketType
    BY <2>3, <2>5 DEF BucketType, TypeOK
  <2>7. buckets' \in [Keys -> BucketType \cup {NoBucket}]
    <3>1. DOMAIN buckets' = Keys /\ buckets' = [j \in Keys |-> buckets'[j]]
      BY <2>2 DEF Allow, TypeOK
    <3>2. \A j \in Keys : buckets'[j] \in BucketType \cup {NoBucket}
      BY <2>4, <2>6 DEF TypeOK
    <3> QED BY <3>1, <3>2
  <2>8. granted' \in [Keys -> Nat]
    BY <2>1, <2>2 DEF Allow, TypeOK
  <2> QED BY <2>5, <2>6, <2>7, <2>8 DEF TypeOK
<1>2. CASE Sweep
  <2>1. BucketType' = BucketType
    BY <1>2 DEF Sweep, BucketType
  <2> QED BY <1>2, <2>1 DEF Sweep, TypeOK
<1>3. CASE Stop
  BY <1>3 DEF Stop, TypeOK, BucketType
<1>4. CASE CleanupExit
  BY <1>4 DEF CleanupExit, TypeOK, BucketType
<1>5. CASE Tick
  <2>1. BucketType \subseteq BucketType'
    BY <1>5 DEF Tick, BucketType, TypeOK
  <2>2. buckets' \in [Keys -> (BucketType \cup {NoBucket})']
    BY <1>5, <2>1 DEF Tick, TypeOK
  <2>3. fired' \in BOOLEAN /\ nextFire' \in Nat \ {0}
    <3>1. \/ fired' = TRUE /\ nextFire' = nextFire + Period
          \/ fired' = fired /\ nextFire' = nextFire
      BY <1>5 DEF Tick
    <3>2. nextFire \in Nat \ {0} /\ nextFire + Period \in Nat \ {0} /\ fired \in BOOLEAN
      BY DEF TypeOK
    <3> QED BY <3>1, <3>2
  <2>4. now' \in 0..MaxTime /\ start' \in 0..now'
    BY <1>5 DEF Tick, TypeOK
  <2>5. UNCHANGED <<stopped, cleaning, granted>>
    BY <1>5 DEF Tick
  <2> QED BY <2>2, <2>3, <2>4, <2>5 DEF TypeOK
<1>6. CASE OpenWindow
  BY <1>6 DEF OpenWindow, limiterVars, TypeOK, BucketType
<1>7. CASE UNCHANGED vars
  BY <1>7 DEF vars, limiterVars, TypeOK, BucketType
<1> QED BY <1>1, <1>2, <1>3, <1>4, <1>5, <1>6, <1>7 DEF Next

LEMMA VirtualPrimed ==
  ASSUME TypeOK', NEW k \in Keys
  PROVE  Virtual(k)' \in Nat
<1>1. CASE buckets'[k] = NoBucket
  BY <1>1, IdleGainType DEF Virtual, Cap, Burst, FlagBurst
<1>2. CASE buckets'[k] # NoBucket
  <2>1. now' - buckets'[k].lastTick \in Nat /\ buckets'[k].tokens \in Nat
    BY <1>2, CapType, LimiterAssumption DEF TypeOK, BucketType, Cap, Burst, FlagBurst
  <2>2. Virtual(k)' = Refilled(buckets'[k].tokens, now' - buckets'[k].lastTick)
    BY <1>2 DEF Virtual, Refilled, IdleGain, Cap, Burst, FlagBurst
  <2> QED BY <2>1, <2>2, RefilledType
<1> QED BY <1>1, <1>2

LEMMA TokensStep == IInv /\ [Next]_vars => TokensInv'
<1> SUFFICES ASSUME IInv, [Next]_vars, NEW k \in Keys
             PROVE  (granted[k] * Cost * MaxIdle + Virtual(k)
                     <= Cap * MaxIdle + IdleGain * (now - start))'
  BY DEF TokensInv
<1> USE DEF IInv
<1> DEFINE g == granted[k]
           spent(n) == n * Cost * MaxIdle
           v == Virtual(k)
           room == Cap * MaxIdle
           gain == IdleGain * (now - start)
<1>0. /\ g \in Nat /\ v \in Nat /\ v <= room /\ room \in Nat
      /\ now - start \in Nat /\ now \in Nat /\ start \in Nat
      /\ spent(g) + v <= room + gain
      /\ spent(g) \in Nat /\ gain \in Nat
  <2>1. g \in Nat /\ now - start \in Nat /\ now \in Nat /\ start \in Nat
    BY LimiterAssumption DEF TypeOK
  <2>2. v \in Nat /\ v <= room /\ room \in Nat
    BY IdleGainType, VirtualType
  <2>3. g * Cost \in Nat
    BY <2>1, LimiterAssumption
  <2>4. spent(g) \in Nat /\ gain \in Nat
    BY <2>1, <2>3, IdleGainType, LimiterAssumption
  <2> QED BY <2>1, <2>2, <2>4 DEF TokensInv
<1>c. Cap' = Cap /\ IdleGain' = IdleGain /\ room' = room
  BY DEF IdleGain, Cap, Burst, FlagBurst
<1>1. ASSUME UNCHANGED <<now, start>>, granted'[k] = granted[k], Virtual(k)' <= v
      PROVE  (spent(g) + v <= room + gain)'
  <2>1. spent(g)' = spent(g) /\ gain' = gain
    BY <1>1, <1>c
  <2>2. Virtual(k)' \in Nat
    <3>1. TypeOK'
      BY TypeStep
    <3>2. k \in Keys'
      BY DEF Keys, rateLimitKey
    <3> QED BY <3>1, <3>2, VirtualPrimed
  <2> HIDE DEF g, spent, v, room, gain
  <2>3. spent(g) + Virtual(k)' <= room + gain
    BY <1>0, <1>1, <2>2
  <2> QED BY <1>c, <2>1, <2>3 DEF v
<1>2. ASSUME NEW r \in Requests, Request(r)
      PROVE  (spent(g) + v <= room + gain)'
  <2> DEFINE j == rateLimitKey(r)
  <2>1. j \in Keys /\ Allow(j)
    BY <1>2 DEF Request, Keys
  <2>2. now' = now /\ start' = start
    BY <2>1 DEF Allow
  <2>3. CASE j # k
    <3>1. Virtual(k)' = Virtual(k) /\ granted'[k] = granted[k]
      BY <2>1, <2>3, AllowVirtual, AllowLevel DEF TypeOK
    <3> QED BY <1>0, <1>1, <2>2, <3>1
  <2>l. Level(k) \in Nat /\ Level(k) * MaxIdle <= v /\ Level(k) * MaxIdle \in Nat
    BY BucketIsLevel, CapType, LevelIsVirtual, LimiterAssumption
  <2>4. CASE j = k /\ Level(k) >= Cost
    <3> DEFINE l == Level(k)
    <3>1. Level(k)' = l - Cost /\ granted'[k] = g + 1
      BY <2>1, <2>4, AllowLevel DEF TypeOK
    <3>2. Virtual(k)' <= (l - Cost) * MaxIdle
      BY <2>1, <2>4, <3>1, AllowVirtual
    <3>3. Virtual(k)' \in Nat
      BY TypeStep, VirtualPrimed DEF Keys, rateLimitKey
    <3>4. (l - Cost) * MaxIdle = l * MaxIdle - Cost * MaxIdle /\ Cost * MaxIdle \in Nat
      BY <2>l, LimiterAssumption
    <3>5. (g + 1) * Cost * MaxIdle = g * Cost * MaxIdle + Cost * MaxIdle
      BY <1>0, LimiterAssumption
    <3>6. spent(g)' = spent(g) + Cost * MaxIdle /\ gain' = gain
      BY <1>c, <2>2, <3>1, <3>5
    <3> HIDE DEF g, spent, v, room, gain, l
    <3>7. spent(g) + Cost * MaxIdle + Virtual(k)' <= room + gain
      BY <1>0, <2>l, <3>2, <3>3, <3>4 DEF l
    <3> QED BY <1>c, <3>6, <3>7 DEF v
  <2>5. CASE j = k /\ ~(Level(k) >= Cost)
    <3>1. Level(k)' = Level(k) /\ granted'[k] = granted[k]
      BY <2>1, <2>5, AllowLevel DEF TypeOK
    <3>2. Virtual(k)' <= Level(k) * MaxIdle /\ Virtual(k)' \in Nat
      BY <2>1, <2>5, <3>1, AllowVirtual, TypeStep, VirtualPrimed DEF Keys, rateLimitKey
    <3>3. Virtual(k)' <= v
      BY <1>0, <2>l, <3>2
    <3> QED BY <1>1, <2>2, <3>1, <3>3
  <2> QED BY <2>3, <2>4, <2>5
<1>3. CASE Sweep
  <2>1. Virtual(k)' = v
    BY <1>3, SweepVirtual
  <2>2. UNCHANGED <<now, start, granted>>
    BY <1>3 DEF Sweep
  <2> QED BY <1>0, <1>1, <2>1, <2>2
<1>4. CASE Stop \/ CleanupExit \/ UNCHANGED vars
  <2>1. UNCHANGED <<now, buckets, start, granted>>
    BY <1>4 DEF Stop, CleanupExit, vars, limiterVars
  <2>2. Virtual(k)' = v
    BY <2>1 DEF Virtual, Refilled, IdleGain, Cap, Burst, FlagBurst
  <2> QED BY <1>0, <1>1, <2>1, <2>2
<1>6. CASE Tick
  <2>1. Virtual(k)' <= v + IdleGain /\ Virtual(k)' \in Nat
    BY <1>6, TickVirtual, TypeStep, VirtualPrimed DEF Keys, rateLimitKey
  <2>2. now' - start' = (now - start) + 1 /\ granted'[k] = g
    BY <1>0, <1>6 DEF Tick
  <2>3. gain' = gain + IdleGain /\ spent(g)' = spent(g)
    <3>1. IdleGain * ((now - start) + 1) = IdleGain * (now - start) + IdleGain
      BY <1>0, IdleGainType
    <3> QED BY <1>c, <2>2, <3>1
  <2> HIDE DEF g, spent, v, room, gain
  <2>4. spent(g) + Virtual(k)' <= room + (gain + IdleGain)
    BY <1>0, <2>1, IdleGainType
  <2> QED BY <1>c, <2>2, <2>3, <2>4 DEF g, spent, v, room, gain
<1>7. CASE OpenWindow
  <2>1. Virtual(k)' = v /\ granted'[k] = 0 /\ now' = now /\ start' = now
    BY <1>7 DEF OpenWindow, limiterVars, Virtual, Refilled, IdleGain, Cap, Burst, FlagBurst
  <2>2. 0 * Cost * MaxIdle = 0 /\ IdleGain * (now - now) = 0
    BY <1>0, IdleGainType, LimiterAssumption
  <2>3. spent(g)' = 0 /\ gain' = 0
    BY <1>c, <2>1, <2>2
  <2> HIDE DEF g, spent, v, room, gain
  <2>4. 0 + v <= room + 0
    BY <1>0
  <2> QED BY <1>0, <1>c, <2>1, <2>3, <2>4 DEF g, spent, v, room, gain
<1> QED BY <1>2, <1>3, <1>4, <1>6, <1>7 DEF Next

LEMMA LimiterInit == Init => IInv
<1> SUFFICES ASSUME Init PROVE IInv
  OBVIOUS
<1>1. TypeOK
  <2>1. now \in 0..MaxTime /\ start \in 0..now /\ nextFire \in Nat \ {0}
    BY LimiterAssumption DEF Init
  <2>2. granted \in [Keys -> Nat] /\ buckets \in [Keys -> BucketType \cup {NoBucket}]
    BY DEF Init
  <2> QED BY <2>1, <2>2 DEF Init, TypeOK
<1>2. ASSUME NEW k \in Keys
      PROVE  granted[k] * Cost * MaxIdle + Virtual(k)
             <= Cap * MaxIdle + IdleGain * (now - start)
  <2>1. granted[k] = 0 /\ Virtual(k) = Cap * MaxIdle /\ now = 0 /\ start = 0
    BY <1>2 DEF Init, Virtual
  <2>2. 0 * Cost * MaxIdle = 0 /\ IdleGain * (0 - 0) = 0
    BY IdleGainType, LimiterAssumption
  <2> QED BY <2>1, <2>2, IdleGainType
<1> QED BY <1>1, <1>2 DEF IInv, TokensInv

\* The limiter keeps well-formed buckets: between nothing and the burst, and
\* never dated in the future (ratelimit.go, Allow and cleanup).
THEOREM LimiterTypeCorrect == Spec => []TypeOK
<1>1. Init => TypeOK
  BY LimiterInit DEF IInv
<1> QED BY <1>1, TypeStep, PTL DEF Spec

\* No key is granted more in any window than the burst and what accrues at the
\* larger of the configured rate and one burst per MaxIdle, for every rate,
\* burst, idle time and period (ratelimit.go, Allow and cleanup).
THEOREM LimiterBoundsRate == Spec => []RateBound
<1>1. IInv /\ [Next]_vars => IInv'
  BY TypeStep, TokensStep DEF IInv
<1>2. IInv => RateBound
  <2> SUFFICES ASSUME IInv, NEW k \in Keys
               PROVE  granted[k] * Cost * MaxIdle <= Cap * MaxIdle + IdleGain * (now - start)
    BY DEF RateBound
  <2>1. granted[k] * Cost * MaxIdle + Virtual(k) <= Cap * MaxIdle + IdleGain * (now - start)
    BY DEF IInv, TokensInv
  <2>2. granted[k] * Cost \in Nat /\ now - start \in Nat
    BY LimiterAssumption DEF IInv, TypeOK
  <2>3. granted[k] * Cost * MaxIdle \in Nat /\ IdleGain * (now - start) \in Nat
    BY <2>2, IdleGainType, LimiterAssumption
  <2>4. Virtual(k) \in Nat
    BY VirtualType DEF IInv
  <2> QED BY <2>1, <2>3, <2>4, IdleGainType
<1> QED BY LimiterInit, <1>1, <1>2, PTL DEF Spec

-----------------------------------------------------------------------------

LEMMA RefinesInit == Init => TB!Init
<1> SUFFICES ASSUME Init PROVE TB!Init
  OBVIOUS
<1>1. [k \in Keys |-> Level(k)] = [k \in Keys |-> Cap]
  BY DEF Init, Level
<1>2. [k \in Keys |-> Asked(k)] = [k \in Keys |-> 0]
  BY DEF Init, Asked
<1> QED BY <1>1, <1>2 DEF Init, TB!Init, TB!NoAnswer

LEMMA RefinesStep == TypeOK /\ [Next]_vars => [TB!Next]_TB!vars
<1> SUFFICES ASSUME TypeOK, [Next]_vars PROVE [TB!Next]_TB!vars
  OBVIOUS
<1> DEFINE lev == [k \in Keys |-> Level(k)]
           last == [k \in Keys |-> Asked(k)]
<1>1. ASSUME NEW r \in Requests, Request(r) PROVE TB!Next
  <2> DEFINE k == rateLimitKey(r)
  <2>1. k \in Keys /\ Allow(k)
    BY <1>1 DEF Request, Keys
  <2>2. UNCHANGED <<now, start>>
    BY <2>1 DEF Allow
  <2>a. last' = [last EXCEPT ![k] = now]
    <3>1. buckets'[k].lastTick = now /\ buckets'[k] # NoBucket
      <4>1. buckets'[k] = [tokens |-> IF Level(k) >= Cost THEN Level(k) - Cost ELSE Level(k),
                           lastTick |-> now]
        BY <2>1, AllowLevel
      <4>2. (IF Level(k) >= Cost THEN Level(k) - Cost ELSE Level(k)) \in Nat /\ now \in Nat
        BY <2>1, BucketIsLevel, CapType, LimiterAssumption DEF TypeOK
      <4> QED BY <4>1, <4>2, LimiterAssumption
    <3>2. \A j \in Keys \ {k} : buckets'[j] = buckets[j]
      BY <2>1, AllowLevel
    <3> QED BY <2>1, <3>1, <3>2 DEF Asked
  <2>3. CASE Level(k) >= Cost
    <3>1. lev' = [lev EXCEPT ![k] = @ - Cost]
      BY <2>1, <2>3, AllowLevel
    <3>2. granted' = [granted EXCEPT ![k] = @ + 1] /\ answer' = [key |-> k, ok |-> TRUE]
      BY <2>1, <2>3, AllowLevel
    <3>3. TB!Grant(k)
      BY <2>1, <2>2, <2>3, <2>a, <3>1, <3>2 DEF TB!Grant
    <3> QED BY <2>1, <3>3 DEF TB!Next
  <2>4. CASE ~(Level(k) >= Cost)
    <3>1. lev' = lev
      BY <2>1, <2>4, AllowLevel
    <3>2. granted' = granted /\ answer' = [key |-> k, ok |-> FALSE]
      <4>1. granted' = [granted EXCEPT ![k] = @]
        BY <2>1, <2>4, AllowLevel
      <4>2. answer' = [key |-> k, ok |-> FALSE]
        <5>1. answer' = [key |-> k, ok |-> Level(k) >= Cost]
          BY <2>1, AllowLevel
        <5>2. (Level(k) >= Cost) = FALSE
          BY <2>4
        <5> QED BY <5>1, <5>2, Zenon
      <4> QED BY <2>1, <4>1, <4>2 DEF TypeOK
    <3>3. Level(k) < Cost
      BY <2>1, <2>4, BucketIsLevel, CapType, LimiterAssumption
    <3>4. TB!Refuse(k)
      BY <2>1, <2>2, <2>a, <3>1, <3>2, <3>3 DEF TB!Refuse
    <3> QED BY <2>1, <3>4 DEF TB!Next
  <2> QED BY <2>3, <2>4
<1>2. CASE Sweep
  <2> DEFINE K == {k \in Keys : buckets[k] # NoBucket /\ Stale(buckets[k])}
  <2>1. UNCHANGED <<now, answer, start, granted>> /\ now \in Nat
    BY <1>2, LimiterAssumption DEF Sweep, TypeOK
  <2>2. ASSUME NEW k \in K PROVE now - last[k] > MaxIdle
    <3>1. last[k] = buckets[k].lastTick /\ buckets[k].lastTick \in Nat
      BY LimiterAssumption DEF Asked, TypeOK, BucketType
    <3> QED BY <2>1, <3>1, LimiterAssumption DEF Stale
  <2>3. \A k \in Keys : buckets'[k] = IF k \in K THEN NoBucket ELSE buckets[k]
    BY <1>2 DEF Sweep
  <2>4. lev' = [k \in Keys |-> IF k \in K THEN Cap ELSE lev[k]]
    BY <2>1, <2>3 DEF Level, Filled, Cap, Burst, FlagBurst
  <2>5. last' = [k \in Keys |-> IF k \in K THEN 0 ELSE last[k]]
    BY <2>3 DEF Asked
  <2>6. TB!Forget(K)
    BY <2>1, <2>2, <2>4, <2>5 DEF TB!Forget
  <2> HIDE DEF K
  <2>7. K \in SUBSET Keys
    BY DEF K
  <2> QED BY <2>6, <2>7 DEF TB!Next
<1>3. CASE Stop \/ CleanupExit
  <2>1. UNCHANGED <<now, buckets, answer, start, granted>>
    BY <1>3 DEF Stop, CleanupExit
  <2>2. lev' = lev /\ last' = last
    BY <2>1 DEF Level, Filled, Asked
  <2> QED BY <2>1, <2>2 DEF TB!vars
<1>4. CASE Tick
  <2>1. lev' = [k \in Keys |-> TB!Filled(lev[k] + Rate)]
    BY <1>4, TickLevel DEF Filled, TB!Filled
  <2>a. last' = last
    BY <1>4 DEF Tick, Asked
  <2>2. TB!Tick
    BY <1>4, <2>1, <2>a DEF Tick, TB!Tick
  <2> QED BY <2>2 DEF TB!Next
<1>5. CASE OpenWindow
  <2>1. lev' = lev /\ last' = last
    BY <1>5 DEF OpenWindow, limiterVars, Level, Filled, Asked
  <2>2. TB!OpenWindow
    BY <1>5, <2>1 DEF OpenWindow, limiterVars, TB!OpenWindow
  <2> QED BY <2>2 DEF TB!Next
<1>6. CASE UNCHANGED vars
  <2>1. lev' = lev /\ last' = last
    BY <1>6 DEF vars, limiterVars, Level, Filled, Asked
  <2> QED BY <1>6, <2>1 DEF vars, TB!vars
<1> QED BY <1>1, <1>2, <1>3, <1>4, <1>5, <1>6 DEF Next

\* The limiter answers every request as eagerly refilled token buckets would that
\* start again only when their keys were idle for longer than MaxIdle
\* (ratelimit.go, Allow and cleanup).
THEOREM LimiterIsTokenBucket == Spec => ImplementsTokenBucket
<1>1. Spec => []TypeOK
  BY LimiterTypeCorrect
<1> QED
  BY <1>1, RefinesInit, RefinesStep, PTL DEF Spec, ImplementsTokenBucket, TB!Spec

-----------------------------------------------------------------------------

\* The burst is at least one token, whatever the flags.
LEMMA CapHoldsAToken == Cap >= Cost
<1>1. Rate \div Cost \in Nat
  BY LimiterAssumption
<1>2. Burst \in Nat \ {0}
  BY <1>1, LimiterAssumption DEF Burst, FlagBurst
<1> QED BY <1>2, LimiterAssumption DEF Cap

LEMMA RefusalHasReason ==
  ASSUME TypeOK, NEW k \in Keys, Allow(k), ~answer'.ok
  PROVE  buckets[k] # NoBucket /\ (now - buckets[k].lastTick) * Rate < Cost
<1>1. answer' = [key |-> k, ok |-> Level(k) >= Cost]
  BY AllowLevel
<1>2. ~(Level(k) >= Cost)
  BY <1>1
<1>3. buckets[k] # NoBucket
  BY <1>2, CapHoldsAToken DEF Level
<1>4. buckets[k] \in BucketType
  BY <1>3 DEF TypeOK
<1>5. now - buckets[k].lastTick \in Nat /\ buckets[k].tokens \in Nat
  BY <1>4, CapType, LimiterAssumption DEF BucketType, TypeOK
<1> DEFINE gain == (now - buckets[k].lastTick) * Rate
<1>6. gain \in Nat
  BY <1>5, GainType
<1>7. Level(k) = Filled(buckets[k].tokens + gain)
  BY <1>3 DEF Level
<1> HIDE DEF gain
<1>8. gain < Cost
  BY <1>2, <1>5, <1>6, <1>7, CapHoldsAToken, CapType, LimiterAssumption DEF Filled
<1> QED BY <1>3, <1>8 DEF gain

\* The limiter refuses a key only within the time in which one token accrues
\* after the key's last request, for every rate and burst, fractional rates
\* included (main.go and ratelimit.go, New, Allow).
THEOREM IdleClientsAreServed == Spec => IdleClientIsServed
<1>1. Spec => []TypeOK
  BY LimiterTypeCorrect
<1>2. TypeOK /\ [Next]_vars =>
        [\A k \in Keys : (Allow(k) /\ ~answer'.ok) =>
           /\ FlagBurst > 0 => buckets[k] # NoBucket
           /\ buckets[k] # NoBucket => (now - buckets[k].lastTick) * Rate < Cost]_vars
  BY RefusalHasReason
<1> QED BY <1>1, <1>2, PTL DEF Spec, IdleClientIsServed

-----------------------------------------------------------------------------

\* While the goroutine lives, the ticker's last tick lies at most a period back.
TickerInv == cleaning => (nextFire - Period <= now /\ now < nextFire)

SweptInv == TypeOK /\ TickerInv /\ OnlyRecentBuckets

LEMMA TickerStep == TypeOK /\ TickerInv /\ [Next]_vars => TickerInv'
<1> SUFFICES ASSUME TypeOK, TickerInv, [Next]_vars, cleaning'
             PROVE  nextFire' - Period <= now' /\ now' < nextFire'
  BY DEF TickerInv
<1> USE LimiterAssumption
<1>1. now \in Nat /\ nextFire \in Nat /\ Period \in Nat \ {0}
  BY DEF TypeOK
<1>2. ASSUME cleaning, UNCHANGED <<now, nextFire>>
      PROVE  nextFire' - Period <= now' /\ now' < nextFire'
  BY <1>2 DEF TickerInv
<1>3. ASSUME NEW r \in Requests, Request(r)
      PROVE  cleaning /\ UNCHANGED <<now, nextFire>>
  BY <1>3 DEF Request, Allow
<1>4. CASE Sweep \/ Stop \/ CleanupExit \/ OpenWindow \/ UNCHANGED vars
  <2>1. cleaning /\ UNCHANGED <<now, nextFire>>
    BY <1>4 DEF Sweep, Stop, CleanupExit, OpenWindow, vars, limiterVars
  <2> QED BY <1>2, <2>1
<1>5. CASE Tick
  <2>1. cleaning /\ now' = now + 1
    BY <1>5 DEF Tick
  <2>2. nextFire - Period <= now /\ now < nextFire
    BY <2>1 DEF TickerInv
  <2>3. CASE now + 1 = nextFire
    <3>1. nextFire' = nextFire + Period
      BY <1>5, <2>1, <2>3 DEF Tick
    <3> QED BY <1>1, <2>1, <2>3, <3>1
  <2>4. CASE now + 1 # nextFire
    <3>1. nextFire' = nextFire
      BY <1>5, <2>1, <2>4 DEF Tick
    <3> QED BY <1>1, <2>1, <2>2, <2>4, <3>1
  <2> QED BY <2>3, <2>4
<1> QED BY <1>2, <1>3, <1>4, <1>5 DEF Next

LEMMA SweptStep == SweptInv /\ [Next]_vars => OnlyRecentBuckets'
<1> SUFFICES ASSUME SweptInv, [Next]_vars, cleaning', ~fired',
                    NEW k \in Keys, buckets'[k] # NoBucket
             PROVE  buckets'[k].lastTick >= nextFire' - Period - MaxIdle
  BY DEF OnlyRecentBuckets
<1> USE LimiterAssumption DEF SweptInv
<1>1. /\ now \in Nat /\ nextFire \in Nat
      /\ buckets[k] # NoBucket => buckets[k].lastTick \in Nat
  BY DEF TypeOK, BucketType
<1>2. ASSUME cleaning, ~fired, buckets'[k] = buckets[k], nextFire' = nextFire
      PROVE  buckets'[k].lastTick >= nextFire' - Period - MaxIdle
  BY <1>2 DEF OnlyRecentBuckets
<1>3. ASSUME NEW r \in Requests, Request(r)
      PROVE  buckets'[k].lastTick >= nextFire' - Period - MaxIdle
  <2> DEFINE j == rateLimitKey(r)
  <2>1. j \in Keys /\ Allow(j)
    BY <1>3 DEF Request, Keys
  <2>2. cleaning /\ ~fired /\ nextFire' = nextFire
    BY <2>1 DEF Allow
  <2>3. CASE j = k
    <3>1. TypeOK
      OBVIOUS
    <3>2. buckets'[k] = [tokens |-> IF Level(k) >= Cost THEN Level(k) - Cost ELSE Level(k),
                         lastTick |-> now]
      BY <2>1, <2>3, <3>1, AllowLevel
    <3>3. buckets'[k].lastTick = now
      BY <3>2
    <3>4. nextFire - Period <= now
      BY <2>2 DEF TickerInv
    <3> QED BY <1>1, <2>2, <3>3, <3>4
  <2>4. CASE j # k
    <3>1. buckets'[k] = buckets[k]
      BY <2>1, <2>4, AllowLevel
    <3> QED BY <1>2, <2>2, <3>1
  <2> QED BY <2>3, <2>4
<1>4. CASE Sweep
  <2>1. cleaning /\ nextFire' = nextFire
    BY <1>4 DEF Sweep
  <2>2. buckets'[k] = buckets[k] /\ ~Stale(buckets[k]) /\ buckets[k] # NoBucket
    BY <1>4 DEF Sweep
  <2>3. buckets[k].lastTick >= now - MaxIdle
    BY <1>1, <2>2 DEF Stale
  <2>4. nextFire - Period <= now
    BY <2>1 DEF TickerInv
  <2> QED BY <1>1, <2>1, <2>2, <2>3, <2>4
<1>5. CASE Stop \/ CleanupExit \/ OpenWindow \/ UNCHANGED vars
  <2>1. cleaning /\ ~fired
    BY <1>5 DEF Stop, CleanupExit, OpenWindow, vars, limiterVars, TypeOK
  <2>2. buckets' = buckets /\ nextFire' = nextFire
    BY <1>5 DEF Stop, CleanupExit, OpenWindow, vars, limiterVars
  <2> QED BY <1>2, <2>1, <2>2
<1>6. CASE Tick
  <2>1. cleaning /\ ~fired /\ buckets' = buckets /\ nextFire' = nextFire
    BY <1>6 DEF Tick
  <2> QED BY <1>2, <2>1
<1> QED BY <1>3, <1>4, <1>5, <1>6 DEF Next

\* Whenever cleanup has taken the last tick, the map holds recent clients only,
\* for every idle time and every period: a bucket outlives its last request by
\* MaxIdle and a period at most (ratelimit.go, cleanup).
THEOREM OldBucketsAreForgotten == Spec => []OnlyRecentBuckets
<1>1. Init => SweptInv
  <2> SUFFICES ASSUME Init PROVE SweptInv
    OBVIOUS
  <2>1. TypeOK
    BY LimiterInit DEF IInv
  <2>2. TickerInv
    BY LimiterAssumption DEF Init, TickerInv
  <2>3. OnlyRecentBuckets
    BY DEF Init, OnlyRecentBuckets
  <2> QED BY <2>1, <2>2, <2>3 DEF SweptInv
<1>2. SweptInv /\ [Next]_vars => SweptInv'
  BY TypeStep, TickerStep, SweptStep DEF SweptInv
<1>3. SweptInv => OnlyRecentBuckets
  BY DEF SweptInv
<1> QED BY <1>1, <1>2, <1>3, PTL DEF Spec

=============================================================================
