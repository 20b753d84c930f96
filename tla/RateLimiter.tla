---------------------------- MODULE RateLimiter ----------------------------
(***************************************************************************)
(* internal/ratelimit and rateLimitMiddleware of cmd/server/main.go: a     *)
(* token bucket per client key that is refilled lazily, when the key's     *)
(* next request arrives, and a cleanup goroutine that forgets the buckets  *)
(* of idle keys, driven by a ticker and stopped through stopCh.            *)
(*                                                                         *)
(* Tokens are counted in units, Cost of them to a token, so that a rate    *)
(* need not be whole: Rate units per tick of the clock is Rate / Cost      *)
(* requests.  The code's float64 arithmetic is taken as exact.             *)
(*                                                                         *)
(* answer, start and granted observe the limiter and steer nothing.        *)
(***************************************************************************)
EXTENDS Integers

CONSTANTS
  Requests,      \* [apiKey, xff, remoteAddr]; the headers may be None
  None,          \* a header that is not set
  Rate,          \* --rate-limit, in units per tick
  Cost,          \* units to a token
  BurstFlag,     \* --rate-burst, in tokens
  DefaultBurst,  \* what New puts in the place of a burst of zero, in tokens
  MaxIdle,       \* cleanup forgets a bucket idle for longer than this
  Period,        \* of the cleanup ticker
  NoBucket,      \* "no such key" in the map
  MaxTime        \* bound on the clock

ASSUME LimiterAssumption ==
  /\ Rate \in Nat \ {0} /\ Cost \in Nat \ {0}
  /\ BurstFlag \in Nat /\ DefaultBurst \in Nat \ {0}
  /\ MaxIdle \in Nat \ {0} /\ Period \in Nat \ {0} /\ MaxTime \in Nat
  /\ NoBucket \notin [tokens : Nat, lastTick : Nat]

VARIABLES
  now,       \* the clock
  buckets,   \* Limiter.buckets
  nextFire,  \* when the ticker fires next
  fired,     \* the ticker's channel, which holds one tick at most
  stopped,   \* stopCh is closed
  cleaning,  \* the cleanup goroutine is running
  answer,    \* the latest answer
  start,     \* when the observed window was opened
  granted    \* what each key was granted in it

limiterVars == <<buckets, nextFire, fired, stopped, cleaning>>
vars == <<now, limiterVars, answer, start, granted>>

\* The burst main hands to New: int(rate) * 2 when the flag is not given.
FlagBurst == IF BurstFlag <= 0 THEN 2 * (Rate \div Cost) ELSE BurstFlag

\* New does not take a burst of zero.
Burst == IF FlagBurst <= 0 THEN DefaultBurst ELSE FlagBurst
Cap == Burst * Cost

\* The API key if there is one, else the first forwarded address, else the
\* remote address, which is the client's ip and port.
rateLimitKey(r) ==
  IF r.apiKey # None THEN r.apiKey
  ELSE IF r.xff # None THEN r.xff
  ELSE r.remoteAddr

Keys == {rateLimitKey(r) : r \in Requests}

\* Mutant: the burst does not cap the refill.
MutFilled(n) == n

Filled(n) == IF n > Cap THEN Cap ELSE n

\* Mutant: lastTick is not advanced, so elapsed time is credited again.
MutRefill(b) == [b EXCEPT !.tokens = Filled(@ + (now - b.lastTick) * Rate)]

Refill(b) == [tokens |-> Filled(b.tokens + (now - b.lastTick) * Rate),
              lastTick |-> now]

\* The bucket Allow looks at: created full for a new key, refilled for the
\* time since the key's last request.
BucketOf(k) ==
  Refill(IF buckets[k] = NoBucket THEN [tokens |-> Cap, lastTick |-> now]
                                  ELSE buckets[k])

CanPay(b) == b.tokens >= Cost

\* What is left of bucket b by a grant.
Paid(b) == [b EXCEPT !.tokens = @ - Cost]

\* Mutant: the token is taken before it is known whether there is one.
MutUnpaid(b) == Paid(b)

\* By a refusal.
Unpaid(b) == b

Allow(k) ==
  LET b == BucketOf(k)
      ok == CanPay(b)
  IN /\ buckets' = [buckets EXCEPT ![k] = IF ok THEN Paid(b) ELSE Unpaid(b)]
     /\ granted' = [granted EXCEPT ![k] = IF ok THEN @ + 1 ELSE @]
     /\ answer' = [key |-> k, ok |-> ok]
     /\ UNCHANGED <<now, nextFire, fired, stopped, cleaning, start>>

\* The middleware: the limiter is asked before the proxy sees the request.
Request(r) == Allow(rateLimitKey(r))

\* Mutant: a bucket is forgotten after the ticker's period.
MutStaleEarly(b) == b.lastTick < now - Period

\* Mutant: the cutoff is one tick late.
MutStaleLate(b) == b.lastTick + 1 < now - MaxIdle

\* b.lastTick.Before(cutoff)
Stale(b) == b.lastTick < now - MaxIdle

\* The cleanup goroutine takes a tick from the ticker's channel.
Sweep ==
  /\ cleaning
  /\ fired
  /\ fired' = FALSE
  /\ buckets' = [k \in Keys |->
                   IF buckets[k] # NoBucket /\ Stale(buckets[k]) THEN NoBucket
                                                                 ELSE buckets[k]]
  /\ UNCHANGED <<now, nextFire, stopped, cleaning, answer, start, granted>>

\* main's deferred rl.Stop().
Stop ==
  /\ ~stopped
  /\ stopped' = TRUE
  /\ UNCHANGED <<now, buckets, nextFire, fired, cleaning, answer, start, granted>>

\* The goroutine notices stopCh, even if a tick is waiting, and its deferred
\* ticker.Stop() runs.
CleanupExit ==
  /\ cleaning
  /\ stopped
  /\ cleaning' = FALSE
  /\ UNCHANGED <<now, buckets, nextFire, fired, stopped, answer, start, granted>>

\* Time passes.  The ticker fires into its channel, dropping the tick if the
\* last one is still there.
Tick ==
  /\ now < MaxTime
  /\ now' = now + 1
  /\ IF cleaning /\ now' = nextFire
     THEN fired' = TRUE /\ nextFire' = nextFire + Period
     ELSE UNCHANGED <<fired, nextFire>>
  /\ UNCHANGED <<buckets, stopped, cleaning, answer, start, granted>>

OpenWindow ==
  /\ start' = now
  /\ granted' = [k \in Keys |-> 0]
  /\ UNCHANGED <<now, limiterVars, answer>>

\* New starts the cleanup goroutine.
Init ==
  /\ now = 0
  /\ buckets = [k \in Keys |-> NoBucket]
  /\ nextFire = Period
  /\ fired = FALSE
  /\ stopped = FALSE
  /\ cleaning = TRUE
  /\ answer = [key |-> "none", ok |-> FALSE]
  /\ start = 0
  /\ granted = [k \in Keys |-> 0]

Next ==
  \/ \E r \in Requests : Request(r)
  \/ Sweep \/ Stop \/ CleanupExit
  \/ Tick
  \/ OpenWindow

Spec == Init /\ [][Next]_vars

-----------------------------------------------------------------------------

BucketType == [tokens : 0..Cap, lastTick : 0..now]

TypeOK ==
  /\ now \in 0..MaxTime
  /\ buckets \in [Keys -> BucketType \cup {NoBucket}]
  /\ nextFire \in Nat \ {0}
  /\ fired \in BOOLEAN /\ stopped \in BOOLEAN /\ cleaning \in BOOLEAN
  /\ start \in 0..now
  /\ granted \in [Keys -> Nat]

\* The units key k could spend now: a forgotten bucket counts as full.
Level(k) ==
  IF buckets[k] = NoBucket THEN Cap
  ELSE Filled(buckets[k].tokens + (now - buckets[k].lastTick) * Rate)

\* ratelimit.go:16, "Limiter implements per-key token-bucket rate limiting": no key
\* is granted more, in any window of time, than its burst and what the rate adds in
\* the window.
NominalRateBound ==
  \A k \in Keys : granted[k] * Cost <= Cap + (now - start) * Rate

\* What a key gains in MaxIdle ticks: what the rate adds, or the burst it is given
\* again if it stays away for so long that cleanup forgets it.
IdleGain == IF Rate * MaxIdle >= Cap THEN Rate * MaxIdle ELSE Cap

\* Cleanup mints no more than that: in any window of time a key is granted at most
\* its burst and what accrues at the larger of two rates, the configured one
\* and one burst per MaxIdle, however requests, sweeps that come late and the
\* clock interleave (ratelimit.go, Allow and cleanup).
RateBound ==
  \A k \in Keys :
    granted[k] * Cost * MaxIdle <= Cap * MaxIdle + IdleGain * (now - start)

\* While the cleanup goroutine is alive and has taken the ticker's last tick,
\* no bucket is kept that was idle for longer than MaxIdle when that tick
\* fired: the map holds recent clients only (ratelimit.go, cleanup).
OnlyRecentBuckets ==
  (cleaning /\ ~fired) =>
    \A k \in Keys : buckets[k] # NoBucket =>
      buckets[k].lastTick >= nextFire - Period - MaxIdle

\* The time of the last request that the limiter knows of.
Asked(k) == IF buckets[k] = NoBucket THEN 0 ELSE buckets[k].lastTick

TB == INSTANCE TokenBucket WITH
  level <- [k \in Keys |-> Level(k)], asked <- [k \in Keys |-> Asked(k)]

\* The lazily refilled map of buckets answers every request as a token bucket
\* per key would that is refilled with every tick and that starts again full
\* only after its key was idle for longer than MaxIdle (ratelimit.go, Allow and
\* cleanup).
ImplementsTokenBucket == TB!Spec

\* A refusal has a reason: the key's last request, granted or not, is less than
\* the time ago in which a token accrues.  So a client that keeps below the rate
\* is never refused, whatever cleanup does between its requests, and with a
\* burst of at least one neither is a client that is new or was forgotten (main,
\* New and Allow).
IdleClientIsServed ==
  [][\A k \in Keys : (Allow(k) /\ ~answer'.ok) =>
       /\ FlagBurst > 0 => buckets[k] # NoBucket
       /\ buckets[k] # NoBucket => (now - buckets[k].lastTick) * Rate < Cost]_vars

=============================================================================
