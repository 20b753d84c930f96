---------------------------- MODULE TokenBucket ----------------------------
(***************************************************************************)
(* What a per-key token-bucket limiter with a limited memory promises,     *)
(* whatever data structure it keeps: every key owns a bucket that is full  *)
(* at first, gains Rate units with every tick of the clock up to Cap, and  *)
(* pays Cost units for every request it is granted.  A request is refused  *)
(* exactly when its bucket cannot pay.  A key that has not asked for       *)
(* longer than MaxIdle may be forgotten: it starts again with a full       *)
(* bucket.                                                                 *)
(*                                                                         *)
(* start and granted observe the limiter: how many requests each key was   *)
(* granted in a window that opens at an arbitrary moment.                  *)
(***************************************************************************)
EXTENDS Integers

CONSTANTS Keys, Rate, Cost, Cap, MaxIdle, MaxTime

VARIABLES now, level, asked, answer, start, granted

vars == <<now, level, asked, answer, start, granted>>

NoAnswer == [key |-> "none", ok |-> FALSE]

Filled(n) == IF n > Cap THEN Cap ELSE n

Init ==
  /\ now = 0
  /\ level = [k \in Keys |-> Cap]
  /\ asked = [k \in Keys |-> 0]
  /\ answer = NoAnswer
  /\ start = 0
  /\ granted = [k \in Keys |-> 0]

Grant(k) ==
  /\ level[k] >= Cost
  /\ level' = [level EXCEPT ![k] = @ - Cost]
  /\ asked' = [asked EXCEPT ![k] = now]
  /\ granted' = [granted EXCEPT ![k] = @ + 1]
  /\ answer' = [key |-> k, ok |-> TRUE]
  /\ UNCHANGED <<now, start>>

Refuse(k) ==
  /\ level[k] < Cost
  /\ asked' = [asked EXCEPT ![k] = now]
  /\ answer' = [key |-> k, ok |-> FALSE]
  /\ UNCHANGED <<now, level, start, granted>>

\* The keys K are forgotten.
Forget(K) ==
  /\ \A k \in K : now - asked[k] > MaxIdle
  /\ level' = [k \in Keys |-> IF k \in K THEN Cap ELSE level[k]]
  /\ asked' = [k \in Keys |-> IF k \in K THEN 0 ELSE asked[k]]
  /\ UNCHANGED <<now, answer, start, granted>>

Tick ==
  /\ now < MaxTime
  /\ now' = now + 1
  /\ level' = [k \in Keys |-> Filled(level[k] + Rate)]
  /\ UNCHANGED <<asked, answer, start, granted>>

OpenWindow ==
  /\ start' = now
  /\ granted' = [k \in Keys |-> 0]
  /\ UNCHANGED <<now, level, asked, answer>>

Next ==
  \/ \E k \in Keys : Grant(k) \/ Refuse(k)
  \/ \E K \in SUBSET Keys : Forget(K)
  \/ Tick
  \/ OpenWindow

Spec == Init /\ [][Next]_vars

=============================================================================
