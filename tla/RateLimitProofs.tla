-------------------------- MODULE RateLimitProofs --------------------------
(***************************************************************************)
(* Both bounds of the token bucket, for every quota and any number of      *)
(* connections.                                                            *)
(*                                                                         *)
(* Neither bound is inductive: each speaks of passes only, and the next    *)
(* pass depends on what the bucket holds.  Level is what a bucket would    *)
(* hold if it were asked now; a tick raises it by at most PerTick, a pass  *)
(* lowers it by a Token.  So Level plus the tokens passed since the        *)
(* stopwatch started stays at most (Above) what a full bucket and the      *)
(* refill give, and at least (Below) what the refill alone gives, up to a  *)
(* full bucket.                                                            *)
(***************************************************************************)
EXTENDS RateLimit, TLAPS

Level(key) ==
    IF key \in DOMAIN buckets
      THEN Smaller(buckets[key].tokens + PerTick(key) * (now - buckets[key].last),
                   Capacity(key))
      ELSE Capacity(key)

Live(key) == key[1] \notin ended

Above ==
    \A key \in Keys : Live(key) =>
        Level(key) + passed[key] * Token(key) <= Capacity(key) + PerTick(key) * (now - since)

Below ==
    \A key \in Keys : Live(key) =>
        Smaller(PerTick(key) * (now - since), Capacity(key))
            <= Level(key) + passed[key] * Token(key)

RefusedEmpty == \A key \in refused : Live(key) /\ Level(key) < Token(key)

IInv == TypeOK /\ PassesBounded /\ Above /\ Below /\ RefusedEmpty

-----------------------------------------------------------------------------
(***************************************************************************)
(* Arithmetic.                                                             *)
(***************************************************************************)
LEMMA ProductNat ==
    ASSUME NEW a \in Nat, NEW b \in Nat
    PROVE  a * b \in Nat
  OBVIOUS

LEMMA ProductGrows ==
    ASSUME NEW a \in Nat, NEW b \in Nat, NEW c \in Nat, b <= c
    PROVE  a * b <= a * c
<1>1. c - b \in Nat
  OBVIOUS
<1>2. a * (c - b) \in Nat
  BY <1>1, ProductNat
<1>3. a * (c - b) = a * c - a * b
  OBVIOUS
<1> QED
  BY <1>2, <1>3, ProductNat

\* One more tick is one more PerTick.
LEMMA ProductStep ==
    ASSUME NEW a \in Nat, NEW m \in Nat, NEW n \in Nat
    PROVE  a * ((m + 1) - n) = a * (m - n) + a
  OBVIOUS

\* Fewer than a whole token missing: as many passes as tokens.
LEMMA WholeTokens ==
    ASSUME NEW r \in Nat, NEW t \in Nat \ {0}, NEW n \in Nat, NEW l \in Nat,
           l < t, r * t <= l + n * t
    PROVE  n >= r
<1>1. SUFFICES ASSUME n + 1 <= r PROVE FALSE
  OBVIOUS
<1>2. t * (n + 1) <= t * r
  BY <1>1, ProductGrows
<1>3. t * (n + 1) = n * t + t /\ t * r = r * t
  OBVIOUS
<1> QED
  BY <1>2, <1>3, ProductNat

LEMMA Quotas ==
    ASSUME NEW key \in Keys
    PROVE  /\ PerTick(key) \in Nat \ {0}
           /\ Token(key) \in Nat \ {0}
           /\ Capacity(key) \in Nat
           /\ Capacity(key) = PerTick(key) * Token(key)
<1>1. PerTick(key) \in Nat \ {0} /\ Token(key) \in Nat \ {0}
  BY RateLimitAssumption DEF PerTick, Token, Keys
<1>2. Capacity(key) = PerTick(key) * Token(key)
  BY DEF Capacity, PerTick, Token
<1> QED
  BY <1>1, <1>2, ProductNat

LEMMA LevelType ==
    ASSUME TypeOK, NEW key \in Keys
    PROVE  /\ Level(key) \in Nat
           /\ Level(key) <= Capacity(key)
<1>1. CASE key \notin DOMAIN buckets
  BY <1>1, Quotas DEF Level
<1>2. CASE key \in DOMAIN buckets
  <2>1. now \in Nat /\ buckets[key].last \in Nat /\ buckets[key].tokens \in Nat
        /\ buckets[key].last <= now
    BY <1>2 DEF TypeOK, Bucket
  <2>2. now - buckets[key].last \in Nat
    BY <2>1
  <2>3. PerTick(key) * (now - buckets[key].last) \in Nat
    BY <2>2, Quotas, ProductNat
  <2> QED
    BY <1>2, <2>1, <2>3, Quotas DEF Level, Smaller
<1> QED
  BY <1>1, <1>2

\* A check finds the level in the bucket.
LEMMA AskedLevel ==
    ASSUME TypeOK, NEW key \in Keys
    PROVE  Asked(key) = [tokens |-> Level(key), last |-> now]
<1>1. CASE key \in DOMAIN buckets
  BY <1>1 DEF Asked, Refilled, Level
<1>2. CASE key \notin DOMAIN buckets
  <2>1. PerTick(key) * (now - now) = 0
    BY Quotas DEF TypeOK
  <2> QED
    BY <1>2, <2>1, Quotas DEF Asked, Refilled, Level, Full, Smaller
<1> QED
  BY <1>1, <1>2

\* Before the stopwatch has run, nothing is refilled.
LEMMA WatchNat ==
    ASSUME TypeOK, NEW key \in Keys
    PROVE  /\ now \in Nat /\ since \in Nat /\ now - since \in Nat
           /\ PerTick(key) * (now - since) \in Nat
           /\ passed[key] \in Nat
           /\ passed[key] * Token(key) \in Nat
<1>1. now \in Nat /\ since \in Nat /\ now - since \in Nat /\ passed[key] \in Nat
  BY DEF TypeOK
<1> QED
  BY <1>1, Quotas, ProductNat

-----------------------------------------------------------------------------
(***************************************************************************)
(* Each step.                                                              *)
(***************************************************************************)
\* The strong bound gives the stated one while the connection lasts.
LEMMA AboveBounds ==
    ASSUME TypeOK, Above, NEW key \in Keys, Live(key)
    PROVE  passed[key] * Token(key) <= Capacity(key) + PerTick(key) * (now - since)
  BY LevelType, WatchNat, Quotas DEF Above

\* What a check leaves in the bucket is its level afterwards.
LEMMA LevelLeft ==
    ASSUME TypeOK, NEW key \in Keys, NEW n \in Nat, n <= Level(key), now' = now,
           buckets' = SetBucket(key, [Asked(key) EXCEPT !.tokens = n])
    PROVE  /\ Level(key)' = n
           /\ \A k \in Keys \ {key} : Level(k)' = Level(k)
           /\ DOMAIN buckets' = DOMAIN buckets \cup {key}
           /\ buckets'[key] = [tokens |-> n, last |-> now]
           /\ \A k \in DOMAIN buckets \ {key} : buckets'[k] = buckets[k]
<1>1. [Asked(key) EXCEPT !.tokens = n] = [tokens |-> n, last |-> now]
  BY AskedLevel
<1>2. /\ DOMAIN buckets' = DOMAIN buckets \cup {key}
      /\ buckets'[key] = [tokens |-> n, last |-> now]
      /\ \A k \in DOMAIN buckets \ {key} : buckets'[k] = buckets[k]
  BY <1>1 DEF SetBucket
<1>3. \A k \in Keys \ {key} : Level(k)' = Level(k)
  BY <1>2 DEF Level, PerTick, Capacity
<1>4. Level(key)' = n
  <2>1. PerTick(key) * (now - now) = 0
    BY Quotas DEF TypeOK
  <2>2. n <= Capacity(key)
    BY LevelType, Quotas
  <2>3. Level(key)' = Smaller(n + PerTick(key) * (now - now), Capacity(key))
    BY <1>2 DEF Level, PerTick, Capacity
  <2> QED
    BY <2>1, <2>2, <2>3 DEF Smaller
<1> QED
  BY <1>2, <1>3, <1>4

LEMMA PassStep ==
    ASSUME IInv, NEW key \in Keys, Pass(key)
    PROVE  IInv'
<1> USE DEF IInv
<1>1. /\ Live(key) /\ Token(key) <= Level(key) /\ now' = now /\ since' = since
      /\ ended' = ended /\ refused' = {}
      /\ passed' = [passed EXCEPT ![key] = @ + 1]
  BY AskedLevel DEF Pass, Live
<1> DEFINE n == Level(key) - Token(key)
<1>2. n \in Nat /\ n <= Level(key)
  BY <1>1, LevelType, Quotas
<1>3. buckets' = SetBucket(key, [Asked(key) EXCEPT !.tokens = n])
  BY AskedLevel DEF Pass
<1> HIDE DEF n
<1>4. /\ Level(key)' = n
      /\ \A k \in Keys \ {key} : Level(k)' = Level(k)
      /\ DOMAIN buckets' = DOMAIN buckets \cup {key}
      /\ buckets'[key] = [tokens |-> n, last |-> now]
      /\ \A k \in DOMAIN buckets \ {key} : buckets'[k] = buckets[k]
  BY <1>1, <1>2, <1>3, LevelLeft
<1>5. passed'[key] * Token(key) = passed[key] * Token(key) + Token(key)
      /\ \A k \in Keys \ {key} : passed'[k] = passed[k]
  BY <1>1, WatchNat, Quotas DEF TypeOK
<1>6. n + passed'[key] * Token(key) = Level(key) + passed[key] * Token(key)
  BY <1>5, LevelType, WatchNat, Quotas DEF n
<1>7. TypeOK'
  <2>1. passed' \in [Keys -> Nat]
    BY <1>1 DEF TypeOK
  <2>2. n <= Capacity(key)
    BY <1>2, LevelType, Quotas
  <2> QED
    BY <1>1, <1>2, <1>4, <2>1, <2>2 DEF TypeOK, Bucket, Capacity, Live
<1>8. Above'
  BY <1>1, <1>4, <1>5, <1>6 DEF Above, Live, Token, Capacity, PerTick
<1>9. Below'
  BY <1>1, <1>4, <1>5, <1>6 DEF Below, Live, Token, Capacity, PerTick
<1>10. PassesBounded'
  <2>1. ASSUME NEW k \in Keys \ {key}
        PROVE  (passed[k] * Token(k) <= Capacity(k) + PerTick(k) * (now - since))'
    BY <1>1, <1>5 DEF PassesBounded, Token, Capacity, PerTick
  <2>2. (passed[key] * Token(key) <= Capacity(key) + PerTick(key) * (now - since))'
    <3>1. n + passed'[key] * Token(key) <= Capacity(key) + PerTick(key) * (now - since)
      BY <1>1, <1>6 DEF Above
    <3>2. passed'[key] * Token(key) \in Nat
      BY <1>5, WatchNat, Quotas
    <3>3. passed'[key] * Token(key) <= Capacity(key) + PerTick(key) * (now - since)
      BY <1>2, <3>1, <3>2, WatchNat, Quotas
    <3> QED
      BY <1>1, <3>3 DEF Token, Capacity, PerTick
  <2> QED
    BY <2>1, <2>2 DEF PassesBounded
<1>11. RefusedEmpty'
  BY <1>1 DEF RefusedEmpty
<1> QED
  BY <1>7, <1>8, <1>9, <1>10, <1>11

LEMMA RefuseStep ==
    ASSUME IInv, NEW key \in Keys, Refuse(key)
    PROVE  IInv'
<1> USE DEF IInv
<1>1. /\ Live(key) /\ Level(key) < Token(key) /\ now' = now /\ since' = since
      /\ ended' = ended /\ refused' = {key} /\ passed' = passed
  BY AskedLevel DEF Refuse, Live
<1> DEFINE n == Level(key)
<1>2. buckets' = SetBucket(key, [Asked(key) EXCEPT !.tokens = n])
  BY AskedLevel DEF Refuse
<1>3. n \in Nat /\ n <= Capacity(key) /\ n = Level(key) /\ n <= Level(key)
  BY LevelType, Quotas
<1> HIDE DEF n
<1>4. /\ \A k \in Keys : Level(k)' = Level(k)
      /\ DOMAIN buckets' = DOMAIN buckets \cup {key}
      /\ buckets'[key] = [tokens |-> n, last |-> now]
      /\ \A k \in DOMAIN buckets \ {key} : buckets'[k] = buckets[k]
  BY <1>1, <1>2, <1>3, LevelLeft
<1>5. TypeOK'
  BY <1>1, <1>3, <1>4 DEF TypeOK, Bucket, Capacity, Live
<1>6. Above' /\ Below' /\ PassesBounded'
  BY <1>1, <1>4 DEF Above, Below, PassesBounded, Live, Token, Capacity, PerTick
<1>7. RefusedEmpty'
  BY <1>1, <1>4 DEF RefusedEmpty, Live, Token
<1> QED
  BY <1>5, <1>6, <1>7

LEMMA ForgetStep ==
    ASSUME IInv, NEW c \in Clients, ForgetClient(c)
    PROVE  IInv'
<1> USE DEF IInv
<1>1. /\ now' = now /\ since' = since /\ passed' = passed /\ refused' = {}
      /\ ended' = ended \cup {c}
  BY DEF ForgetClient
<1>2. /\ DOMAIN buckets' = {key \in DOMAIN buckets : key[1] # c}
      /\ \A key \in DOMAIN buckets' : buckets'[key] = buckets[key]
  BY DEF ForgetClient, Forgotten, Restrict
<1>3. TypeOK'
  BY <1>1, <1>2 DEF TypeOK, Capacity
<1>4. \A key \in Keys : Live(key)' => Live(key) /\ Level(key)' = Level(key)
  BY <1>1, <1>2 DEF Live, Level, PerTick, Capacity
<1>5. Above' /\ Below' /\ PassesBounded'
  BY <1>1, <1>4 DEF Above, Below, PassesBounded, Token, Capacity, PerTick
<1>6. RefusedEmpty'
  BY <1>1 DEF RefusedEmpty
<1> QED
  BY <1>3, <1>5, <1>6

LEMMA TickStep ==
    ASSUME IInv, Tick
    PROVE  IInv'
<1> USE DEF IInv
<1>1. /\ now' = now + 1 /\ now < MaxNow /\ since' = since /\ passed' = passed
      /\ refused' = {} /\ ended' = ended /\ buckets' = buckets
  BY DEF Tick
<1>2. TypeOK'
  <2>1. now \in Nat /\ now' \in 0..MaxNow /\ since' \in 0..now'
    BY <1>1, RateLimitAssumption DEF TypeOK
  <2>2. \A key \in DOMAIN buckets : buckets[key].last <= now'
    BY <1>1, <2>1 DEF TypeOK, Bucket
  <2> QED
    BY <1>1, <2>1, <2>2 DEF TypeOK, Capacity
<1>3. ASSUME NEW key \in Keys
      PROVE  /\ PerTick(key) * (now' - since) = PerTick(key) * (now - since) + PerTick(key)
             /\ Level(key) <= Level(key)'
             /\ Level(key)' = Smaller(Level(key) + PerTick(key), Capacity(key))
  <2>1. PerTick(key) * (now' - since) = PerTick(key) * (now - since) + PerTick(key)
    BY <1>1, WatchNat, Quotas, ProductStep
  <2>2. Level(key)' = Smaller(Level(key) + PerTick(key), Capacity(key))
    <3>1. CASE key \notin DOMAIN buckets
      BY <1>1, <3>1, Quotas DEF Level, Smaller, PerTick, Capacity
    <3>2. CASE key \in DOMAIN buckets
      <4> DEFINE held == buckets[key].tokens
                 gap  == PerTick(key) * (now - buckets[key].last)
      <4>1. buckets[key].last \in Nat /\ buckets[key].last <= now /\ held \in Nat
        BY <3>2 DEF TypeOK, Bucket
      <4>2. PerTick(key) * (now' - buckets[key].last) = gap + PerTick(key)
        BY <1>1, <4>1, WatchNat, Quotas, ProductStep
      <4>3. gap \in Nat
        <5>1. now - buckets[key].last \in Nat
          BY <4>1, WatchNat
        <5> QED
          BY <5>1, Quotas, ProductNat
      <4>4. Level(key) = Smaller(held + gap, Capacity(key))
        BY <3>2 DEF Level
      <4>5. Level(key)' = Smaller(held + (gap + PerTick(key)), Capacity(key))
        BY <1>1, <3>2, <4>2 DEF Level, PerTick, Capacity
      <4> HIDE DEF held, gap
      <4> QED
        BY <4>1, <4>3, <4>4, <4>5, Quotas DEF Smaller
    <3> QED
      BY <3>1, <3>2
  <2>3. Level(key) <= Level(key)'
    BY <2>2, LevelType, Quotas DEF Smaller
  <2> QED
    BY <2>1, <2>2, <2>3
<1>4. Above'
  <2>1. ASSUME NEW key \in Keys, Live(key)
        PROVE  Level(key)' + passed[key] * Token(key)
                 <= Capacity(key) + PerTick(key) * (now' - since)
    BY <1>3, <2>1, LevelType, WatchNat, Quotas DEF Above, Smaller
  <2> QED
    BY <1>1, <2>1 DEF Above, Live, Token, Capacity, PerTick
<1>5. Below'
  <2>1. ASSUME NEW key \in Keys, Live(key)
        PROVE  Smaller(PerTick(key) * (now' - since), Capacity(key))
                 <= Level(key)' + passed[key] * Token(key)
    BY <1>3, <2>1, LevelType, WatchNat, Quotas DEF Below, Smaller
  <2> QED
    BY <1>1, <2>1 DEF Below, Live, Token, Capacity, PerTick
<1>6. PassesBounded'
  <2>1. ASSUME NEW key \in Keys
        PROVE  passed[key] * Token(key) <= Capacity(key) + PerTick(key) * (now' - since)
    BY <1>3, WatchNat, Quotas DEF PassesBounded
  <2> QED
    BY <1>1, <2>1 DEF PassesBounded, Token, Capacity, PerTick
<1>7. RefusedEmpty'
  BY <1>1 DEF RefusedEmpty
<1> QED
  BY <1>2, <1>4, <1>5, <1>6, <1>7

LEMMA WatchStep ==
    ASSUME IInv, StartWatch
    PROVE  IInv'
<1> USE DEF IInv
<1>1. /\ now' = now /\ since' = now /\ refused' = {} /\ ended' = ended
      /\ buckets' = buckets /\ passed' = [key \in Keys |-> 0]
  BY DEF StartWatch
<1>2. TypeOK'
  BY <1>1 DEF TypeOK, Capacity
<1>3. ASSUME NEW key \in Keys
      PROVE  /\ PerTick(key) * (now - now) = 0
             /\ passed'[key] * Token(key) = 0
             /\ Level(key)' = Level(key)
  BY <1>1, WatchNat, Quotas DEF Level, PerTick, Capacity
<1>4. Above'
  BY <1>1, <1>3, LevelType, Quotas DEF Above, Live, Token, Capacity, PerTick
<1>5. Below'
  BY <1>1, <1>3, LevelType, Quotas DEF Below, Live, Smaller, Token, Capacity, PerTick
<1>6. PassesBounded'
  BY <1>1, <1>3, Quotas DEF PassesBounded, Token, Capacity, PerTick
<1>7. RefusedEmpty'
  BY <1>1 DEF RefusedEmpty
<1> QED
  BY <1>2, <1>4, <1>5, <1>6, <1>7

LEMMA Start == Init => IInv
<1> SUFFICES ASSUME Init PROVE IInv
  OBVIOUS
<1>1. TypeOK
  BY RateLimitAssumption DEF Init, TypeOK
<1>2. ASSUME NEW key \in Keys
      PROVE  PerTick(key) * (now - since) = 0 /\ passed[key] * Token(key) = 0
             /\ Level(key) = Capacity(key)
  BY Quotas DEF Init, Level
<1> QED
  BY <1>1, <1>2, Quotas DEF IInv, PassesBounded, Above, Below, RefusedEmpty, Smaller, Init

(***************************************************************************)
(* IInv is an invariant of the limiter.                                    *)
(***************************************************************************)
THEOREM LimiterInvariant == Spec => []IInv
<1>1. IInv /\ [Next]_vars => IInv'
  <2> SUFFICES ASSUME IInv, [Next]_vars PROVE IInv'
    OBVIOUS
  <2>1. CASE UNCHANGED vars
    <3>1. \A key \in Keys : Level(key)' = Level(key) /\ (Live(key)' <=> Live(key))
      BY <2>1 DEF vars, Level, Live, PerTick, Capacity
    <3>2. TypeOK'
      BY <2>1 DEF IInv, TypeOK, vars, Capacity
    <3>3. Above' /\ Below' /\ PassesBounded'
      BY <2>1, <3>1 DEF IInv, Above, Below, PassesBounded, vars, Token, Capacity, PerTick
    <3>4. RefusedEmpty'
      BY <2>1, <3>1 DEF IInv, TypeOK, RefusedEmpty, vars, Token
    <3> QED
      BY <3>2, <3>3, <3>4 DEF IInv
  <2>2. CASE \E key \in Keys : Pass(key) \/ Refuse(key)
    BY <2>2, PassStep, RefuseStep
  <2>3. CASE \E c \in Clients : ForgetClient(c)
    BY <2>3, ForgetStep
  <2>4. CASE Tick
    BY <2>4, TickStep
  <2>5. CASE StartWatch
    BY <2>5, WatchStep
  <2> QED
    BY <2>1, <2>2, <2>3, <2>4, <2>5 DEF Next
<1> QED
  BY <1>1, Start, PTL DEF Spec

(***************************************************************************)
(* TypeOK, with no bucket over its capacity or left from a connection that *)
(* is over, always holds.                                                  *)
(***************************************************************************)
THEOREM TypeCorrect == Spec => []TypeOK
<1>1. IInv => TypeOK
  BY DEF IInv
<1> QED
  BY <1>1, LimiterInvariant, PTL

(***************************************************************************)
(* Whatever the quotas, no stretch of time lets more through than a full   *)
(* bucket and its refill.                                                  *)
(***************************************************************************)
THEOREM BoundedPasses == Spec => []PassesBounded
<1>1. IInv => PassesBounded
  BY DEF IInv
<1> QED
  BY <1>1, LimiterInvariant, PTL

(***************************************************************************)
(* Whatever the quotas, who is refused has passed its Rate within a Period.*)
(***************************************************************************)
THEOREM FairRefusals == Spec => []RefusedOnlyWhenSpent
<1>1. IInv => RefusedOnlyWhenSpent
  <2> SUFFICES ASSUME IInv, NEW key \in refused, now - since >= Token(key)
               PROVE  passed[key] >= PerTick(key)
    BY DEF RefusedOnlyWhenSpent
  <2>1. key \in Keys /\ Live(key) /\ Level(key) < Token(key) /\ TypeOK
    BY DEF IInv, TypeOK, RefusedEmpty
  <2>2. PerTick(key) * Token(key) <= PerTick(key) * (now - since)
    BY <2>1, ProductGrows, Quotas, WatchNat
  <2>3. PerTick(key) * Token(key) <= Level(key) + passed[key] * Token(key)
    BY <2>1, <2>2, Quotas, WatchNat, LevelType DEF IInv, Below, Smaller
  <2> QED
    BY <2>1, <2>3, WholeTokens, Quotas, WatchNat, LevelType
<1> QED
  BY <1>1, LimiterInvariant, PTL
=============================================================================
