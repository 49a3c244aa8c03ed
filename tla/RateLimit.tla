----------------------------- MODULE RateLimit -----------------------------
(***************************************************************************)
(* rate_limit.rs: a token bucket for each connection and kind of message,  *)
(* made full by its first message, refilled by the time since it was last  *)
(* asked, dropped when the connection ends (ws.rs).                        *)
(*                                                                         *)
(* A quota is a Rate per Period: per_second(r) is r per second, and        *)
(* per_minute(r) is r per minute, where a second or a minute is so many    *)
(* ticks of the clock; IMPORT_TOPIC_TREE_QUOTA is 1 in ten seconds.  A     *)
(* token counts for Period units, so that a tick refills Rate of them; the *)
(* code's f64 is that but for its rounding.                                *)
(*                                                                         *)
(* A check locks its bucket's shard of the map and reads the clock under   *)
(* that lock; the first one reads it twice, which a full bucket does not   *)
(* notice.                                                                 *)
(***************************************************************************)
EXTENDS Integers, FiniteSets, Functions

CONSTANTS
    Clients,  \* connection ids: Uuid::new_v4, one for each connection
    Kinds,    \* the limited intents
    Rate,     \* tokens a bucket of each kind holds, and refills in a Period
    Period,   \* ticks
    MaxNow    \* bound of the model on the clock

Keys == Clients \X Kinds

ASSUME RateLimitAssumption ==
    /\ Rate \in [Kinds -> Nat \ {0}]
    /\ Period \in [Kinds -> Nat \ {0}]
    /\ MaxNow \in Nat

VARIABLES
    now,      \* Clock::now_nanos, in ticks
    buckets,  \* RateLimiter.buckets
    ended,    \* connections that are over
    since,    \* history: when a stopwatch was last started
    passed,   \* history: how many checks each key passed since then
    refused   \* history: the keys of the last check, if it was refused

vars == <<now, buckets, ended, since, passed, refused>>

Token(key)    == Period[key[2]]
PerTick(key)  == Rate[key[2]]
Capacity(key) == Rate[key[2]] * Period[key[2]]

Bucket == [tokens : Nat, last : Nat]

TypeOK ==
    /\ now \in 0..MaxNow
    /\ DOMAIN buckets \subseteq Keys
    /\ \A key \in DOMAIN buckets :
          /\ buckets[key] \in Bucket
          /\ buckets[key].tokens <= Capacity(key)
          /\ buckets[key].last <= now
          /\ key[1] \notin ended
    /\ ended \subseteq Clients
    /\ since \in 0..now
    /\ passed \in [Keys -> Nat]
    /\ refused \subseteq Keys

Init ==
    /\ now = 0
    /\ buckets = [key \in {} |-> 0]
    /\ ended = {}
    /\ since = 0
    /\ passed = [key \in Keys |-> 0]
    /\ refused = {}

-----------------------------------------------------------------------------
Smaller(a, b) == IF a <= b THEN a ELSE b

\* Mutant: what is over the capacity is kept.
Unbounded(key, b) == [tokens |-> b.tokens + PerTick(key) * (now - b.last), last |-> now]

\* Mutant: a refill starts from nothing.
FromZero(key, b) == [tokens |-> Smaller(PerTick(key) * (now - b.last), Capacity(key)),
                     last |-> now]

\* Bucket::refill
Refilled(key, b) ==
    [tokens |-> Smaller(b.tokens + PerTick(key) * (now - b.last), Capacity(key)),
     last |-> now]

\* Bucket::new
Full(key) == [tokens |-> Capacity(key), last |-> now]

Asked(key) ==
    Refilled(key, IF key \in DOMAIN buckets THEN buckets[key] ELSE Full(key))

SetBucket(key, b) ==
    [k \in DOMAIN buckets \cup {key} |-> IF k = key THEN b ELSE buckets[k]]

\* RateLimiter::check that returns true: Bucket::try_take takes a token.
Pass(key) ==
    /\ key[1] \notin ended
    /\ Asked(key).tokens >= Token(key)
    /\ buckets' = SetBucket(key, [Asked(key) EXCEPT !.tokens = @ - Token(key)])
    /\ passed' = [passed EXCEPT ![key] = @ + 1]
    /\ refused' = {}
    /\ UNCHANGED <<now, ended, since>>

Refuse(key) ==
    /\ key[1] \notin ended
    /\ Asked(key).tokens < Token(key)
    /\ buckets' = SetBucket(key, Asked(key))
    /\ refused' = {key}
    /\ UNCHANGED <<now, ended, since, passed>>

\* Mutant: the buckets of a connection outlive it.
Kept(c) == buckets

Forgotten(c) == Restrict(buckets, {key \in DOMAIN buckets : key[1] # c})

\* RateLimiter::forget_client, the last a connection's task does
ForgetClient(c) ==
    /\ c \notin ended
    /\ buckets' = Forgotten(c)
    /\ ended' = ended \cup {c}
    /\ refused' = {}
    /\ UNCHANGED <<now, since, passed>>

Tick ==
    /\ now < MaxNow
    /\ now' = now + 1
    /\ refused' = {}
    /\ UNCHANGED <<buckets, ended, since, passed>>

\* Not of the program: the stopwatch of the properties starts at any time.
StartWatch ==
    /\ since' = now
    /\ passed' = [key \in Keys |-> 0]
    /\ refused' = {}
    /\ UNCHANGED <<now, buckets, ended>>

Next ==
    \/ \E key \in Keys : Pass(key) \/ Refuse(key)
    \/ \E c \in Clients : ForgetClient(c)
    \/ Tick
    \/ StartWatch

Spec == Init /\ [][Next]_vars

-----------------------------------------------------------------------------
(***************************************************************************)
(* In no stretch of time does a connection pass more than a full bucket    *)
(* and what is refilled meanwhile, whenever it sends: at most twice its    *)
(* Rate in a Period, and not the Rate that protocol.md's table names.      *)
(***************************************************************************)
PassesBounded ==
    \A key \in Keys :
        passed[key] * Token(key) <= Capacity(key) + PerTick(key) * (now - since)

(***************************************************************************)
(* The limiter refuses nobody who keeps to the quota: who is refused has   *)
(* passed its whole Rate within the Period before.                         *)
(***************************************************************************)
RefusedOnlyWhenSpent ==
    \A key \in refused :
        now - since >= Token(key) => passed[key] >= PerTick(key)
=============================================================================
