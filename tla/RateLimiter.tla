----------------------------- MODULE RateLimiter -----------------------------
(***************************************************************************)
(* The sliding-window limit on credential submissions of one address       *)
(* (core/rate_limit.py's RedisRateLimiter, throttle_credentials): a sorted *)
(* set of hits in Redis, shared by the replicas of the control plane.      *)
(* Each hit reads the clock of its replica, then sends one transaction,    *)
(* which trims the set, adds the hit, counts, and renews the key's expiry. *)
(* A hit too many is taken out again by a command of its own.              *)
(***************************************************************************)
EXTENDS Integers, FiniteSets

CONSTANTS
    Hits,       \* the submissions, each of them once
    Limit,      \* auth_rate_limit_per_ip, 10 in the code
    Window,     \* auth_rate_limit_window_seconds, 300 in the code
    Delay,      \* the client's socket timeout, 2 in the code
    Skew,       \* how far a replica's clock may be off
    MaxClock    \* bound on the time that passes

ASSUME LimiterAssumption ==
    /\ IsFiniteSet(Hits)
    /\ Limit \in Nat \ {0}
    /\ Window \in Nat \ {0}
    /\ Delay \in Nat
    /\ Skew \in Nat
    /\ MaxClock \in Nat

VARIABLES
    clock,      \* the time, in seconds
    hit,        \* each submission
    entries,    \* the sorted set, whose scores are the hits' stamps
    expires     \* when Redis drops the key

limiterVars == <<clock, hit, entries, expires>>

(* sent: the transaction is on its way.  lost: the client gave it up, Redis *)
(* may still execute it.  excess: refused, and its entry to be withdrawn.  *)
HitPhases == {"idle", "sent", "lost", "allowed", "excess", "refused", "failed"}

LimiterInit ==
    /\ clock = 0
    /\ hit = [h \in Hits |-> [at |-> "idle", stamp |-> 0, sent |-> 0, done |-> 0]]
    /\ entries = {}
    /\ expires = 0

(* The replica reads its clock.                                            *)
SubmitCredentials(h) ==
    /\ hit[h].at = "idle"
    /\ \E now \in clock - Skew .. clock + Skew :
            hit' = [hit EXCEPT ![h] = [at |-> "sent", stamp |-> now,
                                       sent |-> clock, done |-> 0]]
    /\ UNCHANGED <<clock, entries, expires>>

(* What h's transaction leaves in the set: zremrangebyscore, then zadd.    *)
InWindow(h) ==
    LET present == IF clock < expires THEN entries ELSE {}
    IN {g \in present : hit[g].stamp + Window > hit[h].stamp} \cup {h}

(* Mutation: zcard comes before zadd.                                      *)
TooManyBefore(h) == Cardinality(InWindow(h) \ {h}) > Limit

(* zcard, after zadd.                                                      *)
TooMany(h) == Cardinality(InWindow(h)) > Limit

Execute(h) ==
    /\ hit[h].at \in {"sent", "lost"}
    /\ entries' = InWindow(h)
    /\ expires' = clock + Window
    /\ hit' = [hit EXCEPT ![h].done = clock,
                          ![h].at = IF hit[h].at = "lost" THEN "failed"
                                    ELSE IF TooMany(h) THEN "excess" ELSE "allowed"]
    /\ UNCHANGED clock

(* A timeout or a lost connection: the submission ends with an error.      *)
GiveUp(h) ==
    /\ hit[h].at = "sent"
    /\ hit' = [hit EXCEPT ![h].at = "lost"]
    /\ UNCHANGED <<clock, entries, expires>>

(* zrem; or it fails, and the entry stays.                                 *)
Withdraw(h) ==
    /\ hit[h].at = "excess"
    /\ \/ entries' = entries \ {h} /\ hit' = [hit EXCEPT ![h].at = "refused"]
       \/ hit' = [hit EXCEPT ![h].at = "failed"] /\ UNCHANGED entries
    /\ UNCHANGED <<clock, expires>>

(* Nobody waits for Redis longer than the timeout.                         *)
Tick ==
    /\ clock < MaxClock
    /\ \A h \in Hits : hit[h].at = "sent" => clock < hit[h].sent + Delay
    /\ clock' = clock + 1
    /\ UNCHANGED <<hit, entries, expires>>

LimiterNext ==
    \/ Tick
    \/ \E h \in Hits : SubmitCredentials(h) \/ Execute(h) \/ GiveUp(h) \/ Withdraw(h)

LimiterSpec == LimiterInit /\ [][LimiterNext]_limiterVars

(***************************************************************************)
(* Properties                                                              *)
(***************************************************************************)
(* The values of the variables.                                            *)
LimiterTypeOK ==
    /\ clock \in Nat
    /\ hit \in [Hits -> [at : HitPhases, stamp : Int, sent : Nat, done : Nat]]
    /\ entries \subseteq Hits
    /\ expires \in Nat

(* No period as long as the window sees more submissions allowed than the  *)
(* limit, though hits are stamped before they are executed, overtake each  *)
(* other, trim the set for each other and take themselves out again; but   *)
(* for the time a hit is on its way and the difference of two clocks.      *)
RecentlyAllowed ==
    {h \in Hits : /\ hit[h].at = "allowed"
                  /\ hit[h].done + Window > clock + Delay + 2 * Skew}

LimitIsKept == Cardinality(RecentlyAllowed) =< Limit
=============================================================================
