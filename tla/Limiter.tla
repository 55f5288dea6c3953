------------------------------ MODULE Limiter ------------------------------
(***************************************************************************)
(* The token buckets of src/api/mod.rs that limit the turns of a room and   *)
(* of the server: operators on a limiter's map of buckets.                  *)
(*                                                                         *)
(* A limiter of n turns a minute refills n tokens in a minute and holds n.  *)
(* Time passes in ticks and a token is Minute units, so that a tick refills *)
(* n units.                                                                 *)
(***************************************************************************)
EXTENDS Integers, FiniteSets, Functions

CONSTANTS
    Minute,     (* ticks of a minute                                        *)
    EvictAt     (* buckets from which idle ones are dropped (1024)          *)

ASSUME LimiterAssumption == {Minute, EvictAt} \subseteq Nat \ {0}

Token == Minute
Full(n) == n * Token

(* The tokens a bucket has by now. *)
Level(b, n, now) ==
    LET t == b.tokens + n * (now - b.last) IN IF t > Full(n) THEN Full(n) ELSE t

(* A slip: a bucket is idle after half the time it may need to fill. *)
IdleSoon == Minute \div 2

(* A bucket is idle when it was not used for twice the time it fills in. *)
Idle == 2 * Minute

(* Limiter::refill: idle buckets make room for a new key, a key without a   *)
(* bucket gets a full one, and the bucket is brought up to now.             *)
Refilled(buckets, n, key, now) ==
    LET left == IF key \notin DOMAIN buckets /\ Cardinality(DOMAIN buckets) >= EvictAt
                THEN Restrict(buckets, {k \in DOMAIN buckets : now - buckets[k].last <= Idle})
                ELSE buckets
        tokens == IF key \in DOMAIN left THEN Level(left[key], n, now) ELSE Full(n)
    IN  [k \in DOMAIN left \cup {key} |->
            IF k = key THEN [tokens |-> tokens, last |-> now] ELSE left[k]]

(* Limiter::allow. *)
Allows(buckets, n, key, now) == Refilled(buckets, n, key, now)[key].tokens >= Token

(* Limiter::charge, which may leave a debt. *)
Charged(buckets, n, key, now, turns) ==
    IF turns = 0 THEN buckets
    ELSE [Refilled(buckets, n, key, now) EXCEPT ![key].tokens = @ - turns * Token]
=============================================================================
