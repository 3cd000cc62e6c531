------------------------------- MODULE Bucket -------------------------------
(***************************************************************************)
(* The token bucket of internal/oboe/token_bucket.go as a value: a record  *)
(* and the operators that compute its next value.  Every method of         *)
(* tokenBucket runs under the bucket's own lock, and reads the clock under *)
(* that lock, so one operator application is one atomic step.              *)
(*                                                                         *)
(* The code keeps float64 tokens and nanosecond times.  Here a token is    *)
(* Token sub-units, rates are sub-units per clock tick, and everything is  *)
(* a natural number, so fractional refills are exact.  Rounding of float64 *)
(* is not modelled.                                                        *)
(***************************************************************************)
EXTENDS Integers

CONSTANTS
    Token,         \* sub-units that make one token (consume(1) in the code)
    MaxDuration    \* the largest time.Duration, about 292 years, in ticks

ASSUME TokenAssumption == Token \in Nat \ {0}
ASSUME MaxDurationAssumption == MaxDuration \in Nat \ {0}

\* The zero time.Time, which a fresh bucket carries in its field last.
ZeroTime == 0

\* math.Min on tokens.
MinOf(a, b) == IF a =< b THEN a ELSE b

Buckets == [ratePerSec : Nat, capacity : Nat, available : Nat, last : Nat]

\* &tokenBucket{}: every field has its zero value.
NewBucket == [ratePerSec |-> 0, capacity |-> 0, available |-> 0, last |-> ZeroTime]

setRateCap(b, rate, cap) ==
    [b EXCEPT !.ratePerSec = rate,
              !.capacity   = cap,
              !.available  = MinOf(b.available, cap)]

\* time.Time.Sub: the difference saturates at the largest Duration.
Sub(t, u) == IF t - u > MaxDuration THEN MaxDuration ELSE t - u

\* Plausible slips in update: the time of the last check is not advanced; only
\* whole tokens are credited and the fraction is dropped.
updateKeepsLast(b, now) ==
    IF b.available < b.capacity /\ Sub(now, b.last) > 0
    THEN [b EXCEPT !.available =
            MinOf(b.capacity, b.available + b.ratePerSec * Sub(now, b.last))]
    ELSE b

updateWholeTokens(b, now) ==
    IF b.available < b.capacity
    THEN [b EXCEPT !.last = now,
            !.available = MinOf(b.capacity, b.available
                + ((b.ratePerSec * Sub(now, b.last)) \div Token) * Token)]
    ELSE b

\* Refill from the time elapsed since the last check.  A full bucket is left
\* alone, its last included.
update(b, now) ==
    IF b.available < b.capacity
    THEN LET delta == Sub(now, b.last)
         IN  IF delta =< 0
             THEN [b EXCEPT !.last = now]
             ELSE [b EXCEPT !.last = now,
                            !.available = MinOf(b.capacity,
                                b.available + b.ratePerSec * delta)]
    ELSE b

\* consume(1), as two operators: does the refilled bucket hold a token, and
\* what is left.
CanConsume(b, now) == update(b, now).available >= Token

consume(b, now) ==
    LET u == update(b, now)
    IN  IF u.available >= Token
        THEN [u EXCEPT !.available = u.available - Token]
        ELSE u
=============================================================================
