---------------------------- MODULE TokenBucket ----------------------------
(***************************************************************************)
(* One token bucket under the calls of any number of request goroutines.   *)
(* settings.bucket and the two trigger-trace buckets are created by        *)
(* UpdateSetting (newOboeSettings and setRateCap) and from then on only    *)
(* consume touches them, so a behaviour starts with a bucket that has its  *)
(* rate and capacity and goes on with consume steps and the clock.         *)
(*                                                                         *)
(* The variable window is an observer.  It opens at any time, any number   *)
(* of times, and records what was granted and refused since: a property of *)
(* window is a property of every interval of every behaviour.              *)
(***************************************************************************)
EXTENDS Bucket

CONSTANTS
    Rates,         \* rates the collector may send, in sub-units per tick
    Capacities,    \* capacities the collector may send, in sub-units
    StartTime,     \* the clock when the bucket is created
    MaxTime        \* bound on the clock

ASSUME RatesAssumption == Rates \subseteq Nat /\ Capacities \subseteq Nat
ASSUME StartTimeAssumption == StartTime \in Nat \ {0}
\* The process ends before its own uptime overflows a time.Duration.
ASSUME MaxTimeAssumption ==
    MaxTime \in Nat /\ StartTime =< MaxTime /\ MaxTime - StartTime =< MaxDuration

VARIABLES
    bucket,    \* the tokenBucket
    now,       \* time.Now()
    window     \* observer: [start, granted, refused]

vars == <<bucket, now, window>>

FreshWindow(t) == [start |-> t, granted |-> 0, refused |-> FALSE]

Init ==
    /\ now = StartTime
    /\ \E r \in Rates, c \in Capacities : bucket = setRateCap(NewBucket, r, c)
    /\ window = FreshWindow(now)

Grant ==
    /\ CanConsume(bucket, now)
    /\ bucket' = consume(bucket, now)
    /\ window' = [window EXCEPT !.granted = @ + 1]
    /\ UNCHANGED now

Refuse ==
    /\ ~ CanConsume(bucket, now)
    /\ bucket' = consume(bucket, now)
    /\ window' = [window EXCEPT !.refused = TRUE]
    /\ UNCHANGED now

Tick ==
    /\ now < MaxTime
    /\ now' = now + 1
    /\ UNCHANGED <<bucket, window>>

\* The observer starts a new interval.
OpenWindow ==
    /\ window' = FreshWindow(now)
    /\ UNCHANGED <<bucket, now>>

Next == Grant \/ Refuse \/ Tick \/ OpenWindow

Spec == Init /\ [][Next]_vars

-----------------------------------------------------------------------------

\* Every variable keeps the type of the code's fields.
TypeOK ==
    /\ bucket \in Buckets
    /\ now \in StartTime .. MaxTime
    /\ window \in [start : Nat, granted : Nat, refused : BOOLEAN]

\* Rate limiting proper: over every interval, whatever the order of requests,
\* the bucket grants at most its capacity plus what its rate produces in that
\* interval.  In particular the very large refill of the first consume (the
\* zero last) is cut to one capacity, and no elapsed time is credited twice.
WindowBound ==
    window.granted * Token =<
        bucket.capacity + bucket.ratePerSec * (now - window.start)

\* update leaves last alone when the bucket is full.  That would credit the full
\* time again after the next consume; it is harmless because a bucket that can
\* grant at all is never seen full: it starts empty and the consume that fills
\* it takes a token at once.
FullNeverGrants ==
    bucket.available >= bucket.capacity => bucket.capacity < Token

\* No starvation by polling: fractions of a token earned between two refusals
\* are kept, so a bucket that can hold a token refuses throughout an interval
\* only as long as that interval has not yet produced one token.
NoStarvation ==
    (/\ bucket.capacity >= Token
     /\ window.granted = 0
     /\ window.refused)
        => bucket.ratePerSec * (bucket.last - window.start) < Token
=============================================================================
