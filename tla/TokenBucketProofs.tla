------------------------- MODULE TokenBucketProofs -------------------------
(***************************************************************************)
(* Proofs about TokenBucket for every token size, every set of rates and   *)
(* capacities and every clock bound.                                       *)
(*                                                                         *)
(* WindowBound is not inductive: it says nothing of what the bucket still  *)
(* holds.  Accounting adds the tokens in hand to those granted, and        *)
(* measures the refill up to last (the time accounted for) instead of now. *)
(***************************************************************************)
EXTENDS TokenBucket, TLAPS

\* The clock only moves forward and the bucket and the window lag behind it.
Times ==
    /\ bucket.last =< now
    /\ window.start \in StartTime .. now
    /\ window.granted > 0 => window.start =< bucket.last
    /\ (window.refused /\ bucket.capacity >= Token) => window.start =< bucket.last

Filling ==
    /\ bucket.available =< bucket.capacity
    /\ bucket.capacity < Token => window.granted = 0

\* Granted and held tokens never exceed capacity plus accounted refill.
Accounting ==
    window.start =< bucket.last =>
        window.granted * Token + bucket.available =<
            bucket.capacity + bucket.ratePerSec * (bucket.last - window.start)

\* While nothing is granted, the refill since the window opened is all there.
Hoarding ==
    /\ (window.refused /\ window.granted = 0) => bucket.available < Token
    /\ (/\ window.granted = 0
        /\ bucket.capacity >= Token
        /\ window.start =< bucket.last)
            => bucket.ratePerSec * (bucket.last - window.start) =< bucket.available

IInv == TypeOK /\ Times /\ Filling /\ FullNeverGrants /\ Accounting /\ Hoarding

-----------------------------------------------------------------------------
\* Arithmetic the solver needs to be told: products of naturals are natural,
\* and a product is monotone in its second factor.

\* A product of naturals is a natural (rate times elapsed time).
LEMMA ProductNat == \A r \in Nat, a \in Nat : r * a \in Nat
  OBVIOUS

\* More elapsed time refills at least as much.
LEMMA ProductMono ==
    ASSUME NEW r \in Nat, NEW a \in Nat, NEW c \in Nat, a =< c
    PROVE  r * a =< r * c
<1>1. PICK d \in Nat : c = a + d
  <2>1. c - a \in Nat /\ c = a + (c - a)
    OBVIOUS
  <2> QED BY <2>1
<1>2. r * c = r * a + r * d
  BY <1>1
<1>3. r * d \in Nat /\ r * a \in Nat
  BY ProductNat
<1> QED BY <1>2, <1>3

\* Refill over adjacent intervals adds up.
LEMMA ProductSum ==
    ASSUME NEW r \in Nat, NEW s \in Nat, NEW l \in Nat, NEW t \in Nat,
           s =< l, l =< t
    PROVE  r * (t - s) = r * (l - s) + r * (t - l)
  OBVIOUS

-----------------------------------------------------------------------------
\* Sub between two clock readings in order is a natural.
LEMMA SubFacts ==
    ASSUME NEW t \in Nat, NEW u \in Nat, u =< t
    PROVE  Sub(t, u) \in Nat
  BY MaxDurationAssumption DEF Sub

\* What update(now) does to a bucket whose last check is not in the future.
LEMMA UpdateFacts ==
    ASSUME NEW b \in Buckets, NEW t \in Nat, b.last =< t, b.available =< b.capacity
    PROVE  /\ update(b, t) \in Buckets
           /\ update(b, t).ratePerSec = b.ratePerSec
           /\ update(b, t).capacity = b.capacity
           /\ update(b, t).available =< b.capacity
           /\ b.available >= b.capacity => update(b, t) = b
           /\ b.available < b.capacity =>
                /\ update(b, t).last = t
                /\ update(b, t).available =< b.available + b.ratePerSec * Sub(t, b.last)
                /\ update(b, t).available < b.capacity =>
                     update(b, t).available = b.available + b.ratePerSec * Sub(t, b.last)
<1> DEFINE delta == Sub(t, b.last)
           gain  == b.ratePerSec * delta
<1>1. delta \in Nat
  BY SubFacts DEF Buckets
<1>2. gain \in Nat
  BY <1>1, ProductNat DEF Buckets
<1>3. CASE b.available >= b.capacity
  BY <1>3 DEF update, Buckets
<1>4. CASE b.available < b.capacity /\ delta =< 0
  <2>1. update(b, t) = [b EXCEPT !.last = t]
    BY <1>4 DEF update
  <2>2. delta = 0
    BY <1>1, <1>4
  <2>3. gain = 0
    BY <2>2 DEF Buckets
  <2> QED BY <1>4, <2>1, <2>3 DEF Buckets
<1>5. CASE b.available < b.capacity /\ delta > 0
  <2> DEFINE a == MinOf(b.capacity, b.available + gain)
  <2>1. update(b, t) = [b EXCEPT !.last = t, !.available = a]
    BY <1>5, <1>1 DEF update
  <2>2. /\ a \in Nat /\ a =< b.capacity /\ a =< b.available + gain
        /\ a < b.capacity => a = b.available + gain
    BY <1>2 DEF MinOf, Buckets
  <2> HIDE DEF a
  <2>3. /\ update(b, t) \in Buckets
        /\ update(b, t).ratePerSec = b.ratePerSec
        /\ update(b, t).capacity = b.capacity
        /\ update(b, t).available = a
        /\ update(b, t).last = t
    BY <2>1, <2>2 DEF Buckets
  <2> HIDE DEF delta
  <2> QED BY <1>5, <2>2, <2>3 DEF delta, Buckets
<1> QED BY <1>1, <1>3, <1>4, <1>5 DEF Buckets

-----------------------------------------------------------------------------
\* A fresh bucket satisfies the invariant.
LEMMA InitIInv == Init => IInv
<1> SUFFICES ASSUME Init PROVE IInv
  OBVIOUS
<1>1. PICK r \in Rates, c \in Capacities : bucket = setRateCap(NewBucket, r, c)
  BY DEF Init
<1>2. r \in Nat /\ c \in Nat
  BY RatesAssumption
<1>3. bucket = [ratePerSec |-> r, capacity |-> c, available |-> 0, last |-> 0]
  <2>1. bucket = [NewBucket EXCEPT !.ratePerSec = r, !.capacity = c, !.available = 0]
    BY <1>1, <1>2 DEF setRateCap, NewBucket, MinOf
  <2> QED BY <2>1 DEF NewBucket, ZeroTime
<1>4. window = [start |-> StartTime, granted |-> 0, refused |-> FALSE] /\ now = StartTime
  BY DEF Init, FreshWindow
<1>5. TypeOK
  BY <1>2, <1>3, <1>4, StartTimeAssumption, MaxTimeAssumption DEF TypeOK, Buckets
<1>6. Times
  BY <1>3, <1>4, StartTimeAssumption, MaxTimeAssumption DEF Times
<1>7. Filling /\ FullNeverGrants
  BY <1>2, <1>3, <1>4, TokenAssumption DEF Filling, FullNeverGrants
<1>8. Accounting /\ Hoarding
  BY <1>3, <1>4, StartTimeAssumption DEF Accounting, Hoarding
<1> QED BY <1>5, <1>6, <1>7, <1>8 DEF IInv

\* What one consume does, granted or refused: the facts both actions share.
LEMMA ConsumeFacts ==
    ASSUME IInv, NEW u, u = update(bucket, now)
    PROVE  /\ now \in Nat /\ bucket \in Buckets /\ u \in Buckets
           /\ u.ratePerSec = bucket.ratePerSec /\ u.capacity = bucket.capacity
           /\ u.available =< u.capacity
           /\ bucket.capacity >= Token => u.last = now
           /\ u.last \in {bucket.last, now}
           /\ window.start =< u.last =>
                window.granted * Token + u.available =<
                    u.capacity + u.ratePerSec * (u.last - window.start)
           /\ (/\ window.granted = 0 /\ bucket.capacity >= Token
               /\ u.available < u.capacity)
                => u.ratePerSec * (u.last - window.start) =< u.available
<1>1. /\ now \in Nat /\ bucket \in Buckets /\ bucket.last =< now
      /\ bucket.available =< bucket.capacity
  BY StartTimeAssumption, MaxTimeAssumption DEF IInv, TypeOK, Times, Filling
<1>2. /\ window.start \in Nat /\ window.granted \in Nat /\ window.start =< now
      /\ now - window.start =< MaxDuration /\ StartTime =< window.start
  BY <1>1, StartTimeAssumption, MaxTimeAssumption, MaxDurationAssumption DEF IInv, TypeOK, Times
<1> DEFINE delta == Sub(now, bucket.last)
           r == bucket.ratePerSec
           s == window.start
           l == bucket.last
<1>3. delta \in Nat /\ r \in Nat /\ l \in Nat /\ r * delta \in Nat
  BY <1>1, SubFacts, ProductNat DEF Buckets
<1>4. /\ u \in Buckets
      /\ u.ratePerSec = r
      /\ u.capacity = bucket.capacity
      /\ u.available =< bucket.capacity
      /\ bucket.available >= bucket.capacity => u = bucket
      /\ bucket.available < bucket.capacity =>
           /\ u.last = now
           /\ u.available =< bucket.available + r * delta
           /\ u.available < bucket.capacity => u.available = bucket.available + r * delta
  BY <1>1, UpdateFacts
<1>5. bucket.capacity >= Token => bucket.available < bucket.capacity
  BY <1>1, TokenAssumption DEF IInv, FullNeverGrants, Buckets
<1>6. window.granted * Token \in Nat
  BY <1>2, TokenAssumption, ProductNat
<1>7. s =< u.last => window.granted * Token + u.available =< u.capacity + r * (u.last - s)
  <2>1. CASE bucket.available >= bucket.capacity
    BY <2>1, <1>4 DEF IInv, Accounting
  <2>2. CASE bucket.available < bucket.capacity /\ l < s
    <3>1. window.granted = 0
      BY <2>2, <1>2, <1>3 DEF IInv, Times
    <3>2. r * (now - s) \in Nat
      BY <1>1, <1>2, <1>3, ProductNat
    <3>3. window.granted * Token = 0
      BY <3>1, TokenAssumption
    <3> QED BY <3>2, <3>3, <2>2, <1>4, <1>1 DEF Buckets
  <2>3. CASE bucket.available < bucket.capacity /\ s =< l
    <3>1. window.granted * Token + bucket.available =< bucket.capacity + r * (l - s)
      BY <2>3 DEF IInv, Accounting
    <3>2. delta =< now - l /\ now - l \in Nat
      BY <1>1, <1>3, MaxDurationAssumption DEF Sub
    <3>3. r * delta =< r * (now - l)
      BY <3>2, <1>3, ProductMono
    <3>4. r * (now - s) = r * (l - s) + r * (now - l)
      BY <1>1, <1>2, <1>3, <2>3, ProductSum
    <3>5. r * (l - s) \in Nat /\ r * (now - l) \in Nat /\ r * (now - s) \in Nat
      BY <1>1, <1>2, <1>3, <2>3, <3>2, ProductNat
    <3>6. u.last = now /\ u.available =< bucket.available + r * delta
      BY <2>3, <1>4
    <3>7. /\ u.available \in Nat /\ bucket.available \in Nat /\ bucket.capacity \in Nat
          /\ u.capacity = bucket.capacity
      BY <1>1, <1>4 DEF Buckets
    <3> HIDE DEF delta, r, s, l
    <3> QED BY <3>1, <3>3, <3>4, <3>5, <3>6, <3>7, <1>3, <1>6
  <2> QED BY <2>1, <2>2, <2>3, <1>1, <1>2, <1>3 DEF Buckets
<1>8. ASSUME window.granted = 0, bucket.capacity >= Token, u.available < u.capacity
      PROVE  r * (u.last - s) =< u.available
  <2>1. u.last = now /\ u.available = bucket.available + r * delta
    BY <1>4, <1>5, <1>8
  <2>2. CASE l < s
    <3>1. now - s =< delta /\ now - s \in Nat
      BY <2>2, <1>1, <1>2, <1>3, MaxDurationAssumption DEF Sub
    <3>2. r * (now - s) =< r * delta
      BY <3>1, <1>3, ProductMono
    <3>3. r * (now - s) \in Nat /\ bucket.available \in Nat
      BY <3>1, <1>3, <1>1, ProductNat DEF Buckets
    <3> HIDE DEF delta, r, s, l
    <3> QED BY <3>2, <3>3, <2>1, <1>3
  <2>3. CASE s =< l
    <3>1. r * (l - s) =< bucket.available
      BY <2>3, <1>8 DEF IInv, Hoarding
    <3>2. now - l =< MaxDuration
      BY <2>3, <1>1, <1>2, <1>3, MaxDurationAssumption
    <3>3. delta = now - l
      BY <3>2, <1>1, <1>3, MaxDurationAssumption DEF Sub
    <3>4. r * (now - s) = r * (l - s) + r * (now - l)
      BY <1>1, <1>2, <1>3, <2>3, ProductSum
    <3>5. r * (l - s) \in Nat /\ r * (now - l) \in Nat /\ bucket.available \in Nat
      BY <1>1, <1>2, <1>3, <2>3, ProductNat DEF Buckets
    <3> HIDE DEF delta, r, s, l
    <3> QED BY <3>1, <3>3, <3>4, <3>5, <2>1
  <2> QED BY <2>2, <2>3, <1>2, <1>3
<1>9. u.last \in {bucket.last, now} /\ (bucket.capacity >= Token => u.last = now)
  BY <1>1, <1>4, <1>5 DEF Buckets
<1> QED BY <1>1, <1>4, <1>7, <1>8, <1>9
-----------------------------------------------------------------------------
\* Every step preserves the invariant; one case for each action.
LEMMA StepIInv == IInv /\ [Next]_vars => IInv'
<1> SUFFICES ASSUME IInv, [Next]_vars PROVE IInv'
  OBVIOUS
<1> USE StartTimeAssumption, MaxTimeAssumption, TokenAssumption
<1> DEFINE u == update(bucket, now)
<1>1. /\ now \in Nat /\ bucket \in Buckets /\ u \in Buckets
      /\ u.ratePerSec = bucket.ratePerSec /\ u.capacity = bucket.capacity
      /\ u.available =< u.capacity
      /\ bucket.capacity >= Token => u.last = now
      /\ u.last \in {bucket.last, now}
      /\ window.start =< u.last =>
           window.granted * Token + u.available =<
               u.capacity + u.ratePerSec * (u.last - window.start)
      /\ (/\ window.granted = 0 /\ bucket.capacity >= Token
          /\ u.available < u.capacity)
           => u.ratePerSec * (u.last - window.start) =< u.available
  BY ConsumeFacts
<1>2. /\ window \in [start : Nat, granted : Nat, refused : BOOLEAN]
      /\ window.start =< now /\ now =< MaxTime /\ StartTime =< window.start
      /\ window.start \in Nat /\ window.granted \in Nat /\ bucket.last =< now
  BY <1>1 DEF IInv, TypeOK, Times
<1> HIDE DEF u
<1>3. CASE Grant
  <2>1. u.available >= Token
    BY <1>3 DEF Grant, CanConsume, u
  <2>2. bucket' = [u EXCEPT !.available = u.available - Token]
    BY <1>3, <2>1 DEF Grant, consume, u
  <2>3. window' = [window EXCEPT !.granted = window.granted + 1] /\ now' = now
    BY <1>3 DEF Grant
  <2>4. bucket.capacity >= Token /\ u.last = now
    BY <1>1, <2>1 DEF Buckets
  <2>5. /\ bucket' \in Buckets /\ bucket'.ratePerSec = u.ratePerSec
        /\ bucket'.capacity = u.capacity /\ bucket'.last = now
        /\ bucket'.available = u.available - Token
    BY <1>1, <2>1, <2>2, <2>4 DEF Buckets
  <2>6. /\ window' \in [start : Nat, granted : Nat, refused : BOOLEAN]
        /\ window'.start = window.start
        /\ window'.granted = window.granted + 1
    BY <1>2, <2>3
  <2>7. TypeOK'
    BY <2>3, <2>5, <2>6 DEF IInv, TypeOK
  <2>8. Times' /\ Filling' /\ FullNeverGrants' /\ Hoarding'
    BY <1>1, <1>2, <2>3, <2>4, <2>5, <2>6 DEF Times, Filling, FullNeverGrants, Hoarding, Buckets
  <2>9. Accounting'
    <3>1. (window.granted + 1) * Token = window.granted * Token + Token
      BY <1>2
    <3>2. window.granted * Token \in Nat /\ u.ratePerSec * (now - window.start) \in Nat
      BY <1>1, <1>2, ProductNat DEF Buckets
    <3> QED BY <1>1, <1>2, <2>3, <2>4, <2>5, <2>6, <3>1, <3>2 DEF Accounting, Buckets
  <2> QED BY <2>7, <2>8, <2>9 DEF IInv
<1>4. CASE Refuse
  <2>1. u.available < Token
    BY <1>4, <1>1 DEF Refuse, CanConsume, u, Buckets
  <2>2. bucket' = u
    BY <1>4, <2>1, <1>1 DEF Refuse, consume, u, Buckets
  <2>3. window' = [window EXCEPT !.refused = TRUE] /\ now' = now
    BY <1>4 DEF Refuse
  <2>4. /\ window' \in [start : Nat, granted : Nat, refused : BOOLEAN]
        /\ window'.start = window.start
        /\ window'.granted = window.granted
    BY <1>2, <2>3
  <2>5. TypeOK'
    BY <1>1, <2>2, <2>3, <2>4 DEF IInv, TypeOK
  <2>6. Times' /\ Filling' /\ FullNeverGrants'
    BY <1>1, <1>2, <2>1, <2>2, <2>3, <2>4 DEF IInv, Times, Filling, FullNeverGrants, Buckets
  <2>7. Accounting' /\ Hoarding'
    BY <1>1, <1>2, <2>1, <2>2, <2>4 DEF Accounting, Hoarding, Buckets
  <2> QED BY <2>5, <2>6, <2>7 DEF IInv
<1>5. CASE Tick
  <2>1. now' = now + 1 /\ now < MaxTime /\ bucket' = bucket /\ window' = window
    BY <1>5 DEF Tick
  <2>2. TypeOK' /\ Times'
    BY <2>1, <1>1, <1>2 DEF IInv, TypeOK, Times, Buckets
  <2>3. Filling' /\ FullNeverGrants' /\ Accounting' /\ Hoarding'
    BY <2>1 DEF IInv, Filling, FullNeverGrants, Accounting, Hoarding
  <2> QED BY <2>2, <2>3 DEF IInv
<1>6. CASE OpenWindow
  <2>1. /\ window' = [start |-> now, granted |-> 0, refused |-> FALSE]
        /\ bucket' = bucket /\ now' = now
    BY <1>6 DEF OpenWindow, FreshWindow
  <2>2. TypeOK' /\ Times' /\ Filling' /\ FullNeverGrants'
    BY <2>1, <1>1, <1>2 DEF IInv, TypeOK, Times, Filling, FullNeverGrants, Buckets
  <2>3. now =< bucket.last => bucket.ratePerSec * (bucket.last - now) = 0
    BY <1>1, <1>2 DEF Buckets
  <2>4. Accounting' /\ Hoarding'
    BY <2>1, <2>3, <1>1 DEF IInv, Filling, Accounting, Hoarding, Buckets
  <2> QED BY <2>2, <2>4 DEF IInv
<1>7. CASE UNCHANGED vars
  BY <1>7 DEF vars, IInv, TypeOK, Times, Filling, FullNeverGrants, Accounting, Hoarding
<1> QED BY <1>3, <1>4, <1>5, <1>6, <1>7 DEF Next

\* IInv is an invariant of the bucket under any interleaving of callers.
LEMMA AlwaysIInv == Spec => []IInv
<1> QED BY InitIInv, StepIInv, PTL DEF Spec

\* Type correctness: counts and times stay natural, so consume never takes a
\* token that is not there.
THEOREM TypeCorrect == Spec => []TypeOK
<1>1. IInv => TypeOK
  BY DEF IInv
<1> QED BY <1>1, AlwaysIInv, PTL

\* Rate limiting over every interval, for every rate, capacity and token size.
THEOREM RateLimited == Spec => []WindowBound
<1>1. IInv => WindowBound
  <2> SUFFICES ASSUME IInv PROVE WindowBound
    OBVIOUS
  <2>1. /\ bucket \in Buckets /\ now \in Nat /\ window.start \in Nat
        /\ window.start =< now /\ bucket.last =< now /\ window.granted \in Nat
    BY StartTimeAssumption, MaxTimeAssumption DEF IInv, TypeOK, Times
  <2>2. bucket.ratePerSec * (now - window.start) \in Nat
    BY <2>1, ProductNat DEF Buckets
  <2>3. CASE window.granted = 0
    BY <2>1, <2>2, <2>3, TokenAssumption DEF WindowBound, Buckets
  <2>4. CASE window.granted > 0
    <3>1. window.start =< bucket.last
      BY <2>4 DEF IInv, Times
    <3>2. window.granted * Token + bucket.available =<
            bucket.capacity + bucket.ratePerSec * (bucket.last - window.start)
      BY <3>1 DEF IInv, Accounting
    <3>3. bucket.ratePerSec * (bucket.last - window.start) =<
            bucket.ratePerSec * (now - window.start)
      BY <2>1, <3>1, ProductMono DEF Buckets
    <3>4. /\ window.granted * Token \in Nat
          /\ bucket.ratePerSec * (bucket.last - window.start) \in Nat
      BY <2>1, <3>1, TokenAssumption, ProductNat DEF Buckets
    <3> QED BY <2>1, <2>2, <3>2, <3>3, <3>4 DEF WindowBound, Buckets
  <2> QED BY <2>1, <2>3, <2>4
<1> QED BY <1>1, AlwaysIInv, PTL

\* A bucket that can grant is never seen full, so the last that update leaves
\* alone in a full bucket is never credited twice.
THEOREM NeverFull == Spec => []FullNeverGrants
<1>1. IInv => FullNeverGrants
  BY DEF IInv
<1> QED BY <1>1, AlwaysIInv, PTL

\* Callers who poll the bucket are served once their wait has produced a token.
THEOREM PollingIsServed == Spec => []NoStarvation
<1>1. IInv => NoStarvation
  <2> SUFFICES ASSUME IInv, bucket.capacity >= Token, window.granted = 0, window.refused
               PROVE  bucket.ratePerSec * (bucket.last - window.start) < Token
    BY DEF NoStarvation
  <2>1. window.start =< bucket.last /\ bucket.available < Token
    BY DEF IInv, Times, Hoarding
  <2>2. bucket.ratePerSec * (bucket.last - window.start) =< bucket.available
    BY <2>1 DEF IInv, Hoarding
  <2>3. /\ bucket.ratePerSec * (bucket.last - window.start) \in Nat
        /\ bucket.available \in Nat
    BY <2>1, ProductNat DEF IInv, TypeOK, Buckets
  <2> QED BY <2>1, <2>2, <2>3, TokenAssumption
<1> QED BY <1>1, AlwaysIInv, PTL
=============================================================================
