-------------------------- MODULE RateCountsProofs --------------------------
(***************************************************************************)
(* Proofs about RateCounts for any number of request goroutines and calls. *)
(*                                                                         *)
(* The report is built field by field, and a swap overwrites its field.    *)
(* Nothing is lost only because that field still holds zero: Unswapped is  *)
(* the strengthening that says so.                                         *)
(*                                                                         *)
(* That the totals are what the collector takes them for needs to know     *)
(* what calls under way have counted already: Books.                       *)
(***************************************************************************)
EXTENDS RateCounts, TLAPS, FiniteSetTheorems, SequenceTheorems

\* Fields that this flush has not swapped yet are zero in the report.
Unswapped == \A i \in 1 .. 6 : flush =< i => report[SwapOrder[i]] = 0

IInv == TypeOK /\ Unswapped

-----------------------------------------------------------------------------

\* There are six swaps ...
LEMMA SwapCount == Len(SwapOrder) = 6
  BY DEF SwapOrder

\* ... of six different fields.
LEMMA SwapOrderFacts ==
    /\ \A i \in 1 .. 6 : SwapOrder[i] \in Fields
    /\ \A i, j \in 1 .. 6 : SwapOrder[i] = SwapOrder[j] => i = j
  BY DEF SwapOrder, Fields

\* Whether a call counts in a field.
Adds(c, f) ==
    CASE f = "requested" -> TRUE
      [] f = "sampled"   -> c.kind # "continued"
      [] f = "limited"   -> c.ends = "limited"
      [] f = "traced"    -> c.ends = "traced"
      [] f = "through"   -> c.kind = "continued" /\ c.ends = "traced"
      [] f = "ttraced"   -> c.kind = "trigger" /\ c.ends = "traced"

\* The fields in a list of increments, and that none is in it twice.
Elems(s) == {s[i] : i \in DOMAIN s}
NoRepeat(s) == \A i, j \in DOMAIN s : s[i] = s[j] => i = j

\* Short lists.
LEMMA ShortLists ==
    /\ Elems(<<>>) = {} /\ NoRepeat(<<>>)
    /\ \A a : Elems(<<a>>) = {a} /\ NoRepeat(<<a>>)
    /\ \A a, b : Elems(<<a, b>>) = {a, b} /\ (a # b => NoRepeat(<<a, b>>))
  <1>1. Elems(<<>>) = {} /\ NoRepeat(<<>>)
    BY DEF Elems, NoRepeat
  <1>2. \A a : Elems(<<a>>) = {a} /\ NoRepeat(<<a>>)
    <2> TAKE a
    <2> DEFINE s == <<a>>
    <2>1. DOMAIN s = {1} /\ s[1] = a
      OBVIOUS
    <2> HIDE DEF s
    <2> QED
      BY <2>1 DEF Elems, NoRepeat, s
  <1>3. \A a, b : Elems(<<a, b>>) = {a, b} /\ (a # b => NoRepeat(<<a, b>>))
    <2> TAKE a, b
    <2> DEFINE s == <<a, b>>
    <2>1. DOMAIN s = {1, 2} /\ s[1] = a /\ s[2] = b
      OBVIOUS
    <2> HIDE DEF s
    <2>2. Elems(s) = {a, b} /\ (a # b => NoRepeat(s))
      BY <2>1 DEF Elems, NoRepeat
    <2> QED
      BY <2>2 DEF s
  <1> QED
    BY <1>1, <1>2, <1>3

\* Lists one after the other.
LEMMA Joined ==
    ASSUME NEW s \in Seq(Fields), NEW t \in Seq(Fields),
           NoRepeat(s), NoRepeat(t), Elems(s) \cap Elems(t) = {}
    PROVE  Elems(s \o t) = Elems(s) \cup Elems(t) /\ NoRepeat(s \o t)
  <1> DEFINE w == s \o t
             m == Len(s)
             n == Len(t)
  <1>1. /\ w \in Seq(Fields) /\ Len(w) = m + n
        /\ \A i \in 1..(m + n) : w[i] = IF i =< m THEN s[i] ELSE t[i - m]
    BY ConcatProperties
  <1>2. m \in Nat /\ n \in Nat /\ DOMAIN s = 1..m /\ DOMAIN t = 1..n /\ DOMAIN w = 1..(m + n)
    BY <1>1
  <1> HIDE DEF w, m, n
  <1>3. \A i \in DOMAIN w : \/ i \in DOMAIN s /\ w[i] = s[i]
                            \/ i - m \in DOMAIN t /\ w[i] = t[i - m] /\ i \in Int
    BY <1>1, <1>2
  <1>4. \A i \in DOMAIN s : i \in DOMAIN w /\ w[i] = s[i]
    BY <1>1, <1>2
  <1>5. \A i \in DOMAIN t : i + m \in DOMAIN w /\ w[i + m] = t[i]
    <2> TAKE i \in DOMAIN t
    <2>1. i + m \in 1..(m + n) /\ ~ (i + m =< m) /\ (i + m) - m = i
      BY <1>2
    <2> QED
      BY <1>1, <1>2, <2>1
  <1>6. Elems(w) = Elems(s) \cup Elems(t)
    BY <1>3, <1>4, <1>5 DEF Elems
  <1>7. ASSUME NEW i \in DOMAIN w, NEW j \in DOMAIN w, w[i] = w[j] PROVE i = j
    <2>1. CASE i \in DOMAIN s /\ w[i] = s[i]
      <3>1. CASE j \in DOMAIN s /\ w[j] = s[j]
        BY <1>7, <2>1, <3>1 DEF NoRepeat
      <3>2. CASE j - m \in DOMAIN t /\ w[j] = t[j - m]
        BY <1>7, <2>1, <3>2 DEF Elems
      <3> QED
        BY <1>3, <3>1, <3>2
    <2>2. CASE i - m \in DOMAIN t /\ w[i] = t[i - m] /\ i \in Int
      <3>1. CASE j \in DOMAIN s /\ w[j] = s[j]
        BY <1>7, <2>2, <3>1 DEF Elems
      <3>2. CASE j - m \in DOMAIN t /\ w[j] = t[j - m] /\ j \in Int
        <4>1. i - m = j - m
          BY <1>7, <2>2, <3>2 DEF NoRepeat
        <4> QED
          BY <1>2, <2>2, <3>2, <4>1
      <3> QED
        BY <1>3, <3>1, <3>2
    <2> QED
      BY <1>3, <2>1, <2>2
  <1> QED
    BY <1>6, <1>7 DEF NoRepeat, w

\* The first increment of a list is taken.
LEMMA Taken ==
    ASSUME NEW s \in Seq(Fields), s # <<>>, NoRepeat(s)
    PROVE  /\ Elems(Tail(s)) = Elems(s) \ {Head(s)} /\ NoRepeat(Tail(s))
           /\ Head(s) \in Elems(s) /\ Head(s) \in Fields /\ Tail(s) \in Seq(Fields)
  <1> DEFINE t == Tail(s)
             n == Len(s)
  <1>1. /\ n \in Nat \ {0} /\ DOMAIN s = 1..n /\ Head(s) = s[1] /\ s[1] \in Fields
        /\ t \in Seq(Fields) /\ Len(t) = n - 1 /\ \A i \in 1..Len(t) : t[i] = s[i + 1]
    BY HeadTailProperties, EmptySeq
  <1>2. DOMAIN t = 1..(n - 1)
    BY <1>1
  <1> HIDE DEF t, n
  <1>3. 1 \in DOMAIN s /\ \A i \in DOMAIN t : i \in Int /\ i + 1 \in DOMAIN s /\ i + 1 # 1 /\ t[i] = s[i + 1]
    BY <1>1, <1>2
  <1>4. NoRepeat(t)
    <2>1. ASSUME NEW i \in DOMAIN t, NEW j \in DOMAIN t, t[i] = t[j] PROVE i = j
      <3>1. i + 1 = j + 1
        BY <1>3, <2>1 DEF NoRepeat
      <3> QED
        BY <1>3, <3>1
    <2> QED
      BY <2>1 DEF NoRepeat
  <1>5. \A i \in DOMAIN s : i # 1 => i - 1 \in DOMAIN t /\ t[i - 1] = s[i]
    <2> SUFFICES ASSUME NEW i \in DOMAIN s, i # 1 PROVE i - 1 \in DOMAIN t /\ t[i - 1] = s[i]
      OBVIOUS
    <2>1. i - 1 \in 1..(n - 1) /\ (i - 1) + 1 = i
      BY <1>1
    <2> QED
      BY <1>2, <1>3, <2>1
  <1>6. Elems(t) = Elems(s) \ {s[1]}
    BY <1>3, <1>5 DEF Elems, NoRepeat
  <1> QED
    BY <1>1, <1>3, <1>4, <1>6 DEF t, Elems

\* A call increments the fields it adds to, each once.
LEMMA IncrementsAre ==
    ASSUME NEW c \in Calls
    PROVE  /\ Increments(c) \in Seq(Fields) /\ NoRepeat(Increments(c))
           /\ Elems(Increments(c)) = {f \in Fields : Adds(c, f)}
  <1> DEFINE first == IF c.kind = "continued" THEN <<"requested">> ELSE <<"requested", "sampled">>
             then  == CASE c.ends = "unsampled" -> << >>
                        [] c.ends = "limited"   -> <<"limited">>
                        [] c.ends = "traced"    ->
                             (CASE c.kind = "continued" -> <<"through", "traced">>
                                [] c.kind = "trigger"   -> <<"ttraced", "traced">>
                                [] c.kind = "new"       -> <<"traced">>)
             A == {f \in {"requested", "sampled"} : Adds(c, f)}
             B == {f \in {"limited", "traced", "through", "ttraced"} : Adds(c, f)}
  <1>0. /\ << >> \in Seq(Fields)
        /\ \A a \in Fields : <<a>> \in Seq(Fields)
        /\ \A a, b \in Fields : <<a, b>> \in Seq(Fields)
    OBVIOUS
  <1>1. /\ c.kind \in {"new", "trigger", "continued"} /\ c.ends \in {"unsampled", "limited", "traced"}
        /\ ~ (c.kind = "continued" /\ c.ends = "limited")
    BY DEF Calls
  <1>2. first \in Seq(Fields) /\ NoRepeat(first) /\ Elems(first) = A
    <2>1. CASE c.kind = "continued"
      <3>1. first = <<"requested">> /\ A = {"requested"}
        BY <2>1 DEF Adds
      <3> HIDE DEF first, A
      <3> QED
        BY <1>0, <3>1, ShortLists DEF Fields
    <2>2. CASE c.kind # "continued"
      <3>1. first = <<"requested", "sampled">> /\ A = {"requested", "sampled"}
        BY <2>2 DEF Adds
      <3> HIDE DEF first, A
      <3> QED
        BY <1>0, <3>1, ShortLists DEF Fields
    <2> QED
      BY <2>1, <2>2
  <1>3. then \in Seq(Fields) /\ NoRepeat(then) /\ Elems(then) = B
    <2>1. CASE c.ends = "unsampled"
      <3>1. then = <<>> /\ B = {}
        BY <2>1 DEF Adds
      <3> HIDE DEF then, B
      <3> QED
        BY <1>0, <3>1, ShortLists
    <2>2. CASE c.ends = "limited"
      <3>1. then = <<"limited">> /\ B = {"limited"}
        BY <2>2 DEF Adds
      <3> HIDE DEF then, B
      <3> QED
        BY <1>0, <3>1, ShortLists DEF Fields
    <2>3. CASE c.ends = "traced" /\ c.kind = "new"
      <3>1. then = <<"traced">> /\ B = {"traced"}
        BY <2>3 DEF Adds
      <3> HIDE DEF then, B
      <3> QED
        BY <1>0, <3>1, ShortLists DEF Fields
    <2>4. CASE c.ends = "traced" /\ c.kind = "trigger"
      <3>1. then = <<"ttraced", "traced">> /\ B = {"ttraced", "traced"}
        BY <2>4 DEF Adds
      <3> HIDE DEF then, B
      <3> QED
        BY <1>0, <3>1, ShortLists DEF Fields
    <2>5. CASE c.ends = "traced" /\ c.kind = "continued"
      <3>1. then = <<"through", "traced">> /\ B = {"through", "traced"}
        BY <2>5 DEF Adds
      <3> HIDE DEF then, B
      <3> QED
        BY <1>0, <3>1, ShortLists DEF Fields
    <2> QED
      BY <1>1, <2>1, <2>2, <2>3, <2>4, <2>5
  <1>4. A \cap B = {} /\ A \cup B = {f \in Fields : Adds(c, f)}
    BY DEF Fields
  <1>5. Increments(c) = first \o then
    BY DEF Increments
  <1> HIDE DEF first, then, A, B
  <1>6. first \o then \in Seq(Fields)
    BY <1>2, <1>3, ConcatProperties
  <1> QED
    BY <1>2, <1>3, <1>4, <1>5, <1>6, Joined

\* The counters start at zero and no flush is under way.
LEMMA InitIInv == Init => IInv
<1> SUFFICES ASSUME Init PROVE IInv
  OBVIOUS
<1>1. Zero \in [Fields -> Nat]
  BY DEF Zero
<1>2. TypeOK
  <2>1. todo \in [Requests -> [call : Calls \cup {NoCall}, left : Seq(Fields)]]
    <3>1. << >> \in Seq(Fields)
      OBVIOUS
    <3>2. [call |-> NoCall, left |-> << >>] \in [call : Calls \cup {NoCall}, left : Seq(Fields)]
      BY <3>1
    <3> QED BY <3>2 DEF Init
  <2>2. calls = 0 /\ flush = 0 /\ hasSettings = FALSE
    BY DEF Init
  <2>3. calls \in 0 .. MaxCalls /\ flush \in 0 .. Len(SwapOrder) + 1
    BY <2>2, MaxCallsAssumption, SwapCount
  <2>4. hasSettings \in BOOLEAN
    BY <2>2
  <2> QED BY <1>1, <2>1, <2>3, <2>4 DEF Init, TypeOK
<1>3. Unswapped
  BY SwapOrderFacts DEF Init, Unswapped, Zero
<1> QED BY <1>2, <1>3 DEF IInv

\* A flush moves what was counted and changes no total.
LEMMA FlushKeeps ==
    ASSUME IInv, Swap \/ Observe
    PROVE  \A f \in Fields : Total(f)' = Total(f)
<1> USE DEF IInv
<1> TAKE f \in Fields
<1>1. counts[f] \in Nat /\ report[f] \in Nat /\ reported[f] \in Nat
  BY DEF TypeOK
<1>2. CASE Swap
  <2> DEFINE g == SwapOrder[flush]
  <2>1. flush \in 1 .. 6 /\ g \in Fields
    BY <1>2, SwapCount, SwapOrderFacts DEF Swap
  <2>2. /\ report' = [report EXCEPT ![g] = counts[g]]
        /\ counts' = [counts EXCEPT ![g] = 0]
        /\ reported' = reported
    BY <1>2 DEF Swap
  <2>3. report[g] = 0
    BY <2>1 DEF Unswapped
  <2>4. CASE f = g
    <3>1. counts'[f] = 0 /\ report'[f] = counts[f] /\ report[f] = 0
      BY <2>2, <2>3, <2>4 DEF TypeOK
    <3> QED BY <1>1, <2>2, <3>1 DEF Total
  <2>5. CASE f # g
    <3>1. counts'[f] = counts[f] /\ report'[f] = report[f]
      BY <2>2, <2>5 DEF TypeOK
    <3> QED BY <2>2, <3>1 DEF Total
  <2> QED BY <2>4, <2>5
<1>3. CASE Observe
  <2>1. reported' = [e \in Fields |-> reported[e] + report[e]] /\ report' = Zero /\ counts' = counts
    BY <1>3 DEF Observe
  <2> QED BY <1>1, <2>1 DEF Total, Zero
<1> QED BY <1>2, <1>3

\* What each step does to the totals, and that it keeps the invariant.
LEMMA StepFacts ==
    ASSUME IInv, [Next]_vars
    PROVE  IInv' /\ \A f \in Fields : Total(f)' \in {Total(f), Total(f) + 1}
<1> USE DEF IInv
<1>1. ASSUME NEW r \in Requests, NEW c \in Calls, StartCall(r, c)
      PROVE  IInv' /\ \A f \in Fields : Total(f)' = Total(f)
  <2>1. Increments(c) \in Seq(Fields)
    BY IncrementsAre
  <2>2. todo' \in [Requests -> [call : Calls \cup {NoCall}, left : Seq(Fields)]]
    BY <1>1, <2>1 DEF StartCall, TypeOK
  <2>3. calls' \in 0 .. MaxCalls
    BY <1>1, MaxCallsAssumption DEF StartCall, TypeOK
  <2> QED BY <1>1, <2>2, <2>3 DEF StartCall, TypeOK, Unswapped, Total
<1>2. ASSUME NEW r \in Requests, Increment(r)
      PROVE  IInv' /\ \A f \in Fields : Total(f)' \in {Total(f), Total(f) + 1}
  <2> DEFINE left == todo[r].left
             h == Head(left)
  <2>1. left \in Seq(Fields) /\ left # << >>
    BY <1>2 DEF Increment, TypeOK
  <2>2. h \in Fields /\ Tail(left) \in Seq(Fields)
    BY <2>1
  <2>3. counts' = [counts EXCEPT ![h] = counts[h] + 1]
    BY <1>2 DEF Increment
  <2>4. counts' \in [Fields -> Nat]
    BY <2>2, <2>3 DEF TypeOK
  <2>5. todo' = [todo EXCEPT ![r].left = Tail(left)]
    BY <1>2 DEF Increment
  <2>6. todo' \in [Requests -> [call : Calls \cup {NoCall}, left : Seq(Fields)]]
    BY <2>2, <2>5 DEF TypeOK
  <2>7. TypeOK' /\ Unswapped'
    BY <1>2, <2>4, <2>6 DEF Increment, TypeOK, Unswapped
  <2>8. ASSUME NEW f \in Fields PROVE Total(f)' \in {Total(f), Total(f) + 1}
    <3>1. counts'[f] = counts[f] + 1 \/ counts'[f] = counts[f]
      BY <2>2, <2>3 DEF TypeOK
    <3>2. report' = report /\ reported' = reported
      BY <1>2 DEF Increment
    <3>3. counts[f] \in Nat /\ report[f] \in Nat /\ reported[f] \in Nat
      BY DEF TypeOK
    <3> QED BY <3>1, <3>2, <3>3 DEF Total
  <2> QED BY <2>7, <2>8
<1>3. ASSUME NEW r \in Requests, EndCall(r)
      PROVE  IInv' /\ \A f \in Fields : Total(f)' = Total(f)
  <2>1. todo' \in [Requests -> [call : Calls \cup {NoCall}, left : Seq(Fields)]]
    BY <1>3 DEF EndCall, TypeOK
  <2>2. todo[r].call \in Calls
    BY <1>3 DEF EndCall, InCall, TypeOK
  <2>3. outcomes' \in [Calls -> Nat]
    BY <1>3, <2>2 DEF EndCall, TypeOK
  <2> QED BY <1>3, <2>1, <2>3 DEF EndCall, TypeOK, Unswapped, Total
<1>4. CASE StartFlush
  <2>1. flush' = 1 /\ flush = 0
    BY <1>4 DEF StartFlush
  <2>2. Unswapped'
    BY <1>4, <2>1 DEF StartFlush, Unswapped
  <2>3. TypeOK'
    BY <1>4, <2>1, SwapCount DEF StartFlush, TypeOK
  <2> QED BY <1>4, <2>2, <2>3 DEF StartFlush, Total
<1>5. CASE Swap
  <2> DEFINE g == SwapOrder[flush]
  <2>1. flush \in 1 .. 6 /\ g \in Fields /\ flush' = flush + 1
    BY <1>5, SwapCount, SwapOrderFacts DEF Swap
  <2>2. /\ report' = [report EXCEPT ![g] = counts[g]]
        /\ counts' = [counts EXCEPT ![g] = 0]
        /\ reported' = reported
    BY <1>5 DEF Swap
  <2>4. TypeOK'
    BY <1>5, <2>1, <2>2, SwapCount DEF Swap, TypeOK
  <2>5. ASSUME NEW i \in 1 .. 6, flush' =< i PROVE report'[SwapOrder[i]] = 0
    <3>1. flush < i /\ flush =< i /\ flush # i
      BY <2>1, <2>5
    <3>2. SwapOrder[i] # g /\ SwapOrder[i] \in Fields
      BY <3>1, <2>1, SwapOrderFacts
    <3>3. report[SwapOrder[i]] = 0
      BY <3>1 DEF Unswapped
    <3> QED BY <2>2, <3>2, <3>3 DEF TypeOK
  <2>6. \A f \in Fields : Total(f)' = Total(f)
    BY <1>5, FlushKeeps
  <2>7. Unswapped'
    BY <2>5 DEF Unswapped
  <2> QED BY <2>4, <2>6, <2>7
<1>6. CASE Observe
  <2>1. /\ reported' = [f \in Fields |-> reported[f] + report[f]]
        /\ report' = Zero /\ counts' = counts /\ flush' = 0
    BY <1>6 DEF Observe
  <2>2. TypeOK'
    BY <1>6, <2>1, SwapCount DEF Observe, TypeOK, Zero
  <2>3. Unswapped'
    BY <2>1, SwapOrderFacts DEF Unswapped, Zero
  <2>4. \A f \in Fields : Total(f)' = Total(f)
    BY <1>6, FlushKeeps
  <2> QED BY <2>2, <2>3, <2>4
<1>7. CASE SettingsChange
  BY <1>7 DEF SettingsChange, TypeOK, Unswapped, Total
<1>8. CASE UNCHANGED vars
  BY <1>8 DEF vars, TypeOK, Unswapped, Total
<1> QED BY <1>1, <1>2, <1>3, <1>4, <1>5, <1>6, <1>7, <1>8 DEF Next, RequestStep

\* IInv holds throughout.
LEMMA AlwaysIInv == Spec => []IInv
<1>1. IInv /\ [Next]_vars => IInv'
  BY StepFacts
<1> QED BY <1>1, InitIInv, PTL DEF Spec

\* Flushing neither loses nor repeats a count, for any number of goroutines and
\* any interleaving of increments with the six swaps.
THEOREM CountsConserved == Spec => NothingLost
<1>1. IInv /\ [Next]_vars => [\A f \in Fields : Total(f)' \in {Total(f), Total(f) + 1}]_vars
  BY StepFacts
<1> QED BY <1>1, AlwaysIInv, PTL DEF Spec, NothingLost

-----------------------------------------------------------------------------

\* The goroutines whose call has counted in a field and has not ended.
Counted(f) == {r \in Requests : InCall(r) /\ Adds(todo[r].call, f) /\ f \notin Elems(todo[r].left)}

\* What a call has left to do is some of what it does, each once.
Pending ==
    \A r \in Requests : /\ NoRepeat(todo[r].left)
                        /\ Elems(todo[r].left) \subseteq {f \in Fields : InCall(r) /\ Adds(todo[r].call, f)}

\* A total is what completed calls have added to it and what calls under way have.
Books ==
    \A f \in Fields : IsFiniteSet(Counted(f)) /\ Total(f) = Due(f) + Cardinality(Counted(f))

\* What is due is a number.
LEMMA DueIs ==
    ASSUME outcomes \in [Calls -> Nat], NEW f \in Fields
    PROVE  Due(f) \in Nat
<1>1. \A k \in {"new", "trigger", "continued"}, e \in {"unsampled", "limited", "traced"} :
        ~ (k = "continued" /\ e = "limited") => Completed(k, e) \in Nat
  BY DEF Completed, Calls
<1>2. Asked("unsampled") \in Nat /\ Asked("limited") \in Nat /\ Asked("traced") \in Nat
  BY <1>1 DEF Asked
<1>3. /\ Completed("continued", "unsampled") \in Nat /\ Completed("continued", "traced") \in Nat
      /\ Completed("trigger", "traced") \in Nat
  BY <1>1
<1> QED BY <1>2, <1>3 DEF Due, Fields

\* A completed call is due in the fields it adds to.
LEMMA DueStep ==
    ASSUME outcomes \in [Calls -> Nat], NEW c \in Calls, outcomes' = [outcomes EXCEPT ![c] = @ + 1],
           NEW f \in Fields
    PROVE  Due(f) \in Nat /\ Due(f)' = Due(f) + IF Adds(c, f) THEN 1 ELSE 0
<1> DEFINE call(k, e) == [kind |-> k, ends |-> e]
<1>1. /\ c = call(c.kind, c.ends)
      /\ c.kind \in {"new", "trigger", "continued"} /\ c.ends \in {"unsampled", "limited", "traced"}
  BY DEF Calls
<1>2. \A k \in {"new", "trigger", "continued"}, e \in {"unsampled", "limited", "traced"} :
        ~ (k = "continued" /\ e = "limited") =>
          /\ Completed(k, e) \in Nat
          /\ Completed(k, e)' = Completed(k, e) + IF c.kind = k /\ c.ends = e THEN 1 ELSE 0
  <2> TAKE k \in {"new", "trigger", "continued"}, e \in {"unsampled", "limited", "traced"}
  <2> HAVE ~ (k = "continued" /\ e = "limited")
  <2>1. call(k, e) \in Calls
    BY DEF Calls
  <2>2. c = call(k, e) <=> c.kind = k /\ c.ends = e
    BY <1>1
  <2> QED BY <2>1, <2>2 DEF Completed
<1> DEFINE One(b) == IF b THEN 1 ELSE 0
<1>3. \A e \in {"unsampled", "limited", "traced"} :
        /\ Asked(e) \in Nat
        /\ Asked(e)' = Asked(e) + One(c.kind # "continued" /\ c.ends = e)
  <2> TAKE e \in {"unsampled", "limited", "traced"}
  <2>1. /\ Completed("new", e) \in Nat /\ Completed("trigger", e) \in Nat
        /\ Completed("new", e)' = Completed("new", e) + One(c.kind = "new" /\ c.ends = e)
        /\ Completed("trigger", e)' = Completed("trigger", e) + One(c.kind = "trigger" /\ c.ends = e)
    BY <1>2
  <2> QED BY <1>1, <2>1 DEF Asked
<1>4. \A e \in {"unsampled", "traced"} :
        /\ Completed("continued", e) \in Nat
        /\ Completed("continued", e)' = Completed("continued", e) + One(c.kind = "continued" /\ c.ends = e)
  BY <1>2
<1>5. /\ Completed("trigger", "traced") \in Nat
      /\ Completed("trigger", "traced")' = Completed("trigger", "traced") + One(c.kind = "trigger" /\ c.ends = "traced")
  BY <1>2
<1>6. ~ (c.kind = "continued" /\ c.ends = "limited")
  BY <1>1 DEF Calls
<1>7. CASE f = "requested"
  <2>1. /\ Due(f) = Asked("unsampled") + Asked("limited") + Asked("traced")
                      + Completed("continued", "unsampled") + Completed("continued", "traced")
        /\ Due(f)' = Asked("unsampled")' + Asked("limited")' + Asked("traced")'
                      + Completed("continued", "unsampled")' + Completed("continued", "traced")'
        /\ Adds(c, f)
    BY <1>7 DEF Due, Adds
  <2> QED BY <1>1, <1>3, <1>4, <1>6, <2>1
<1>8. CASE f = "sampled"
  <2>1. /\ Due(f) = Asked("unsampled") + Asked("limited") + Asked("traced")
        /\ Due(f)' = Asked("unsampled")' + Asked("limited")' + Asked("traced")'
        /\ Adds(c, f) <=> c.kind # "continued"
    BY <1>8 DEF Due, Adds
  <2> QED BY <1>1, <1>3, <2>1
<1>9. CASE f = "limited"
  <2>1. Due(f) = Asked("limited") /\ Due(f)' = Asked("limited")' /\ (Adds(c, f) <=> c.ends = "limited")
    BY <1>9 DEF Due, Adds
  <2> QED BY <1>3, <1>6, <2>1
<1>10. CASE f = "traced"
  <2>1. /\ Due(f) = Asked("traced") + Completed("continued", "traced")
        /\ Due(f)' = Asked("traced")' + Completed("continued", "traced")'
        /\ Adds(c, f) <=> c.ends = "traced"
    BY <1>10 DEF Due, Adds
  <2> QED BY <1>3, <1>4, <2>1
<1>11. CASE f = "through"
  <2>1. /\ Due(f) = Completed("continued", "traced") /\ Due(f)' = Completed("continued", "traced")'
        /\ Adds(c, f) <=> c.kind = "continued" /\ c.ends = "traced"
    BY <1>11 DEF Due, Adds
  <2> QED BY <1>4, <2>1
<1>12. CASE f = "ttraced"
  <2>1. /\ Due(f) = Completed("trigger", "traced") /\ Due(f)' = Completed("trigger", "traced")'
        /\ Adds(c, f) <=> c.kind = "trigger" /\ c.ends = "traced"
    BY <1>12 DEF Due, Adds
  <2> QED BY <1>5, <2>1
<1> QED
  BY <1>7, <1>8, <1>9, <1>10, <1>11, <1>12 DEF Fields

\* Nothing is due before the first call.
LEMMA NothingDue ==
    ASSUME outcomes = [c \in Calls |-> 0], NEW f \in Fields
    PROVE  Due(f) = 0
<1>1. \A k \in {"new", "trigger", "continued"}, e \in {"unsampled", "limited", "traced"} :
        ~ (k = "continued" /\ e = "limited") => Completed(k, e) = 0
  BY DEF Completed, Calls
<1>2. Asked("unsampled") = 0 /\ Asked("limited") = 0 /\ Asked("traced") = 0
  BY <1>1 DEF Asked
<1>3. /\ Completed("continued", "unsampled") = 0 /\ Completed("continued", "traced") = 0
      /\ Completed("trigger", "traced") = 0
  BY <1>1
<1> QED BY <1>2, <1>3 DEF Due, Fields

\* The books are right initially ...
LEMMA BooksInit == Init => Pending /\ Books
<1> SUFFICES ASSUME Init PROVE Pending /\ Books
  OBVIOUS
<1>1. \A r \in Requests : ~ InCall(r) /\ todo[r].left = << >>
  BY DEF Init, InCall
<1>2. Pending
  BY <1>1, ShortLists DEF Pending
<1>3. ASSUME NEW f \in Fields PROVE IsFiniteSet(Counted(f)) /\ Total(f) = Due(f) + Cardinality(Counted(f))
  <2>1. Counted(f) = {}
    BY <1>1 DEF Counted
  <2>2. Total(f) = 0 /\ Due(f) = 0
    BY NothingDue DEF Init, Total, Zero
  <2> QED BY <2>1, <2>2, FS_EmptySet
<1> QED BY <1>2, <1>3 DEF Books

\* ... when a call starts, ...
LEMMA BooksStart ==
    ASSUME IInv, Pending, Books, NEW r \in Requests, NEW c \in Calls, StartCall(r, c)
    PROVE  Pending' /\ Books'
<1>1. /\ NoRepeat(Increments(c)) /\ Elems(Increments(c)) = {f \in Fields : Adds(c, f)}
  BY IncrementsAre
<1>2. /\ ~ InCall(r) /\ c # NoCall
      /\ \A q \in Requests : todo'[q] = IF q = r THEN [call |-> c, left |-> Increments(c)] ELSE todo[q]
      /\ UNCHANGED <<counts, report, reported, outcomes>>
  BY DEF StartCall, IInv, TypeOK, Calls, NoCall
<1>3. Pending'
  BY <1>1, <1>2 DEF Pending, InCall
<1>4. ASSUME NEW f \in Fields PROVE Counted(f)' = Counted(f)
  BY <1>1, <1>2 DEF Counted, InCall
<1>5. ASSUME NEW f \in Fields PROVE Total(f)' = Total(f) /\ Due(f)' = Due(f)
  BY <1>2 DEF Total, Due, Asked, Completed
<1> QED BY <1>3, <1>4, <1>5 DEF Books

\* ... counts, ...
LEMMA BooksIncrement ==
    ASSUME IInv, Pending, Books, NEW r \in Requests, Increment(r)
    PROVE  Pending' /\ Books'
<1> DEFINE left == todo[r].left
           h == Head(left)
<1>1. left \in Seq(Fields) /\ left # << >> /\ NoRepeat(left)
  BY DEF Increment, IInv, TypeOK, Pending
<1>2. /\ Elems(Tail(left)) = Elems(left) \ {h} /\ NoRepeat(Tail(left))
      /\ h \in Elems(left) /\ h \in Fields
  BY <1>1, Taken
<1>3. InCall(r) /\ Adds(todo[r].call, h)
  BY <1>2 DEF Pending
<1>4. /\ \A q \in Requests : /\ todo'[q].call = todo[q].call
                             /\ todo'[q].left = IF q = r THEN Tail(left) ELSE todo[q].left
      /\ counts' = [counts EXCEPT ![h] = @ + 1]
      /\ UNCHANGED <<report, reported, outcomes>>
  BY DEF Increment, IInv, TypeOK
<1> HIDE DEF h, left
<1>5. Pending'
  BY <1>2, <1>4 DEF Pending, InCall, left
<1>6. ASSUME NEW f \in Fields
      PROVE  IsFiniteSet(Counted(f)') /\ Total(f)' = Due(f)' + Cardinality(Counted(f)')
  <2>1. /\ IsFiniteSet(Counted(f)) /\ Total(f) = Due(f) + Cardinality(Counted(f)) /\ Due(f)' = Due(f)
    BY <1>4 DEF Books, Due, Asked, Completed
  <2>2. CASE f = h
    <3>1. Counted(f)' = Counted(f) \cup {r} /\ r \notin Counted(f)
      BY <1>2, <1>3, <1>4, <2>2 DEF Counted, InCall, left
    <3>2. Total(f)' = Total(f) + 1
      BY <1>4, <2>2 DEF Total, IInv, TypeOK
    <3>3. IsFiniteSet(Counted(f)') /\ Cardinality(Counted(f)') = Cardinality(Counted(f)) + 1
      BY <2>1, <3>1, FS_AddElement
    <3>4. Cardinality(Counted(f)) \in Nat /\ Due(f) \in Nat
      BY <2>1, FS_CardinalityType, DueIs DEF IInv, TypeOK
    <3> QED BY <2>1, <3>2, <3>3, <3>4
  <2>3. CASE f # h
    <3>1. Counted(f)' = Counted(f)
      BY <1>2, <1>4, <2>3 DEF Counted, InCall, left
    <3>2. Total(f)' = Total(f)
      BY <1>4, <2>3 DEF Total, IInv, TypeOK
    <3> QED BY <2>1, <3>1, <3>2
  <2> QED BY <2>2, <2>3
<1> QED BY <1>5, <1>6 DEF Books

\* ... or ends.
LEMMA BooksEnd ==
    ASSUME IInv, Pending, Books, NEW r \in Requests, EndCall(r)
    PROVE  Pending' /\ Books'
<1> DEFINE c == todo[r].call
<1>1. c \in Calls /\ InCall(r) /\ todo[r].left = << >>
  BY DEF EndCall, InCall, IInv, TypeOK
<1>2. /\ \A q \in Requests : /\ todo'[q].left = todo[q].left
                             /\ todo'[q].call = IF q = r THEN NoCall ELSE todo[q].call
      /\ outcomes' = [outcomes EXCEPT ![c] = @ + 1] /\ outcomes \in [Calls -> Nat]
      /\ UNCHANGED <<counts, report, reported>>
  BY DEF EndCall, IInv, TypeOK
<1>3. Elems(<<>>) = {} /\ NoRepeat(<<>>)
  BY ShortLists
<1>4. Pending'
  BY <1>1, <1>2, <1>3 DEF Pending, InCall
<1>5. ASSUME NEW f \in Fields
      PROVE  IsFiniteSet(Counted(f)') /\ Total(f)' = Due(f)' + Cardinality(Counted(f)')
  <2>1. IsFiniteSet(Counted(f)) /\ Total(f) = Due(f) + Cardinality(Counted(f)) /\ Total(f)' = Total(f)
    BY <1>2 DEF Books, Total
  <2>2. Counted(f)' = Counted(f) \ {r} /\ (r \in Counted(f) <=> Adds(c, f))
    BY <1>1, <1>2, <1>3 DEF Counted, InCall
  <2>3. Due(f) \in Nat /\ Due(f)' = Due(f) + IF Adds(c, f) THEN 1 ELSE 0
    BY <1>1, <1>2, DueStep
  <2>4. /\ IsFiniteSet(Counted(f)')
        /\ Cardinality(Counted(f)') = IF Adds(c, f) THEN Cardinality(Counted(f)) - 1 ELSE Cardinality(Counted(f))
    BY <2>1, <2>2, FS_RemoveElement
  <2>5. Cardinality(Counted(f)) \in Nat
    BY <2>1, FS_CardinalityType
  <2> QED BY <2>1, <2>3, <2>4, <2>5
<1> QED BY <1>4, <1>5 DEF Books

\* Every step keeps the books.
LEMMA BooksStep == IInv /\ Pending /\ Books /\ [Next]_vars => Pending' /\ Books'
<1> SUFFICES ASSUME IInv, Pending, Books, [Next]_vars PROVE Pending' /\ Books'
  OBVIOUS
<1>1. ASSUME NEW r \in Requests, NEW c \in Calls, StartCall(r, c) PROVE Pending' /\ Books'
  BY <1>1, BooksStart
<1>2. ASSUME NEW r \in Requests, Increment(r) PROVE Pending' /\ Books'
  BY <1>2, BooksIncrement
<1>3. ASSUME NEW r \in Requests, EndCall(r) PROVE Pending' /\ Books'
  BY <1>3, BooksEnd
<1>4. CASE StartFlush \/ Swap \/ Observe \/ SettingsChange \/ UNCHANGED vars
  <2>1. UNCHANGED <<todo, outcomes>>
    BY <1>4 DEF StartFlush, Swap, Observe, SettingsChange, vars
  <2>2. ASSUME NEW f \in Fields PROVE Total(f)' = Total(f)
    <3>1. CASE Swap \/ Observe
      BY <3>1, FlushKeeps
    <3>2. CASE StartFlush \/ SettingsChange \/ UNCHANGED vars
      BY <3>2 DEF StartFlush, SettingsChange, vars, Total
    <3> QED BY <1>4, <3>1, <3>2
  <2>3. Pending'
    BY <2>1 DEF Pending, InCall
  <2>4. ASSUME NEW f \in Fields PROVE Counted(f)' = Counted(f) /\ Due(f)' = Due(f)
    BY <2>1 DEF Counted, InCall, Due, Asked, Completed
  <2> QED BY <2>2, <2>3, <2>4 DEF Books
<1> QED BY <1>1, <1>2, <1>3, <1>4 DEF Next, RequestStep

\* tokenBucket.count and FlushRateCounts: whenever no call is under way the six
\* totals agree with the calls there have been, for any number of goroutines, calls
\* and flushes and any interleaving of increments with swaps.
THEOREM LedgerHolds == Spec => []Ledger
<1>1. IInv /\ Books => Ledger
  <2> SUFFICES ASSUME IInv, Books, \A r \in Requests : ~ InCall(r), NEW f \in Fields
               PROVE  Total(f) = Due(f)
    BY DEF Ledger
  <2>1. Counted(f) = {}
    BY DEF Counted
  <2>2. Total(f) = Due(f) + 0
    BY <2>1, FS_EmptySet DEF Books
  <2> QED BY <2>2, DueIs DEF IInv, TypeOK
<1> QED BY <1>1, AlwaysIInv, BooksInit, BooksStep, PTL DEF Spec

=============================================================================
