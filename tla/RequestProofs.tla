--------------------------- MODULE RequestProofs ---------------------------
(***************************************************************************)
(* What a request carries: its URL, its options and its trace context.     *)
(*                                                                         *)
(* The cache of the URL filters cannot be observed, for any filters, URLs  *)
(* and number of requests.  Parsing X-Trace-Options reads each option once *)
(* and independently of the others, for headers of any length.  The name   *)
(* made of a request's attributes is bounded, for paths of any length.     *)
(* Over any chain of services a trace keeps the decision taken upstream, a *)
(* response reaches only the client that asked, and other vendors' members *)
(* survive.                                                                *)
(***************************************************************************)
EXTENDS UrlFilters, XTraceOptions, TransactionNames, Propagation,
        TLAPS, FiniteSetTheorems, SequenceTheorems, WellFoundedInduction

-----------------------------------------------------------------------------
(* UrlFilters.                                                             *)

Modes == {"TraceDisabled", "TraceEnabled", "TraceUnknown"}

\* A tracing mode survives the way through the cache.
LEMMA RoundTrip == \A m \in Modes : NewTracingMode(ModeToString(m)) = m /\ ModeToString(m) # Nil
  BY NilAssumption DEF Modes, NewTracingMode, ModeToString

\* A text always becomes a mode.
LEMMA ModeOfText == \A s : NewTracingMode(s) \in Modes
  BY DEF Modes, NewTracingMode

\* The order of the positions in a list is well-founded.
Before == {p \in Nat \X Nat : p[1] < p[2]}

\* It is, for the library's order of the naturals is.
LEMMA BeforeIsWellFounded == IsWellFoundedOn(Before, Nat)
  BY NatLessThanWellFounded DEF OpToRel, Before

\* Some filter is the first to stop a URL, if one of them does.
LEMMA FirstStopExists ==
    ASSUME NEW fs, NEW u, NEW n \in Nat, DOMAIN fs = 1..n,
           \E i \in DOMAIN fs : Lookup!Stops(fs[i], u)
    PROVE  Lookup!FirstStop(fs, u) \in DOMAIN fs
  <1> DEFINE T == {i \in DOMAIN fs : Lookup!Stops(fs[i], u)}
  <1>1. T \subseteq Nat /\ T # {}
    OBVIOUS
  <1>2. PICK b \in T : \A y \in T : ~ (<<y, b>> \in Before)
    <2> HIDE DEF T
    <2> QED
      BY <1>1, WFMin, BeforeIsWellFounded
  <1>3. \A y \in T : ~ (y < b)
    BY <1>1, <1>2 DEF Before
  <1>4. \A j \in 1..(b - 1) : ~ Lookup!Stops(fs[j], u)
    BY <1>1, <1>3
  <1> QED
    BY <1>4 DEF Lookup!FirstStop

\* Asking the filters gives a mode, or meets a nil filter.
LEMMA LookupMode ==
    ASSUME NEW fs \in {loadConfig(c) : c \in Configs}, NEW u
    PROVE  Lookup!lookupTracingMode(fs, u) \in Modes \cup {"panic"}
  <1>1. PICK c \in Configs : fs = loadConfig(c)
    OBVIOUS
  <1>2. DOMAIN fs = 1..Len(c) /\ Len(c) \in Nat
    BY <1>1, ConfigsAssumption DEF loadConfig
  <1>3. \A i \in DOMAIN fs : fs[i] # Nil => fs[i].trace \in Modes
    BY <1>1, ModeOfText DEF loadConfig, newFilter
  <1>4. CASE u # EmptyUrl /\ \E i \in DOMAIN fs : Lookup!Stops(fs[i], u)
    <2>1. Lookup!FirstStop(fs, u) \in DOMAIN fs
      BY <1>2, <1>4, FirstStopExists
    <2> QED
      BY <1>3, <1>4, <2>1 DEF Lookup!lookupTracingMode
  <1>5. CASE ~ (u # EmptyUrl /\ \E i \in DOMAIN fs : Lookup!Stops(fs[i], u))
    BY <1>5 DEF Lookup!lookupTracingMode, Modes
  <1> QED
    BY <1>4, <1>5

\* A list without filters, and an empty URL, leave the mode unknown.
LEMMA LookupTrivial ==
    ASSUME NEW fs, NEW u, fs = <<>> \/ u = EmptyUrl
    PROVE  Lookup!lookupTracingMode(fs, u) = "TraceUnknown"
  BY DEF Lookup!lookupTracingMode

-----------------------------------------------------------------------------

\* TypeOK, and the text of the cache is what the filters say.
IInv == TypeOK /\ CacheIsCurrent

\* The cache is empty at first.
LEMMA InitIInv == FiltersInit => IInv
  BY DEF FiltersInit, IInv, TypeOK, CacheIsCurrent

\* Every step keeps the types and leaves only current entries in the cache.
LEMMA NextIInv == IInv /\ [FiltersNext]_filtersVars => IInv'
  <1> SUFFICES ASSUME IInv, [FiltersNext]_filtersVars PROVE IInv'
    OBVIOUS
  <1> USE DEF IInv
  <1>1. ASSUME NEW r \in Requests, NEW u \in Urls \cup {EmptyUrl}, CallTrivial(r, u) \/ CallHit(r, u)
        PROVE  IInv'
    BY <1>1 DEF CallTrivial, CallHit, TypeOK, CacheIsCurrent
  <1>2. ASSUME NEW r \in Requests, NEW u \in Urls \cup {EmptyUrl}, CallMiss(r, u)
        PROVE  IInv'
    BY <1>2 DEF CallMiss, TypeOK, CacheIsCurrent
  <1>3. ASSUME NEW r \in Requests, LookupAndSet(r)
        PROVE  IInv'
    <2> DEFINE m == Lookup!lookupTracingMode(filters, url[r])
    <2>1. m \in Modes
      BY <1>3, LookupMode DEF LookupAndSet, TypeOK
    <2>2. url[r] \in Urls
      BY <1>3 DEF LookupAndSet, TypeOK
    <2>3. NewTracingMode(ModeToString(m)) = m /\ ModeToString(m) \in {"enabled", "disabled", "unknown"}
      BY <2>1, RoundTrip DEF ModeToString
    <2>4. cache' = [cache EXCEPT ![url[r]] = ModeToString(m)] \/ cache' = cache
      BY <1>3 DEF LookupAndSet
    <2>5. UNCHANGED filters /\ pc' = [pc EXCEPT ![r] = "idle"] /\ url' = [url EXCEPT ![r] = Nil]
      BY <1>3 DEF LookupAndSet
    <2> HIDE DEF m
    <2>6. TypeOK'
      BY <2>2, <2>3, <2>4, <2>5 DEF TypeOK
    <2>7. CacheIsCurrent'
      BY <2>2, <2>3, <2>4, <2>5 DEF CacheIsCurrent, TypeOK, m
    <2> QED
      BY <2>6, <2>7
  <1>4. ASSUME NEW r \in Requests, LookupPanics(r)
        PROVE  IInv'
    BY <1>4 DEF LookupPanics, TypeOK, CacheIsCurrent
  <1>5. ASSUME NEW u \in Urls, Drop(u)
        PROVE  IInv'
    BY <1>5 DEF Drop, TypeOK, CacheIsCurrent
  <1>6. ASSUME NEW c \in Configs, ReloadURLsConfig(c)
        PROVE  IInv'
    BY <1>6 DEF ReloadURLsConfig, TypeOK, CacheIsCurrent
  <1>7. CASE UNCHANGED filtersVars
    BY <1>7 DEF filtersVars, TypeOK, CacheIsCurrent
  <1> QED
    BY <1>1, <1>2, <1>3, <1>4, <1>5, <1>6, <1>7 DEF FiltersNext

\* The invariant holds of every behaviour.
LEMMA SpecIInv == FiltersSpec => []IInv
  BY InitIInv, NextIInv, PTL DEF FiltersSpec

\* url.go, GetTracingMode: no entry of the cache ever contradicts the filters.
THEOREM CacheIsCurrentTheorem == FiltersSpec => []CacheIsCurrent
  <1>1. IInv => CacheIsCurrent
    BY DEF IInv
  <1> QED
    BY <1>1, SpecIInv, PTL

\* A step of the filters with the cache is a step of the filters without it: a
\* call that returns is an Answer, a reload a Reload, anything else a stutter.
LEMMA StepRefines == IInv /\ [FiltersNext]_filtersVars => [Lookup!Next]_(Lookup!vars)
  <1> SUFFICES ASSUME IInv, [FiltersNext]_filtersVars PROVE [Lookup!Next]_(Lookup!vars)
    OBVIOUS
  <1> USE DEF IInv, Return
  <1>1. ASSUME NEW r \in Requests, NEW u \in Urls \cup {EmptyUrl}, CallTrivial(r, u)
        PROVE  Lookup!Next
    BY <1>1, LookupTrivial DEF CallTrivial, Lookup!Next, Lookup!Answer
  <1>2. ASSUME NEW r \in Requests, NEW u \in Urls \cup {EmptyUrl}, CallHit(r, u)
        PROVE  Lookup!Next
    <2>1. NewTracingMode(cache[u]) = Lookup!lookupTracingMode(filters, u)
      BY <1>2 DEF CallHit, CacheIsCurrent
    <2> QED
      BY <1>2, <2>1 DEF CallHit, Lookup!Next, Lookup!Answer
  <1>3. ASSUME NEW r \in Requests, NEW u \in Urls \cup {EmptyUrl}, CallMiss(r, u)
        PROVE  UNCHANGED Lookup!vars
    BY <1>3 DEF CallMiss, Lookup!vars
  <1>4. ASSUME NEW r \in Requests, LookupAndSet(r) \/ LookupPanics(r)
        PROVE  Lookup!Next
    <2>1. url[r] \in Urls
      BY <1>4 DEF LookupAndSet, LookupPanics, TypeOK
    <2>2. Lookup!Answer(r, url[r])
      BY <1>4 DEF LookupAndSet, LookupPanics, Lookup!Answer
    <2> QED
      BY <2>1, <2>2 DEF Lookup!Next
  <1>5. ASSUME NEW u \in Urls, Drop(u)
        PROVE  UNCHANGED Lookup!vars
    BY <1>5 DEF Drop, Lookup!vars
  <1>6. ASSUME NEW c \in Configs, ReloadURLsConfig(c)
        PROVE  Lookup!Next
    <2>1. Lookup!Reload(loadConfig(c))
      BY <1>6 DEF ReloadURLsConfig, Lookup!Reload
    <2> QED
      BY <2>1 DEF Lookup!Next
  <1>7. CASE UNCHANGED filtersVars
    BY <1>7 DEF filtersVars, Lookup!vars
  <1> QED
    BY <1>1, <1>2, <1>3, <1>4, <1>5, <1>6, <1>7 DEF FiltersNext

\* The initial states map to initial states.
LEMMA InitRefines == FiltersInit => Lookup!Init
  BY DEF FiltersInit, Lookup!Init

\* url.go, GetTracingMode: the filters with the cache implement the filters
\* without it.
THEOREM TransparentTheorem == FiltersSpec => Transparent
  BY InitRefines, StepRefines, SpecIInv, PTL DEF FiltersSpec, Transparent, Lookup!Spec

-----------------------------------------------------------------------------
(* XTraceOptions: parsing.                                                 *)

\* The number of options read.
Done == Len(header) - Len(rest)

\* Values in x come from the header.
Given == {header[i].value : i \in DOMAIN header} \cup {NoValue, 0}
FieldsOK ==
    x \in [tt : BOOLEAN, swKeys : Given, timestamp : Given,
           customKVs : [CustomKeys -> Given], ignoredKeys : Seq({header[i].key : i \in DOMAIN header})]

\* The shape of a header's options; a timestamp is a number or cannot be read.
HeaderOK ==
    /\ header \in Seq(ToSet(header))
    /\ \A i \in DOMAIN header :
         /\ header[i].found \in BOOLEAN
         /\ (header[i].key = "ts" /\ header[i].found) => header[i].value \in Int \cup {BadNumber}

\* The rest of the header is what remains of it, and what has been read has given x.
ParseInv ==
    /\ HeaderOK
    /\ rest \in Seq(ToSet(header)) /\ Len(rest) =< Len(header)
    /\ \A i \in 1..Len(rest) : rest[i] = header[Done + i]
    /\ FieldsOK
    /\ Meets(header, x, Done)
    /\ state = "idle" => header = <<>>
    /\ state \notin {"idle", "parsing"} => rest = <<>>
    /\ ValidIsFresh

\* Nothing has been read at first.
LEMMA OptionsInitInv == OptionsInit => ParseInv
  <1> SUFFICES ASSUME OptionsInit PROVE ParseInv
    OBVIOUS
  <1>1. header = <<>> /\ rest = <<>> /\ x = Empty /\ state = "idle"
    BY DEF OptionsInit
  <1>2. HeaderOK /\ Done = 0 /\ rest \in Seq(ToSet(header))
    BY <1>1, EmptySeq DEF HeaderOK, Done
  <1>3. FieldsOK
    BY <1>1, EmptySeq DEF FieldsOK, Empty, Given
  <1>4. Meets(header, x, 0)
    <2>1. \A f : f \in [DOMAIN <<>> -> 1..0] => Enumerates(header, f, <<>>, 0)
      BY DEF Enumerates
    <2>2. [i \in DOMAIN <<>> |-> 1] \in [DOMAIN <<>> -> 1..0]
      OBVIOUS
    <2>3. x.tt = FALSE /\ x.swKeys = NoValue /\ x.timestamp = 0 /\ x.ignoredKeys = <<>>
          /\ \A k \in CustomKeys : x.customKVs[k] = NoValue
      BY <1>1 DEF Empty
    <2>4. \A i \in 1..0 : FALSE
      OBVIOUS
    <2>5. \A k : Says(header, k, NoValue, NoValue, 0) /\ Says(header, k, 0, 0, 0)
      BY <2>4, Zenon DEF Says
    <2>6. \E f \in [DOMAIN x.ignoredKeys -> 1..0] : Enumerates(header, f, x.ignoredKeys, 0)
      BY <2>1, <2>2, <2>3
    <2> QED
      BY <2>3, <2>4, <2>5, <2>6, Zenon DEF Meets
  <1> QED
    BY <1>1, <1>2, <1>3, <1>4 DEF ParseInv, ValidIsFresh

\* Taking an option from the rest.
LEMMA TakeOne ==
    ASSUME HeaderOK, rest \in Seq(ToSet(header)), Len(rest) =< Len(header), rest # <<>>,
           \A i \in 1..Len(rest) : rest[i] = header[Done + i],
           header' = header, rest' = Tail(rest)
    PROVE  /\ Done \in 0..(Len(header) - 1)
           /\ Head(rest) = header[Done + 1]
           /\ rest' \in Seq(ToSet(header')) /\ Len(rest') =< Len(header')
           /\ Done' = Done + 1
           /\ \A i \in 1..Len(rest') : rest'[i] = header'[Done' + i]
  <1>1. Len(header) \in Nat /\ DOMAIN header = 1..Len(header)
    BY DEF HeaderOK
  <1>2. Len(rest) \in Nat \ {0} /\ Len(rest') = Len(rest) - 1 /\ rest' \in Seq(ToSet(header))
    BY EmptySeq, HeadTailProperties
  <1>3. Head(rest) = rest[1] /\ \A i \in 1..Len(rest') : rest'[i] = rest[i + 1]
    BY <1>2, HeadTailProperties
  <1>4. Done' = Done + 1 /\ Done \in 0..(Len(header) - 1)
    BY <1>1, <1>2 DEF Done
  <1>5. Head(rest) = header[Done + 1]
    BY <1>2, <1>3
  <1>6. \A i \in 1..Len(rest') : rest'[i] = header[(Done + 1) + i]
    <2> TAKE i \in 1..Len(rest')
    <2>1. i + 1 \in 1..Len(rest) /\ Done + (i + 1) = (Done + 1) + i
      BY <1>2, <1>4
    <2> QED
      BY <1>3, <2>1
  <1>7. Len(rest') =< Len(header') /\ rest' \in Seq(ToSet(header'))
    BY <1>1, <1>2
  <1>8. \A i \in 1..Len(rest') : rest'[i] = header'[Done' + i]
    BY <1>4, <1>6
  <1> QED
    BY <1>4, <1>5, <1>7, <1>8

\* The next option gives a key the value v ...
LEMMA SaysNew ==
    ASSUME NEW n \in Nat, NEW k, NEW d, Gives(header[n + 1], k)
    PROVE  Says(header, k, header[n + 1].value, d, n + 1)
  <1>1. n + 1 \in 1..(n + 1) /\ ((n + 1) + 1)..(n + 1) = {}
    OBVIOUS
  <1> QED
    BY <1>1 DEF Says

\* ... or says nothing of it.
LEMMA SaysOld ==
    ASSUME NEW n \in Nat, NEW k, NEW v, NEW d, Says(header, k, v, d, n), ~ Gives(header[n + 1], k)
    PROVE  Says(header, k, v, d, n + 1)
  <1>1. \A i \in 1..(n + 1) : i \in 1..n \/ i = n + 1
    OBVIOUS
  <1>2. CASE \A i \in 1..n : ~ Gives(header[i], k)
    BY <1>1, <1>2 DEF Says
  <1>3. ASSUME NEW i \in 1..n, Gives(header[i], k), v = header[i].value,
               \A j \in (i + 1)..n : ~ Gives(header[j], k)
        PROVE  Says(header, k, v, d, n + 1)
    <2>1. \A j \in (i + 1)..(n + 1) : ~ Gives(header[j], k)
      <3>1. \A j \in (i + 1)..(n + 1) : j \in (i + 1)..n \/ j = n + 1
        OBVIOUS
      <3> QED
        BY <1>3, <3>1
    <2>2. i \in 1..(n + 1)
      OBVIOUS
    <2> QED
      BY <1>3, <2>1, <2>2 DEF Says
  <1> QED
    BY <1>2, <1>3 DEF Says

\* The list of ignored keys grows by an option that is ignored ...
LEMMA EnumerateNew ==
    ASSUME NEW n \in Nat, NEW S, NEW keys \in Seq(S), NEW f \in [DOMAIN keys -> 1..n],
           Enumerates(header, f, keys, n), Ignored(header[n + 1]), header[n + 1].key \in S
    PROVE  \E g \in [DOMAIN Append(keys, header[n + 1].key) -> 1..(n + 1)] :
             Enumerates(header, g, Append(keys, header[n + 1].key), n + 1)
  <1> DEFINE more == Append(keys, header[n + 1].key)
             l == Len(keys)
             g == [i \in 1..(l + 1) |-> IF i = l + 1 THEN n + 1 ELSE f[i]]
  <1>1. l \in Nat /\ DOMAIN keys = 1..l
    OBVIOUS
  <1>2. /\ DOMAIN more = 1..(l + 1) /\ more[l + 1] = header[n + 1].key
        /\ \A i \in 1..l : more[i] = keys[i]
    BY AppendProperties
  <1> HIDE DEF more, l
  <1>3. g[l + 1] = n + 1 /\ \A i \in 1..l : g[i] = f[i] /\ f[i] \in 1..n
    BY <1>1
  <1>4. g \in [1..(l + 1) -> 1..(n + 1)]
    BY <1>1, <1>3
  <1> HIDE DEF g
  <1>5. \A i \in 1..(l + 1) : i \in 1..l \/ i = l + 1
    BY <1>1
  <1>6. \A i, j \in 1..(l + 1) : i < j => g[i] < g[j]
    <2> TAKE i, j \in 1..(l + 1)
    <2>1. CASE j = l + 1
      BY <1>1, <1>3, <2>1
    <2>2. CASE j \in 1..l
      <3>1. i < j => i \in 1..l
        BY <1>1, <2>2
      <3>2. i < j => f[i] < f[j]
        BY <1>1, <2>2, <3>1 DEF Enumerates
      <3> QED
        BY <1>3, <2>2, <3>1, <3>2
    <2> QED
      BY <1>5, <2>1, <2>2
  <1>7. \A i \in 1..(l + 1) : Ignored(header[g[i]]) /\ more[i] = header[g[i]].key
    BY <1>1, <1>2, <1>3, <1>5 DEF Enumerates
  <1>8. ASSUME NEW j \in 1..(n + 1), Ignored(header[j]) PROVE \E i \in 1..(l + 1) : g[i] = j
    <2>1. CASE j = n + 1
      BY <1>1, <1>3, <2>1
    <2>2. CASE j # n + 1
      <3>1. j \in 1..n
        BY <2>2
      <3>2. PICK i \in DOMAIN keys : f[i] = j
        BY <1>8, <3>1 DEF Enumerates
      <3> QED
        BY <1>1, <1>3, <3>2
    <2> QED
      BY <2>1, <2>2
  <1>9. Enumerates(header, g, more, n + 1)
    BY <1>2, <1>6, <1>7, <1>8 DEF Enumerates
  <1> QED
    BY <1>2, <1>4, <1>9 DEF more

\* ... and stays as it is otherwise.
LEMMA EnumerateOld ==
    ASSUME NEW n \in Nat, NEW S, NEW keys \in Seq(S), NEW f \in [DOMAIN keys -> 1..n],
           Enumerates(header, f, keys, n), ~ Ignored(header[n + 1])
    PROVE  \E g \in [DOMAIN keys -> 1..(n + 1)] : Enumerates(header, g, keys, n + 1)
  <1>1. f \in [DOMAIN keys -> 1..(n + 1)]
    OBVIOUS
  <1>2. \A j \in 1..(n + 1) : j \in 1..n \/ j = n + 1
    OBVIOUS
  <1>3. Enumerates(header, f, keys, n + 1)
    BY <1>2 DEF Enumerates
  <1> QED
    BY <1>1, <1>3

-----------------------------------------------------------------------------

\* What an option of each kind says.
LEMMA Kinds ==
    /\ EmptyKey \notin {"trigger-trace", "sw-keys", "ts"}
    /\ \A k \in CustomKeys : k \notin Known
  <1>1. EmptyKey # "trigger-trace" /\ EmptyKey # "sw-keys" /\ EmptyKey # "ts"
    BY Zenon DEF EmptyKey
  <1> QED
    BY <1>1, KeysAssumption

\* An action that reads an option adds what it says to x.
Adds(o, y) ==
    /\ y.tt <=> (x.tt \/ (o.key = "trigger-trace" /\ ~ o.found))
    /\ y.swKeys = IF Gives(o, "sw-keys") THEN o.value ELSE x.swKeys
    /\ y.timestamp = IF Gives(o, "ts") THEN o.value ELSE x.timestamp
    /\ \A k \in CustomKeys : y.customKVs[k] = IF Gives(o, k) THEN o.value ELSE x.customKVs[k]
    /\ y.ignoredKeys = IF Ignored(o) THEN Append(x.ignoredKeys, o.key) ELSE x.ignoredKeys

\* Then the invariant is kept.
LEMMA AddStep ==
    ASSUME ParseInv, state = "parsing", rest # <<>>, Reads(Head(rest), x'), 
           Adds(Head(rest), x'), FieldsOK'
    PROVE  ParseInv'
  <1> DEFINE o == Head(rest)
  <1>1. UNCHANGED <<header, sig, token, state>> /\ rest' = Tail(rest)
    BY DEF Reads
  <1>2. /\ Done \in 0..(Len(header) - 1) /\ o = header[Done + 1]
        /\ rest' \in Seq(ToSet(header')) /\ Len(rest') =< Len(header')
        /\ Done' = Done + 1
        /\ \A i \in 1..Len(rest') : rest'[i] = header'[Done' + i]
    BY <1>1, TakeOne DEF ParseInv
  <1>3. PICK n \in Nat : n = Done
    BY <1>2
  <1>4. /\ n + 1 \in 1..Len(header) /\ DOMAIN header = 1..Len(header)
        /\ o = header[n + 1] /\ Meets(header, x, n)
    BY <1>2, <1>3 DEF ParseInv, HeaderOK
  <1> HIDE DEF o
  <1>5. \A i \in 1..(n + 1) : i \in 1..n \/ i = n + 1
    BY <1>3
  <1>6. \A k, v, d : Says(header, k, v, d, n) => Says(header, k, IF Gives(o, k) THEN o.value ELSE v, d, n + 1)
    BY <1>4, SaysNew, SaysOld
  <1>8. x'.tt <=> \E i \in 1..(n + 1) : header[i].key = "trigger-trace" /\ ~ header[i].found
    <2>1. x'.tt <=> (x.tt \/ (header[n + 1].key = "trigger-trace" /\ ~ header[n + 1].found))
      BY <1>4 DEF Adds, o
    <2>2. x.tt <=> \E i \in 1..n : header[i].key = "trigger-trace" /\ ~ header[i].found
      BY <1>4 DEF Meets
    <2>3. \A i \in 1..n : i \in 1..(n + 1)
      BY <1>3
    <2>4. n + 1 \in 1..(n + 1)
      BY <1>3
    <2> QED
      BY <1>5, <2>1, <2>2, <2>3, <2>4, Zenon
  <1>9. /\ Says(header, "sw-keys", x'.swKeys, NoValue, n + 1) /\ Says(header, "ts", x'.timestamp, 0, n + 1)
        /\ \A k \in CustomKeys : Says(header, k, x'.customKVs[k], NoValue, n + 1)
    BY <1>4, <1>6 DEF Meets, Adds, o
  <1>10. \E f \in [DOMAIN x'.ignoredKeys -> 1..(n + 1)] : Enumerates(header, f, x'.ignoredKeys, n + 1)
    <2> DEFINE S == {header[i].key : i \in DOMAIN header}
    <2>1. x.ignoredKeys \in Seq(S) /\ header[n + 1].key \in S
      BY <1>4 DEF ParseInv, FieldsOK
    <2>2. PICK f \in [DOMAIN x.ignoredKeys -> 1..n] : Enumerates(header, f, x.ignoredKeys, n)
      BY <1>4 DEF Meets
    <2> HIDE DEF S
    <2>3. CASE Ignored(o)
      BY <1>4, <2>1, <2>2, <2>3, EnumerateNew DEF Adds, o
    <2>4. CASE ~ Ignored(o)
      BY <1>4, <2>1, <2>2, <2>4, EnumerateOld DEF Adds, o
    <2> QED
      BY <2>3, <2>4
  <1>11. Meets(header, x, Done)'
    <2>1. Meets(header, x, n + 1)'
      BY <1>1, <1>8, <1>9, <1>10 DEF Meets
    <2> QED
      BY <1>2, <1>3, <2>1
  <1> QED
    BY <1>1, <1>2, <1>11 DEF ParseInv, HeaderOK, ValidIsFresh

\* Every action that reads an option adds what it says.
LEMMA ReadStep ==
    ASSUME ParseInv, state = "parsing", rest # <<>>, NEW o, o = Head(rest),
           \/ ReadBlank(o) \/ ReadTriggerTrace(o) \/ ReadBare(o) \/ ReadSwKeys(o)
           \/ ReadTimestamp(o) \/ ReadCustom(o) \/ ReadOther(o)
    PROVE  Reads(o, x') /\ Adds(o, x') /\ FieldsOK'
  <1> DEFINE S == {header[i].key : i \in DOMAIN header}
             V == Given
  <1>1. Reads(o, x') /\ header' = header
    BY DEF ReadBlank, ReadTriggerTrace, ReadBare, ReadSwKeys, ReadTimestamp, ReadCustom, ReadOther, Reads
  <1>2. o.key \in S /\ o.value \in V /\ o.found \in BOOLEAN
    <2>1. o = header[Done + 1] /\ Done \in 0..(Len(header) - 1)
      BY <1>1, TakeOne DEF ParseInv, Reads
    <2>2. Done + 1 \in DOMAIN header
      BY <2>1 DEF ParseInv, HeaderOK
    <2> QED
      BY <2>1, <2>2 DEF ParseInv, HeaderOK, Given
  <1>3. x \in [tt : BOOLEAN, swKeys : V, timestamp : V, customKVs : [CustomKeys -> V], ignoredKeys : Seq(S)]
    BY DEF ParseInv, FieldsOK
  <1>4. x' \in [tt : BOOLEAN, swKeys : V, timestamp : V, customKVs : [CustomKeys -> V], ignoredKeys : Seq(S)]
        => FieldsOK'
    BY <1>1 DEF FieldsOK, Given
  <1> HIDE DEF S, V
  <1> USE Kinds DEF Adds, Gives, Known
  <1>5. Ignoring(o) \in [tt : BOOLEAN, swKeys : V, timestamp : V, customKVs : [CustomKeys -> V], ignoredKeys : Seq(S)]
        /\ Ignoring(o).ignoredKeys = Append(x.ignoredKeys, o.key)
        /\ Ignoring(o).tt = x.tt /\ Ignoring(o).swKeys = x.swKeys
        /\ Ignoring(o).timestamp = x.timestamp /\ Ignoring(o).customKVs = x.customKVs
    BY <1>2, <1>3, AppendProperties DEF Ignoring
  <1>6. CASE ReadBlank(o)
    BY <1>1, <1>2, <1>3, <1>4, <1>6 DEF ReadBlank, Reads, Ignored
  <1>7. CASE ReadTriggerTrace(o)
    BY <1>1, <1>2, <1>3, <1>4, <1>7 DEF ReadTriggerTrace, Reads, Ignored
  <1>8. CASE ReadBare(o)
    BY <1>1, <1>2, <1>3, <1>4, <1>5, <1>8 DEF ReadBare, Reads, Ignored
  <1>9. CASE ReadSwKeys(o)
    BY <1>1, <1>2, <1>3, <1>4, <1>9 DEF ReadSwKeys, Reads, Ignored
  <1>10. CASE ReadTimestamp(o)
    BY <1>1, <1>2, <1>3, <1>4, <1>5, <1>10 DEF ReadTimestamp, Reads, Ignored
  <1>11. CASE ReadCustom(o)
    BY <1>1, <1>2, <1>3, <1>4, <1>11 DEF ReadCustom, Reads, Ignored
  <1>12. CASE ReadOther(o)
    BY <1>1, <1>2, <1>3, <1>4, <1>5, <1>12 DEF ReadOther, Reads, Ignored
  <1> QED
    BY <1>6, <1>7, <1>8, <1>9, <1>10, <1>11, <1>12

\* Every step keeps the invariant.
LEMMA OptionsStep == ParseInv /\ [OptionsNext]_optionsVars => ParseInv'
  <1> SUFFICES ASSUME ParseInv, [OptionsNext]_optionsVars PROVE ParseInv'
    OBVIOUS
  <1>1. ASSUME NEW h \in Headers, NEW s, GetXTraceOptions(h, s) PROVE ParseInv'
    <2>1. header = <<>> /\ Done = 0 /\ Meets(header, x, 0)
      <3>1. header = <<>> /\ rest \in Seq(ToSet(header)) /\ Len(rest) =< Len(header) /\ Meets(header, x, Done)
        BY <1>1 DEF GetXTraceOptions, ParseInv
      <3>2. Len(header) = 0 /\ Len(rest) \in Nat
        BY <3>1
      <3>3. Done = 0
        BY <3>1, <3>2 DEF Done
      <3> QED
        BY <3>1, <3>3
    <2>2. header' = h /\ rest' = h /\ x' = x /\ state' = "parsing" /\ h \in Seq(ToSet(h)) /\ HeaderOK'
      BY <1>1, HeadersAssumption DEF GetXTraceOptions, HeaderOK
    <2>3. Done' = 0 /\ Len(h) \in Nat
      BY <2>2 DEF Done
    <2>4. FieldsOK'
      <3>1. {header[i].value : i \in DOMAIN header} = {} /\ {header[i].key : i \in DOMAIN header} = {}
        BY <2>1
      <3>2. x \in [tt : BOOLEAN, swKeys : {NoValue, 0}, timestamp : {NoValue, 0},
                   customKVs : [CustomKeys -> {NoValue, 0}], ignoredKeys : Seq({})]
        BY <3>1 DEF ParseInv, FieldsOK, Given
      <3>3. Seq({}) \subseteq Seq({header'[i].key : i \in DOMAIN header'})
        BY SMT
      <3> QED
        BY <2>2, <3>2, <3>3 DEF FieldsOK, Given
    <2>5. Meets(header, x, 0)'
      <3>1. \A i \in 1..0 : FALSE
        OBVIOUS
      <3>2. /\ x.tt = FALSE /\ x.swKeys = NoValue /\ x.timestamp = 0
            /\ \A k \in CustomKeys : x.customKVs[k] = NoValue
            /\ \E f \in [DOMAIN x.ignoredKeys -> 1..0] : Enumerates(header, f, x.ignoredKeys, 0)
        <4>1. x.tt \in BOOLEAN
          BY DEF ParseInv, FieldsOK
        <4> QED
          BY <2>1, <3>1, <4>1, Zenon DEF Meets, Says
      <3>3. \A k : Says(header, k, NoValue, NoValue, 0)' /\ Says(header, k, 0, 0, 0)'
        BY <3>1, Zenon DEF Says
      <3>4. \A f \in [DOMAIN x.ignoredKeys -> 1..0] : ~ \E i \in DOMAIN x.ignoredKeys : TRUE
        BY <3>1, Zenon
      <3>5. \A f \in [DOMAIN x.ignoredKeys -> 1..0] : Enumerates(header, f, x.ignoredKeys, 0)'
        BY <2>2, <3>1, <3>4, Zenon DEF Enumerates
      <3> QED
        BY <2>2, <3>1, <3>2, <3>3, <3>5, Zenon DEF Meets
    <2> QED
      BY <2>2, <2>3, <2>4, <2>5 DEF ParseInv, ValidIsFresh
  <1>2. ASSUME NEW o, rest # <<>>, o = Head(rest),
               \/ ReadBlank(o) \/ ReadTriggerTrace(o) \/ ReadBare(o) \/ ReadSwKeys(o)
               \/ ReadTimestamp(o) \/ ReadCustom(o) \/ ReadOther(o)
        PROVE  ParseInv'
    <2>1. state = "parsing"
      BY <1>2 DEF ReadBlank, ReadTriggerTrace, ReadBare, ReadSwKeys, ReadTimestamp, ReadCustom, ReadOther, Reads
    <2> QED
      BY <1>2, <2>1, ReadStep, AddStep
  <1> DEFINE Static == HeaderOK /\ FieldsOK /\ rest \in Seq(ToSet(header)) /\ Len(rest) =< Len(header)
                       /\ (\A i \in 1..Len(rest) : rest[i] = header[Done + i]) /\ Meets(header, x, Done)
  <1>3. ASSUME UNCHANGED <<header, rest, x>> PROVE Static'
    <2>1. PICK n \in Nat : n = Done
      <3>1. header \in Seq(ToSet(header)) /\ rest \in Seq(ToSet(header)) /\ Len(rest) =< Len(header)
        BY DEF ParseInv, HeaderOK
      <3>2. Len(header) \in Nat /\ Len(rest) \in Nat
        BY <3>1
      <3>3. Done \in Nat
        BY <3>1, <3>2 DEF Done
      <3> QED
        BY <3>3
    <2>2. Meets(header, x, n)'
      BY <1>3, <2>1 DEF ParseInv
    <2>3. Done' = n
      BY <1>3, <2>1 DEF Done
    <2>4. Meets(header, x, Done)'
      BY <2>2, <2>3
    <2>5. FieldsOK' /\ HeaderOK'
      BY <1>3 DEF ParseInv, HeaderOK, FieldsOK, Given
    <2>6. \A i \in 1..Len(rest') : rest'[i] = header'[Done' + i]
      BY <1>3, <2>1, <2>3 DEF ParseInv
    <2>7. rest' \in Seq(ToSet(header')) /\ Len(rest') =< Len(header')
      BY <1>3 DEF ParseInv
    <2> QED
      BY <2>4, <2>5, <2>6, <2>7
  <1>4. CASE CheckSignature
    <2>1. UNCHANGED <<header, sig, rest, x, token>> /\ rest = <<>> /\ state = "parsing"
          /\ state' = IF sig = NoSig THEN "unsigned" ELSE AuthStatus
      BY <1>4 DEF CheckSignature
    <2>2. state' \notin {"idle", "parsing"}
      BY <2>1 DEF AuthStatus
    <2>3. ASSUME state' = "ok"
          PROVE  /\ sig = [token |-> token, data |-> header]
                 /\ \E t \in (Now - Window)..(Now + Window) : Says(header, "ts", t, 0, Len(header))
      <3>1. tsInScope(x.timestamp) /\ sig = [token |-> token, data |-> header]
        BY <2>1, <2>3 DEF AuthStatus
      <3>2. Done = Len(header) /\ DOMAIN header = 1..Len(header)
        BY <2>1 DEF Done, ParseInv, HeaderOK
      <3>3. Says(header, "ts", x.timestamp, 0, Len(header))
        BY <3>2 DEF ParseInv, Meets
      <3>4. x.timestamp \in Int
        BY <3>2, <3>3 DEF Says, Gives, ParseInv, HeaderOK
      <3>5. Now - Window \in Int /\ Now + Window \in Int
        BY NowAssumption DEF Window
      <3>6. x.timestamp \in (Now - Window)..(Now + Window)
        BY <3>1, <3>4, <3>5 DEF tsInScope
      <3> QED
        BY <3>1, <3>3, <3>6
    <2>4. ValidIsFresh'
      BY <2>1, <2>3 DEF ValidIsFresh
    <2> QED
      BY <1>3, <2>1, <2>2, <2>4 DEF ParseInv
  <1>5. ASSUME NEW t, SettingsChange(t) PROVE ParseInv'
    BY <1>3, <1>5 DEF SettingsChange, ParseInv, ValidIsFresh
  <1>6. CASE UNCHANGED optionsVars
    <2>1. ValidIsFresh'
      BY <1>6 DEF optionsVars, ParseInv, ValidIsFresh
    <2> QED
      BY <1>3, <1>6, <2>1 DEF optionsVars, ParseInv
  <1> QED
    BY <1>1, <1>2, <1>4, <1>5, <1>6 DEF OptionsNext

\* The invariant holds of every behaviour.
LEMMA AlwaysParseInv == OptionsSpec => []ParseInv
  BY OptionsInitInv, OptionsStep, PTL DEF OptionsSpec

\* parseXTraceOptions: whatever the options, their number and their order, each
\* counts as if it stood alone, and the last one of a key decides.
THEOREM OptionsAreIndependent == OptionsSpec => []ParseMeetsHeader
  <1>1. ParseInv => ParseMeetsHeader
    <2>1. ASSUME ParseInv, rest = <<>> PROVE Done = Len(header)
      BY <2>1 DEF Done, ParseInv, HeaderOK
    <2> QED
      BY <2>1 DEF ParseInv, ParseMeetsHeader
  <1> QED
    BY <1>1, AlwaysParseInv, PTL

\* validateXTraceOptionsSignature: whatever options surround the timestamp and
\* whenever the settings change, no stale or foreign signature is accepted.
THEOREM AcceptedIsFresh == OptionsSpec => []ValidIsFresh
  <1>1. ParseInv => ValidIsFresh
    BY DEF ParseInv
  <1> QED
    BY <1>1, AlwaysParseInv, PTL

-----------------------------------------------------------------------------
(* Propagation: the members of a trace state.                              *)

\* A list of members in which no key occurs twice.
ListOK(ts) ==
    /\ ts \in Seq(ToSet(ts))
    /\ \A i, j \in DOMAIN ts : ts[i].key = ts[j].key => i = j

\* A sequence is one of its own elements.
LEMMA SeqOfSelf == ASSUME NEW S, NEW s \in Seq(S) PROVE s \in Seq(ToSet(s))
  <1>1. Len(s) \in Nat /\ DOMAIN s = 1..Len(s) /\ \A i \in 1..Len(s) : s[i] \in ToSet(s)
    BY DEF ToSet
  <1>2. s = [i \in 1..Len(s) |-> s[i]]
    OBVIOUS
  <1> HIDE DEF ToSet
  <1> QED
    BY <1>1, <1>2

\* The member with a key is where it is.
LEMMA MemberIs ==
    ASSUME NEW ts, ListOK(ts), NEW i \in DOMAIN ts
    PROVE  Has(ts, ts[i].key) /\ Member(ts, ts[i].key) = ts[i]
  <1>1. Has(ts, ts[i].key)
    BY DEF Has
  <1>2. Where(ts, ts[i].key) \in DOMAIN ts /\ ts[Where(ts, ts[i].key)].key = ts[i].key
    BY <1>1 DEF Has, Where
  <1> QED
    BY <1>1, <1>2 DEF ListOK, Member

\* Where finds a key that a list has.
LEMMA HasWhere ==
    ASSUME NEW ts, NEW key, Has(ts, key)
    PROVE  Where(ts, key) \in DOMAIN ts /\ ts[Where(ts, key)].key = key
  BY DEF Has, Where

\* What RemoveAt leaves.
LEMMA RemoveAtIs ==
    ASSUME NEW ts, ts \in Seq(ToSet(ts)), NEW i \in 1..Len(ts)
    PROVE  /\ RemoveAt(ts, i) \in Seq(ToSet(RemoveAt(ts, i)))
           /\ Len(RemoveAt(ts, i)) = Len(ts) - 1
           /\ \A j \in 1..(Len(ts) - 1) : RemoveAt(ts, i)[j] = IF j < i THEN ts[j] ELSE ts[j + 1]
  <1> DEFINE S == ToSet(ts)
             a == SubSeq(ts, 1, i - 1)
             b == SubSeq(ts, i + 1, Len(ts))
  <1>1. Len(ts) \in Nat /\ DOMAIN ts = 1..Len(ts) /\ ts \in Seq(S)
    OBVIOUS
  <1> HIDE DEF S
  <1>2. a \in Seq(S) /\ Len(a) = i - 1 /\ \A j \in 1..(i - 1) : a[j] = ts[j]
    BY <1>1, SubSeqProperties
  <1>3. b \in Seq(S) /\ Len(b) = Len(ts) - i /\ \A j \in 1..(Len(ts) - i) : b[j] = ts[i + j]
    <2> DEFINE k == i + 1
    <2>1. k \in Int /\ Len(ts) \in Int /\ \A j \in k..Len(ts) : ts[j] \in S
      BY <1>1
    <2> HIDE DEF k
    <2>2. /\ SubSeq(ts, k, Len(ts)) \in Seq(S)
          /\ Len(SubSeq(ts, k, Len(ts))) = IF k =< Len(ts) THEN Len(ts) - k + 1 ELSE 0
          /\ \A j \in 1..(Len(ts) - k + 1) : SubSeq(ts, k, Len(ts))[j] = ts[k + j - 1]
      BY <2>1, SubSeqProperties
    <2> HIDE DEF b
    <2>0. k = i + 1 /\ b = SubSeq(ts, k, Len(ts))
      BY DEF k, b
    <2>3. i \in Nat /\ i =< Len(ts) /\ Len(ts) - (i + 1) + 1 = Len(ts) - i
      BY <1>1
    <2>4. Len(b) = Len(ts) - i
      <3>1. CASE i + 1 =< Len(ts)
        BY <2>0, <2>2, <2>3, <3>1
      <3>2. CASE ~ (i + 1 =< Len(ts))
        <4>1. \A l, o \in Nat : (o =< l /\ ~ (o + 1 =< l)) => l - o = 0
          OBVIOUS
        <4>2. Len(ts) - i = 0
          BY <1>1, <2>3, <3>2, <4>1, Zenon
        <4>3. Len(b) = 0
          BY <2>0, <2>2, <3>2, Zenon
        <4> QED
          BY <4>2, <4>3
      <3> QED
        BY <3>1, <3>2
    <2>5. \A j \in 1..(Len(ts) - i) : b[j] = ts[i + j]
      <3> TAKE j \in 1..(Len(ts) - i)
      <3>1. (i + 1) + j - 1 = i + j
        BY <2>3
      <3> QED
        BY <2>0, <2>2, <2>3, <3>1
    <2> QED
      BY <2>0, <2>2, <2>4, <2>5
  <1> HIDE DEF a, b
  <1>4. /\ a \o b \in Seq(S) /\ Len(a \o b) = Len(ts) - 1
        /\ \A j \in 1..(Len(ts) - 1) : (a \o b)[j] = IF j < i THEN ts[j] ELSE ts[j + 1]
    <2>1. /\ a \o b \in Seq(S) /\ Len(a \o b) = Len(a) + Len(b)
          /\ \A j \in 1..(Len(a) + Len(b)) : (a \o b)[j] = IF j =< Len(a) THEN a[j] ELSE b[j - Len(a)]
      BY <1>2, <1>3, ConcatProperties
    <2>2. Len(a) + Len(b) = Len(ts) - 1
      BY <1>1, <1>2, <1>3
    <2>3. ASSUME NEW j \in 1..(Len(ts) - 1) PROVE (a \o b)[j] = IF j < i THEN ts[j] ELSE ts[j + 1]
      <3>1. CASE j < i
        BY <1>1, <1>2, <2>1, <2>2, <3>1
      <3>2. CASE ~ (j < i)
        <4>1. j - (i - 1) \in 1..(Len(ts) - i) /\ i + (j - (i - 1)) = j + 1 /\ ~ (j =< i - 1)
          BY <1>1, <3>2
        <4>2. (a \o b)[j] = b[j - (i - 1)]
          BY <1>2, <2>1, <2>2, <4>1
        <4>3. b[j - (i - 1)] = ts[i + (j - (i - 1))]
          BY <1>3, <4>1, Zenon
        <4> QED
          BY <3>2, <4>1, <4>2, <4>3
      <3> QED
        BY <3>1, <3>2
    <2> QED
      BY <2>1, <2>2, <2>3
  <1>5. RemoveAt(ts, i) = a \o b
    BY DEF RemoveAt, a, b
  <1>6. a \o b \in Seq(ToSet(a \o b))
    BY <1>4, SeqOfSelf
  <1> QED
    BY <1>4, <1>5, <1>6

\* A list without its last member.
LEMMA FrontIs ==
    ASSUME NEW ts, ts \in Seq(ToSet(ts)), Len(ts) > 0
    PROVE  /\ Front(ts) \in Seq(ToSet(Front(ts)))
           /\ Len(Front(ts)) = Len(ts) - 1
           /\ \A j \in 1..(Len(ts) - 1) : Front(ts)[j] = ts[j]
  <1> DEFINE S == ToSet(ts)
  <1>1. Len(ts) \in Nat /\ DOMAIN ts = 1..Len(ts) /\ ts \in Seq(S)
    OBVIOUS
  <1> HIDE DEF S
  <1>2. Front(ts) \in Seq(S) /\ Len(Front(ts)) = Len(ts) - 1 /\ \A j \in 1..(Len(ts) - 1) : Front(ts)[j] = ts[j]
    BY <1>1, SubSeqProperties DEF Front
  <1>3. Front(ts) \in Seq(ToSet(Front(ts)))
    BY <1>2, SeqOfSelf
  <1> QED
    BY <1>2, <1>3

\* Delete takes the member with the key and leaves the others.
LEMMA WithoutIs ==
    ASSUME NEW ts, ListOK(ts), NEW key
    PROVE  /\ ListOK(Without(ts, key)) /\ ~ Has(Without(ts, key), key)
           /\ Len(Without(ts, key)) =< Len(ts)
           /\ \A k : k # key => /\ Has(Without(ts, key), k) <=> Has(ts, k)
                                /\ Has(ts, k) => Member(Without(ts, key), k) = Member(ts, k)
  <1> DEFINE w == Without(ts, key)
             i == Where(ts, key)
  <1>0. Len(ts) \in Nat /\ DOMAIN ts = 1..Len(ts)
    BY DEF ListOK
  <1>1. CASE ~ Has(ts, key)
    BY <1>0, <1>1 DEF Without
  <1>2. CASE Has(ts, key)
    <2>1. w = RemoveAt(ts, i) /\ i \in 1..Len(ts) /\ ts[i].key = key
      BY <1>0, <1>2, HasWhere DEF Without
    <2>2. /\ w \in Seq(ToSet(w)) /\ Len(w) = Len(ts) - 1
          /\ \A j \in 1..(Len(ts) - 1) : w[j] = IF j < i THEN ts[j] ELSE ts[j + 1]
      <3>1. ts \in Seq(ToSet(ts))
        BY DEF ListOK
      <3> HIDE DEF w, i
      <3>2. /\ RemoveAt(ts, i) \in Seq(ToSet(RemoveAt(ts, i))) /\ Len(RemoveAt(ts, i)) = Len(ts) - 1
            /\ \A j \in 1..(Len(ts) - 1) : RemoveAt(ts, i)[j] = IF j < i THEN ts[j] ELSE ts[j + 1]
        BY <2>1, <3>1, RemoveAtIs, Zenon
      <3> QED
        BY <2>1, <3>2, Zenon
    <2> HIDE DEF w, i
    <2>3. DOMAIN w = 1..(Len(ts) - 1)
      BY <2>2
    <2>4. \A j \in DOMAIN w : j < i => w[j] = ts[j] /\ j \in DOMAIN ts
      BY <1>0, <2>1, <2>2, <2>3
    <2>5. \A j \in DOMAIN w : ~ (j < i) => w[j] = ts[j + 1] /\ j + 1 \in DOMAIN ts
      BY <1>0, <2>1, <2>2, <2>3
    <2>6. ListOK(w)
      <3>1. ASSUME NEW j \in DOMAIN w, NEW l \in DOMAIN w, w[j].key = w[l].key PROVE j = l
        <4>1. j \in Int /\ l \in Int /\ i \in Int
          BY <1>0, <2>1, <2>3
        <4> QED
          BY <2>4, <2>5, <3>1, <4>1 DEF ListOK
      <3> QED
        BY <2>2, <3>1 DEF ListOK
    <2>7. ~ Has(w, key)
      <3>1. ASSUME NEW j \in DOMAIN w, w[j].key = key PROVE FALSE
        <4>1. j \in Int /\ i \in Int /\ i \in DOMAIN ts
          BY <1>0, <2>1, <2>3
        <4> QED
          BY <2>1, <2>4, <2>5, <3>1, <4>1 DEF ListOK
      <3> QED
        BY <3>1 DEF Has
    <2>8. ASSUME NEW k, Has(w, k) PROVE Has(ts, k) /\ Member(w, k) = Member(ts, k)
      <3>1. PICK j \in DOMAIN w : w[j].key = k
        BY <2>8 DEF Has
      <3>2. \E l \in DOMAIN ts : w[j] = ts[l]
        BY <2>4, <2>5
      <3> QED
        BY <2>6, <3>1, <3>2, MemberIs
    <2>9. ASSUME NEW k, k # key, Has(ts, k) PROVE Has(w, k)
      <3>1. PICK l \in DOMAIN ts : ts[l].key = k
        BY <2>9 DEF Has
      <3>2. CASE l < i
        <4>1. l \in DOMAIN w /\ w[l] = ts[l]
          BY <1>0, <2>1, <2>2, <2>3, <3>1, <3>2
        <4> QED
          BY <3>1, <4>1 DEF Has
      <3>3. CASE l > i
        <4>1. l - 1 \in DOMAIN w /\ ~ (l - 1 < i) /\ (l - 1) + 1 = l
          BY <1>0, <2>1, <2>2, <2>3, <3>1, <3>3
        <4>2. w[l - 1] = ts[l]
          BY <2>5, <4>1
        <4> QED
          BY <3>1, <4>1, <4>2 DEF Has
      <3>4. l # i
        BY <2>1, <2>9, <3>1
      <3> QED
        BY <1>0, <2>1, <3>1, <3>2, <3>3, <3>4
    <2> QED
      BY <1>0, <2>2, <2>6, <2>7, <2>8, <2>9 DEF w
  <1> QED
    BY <1>1, <1>2

\* Insert puts the member in front; of the others it may lose the last one.
LEMMA InsertIs ==
    ASSUME NEW ts, ListOK(ts), NEW m
    PROVE  /\ ListOK(Insert(ts, m)) /\ Has(Insert(ts, m), m.key) /\ Member(Insert(ts, m), m.key) = m
           /\ \A k : (k # m.key /\ Has(Insert(ts, m), k)) =>
                        Has(ts, k) /\ Member(Insert(ts, m), k) = Member(ts, k)
  <1> DEFINE r == Without(ts, m.key)
             q == IF Len(r) < MaxMembers THEN r ELSE Front(r)
             w == <<m>> \o q
  <1>1. w = Insert(ts, m)
    BY DEF Insert
  <1>2. /\ ListOK(r) /\ ~ Has(r, m.key)
        /\ \A k : k # m.key => (Has(r, k) => Has(ts, k) /\ Member(r, k) = Member(ts, k))
    BY WithoutIs
  <1> HIDE DEF r
  <1>3. Len(r) \in Nat /\ DOMAIN r = 1..Len(r) /\ r \in Seq(ToSet(r))
    BY <1>2 DEF ListOK
  <1>4. q \in Seq(ToSet(q)) /\ Len(q) =< Len(r) /\ Len(q) \in Nat /\ \A j \in 1..Len(q) : q[j] = r[j] /\ j \in DOMAIN r
    <2>1. CASE Len(r) < MaxMembers
      BY <1>3, <2>1
    <2>2. CASE ~ (Len(r) < MaxMembers)
      <3>1. Len(r) > 0
        BY <1>3, <2>2, BoundsAssumption
      <3>2. q = Front(r)
        <4>1. q = IF Len(r) < MaxMembers THEN r ELSE Front(r)
          BY Zenon
        <4> HIDE DEF q
        <4> QED
          BY <2>2, <4>1
      <3> HIDE DEF q
      <3>3. q \in Seq(ToSet(q)) /\ Len(q) = Len(r) - 1 /\ \A j \in 1..(Len(r) - 1) : q[j] = r[j]
        BY <1>3, <3>1, <3>2, FrontIs, Zenon
      <3>4. Len(q) \in Nat /\ Len(q) =< Len(r) /\ \A j \in 1..Len(q) : j \in DOMAIN r
        BY <1>3, <3>1, <3>3
      <3> QED
        BY <3>3, <3>4
    <2> QED
      BY <2>1, <2>2
  <1> HIDE DEF q
  <1>5. /\ w \in Seq(ToSet(w)) /\ Len(w) = Len(q) + 1 /\ w[1] = m
        /\ \A j \in 2..(Len(q) + 1) : w[j] = r[j - 1] /\ j - 1 \in DOMAIN r
    <2> DEFINE S == {m} \cup ToSet(q)
    <2>1. q \in Seq(S) /\ <<m>> \in Seq(S) /\ Len(<<m>>) = 1 /\ <<m>>[1] = m
      BY <1>4
    <2> HIDE DEF S
    <2>2. /\ w \in Seq(S) /\ Len(w) = 1 + Len(q)
          /\ \A j \in 1..(1 + Len(q)) : w[j] = IF j =< 1 THEN <<m>>[j] ELSE q[j - 1]
      BY <2>1, ConcatProperties
    <2>3. w \in Seq(ToSet(w))
      BY <2>2, SeqOfSelf
    <2> HIDE DEF w
    <2>4. Len(w) = Len(q) + 1 /\ w[1] = m
      BY <1>4, <2>1, <2>2
    <2>5. ASSUME NEW j \in 2..(Len(q) + 1) PROVE w[j] = r[j - 1] /\ j - 1 \in DOMAIN r
      <3>1. j \in 1..(1 + Len(q)) /\ ~ (j =< 1) /\ j - 1 \in 1..Len(q)
        BY <1>4
      <3> QED
        BY <1>4, <2>2, <3>1
    <2> QED
      BY <2>3, <2>4, <2>5
  <1> HIDE DEF w
  <1>6. \A j \in DOMAIN w : j \in Nat /\ (j = 1 \/ (j \in 2..(Len(q) + 1) /\ w[j] = r[j - 1] /\ j - 1 \in DOMAIN r))
    <2>1. DOMAIN w = 1..(Len(q) + 1)
      BY <1>5
    <2> QED
      BY <1>4, <1>5, <2>1
  <1>7. \A j \in DOMAIN r : r[j].key # m.key
    BY <1>2 DEF Has
  <1>8. ListOK(w)
    <2>1. ASSUME NEW j \in DOMAIN w, NEW l \in DOMAIN w, w[j].key = w[l].key PROVE j = l
      <3>1. CASE j = 1 \/ l = 1
        BY <1>5, <1>6, <1>7, <2>1, <3>1
      <3>2. CASE j # 1 /\ l # 1
        <4>1. j - 1 = l - 1
          BY <1>2, <1>6, <2>1, <3>2 DEF ListOK
        <4> QED
          BY <1>6, <4>1
      <3> QED
        BY <3>1, <3>2
    <2> QED
      BY <1>5, <2>1 DEF ListOK
  <1>9. 1 \in DOMAIN w
    BY <1>4, <1>5
  <1>10. Has(w, m.key) /\ Member(w, m.key) = m
    BY <1>5, <1>8, <1>9, MemberIs
  <1>11. ASSUME NEW k, k # m.key, Has(w, k) PROVE Has(ts, k) /\ Member(w, k) = Member(ts, k)
    <2>1. PICK j \in DOMAIN w : w[j].key = k
      BY <1>11 DEF Has
    <2>2. w[j] = r[j - 1] /\ j - 1 \in DOMAIN r
      BY <1>5, <1>6, <1>11, <2>1
    <2>3. Has(r, k) /\ Member(r, k) = w[j] /\ Member(w, k) = w[j]
      BY <1>2, <1>8, <2>1, <2>2, MemberIs
    <2> QED
      BY <1>2, <1>11, <2>3
  <1> QED
    BY <1>1, <1>8, <1>10, <1>11

\* Inject leaves its own sw member and no response.
LEMMA InjectIs ==
    ASSUME NEW ts, ListOK(ts), NEW id, NEW b
    PROVE  /\ ListOK(Inject(ts, id, b)) /\ ~ Has(Inject(ts, id, b), xtraceOptRespKey)
           /\ Has(Inject(ts, id, b), SwKey) /\ Member(Inject(ts, id, b), SwKey).sampled = b
  <1> DEFINE m == SwMember(id, b)
             w == Insert(ts, m)
  <1>1. m.key = SwKey /\ m.sampled = b /\ SwKey # xtraceOptRespKey
    BY DEF SwMember, SwKey, xtraceOptRespKey
  <1>2. Inject(ts, id, b) = Without(w, xtraceOptRespKey)
    BY DEF Inject
  <1> HIDE DEF m
  <1>3. ListOK(w) /\ Has(w, SwKey) /\ Member(w, SwKey) = m
    BY <1>1, InsertIs
  <1> HIDE DEF w
  <1> QED
    BY <1>1, <1>2, <1>3, WithoutIs

-----------------------------------------------------------------------------
(* The response.                                                           *)

\* Escaping is undone, and its result can be stored.
LEMMA EscapeIs ==
    ASSUME NEW S, NEW text \in Seq(S), \A i \in DOMAIN text : text[i] \notin {"....", "####"}
    PROVE  Unescape(Escape(text)) = text /\ ToSet(Escape(text)) \cap {",", "="} = {}
  <1>1. /\ DOMAIN Escape(text) = DOMAIN text
        /\ \A i \in DOMAIN text : /\ text[i] = "," => Escape(text)[i] = "...."
                                  /\ text[i] = "=" => Escape(text)[i] = "####"
                                  /\ text[i] \notin {",", "="} => Escape(text)[i] = text[i]
    BY DEF Escape
  <1>2. \A i \in DOMAIN text : Unescape(Escape(text))[i] = text[i]
    BY <1>1 DEF Unescape
  <1>3. DOMAIN Unescape(Escape(text)) = DOMAIN text
    BY <1>1 DEF Unescape
  <1>4. Unescape(Escape(text)) = [i \in DOMAIN Unescape(Escape(text)) |-> Unescape(Escape(text))[i]]
    BY DEF Unescape
  <1>5. text = [i \in DOMAIN text |-> text[i]]
    OBVIOUS
  <1>6. \A i \in DOMAIN text : Escape(text)[i] \notin {",", "="}
    BY <1>1
  <1>7. ToSet(Escape(text)) \cap {",", "="} = {}
    BY <1>1, <1>6 DEF ToSet
  <1>8. Unescape(Escape(text)) = text
    BY <1>2, <1>3, <1>4, <1>5
  <1> QED
    BY <1>7, <1>8

\* What is stored comes back.
LEMMA StoredComesBack ==
    ASSUME NEW S, NEW text \in Seq(S), \A i \in DOMAIN text : text[i] \notin {"....", "####"},
           NEW ts, ListOK(ts)
    PROVE  ListOK(SetInternalState(ts, text)) /\ GetInternalState(SetInternalState(ts, text)) = text
  <1> DEFINE m == [key |-> xtraceOptRespKey, text |-> Escape(text)]
  <1>1. SetInternalState(ts, text) = Insert(ts, m)
    BY EscapeIs DEF SetInternalState
  <1>2. m.key = xtraceOptRespKey /\ m.text = Escape(text)
    OBVIOUS
  <1> HIDE DEF m
  <1>3. ListOK(Insert(ts, m)) /\ Has(Insert(ts, m), xtraceOptRespKey) /\ Member(Insert(ts, m), xtraceOptRespKey) = m
    BY <1>2, InsertIs
  <1> QED
    BY <1>1, <1>2, <1>3, EscapeIs DEF GetInternalState

\* Three words at the end of a text.
LEMMA SuffixIs ==
    ASSUME NEW S, NEW t \in Seq(S), Len(t) >= 3, NEW a, NEW b, NEW c
    PROVE  IsSuffix(<<a, b, c>>, t) <=> (t[Len(t) - 2] = a /\ t[Len(t) - 1] = b /\ t[Len(t)] = c)
  <1> DEFINE s == <<a, b, c>>
             n == Len(t)
  <1>1. n \in Nat /\ n >= 3 /\ Len(s) = 3 /\ s[1] = a /\ s[2] = b /\ s[3] = c
    OBVIOUS
  <1>2. /\ Reverse(s) = [i \in 1..3 |-> s[(3 - i) + 1]]
        /\ Reverse(t) = [i \in 1..n |-> t[(n - i) + 1]]
    BY <1>1 DEF Reverse
  <1> HIDE DEF s, n
  <1> DEFINE rs == Reverse(s)
             rt == Reverse(t)
  <1>3. Len(rs) = 3 /\ Len(rt) = n
    BY <1>1, <1>2
  <1>4. rs[1] = c /\ rs[2] = b /\ rs[3] = a
    BY <1>1, <1>2
  <1>5. rt[1] = t[n] /\ rt[2] = t[n - 1] /\ rt[3] = t[n - 2]
    <2>1. 1 \in 1..n /\ 2 \in 1..n /\ 3 \in 1..n /\ (n - 1) + 1 = n /\ (n - 2) + 1 = n - 1 /\ (n - 3) + 1 = n - 2
      BY <1>1
    <2> QED
      BY <1>2, <2>1
  <1>6. IsSuffix(s, t) <=> SubSeq(rs, 1, 3) = SubSeq(rt, 1, 3)
    BY <1>1, <1>3 DEF IsSuffix, IsPrefix
  <1> HIDE DEF rs, rt
  <1>7. /\ SubSeq(rs, 1, 3) = [i \in 1..3 |-> rs[i]]
        /\ SubSeq(rt, 1, 3) = [i \in 1..3 |-> rt[i]]
    OBVIOUS
  <1>8. SubSeq(rs, 1, 3) = SubSeq(rt, 1, 3) <=> (rs[1] = rt[1] /\ rs[2] = rt[2] /\ rs[3] = rt[3])
    <2>1. \A i \in 1..3 : i = 1 \/ i = 2 \/ i = 3
      OBVIOUS
    <2> QED
      BY <1>7, <2>1
  <1> QED
    BY <1>4, <1>5, <1>6, <1>8 DEF s, n

\* Short texts.
LEMMA ThreeWords ==
    \A S : \A a, b, c \in S :
        /\ <<a, b, c>> \in Seq(S) /\ Len(<<a, b, c>>) = 3
        /\ <<a, b, c>>[1] = a /\ <<a, b, c>>[2] = b /\ <<a, b, c>>[3] = c
  OBVIOUS

\* The same for four.
LEMMA FourWords ==
    \A S : \A a, b, c, d \in S : <<a, b, c, d>> \in Seq(S) /\ Len(<<a, b, c, d>>) = 4
  OBVIOUS

\* The words of a response.
LEMMA TextIs ==
    ASSUME NEW sg \in {"None", "Valid", "Invalid"}, NEW rsp,
           sg # "Invalid" => rsp \notin {"....", "####"}
    PROVE  LET t == ResponseText(sg, rsp)
           IN  /\ \E S : t \in Seq(S)
               /\ t # <<>>
               /\ \A i \in DOMAIN t : t[i] \notin {"....", "####"}
               /\ IsSuffix(<<"trigger-trace", "=", "ok">>, t) <=> (sg # "Invalid" /\ rsp = "ok")
  <1> DEFINE t == ResponseText(sg, rsp)
             word == IF sg = "Invalid" THEN "refused" ELSE rsp
             S == {word, "trigger-trace", "=", "auth", "ok", ";", "refused"}
  <1>1. "trigger-trace" \in S /\ "=" \in S /\ (sg # "Invalid" => rsp \in S) /\ "auth" \in S /\ "ok" \in S /\ ";" \in S /\ "refused" \in S
    OBVIOUS
  <1>2. \A e \in S : e \notin {"....", "####"}
    OBVIOUS
  <1> HIDE DEF S
  <1>3. ASSUME t \in Seq(S), Len(t) >= 3
        PROVE  (\E T : t \in Seq(T)) /\ t # <<>> /\ (\A i \in DOMAIN t : t[i] \notin {"....", "####"})
    <2>1. \A i \in DOMAIN t : t[i] \in S
      BY <1>3
    <2>2. t # <<>>
      BY <1>3
    <2> QED
      BY <1>2, <1>3, <2>1, <2>2
  <1> DEFINE ttOk == <<"trigger-trace", "=", "ok">>
  <1>4. ASSUME t \in Seq(S), Len(t) >= 3
        PROVE  IsSuffix(ttOk, t) <=>
                 (t[Len(t) - 2] = "trigger-trace" /\ t[Len(t) - 1] = "=" /\ t[Len(t)] = "ok")
    BY <1>4, SuffixIs, Zenon
  <1> HIDE DEF ttOk
  <1>5. CASE sg = "None"
    <2>1. t = <<"trigger-trace", "=", rsp>>
      BY <1>5 DEF ResponseText
    <2> HIDE DEF t, ttOk
    <2>2. t \in Seq(S) /\ Len(t) = 3 /\ t[1] = "trigger-trace" /\ t[2] = "=" /\ t[3] = rsp
      BY <1>1, <1>5, <2>1, ThreeWords, Zenon
    <2>3. IsSuffix(ttOk, t) <=> (t[3 - 2] = "trigger-trace" /\ t[3 - 1] = "=" /\ t[3] = "ok")
      BY <1>4, <2>2
    <2>4. IsSuffix(ttOk, t) <=> rsp = "ok"
      BY <2>2, <2>3
    <2> QED
      BY <1>3, <1>5, <2>2, <2>4 DEF t, ttOk
  <1>6. CASE sg = "Valid"
    <2> DEFINE front == <<"auth", "=", "ok", ";">>
               back  == <<"trigger-trace", "=", rsp>>
    <2>1. t = front \o back
      BY <1>6 DEF ResponseText
    <2>2. front \in Seq(S) /\ back \in Seq(S) /\ Len(front) = 4 /\ Len(back) = 3
          /\ back[1] = "trigger-trace" /\ back[2] = "=" /\ back[3] = rsp
      BY <1>1, <1>6, ThreeWords, FourWords, Zenon
    <2> HIDE DEF t, front, back
    <2>3. /\ t \in Seq(S) /\ Len(t) = 4 + 3
          /\ \A i \in 1..(4 + 3) : t[i] = IF i =< 4 THEN front[i] ELSE back[i - 4]
      <3>1. /\ front \o back \in Seq(S) /\ Len(front \o back) = Len(front) + Len(back)
            /\ \A i \in 1..(Len(front) + Len(back)) :
                 (front \o back)[i] = IF i =< Len(front) THEN front[i] ELSE back[i - Len(front)]
        BY <2>2, ConcatProperties, Zenon
      <3> QED
        BY <2>1, <2>2, <3>1
    <2>4. Len(t) = 7 /\ t[5] = "trigger-trace" /\ t[6] = "=" /\ t[7] = rsp
      BY <2>2, <2>3
    <2>5. IsSuffix(ttOk, t) <=> (t[7 - 2] = "trigger-trace" /\ t[7 - 1] = "=" /\ t[7] = "ok")
      BY <1>4, <2>3, <2>4
    <2>6. IsSuffix(ttOk, t) <=> rsp = "ok"
      BY <2>4, <2>5
    <2> QED
      BY <1>3, <1>6, <2>3, <2>4, <2>6 DEF t, ttOk
  <1>7. CASE sg = "Invalid"
    <2>1. t = <<"auth", "=", "refused">>
      BY <1>7 DEF ResponseText
    <2> HIDE DEF t, ttOk
    <2>2. t \in Seq(S) /\ Len(t) = 3 /\ t[1] = "auth" /\ t[2] = "=" /\ t[3] = "refused"
      BY <1>1, <2>1, ThreeWords, Zenon
    <2>3. IsSuffix(ttOk, t) <=> (t[3 - 2] = "trigger-trace" /\ t[3 - 1] = "=" /\ t[3] = "ok")
      BY <1>4, <2>2
    <2>4. ~ IsSuffix(ttOk, t)
      BY <2>2, <2>3
    <2> QED
      BY <1>3, <1>7, <2>2, <2>4 DEF t, ttOk
  <1> QED
    BY <1>5, <1>6, <1>7

-----------------------------------------------------------------------------
(* The decision.                                                           *)

\* What a decision says, given the answer of the bucket.
LEMMA DecisionIs ==
    ASSUME NEW s, NEW tt, NEW sw, NEW ret \in BOOLEAN
    PROVE  /\ SamplingResult(SampleDecision(s, "none", tt, sw, ret)) = "RecordAndSample"
                <=> ret /\ Enabled(s.flags)
           /\ SampleDecision(s, "none", tt, sw, ret).rsp
                = IF TriggerPath(tt, sw) THEN TriggerResponse(s.flags, tt, ret)
                  ELSE IF TtRequested(tt) THEN "ignored" ELSE "not-requested"
  <1> DEFINE d == SampleDecision(s, "none", tt, sw, ret)
  <1>1. /\ d.trace = ret /\ d.enabled = Enabled(s.flags)
        /\ d.rsp = IF TriggerPath(tt, sw) THEN TriggerResponse(s.flags, tt, ret)
                   ELSE IF TtRequested(tt) THEN "ignored" ELSE "not-requested"
    <2>1. mergeURLSetting(s, "none") = s.flags
      BY DEF mergeURLSetting
    <2>2. CASE TriggerPath(tt, sw)
      BY <2>1, <2>2 DEF SampleDecision
    <2>3. CASE ~ TriggerPath(tt, sw)
      BY <2>1, <2>3 DEF SampleDecision
    <2> QED
      BY <2>2, <2>3
  <1> HIDE DEF d
  <1>2. SamplingResult(d) = "RecordAndSample" <=> d.enabled /\ d.trace
    BY DEF SamplingResult
  <1> QED
    BY <1>1, <1>2 DEF d

\* A continued trace takes no token and follows its parent; a client is told ok
\* for a token.
LEMMA ReceiveIs ==
    ASSUME NEW s, NEW dice, NEW ok \in BOOLEAN, NEW h \in OptionHeaders,
           NEW sw \in {"none", "sampled", "unsampled"}
    PROVE  LET sg    == SignatureState(h, s)
               tt    == getTtMode(h.triggerTrace, sg)
               wants == s # NoPolicy /\ WantsTrace(s, mergeURLSetting(s, "none"), tt, sw, dice)
               asks  == wants /\ RateLimits(sw)
               ret   == wants /\ (asks => ok)
               d     == IF s = NoPolicy THEN NoSettingsDecision
                        ELSE SampleDecision(s, "none", tt, sw, ret)
               takes == SamplingResult(d) = "RecordAndSample"
           IN  /\ sg \in {"None", "Valid", "Invalid"}
               /\ sw # "none" => ~ (asks /\ ret)
               /\ sw = "unsampled" => ~ takes
               /\ (sw = "sampled" /\ s # NoPolicy /\ "SAMPLE_THROUGH_ALWAYS" \in s.flags) => takes
               /\ sg # "Invalid" => d.rsp \notin {"....", "####"}
               /\ (sg # "Invalid" /\ d.rsp = "ok") <=> (asks /\ ret /\ h.triggerTrace)
  <1> DEFINE sg    == SignatureState(h, s)
             tt    == getTtMode(h.triggerTrace, sg)
             wants == s # NoPolicy /\ WantsTrace(s, mergeURLSetting(s, "none"), tt, sw, dice)
             asks  == wants /\ RateLimits(sw)
             ret   == wants /\ (asks => ok)
             d     == IF s = NoPolicy THEN NoSettingsDecision
                      ELSE SampleDecision(s, "none", tt, sw, ret)
             takes == SamplingResult(d) = "RecordAndSample"
  <1>1. sg \in {"None", "Valid", "Invalid"} /\ h.triggerTrace \in BOOLEAN
    BY DEF SignatureState, OptionHeaders
  <1>2. /\ tt \in {"NotPresent", "Invalid", "Relaxed", "Strict"}
        /\ tt # "NotPresent" <=> h.triggerTrace
        /\ tt = "Invalid" => sg = "Invalid"
        /\ tt \in {"Relaxed", "Strict"} => sg # "Invalid"
    BY <1>1 DEF getTtMode
  <1>3. wants <=> /\ s # NoPolicy
                  /\ CASE tt # "NotPresent" /\ sw = "none" -> tt # "Invalid" /\ "TRIGGER_TRACE" \in s.flags
                       [] tt = "NotPresent" /\ sw = "none" -> "SAMPLE_START" \in s.flags /\ shouldSample(s.value, dice)
                       [] sw = "sampled" -> \/ "SAMPLE_THROUGH_ALWAYS" \in s.flags
                                            \/ "SAMPLE_THROUGH" \in s.flags /\ shouldSample(s.value, dice)
                       [] sw = "unsampled" -> FALSE
    <2>1. mergeURLSetting(s, "none") = s.flags
      BY DEF mergeURLSetting
    <2> QED
      BY <2>1 DEF WantsTrace, TriggerPath, TtRequested, Continued, TriggerTraceEnabled
  <1>4. asks <=> wants /\ sw = "none"
    BY DEF RateLimits, Continued
  <1>5. ret \in BOOLEAN /\ (ret <=> wants /\ (asks => ok))
    OBVIOUS
  <1>6. CASE s = NoPolicy
    <2>1. d = NoSettingsDecision /\ ~ wants
      BY <1>6
    <2>2. d.rsp = "settings-not-available" /\ ~ takes
      BY <2>1 DEF NoSettingsDecision, SamplingResult
    <2> HIDE DEF sg, tt, d, takes, wants
    <2>3. d.rsp \notin {"....", "####", "ok"}
      BY <2>2
    <2> QED
      BY <1>1, <1>6, <2>1, <2>2, <2>3 DEF sg, tt, d, takes, wants
  <1>7. CASE s # NoPolicy
    <2>1. /\ takes <=> ret /\ Enabled(s.flags)
          /\ d.rsp = IF TriggerPath(tt, sw) THEN TriggerResponse(s.flags, tt, ret)
                     ELSE IF TtRequested(tt) THEN "ignored" ELSE "not-requested"
      BY <1>5, <1>7, DecisionIs
    <2> HIDE DEF sg, tt, wants, asks, ret, d, takes
    <2>2. "SAMPLE_THROUGH_ALWAYS" \in s.flags => Enabled(s.flags)
      BY DEF Enabled
    <2>3. /\ sw # "none" => ~ (asks /\ ret)
          /\ sw = "unsampled" => ~ takes
          /\ (sw = "sampled" /\ "SAMPLE_THROUGH_ALWAYS" \in s.flags) => takes
      BY <1>3, <1>4, <1>5, <1>7, <2>1, <2>2
    <2>4. /\ sg # "Invalid" => d.rsp \notin {"....", "####"}
          /\ (sg # "Invalid" /\ d.rsp = "ok") <=> (asks /\ ret /\ h.triggerTrace)
      <3>1. CASE tt = "Invalid"
        BY <1>2, <1>3, <1>4, <1>7, <3>1
      <3>2. CASE tt \in {"Relaxed", "Strict"} /\ sw = "none"
        <4>1. d.rsp = TriggerResponse(s.flags, tt, ret)
          BY <2>1, <3>2 DEF TriggerPath, TtRequested, Continued
        <4>2. CASE "TRIGGER_TRACE" \in s.flags
          <5>1. d.rsp = IF ret THEN "ok" ELSE "rate-exceeded"
            BY <3>2, <4>1, <4>2 DEF TriggerResponse, TriggerTraceEnabled, TtEnabled
          <5> QED
            BY <1>1, <1>2, <1>3, <1>4, <1>5, <1>7, <3>2, <4>2, <5>1
        <4>3. CASE "TRIGGER_TRACE" \notin s.flags
          <5>1. d.rsp = IF Enabled(s.flags) THEN "trigger-tracing-disabled" ELSE "tracing-disabled"
            BY <3>2, <4>1, <4>3 DEF TriggerResponse, TriggerTraceEnabled, TtEnabled
          <5> QED
            BY <1>1, <1>2, <1>3, <1>4, <1>5, <1>7, <3>2, <4>3, <5>1
        <4> QED
          BY <4>2, <4>3
      <3>3. CASE tt = "NotPresent" \/ (tt \in {"Relaxed", "Strict"} /\ sw # "none")
        <4>1. d.rsp \in {"ignored", "not-requested"}
          BY <2>1, <3>3 DEF TriggerPath, TtRequested, Continued
        <4> QED
          BY <1>2, <1>4, <3>3, <4>1
      <3> QED
        BY <1>2, <3>1, <3>2, <3>3
    <2> QED
      BY <1>1, <1>7, <2>3, <2>4 DEF sg, tt, wants, asks, ret, d, takes
  <1> QED
    BY <1>6, <1>7

-----------------------------------------------------------------------------
(* The path of a trace.                                                    *)

\* What a client is told when its trigger trace was granted.
TtOk == <<"trigger-trace", "=", "ok">>

\* The response that travels with the span tells the truth.
Truthful(text) ==
    /\ (text # <<>>) <=> opts.present
    /\ IsSuffix(TtOk, text) <=> (took /\ opts.triggerTrace)

\* What is on the wire: a trace state without a response, of a parent if it has
\* members, whose sw member says what the library upstream has decided.
WireInv ==
    /\ ListOK(tracestate) /\ ~ Has(tracestate, xtraceOptRespKey)
    /\ tracestate # <<>> => parent # NoParent
    /\ upstream = GetSwTraceState(parent, tracestate)
    /\ opts \in OptionHeaders

\* What a service holds.
SpanInv ==
    /\ span = [id |-> span.id, sampled |-> span.sampled, tracestate |-> span.tracestate]
    /\ ListOK(span.tracestate)
    /\ stage # "wire" => span.id \in Nat \ {0}

\* The invariant of a trace's path.
PathInv ==
    /\ stage \in {"wire", "started", "serving"} /\ hops \in Nat
    /\ WireInv /\ SpanInv
    /\ DecisionFollowsUpstream
    /\ stage = "started" => Truthful(GetInternalState(span.tracestate))
    /\ stage = "serving" => Truthful(response)

\* An empty trace state is a list.
LEMMA NoMembers == ListOK(<<>>) /\ \A key : ~ Has(<<>>, key)
  BY EmptySeq DEF ListOK, Has

\* A request without options is answered with nothing.
LEMMA NothingToSay ==
    ASSUME NEW ts, ~ Has(ts, xtraceOptRespKey), NEW h \in OptionHeaders, ~ h.present
    PROVE  GetInternalState(ts) = <<>> /\ ~ IsSuffix(TtOk, <<>>) /\ ~ h.triggerTrace
  <1>1. ~ IsSuffix(TtOk, <<>>)
    <2>1. Len(Reverse(TtOk)) = 3 /\ Len(Reverse(<<>>)) = 0
      BY DEF TtOk, Reverse
    <2> QED
      BY <2>1 DEF IsSuffix, IsPrefix
  <1> QED
    BY <1>1 DEF GetInternalState, OptionHeaders

\* A trace begins without anything.
LEMMA PathInit == Init => PathInv
  <1> SUFFICES ASSUME Init PROVE PathInv
    OBVIOUS
  <1> USE DEF Init
  <1>1. WireInv
    BY NoMembers DEF WireInv, GetSwTraceState
  <1>2. SpanInv
    BY NoMembers DEF SpanInv
  <1> QED
    BY <1>1, <1>2 DEF PathInv, DecisionFollowsUpstream

\* A service receives the request and decides.
LEMMA ReceiveStep ==
    ASSUME PathInv, NEW s, NEW dice, NEW ok \in BOOLEAN, Receive(s, dice, ok)
    PROVE  PathInv'
  <1> DEFINE sg    == SignatureState(opts, s)
             tt    == getTtMode(opts.triggerTrace, sg)
             sw    == GetSwTraceState(parent, tracestate)
             wants == s # NoPolicy /\ WantsTrace(s, mergeURLSetting(s, "none"), tt, sw, dice)
             asks  == wants /\ RateLimits(sw)
             ret   == wants /\ (asks => ok)
             d     == IF s = NoPolicy THEN NoSettingsDecision
                      ELSE SampleDecision(s, "none", tt, sw, ret)
             takes == SamplingResult(d) = "RecordAndSample"
             ts    == hydrateTraceState(parent, tracestate, opts, sg, d.rsp)
  <1>1. /\ stage' = "started" /\ hops' = hops + 1 /\ policy' = s /\ took' = (asks /\ ret)
        /\ span' = [id |-> hops', sampled |-> takes, tracestate |-> ts]
        /\ UNCHANGED <<parent, tracestate, opts, response, upstream>>
    BY DEF Receive
  <1>2. sw = upstream /\ sw \in {"none", "sampled", "unsampled"} /\ opts \in OptionHeaders
    BY DEF PathInv, WireInv, GetSwTraceState
  <1>3. /\ sg \in {"None", "Valid", "Invalid"}
        /\ sw # "none" => ~ (asks /\ ret)
        /\ sw = "unsampled" => ~ takes
        /\ (sw = "sampled" /\ s # NoPolicy /\ "SAMPLE_THROUGH_ALWAYS" \in s.flags) => takes
        /\ sg # "Invalid" => d.rsp \notin {"....", "####"}
        /\ (sg # "Invalid" /\ d.rsp = "ok") <=> (asks /\ ret /\ opts.triggerTrace)
    <2> HIDE DEF sw
    <2> QED
      BY <1>2, ReceiveIs
  <1> HIDE DEF sg, sw, asks, ret, d, takes
  <1> DEFINE base == IF parent = NoParent THEN <<>> ELSE tracestate
             text == ResponseText(sg, d.rsp)
  <1>4. ListOK(base) /\ ~ Has(base, xtraceOptRespKey)
    BY NoMembers DEF PathInv, WireInv
  <1>5. ts = IF opts.present THEN SetInternalState(base, text) ELSE base
    BY DEF hydrateTraceState
  <1>6. /\ ListOK(ts)
        /\ (GetInternalState(ts) # <<>>) <=> opts.present
        /\ IsSuffix(TtOk, GetInternalState(ts)) <=> (asks /\ ret /\ opts.triggerTrace)
    <2> HIDE DEF base, ts
    <2>1. CASE opts.present
      <3>1. /\ \E S : text \in Seq(S)
            /\ text # <<>>
            /\ \A i \in DOMAIN text : text[i] \notin {"....", "####"}
            /\ IsSuffix(TtOk, text) <=> (sg # "Invalid" /\ d.rsp = "ok")
        BY <1>3, TextIs DEF TtOk
      <3> HIDE DEF text
      <3>2. PICK S : text \in Seq(S)
        BY <3>1
      <3>3. ListOK(SetInternalState(base, text)) /\ GetInternalState(SetInternalState(base, text)) = text
        BY <1>4, <3>1, <3>2, StoredComesBack
      <3> QED
        BY <1>3, <1>5, <2>1, <3>1, <3>3
    <2>2. CASE ~ opts.present
      BY <1>2, <1>4, <1>5, <2>2, NothingToSay
    <2> QED
      BY <2>1, <2>2
  <1> HIDE DEF ts
  <1>7. WireInv'
    BY <1>1 DEF PathInv, WireInv
  <1>8. SpanInv'
    BY <1>1, <1>6 DEF PathInv, SpanInv
  <1>9. DecisionFollowsUpstream'
    BY <1>1, <1>2, <1>3 DEF DecisionFollowsUpstream
  <1>10. Truthful(GetInternalState(span.tracestate))'
    BY <1>1, <1>6 DEF Truthful
  <1> QED
    BY <1>1, <1>7, <1>8, <1>9, <1>10 DEF PathInv

\* A service sends the next request.
LEMMA SendStep ==
    ASSUME PathInv, NEW h \in OptionHeaders, Send(h) \/ SendWithoutSpan(h)
    PROVE  PathInv'
  <1>1. stage' = "wire" /\ UNCHANGED <<hops, span>> /\ opts' = h
    BY DEF Send, SendWithoutSpan
  <1>2. SpanInv'
    BY <1>1 DEF PathInv, SpanInv
  <1>3. WireInv'
    <2>1. CASE Send(h)
      <3> DEFINE w == Inject(span.tracestate, span.id, span.sampled)
      <3>1. /\ tracestate' = w /\ parent' = [span |-> span.id, sampled |-> span.sampled]
            /\ upstream' = IF span.sampled THEN "sampled" ELSE "unsampled"
            /\ span.id # 0
        BY <2>1 DEF Send, PathInv, SpanInv
      <3>2. ListOK(w) /\ ~ Has(w, xtraceOptRespKey) /\ Has(w, SwKey) /\ Member(w, SwKey).sampled = span.sampled
        BY InjectIs DEF PathInv, SpanInv
      <3> HIDE DEF w
      <3>3. parent' # NoParent
        BY <3>1 DEF NoParent
      <3> QED
        BY <1>1, <3>1, <3>2, <3>3 DEF WireInv, GetSwTraceState
    <2>2. CASE SendWithoutSpan(h)
      BY <1>1, <2>2, NoMembers DEF SendWithoutSpan, WireInv, GetSwTraceState
    <2> QED
      BY <2>1, <2>2
  <1> QED
    BY <1>1, <1>2, <1>3 DEF PathInv, DecisionFollowsUpstream

\* The same with the headers of the request it serves.
LEMMA CopiedStep == PathInv /\ SendCopied => PathInv'
  <1> SUFFICES ASSUME PathInv, SendCopied PROVE PathInv'
    OBVIOUS
  <1> DEFINE w == Inject(tracestate, 0, FALSE)
  <1>1. /\ stage' = "wire" /\ UNCHANGED <<hops, span, opts, parent>> /\ tracestate' = w
        /\ upstream' = "unsampled" /\ parent # NoParent
    BY DEF SendCopied, PathInv, WireInv
  <1>2. ListOK(w) /\ ~ Has(w, xtraceOptRespKey) /\ Has(w, SwKey) /\ Member(w, SwKey).sampled = FALSE
    BY InjectIs DEF PathInv, WireInv
  <1> HIDE DEF w
  <1>3. WireInv'
    BY <1>1, <1>2 DEF PathInv, WireInv, GetSwTraceState
  <1>4. SpanInv'
    BY <1>1 DEF PathInv, SpanInv
  <1> QED
    BY <1>1, <1>3, <1>4 DEF PathInv, DecisionFollowsUpstream

\* What another service leaves alone.
LEMMA ForwardedIs ==
    ASSUME PathInv, Forwarded
    PROVE  stage' = "wire" /\ hops' = hops + 1 /\ opts' \in OptionHeaders /\ SpanInv'
  <1>1. NoHeaders \in OptionHeaders
    BY DEF NoHeaders, OptionHeaders
  <1> QED
    BY <1>1 DEF Forwarded, PathInv, WireInv, SpanInv

\* It keeps the sw member or loses it, and never changes it.
LEMMA ForwardStep ==
    ASSUME PathInv, NEW v \in Vendors, NEW b, ForwardOther(v, b)
    PROVE  PathInv'
  <1>0. stage' = "wire" /\ hops' = hops + 1 /\ opts' \in OptionHeaders /\ SpanInv'
    BY ForwardedIs DEF ForwardOther
  <1>1. /\ parent' = [span |-> hops + 1, sampled |-> b]
        /\ upstream' = IF ~ Has(tracestate', SwKey) THEN "none" ELSE upstream
        /\ tracestate' = tracestate \/ tracestate' = Insert(tracestate, Other(v))
    BY <1>0 DEF ForwardOther
  <1>2. parent' # NoParent
    BY <1>1 DEF NoParent, PathInv
  <1>3. Other(v).key = v /\ v # SwKey /\ v # xtraceOptRespKey
    BY VendorsAssumption DEF Other, SwKey, xtraceOptRespKey
  <1>4. ListOK(tracestate')
    BY <1>1, InsertIs DEF PathInv, WireInv
  <1>5. \A k : (k # v /\ Has(tracestate', k)) => Has(tracestate, k) /\ Member(tracestate', k) = Member(tracestate, k)
    <2>1. CASE tracestate' = tracestate
      BY <2>1
    <2>2. CASE tracestate' = Insert(tracestate, Other(v))
      BY <1>3, <2>2, InsertIs DEF PathInv, WireInv
    <2> QED
      BY <1>1, <2>1, <2>2
  <1>6. ~ Has(tracestate', xtraceOptRespKey)
    BY <1>3, <1>5 DEF PathInv, WireInv
  <1>7. Has(tracestate', SwKey) => parent # NoParent
    <2>1. Has(tracestate', SwKey) => tracestate # <<>>
      BY <1>3, <1>5, NoMembers
    <2> QED
      BY <2>1 DEF PathInv, WireInv
  <1>8. upstream' = GetSwTraceState(parent', tracestate')
    <2>1. CASE ~ Has(tracestate', SwKey)
      BY <1>1, <2>1 DEF GetSwTraceState
    <2>2. CASE Has(tracestate', SwKey)
      <3>1. Has(tracestate, SwKey) /\ Member(tracestate', SwKey) = Member(tracestate, SwKey)
        BY <1>3, <1>5, <2>2
      <3>2. upstream' = IF Member(tracestate, SwKey).sampled THEN "sampled" ELSE "unsampled"
        BY <1>1, <1>7, <2>2, <3>1 DEF PathInv, WireInv, GetSwTraceState
      <3> QED
        BY <1>2, <2>2, <3>1, <3>2 DEF GetSwTraceState
    <2> QED
      BY <2>1, <2>2
  <1>9. WireInv'
    BY <1>0, <1>2, <1>4, <1>6, <1>8 DEF WireInv
  <1> QED
    BY <1>0, <1>9 DEF PathInv, DecisionFollowsUpstream

\* Every step keeps the invariant.
LEMMA PathStep == PathInv /\ [Next]_vars => PathInv'
  <1> SUFFICES ASSUME PathInv, [Next]_vars PROVE PathInv'
    OBVIOUS
  <1>1. ASSUME NEW s \in Policies \cup {NoPolicy}, NEW dice \in Dice, NEW ok \in BOOLEAN, Receive(s, dice, ok)
        PROVE  PathInv'
    BY <1>1, ReceiveStep
  <1>2. CASE Respond
    <2>1. WireInv' /\ SpanInv' /\ DecisionFollowsUpstream'
      BY <1>2 DEF Respond, PathInv, WireInv, SpanInv, DecisionFollowsUpstream
    <2>2. Truthful(response)'
      BY <1>2 DEF Respond, PathInv, Truthful
    <2> QED
      BY <1>2, <2>1, <2>2 DEF Respond, PathInv
  <1>3. CASE StartChild
    <2>1. /\ span' = [span EXCEPT !.id = @ + MaxHops] /\ stage = "serving"
          /\ UNCHANGED <<stage, hops, parent, tracestate, opts, response, upstream, policy, took>>
      BY <1>3 DEF StartChild
    <2>2. /\ span'.id = span.id + MaxHops /\ span'.sampled = span.sampled /\ span'.tracestate = span.tracestate
          /\ span' = [id |-> span'.id, sampled |-> span'.sampled, tracestate |-> span'.tracestate]
      BY <2>1 DEF PathInv, SpanInv
    <2>3. SpanInv'
      BY <2>1, <2>2, BoundsAssumption DEF PathInv, SpanInv
    <2>4. WireInv' /\ DecisionFollowsUpstream' /\ Truthful(response)'
      BY <2>1, <2>2 DEF PathInv, WireInv, DecisionFollowsUpstream, Truthful
    <2> QED
      BY <2>1, <2>3, <2>4 DEF PathInv
  <1>4. ASSUME NEW h \in OptionHeaders, Send(h) \/ SendWithoutSpan(h) PROVE PathInv'
    BY <1>4, SendStep
  <1>5. CASE SendCopied
    BY <1>5, CopiedStep
  <1>6. ASSUME NEW v \in Vendors, NEW b \in BOOLEAN, ForwardOther(v, b) PROVE PathInv'
    BY <1>6, ForwardStep
  <1>7. CASE ForwardDropping
    <2>1. stage' = "wire" /\ hops' = hops + 1 /\ opts' \in OptionHeaders /\ SpanInv'
      BY <1>7, ForwardedIs DEF ForwardDropping
    <2>2. WireInv'
      BY <1>7, <2>1, NoMembers DEF ForwardDropping, WireInv, GetSwTraceState
    <2> QED
      BY <2>1, <2>2 DEF PathInv, DecisionFollowsUpstream
  <1>8. CASE NewTrace
    <2>1. WireInv' /\ SpanInv'
      BY <1>8, NoMembers DEF NewTrace, WireInv, SpanInv, GetSwTraceState
    <2> QED
      BY <1>8, <2>1 DEF NewTrace, PathInv, DecisionFollowsUpstream
  <1>9. CASE UNCHANGED vars
    BY <1>9 DEF vars, PathInv, WireInv, SpanInv, DecisionFollowsUpstream, Truthful
  <1> QED
    BY <1>1, <1>2, <1>3, <1>4, <1>5, <1>6, <1>7, <1>8, <1>9 DEF Next

\* The invariant holds of every behaviour.
LEMMA AlwaysPathInv == Spec => []PathInv
  BY PathInit, PathStep, PTL DEF Spec

\* GetSwTraceState and SampleRequest: over any chain of services of any kind, with
\* any trace state, a continued trace keeps the decision taken upstream.
THEOREM UpstreamIsFollowed == Spec => []DecisionFollowsUpstream
  <1>1. PathInv => DecisionFollowsUpstream
    BY DEF PathInv
  <1> QED
    BY <1>1, AlwaysPathInv, PTL

\* hydrateTraceState, NewBaseHandler and Inject: over any chain of services the
\* response to X-Trace-Options is given to the client that asked, and is true.
THEOREM ResponsesAreOwn == Spec => []ResponseIsOwn
  <1>1. PathInv => ResponseIsOwn
    BY DEF PathInv, ResponseIsOwn, Truthful, TtOk
  <1> QED
    BY <1>1, AlwaysPathInv, PTL

-----------------------------------------------------------------------------
(* Propagation: members of other vendors.                                  *)

\* The position of a member.
LEMMA WhereIs ==
    ASSUME NEW ts, ListOK(ts), NEW i \in DOMAIN ts
    PROVE  Where(ts, ts[i].key) = i
  <1>1. Has(ts, ts[i].key)
    BY DEF Has
  <1> QED
    BY <1>1, HasWhere DEF ListOK

\* Sequences with the same elements are the same.
LEMMA SameSeq ==
    ASSUME NEW s, NEW t, s \in Seq(ToSet(s)), t \in Seq(ToSet(t)), Len(s) = Len(t),
           \A i \in 1..Len(s) : s[i] = t[i]
    PROVE  s = t
  <1>1. s = [i \in 1..Len(s) |-> s[i]] /\ t = [i \in 1..Len(t) |-> t[i]]
    OBVIOUS
  <1> QED
    BY <1>1

\* A member in front of a list.
LEMMA ConsIs ==
    ASSUME NEW m, NEW q, q \in Seq(ToSet(q))
    PROVE  LET w == <<m>> \o q
           IN  /\ w \in Seq(ToSet(w)) /\ Len(w) = Len(q) + 1 /\ DOMAIN w = 1..(Len(q) + 1)
               /\ w[1] = m /\ \A j \in 1..Len(q) : w[j + 1] = q[j]
               /\ Len(q) \in Nat /\ DOMAIN q = 1..Len(q)
  <1> DEFINE S == {m} \cup ToSet(q)
             w == <<m>> \o q
  <1>0. Len(q) \in Nat /\ DOMAIN q = 1..Len(q)
    OBVIOUS
  <1>1. q \in Seq(S) /\ <<m>> \in Seq(S) /\ Len(<<m>>) = 1 /\ <<m>>[1] = m
    OBVIOUS
  <1> HIDE DEF S
  <1>2. /\ w \in Seq(S) /\ Len(w) = 1 + Len(q)
        /\ \A j \in 1..(1 + Len(q)) : w[j] = IF j =< 1 THEN <<m>>[j] ELSE q[j - 1]
    BY <1>1, ConcatProperties
  <1>3. w \in Seq(ToSet(w))
    BY <1>2, SeqOfSelf
  <1> HIDE DEF w
  <1>4. Len(w) = Len(q) + 1 /\ w[1] = m /\ DOMAIN w = 1..(Len(q) + 1)
    BY <1>0, <1>1, <1>2, <1>3
  <1>5. ASSUME NEW j \in 1..Len(q) PROVE w[j + 1] = q[j]
    <2>1. j + 1 \in 1..(1 + Len(q)) /\ ~ (j + 1 =< 1) /\ (j + 1) - 1 = j
      BY <1>0
    <2> QED
      BY <1>2, <2>1
  <1> QED
    BY <1>0, <1>3, <1>4, <1>5 DEF w

\* A member is taken from the front ...
LEMMA WithoutFirst ==
    ASSUME NEW m, NEW q, ListOK(<<m>> \o q), q \in Seq(ToSet(q))
    PROVE  Without(<<m>> \o q, m.key) = q /\ ~ Has(q, m.key) /\ ListOK(q)
  <1> DEFINE w == <<m>> \o q
             r == RemoveAt(w, 1)
  <1>1. /\ w \in Seq(ToSet(w)) /\ Len(w) = Len(q) + 1 /\ DOMAIN w = 1..(Len(q) + 1)
        /\ w[1] = m /\ \A j \in 1..Len(q) : w[j + 1] = q[j]
        /\ Len(q) \in Nat /\ DOMAIN q = 1..Len(q)
    BY ConsIs
  <1> HIDE DEF w
  <1>2. 1 \in DOMAIN w /\ 1 \in 1..Len(w)
    BY <1>1
  <1>3. Has(w, m.key) /\ Where(w, m.key) = 1
    BY <1>1, <1>2, WhereIs DEF w, Has
  <1>4. Without(w, m.key) = r
    BY <1>3 DEF Without
  <1>5. /\ r \in Seq(ToSet(r)) /\ Len(r) = Len(w) - 1
        /\ \A j \in 1..(Len(w) - 1) : r[j] = IF j < 1 THEN w[j] ELSE w[j + 1]
    BY <1>1, <1>2, RemoveAtIs
  <1> HIDE DEF r
  <1>6. Len(r) = Len(q)
    BY <1>1, <1>5
  <1>7. ASSUME NEW j \in 1..Len(q) PROVE r[j] = q[j]
    <2>1. j \in 1..(Len(w) - 1) /\ ~ (j < 1)
      BY <1>1
    <2>2. r[j] = w[j + 1]
      BY <1>5, <2>1
    <2> QED
      BY <1>1, <2>2
  <1>8. r = q
    BY <1>5, <1>6, <1>7, SameSeq
  <1> QED
    BY <1>4, <1>8, WithoutIs DEF w

\* ... or from behind it.
LEMMA WithoutLater ==
    ASSUME NEW m, NEW q, NEW key, ListOK(<<m>> \o q), q \in Seq(ToSet(q)), key # m.key
    PROVE  Without(<<m>> \o q, key) = <<m>> \o Without(q, key)
  <1> DEFINE w == <<m>> \o q
  <1>1. /\ w \in Seq(ToSet(w)) /\ Len(w) = Len(q) + 1 /\ DOMAIN w = 1..(Len(q) + 1)
        /\ w[1] = m /\ \A j \in 1..Len(q) : w[j + 1] = q[j]
        /\ Len(q) \in Nat /\ DOMAIN q = 1..Len(q)
    BY ConsIs
  <1>2. ListOK(q)
    BY WithoutFirst
  <1>3. Has(w, key) => Has(q, key)
    <2> HIDE DEF w
    <2>1. \A j \in DOMAIN w : j = 1 \/ (j - 1 \in DOMAIN q /\ w[j] = q[j - 1])
      <3> TAKE j \in DOMAIN w
      <3>1. j # 1 => j - 1 \in 1..Len(q) /\ (j - 1) + 1 = j
        BY <1>1
      <3> QED
        BY <1>1, <3>1
    <2> QED
      BY <1>1, <2>1 DEF Has
  <1>4. CASE ~ Has(q, key)
    BY <1>3, <1>4 DEF Without
  <1>5. CASE Has(q, key)
    <2> DEFINE i == Where(q, key)
               a == RemoveAt(w, i + 1)
               b == RemoveAt(q, i)
               c == <<m>> \o b
    <2>1. i \in 1..Len(q) /\ q[i].key = key
      BY <1>1, <1>5, HasWhere
    <2>2. i + 1 \in 1..Len(w) /\ i + 1 \in DOMAIN w /\ w[i + 1].key = key
      <3> HIDE DEF w, i
      <3> QED
        BY <1>1, <2>1
    <2>3. Has(w, key) /\ Where(w, key) = i + 1
      BY <2>2, WhereIs DEF Has
    <2>4. Without(w, key) = a /\ Without(q, key) = b
      BY <1>5, <2>3 DEF Without
    <2> HIDE DEF w, i
    <2>5. /\ a \in Seq(ToSet(a)) /\ Len(a) = Len(w) - 1
          /\ \A j \in 1..(Len(w) - 1) : a[j] = IF j < i + 1 THEN w[j] ELSE w[j + 1]
      BY <1>1, <2>2, RemoveAtIs
    <2>6. /\ b \in Seq(ToSet(b)) /\ Len(b) = Len(q) - 1
          /\ \A j \in 1..(Len(q) - 1) : b[j] = IF j < i THEN q[j] ELSE q[j + 1]
      BY <1>2, <2>1, RemoveAtIs DEF ListOK
    <2> HIDE DEF a, b
    <2>7. /\ c \in Seq(ToSet(c)) /\ Len(c) = Len(b) + 1
          /\ c[1] = m /\ \A j \in 1..Len(b) : c[j + 1] = b[j]
      BY <2>6, ConsIs
    <2> HIDE DEF c
    <2>8. Len(a) = Len(c) /\ Len(c) = Len(q)
      BY <1>1, <2>5, <2>6, <2>7
    <2>9. ASSUME NEW j \in 1..Len(a) PROVE a[j] = c[j]
      <3>1. CASE j = 1
        BY <1>1, <2>1, <2>5, <2>7, <2>8, <3>1
      <3>2. CASE j # 1
        <4>1. PICK l \in 1..(Len(q) - 1) : j = l + 1
          <5>1. j - 1 \in 1..(Len(q) - 1) /\ j = (j - 1) + 1
            BY <1>1, <2>8, <3>2
          <5> QED
            BY <5>1
        <4>2. c[j] = b[l]
          BY <2>6, <2>7, <4>1
        <4>3. CASE l < i
          <5>1. a[j] = w[l + 1] /\ b[l] = q[l] /\ l \in 1..Len(q)
            BY <1>1, <2>1, <2>5, <2>6, <4>1, <4>3
          <5> QED
            BY <1>1, <4>2, <5>1
        <4>4. CASE ~ (l < i)
          <5>1. a[j] = w[(l + 1) + 1] /\ b[l] = q[l + 1] /\ l + 1 \in 1..Len(q)
            BY <1>1, <2>1, <2>5, <2>6, <4>1, <4>4
          <5> QED
            BY <1>1, <4>2, <5>1
        <4> QED
          BY <4>3, <4>4
      <3> QED
        BY <3>1, <3>2
    <2>10. a = c
      BY <2>5, <2>7, <2>8, <2>9, SameSeq
    <2> QED
      BY <2>4, <2>10 DEF c, w
  <1> QED
    BY <1>4, <1>5

\* The same with the lists named.
LEMMA WithoutBehind ==
    ASSUME NEW m, NEW q, NEW key, NEW w, NEW u, w = <<m>> \o q, u = <<m>> \o Without(q, key),
           ListOK(w), q \in Seq(ToSet(q)), key # m.key
    PROVE  Without(w, key) = u
  BY WithoutLater

\* The first members of a list.
LEMMA PrefixIs ==
    ASSUME NEW a, ListOK(a), NEW k \in 0..Len(a)
    PROVE  LET p == SubSeq(a, 1, k)
           IN  /\ ListOK(p) /\ Len(p) = k /\ \A j \in 1..k : p[j] = a[j]
               /\ \A key : Has(p, key) => Has(a, key)
               /\ k = Len(a) => p = a
               /\ k > 0 => Front(p) = SubSeq(a, 1, k - 1)
  <1> DEFINE p == SubSeq(a, 1, k)
  <1>1. Len(a) \in Nat /\ DOMAIN a = 1..Len(a) /\ a \in Seq(ToSet(a))
    BY DEF ListOK
  <1>2. p \in Seq(ToSet(a)) /\ Len(p) = k /\ \A j \in 1..k : p[j] = a[j]
    <2> DEFINE S == ToSet(a)
    <2>1. \A j \in 1..k : a[j] \in S
      BY <1>1
    <2> HIDE DEF S
    <2>2. /\ p \in Seq(S) /\ Len(p) = IF 1 =< k THEN k - 1 + 1 ELSE 0
          /\ \A j \in 1..(k - 1 + 1) : p[j] = a[1 + j - 1]
      BY <1>1, <2>1, SubSeqProperties
    <2> HIDE DEF p
    <2>3. Len(p) = k /\ k - 1 + 1 = k /\ \A j \in 1..k : 1 + j - 1 = j
      BY <1>1, <2>2
    <2> QED
      BY <2>2, <2>3 DEF S
  <1>3. p \in Seq(ToSet(p))
    BY <1>2, SeqOfSelf
  <1> HIDE DEF p
  <1>4. DOMAIN p = 1..k /\ \A j \in 1..k : j \in DOMAIN a
    BY <1>1, <1>2
  <1>5. ListOK(p)
    BY <1>2, <1>3, <1>4 DEF ListOK
  <1>6. \A key : Has(p, key) => Has(a, key)
    BY <1>2, <1>4 DEF Has
  <1>7. k = Len(a) => p = a
    BY <1>1, <1>2, <1>3, SameSeq
  <1>8. ASSUME k > 0 PROVE Front(p) = SubSeq(a, 1, k - 1)
    <2> DEFINE f == Front(p)
               g == SubSeq(a, 1, k - 1)
    <2>1. f \in Seq(ToSet(f)) /\ Len(f) = k - 1 /\ \A j \in 1..(k - 1) : f[j] = p[j]
      BY <1>2, <1>3, <1>8, FrontIs
    <2>2. k \in Nat /\ k - 1 \in Nat /\ \A j \in 1..(k - 1) : j \in 1..k /\ a[j] \in ToSet(a)
      BY <1>1, <1>8 DEF ToSet
    <2>3. /\ g \in Seq(ToSet(a)) /\ Len(g) = k - 1 /\ \A j \in 1..(k - 1) : g[j] = a[j]
      <3> DEFINE S == ToSet(a)
                 n == k - 1
      <3>1. n \in Nat /\ \A j \in 1..n : a[j] \in S
        BY <2>2
      <3> HIDE DEF S, n
      <3>2. /\ SubSeq(a, 1, n) \in Seq(S) /\ Len(SubSeq(a, 1, n)) = IF 1 =< n THEN n - 1 + 1 ELSE 0
            /\ \A j \in 1..(n - 1 + 1) : SubSeq(a, 1, n)[j] = a[1 + j - 1]
        BY <3>1, SubSeqProperties
      <3>3. Len(SubSeq(a, 1, n)) = n /\ n - 1 + 1 = n /\ \A j \in 1..n : 1 + j - 1 = j
        BY <3>1, <3>2
      <3>4. SubSeq(a, 1, n) \in Seq(S) /\ Len(SubSeq(a, 1, n)) = n /\ \A j \in 1..n : SubSeq(a, 1, n)[j] = a[j]
        BY <3>2, <3>3
      <3> QED
        BY <3>4 DEF S, n
    <2>4. g \in Seq(ToSet(g))
      BY <2>3, SeqOfSelf
    <2> HIDE DEF f, g
    <2>5. \A j \in 1..Len(f) : f[j] = g[j]
      BY <1>2, <2>1, <2>2, <2>3
    <2>6. f = g
      BY <2>1, <2>3, <2>4, <2>5, SameSeq
    <2> QED
      BY <2>6 DEF f, g
  <1> QED
    BY <1>2, <1>5, <1>6, <1>7, <1>8 DEF p

\* The last member goes from behind the first.
LEMMA FrontCons ==
    ASSUME NEW m, NEW q, q \in Seq(ToSet(q))
    PROVE  /\ Len(q) > 0 => Front(<<m>> \o q) = <<m>> \o Front(q)
           /\ q = <<>> => Front(<<m>> \o q) = <<>>
  <1> DEFINE w == <<m>> \o q
             f == Front(w)
             g == Front(q)
             h == <<m>> \o g
  <1>1. /\ w \in Seq(ToSet(w)) /\ Len(w) = Len(q) + 1 /\ DOMAIN w = 1..(Len(q) + 1)
        /\ w[1] = m /\ \A j \in 1..Len(q) : w[j + 1] = q[j]
        /\ Len(q) \in Nat /\ DOMAIN q = 1..Len(q)
    BY ConsIs
  <1> HIDE DEF w
  <1>2. f \in Seq(ToSet(f)) /\ Len(f) = Len(q) /\ \A j \in 1..Len(q) : f[j] = w[j]
    <2>1. Len(w) > 0 /\ Len(w) - 1 = Len(q)
      BY <1>1
    <2>2. f \in Seq(ToSet(f)) /\ Len(f) = Len(w) - 1 /\ \A j \in 1..(Len(w) - 1) : f[j] = w[j]
      BY <1>1, <2>1, FrontIs
    <2> QED
      BY <2>1, <2>2
  <1> HIDE DEF f
  <1>3. q = <<>> => f = <<>>
    BY <1>2
  <1>4. ASSUME Len(q) > 0 PROVE f = h
    <2>1. g \in Seq(ToSet(g)) /\ Len(g) = Len(q) - 1 /\ \A j \in 1..(Len(q) - 1) : g[j] = q[j]
      BY <1>4, FrontIs
    <2> HIDE DEF g
    <2>2. /\ h \in Seq(ToSet(h)) /\ Len(h) = Len(g) + 1 /\ h[1] = m
          /\ \A j \in 1..Len(g) : h[j + 1] = g[j]
      BY <2>1, ConsIs
    <2> HIDE DEF h
    <2>3. Len(h) = Len(f)
      BY <1>1, <1>2, <2>1, <2>2
    <2>4. ASSUME NEW j \in 1..Len(f) PROVE f[j] = h[j]
      <3>1. CASE j = 1
        BY <1>1, <1>2, <2>2, <3>1
      <3>2. CASE j # 1
        <4>1. PICK l \in 1..(Len(q) - 1) : j = l + 1
          <5>1. j - 1 \in 1..(Len(q) - 1) /\ j = (j - 1) + 1
            BY <1>1, <1>2, <3>2
          <5> QED
            BY <5>1
        <4>2. l \in 1..Len(q) /\ l \in 1..Len(g) /\ j \in 1..Len(q)
          BY <1>1, <1>2, <2>1, <4>1
        <4> QED
          BY <1>1, <1>2, <2>1, <2>2, <4>1, <4>2
      <3> QED
        BY <3>1, <3>2
    <2> QED
      BY <1>2, <2>2, <2>3, <2>4, SameSeq
  <1> QED
    BY <1>3, <1>4 DEF f, w, g, h

\* Tail takes the first member off.
LEMMA TailCons ==
    ASSUME NEW m, NEW q, q \in Seq(ToSet(q))
    PROVE  Tail(<<m>> \o q) = q
  <1> DEFINE w == <<m>> \o q
             r == Tail(w)
  <1>1. /\ w \in Seq(ToSet(w)) /\ Len(w) = Len(q) + 1 /\ DOMAIN w = 1..(Len(q) + 1)
        /\ w[1] = m /\ \A j \in 1..Len(q) : w[j + 1] = q[j]
        /\ Len(q) \in Nat /\ DOMAIN q = 1..Len(q)
    BY ConsIs
  <1> HIDE DEF w
  <1>2. w # <<>>
    BY <1>1
  <1>3. r \in Seq(ToSet(w)) /\ Len(r) = Len(w) - 1 /\ \A j \in 1..Len(r) : r[j] = w[j + 1]
    BY <1>1, <1>2, HeadTailProperties
  <1>4. r \in Seq(ToSet(r))
    BY <1>3, SeqOfSelf
  <1> HIDE DEF r
  <1>5. Len(r) = Len(q) /\ \A j \in 1..Len(r) : r[j] = q[j]
    BY <1>1, <1>3
  <1>6. r = q
    BY <1>4, <1>5, SameSeq
  <1> QED
    BY <1>6 DEF r, w

\* A list that is not shorter without a key did not have it.
LEMMA NotShorter ==
    ASSUME NEW a, ListOK(a), NEW key, Len(Without(a, key)) >= Len(a)
    PROVE  ~ Has(a, key) /\ Without(a, key) = a
  <1>1. Len(a) \in Nat /\ DOMAIN a = 1..Len(a)
    BY DEF ListOK
  <1>2. CASE Has(a, key)
    <2>1. Where(a, key) \in 1..Len(a)
      BY <1>1, <1>2, HasWhere
    <2>2. Len(RemoveAt(a, Where(a, key))) = Len(a) - 1
      BY <2>1, RemoveAtIs DEF ListOK
    <2> QED
      BY <1>1, <1>2, <2>2 DEF Without
  <1> QED
    BY <1>2 DEF Without

\* Insert by cases.
LEMMA InsertBy ==
    ASSUME NEW a, ListOK(a), NEW m
    PROVE  /\ Len(Without(a, m.key)) < MaxMembers => Insert(a, m) = <<m>> \o Without(a, m.key)
           /\ ~ (Len(Without(a, m.key)) < MaxMembers) => Insert(a, m) = <<m>> \o Front(Without(a, m.key))
  BY DEF Insert

\* A list stays within its bound.
LEMMA InsertBound ==
    ASSUME NEW a, ListOK(a), Len(a) =< MaxMembers, NEW m
    PROVE  Len(Insert(a, m)) =< MaxMembers
  <1> DEFINE r == Without(a, m.key)
  <1>1. ListOK(r) /\ Len(r) =< Len(a) /\ Len(a) \in Nat
    BY WithoutIs DEF ListOK
  <1> HIDE DEF r
  <1>2. r \in Seq(ToSet(r)) /\ Len(r) \in Nat
    BY <1>1 DEF ListOK
  <1>3. CASE Len(r) < MaxMembers
    <2>1. Insert(a, m) = <<m>> \o r /\ Len(<<m>> \o r) = Len(r) + 1
      BY <1>2, <1>3, InsertBy, ConsIs DEF r
    <2> QED
      BY <1>2, <1>3, <2>1, BoundsAssumption
  <1>4. CASE ~ (Len(r) < MaxMembers)
    <2> DEFINE f == Front(r)
    <2>1. Len(r) > 0
      BY <1>2, <1>4, BoundsAssumption
    <2>2. f \in Seq(ToSet(f)) /\ Len(f) = Len(r) - 1
      BY <1>2, <2>1, FrontIs
    <2>3. Insert(a, m) = <<m>> \o f
      BY <1>4, InsertBy DEF r
    <2> HIDE DEF f
    <2>4. Len(<<m>> \o f) = Len(f) + 1
      BY <2>2, ConsIs
    <2> QED
      BY <1>1, <1>2, <2>2, <2>3, <2>4, BoundsAssumption
  <1> QED
    BY <1>3, <1>4

\* What leaves a service behind its sw member: what has arrived, less the old sw
\* member and the right-most that have no room.
Passes(a, c, id, b) ==
    \E k \in 0..Len(a) :
        /\ k >= Len(a) - 2
        /\ Len(a) =< MaxMembers - 2 => k = Len(a)
        /\ Tail(Inject(c, id, b)) = Without(SubSeq(a, 1, k), SwKey)

\* Without a response in the span's trace state.
LEMMA PassPlain ==
    ASSUME NEW a, ListOK(a), Len(a) =< MaxMembers, ~ Has(a, xtraceOptRespKey), NEW id, NEW b
    PROVE  Passes(a, a, id, b)
  <1> DEFINE m == SwMember(id, b)
             r == Without(a, SwKey)
             w == Insert(a, m)
             n == Len(a)
  <1>1. m.key = SwKey /\ SwKey # xtraceOptRespKey
    BY DEF SwMember, SwKey, xtraceOptRespKey
  <1>2. Inject(a, id, b) = Without(w, xtraceOptRespKey)
    BY DEF Inject
  <1> HIDE DEF m
  <1>3. ~ Has(w, xtraceOptRespKey)
    BY <1>1, InsertIs
  <1>4. Inject(a, id, b) = w
    BY <1>2, <1>3 DEF Without
  <1>5. ListOK(r) /\ r \in Seq(ToSet(r)) /\ Len(r) =< n /\ Len(r) \in Nat /\ n \in Nat
    <2>1. ListOK(r) /\ Len(r) =< n
      BY WithoutIs, Zenon
    <2> HIDE DEF r
    <2> QED
      BY <2>1 DEF ListOK
  <1>6. CASE Len(r) < MaxMembers
    <2>1. w = <<m>> \o r
      BY <1>1, <1>6, InsertBy
    <2>2. Tail(w) = r
      BY <1>5, <2>1, TailCons
    <2>3. SubSeq(a, 1, n) = a /\ n \in 0..n /\ n >= n - 2
      BY <1>5, PrefixIs
    <2> QED
      BY <1>4, <2>2, <2>3, Zenon DEF Passes
  <1>7. CASE ~ (Len(r) < MaxMembers)
    <2>1. Len(r) >= n /\ n = MaxMembers /\ n > 0
      BY <1>5, <1>7, BoundsAssumption
    <2>2. ~ Has(a, SwKey) /\ r = a
      BY <2>1, NotShorter
    <2> DEFINE f == SubSeq(a, 1, n - 1)
    <2>3. n - 1 \in 0..n /\ n \in 0..n
      BY <1>5, <2>1
    <2>4. Front(a) = f
      <3>1. SubSeq(a, 1, n) = a /\ Front(SubSeq(a, 1, n)) = SubSeq(a, 1, n - 1)
        BY <2>1, <2>3, PrefixIs
      <3> QED
        BY <3>1
    <2>5. ListOK(f) /\ ~ Has(f, SwKey)
      BY <2>2, <2>3, PrefixIs
    <2>6. w = <<m>> \o f
      BY <1>1, <1>7, <2>2, <2>4, InsertBy
    <2> HIDE DEF w
    <2>7. Tail(w) = f /\ Without(f, SwKey) = f
      BY <2>5, <2>6, TailCons DEF ListOK, Without
    <2>8. n - 1 >= n - 2 /\ ~ (n =< MaxMembers - 2)
      BY <1>5, <2>1, BoundsAssumption
    <2> QED
      BY <1>4, <2>3, <2>7, <2>8 DEF Passes
  <1> QED
    BY <1>6, <1>7

\* With one.
LEMMA PassResponse ==
    ASSUME NEW a, ListOK(a), Len(a) =< MaxMembers, ~ Has(a, xtraceOptRespKey), NEW id, NEW b,
           NEW r, r.key = xtraceOptRespKey
    PROVE  Passes(a, Insert(a, r), id, b)
  <1> DEFINE m == SwMember(id, b)
             n == Len(a)
             c == Insert(a, r)
             k == IF n < MaxMembers THEN n ELSE n - 1
             p == SubSeq(a, 1, k)
             y == Without(p, SwKey)
  <1>1. m.key = SwKey /\ SwKey # xtraceOptRespKey
    BY DEF SwMember, SwKey, xtraceOptRespKey
  <1>2. Inject(c, id, b) = Without(Insert(c, m), xtraceOptRespKey)
    BY DEF Inject
  <1>3. Without(a, xtraceOptRespKey) = a /\ n \in Nat /\ MaxMembers \in Nat \ {0}
    BY BoundsAssumption DEF Without, ListOK
  <1> HIDE DEF m
  <1>4. /\ k \in 0..n /\ k >= n - 1 /\ k =< MaxMembers - 1
        /\ n =< MaxMembers - 2 => k = n
    BY <1>3
  <1>5. c = <<r>> \o p
    <2>1. CASE n < MaxMembers
      <3>1. p = a
        BY <1>3, <1>4, <2>1, PrefixIs
      <3> QED
        BY <1>3, <2>1, <3>1, InsertBy
    <2>2. CASE ~ (n < MaxMembers)
      <3>1. n \in 0..n /\ n > 0 /\ k = n - 1
        BY <1>3, <2>2
      <3>2. SubSeq(a, 1, n) = a /\ Front(SubSeq(a, 1, n)) = SubSeq(a, 1, n - 1)
        <4>1. n \in 0..Len(a) /\ n = Len(a)
          BY <3>1, Zenon
        <4> HIDE DEF n
        <4> QED
          BY <3>1, <4>1, PrefixIs, Zenon
      <3>3. Front(a) = p
        BY <3>1, <3>2, Zenon
      <3> HIDE DEF p
      <3> QED
        BY <1>3, <2>2, <3>3, InsertBy
    <2> QED
      BY <2>1, <2>2
  <1>6. ListOK(c) /\ ListOK(p) /\ p \in Seq(ToSet(p)) /\ Len(p) = k
    <2>1. ListOK(c)
      BY InsertIs
    <2>2. ListOK(p) /\ Len(p) = k
      <3> HIDE DEF k
      <3> QED
        BY <1>4, PrefixIs
    <2> QED
      BY <2>1, <2>2 DEF ListOK
  <1> HIDE DEF c, p, k
  <1>7. Without(c, SwKey) = <<r>> \o y
    <2> DEFINE u == <<r>> \o Without(p, SwKey)
    <2>1. u = <<r>> \o Without(p, SwKey) /\ SwKey # r.key
      BY <1>1
    <2> HIDE DEF u
    <2>2. Without(c, SwKey) = u
      BY <1>5, <1>6, <2>1, WithoutBehind
    <2> QED
      BY <2>2 DEF u
  <1>8. ListOK(y) /\ y \in Seq(ToSet(y)) /\ Len(y) \in Nat /\ Len(y) =< k
    <2>1. ListOK(y) /\ Len(y) =< k
      BY <1>6, WithoutIs
    <2> HIDE DEF y
    <2> QED
      BY <2>1 DEF ListOK
  <1> DEFINE d == <<r>> \o y
             w == Insert(c, m)
  <1> HIDE DEF y
  <1>9. d \in Seq(ToSet(d)) /\ Len(d) = Len(y) + 1
    BY <1>8, ConsIs
  <1>10. ListOK(w) /\ ListOK(d)
    <2>1. ListOK(w) /\ ListOK(Without(c, SwKey))
      BY <1>6, InsertIs, WithoutIs
    <2> QED
      BY <1>7, <2>1
  <1> HIDE DEF d
  <1>11. CASE Len(d) < MaxMembers
    <2>1. w = <<m>> \o d
      BY <1>1, <1>6, <1>7, <1>11, InsertBy DEF d
    <2>2. Without(w, xtraceOptRespKey) = <<m>> \o Without(d, xtraceOptRespKey)
      <3> DEFINE u == <<m>> \o Without(d, xtraceOptRespKey)
      <3>1. u = <<m>> \o Without(d, xtraceOptRespKey) /\ xtraceOptRespKey # m.key
        BY <1>1
      <3> HIDE DEF u, w
      <3>2. Without(w, xtraceOptRespKey) = u
        BY <1>9, <1>10, <2>1, <3>1, WithoutBehind
      <3> QED
        BY <3>2 DEF u
    <2>3. Without(d, xtraceOptRespKey) = y
      BY <1>8, <1>10, WithoutFirst DEF d
    <2>4. Tail(Inject(c, id, b)) = y
      BY <1>2, <1>8, <2>2, <2>3, TailCons
    <2>5. k >= n - 2
      BY <1>3, <1>4
    <2> QED
      BY <1>4, <2>4, <2>5 DEF Passes, c, y, p
  <1>12. CASE ~ (Len(d) < MaxMembers)
    <2>1. Len(y) >= k /\ k = MaxMembers - 1 /\ ~ (n =< MaxMembers - 2)
      BY <1>3, <1>4, <1>8, <1>9, <1>12
    <2>2. ~ Has(p, SwKey) /\ y = p
      BY <1>6, <2>1, NotShorter DEF y
    <2>3. w = <<m>> \o Front(d)
      BY <1>1, <1>6, <1>7, <1>12, InsertBy DEF d
    <2>4. CASE k > 0
      <3> DEFINE g == SubSeq(a, 1, k - 1)
      <3>1. Front(p) = g /\ k - 1 \in 0..n /\ k - 1 >= n - 2
        BY <1>3, <1>4, <2>4, PrefixIs DEF p
      <3>2. ListOK(g) /\ ~ Has(g, SwKey)
        <4>1. ListOK(g)
          BY <3>1, PrefixIs
        <4>2. Len(p) - 1 = k - 1 /\ k - 1 \in 0..Len(p)
          BY <1>4, <1>6, <2>4
        <4>3. \A key : Has(g, key) => Has(p, key)
          <5>1. k \in 0..Len(p) /\ Len(p) > 0
            BY <1>4, <1>6, <2>4
          <5>2. SubSeq(p, 1, Len(p)) = p /\ Front(SubSeq(p, 1, Len(p))) = SubSeq(p, 1, Len(p) - 1)
            BY <1>6, <5>1, PrefixIs
          <5>3. g = SubSeq(p, 1, k - 1)
            BY <3>1, <4>2, <5>2
          <5> HIDE DEF g
          <5> QED
            BY <1>6, <4>2, <5>3, PrefixIs
        <4> QED
          BY <2>2, <4>1, <4>3
      <3>3. Front(d) = <<r>> \o g
        BY <1>6, <2>2, <2>4, <3>1, FrontCons DEF d
      <3> HIDE DEF g
      <3> DEFINE e == <<r>> \o g
      <3>4. g \in Seq(ToSet(g)) /\ e \in Seq(ToSet(e))
        BY <3>2, ConsIs DEF ListOK
      <3> HIDE DEF e
      <3>5. w = <<m>> \o e
        BY <2>3, <3>3 DEF e
      <3>6. Without(w, xtraceOptRespKey) = <<m>> \o Without(e, xtraceOptRespKey) /\ ListOK(e)
        <4> DEFINE u == <<m>> \o Without(e, xtraceOptRespKey)
        <4>1. u = <<m>> \o Without(e, xtraceOptRespKey) /\ xtraceOptRespKey # m.key
          BY <1>1
        <4> HIDE DEF u, w
        <4>2. Without(w, xtraceOptRespKey) = u
          BY <1>10, <3>4, <3>5, <4>1, WithoutBehind
        <4>3. ListOK(e)
          BY <1>10, <3>4, <3>5, WithoutFirst
        <4> QED
          BY <4>2, <4>3 DEF u
      <3>7. Without(e, xtraceOptRespKey) = g
        BY <3>4, <3>6, WithoutFirst DEF e
      <3>8. Tail(Inject(c, id, b)) = g
        BY <1>2, <3>4, <3>6, <3>7, TailCons
      <3>9. Without(g, SwKey) = g
        BY <3>2 DEF Without
      <3> QED
        BY <2>1, <3>1, <3>8, <3>9 DEF Passes, c, g
    <2>5. CASE ~ (k > 0)
      <3>1. k = 0 /\ p = <<>> /\ n >= 0 /\ 0 >= n - 2
        BY <1>3, <1>4, <1>6, <2>5
      <3>2. Front(d) = <<>>
        BY <1>6, <2>2, <3>1, FrontCons DEF d
      <3>3. w = <<m>> \o <<>> /\ <<>> \in Seq(ToSet(<<>>))
        BY <2>3, <3>2, EmptySeq
      <3>4. Without(w, xtraceOptRespKey) = <<m>> \o Without(<<>>, xtraceOptRespKey)
        <4> DEFINE none == <<>>
                   u == <<m>> \o Without(none, xtraceOptRespKey)
        <4>1. /\ u = <<m>> \o Without(none, xtraceOptRespKey) /\ xtraceOptRespKey # m.key
              /\ w = <<m>> \o none /\ none \in Seq(ToSet(none))
          BY <1>1, <3>3
        <4> HIDE DEF none, u, w
        <4>2. Without(w, xtraceOptRespKey) = u
          BY <1>10, <4>1, WithoutBehind
        <4> QED
          BY <4>2 DEF none, u
      <3>5. Without(<<>>, xtraceOptRespKey) = <<>> /\ Without(<<>>, SwKey) = <<>>
        BY NoMembers DEF Without
      <3>6. Tail(Inject(c, id, b)) = <<>>
        BY <1>2, <3>3, <3>4, <3>5, TailCons
      <3> QED
        BY <1>4, <2>1, <3>1, <3>5, <3>6 DEF Passes, c, p
    <2> QED
      BY <1>4, <2>4, <2>5
  <1> QED
    BY <1>11, <1>12

\* The member that carries a response has its key.
LEMMA MemberKey ==
    ASSUME NEW ts, NEW key, Has(ts, key)
    PROVE  Member(ts, key).key = key
  BY HasWhere DEF Member

\* Inject keeps within the bound.
LEMMA InjectBound ==
    ASSUME NEW ts, ListOK(ts), Len(ts) =< MaxMembers, NEW id, NEW b
    PROVE  Len(Inject(ts, id, b)) =< MaxMembers
  <1> DEFINE w == Insert(ts, SwMember(id, b))
  <1>1. ListOK(w) /\ Len(w) =< MaxMembers
    BY InsertIs, InsertBound
  <1>2. Inject(ts, id, b) = Without(w, xtraceOptRespKey)
    BY DEF Inject
  <1> HIDE DEF w
  <1> DEFINE u == Without(w, xtraceOptRespKey)
  <1>3. ListOK(u) /\ Len(u) =< Len(w)
    BY <1>1, WithoutIs
  <1> HIDE DEF u
  <1>4. Len(u) \in Nat /\ Len(w) \in Nat
    BY <1>1, <1>3 DEF ListOK
  <1> QED
    BY <1>1, <1>2, <1>3, <1>4, BoundsAssumption DEF u

\* A span's trace state is the one that arrived, with the response in front of it
\* if there is one.
Carries(c, a) ==
    \/ c = a
    \/ Has(c, xtraceOptRespKey) /\ c = Insert(a, Member(c, xtraceOptRespKey))

\* Lists are within their bound, and the span's comes from the one that arrived.
CargoInv ==
    /\ Len(tracestate) =< MaxMembers /\ Len(span.tracestate) =< MaxMembers
    /\ stage # "wire" => arrived = tracestate
    /\ (stage # "wire" /\ parent # NoParent) => Carries(span.tracestate, tracestate)

\* What hydrateTraceState makes of the trace state that arrived.
LEMMA HydrateCarries ==
    ASSUME NEW p, NEW ts, ListOK(ts), Len(ts) =< MaxMembers, NEW h, NEW sg, NEW rsp
    PROVE  LET c == hydrateTraceState(p, ts, h, sg, rsp)
           IN  Len(c) =< MaxMembers /\ (p # NoParent => Carries(c, ts))
  <1> DEFINE base == IF p = NoParent THEN <<>> ELSE ts
             text == ResponseText(sg, rsp)
             r    == [key |-> xtraceOptRespKey, text |-> Escape(text)]
             c    == hydrateTraceState(p, ts, h, sg, rsp)
  <1>1. ListOK(base) /\ Len(base) =< MaxMembers
    BY NoMembers, BoundsAssumption
  <1>2. c = base \/ c = Insert(base, r)
    BY DEF hydrateTraceState, SetInternalState
  <1>3. r.key = xtraceOptRespKey
    OBVIOUS
  <1> HIDE DEF r, c
  <1>4. p # NoParent => base = ts
    OBVIOUS
  <1> HIDE DEF base
  <1>5. CASE c = base
    BY <1>1, <1>4, <1>5 DEF Carries, c
  <1>6. CASE c = Insert(base, r)
    <2>1. Len(c) =< MaxMembers /\ Has(c, xtraceOptRespKey) /\ Member(c, xtraceOptRespKey) = r
      BY <1>1, <1>3, <1>6, InsertIs, InsertBound
    <2> QED
      BY <1>4, <1>6, <2>1 DEF Carries, c
  <1> QED
    BY <1>2, <1>5, <1>6

\* Every step keeps it.
LEMMA CargoStep == PathInv /\ CargoInv /\ [Next]_vars => CargoInv'
  <1> SUFFICES ASSUME PathInv, CargoInv, [Next]_vars PROVE CargoInv'
    OBVIOUS
  <1>0. ListOK(tracestate) /\ ListOK(span.tracestate)
    BY DEF PathInv, WireInv, SpanInv
  <1>1. ASSUME NEW s \in Policies \cup {NoPolicy}, NEW dice \in Dice, NEW ok \in BOOLEAN, Receive(s, dice, ok)
        PROVE  CargoInv'
    <2> DEFINE sg == SignatureState(opts, s)
    <2>1. PICK b, rsp : span' = [id |-> hops', sampled |-> b,
                                 tracestate |-> hydrateTraceState(parent, tracestate, opts, sg, rsp)]
      BY <1>1 DEF Receive
    <2> DEFINE c == hydrateTraceState(parent, tracestate, opts, sg, rsp)
    <2>2. span'.tracestate = c /\ arrived' = tracestate /\ UNCHANGED <<parent, tracestate>>
      BY <1>1, <2>1 DEF Receive
    <2> HIDE DEF sg
    <2>3. Len(c) =< MaxMembers /\ (parent # NoParent => Carries(c, tracestate))
      BY <1>0, HydrateCarries DEF CargoInv
    <2> HIDE DEF c
    <2> QED
      BY <2>2, <2>3 DEF CargoInv
  <1>2. CASE Respond
    BY <1>2 DEF Respond, CargoInv
  <1>3. CASE StartChild
    <2>1. span'.tracestate = span.tracestate
      BY <1>3 DEF StartChild, PathInv, SpanInv
    <2> QED
      BY <1>3, <2>1 DEF StartChild, CargoInv
  <1>4. ASSUME NEW h \in OptionHeaders, Send(h) PROVE CargoInv'
    <2>1. Len(tracestate') =< MaxMembers
      BY <1>0, <1>4, InjectBound DEF Send, CargoInv
    <2> QED
      BY <1>4, <2>1 DEF Send, CargoInv
  <1>5. ASSUME NEW h \in OptionHeaders, SendWithoutSpan(h) PROVE CargoInv'
    BY <1>5, BoundsAssumption DEF SendWithoutSpan, CargoInv
  <1>6. CASE SendCopied
    <2>1. Len(tracestate') =< MaxMembers
      BY <1>0, <1>6, InjectBound DEF SendCopied, CargoInv
    <2> QED
      BY <1>6, <2>1 DEF SendCopied, CargoInv
  <1>7. ASSUME NEW v \in Vendors, NEW b \in BOOLEAN, ForwardOther(v, b) PROVE CargoInv'
    <2>1. Len(Insert(tracestate, Other(v))) =< MaxMembers
      BY <1>0, InsertBound DEF CargoInv
    <2> QED
      BY <1>7, <2>1 DEF ForwardOther, Forwarded, CargoInv
  <1>8. CASE ForwardDropping
    BY <1>8, BoundsAssumption DEF ForwardDropping, Forwarded, CargoInv
  <1>9. CASE NewTrace
    BY <1>9, BoundsAssumption DEF NewTrace, CargoInv
  <1>10. CASE UNCHANGED vars
    BY <1>10 DEF vars, CargoInv
  <1> QED
    BY <1>1, <1>2, <1>3, <1>4, <1>5, <1>6, <1>7, <1>8, <1>9, <1>10 DEF Next

\* TraceState.Insert, SetInternalState and Inject: over any chain of services and
\* any bound on the members of a trace state, other vendors' members pass in their
\* order, and the most a service costs them is two places at the right end.
THEOREM VendorsPass == Spec => []VendorsSurvive
  <1>1. Init => CargoInv
    BY BoundsAssumption DEF Init, CargoInv
  <1>2. PathInv /\ CargoInv => VendorsSurvive
    <2> SUFFICES ASSUME PathInv, CargoInv, stage # "wire", parent # NoParent
                 PROVE  Passes(arrived, span.tracestate, span.id, span.sampled)
      BY DEF VendorsSurvive, Passes
    <2> DEFINE c == span.tracestate
    <2>1. /\ ListOK(arrived) /\ Len(arrived) =< MaxMembers /\ ~ Has(arrived, xtraceOptRespKey)
          /\ Carries(c, arrived)
      BY DEF PathInv, WireInv, CargoInv
    <2> HIDE DEF c
    <2>2. CASE c = arrived
      BY <2>1, <2>2, PassPlain DEF c
    <2>3. CASE Has(c, xtraceOptRespKey) /\ c = Insert(arrived, Member(c, xtraceOptRespKey))
      <3> DEFINE r == Member(c, xtraceOptRespKey)
      <3>1. r.key = xtraceOptRespKey /\ c = Insert(arrived, r)
        BY <2>3, MemberKey
      <3> HIDE DEF r
      <3>2. Passes(arrived, Insert(arrived, r), span.id, span.sampled)
        BY <2>1, <3>1, PassResponse
      <3> QED
        BY <3>1, <3>2 DEF c
    <2> QED
      BY <2>1, <2>2, <2>3 DEF Carries
  <1> QED
    BY <1>1, <1>2, CargoStep, AlwaysPathInv, PTL DEF Spec

-----------------------------------------------------------------------------
(* TransactionNames.                                                       *)

\* The least of some positions.
LEMMA MinIs ==
    ASSUME NEW S, S \subseteq Nat, S # {}
    PROVE  Min(S) \in S /\ \A i \in S : Min(S) =< i
  <1>1. PICK b \in S : \A i \in S : ~ (<<i, b>> \in Before)
    BY WFMin, BeforeIsWellFounded
  <1>2. ASSUME NEW i \in S PROVE b =< i
    <2>1. i \in Nat /\ b \in Nat
      OBVIOUS
    <2>2. ~ (i < b)
      BY <1>1, <2>1 DEF Before
    <2> QED
      BY <2>1, <2>2
  <1> QED
    BY <1>2 DEF Min

\* The greatest of some positions of a list.
LEMMA MaxIs ==
    ASSUME NEW n \in Nat, NEW S, S \subseteq 1..n, S # {}
    PROVE  Max(S) \in S /\ \A i \in S : i =< Max(S)
  <1> DEFINE T == {n - i : i \in S}
  <1>1. T \subseteq Nat /\ T # {}
    <2>1. \A i \in S : n - i \in Nat
      OBVIOUS
    <2> QED
      BY <2>1
  <1>2. Min(T) \in T /\ \A j \in T : Min(T) =< j
    <2> HIDE DEF T
    <2> QED
      BY <1>1, MinIs
  <1>3. PICK b \in S : Min(T) = n - b
    BY <1>2
  <1>4. \A i \in S : n - b =< n - i
    BY <1>2, <1>3
  <1>5. \A i \in S : b >= i
    BY <1>4
  <1>6. \E c \in S : \A i \in S : c >= i
    BY <1>5
  <1>7. Max(S) \in S /\ \A i \in S : Max(S) >= i
    BY <1>6 DEF Max
  <1> QED
    BY <1>7

\* What is between two places of a text.
LEMMA CutIs ==
    ASSUME NEW t, IsText(t), NEW m \in 1..(Len(t) + 1), NEW n \in (m - 1)..Len(t)
    PROVE  LET c == SubSeq(t, m, n)
           IN  /\ IsText(c) /\ Len(c) = (n - m) + 1 /\ DOMAIN c = 1..((n - m) + 1)
               /\ \A i \in 1..((n - m) + 1) : c[i] = t[(m + i) - 1]
  <1>1. Len(t) \in Nat /\ DOMAIN t = 1..Len(t) /\ \A i \in 1..Len(t) : t[i] \in ToSet(t)
    BY DEF IsText
  <1>2. m \in Int /\ n \in Int /\ \A i \in m..n : t[i] \in ToSet(t)
    BY <1>1
  <1> DEFINE c == SubSeq(t, m, n)
             S == ToSet(t)
  <1> HIDE DEF S
  <1>3. \A i \in m..n : t[i] \in S
    BY <1>2 DEF S
  <1>4. /\ c \in Seq(S) /\ Len(c) = IF m =< n THEN n - m + 1 ELSE 0
        /\ \A i \in 1 .. n - m + 1 : c[i] = t[m + i - 1]
    BY <1>2, <1>3, SubSeqProperties
  <1> HIDE DEF c
  <1>5. c \in Seq(ToSet(c))
    <2>1. Len(c) \in Nat /\ DOMAIN c = 1..Len(c) /\ \A i \in 1..Len(c) : c[i] \in ToSet(c)
      BY <1>4 DEF ToSet
    <2>2. c = [i \in 1..Len(c) |-> c[i]]
      BY <1>4
    <2> QED
      BY <2>1, <2>2
  <1>6. Len(c) = (n - m) + 1
    BY <1>1, <1>4
  <1>7. DOMAIN c = 1..((n - m) + 1)
    BY <1>4, <1>6
  <1> QED
    BY <1>4, <1>5, <1>6, <1>7 DEF c, IsText

\* TrimSpace leaves what is between the first word and the last.
LEMMA TrimIs ==
    ASSUME NEW t, IsText(t)
    PROVE  \/ TrimSpace(t) = EmptyText /\ \A i \in 1..Len(t) : t[i] = Blank
           \/ \E lo \in 1..Len(t) : \E hi \in lo..Len(t) :
                 /\ TrimSpace(t) = SubSeq(t, lo, hi)
                 /\ t[lo] # Blank
                 /\ \A i \in 1..Len(t) : (i < lo \/ hi < i) => t[i] = Blank
  <1> DEFINE words == {i \in DOMAIN t : t[i] # Blank}
  <1>1. Len(t) \in Nat /\ DOMAIN t = 1..Len(t)
    BY DEF IsText
  <1>2. CASE words = {}
    BY <1>1, <1>2 DEF TrimSpace
  <1>3. CASE words # {}
    <2>1. words \subseteq Nat /\ words \subseteq 1..Len(t)
      BY <1>1
    <2>2. TrimSpace(t) = SubSeq(t, Min(words), Max(words))
      BY <1>3 DEF TrimSpace
    <2>3. \A i \in 1..Len(t) : t[i] # Blank => i \in words
      BY <1>1
    <2>4. \A i \in words : t[i] # Blank
      OBVIOUS
    <2> HIDE DEF words
    <2>5. Min(words) \in words /\ \A i \in words : Min(words) =< i
      BY <1>3, <2>1, MinIs
    <2>6. Max(words) \in words /\ \A i \in words : i =< Max(words)
      BY <1>1, <1>3, <2>1, MaxIs
    <2>7. Min(words) \in 1..Len(t) /\ Max(words) \in Min(words)..Len(t)
      <3>1. Min(words) \in 1..Len(t) /\ Max(words) \in 1..Len(t) /\ Min(words) =< Max(words)
        BY <2>1, <2>5, <2>6
      <3> QED
        BY <1>1, <3>1
    <2>8. \A i \in 1..Len(t) : (i < Min(words) \/ Max(words) < i) => t[i] = Blank
      BY <1>1, <2>1, <2>3, <2>5, <2>6, <2>7
    <2> QED
      BY <2>2, <2>4, <2>5, <2>7, <2>8
  <1> QED
    BY <1>2, <1>3

\* A text that begins with a word is trimmed at its end only, and then cut.
LEMMA FinishedWord ==
    ASSUME NEW t, IsText(t), t # EmptyText, t[1] # Blank
    PROVE  \E hi \in 1..Len(t) :
             /\ Finished(t) = SubSeq(t, 1, IF hi > MaxName THEN MaxName ELSE hi)
             /\ \A i \in (hi + 1)..Len(t) : t[i] = Blank
  <1>1. Len(t) \in Nat /\ 1 \in 1..Len(t)
    BY DEF IsText, EmptyText
  <1>2. PICK lo \in 1..Len(t), hi \in 1..Len(t) :
               /\ lo =< hi /\ TrimSpace(t) = SubSeq(t, lo, hi)
               /\ \A i \in 1..Len(t) : (i < lo \/ hi < i) => t[i] = Blank
    BY <1>1, TrimIs
  <1>3. lo = 1
    BY <1>1, <1>2
  <1> DEFINE w == TrimSpace(t)
  <1>4. w = SubSeq(t, 1, hi) /\ Len(w) = hi /\ IsText(w)
    <2>1. hi \in (1 - 1)..Len(t) /\ 1 \in 1..(Len(t) + 1)
      BY <1>1
    <2>2. IsText(SubSeq(t, 1, hi)) /\ Len(SubSeq(t, 1, hi)) = (hi - 1) + 1
      BY <2>1, CutIs
    <2> QED
      BY <1>2, <1>3, <2>2
  <1> HIDE DEF w
  <1>5. w # EmptyText
    BY <1>1, <1>4 DEF EmptyText
  <1>6. Finished(t) = SubSeq(w, 1, IF hi > MaxName THEN MaxName ELSE hi)
    BY <1>4, <1>5 DEF Finished, w
  <1>7. PICK k \in 1..hi : k = IF hi > MaxName THEN MaxName ELSE hi
    BY <1>1, MaxNameAssumption
  <1>8. SubSeq(w, 1, k) = SubSeq(t, 1, k)
    BY <1>1, <1>4 DEF IsText
  <1>9. \A i \in (hi + 1)..Len(t) : t[i] = Blank
    BY <1>1, <1>2
  <1> QED
    BY <1>6, <1>7, <1>8, <1>9

\* Every name is finished: not empty, not blank at its beginning, not too long.
LEMMA FinishedIs ==
    ASSUME NEW t, IsText(t)
    PROVE  /\ Finished(t) # EmptyText /\ Head(Finished(t)) # Blank
           /\ Len(Finished(t)) =< MaxName
  <1>1. Len(t) \in Nat /\ DOMAIN t = 1..Len(t)
    BY DEF IsText
  <1> DEFINE w == IF TrimSpace(t) = EmptyText THEN Unknown ELSE TrimSpace(t)
  <1>2. IsText(w) /\ w # EmptyText /\ w[1] # Blank
    <2>1. CASE TrimSpace(t) = EmptyText
      <3>1. w = <<"unknown">>
        BY <2>1 DEF Unknown
      <3>2. IsText(<<"unknown">>)
        BY DEF IsText, ToSet
      <3> HIDE DEF w
      <3>3. IsText(w)
        BY <3>1, <3>2, Zenon
      <3>4. w # EmptyText /\ w[1] # Blank
        BY <3>1 DEF EmptyText, Blank
      <3> QED
        BY <3>3, <3>4
    <2>2. CASE TrimSpace(t) # EmptyText
      <3>1. PICK lo \in 1..Len(t), hi \in 1..Len(t) :
                   lo =< hi /\ TrimSpace(t) = SubSeq(t, lo, hi) /\ t[lo] # Blank
        BY <1>1, <2>2, TrimIs
      <3>2. lo \in 1..(Len(t) + 1) /\ hi \in (lo - 1)..Len(t)
        BY <1>1, <3>1
      <3>3. /\ IsText(SubSeq(t, lo, hi)) /\ Len(SubSeq(t, lo, hi)) = (hi - lo) + 1
            /\ \A i \in 1..((hi - lo) + 1) : SubSeq(t, lo, hi)[i] = t[(lo + i) - 1]
        BY <3>2, CutIs
      <3>4. 1 \in 1..((hi - lo) + 1) /\ (lo + 1) - 1 = lo
        BY <1>1, <3>1
      <3>5. SubSeq(t, lo, hi)[1] = t[lo]
        BY <3>3, <3>4
      <3> QED
        BY <2>2, <3>1, <3>3, <3>5
    <2> QED
      BY <2>1, <2>2
  <1>3. Finished(t) = SubSeq(w, 1, IF Len(w) > MaxName THEN MaxName ELSE Len(w))
    BY DEF Finished
  <1> HIDE DEF w
  <1>4. Len(w) \in Nat \ {0}
    BY <1>2 DEF IsText, EmptyText
  <1>5. PICK k \in 1..Len(w) : k = (IF Len(w) > MaxName THEN MaxName ELSE Len(w)) /\ k =< MaxName
    BY <1>4, MaxNameAssumption
  <1>6. 1 \in 1..(Len(w) + 1) /\ k \in (1 - 1)..Len(w)
    BY <1>4
  <1> DEFINE f == SubSeq(w, 1, k)
  <1>7. IsText(f) /\ Len(f) = (k - 1) + 1 /\ \A i \in 1..((k - 1) + 1) : f[i] = w[(1 + i) - 1]
    BY <1>2, <1>6, CutIs
  <1> HIDE DEF f
  <1>8. Len(f) = k /\ f[1] = w[1] /\ f # <<>>
    BY <1>4, <1>7
  <1>9. Head(f) = f[1]
    BY <1>4, <1>7, <1>8 DEF IsText
  <1> QED
    BY <1>2, <1>3, <1>5, <1>8, <1>9, MaxNameAssumption DEF f, EmptyText

\* What is before the query is the beginning of the path.
LEMMA WithoutQueryIs ==
    ASSUME NEW p, IsText(p)
    PROVE  /\ IsText(WithoutQuery(p))
           /\ (p # EmptyText /\ p[1] = Slash) => 
                 WithoutQuery(p) # EmptyText /\ WithoutQuery(p)[1] = Slash
  <1> DEFINE cuts == {i \in DOMAIN p : p[i] = Query}
             q == WithoutQuery(p)
  <1>1. Len(p) \in Nat /\ DOMAIN p = 1..Len(p)
    BY DEF IsText
  <1>2. CASE cuts = {}
    BY <1>2 DEF WithoutQuery
  <1>3. CASE cuts # {}
    <2>1. cuts \subseteq Nat
      BY <1>1
    <2>2. q = SubSeq(p, 1, Min(cuts) - 1)
      BY <1>3 DEF WithoutQuery
    <2>3. \A i \in cuts : i \in 1..Len(p) /\ p[i] = Query
      BY <1>1
    <2> HIDE DEF cuts, q
    <2>4. Min(cuts) \in cuts
      BY <1>3, <2>1, MinIs
    <2>5. PICK k \in 1..Len(p) : k = Min(cuts) /\ p[k] = Query
      BY <2>3, <2>4
    <2>6. 1 \in 1..(Len(p) + 1) /\ k - 1 \in (1 - 1)..Len(p)
      BY <1>1
    <2> DEFINE c == SubSeq(p, 1, k - 1)
    <2>7. /\ IsText(c) /\ Len(c) = ((k - 1) - 1) + 1
          /\ \A i \in 1..(((k - 1) - 1) + 1) : c[i] = p[(1 + i) - 1]
      BY <2>6, CutIs
    <2> HIDE DEF c
    <2>8. q = c
      BY <2>2, <2>5 DEF c
    <2>9. ASSUME p # EmptyText, p[1] = Slash PROVE q # EmptyText /\ q[1] = Slash
      <3>1. p[1] # Query
        BY <2>9 DEF Slash, Query
      <3>2. k # 1
        BY <2>5, <3>1
      <3>3. Len(c) = k - 1 /\ k > 1 /\ c[1] = p[1]
        BY <2>7, <3>2
      <3>4. c # <<>>
        BY <3>3
      <3> QED
        BY <2>8, <2>9, <3>3, <3>4 DEF EmptyText
    <2> QED
      BY <2>7, <2>8, <2>9 DEF q
  <1> QED
    BY <1>2, <1>3

\* The next slash, and no slash before it; or there is none.
LEMMA NextSlashIs ==
    ASSUME NEW p, IsText(p), NEW from \in 0..Len(p)
    PROVE  LET k == NextSlash(p, from)
           IN  /\ k \in (from + 1)..(Len(p) + 1)
               /\ \A i \in (from + 1)..(k - 1) : p[i] # Slash
               /\ k =< Len(p) => p[k] = Slash
  <1> DEFINE S == {i \in (from + 1)..Len(p) : p[i] = Slash}
             k == NextSlash(p, from)
  <1>1. Len(p) \in Nat
    BY DEF IsText
  <1>2. CASE S = {}
    <2>1. k = Len(p) + 1
      BY <1>2 DEF NextSlash
    <2>2. \A i \in (from + 1)..Len(p) : p[i] # Slash
      BY <1>2
    <2> HIDE DEF k, S
    <2> QED
      BY <1>1, <2>1, <2>2 DEF k
  <1>3. CASE S # {}
    <2>1. S \subseteq Nat
      BY <1>1
    <2>2. k = Min(S)
      BY <1>3 DEF NextSlash
    <2>3. \A i : i \in S <=> (i \in (from + 1)..Len(p) /\ p[i] = Slash)
      OBVIOUS
    <2> HIDE DEF k, S
    <2>4. k \in S /\ \A i \in S : k =< i
      BY <1>3, <2>1, <2>2, MinIs
    <2>5. k \in (from + 1)..Len(p) /\ p[k] = Slash
      BY <2>3, <2>4
    <2>6. ASSUME NEW i \in (from + 1)..(k - 1) PROVE p[i] # Slash
      <3>1. i \in (from + 1)..Len(p) /\ ~ (k =< i)
        BY <1>1, <2>5
      <3> QED
        BY <2>3, <2>4, <3>1
    <2> QED
      BY <1>1, <2>5, <2>6 DEF k
  <1> QED
    BY <1>2, <1>3

\* A slash before a part of a text is a text.
LEMMA SlashIs ==
    ASSUME NEW q, IsText(q)
    PROVE  LET w == <<Slash>> \o q
           IN  /\ IsText(w) /\ Len(w) = Len(q) + 1 /\ w[1] = Slash
               /\ \A j \in 1..Len(q) : w[j + 1] = q[j]
  <1> DEFINE w == <<Slash>> \o q
             T == ToSet(q) \cup {Slash}
  <1>1. Len(q) \in Nat /\ q \in Seq(T)
    BY DEF IsText, ToSet
  <1>2. <<Slash>> \in Seq(T) /\ Len(<<Slash>>) = 1 /\ <<Slash>>[1] = Slash
    BY DEF Slash
  <1> HIDE DEF T
  <1>3. /\ w \in Seq(T) /\ Len(w) = 1 + Len(q)
        /\ \A i \in 1..(1 + Len(q)) : w[i] = IF i =< 1 THEN <<Slash>>[i] ELSE q[i - 1]
    BY <1>1, <1>2, ConcatProperties
  <1> HIDE DEF w
  <1>4. w[1] = Slash
    BY <1>1, <1>2, <1>3
  <1>5. \A j \in 1..Len(q) : w[j + 1] = q[j]
    BY <1>1, <1>3
  <1>6. IsText(w)
    <2>1. DOMAIN w = 1..Len(w) /\ Len(w) \in Nat /\ w = [i \in 1..Len(w) |-> w[i]]
      BY <1>1, <1>3
    <2>2. \A i \in 1..Len(w) : w[i] \in ToSet(w)
      BY <2>1 DEF ToSet
    <2> QED
      BY <2>1, <2>2 DEF IsText
  <1> QED
    BY <1>1, <1>3, <1>4, <1>5, <1>6 DEF w

\* A part of a text from a slash on is a slash and what follows it.
LEMMA SegmentIs ==
    ASSUME NEW p, IsText(p), NEW a \in 1..Len(p), NEW b \in (a + 1)..(Len(p) + 1), p[a] = Slash
    PROVE  <<Slash>> \o SubSeq(p, a + 1, b - 1) = SubSeq(p, a, b - 1)
  <1> DEFINE q == SubSeq(p, a + 1, b - 1)
             w == <<Slash>> \o q
             c == SubSeq(p, a, b - 1)
  <1>1. Len(p) \in Nat
    BY DEF IsText
  <1>2. a + 1 \in 1..(Len(p) + 1) /\ b - 1 \in ((a + 1) - 1)..Len(p) /\ a \in 1..(Len(p) + 1)
        /\ b - 1 \in (a - 1)..Len(p)
    BY <1>1
  <1>3. /\ IsText(q) /\ Len(q) = ((b - 1) - (a + 1)) + 1
        /\ \A i \in 1..(((b - 1) - (a + 1)) + 1) : q[i] = p[((a + 1) + i) - 1]
    BY <1>2, CutIs
  <1>4. /\ IsText(c) /\ Len(c) = ((b - 1) - a) + 1
        /\ \A i \in 1..(((b - 1) - a) + 1) : c[i] = p[(a + i) - 1]
    BY <1>2, CutIs
  <1> HIDE DEF q
  <1>5. IsText(w) /\ Len(w) = Len(q) + 1 /\ w[1] = Slash /\ \A j \in 1..Len(q) : w[j + 1] = q[j]
    BY <1>3, SlashIs
  <1> HIDE DEF w, c
  <1>6. Len(w) = Len(c) /\ Len(c) \in Nat
    BY <1>1, <1>3, <1>4, <1>5
  <1>7. ASSUME NEW i \in 1..Len(c) PROVE w[i] = c[i]
    <2>1. i \in 1..(((b - 1) - a) + 1)
      BY <1>4
    <2>2. CASE i = 1
      <3>1. (a + 1) - 1 = a
        BY <1>1
      <3> QED
        BY <1>4, <1>5, <2>1, <2>2, <3>1
    <2>3. CASE i # 1
      <3>1. PICK j \in 1..Len(q) : i = j + 1
        <4>1. i - 1 \in 1..Len(q) /\ i = (i - 1) + 1
          BY <1>1, <1>3, <2>1, <2>3
        <4> QED
          BY <4>1
      <3>2. (a + i) - 1 = ((a + 1) + j) - 1 /\ j \in 1..(((b - 1) - (a + 1)) + 1)
        BY <1>1, <1>3, <3>1
      <3> QED
        BY <1>3, <1>4, <1>5, <2>1, <3>1, <3>2
    <2> QED
      BY <2>2, <2>3
  <1>8. w = c
    BY <1>4, <1>5, <1>6, <1>7, SeqEqual DEF IsText
  <1> QED
    BY <1>8 DEF w, c, q

\* A beginning of a text and the part that follows it.
LEMMA JoinIs ==
    ASSUME NEW p, IsText(p), NEW a \in 1..Len(p), NEW b \in a..(Len(p) + 1)
    PROVE  SubSeq(p, 1, a - 1) \o SubSeq(p, a, b - 1) = SubSeq(p, 1, b - 1)
  <1> DEFINE S == ToSet(p)
  <1>1. p \in Seq(S) /\ Len(p) \in Nat
    BY DEF IsText
  <1> HIDE DEF S
  <1>2. 1 \in 1..(Len(p) + 1) /\ a - 1 \in (1 - 1)..Len(p) /\ b - 1 \in (a - 1)..Len(p) /\ (a - 1) + 1 = a
    BY <1>1
  <1>3. SubSeq(p, 1, a - 1) \o SubSeq(p, (a - 1) + 1, b - 1) = SubSeq(p, 1, b - 1)
    BY <1>1, <1>2, ConcatAdjacentSubSeq
  <1> QED
    BY <1>2, <1>3

\* The first n tokens of a path have no slashes but the first and one more, and
\* the third slash, or the end, follows.
UpToThirdSlash(p, n, b) ==
    /\ \A i \in 1..n : p[i] = Slash => i \in {1, b}
    /\ n = Len(p) \/ (b =< n /\ p[b] = Slash /\ p[n + 1] = Slash)

\* The name made from a path that begins with a slash is a beginning of it, up to
\* its third slash or its end.
LEMMA PathName ==
    ASSUME NEW path, IsText(path), NEW p, p = WithoutQuery(path), p # EmptyText, p[1] = Slash
    PROVE  \E n \in 1..Len(p), b \in 2..(Len(p) + 1) :
             extractTransactionNameFromPath(path) = SubSeq(p, 1, n) /\ UpToThirdSlash(p, n, b)
  <1>1. IsText(p)
    BY WithoutQueryIs
  <1>2. Len(p) \in Nat \ {0}
    BY <1>1 DEF IsText, EmptyText
  <1> DEFINE first == NextSlash(p, 0)
             second == NextSlash(p, first)
             third == NextSlash(p, second)
             segment1 == <<Slash>> \o SubSeq(p, first + 1, second - 1)
             segment2 == <<Slash>> \o SubSeq(p, second + 1, third - 1)
  <1>3. extractTransactionNameFromPath(path) =
          IF first > Len(p) THEN p ELSE IF second > Len(p) THEN segment1 ELSE segment1 \o segment2
    BY DEF extractTransactionNameFromPath
  <1>4. first = 1
    <2>1. 0 \in 0..Len(p)
      BY <1>2
    <2>2. first \in (0 + 1)..(Len(p) + 1) /\ \A i \in (0 + 1)..(first - 1) : p[i] # Slash
      BY <1>1, <2>1, NextSlashIs
    <2> HIDE DEF first
    <2>3. first # 1 => 1 \in (0 + 1)..(first - 1)
      BY <1>2, <2>2
    <2> QED
      BY <2>2, <2>3
  <1> HIDE DEF first
  <1>5. /\ second \in 2..(Len(p) + 1) /\ \A i \in 2..(second - 1) : p[i] # Slash
        /\ second =< Len(p) => p[second] = Slash
    <2>1. 1 \in 0..Len(p) /\ 1 + 1 = 2
      BY <1>2
    <2> QED
      BY <1>1, <1>4, <2>1, NextSlashIs
  <1>6. PICK b \in 2..(Len(p) + 1) : b = second
    BY <1>5
  <1> HIDE DEF second
  <1>7. segment1 = SubSeq(p, 1, b - 1)
    <2>1. 1 \in 1..Len(p) /\ b \in (1 + 1)..(Len(p) + 1)
      BY <1>2
    <2>2. <<Slash>> \o SubSeq(p, 1 + 1, b - 1) = SubSeq(p, 1, b - 1)
      BY <1>1, <2>1, SegmentIs
    <2> QED
      BY <1>4, <1>6, <2>2
  <1>8. CASE b > Len(p)
    <2>1. b - 1 = Len(p)
      BY <1>2, <1>8
    <2>2. extractTransactionNameFromPath(path) = SubSeq(p, 1, Len(p))
      BY <1>2, <1>3, <1>4, <1>6, <1>7, <1>8, <2>1
    <2>3. \A i \in 1..Len(p) : i = 1 \/ i \in 2..(b - 1)
      BY <1>2, <2>1
    <2>4. \A i \in 1..Len(p) : p[i] = Slash => i \in {1, b}
      BY <1>5, <1>6, <2>3
    <2>5. Len(p) \in 1..Len(p)
      BY <1>2
    <2> QED
      BY <2>2, <2>4, <2>5 DEF UpToThirdSlash
  <1>9. CASE ~ (b > Len(p))
    <2>1. b \in 2..Len(p) /\ b \in 0..Len(p) /\ b \in 1..Len(p)
      BY <1>2, <1>9
    <2>2. /\ third \in (b + 1)..(Len(p) + 1) /\ \A i \in (b + 1)..(third - 1) : p[i] # Slash
          /\ third =< Len(p) => p[third] = Slash
      BY <1>1, <1>6, <2>1, NextSlashIs
    <2>3. PICK c \in (b + 1)..(Len(p) + 1) : c = third
      BY <2>2
    <2> HIDE DEF third
    <2>4. p[b] = Slash
      BY <1>5, <1>6, <2>1
    <2>5. segment2 = SubSeq(p, b, c - 1)
      BY <1>1, <1>6, <2>1, <2>3, <2>4, SegmentIs
    <2>6. SubSeq(p, 1, b - 1) \o SubSeq(p, b, c - 1) = SubSeq(p, 1, c - 1)
      <3>1. c \in b..(Len(p) + 1)
        BY <1>2
      <3> QED
        BY <1>1, <2>1, <3>1, JoinIs
    <2>7. extractTransactionNameFromPath(path) = SubSeq(p, 1, c - 1)
      <3>1. ~ (first > Len(p)) /\ ~ (second > Len(p))
        BY <1>2, <1>4, <1>6, <1>9
      <3>2. extractTransactionNameFromPath(path) = segment1 \o segment2
        BY <1>3, <3>1
      <3> HIDE DEF segment1, segment2
      <3> QED
        BY <1>7, <2>5, <2>6, <3>2
    <2>8. c - 1 \in 1..Len(p) /\ (c - 1) + 1 = c /\ b =< c - 1
      BY <1>2, <2>1
    <2>9. \A i \in 1..(c - 1) : p[i] = Slash => i \in {1, b}
      <3>1. \A i \in 1..(c - 1) : i = 1 \/ i \in 2..(b - 1) \/ i = b \/ i \in (b + 1)..(c - 1)
        BY <1>2, <2>1
      <3> QED
        BY <1>5, <1>6, <2>2, <2>3, <3>1
    <2>10. c - 1 = Len(p) \/ p[(c - 1) + 1] = Slash
      BY <1>2, <2>2, <2>3, <2>8
    <2> QED
      BY <2>4, <2>7, <2>8, <2>9, <2>10 DEF UpToThirdSlash
  <1> QED
    BY <1>8, <1>9

\* Two texts make a text.
LEMMA JoinIsText ==
    ASSUME NEW s, IsText(s), NEW t, IsText(t)
    PROVE  IsText(s \o t)
  <1> DEFINE T == ToSet(s) \cup ToSet(t)
             w == s \o t
  <1>1. s \in Seq(T) /\ t \in Seq(T)
    BY DEF IsText, ToSet
  <1> HIDE DEF T
  <1>2. w \in Seq(T)
    BY <1>1, ConcatProperties
  <1> HIDE DEF w
  <1>3. DOMAIN w = 1..Len(w) /\ Len(w) \in Nat /\ w = [i \in 1..Len(w) |-> w[i]]
    BY <1>2
  <1>4. \A i \in 1..Len(w) : w[i] \in ToSet(w)
    BY <1>3 DEF ToSet
  <1>5. IsText(w)
    BY <1>3, <1>4 DEF IsText
  <1> QED
    BY <1>5 DEF w

\* Every path gives a text.
LEMMA ExtractIsText ==
    ASSUME NEW path, IsText(path)
    PROVE  IsText(extractTransactionNameFromPath(path))
  <1> DEFINE p == WithoutQuery(path)
             first == NextSlash(p, 0)
             second == NextSlash(p, first)
             third == NextSlash(p, second)
             cut1 == SubSeq(p, first + 1, second - 1)
             cut2 == SubSeq(p, second + 1, third - 1)
             segment1 == <<Slash>> \o cut1
             segment2 == <<Slash>> \o cut2
  <1>1. IsText(p)
    BY WithoutQueryIs
  <1>3. extractTransactionNameFromPath(path) =
          IF first > Len(p) THEN p ELSE IF second > Len(p) THEN segment1 ELSE segment1 \o segment2
    BY DEF extractTransactionNameFromPath
  <1> HIDE DEF p
  <1>2. Len(p) \in Nat
    BY <1>1 DEF IsText
  <1>4. first \in 1..(Len(p) + 1)
    BY <1>1, <1>2, NextSlashIs
  <1> HIDE DEF first
  <1>5. CASE first > Len(p)
    BY <1>1, <1>3, <1>5
  <1>6. CASE ~ (first > Len(p))
    <2>1. first \in 1..Len(p) /\ first \in 0..Len(p)
      BY <1>2, <1>4, <1>6
    <2>2. second \in (first + 1)..(Len(p) + 1)
      BY <1>1, <2>1, NextSlashIs
    <2> HIDE DEF second
    <2>3. IsText(cut1)
      <3>1. first + 1 \in 1..(Len(p) + 1) /\ second - 1 \in ((first + 1) - 1)..Len(p)
        BY <1>2, <2>1, <2>2
      <3> QED
        BY <1>1, <3>1, CutIs
    <2> HIDE DEF cut1
    <2>4. IsText(segment1)
      BY <2>3, SlashIs
    <2> HIDE DEF segment1
    <2>5. CASE second > Len(p)
      BY <1>3, <1>6, <2>4, <2>5
    <2>6. CASE ~ (second > Len(p))
      <3>1. second \in 0..Len(p) /\ second \in 1..Len(p)
        BY <1>2, <2>1, <2>2, <2>6
      <3>2. third \in (second + 1)..(Len(p) + 1)
        BY <1>1, <3>1, NextSlashIs
      <3> HIDE DEF third
      <3>3. IsText(cut2)
        <4>1. second + 1 \in 1..(Len(p) + 1) /\ third - 1 \in ((second + 1) - 1)..Len(p)
          BY <1>2, <3>1, <3>2
        <4> QED
          BY <1>1, <4>1, CutIs
      <3> HIDE DEF cut2
      <3>4. IsText(segment2)
        BY <3>3, SlashIs
      <3> HIDE DEF segment2
      <3>5. IsText(segment1 \o segment2)
        BY <2>4, <3>4, JoinIsText
      <3> QED
        BY <1>3, <1>6, <2>6, <3>5
    <2> QED
      BY <2>5, <2>6
  <1> QED
    BY <1>5, <1>6

\* The value of an attribute is a text, the empty one if it is not given.
LEMMA ValueIsText ==
    ASSUME NEW i \in Inputs, NEW v
    PROVE  IsText(ValueOf(i.attrs, v))
  <1> DEFINE given == {j \in DOMAIN i.attrs : i.attrs[j].key \in Variables[v]}
  <1>1. DOMAIN i.attrs = 1..Len(i.attrs) /\ Len(i.attrs) \in Nat
    BY InputsAssumption
  <1>2. CASE given = {}
    <2>1. ValueOf(i.attrs, v) = <<>>
      BY <1>2 DEF ValueOf, EmptyText
    <2>2. IsText(<<>>)
      BY EmptySeq DEF IsText
    <2> QED
      BY <2>1, <2>2
  <1>3. CASE given # {}
    <2>1. given \subseteq 1..Len(i.attrs)
      BY <1>1
    <2>2. ValueOf(i.attrs, v) = i.attrs[Max(given)].value
      BY <1>3 DEF ValueOf
    <2> HIDE DEF given
    <2>3. Max(given) \in DOMAIN i.attrs
      BY <1>1, <1>3, <2>1, MaxIs
    <2> QED
      BY <2>2, <2>3, InputsAssumption
  <1> QED
    BY <1>2, <1>3

\* The text that is finished, whichever source it comes from.
Source(i) ==
    IF i.config # EmptyText THEN i.config
    ELSE IF i.lambda # EmptyText THEN i.lambda
    ELSE IF FromAttributes(i.attrs) # EmptyText THEN FromAttributes(i.attrs)
    ELSE i.spanName

\* It is a text.
LEMMA SourceIsText ==
    ASSUME NEW i \in Inputs
    PROVE  IsText(Source(i)) /\ deriveTransactionName(i) = Finished(Source(i))
  <1>1. IsText(ValueOf(i.attrs, "faasName")) /\ IsText(ValueOf(i.attrs, "httpRoute"))
        /\ IsText(ValueOf(i.attrs, "urlPath"))
    BY ValueIsText
  <1>2. IsText(FromAttributes(i.attrs))
    BY <1>1, ExtractIsText DEF FromAttributes
  <1>3. IsText(Source(i))
    BY <1>2, InputsAssumption DEF Source
  <1> QED
    BY <1>3 DEF Source, deriveTransactionName

\* How many slashes there are among the first and one other.
LEMMA SlashesAre ==
    ASSUME NEW S, NEW b, b # 1, S \subseteq {1, b}
    PROVE  Cardinality(S) =< 2 /\ ({1, b} \subseteq S => Cardinality(S) = 2)
  <1>1. IsFiniteSet({1}) /\ Cardinality({1}) = 1
    BY FS_Singleton
  <1>2. {1} \cup {b} = {1, b} /\ b \notin {1}
    OBVIOUS
  <1>3. IsFiniteSet({1} \cup {b}) /\ Cardinality({1} \cup {b}) = 1 + 1
    BY <1>1, <1>2, FS_AddElement
  <1>4. IsFiniteSet({1, b}) /\ Cardinality({1, b}) = 2
    BY <1>2, <1>3
  <1>5. Cardinality(S) =< 2
    BY <1>4, FS_Subset
  <1>6. {1, b} \subseteq S => S = {1, b}
    OBVIOUS
  <1> QED
    BY <1>4, <1>5, <1>6

\* What NameIsBounded says of a name made from a path, and the code does of one
\* with empty segments, too.
BoundedBy(n, path) ==
    /\ IsPrefix(n, path) /\ Slashes(n) =< 2
    /\ Len(n) < MaxName =>
         \E m \in Len(n)..Len(path) :
            /\ \A i \in (Len(n) + 1)..m : path[i] = Blank
            /\ m = Len(path) \/ (path[m + 1] = Slash /\ Slashes(n) = 2)

\* It holds of the beginning of a path up to its third slash, once the blanks at
\* its end are trimmed and it is cut.
LEMMA BeginningIsBounded ==
    ASSUME NEW p, IsText(p), p # EmptyText, p[1] = Slash,
           NEW n \in 1..Len(p), NEW b \in 2..(Len(p) + 1),
           UpToThirdSlash(p, n, b)
    PROVE  BoundedBy(Finished(SubSeq(p, 1, n)), p)
  <1>1. Len(p) \in Nat /\ DOMAIN p = 1..Len(p)
    BY DEF IsText
  <1> DEFINE t == SubSeq(p, 1, n)
  <1>2. IsText(t) /\ Len(t) = n /\ \A i \in 1..n : t[i] = p[i]
    <2>1. 1 \in 1..(Len(p) + 1) /\ n \in (1 - 1)..Len(p) /\ (n - 1) + 1 = n
      BY <1>1
    <2>2. IsText(t) /\ Len(t) = (n - 1) + 1 /\ \A i \in 1..((n - 1) + 1) : t[i] = p[(1 + i) - 1]
      BY <2>1, CutIs
    <2> HIDE DEF t
    <2>3. \A i \in 1..n : (1 + i) - 1 = i
      OBVIOUS
    <2> QED
      BY <2>1, <2>2, <2>3
  <1> HIDE DEF t
  <1>3. t # EmptyText /\ t[1] # Blank
    <2>1. t[1] = Slash /\ t # <<>>
      BY <1>2
    <2> QED
      BY <2>1 DEF Slash, Blank, EmptyText
  <1>4. PICK hi \in 1..n :
               /\ Finished(t) = SubSeq(t, 1, IF hi > MaxName THEN MaxName ELSE hi)
               /\ \A i \in (hi + 1)..n : t[i] = Blank
    BY <1>2, <1>3, FinishedWord
  <1>5. PICK k \in 1..hi : k = IF hi > MaxName THEN MaxName ELSE hi
    BY <1>1, MaxNameAssumption
  <1> DEFINE f == Finished(t)
  <1>6. /\ f = SubSeq(p, 1, k) /\ IsText(f) /\ Len(f) = k /\ DOMAIN f = 1..k
        /\ \A i \in 1..k : f[i] = p[i]
    <2>1. 1 \in 1..(Len(p) + 1) /\ k \in (1 - 1)..Len(p) /\ (k - 1) + 1 = k
      BY <1>1
    <2>2. SubSeq(SubSeq(p, 1, n), 1, k) = SubSeq(p, 1, k)
      BY <1>1 DEF IsText
    <2> DEFINE c == SubSeq(p, 1, k)
    <2>3. /\ IsText(c) /\ Len(c) = (k - 1) + 1 /\ DOMAIN c = 1..((k - 1) + 1)
          /\ \A i \in 1..((k - 1) + 1) : c[i] = p[(1 + i) - 1]
      BY <2>1, CutIs
    <2>4. f = c
      BY <1>4, <1>5, <2>2 DEF t
    <2> HIDE DEF f, c
    <2>5. \A i \in 1..k : (1 + i) - 1 = i
      OBVIOUS
    <2>6. Len(f) = k /\ DOMAIN f = 1..k /\ \A i \in 1..k : f[i] = p[i]
      BY <2>1, <2>3, <2>4, <2>5
    <2> QED
      BY <2>3, <2>4, <2>6 DEF c
  <1> HIDE DEF f
  <1>7. IsPrefix(f, p)
    <2>1. SubSeq(f, 1, Len(f)) = f
      BY <1>6, SubSeqFull DEF IsText
    <2>2. Len(f) =< Len(p) /\ SubSeq(p, 1, Len(f)) = f
      BY <1>1, <1>6
    <2> QED
      BY <2>1, <2>2 DEF IsPrefix
  <1> DEFINE S == {i \in DOMAIN f : f[i] = Slash}
  <1>8. S \subseteq {1, b} /\ b # 1
    <2>1. \A i \in 1..k : i \in 1..n
      BY <1>1
    <2>2. \A i \in S : i \in 1..n /\ p[i] = Slash
      BY <1>6, <2>1
    <2> HIDE DEF S
    <2>3. \A i \in S : i \in {1, b}
      BY <2>2 DEF UpToThirdSlash
    <2>4. b # 1
      BY <1>1
    <2> QED
      BY <2>3, <2>4
  <1>9. Slashes(f) = Cardinality(S)
    BY DEF Slashes
  <1>10. Slashes(f) =< 2
    <2> HIDE DEF S
    <2> QED
      BY <1>8, <1>9, SlashesAre
  <1>11. ASSUME Len(f) < MaxName
         PROVE  /\ \A i \in (Len(f) + 1)..n : p[i] = Blank
                /\ n = Len(p) \/ (p[n + 1] = Slash /\ Slashes(f) = 2)
    <2>1. k = hi
      BY <1>1, <1>5, <1>6, <1>11, MaxNameAssumption
    <2>2. \A i \in (k + 1)..n : i \in 1..n /\ p[i] = Blank
      BY <1>1, <1>2, <1>4, <2>1
    <2>3. ASSUME n # Len(p) PROVE Slashes(f) = 2
      <3>1. b =< n /\ p[b] = Slash
        BY <2>3 DEF UpToThirdSlash
      <3>2. b \in 1..k
        <4>1. Slash # Blank
          BY DEF Slash, Blank
        <4>2. ~ (b \in (k + 1)..n)
          BY <2>2, <3>1, <4>1
        <4> QED
          BY <1>1, <3>1, <4>2
      <3>3. 1 \in S /\ b \in S
        BY <1>1, <1>6, <3>1, <3>2
      <3> HIDE DEF S
      <3>4. {1, b} \subseteq S
        BY <3>3
      <3> QED
        BY <1>8, <1>9, <3>4, SlashesAre
    <2>4. n = Len(p) \/ p[n + 1] = Slash
      BY DEF UpToThirdSlash
    <2> QED
      BY <1>6, <2>2, <2>3, <2>4
  <1>12. n \in Len(f)..Len(p)
    BY <1>1, <1>6
  <1>13. BoundedBy(f, p)
    BY <1>7, <1>10, <1>11, <1>12 DEF BoundedBy
  <1> QED
    BY <1>13 DEF f, t

\* The name of a span that is named by its path.
LEMMA NamedByPathIs ==
    ASSUME NEW i \in Inputs, NamedByPath(i)
    PROVE  BoundedBy(deriveTransactionName(i), WithoutQuery(ValueOf(i.attrs, "urlPath")))
  <1> DEFINE path == ValueOf(i.attrs, "urlPath")
             p == WithoutQuery(path)
             e == extractTransactionNameFromPath(path)
  <1>1. IsText(path) /\ path # EmptyText
    BY ValueIsText DEF NamedByPath
  <1>2. path[1] = Slash
    <2>1. Head(path) = Slash
      BY DEF NamedByPath
    <2> HIDE DEF path
    <2>2. Head(path) = path[1]
      BY <1>1 DEF IsText, EmptyText
    <2> QED
      BY <2>1, <2>2
  <1>3. /\ i.config = EmptyText /\ i.lambda = EmptyText
        /\ ValueOf(i.attrs, "faasName") = EmptyText /\ ValueOf(i.attrs, "httpRoute") = EmptyText
    BY DEF NamedByPath
  <1>4. FromAttributes(i.attrs) = e
    BY <1>3 DEF FromAttributes
  <1> HIDE DEF path
  <1>5. IsText(p) /\ p # EmptyText /\ p[1] = Slash
    BY <1>1, <1>2, WithoutQueryIs
  <1>6. \E n \in 1..Len(p), b \in 2..(Len(p) + 1) :
          e = SubSeq(p, 1, n) /\ UpToThirdSlash(p, n, b)
    BY <1>1, <1>5, PathName
  <1>7. PICK n \in 1..Len(p), b \in 2..(Len(p) + 1) :
          e = SubSeq(p, 1, n) /\ UpToThirdSlash(p, n, b)
    BY <1>6
  <1> HIDE DEF p
  <1>8. e # EmptyText
    <2>1. Len(p) \in Nat /\ p \in Seq(ToSet(p))
      BY <1>5 DEF IsText
    <2>2. Len(SubSeq(p, 1, n)) = n /\ n # 0
      BY <2>1
    <2>3. SubSeq(p, 1, n) # <<>>
      BY <2>2
    <2> QED
      BY <1>7, <2>3 DEF EmptyText
  <1> HIDE DEF e
  <1>9. deriveTransactionName(i) = Finished(e)
    BY <1>3, <1>4, <1>8 DEF deriveTransactionName
  <1>10. BoundedBy(Finished(SubSeq(p, 1, n)), p)
    BY <1>5, <1>7, BeginningIsBounded
  <1> QED
    BY <1>7, <1>9, <1>10 DEF p, path

\* What has been returned is the name of the input.
NamesInv == done => input \in Inputs /\ name = deriveTransactionName(input)

\* It is so in every behaviour.
LEMMA SpecNamesInv == NamesSpec => []NamesInv
  <1>1. NamesInit => NamesInv
    BY DEF NamesInit, NamesInv
  <1>2. NamesInv /\ [NamesNext]_namesVars => NamesInv'
    BY DEF NamesInv, NamesNext, Derive, namesVars
  <1> QED
    BY <1>1, <1>2, PTL DEF NamesSpec

\* txn.go, deriveTransactionName: for all attributes, paths and limits, the name is
\* usable, and one made from a path is a beginning of it with at most two slashes,
\* the longest there is when no segment of the path is empty.
THEOREM NameIsBoundedTheorem == NamesSpec => []NameIsBounded
  <1>1. NamesInv => NameIsBounded
    <2> SUFFICES ASSUME NamesInv, done PROVE NameIsBounded
      BY DEF NameIsBounded
    <2>1. input \in Inputs /\ name = deriveTransactionName(input)
      BY DEF NamesInv
    <2>2. name # EmptyText /\ Head(name) # Blank /\ Len(name) =< MaxName
      BY <2>1, SourceIsText, FinishedIs
    <2>3. NamedByPath(input) => BoundedBy(name, WithoutQuery(ValueOf(input.attrs, "urlPath")))
      BY <2>1, NamedByPathIs
    <2> QED
      BY <2>2, <2>3 DEF NameIsBounded, BoundedBy
  <1> QED
    BY <1>1, SpecNamesInv, PTL

=============================================================================
