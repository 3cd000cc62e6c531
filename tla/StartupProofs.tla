---------------------------- MODULE StartupProofs ---------------------------
(***************************************************************************)
(* Proofs about what a process does before it can report: Resource, for    *)
(* any surroundings and any number of Starts, ProxyDialer, for any number  *)
(* of dials and bytes, and Config, for any files, environments, options    *)
(* and any number of Loads.                                                *)
(***************************************************************************)
EXTENDS Config, Resource, ProxyDialer, TLAPS, SequenceTheorems

-----------------------------------------------------------------------------
(* The invariants.                                                         *)

\* Resource: a Start has failures and conflicts only; the variable is as given
\* or as the first Start wrote it; the k8s detector has one answer.
ResourceInv ==
    /\ starts \in Nat /\ errs \subseteq {Conflict, Failure}
    /\ DOMAIN found = {"service", "uams", "pod"}
    /\ starts = 0 => step = "idle" /\ serviceName = given
    /\ starts > 0 => serviceName = IF given # None THEN given ELSE KeyName
    /\ (step = "merge" /\ world.startName = None /\ serviceName # None) =>
         found.service = serviceName
    /\ IF once THEN memos \subseteq {memoized} ELSE memos = {}
    /\ ConflictIsNotFatal /\ IdentityIsStable

\* Dialer: the item at position i of what arrives on the connection; until the
\* answer a is accepted it comes first.
Item(reading, a, i) == IF reading THEN (IF i = 1 THEN a ELSE i - 1) ELSE i
Items == Nat \cup {"200", "407"}

\* The items of s are those that follow the first n.
Follows(s, n, reading, a) == \A i \in 1..Len(s) : s[i] = Item(reading, a, n + i)

\* What was read, what is buffered and what is on the wire are, in this order,
\* what was sent.
InOrder(reading) ==
    /\ Follows(received, 0, reading, answered)
    /\ Follows(buffer, Len(received), reading, answered)
    /\ Follows(wire, Len(received) + Len(buffer), reading, answered)

DialInv ==
    /\ received \in Seq(Items) /\ buffer \in Seq(Items) /\ wire \in Seq(Items)
    /\ sent \in Nat /\ answered \in {NoAnswer, "200", "407"}
    /\ at = "write" => /\ answered = NoAnswer /\ sent = 0
                       /\ received = <<>> /\ buffer = <<>> /\ wire = <<>>
    /\ at = "read" => /\ received = <<>>
                      /\ answered # "200" => sent = 0
                      /\ Len(buffer) + Len(wire) = IF answered = NoAnswer THEN 0 ELSE sent + 1
                      /\ InOrder(TRUE)
    /\ at = "tunnel" => /\ Len(received) + Len(buffer) + Len(wire) = sent
                        /\ answered = "200"
                        /\ InOrder(FALSE)

\* Config: what is known of a Load at each of its steps.  Given is what the sources
\* read so far say.
Given == fields = Said

\* A flag that is set was set by a source, and a value without its flag is the
\* default.
Flagged(s) ==
    /\ ~ s.tracingModeConfigured => s.TracingMode = DefaultSampling.TracingMode
    /\ ~ s.sampleRateConfigured => s.SampleRate = DefaultSampling.SampleRate
    /\ s.tracingModeConfigured => "TracingMode" \in Readable(env) \/ "Sampling" \in DOMAIN file.sets
    /\ s.sampleRateConfigured => "SampleRate" \in Readable(env) \/ "Sampling" \in DOMAIN file.sets

\* A value with its flag is what the sources say; nobody has said anything valid of
\* one without.
Chosen(s) ==
    /\ s.tracingModeConfigured => s.TracingMode = SaidMode
    /\ ~ s.tracingModeConfigured => ~ IsValidTracingMode(SaidMode)
    /\ s.sampleRateConfigured => s.SampleRate = SaidRate
    /\ ~ s.sampleRateConfigured => ~ IsValidSampleRate(SaidRate)

\* A SamplingConfig has two values and two flags.
IsSampling(s) ==
    /\ s = [x \in DOMAIN DefaultSampling |-> s[x]]
    /\ s.tracingModeConfigured \in BOOLEAN /\ s.sampleRateConfigured \in BOOLEAN

\* Both, of a struct that is there, and the reporter is what the sources say.
SamplingGiven == sampling # Nil => IsSampling(sampling) /\ Flagged(sampling) /\ Chosen(sampling)
ReporterGiven == reporter # Nil => reporter = SaidReporter

LoadInv ==
    /\ file \in Files \cup {NoFile} /\ env \in Envs \cup {<<>>} /\ opts \in Options \cup {<<>>}
    /\ loading \in {"start", "file", "envs", "options", "validate", "done", "panic"}
    /\ loading = "file" => /\ file = NoFile
                           /\ sampling \in {DefaultSampling, Nil} /\ reporter \in {DefaultReporter, Nil}
    /\ loading \in {"file", "envs"} => env = <<>>
    /\ loading \in {"file", "envs", "options"} => opts = <<>>
    /\ loading \in {"file", "envs", "options", "validate"} =>
         Given /\ SamplingGiven /\ ReporterGiven
    /\ loading = "validate" => fields.Enabled = TRUE
    /\ LoadedIsValid /\ FlagsTruthful /\ LoadIsPure

-----------------------------------------------------------------------------
(* Resource.                                                               *)

\* What filtering leaves of the errors of one Start: never a conflict, and a
\* failure unless it came together with a conflict.
LEMMA FilterFacts ==
    ASSUME errs \subseteq {Conflict, Failure}, NEW m \in BOOLEAN, MergeDefault(m)
    PROVE  /\ Conflict \notin result'.err
           /\ Failure \notin errs => result'.err = {}
           /\ Failure \in errs /\ Conflict \notin errs => result'.err = {Failure}
<1> DEFINE parts    == Combined(m)
           filtered == IF \E e \in parts : Conflict \in e
                       THEN filterSchemaURLConflict(parts) ELSE parts
<1>1. result'.err = UNION filtered
  BY DEF MergeDefault
<1>2. \A e : e \in parts <=> e # {} /\ (e = errs \/ (m /\ e = {Conflict}))
  BY DEF Combined
<1>3. \A e : e \in filtered <=> e \in parts /\ Conflict \notin e
  BY DEF filterSchemaURLConflict
<1> HIDE DEF parts, filtered
<1>4. \A e : e \in filtered => e = errs /\ Conflict \notin errs /\ errs # {}
  BY <1>2, <1>3
<1>5. Conflict # Failure
  BY DEF Conflict, Failure
<1>6. \A e \in filtered : e = {Failure} /\ Failure \in errs
  BY <1>4
<1>7. Conflict \notin UNION filtered
  BY <1>4
<1>8. Failure \notin errs => UNION filtered = {}
  BY <1>6
<1>9. Failure \in errs /\ Conflict \notin errs => UNION filtered = {Failure}
  <2> SUFFICES ASSUME Failure \in errs, Conflict \notin errs PROVE UNION filtered = {Failure}
    OBVIOUS
  <2>1. errs \in filtered
    BY <1>2, <1>3
  <2> QED BY <2>1, <1>6
<1> QED BY <1>1, <1>7, <1>8, <1>9

\* The invariant at the start of the process.
LEMMA ResourceStart == ResourceInit => ResourceInv
<1> SUFFICES ASSUME ResourceInit PROVE ResourceInv
  OBVIOUS
<1>1. /\ starts = 0 /\ step = "idle" /\ memos = {} /\ ~ once /\ errs = {}
      /\ serviceName = given /\ found = Nothing
  BY DEF ResourceInit
<1>2. DOMAIN found = {"service", "uams", "pod"}
  BY <1>1 DEF Nothing
<1>3. ConflictIsNotFatal /\ IdentityIsStable
  BY <1>1 DEF ConflictIsNotFatal, IdentityIsStable, Returned
<1> QED BY <1>1, <1>2, <1>3 DEF ResourceInv

\* Every step of a Start preserves it.
LEMMA ResourceStep == ResourceInv /\ [ResourceNext]_resourceVars => ResourceInv'
<1> SUFFICES ASSUME ResourceInv, [ResourceNext]_resourceVars PROVE ResourceInv'
  OBVIOUS
<1> USE DEF ResourceInv
<1>1. ASSUME NEW w \in Worlds, SetServiceName(w) PROVE ResourceInv'
  BY <1>1 DEF SetServiceName, Nothing, ConflictIsNotFatal, IdentityIsStable, Returned
<1>2. CASE DetectUams
  BY <1>2 DEF DetectUams, Goes, ConflictIsNotFatal, IdentityIsStable, Returned
<1>3. ASSUME NEW es \in SUBSET {Conflict, Failure}, DetectCloud(es) PROVE ResourceInv'
  BY <1>3 DEF DetectCloud, Goes, ConflictIsNotFatal, IdentityIsStable, Returned
<1>4. CASE DetectK8s
  BY <1>4 DEF DetectK8s, Goes, ConflictIsNotFatal, IdentityIsStable, Returned
<1>5. CASE SkipK8s
  BY <1>5 DEF SkipK8s, Goes, ConflictIsNotFatal, IdentityIsStable, Returned
<1>6. CASE DetectEnv
  BY <1>6 DEF DetectEnv, Goes, ConflictIsNotFatal, IdentityIsStable, Returned
<1>7. ASSUME NEW m \in BOOLEAN, MergeDefault(m) PROVE ResourceInv'
  <2>1. /\ Conflict \notin result'.err
        /\ Failure \notin errs => result'.err = {}
        /\ Failure \in errs /\ Conflict \notin errs => result'.err = {Failure}
    BY <1>7, FilterFacts
  <2>2. /\ result'.attrs = found /\ step' = "idle" /\ step = "merge"
        /\ UNCHANGED <<world, serviceName, given, once, memoized, found, errs, starts, memos>>
    BY <1>7 DEF MergeDefault
  <2>3. ConflictIsNotFatal'
    BY <2>1, <2>2 DEF ConflictIsNotFatal
  <2>4. IdentityIsStable'
    BY <2>2 DEF IdentityIsStable, Returned
  <2> QED BY <2>2, <2>3, <2>4
<1>8. CASE UNCHANGED resourceVars
  BY <1>8 DEF resourceVars, ConflictIsNotFatal, IdentityIsStable, Returned
<1> QED BY <1>1, <1>2, <1>3, <1>4, <1>5, <1>6, <1>7, <1>8 DEF ResourceNext

\* However often Start is tried, a schema conflict never stops the agent and an
\* unaccompanied failure is always reported.
THEOREM ConflictsAreDropped == ResourceSpec => []ConflictIsNotFatal
<1>1. ResourceInv => ConflictIsNotFatal
  BY DEF ResourceInv
<1> QED BY <1>1, ResourceStart, ResourceStep, PTL DEF ResourceSpec

\* However often Start is tried, the process keeps its name and its Pod.
THEOREM IdentityHolds == ResourceSpec => []IdentityIsStable
<1>1. ResourceInv => IdentityIsStable
  BY DEF ResourceInv
<1> QED BY <1>1, ResourceStart, ResourceStep, PTL DEF ResourceSpec

-----------------------------------------------------------------------------
(* ProxyDialer.                                                            *)

\* Both parts of a sequence that is cut follow each other.
LEMMA CutFacts ==
    ASSUME NEW s \in Seq(Items), NEW n \in 1..Len(s), NEW k \in Nat, NEW rd \in BOOLEAN, NEW a,
           Follows(s, k, rd, a)
    PROVE  /\ SubSeq(s, 1, n) \in Seq(Items) /\ Len(SubSeq(s, 1, n)) = n
           /\ SubSeq(s, n + 1, Len(s)) \in Seq(Items) /\ Len(SubSeq(s, n + 1, Len(s))) = Len(s) - n
           /\ Follows(SubSeq(s, 1, n), k, rd, a)
           /\ Follows(SubSeq(s, n + 1, Len(s)), k + n, rd, a)
<1> DEFINE l == SubSeq(s, 1, n)
           r == SubSeq(s, n + 1, Len(s))
<1>1. Len(s) \in Nat /\ n \in Nat /\ n =< Len(s) /\ \A i \in 1..Len(s) : s[i] \in Items
  OBVIOUS
<1>2. \A i \in 1..n : s[i] \in Items
  BY <1>1
<1>3. \A i \in n + 1 .. Len(s) : s[i] \in Items
  BY <1>1
<1>4. l \in Seq(Items) /\ Len(l) = n /\ \A i \in 1..n : l[i] = s[i]
  <2>1. l \in Seq(Items) /\ Len(l) = (IF 1 =< n THEN n - 1 + 1 ELSE 0)
        /\ \A i \in 1 .. n - 1 + 1 : l[i] = s[1 + i - 1]
    BY <1>1, <1>2, SubSeqProperties
  <2> HIDE DEF l
  <2> QED BY <2>1, <1>1
<1>5. r \in Seq(Items) /\ Len(r) = Len(s) - n /\ \A i \in 1..Len(s) - n : r[i] = s[n + i]
  <2>1. /\ r \in Seq(Items)
        /\ Len(r) = (IF n + 1 =< Len(s) THEN Len(s) - (n + 1) + 1 ELSE 0)
        /\ \A i \in 1 .. Len(s) - (n + 1) + 1 : r[i] = s[n + 1 + i - 1]
    BY <1>1, <1>3, SubSeqProperties
  <2> HIDE DEF r
  <2> QED BY <2>1, <1>1
<1> HIDE DEF l, r
<1>6. Follows(l, k, rd, a)
  BY <1>1, <1>4 DEF Follows
<1>7. Follows(r, k + n, rd, a)
  <2> SUFFICES ASSUME NEW i \in 1..Len(r) PROVE r[i] = Item(rd, a, k + n + i)
    BY DEF Follows
  <2>1. i \in 1..Len(s) - n /\ n + i \in 1..Len(s) /\ k + (n + i) = k + n + i
    BY <1>1, <1>5
  <2>2. s[n + i] = Item(rd, a, k + (n + i))
    BY <2>1 DEF Follows
  <2> QED BY <2>1, <2>2, <1>5
<1> QED BY <1>4, <1>5, <1>6, <1>7 DEF l, r

\* Reading more from where the reader stands.
LEMMA ConcatFacts ==
    ASSUME NEW s \in Seq(Items), NEW t \in Seq(Items), NEW k \in Nat, NEW rd \in BOOLEAN, NEW a,
           Follows(s, k, rd, a), Follows(t, k + Len(s), rd, a)
    PROVE  /\ s \o t \in Seq(Items) /\ Len(s \o t) = Len(s) + Len(t)
           /\ Follows(s \o t, k, rd, a)
<1> DEFINE c == s \o t
<1>1. /\ c \in Seq(Items) /\ Len(c) = Len(s) + Len(t) /\ Len(s) \in Nat /\ Len(t) \in Nat
      /\ \A i \in 1 .. Len(s) + Len(t) : c[i] = IF i =< Len(s) THEN s[i] ELSE t[i - Len(s)]
  BY ConcatProperties
<1> HIDE DEF c
<1>2. Follows(c, k, rd, a)
  <2> SUFFICES ASSUME NEW i \in 1..Len(c) PROVE c[i] = Item(rd, a, k + i)
    BY DEF Follows
  <2>1. CASE i =< Len(s)
    BY <2>1, <1>1 DEF Follows
  <2>2. CASE i > Len(s)
    <3>1. i - Len(s) \in 1..Len(t) /\ k + Len(s) + (i - Len(s)) = k + i
      BY <2>2, <1>1
    <3>2. t[i - Len(s)] = Item(rd, a, k + Len(s) + (i - Len(s)))
      BY <3>1 DEF Follows
    <3> QED BY <3>1, <3>2, <2>2, <1>1
  <2> QED BY <2>1, <2>2, <1>1
<1> QED BY <1>1, <1>2 DEF c

\* One more item arrives.
LEMMA AppendFacts ==
    ASSUME NEW s \in Seq(Items), NEW x \in Items, NEW k \in Nat, NEW rd \in BOOLEAN, NEW a,
           Follows(s, k, rd, a), x = Item(rd, a, k + Len(s) + 1)
    PROVE  /\ Append(s, x) \in Seq(Items) /\ Len(Append(s, x)) = Len(s) + 1
           /\ Follows(Append(s, x), k, rd, a)
<1>1. Len(s) \in Nat
  OBVIOUS
<1> SUFFICES ASSUME NEW i \in 1..Len(s) + 1 PROVE Append(s, x)[i] = Item(rd, a, k + i)
  BY <1>1 DEF Follows
<1>2. CASE i \in 1..Len(s)
  BY <1>2 DEF Follows
<1>3. CASE i = Len(s) + 1
  <2>1. Append(s, x)[i] = x /\ k + i = k + Len(s) + 1
    BY <1>1, <1>3
  <2> QED BY <2>1
<1> QED BY <1>1, <1>2, <1>3

\* Once the answer is taken off, positions count from the collector's first byte.
LEMMA AcceptFacts ==
    ASSUME NEW b \in Seq(Items), NEW w \in Seq(Items), NEW a, b # <<>>,
           Follows(b, 0, TRUE, a), Follows(w, Len(b), TRUE, a)
    PROVE  /\ Head(b) = a
           /\ Tail(b) \in Seq(Items) /\ Len(Tail(b)) = Len(b) - 1 /\ Len(b) \in Nat \ {0}
           /\ Follows(Tail(b), 0, FALSE, a) /\ Follows(w, Len(b) - 1, FALSE, a)
<1> DEFINE t == Tail(b)
<1>1. /\ t \in Seq(Items) /\ Len(t) = Len(b) - 1 /\ Len(b) \in Nat \ {0}
      /\ \A i \in 1..Len(t) : t[i] = b[i + 1]
  BY HeadTailProperties, EmptySeq
<1>2. Head(b) = b[1] /\ 1 \in 1..Len(b)
  BY <1>1
<1>3. b[1] = a
  BY <1>2 DEF Follows, Item
<1> HIDE DEF t
<1>4. Follows(t, 0, FALSE, a)
  <2> SUFFICES ASSUME NEW i \in 1..Len(t) PROVE t[i] = i
    BY DEF Follows, Item
  <2>1. i + 1 \in 1..Len(b) /\ 0 + (i + 1) # 1 /\ 0 + (i + 1) - 1 = i
    BY <1>1
  <2>2. b[i + 1] = Item(TRUE, a, 0 + (i + 1))
    BY <2>1 DEF Follows
  <2> QED BY <2>1, <2>2, <1>1 DEF Item
<1>5. Follows(w, Len(b) - 1, FALSE, a)
  BY <1>1 DEF Follows, Item
<1> QED BY <1>1, <1>2, <1>3, <1>4, <1>5 DEF t

\* No answer is not an answer.
LEMMA NoAnswerFacts == NoAnswer \notin {"200", "407"}
  BY Zenon DEF NoAnswer

\* Nothing has been dialled.
LEMMA DialStart == DialerInit => DialInv
  BY EmptySeq DEF DialerInit, DialInv

\* Every step of the dialer, of gRPC and of the peers preserves the invariant.
LEMMA DialStep == DialInv /\ [DialerNext]_dialerVars => DialInv'
<1> SUFFICES ASSUME DialInv, [DialerNext]_dialerVars PROVE DialInv'
  OBVIOUS
<1>1. /\ received \in Seq(Items) /\ buffer \in Seq(Items) /\ wire \in Seq(Items)
      /\ Len(received) \in Nat /\ Len(buffer) \in Nat /\ Len(wire) \in Nat
      /\ sent \in Nat /\ answered \in {NoAnswer, "200", "407"}
  BY DEF DialInv
<1> USE NoAnswerFacts
<1>2. ASSUME UNCHANGED <<received, buffer, wire, sent, answered>>,
             at' = at \/ at' \notin {"write", "read", "tunnel"}
      PROVE  DialInv'
  <2>1. InOrder(TRUE)' = InOrder(TRUE) /\ InOrder(FALSE)' = InOrder(FALSE)
    BY <1>2 DEF InOrder
  <2> QED BY <1>2, <2>1 DEF DialInv
<1>3. CASE Dial \/ ConnectFails \/ WriteFails \/ ReadFails \/ Reject \/ GrpcNotes \/ PeerCloses \/ Finalize
  <2>1. /\ UNCHANGED <<received, buffer, wire, sent, answered>>
        /\ at' = at \/ at' \notin {"write", "read", "tunnel"}
    BY <1>3 DEF Dial, ConnectFails, WriteFails, ReadFails, Reject, HandshakeFails, GrpcNotes,
                PeerCloses, Finalize, connection
  <2> QED BY <2>1, <1>2
<1>4. CASE Connect
  BY <1>4, EmptySeq DEF Connect, DialInv
<1>5. CASE WriteRequest
  <2>1. /\ at' = "read" /\ at = "write"
        /\ UNCHANGED <<received, buffer, wire, sent, answered>>
    BY <1>5 DEF WriteRequest, connection
  <2>2. /\ answered = NoAnswer /\ sent = 0 /\ received = <<>> /\ buffer = <<>> /\ wire = <<>>
    BY <2>1 DEF DialInv
  <2>3. Len(received) = 0 /\ Len(buffer) = 0 /\ Len(wire) = 0
    BY <2>2
  <2>4. InOrder(TRUE)'
    BY <2>1, <2>3 DEF InOrder, Follows
  <2>5. Len(buffer) + Len(wire) = 0
    BY <2>3
  <2>6. (Len(buffer) + Len(wire) = IF answered = NoAnswer THEN 0 ELSE sent + 1)'
    <3>1. (IF answered = NoAnswer THEN 0 ELSE sent + 1) = 0
      BY <2>2, Zenon
    <3>2. Len(buffer) + Len(wire) = IF answered = NoAnswer THEN 0 ELSE sent + 1
      BY <3>1, <2>5, Zenon
    <3> QED BY <3>2, <2>1, Zenon
  <2>7. at' # "write" /\ at' # "tunnel" /\ received' = <<>> /\ sent' = 0
    BY <2>1, <2>2
  <2>8. /\ received' \in Seq(Items) /\ buffer' \in Seq(Items) /\ wire' \in Seq(Items)
        /\ sent' \in Nat /\ answered' \in {NoAnswer, "200", "407"}
    BY <2>1, <1>1, Zenon
  <2> QED BY <2>4, <2>6, <2>7, <2>8, Zenon DEF DialInv
<1>6. ASSUME NEW n \in 1..(MaxSent + 1), Fill(n) PROVE DialInv'
  <2>1. /\ at = "read" /\ buffer = <<>> /\ n \in 1..Len(wire) /\ received = <<>>
        /\ Follows(wire, Len(received) + Len(buffer), TRUE, answered)
        /\ answered # "200" => sent = 0
        /\ Len(buffer) + Len(wire) = IF answered = NoAnswer THEN 0 ELSE sent + 1
    BY <1>6 DEF Fill, DialInv, InOrder
  <2>2. Len(received) = 0 /\ Len(buffer) = 0
    BY <2>1
  <2> DEFINE l == SubSeq(wire, 1, n)
             r == SubSeq(wire, n + 1, Len(wire))
  <2>3. buffer' = l /\ wire' = r /\ UNCHANGED <<at, answered, sent, received>>
    BY <1>6 DEF Fill
  <2>4. Follows(wire, 0, TRUE, answered) /\ n \in Nat
    <3>1. Len(received) + Len(buffer) = 0 /\ n \in Nat
      BY <2>1, <2>2
    <3> QED BY <2>1, <3>1, Zenon
  <2>5. /\ l \in Seq(Items) /\ Len(l) = n
        /\ r \in Seq(Items) /\ Len(r) = Len(wire) - n
        /\ Follows(l, 0, TRUE, answered) /\ Follows(r, 0 + n, TRUE, answered)
    BY <2>1, <2>4, <1>1, CutFacts
  <2> HIDE DEF l, r
  <2>6. Len(l) + Len(r) = Len(buffer) + Len(wire) /\ 0 + n = n /\ 0 + Len(l) = n
    BY <2>2, <2>4, <2>5, <1>1
  <2>7. Follows(received, 0, TRUE, answered)
    BY <2>2 DEF Follows
  <2>8. InOrder(TRUE)'
    BY <2>2, <2>3, <2>4, <2>5, <2>6, <2>7 DEF InOrder
  <2> QED BY <2>1, <2>3, <2>5, <2>6, <2>8, <1>1 DEF DialInv
<1>7. CASE Accept
  <2>1. /\ at = "read" /\ buffer # <<>> /\ Head(buffer) = "200" /\ received = <<>>
        /\ Follows(buffer, Len(received), TRUE, answered)
        /\ Follows(wire, Len(received) + Len(buffer), TRUE, answered)
        /\ Len(buffer) + Len(wire) = IF answered = NoAnswer THEN 0 ELSE sent + 1
    BY <1>7 DEF Accept, DialInv, InOrder
  <2>2. Len(received) = 0 /\ 0 + Len(buffer) = Len(buffer)
    BY <2>1, <1>1
  <2> DEFINE t == Tail(buffer)
  <2>3. /\ Head(buffer) = answered
        /\ t \in Seq(Items) /\ Len(t) = Len(buffer) - 1 /\ Len(buffer) \in Nat \ {0}
        /\ Follows(t, 0, FALSE, answered) /\ Follows(wire, Len(buffer) - 1, FALSE, answered)
    <3>1. Len(received) + Len(buffer) = Len(buffer)
      BY <2>2, <1>1
    <3>2. Follows(buffer, 0, TRUE, answered) /\ Follows(wire, Len(buffer), TRUE, answered)
      BY <2>1, <2>2, <3>1, Zenon
    <3> QED BY <2>1, <3>2, <1>1, AcceptFacts
  <2>4. at' = "tunnel" /\ buffer' = t /\ UNCHANGED <<answered, sent, wire, received>>
    BY <1>7 DEF Accept
  <2> HIDE DEF t
  <2>5. answered = "200" /\ Len(t) + Len(wire) = sent /\ 0 + Len(t) = Len(buffer) - 1
    BY <2>1, <2>3, <1>1
  <2>6. Follows(received, 0, FALSE, answered)
    BY <2>2 DEF Follows
  <2>7. InOrder(FALSE)'
    BY <2>2, <2>3, <2>4, <2>5, <2>6 DEF InOrder
  <2>8. 0 + Len(t) + Len(wire) = sent
    BY <2>3, <2>5, <1>1
  <2> QED BY <2>2, <2>3, <2>4, <2>5, <2>7, <2>8, <1>1 DEF DialInv
<1>8. ASSUME NEW n \in 1..(MaxSent + 1), Read(n) PROVE DialInv'
  <2>1. /\ at = "tunnel" /\ answered = "200"
        /\ Len(received) + Len(buffer) + Len(wire) = sent
        /\ Follows(received, 0, FALSE, answered)
        /\ Follows(buffer, Len(received), FALSE, answered)
        /\ Follows(wire, Len(received) + Len(buffer), FALSE, answered)
        /\ UNCHANGED <<at, answered, sent>>
    BY <1>8 DEF Read, DialInv, InOrder
  \* n items are taken from the front of s, which follows what was received.
  <2>2. ASSUME NEW s \in Seq(Items), n \in 1..Len(s), Follows(s, Len(received), FALSE, answered),
               NEW l, NEW r, NEW c,
               l = SubSeq(s, 1, n), r = SubSeq(s, n + 1, Len(s)), c = received \o l
        PROVE  /\ c \in Seq(Items) /\ r \in Seq(Items)
               /\ Len(c) = Len(received) + n /\ Len(r) = Len(s) - n /\ n \in Nat /\ Len(s) \in Nat
               /\ Follows(c, 0, FALSE, answered) /\ Follows(r, Len(received) + n, FALSE, answered)
    <3>1. /\ l \in Seq(Items) /\ Len(l) = n /\ r \in Seq(Items) /\ Len(r) = Len(s) - n
          /\ Follows(l, Len(received), FALSE, answered)
          /\ Follows(r, Len(received) + n, FALSE, answered)
      BY <2>2, <1>1, CutFacts
    <3>2. 0 + Len(received) = Len(received) /\ n \in Nat /\ Len(s) \in Nat
      BY <2>2, <1>1
    <3>3. c \in Seq(Items) /\ Len(c) = Len(received) + Len(l) /\ Follows(c, 0, FALSE, answered)
      BY <3>1, <3>2, <2>1, <2>2, <1>1, ConcatFacts
    <3> QED BY <3>1, <3>2, <3>3
  <2>3. CASE /\ n \in 1..Len(buffer)
             /\ received' = received \o SubSeq(buffer, 1, n)
             /\ buffer' = SubSeq(buffer, n + 1, Len(buffer))
             /\ wire' = wire
    <3> DEFINE r == SubSeq(buffer, n + 1, Len(buffer))
               c == received \o SubSeq(buffer, 1, n)
    <3>1. /\ c \in Seq(Items) /\ r \in Seq(Items)
          /\ Len(c) = Len(received) + n /\ Len(r) = Len(buffer) - n /\ n \in Nat
          /\ Follows(c, 0, FALSE, answered) /\ Follows(r, Len(received) + n, FALSE, answered)
      BY <2>1, <2>2, <2>3, <1>1
    <3>2. received' = c /\ buffer' = r
      BY <2>3
    <3> HIDE DEF c, r
    <3>3. Len(c) + Len(r) = Len(received) + Len(buffer)
      BY <3>1, <1>1
    <3>4. InOrder(FALSE)'
      BY <3>1, <3>2, <3>3, <2>1, <2>3 DEF InOrder
    <3> QED BY <3>1, <3>2, <3>3, <3>4, <2>1, <2>3, <1>1 DEF DialInv
  <2>4. CASE /\ buffer = <<>> /\ n \in 1..Len(wire)
             /\ received' = received \o SubSeq(wire, 1, n)
             /\ wire' = SubSeq(wire, n + 1, Len(wire))
             /\ buffer' = buffer
    <3> DEFINE r == SubSeq(wire, n + 1, Len(wire))
               c == received \o SubSeq(wire, 1, n)
    <3>1. Len(buffer) = 0 /\ Len(received) + Len(buffer) = Len(received)
      BY <2>4, <1>1
    <3>2. /\ c \in Seq(Items) /\ r \in Seq(Items)
          /\ Len(c) = Len(received) + n /\ Len(r) = Len(wire) - n /\ n \in Nat
          /\ Follows(c, 0, FALSE, answered) /\ Follows(r, Len(received) + n, FALSE, answered)
      <4>1. Follows(wire, Len(received), FALSE, answered)
        BY <2>1, <3>1, Zenon
      <4>2. wire \in Seq(Items) /\ n \in 1..Len(wire)
        BY <2>4, <1>1
      <4> HIDE DEF c, r
      <4>3. c = received \o SubSeq(wire, 1, n) /\ r = SubSeq(wire, n + 1, Len(wire))
        BY DEF c, r
      <4> QED BY <4>1, <4>2, <4>3, <2>2, Zenon
    <3>3. received' = c /\ wire' = r /\ buffer' = buffer
      BY <2>4
    <3> HIDE DEF c, r
    <3>4. Len(c) + Len(buffer) = Len(received) + n /\ Len(c) + Len(buffer) + Len(r) = sent
      <4>1. Len(received) + Len(buffer) + Len(wire) = sent
        BY <2>1
      <4>2. Len(c) = Len(received) + n /\ Len(r) = Len(wire) - n /\ n \in Nat
        BY <3>2
      <4> QED BY <4>1, <4>2, <3>1, <1>1
    <3>5. Follows(buffer, Len(c), FALSE, answered)
      BY <3>1 DEF Follows
    <3>6. InOrder(FALSE)'
      BY <3>2, <3>3, <3>4, <3>5, <2>1 DEF InOrder
    <3> QED BY <3>2, <3>3, <3>4, <3>6, <2>1, <1>1 DEF DialInv
  <2> QED BY <2>3, <2>4, <1>8 DEF Read
<1>9. ASSUME NEW s \in {"200", "407"}, ProxyAnswers(s) PROVE DialInv'
  <2>1. /\ at = "read" /\ answered = NoAnswer /\ received = <<>> /\ sent = 0
        /\ Len(buffer) + Len(wire) = 0
    <3>1. at = "read" /\ answered = NoAnswer
      BY <1>9 DEF ProxyAnswers
    <3> QED BY <3>1 DEF DialInv
  <2> DEFINE w == Append(wire, s)
  <2>2. answered' = s /\ wire' = w /\ UNCHANGED <<at, sent, buffer, received>>
    BY <1>9 DEF ProxyAnswers
  <2>3. Len(received) = 0 /\ Len(buffer) = 0 /\ Len(wire) = 0
    BY <2>1, <1>1
  <2>4. Follows(wire, 0, TRUE, s) /\ s = Item(TRUE, s, 0 + Len(wire) + 1) /\ s \in Items
    BY <2>3 DEF Follows, Item, Items
  <2>5. w \in Seq(Items) /\ Len(w) = Len(wire) + 1 /\ Follows(w, 0, TRUE, s)
    BY <2>4, <1>1, AppendFacts
  <2> HIDE DEF w
  <2>6. InOrder(TRUE)'
    <3>1. Follows(received, 0, TRUE, s) /\ Follows(buffer, Len(received), TRUE, s)
      BY <2>3 DEF Follows
    <3>2. Follows(w, Len(received) + Len(buffer), TRUE, s)
      <4>1. Len(received) + Len(buffer) = 0
        BY <2>3
      <4> QED BY <4>1, <2>5, Zenon
    <3> QED BY <2>2, <3>1, <3>2 DEF InOrder
  <2>7. Len(buffer) + Len(w) = sent + 1 /\ s # NoAnswer
    <3>1. Len(w) = 1 /\ sent = 0
      BY <2>1, <2>3, <2>5
    <3> QED BY <2>3, <3>1, <1>9
  <2>8. (Len(buffer) + Len(wire) = IF answered = NoAnswer THEN 0 ELSE sent + 1)'
    BY <2>2, <2>7, Zenon
  <2>9. at' # "write" /\ at' # "tunnel" /\ received' = <<>> /\ sent' = 0
    BY <2>1, <2>2
  <2>10. /\ received' \in Seq(Items) /\ buffer' \in Seq(Items) /\ wire' \in Seq(Items)
         /\ sent' \in Nat
    BY <2>2, <2>5, <1>1, Zenon
  <2>11. answered' \in {NoAnswer, "200", "407"}
    BY <2>2, <1>9, Zenon
  <2> QED BY <2>6, <2>8, <2>9, <2>10, <2>11, Zenon DEF DialInv
<1>10. CASE CollectorSends
  <2>1. /\ at \in {"read", "tunnel"} /\ answered = "200" /\ sent' = sent + 1
        /\ wire' = Append(wire, sent + 1) /\ UNCHANGED <<at, answered, buffer, received>>
    BY <1>10 DEF CollectorSends
  <2> DEFINE w == Append(wire, sent + 1)
             k == Len(received) + Len(buffer)
             rd == at = "read"
  <2>2. /\ rd \in BOOLEAN /\ k \in Nat /\ sent + 1 \in Items
        /\ Follows(received, 0, rd, answered) /\ Follows(buffer, Len(received), rd, answered)
        /\ Follows(wire, k, rd, answered)
        /\ rd => received = <<>> /\ k + Len(wire) = sent + 1
        /\ ~ rd => k + Len(wire) = sent
    <3>1. CASE at = "read"
      <4>1. received = <<>> /\ InOrder(TRUE) /\ Len(buffer) + Len(wire) = sent + 1
        BY <3>1, <2>1, NoAnswerFacts DEF DialInv
      <4>2. Len(received) = 0
        BY <4>1
      <4>3. k = Len(buffer) /\ k \in Nat /\ sent + 1 \in Items /\ rd = TRUE
        BY <3>1, <4>2, <1>1 DEF Items
      <4>4. k + Len(wire) = sent + 1
        BY <4>1, <4>3
      <4>5. /\ Follows(received, 0, TRUE, answered) /\ Follows(buffer, Len(received), TRUE, answered)
            /\ Follows(wire, k, TRUE, answered)
        BY <4>1 DEF InOrder
      <4> HIDE DEF k, rd
      <4> QED BY <4>1, <4>3, <4>4, <4>5
    <3>2. CASE at = "tunnel"
      <4>1. InOrder(FALSE) /\ Len(received) + Len(buffer) + Len(wire) = sent
        BY <3>2 DEF DialInv
      <4>2. k \in Nat /\ sent + 1 \in Items /\ rd = FALSE
        BY <3>2, <1>1 DEF Items
      <4>3. /\ Follows(received, 0, FALSE, answered) /\ Follows(buffer, Len(received), FALSE, answered)
            /\ Follows(wire, k, FALSE, answered)
        BY <4>1 DEF InOrder
      <4>4. k + Len(wire) = sent
        BY <4>1
      <4> HIDE DEF k, rd
      <4> QED BY <4>2, <4>3, <4>4
    <3> QED BY <3>1, <3>2, <2>1
  <2> HIDE DEF k, rd
  <2>3. sent + 1 = Item(rd, answered, k + Len(wire) + 1)
    BY <2>2, <1>1 DEF Item
  <2>4. w \in Seq(Items) /\ Len(w) = Len(wire) + 1 /\ Follows(w, k, rd, answered)
    BY <2>2, <2>3, <1>1, AppendFacts
  <2>5. CASE at = "read"
    <3>1. rd = TRUE
      BY <2>5 DEF rd
    <3> HIDE DEF w
    <3>2. InOrder(TRUE)'
      BY <2>1, <2>2, <2>4, <3>1 DEF InOrder, k, w
    <3>3. Len(buffer) + Len(w) = sent + 1 + 1
      <4>1. k = Len(buffer)
        BY <2>2, <3>1, <1>1 DEF k
      <4> QED BY <4>1, <2>2, <2>4, <3>1, <1>1
    <3>4. wire' = w /\ sent + 1 \in Nat
      BY <2>1, <1>1 DEF w
    <3>5. received = <<>>
      BY <2>2, <3>1
    <3> QED BY <2>1, <2>4, <2>5, <3>2, <3>3, <3>4, <3>5, <1>1 DEF DialInv
  <2>6. CASE at = "tunnel"
    <3>1. rd = FALSE
      BY <2>6 DEF rd
    <3> HIDE DEF w
    <3>2. InOrder(FALSE)'
      BY <2>1, <2>2, <2>4, <3>1 DEF InOrder, k, w
    <3>3. Len(received) + Len(buffer) + Len(w) = sent + 1
      BY <2>2, <2>4, <3>1, <1>1 DEF k
    <3>4. wire' = w /\ sent + 1 \in Nat
      BY <2>1, <1>1 DEF w
    <3> QED BY <2>1, <2>4, <2>6, <3>2, <3>3, <3>4, <1>1 DEF DialInv
  <2> QED BY <2>1, <2>5, <2>6
<1>11. CASE UNCHANGED dialerVars
  BY <1>2, <1>11 DEF dialerVars
<1> QED BY <1>3, <1>4, <1>5, <1>6, <1>7, <1>8, <1>9, <1>10, <1>11 DEF DialerNext

\* gRPC receives exactly what the collector has sent, in order, on every
\* connection, however the proxy's answer and the first bytes are read.
THEOREM TunnelKeepsEverything == DialerSpec => []TunnelIsLossless
<1>1. DialInv => TunnelIsLossless
  <2> SUFFICES ASSUME DialInv, at = "tunnel"
               PROVE  received \o buffer \o wire = [i \in 1..sent |-> i]
    BY DEF TunnelIsLossless
  <2>1. /\ received \in Seq(Items) /\ buffer \in Seq(Items) /\ wire \in Seq(Items) /\ sent \in Nat
        /\ Len(received) + Len(buffer) + Len(wire) = sent
        /\ Follows(received, 0, FALSE, answered)
        /\ Follows(buffer, Len(received), FALSE, answered)
        /\ Follows(wire, Len(received) + Len(buffer), FALSE, answered)
        /\ Len(received) \in Nat /\ Len(buffer) \in Nat
    <3>1. received \in Seq(Items) /\ buffer \in Seq(Items) /\ wire \in Seq(Items) /\ sent \in Nat
      BY DEF DialInv
    <3>2. Len(received) + Len(buffer) + Len(wire) = sent /\ InOrder(FALSE)
      BY DEF DialInv
    <3>3. Len(received) \in Nat /\ Len(buffer) \in Nat
      BY <3>1
    <3>4. /\ Follows(received, 0, FALSE, answered)
          /\ Follows(buffer, Len(received), FALSE, answered)
          /\ Follows(wire, Len(received) + Len(buffer), FALSE, answered)
      BY <3>2, Zenon DEF InOrder
    <3> QED BY <3>1, <3>2, <3>3, <3>4, Zenon
  <2> DEFINE c == received \o buffer
             d == c \o wire
  <2>2. 0 + Len(received) = Len(received) /\ 0 + (Len(received) + Len(buffer)) = Len(received) + Len(buffer)
    BY <2>1
  <2>3. c \in Seq(Items) /\ Len(c) = Len(received) + Len(buffer) /\ Follows(c, 0, FALSE, answered)
    BY <2>1, <2>2, ConcatFacts
  <2> HIDE DEF c
  <2>4. d \in Seq(Items) /\ Len(d) = Len(c) + Len(wire) /\ Follows(d, 0, FALSE, answered)
    BY <2>1, <2>2, <2>3, ConcatFacts
  <2> HIDE DEF d
  <2>5. Len(d) = sent /\ \A i \in 1..sent : d[i] = i
    BY <2>1, <2>3, <2>4 DEF Follows, Item
  <2>6. d = [i \in 1..sent |-> d[i]]
    BY <2>4, <2>5, LenProperties
  <2> QED BY <2>5, <2>6 DEF c, d
<1> QED BY <1>1, DialStart, DialStep, PTL DEF DialerSpec


-----------------------------------------------------------------------------
(* Config.                                                                 *)

\* The fields, by name.
LEMMA FieldNames ==
    DOMAIN Default = {"Collector", "SettingsURL", "ServiceKey", "Proxy", "Precision",
                      "TransactionSettings", "Enabled", "Ec2MetadataTimeout", "DebugLevel",
                      "TokenBucketCap", "TransactionName"}
  BY DEF Default

\* The defaults that matter are valid.
LEMMA DefaultFacts ==
    /\ Default = [x \in DOMAIN Default |-> Default[x]]
    /\ Default.Enabled = TRUE /\ Default.Collector = Addr("apm.collector", 443)
    /\ IsValidEc2MetadataTimeout(Default.Ec2MetadataTimeout) /\ Default.DebugLevel = "warn"
    /\ Default.TransactionName = Empty
  BY SMT DEF Default, IsValidEc2MetadataTimeout, MaxEc2MetadataTimeout

\* So are the default sampling options, which carry no flag.
LEMMA DefaultSamplingFacts ==
    /\ DOMAIN DefaultSampling = {"TracingMode", "tracingModeConfigured",
                                 "SampleRate", "sampleRateConfigured"}
    /\ IsSampling(DefaultSampling)
    /\ DefaultSampling.tracingModeConfigured = FALSE /\ DefaultSampling.sampleRateConfigured = FALSE
    /\ DefaultSampling.TracingMode = "enabled" /\ DefaultSampling.SampleRate = MaxSampleRate
    /\ IsValidSampleRate(MaxSampleRate)
<1>1. MaxSampleRate \in Int /\ MaxSampleRate >= 0
  BY SMT DEF MaxSampleRate
<1>2. IsValidSampleRate(MaxSampleRate)
  BY <1>1 DEF MinSampleRate, IsValidSampleRate
<1> QED BY <1>2 DEF DefaultSampling, IsSampling

\* A source that gives nothing.
LEMMA NothingGiven ==
    DOMAIN <<>> = {} /\ Readable(<<>>) = {} /\ NoFile.sets = <<>>
  BY DEF Readable, NoFile

\* What the sources say has the type of the field.
LEMMA SaidFacts ==
    ASSUME file \in Files \cup {NoFile}, env \in Envs \cup {<<>>}, opts \in Options \cup {<<>>}
    PROVE  /\ DOMAIN Said = DOMAIN Default /\ Said = [x \in DOMAIN Default |-> Said[x]]
           /\ Said.Collector = Addr(Said.Collector.host, Said.Collector.port)
           /\ Said.Enabled \in BOOLEAN
<1>1. "Collector" \in DOMAIN Default /\ "Enabled" \in DOMAIN Default
  BY FieldNames
<1>2. /\ Default.Collector = Addr(Default.Collector.host, Default.Collector.port)
      /\ Default.Enabled \in BOOLEAN
  BY DefaultFacts DEF Addr
<1>3. Typed(file.sets, DOMAIN file.sets)
  BY SourcesAssumption, NothingGiven DEF Typed
<1>4. Typed(env, Readable(env))
  BY SourcesAssumption, NothingGiven DEF Typed
<1>5. Typed(opts, DOMAIN opts)
  BY SourcesAssumption, NothingGiven DEF Typed
<1>6. Said.Collector = Addr(Said.Collector.host, Said.Collector.port)
  BY <1>1, <1>2, <1>3, <1>4, <1>5 DEF Said, Typed
<1>7. Said.Enabled \in BOOLEAN
  BY <1>1, <1>2, <1>3, <1>4, <1>5 DEF Said, Typed
<1>8. DOMAIN Said = DOMAIN Default /\ Said = [x \in DOMAIN Default |-> Said[x]]
  BY DEF Said
<1> QED BY <1>6, <1>7, <1>8

\* A disabled configuration is the default one.
LEMMA Disabling ==
    ASSUME fields' = [Default EXCEPT !.Enabled = FALSE], sampling' \in {Nil, DefaultSampling},
           reporter' \in {Nil, DefaultReporter}, loading' = "done"
    PROVE  LoadedIsValid' /\ FlagsTruthful' /\ LoadIsPure'
<1>1. fields'.Enabled = FALSE
  BY DefaultFacts, FieldNames
<1>2. LoadedIsValid'
  BY <1>1, Zenon DEF LoadedIsValid
<1>3. FlagsTruthful'
  BY DefaultSamplingFacts, Zenon DEF FlagsTruthful
<1>4. LoadIsPure'
  BY <1>1, Zenon DEF LoadIsPure
<1> QED BY <1>2, <1>3, <1>4

\* Sources that give no sampling options have said nothing valid of them.
LEMMA NoSamplingSaid ==
    ASSUME env' = <<>>, "Sampling" \notin DOMAIN file'.sets \/ file'.sets.Sampling = Nil
    PROVE  ~ IsValidTracingMode(SaidMode)' /\ ~ IsValidSampleRate(SaidRate)'
<1>1. FileSampling' = <<>>
  BY Zenon DEF FileSampling
<1>2. SaidMode' = "Invalid"
  BY <1>1, NothingGiven DEF SaidMode, NormalizeTracingMode
<1>3. SaidRate' = -1
  BY <1>1, NothingGiven DEF SaidRate
<1> QED BY <1>2, <1>3 DEF IsValidTracingMode, IsValidSampleRate, MinSampleRate

\* The environment's mode and rate come before those of the file.
LEMMA EnvSamplingSaid ==
    ASSUME NEW e, env' = e, UNCHANGED file, env = <<>>
    PROVE  /\ SaidMode' = IF "TracingMode" \in Readable(e)
                          THEN NormalizeTracingMode(e.TracingMode) ELSE SaidMode
           /\ SaidRate' = IF "SampleRate" \in Readable(e) THEN e.SampleRate ELSE SaidRate
           /\ SaidReporter' = IF "EventFlushInterval" \in Readable(e)
                              THEN e.EventFlushInterval ELSE SaidReporter
<1>1. FileSampling' = FileSampling
  BY DEF FileSampling
<1>2. Readable(env') = Readable(e) /\ Readable(env) = {}
  BY NothingGiven
<1> QED BY <1>1, <1>2, Zenon DEF SaidMode, SaidRate, SaidReporter

\* The setters keep the struct whole and set the flag with the value.
LEMMA SetterFacts ==
    ASSUME NEW s, IsSampling(s), NEW v
    PROVE  /\ IsSampling(SetTracingMode(s, v)) /\ IsSampling(SetSampleRate(s, v))
           /\ SetTracingMode(s, v).tracingModeConfigured = TRUE
           /\ SetTracingMode(s, v).sampleRateConfigured = s.sampleRateConfigured
           /\ SetTracingMode(s, v).SampleRate = s.SampleRate
           /\ SetSampleRate(s, v).sampleRateConfigured = TRUE
           /\ SetSampleRate(s, v).tracingModeConfigured = s.tracingModeConfigured
           /\ SetSampleRate(s, v).TracingMode = s.TracingMode
<1> DEFINE n == NormalizeTracingMode(v)
           m == [s EXCEPT !.TracingMode = n, !.tracingModeConfigured = TRUE]
           r == [s EXCEPT !.SampleRate = v, !.sampleRateConfigured = TRUE]
<1>1. m = SetTracingMode(s, v) /\ r = SetSampleRate(s, v)
  BY DEF SetTracingMode, SetSampleRate
<1> HIDE DEF n
<1>2. /\ IsSampling(m) /\ m.tracingModeConfigured = TRUE
      /\ m.sampleRateConfigured = s.sampleRateConfigured /\ m.SampleRate = s.SampleRate
  BY DefaultSamplingFacts DEF IsSampling
<1>3. /\ IsSampling(r) /\ r.sampleRateConfigured = TRUE
      /\ r.tracingModeConfigured = s.tracingModeConfigured /\ r.TracingMode = s.TracingMode
  BY DefaultSamplingFacts DEF IsSampling
<1> QED BY <1>1, <1>2, <1>3, Zenon

\* And the value is the one given, normalized if it is a mode.
LEMMA SetterValues ==
    ASSUME NEW s, IsSampling(s), NEW v
    PROVE  /\ SetTracingMode(s, v).TracingMode = NormalizeTracingMode(v)
           /\ SetSampleRate(s, v).SampleRate = v
<1> DEFINE n == NormalizeTracingMode(v)
           m == [s EXCEPT !.TracingMode = n, !.tracingModeConfigured = TRUE]
           r == [s EXCEPT !.SampleRate = v, !.sampleRateConfigured = TRUE]
<1>1. m = SetTracingMode(s, v) /\ r = SetSampleRate(s, v)
  BY DEF SetTracingMode, SetSampleRate
<1> HIDE DEF n
<1>2. m.TracingMode = n /\ r.SampleRate = v
  BY DefaultSamplingFacts DEF IsSampling
<1> QED BY <1>1, <1>2, Zenon DEF n

\* What the file's sampling section becomes: the value it gives, with the flag, or the
\* default without.
LEMMA UnmarshalFacts ==
    ASSUME NEW y
    PROVE  LET s == UnmarshalSampling(y)
               m == "TracingMode" \in DOMAIN y /\ y.TracingMode # "Invalid"
               r == "SampleRate" \in DOMAIN y /\ y.SampleRate # -1
           IN  /\ IsSampling(s)
               /\ m => s.tracingModeConfigured = TRUE /\ s.TracingMode = NormalizeTracingMode(y.TracingMode)
               /\ ~ m => s.tracingModeConfigured = FALSE /\ s.TracingMode = DefaultSampling.TracingMode
               /\ r => s.sampleRateConfigured = TRUE /\ s.SampleRate = y.SampleRate
               /\ ~ r => s.sampleRateConfigured = FALSE /\ s.SampleRate = DefaultSampling.SampleRate
<1> DEFINE m == "TracingMode" \in DOMAIN y /\ y.TracingMode # "Invalid"
           r == "SampleRate" \in DOMAIN y /\ y.SampleRate # -1
           n == NormalizeTracingMode(y.TracingMode)
           t == IF m THEN SetTracingMode(DefaultSampling, y.TracingMode) ELSE DefaultSampling
           u == IF r THEN SetSampleRate(t, y.SampleRate) ELSE t
<1>1. u = UnmarshalSampling(y)
  BY DEF UnmarshalSampling
<1> HIDE DEF m, r
<1>2. /\ IsSampling(t)
      /\ m => t.tracingModeConfigured = TRUE /\ t.TracingMode = n
      /\ ~ m => t.tracingModeConfigured = FALSE /\ t.TracingMode = DefaultSampling.TracingMode
      /\ t.SampleRate = DefaultSampling.SampleRate /\ t.sampleRateConfigured = FALSE
  <2>1. CASE m
    <3>1. t = SetTracingMode(DefaultSampling, y.TracingMode)
      BY <2>1
    <3> HIDE DEF t
    <3>2. IsSampling(DefaultSampling)
      BY DefaultSamplingFacts
    <3>3. LET x == SetTracingMode(DefaultSampling, y.TracingMode)
          IN  /\ IsSampling(x) /\ x.tracingModeConfigured = TRUE
              /\ x.sampleRateConfigured = DefaultSampling.sampleRateConfigured
              /\ x.SampleRate = DefaultSampling.SampleRate
      BY <3>2, SetterFacts, Zenon
    <3>4. SetTracingMode(DefaultSampling, y.TracingMode).TracingMode = n
      BY <3>2, SetterValues, Zenon
    <3>5. /\ IsSampling(t) /\ t.tracingModeConfigured = TRUE /\ t.TracingMode = n
          /\ t.sampleRateConfigured = FALSE /\ t.SampleRate = DefaultSampling.SampleRate
      BY <3>1, <3>3, <3>4, DefaultSamplingFacts, Zenon
    <3> QED BY <2>1, <3>5, Zenon
  <2>2. CASE ~ m
    BY <2>2, DefaultSamplingFacts, Zenon
  <2> QED BY <2>1, <2>2
<1> HIDE DEF t, n
<1>3. /\ IsSampling(u)
      /\ u.tracingModeConfigured = t.tracingModeConfigured /\ u.TracingMode = t.TracingMode
      /\ r => u.sampleRateConfigured = TRUE /\ u.SampleRate = y.SampleRate
      /\ ~ r => u.sampleRateConfigured = FALSE /\ u.SampleRate = DefaultSampling.SampleRate
  <2>1. CASE r
    <3>1. u = SetSampleRate(t, y.SampleRate)
      BY <2>1
    <3> HIDE DEF u
    <3>2. /\ IsSampling(u) /\ u.sampleRateConfigured = TRUE
          /\ u.tracingModeConfigured = t.tracingModeConfigured /\ u.TracingMode = t.TracingMode
      BY <1>2, <3>1, SetterFacts
    <3>3. u.SampleRate = y.SampleRate
      BY <1>2, <3>1, SetterValues, Zenon
    <3> QED BY <2>1, <3>2, <3>3, Zenon
  <2>2. CASE ~ r
    BY <2>2, <1>2, Zenon
  <2> QED BY <2>1, <2>2
<1> HIDE DEF u
<1>4. /\ IsSampling(u)
      /\ m => u.tracingModeConfigured = TRUE /\ u.TracingMode = n
      /\ ~ m => u.tracingModeConfigured = FALSE /\ u.TracingMode = DefaultSampling.TracingMode
      /\ r => u.sampleRateConfigured = TRUE /\ u.SampleRate = y.SampleRate
      /\ ~ r => u.sampleRateConfigured = FALSE /\ u.SampleRate = DefaultSampling.SampleRate
  BY <1>2, <1>3, Zenon
<1> QED BY <1>1, <1>4, Zenon DEF m, r, n

\* What validate makes of the sampling options: valid, and the flag goes with the
\* value that is reset.
LEMMA ValidateFacts ==
    ASSUME NEW s, IsSampling(s)
    PROVE  LET v == ValidateSampling(s)
           IN  /\ v \in ValidSamplings
               /\ IsValidTracingMode(s.TracingMode) =>
                    v.TracingMode = s.TracingMode /\ v.tracingModeConfigured = s.tracingModeConfigured
               /\ ~ IsValidTracingMode(s.TracingMode) =>
                    v.TracingMode = DefaultSampling.TracingMode /\ v.tracingModeConfigured = FALSE
               /\ IsValidSampleRate(s.SampleRate) =>
                    v.SampleRate = s.SampleRate /\ v.sampleRateConfigured = s.sampleRateConfigured
               /\ ~ IsValidSampleRate(s.SampleRate) =>
                    v.SampleRate = DefaultSampling.SampleRate /\ v.sampleRateConfigured = FALSE
<1> DEFINE t == IF IsValidTracingMode(s.TracingMode) THEN s ELSE ResetTracingMode(s)
           u == IF IsValidSampleRate(t.SampleRate) THEN t ELSE ResetSampleRate(t)
<1>1. /\ IsSampling(t) /\ IsValidTracingMode(t.TracingMode)
      /\ t.SampleRate = s.SampleRate /\ t.sampleRateConfigured = s.sampleRateConfigured
      /\ IsValidTracingMode(s.TracingMode) =>
           t.TracingMode = s.TracingMode /\ t.tracingModeConfigured = s.tracingModeConfigured
      /\ ~ IsValidTracingMode(s.TracingMode) =>
           t.TracingMode = DefaultSampling.TracingMode /\ t.tracingModeConfigured = FALSE
  BY DefaultSamplingFacts DEF IsSampling, ResetTracingMode, IsValidTracingMode
<1> HIDE DEF t
<1>2. /\ IsSampling(u) /\ IsValidSampleRate(u.SampleRate)
      /\ u.TracingMode = t.TracingMode /\ u.tracingModeConfigured = t.tracingModeConfigured
      /\ IsValidSampleRate(t.SampleRate) =>
           u.SampleRate = t.SampleRate /\ u.sampleRateConfigured = t.sampleRateConfigured
      /\ ~ IsValidSampleRate(t.SampleRate) =>
           u.SampleRate = DefaultSampling.SampleRate /\ u.sampleRateConfigured = FALSE
  BY <1>1, DefaultSamplingFacts DEF IsSampling, ResetSampleRate
<1>3. u = ValidateSampling(s)
  BY DEF u, t, ValidateSampling
<1> HIDE DEF u
<1>4. u \in ValidSamplings
  BY <1>1, <1>2, DefaultSamplingFacts DEF IsSampling, ValidSamplings, IsValidSampleRate, IsValidTracingMode
<1>5. /\ IsValidTracingMode(s.TracingMode) =>
           u.TracingMode = s.TracingMode /\ u.tracingModeConfigured = s.tracingModeConfigured
      /\ ~ IsValidTracingMode(s.TracingMode) =>
           u.TracingMode = DefaultSampling.TracingMode /\ u.tracingModeConfigured = FALSE
      /\ IsValidSampleRate(s.SampleRate) =>
           u.SampleRate = s.SampleRate /\ u.sampleRateConfigured = s.sampleRateConfigured
      /\ ~ IsValidSampleRate(s.SampleRate) =>
           u.SampleRate = DefaultSampling.SampleRate /\ u.sampleRateConfigured = FALSE
  BY <1>1, <1>2, Zenon
<1> QED BY <1>3, <1>4, <1>5, Zenon

\* What validate makes of the other fields.
LEMMA RepairedFacts ==
    ASSUME NEW c, DOMAIN c = DOMAIN Default, KeyAccepted(c.ServiceKey)
    PROVE  LET d == Repaired(c)
           IN  /\ d.Enabled = c.Enabled /\ d.SettingsURL = c.SettingsURL
               /\ IsValidHost(d.Collector) /\ d.Collector \in {c.Collector, Default.Collector}
               /\ IsValidEc2MetadataTimeout(d.Ec2MetadataTimeout)
               /\ IsValidDebugLevel(d.DebugLevel)
               /\ IsValidTokenBucketCap(d.TokenBucketCap)
               /\ ~ lambda => /\ d.TransactionName = Empty
                              /\ d.ServiceKey = NoKey \/ IsValidServiceKey(d.ServiceKey)
<1> DEFINE d == Repaired(c)
<1>1. /\ d.Enabled = c.Enabled /\ d.SettingsURL = c.SettingsURL
      /\ d.Collector = (IF IsValidHost(c.Collector) THEN c.Collector ELSE Default.Collector)
      /\ d.Ec2MetadataTimeout = (IF IsValidEc2MetadataTimeout(c.Ec2MetadataTimeout)
                                 THEN c.Ec2MetadataTimeout ELSE Default.Ec2MetadataTimeout)
      /\ d.TransactionName = (IF lambda THEN c.TransactionName ELSE Default.TransactionName)
      /\ d.ServiceKey = (IF lambda \/ c.ServiceKey = NoKey THEN c.ServiceKey
                         ELSE ToServiceKey(c.ServiceKey))
      /\ d.DebugLevel = (IF IsValidDebugLevel(c.DebugLevel) THEN c.DebugLevel ELSE Default.DebugLevel)
      /\ d.TokenBucketCap = (IF IsValidTokenBucketCap(c.TokenBucketCap) THEN c.TokenBucketCap
                             ELSE IF c.TokenBucketCap < 0 THEN 0 ELSE MaxTokenBucketCapacity)
  BY FieldNames DEF Repaired
<1> HIDE DEF d
<1>2. IsValidHost(Default.Collector)
  <2>1. Empty # "apm.collector"
    BY Zenon DEF Empty
  <2> QED BY <2>1, DefaultFacts DEF IsValidHost, Addr
<1>3. IsValidHost(d.Collector) /\ d.Collector \in {c.Collector, Default.Collector}
  BY <1>1, <1>2, Zenon
<1>4. IsValidEc2MetadataTimeout(d.Ec2MetadataTimeout)
  BY <1>1, DefaultFacts, Zenon
<1>5. IsValidDebugLevel(d.DebugLevel)
  BY <1>1, DefaultFacts DEF IsValidDebugLevel
<1>6. IsValidTokenBucketCap(d.TokenBucketCap)
  BY <1>1 DEF IsValidTokenBucketCap, MaxTokenBucketCapacity
<1>7. ~ lambda => /\ d.TransactionName = Empty
                  /\ d.ServiceKey = NoKey \/ IsValidServiceKey(d.ServiceKey)
  BY <1>1, DefaultFacts, Zenon DEF KeyAccepted
<1> QED BY <1>1, <1>3, <1>4, <1>5, <1>6, <1>7 DEF d


\* Before the first Load.
LEMMA LoadStart == ConfigInit => LoadInv
  BY DEF ConfigInit, LoadInv, LoadedIsValid, FlagsTruthful, LoadIsPure, Loaded

\* Assigning what the file gives to the defaults is what the sources now say.
LEMMA FileSaid ==
    ASSUME NEW f, file' = f, env' = <<>>, opts' = <<>>, file = NoFile, env = <<>>, opts = <<>>
    PROVE  Said' = Assign(Said, f.sets)
  BY NothingGiven DEF Said, Assign

\* The same for the environment, over the file.
LEMMA EnvSaid ==
    ASSUME NEW e, env' = e, UNCHANGED file, opts' = <<>>, env = <<>>, opts = <<>>
    PROVE  Said' = Assign(Said, [x \in Readable(e) |-> e[x]])
  BY NothingGiven DEF Said, Assign

\* The same for the options, over both.
LEMMA OptionsSaid ==
    ASSUME NEW o, opts' = o, UNCHANGED <<file, env>>, opts = <<>>
    PROVE  Said' = Assign(Said, o)
  BY NothingGiven DEF Said, Assign

\* No step before the last claims anything of a finished Load.
LEMMA NotLoaded ==
    ASSUME loading' # "done" PROVE LoadedIsValid' /\ FlagsTruthful' /\ LoadIsPure'
  BY DEF LoadedIsValid, FlagsTruthful, LoadIsPure, Loaded

\* The default sampling options are right while nothing is said of them.
LEMMA DefaultGiven ==
    ASSUME sampling' \in {DefaultSampling, Nil}, env' = <<>>,
           "Sampling" \notin DOMAIN file'.sets \/ file'.sets.Sampling = Nil
    PROVE  SamplingGiven'
<1>1. ~ IsValidTracingMode(SaidMode)' /\ ~ IsValidSampleRate(SaidRate)'
  BY NoSamplingSaid
<1>2. CASE sampling' = DefaultSampling
  <2>1. Flagged(sampling)' /\ Chosen(sampling)'
    BY <1>1, <1>2, DefaultSamplingFacts, Zenon DEF Flagged, Chosen
  <2> QED BY <2>1, <1>2, DefaultSamplingFacts, Zenon DEF SamplingGiven
<1> QED BY <1>2, Zenon DEF SamplingGiven

\* Load begins with the defaults.
LEMMA BeginStep == ASSUME LoadInv, BeginLoad PROVE LoadInv'
<1> USE NothingGiven
<1>1. /\ loading' = "file" /\ file' = NoFile /\ env' = <<>> /\ opts' = <<>>
      /\ fields' = [Default EXCEPT !.Enabled = Default.Enabled]
      /\ sampling' \in {DefaultSampling, Nil} /\ reporter' \in {DefaultReporter, Nil}
  BY DEF BeginLoad, Reset, initStruct
<1>2. fields' = Said'
  BY <1>1, DefaultFacts, FieldNames DEF Said
<1>3. SamplingGiven'
  BY <1>1, DefaultGiven
<1>4. ReporterGiven'
  BY <1>1 DEF ReporterGiven, SaidReporter
<1>5. LoadedIsValid' /\ FlagsTruthful' /\ LoadIsPure'
  BY <1>1, NotLoaded
<1> QED BY <1>1, <1>2, <1>3, <1>4, <1>5 DEF LoadInv, Given

\* The file is over the defaults, or the Load ends with them.
LEMMA FileStep == ASSUME LoadInv, NEW f \in Files, LoadConfigFile(f) PROVE LoadInv'
<1> USE NothingGiven
<1> DEFINE s == IF "Sampling" \notin DOMAIN f.sets THEN sampling
                ELSE IF f.sets.Sampling = Nil THEN Nil ELSE UnmarshalSampling(f.sets.Sampling)
           r == IF "Reporter" \in DOMAIN f.sets THEN f.sets.Reporter ELSE reporter
<1>1. /\ loading = "file" /\ file = NoFile /\ env = <<>> /\ opts = <<>> /\ fields = Said
      /\ sampling \in {DefaultSampling, Nil} /\ reporter \in {DefaultReporter, Nil}
      /\ file' = f /\ env' = <<>> /\ opts' = <<>>
  BY DEF LoadConfigFile, LoadInv, Given
<1>2. CASE /\ f.kind = "none" /\ loading' = "envs" /\ UNCHANGED <<fields, sampling, reporter>>
  <2>1. f.sets = <<>>
    BY <1>2, SourcesAssumption
  <2>2. Said' = Said
    BY <2>1, <1>1 DEF Said
  <2>3. SamplingGiven'
    BY <1>1, <1>2, <2>1, DefaultGiven
  <2>4. ReporterGiven'
    BY <1>1, <1>2, <2>1 DEF ReporterGiven, SaidReporter
  <2>5. LoadedIsValid' /\ FlagsTruthful' /\ LoadIsPure'
    BY <1>2, NotLoaded
  <2> QED BY <1>1, <1>2, <2>2, <2>3, <2>4, <2>5 DEF LoadInv, Given
<1>3. CASE /\ loading' = "done" /\ fields' = [Default EXCEPT !.Enabled = FALSE]
           /\ sampling' \in {Nil, DefaultSampling} /\ reporter' \in {Nil, DefaultReporter}
  <2>1. LoadedIsValid' /\ FlagsTruthful' /\ LoadIsPure'
    BY <1>3, Disabling
  <2> QED BY <1>1, <1>3, <2>1 DEF LoadInv
<1>4. CASE /\ loading' = "envs" /\ fields' = Assign(fields, f.sets)
           /\ sampling' = (IF s = Nil THEN sampling ELSE s)
           /\ reporter' = (IF r = Nil THEN reporter ELSE r)
  <2>1. fields' = Said'
    BY <1>1, <1>4, FileSaid
  <2>2. ReporterGiven'
    BY <1>1, <1>4 DEF ReporterGiven, SaidReporter
  <2>3. SamplingGiven'
    <3>1. CASE "Sampling" \notin DOMAIN f.sets \/ f.sets.Sampling = Nil
      BY <1>1, <1>4, <3>1, DefaultGiven
    <3>2. CASE "Sampling" \in DOMAIN f.sets /\ f.sets.Sampling # Nil
      <4> DEFINE y == f.sets.Sampling
      <4>1. sampling' = UnmarshalSampling(y)
        BY <1>4, <3>2, NilAssumption
      <4>2. FileSampling' = y /\ "Sampling" \in DOMAIN file'.sets
        BY <1>1, <3>2 DEF FileSampling
      <4> HIDE DEF y
      <4>3. /\ IsSampling(sampling')
            /\ ("TracingMode" \in DOMAIN y /\ y.TracingMode # "Invalid") =>
                 /\ sampling'.tracingModeConfigured = TRUE
                 /\ sampling'.TracingMode = NormalizeTracingMode(y.TracingMode)
            /\ ~ ("TracingMode" \in DOMAIN y /\ y.TracingMode # "Invalid") =>
                 /\ sampling'.tracingModeConfigured = FALSE
                 /\ sampling'.TracingMode = DefaultSampling.TracingMode
            /\ ("SampleRate" \in DOMAIN y /\ y.SampleRate # -1) =>
                 sampling'.sampleRateConfigured = TRUE /\ sampling'.SampleRate = y.SampleRate
            /\ ~ ("SampleRate" \in DOMAIN y /\ y.SampleRate # -1) =>
                 /\ sampling'.sampleRateConfigured = FALSE
                 /\ sampling'.SampleRate = DefaultSampling.SampleRate
        BY <4>1, UnmarshalFacts, Zenon
      <4>4. NormalizeTracingMode("Invalid") = "Invalid" /\ ~ IsValidTracingMode("Invalid")
        BY DEF NormalizeTracingMode, IsValidTracingMode
      <4>5. ~ IsValidSampleRate(-1)
        BY DEF IsValidSampleRate, MinSampleRate
      <4>6. SaidMode' = IF "TracingMode" \in DOMAIN y /\ y.TracingMode # "Invalid"
                        THEN NormalizeTracingMode(y.TracingMode) ELSE "Invalid"
        BY <1>1, <4>2, <4>4 DEF SaidMode
      <4>7. SaidRate' = IF "SampleRate" \in DOMAIN y /\ y.SampleRate # -1 THEN y.SampleRate ELSE -1
        BY <1>1, <4>2 DEF SaidRate
      <4>8. Flagged(sampling)' /\ Chosen(sampling)'
        BY <4>2, <4>3, <4>4, <4>5, <4>6, <4>7, Zenon DEF Flagged, Chosen
      <4> QED BY <4>3, <4>8, Zenon DEF SamplingGiven
    <3> QED BY <3>1, <3>2
  <2>4. LoadedIsValid' /\ FlagsTruthful' /\ LoadIsPure'
    BY <1>4, NotLoaded
  <2> QED BY <1>1, <1>4, <2>1, <2>2, <2>3, <2>4 DEF LoadInv, Given
<1> QED BY <1>2, <1>3, <1>4 DEF LoadConfigFile, resetThenDisable, Reset, initStruct

\* The environment comes over the file, through the setters.
LEMMA EnvStep == ASSUME LoadInv, NEW e \in Envs, LoadEnvs(e) PROVE LoadInv'
<1> USE NothingGiven
<1> DEFINE m == "TracingMode" \in Readable(e)
           r == "SampleRate" \in Readable(e)
           n == NormalizeTracingMode(e.TracingMode)
           t == IF sampling = Nil \/ ~ m THEN sampling ELSE SetTracingMode(sampling, e.TracingMode)
<1>1. /\ loading = "envs" /\ env = <<>> /\ opts = <<>> /\ fields = Said
      /\ SamplingGiven /\ ReporterGiven
      /\ env' = e /\ UNCHANGED <<file, opts>> /\ loading' = "options"
      /\ fields' = Assign(fields, [x \in Readable(e) |-> e[x]])
      /\ sampling' = (IF t = Nil \/ ~ r THEN t ELSE SetSampleRate(t, e.SampleRate))
      /\ reporter' = (IF reporter = Nil \/ "EventFlushInterval" \notin Readable(e) THEN reporter
                      ELSE e.EventFlushInterval)
      /\ file \in Files \cup {NoFile}
  BY DEF LoadEnvs, LoadInv, Given
<1>2. fields' = Said'
  BY <1>1, EnvSaid
<1>3. /\ SaidMode' = IF m THEN n ELSE SaidMode
      /\ SaidRate' = IF r THEN e.SampleRate ELSE SaidRate
      /\ SaidReporter' = IF "EventFlushInterval" \in Readable(e) THEN e.EventFlushInterval
                         ELSE SaidReporter
  BY <1>1, EnvSamplingSaid
<1>4. ReporterGiven'
  BY <1>1, <1>3, Zenon DEF ReporterGiven
<1>5. sampling # Nil =>
        /\ IsSampling(sampling)
        /\ ~ sampling.tracingModeConfigured => sampling.TracingMode = DefaultSampling.TracingMode
        /\ ~ sampling.sampleRateConfigured => sampling.SampleRate = DefaultSampling.SampleRate
        /\ sampling.tracingModeConfigured => "Sampling" \in DOMAIN file.sets
        /\ sampling.sampleRateConfigured => "Sampling" \in DOMAIN file.sets
        /\ Chosen(sampling)
  BY <1>1, Zenon DEF SamplingGiven, Flagged
<1> HIDE DEF m, r, n
<1>6. t # Nil =>
        /\ IsSampling(t) /\ sampling # Nil
        /\ m => t.tracingModeConfigured = TRUE /\ t.TracingMode = n
        /\ ~ m => /\ t.tracingModeConfigured = sampling.tracingModeConfigured
                  /\ t.TracingMode = sampling.TracingMode
        /\ t.sampleRateConfigured = sampling.sampleRateConfigured
        /\ t.SampleRate = sampling.SampleRate
  <2>1. CASE sampling = Nil \/ ~ m
    BY <2>1, <1>5, Zenon
  <2>2. CASE sampling # Nil /\ m
    <3>1. t = SetTracingMode(sampling, e.TracingMode)
      BY <2>2
    <3> HIDE DEF t
    <3>2. /\ IsSampling(t) /\ t.tracingModeConfigured = TRUE
          /\ t.sampleRateConfigured = sampling.sampleRateConfigured
          /\ t.SampleRate = sampling.SampleRate
      BY <3>1, <2>2, <1>5, SetterFacts
    <3>3. t.TracingMode = n
      BY <3>1, <2>2, <1>5, SetterValues, Zenon DEF n
    <3> QED BY <2>2, <3>2, <3>3, Zenon
  <2> QED BY <2>1, <2>2
<1> HIDE DEF t
<1>7. sampling' # Nil =>
        /\ IsSampling(sampling') /\ t # Nil
        /\ sampling'.tracingModeConfigured = t.tracingModeConfigured
        /\ sampling'.TracingMode = t.TracingMode
        /\ r => sampling'.sampleRateConfigured = TRUE /\ sampling'.SampleRate = e.SampleRate
        /\ ~ r => /\ sampling'.sampleRateConfigured = t.sampleRateConfigured
                  /\ sampling'.SampleRate = t.SampleRate
  <2>1. CASE t = Nil \/ ~ r
    BY <2>1, <1>1, <1>6, Zenon
  <2>2. CASE t # Nil /\ r
    <3>1. sampling' = SetSampleRate(t, e.SampleRate)
      BY <2>2, <1>1
    <3>2. /\ IsSampling(sampling') /\ sampling'.sampleRateConfigured = TRUE
          /\ sampling'.tracingModeConfigured = t.tracingModeConfigured
          /\ sampling'.TracingMode = t.TracingMode
      BY <3>1, <2>2, <1>6, SetterFacts
    <3>3. sampling'.SampleRate = e.SampleRate
      BY <3>1, <2>2, <1>6, SetterValues, Zenon
    <3> QED BY <2>2, <3>2, <3>3, Zenon
  <2> QED BY <2>1, <2>2
<1>8. ASSUME sampling' # Nil PROVE Flagged(sampling)' /\ Chosen(sampling)'
  <2>1. /\ ~ sampling'.tracingModeConfigured => sampling'.TracingMode = DefaultSampling.TracingMode
        /\ sampling'.tracingModeConfigured => m \/ "Sampling" \in DOMAIN file.sets
        /\ sampling'.tracingModeConfigured => sampling'.TracingMode = SaidMode'
        /\ ~ sampling'.tracingModeConfigured => ~ IsValidTracingMode(SaidMode')
    <3>1. CASE m
      BY <1>3, <1>6, <1>7, <1>8, <3>1, Zenon
    <3>2. CASE ~ m
      BY <1>3, <1>5, <1>6, <1>7, <1>8, <3>2, Zenon DEF Chosen
    <3> QED BY <3>1, <3>2
  <2>2. /\ ~ sampling'.sampleRateConfigured => sampling'.SampleRate = DefaultSampling.SampleRate
        /\ sampling'.sampleRateConfigured => r \/ "Sampling" \in DOMAIN file.sets
        /\ sampling'.sampleRateConfigured => sampling'.SampleRate = SaidRate'
        /\ ~ sampling'.sampleRateConfigured => ~ IsValidSampleRate(SaidRate')
    <3>1. CASE r
      BY <1>3, <1>7, <1>8, <3>1, Zenon
    <3>2. CASE ~ r
      BY <1>3, <1>5, <1>6, <1>7, <1>8, <3>2, Zenon DEF Chosen
    <3> QED BY <3>1, <3>2
  <2> QED BY <1>1, <2>1, <2>2, Zenon DEF Flagged, Chosen, m, r
<1>9. SamplingGiven'
  BY <1>7, <1>8, Zenon DEF SamplingGiven
<1>10. LoadedIsValid' /\ FlagsTruthful' /\ LoadIsPure'
  BY <1>1, NotLoaded
<1> QED BY <1>1, <1>2, <1>4, <1>9, <1>10 DEF LoadInv, Given

\* The options come over both, unless the agent is disabled.
LEMMA OptionsStep == ASSUME LoadInv, NEW o \in Options, ApplyOptions(o) PROVE LoadInv'
<1>1. /\ loading = "options" /\ opts = <<>> /\ fields = Said
      /\ SamplingGiven /\ ReporterGiven
      /\ opts' = o /\ UNCHANGED <<file, env>>
      /\ file \in Files \cup {NoFile} /\ env \in Envs \cup {<<>>}
  BY DEF ApplyOptions, LoadInv, Given
<1>2. /\ DOMAIN fields = DOMAIN Default /\ fields.Enabled \in BOOLEAN
  BY <1>1, SaidFacts
<1>3. CASE /\ fields.Enabled /\ fields' = Assign(fields, o)
           /\ loading' = "validate" /\ UNCHANGED <<sampling, reporter>>
  <2>1. fields' = Said'
    BY <1>1, <1>3, OptionsSaid
  <2>2. "Enabled" \notin DOMAIN o
    BY SourcesAssumption
  <2>3. fields'.Enabled = fields.Enabled
    BY <1>2, <1>3, <2>2, FieldNames DEF Assign
  <2>4. fields'.Enabled = TRUE
    BY <1>2, <1>3, <2>3, Zenon
  <2>5. SamplingGiven' /\ ReporterGiven'
    <3>1. FileSampling' = FileSampling
      BY <1>1 DEF FileSampling
    <3>2. SaidMode' = SaidMode /\ SaidRate' = SaidRate /\ SaidReporter' = SaidReporter
      BY <1>1, <3>1, Zenon DEF SaidMode, SaidRate, SaidReporter
    <3>3. Flagged(sampling)' = Flagged(sampling) /\ Chosen(sampling)' = Chosen(sampling)
      BY <1>1, <1>3, <3>2 DEF Flagged, Chosen
    <3> QED BY <1>1, <1>3, <3>2, <3>3, Zenon DEF SamplingGiven, ReporterGiven
  <2>6. LoadedIsValid' /\ FlagsTruthful' /\ LoadIsPure'
    BY <1>3, NotLoaded
  <2> QED BY <1>1, <1>3, <2>1, <2>4, <2>5, <2>6 DEF LoadInv, Given
<1>4. CASE /\ loading' = "done" /\ fields' = [Default EXCEPT !.Enabled = FALSE]
           /\ sampling' \in {Nil, DefaultSampling} /\ reporter' \in {Nil, DefaultReporter}
  <2>1. LoadedIsValid' /\ FlagsTruthful' /\ LoadIsPure'
    BY <1>4, Disabling
  <2> QED BY <1>1, <1>4, <2>1 DEF LoadInv
<1> QED BY <1>3, <1>4 DEF ApplyOptions, resetThenDisable, Reset, initStruct

\* Options that were given and are in range stay with their flags, the others go back
\* to the default: validated, they are what the sources say.
LEMMA SamplingSaid ==
    ASSUME SamplingGiven, sampling # Nil, UNCHANGED <<file, env>>,
           sampling' = ValidateSampling(sampling)
    PROVE  /\ sampling' \in ValidSamplings /\ sampling' = SaidSampling'
           /\ sampling'.tracingModeConfigured => sampling.tracingModeConfigured
           /\ sampling'.sampleRateConfigured => sampling.sampleRateConfigured
           /\ ~ sampling'.tracingModeConfigured => sampling'.TracingMode = DefaultSampling.TracingMode
           /\ ~ sampling'.sampleRateConfigured => sampling'.SampleRate = DefaultSampling.SampleRate
<1>1. /\ IsSampling(sampling)
      /\ ~ sampling.tracingModeConfigured => sampling.TracingMode = DefaultSampling.TracingMode
      /\ ~ sampling.sampleRateConfigured => sampling.SampleRate = DefaultSampling.SampleRate
      /\ sampling.tracingModeConfigured => sampling.TracingMode = SaidMode
      /\ ~ sampling.tracingModeConfigured => ~ IsValidTracingMode(SaidMode)
      /\ sampling.sampleRateConfigured => sampling.SampleRate = SaidRate
      /\ ~ sampling.sampleRateConfigured => ~ IsValidSampleRate(SaidRate)
  BY Zenon DEF SamplingGiven, Flagged, Chosen
<1>2. /\ sampling' \in ValidSamplings
      /\ IsValidTracingMode(sampling.TracingMode) =>
           /\ sampling'.TracingMode = sampling.TracingMode
           /\ sampling'.tracingModeConfigured = sampling.tracingModeConfigured
      /\ ~ IsValidTracingMode(sampling.TracingMode) =>
           /\ sampling'.TracingMode = DefaultSampling.TracingMode
           /\ sampling'.tracingModeConfigured = FALSE
      /\ IsValidSampleRate(sampling.SampleRate) =>
           /\ sampling'.SampleRate = sampling.SampleRate
           /\ sampling'.sampleRateConfigured = sampling.sampleRateConfigured
      /\ ~ IsValidSampleRate(sampling.SampleRate) =>
           /\ sampling'.SampleRate = DefaultSampling.SampleRate
           /\ sampling'.sampleRateConfigured = FALSE
  BY <1>1, ValidateFacts, Zenon
<1>3. sampling.tracingModeConfigured \in BOOLEAN /\ sampling.sampleRateConfigured \in BOOLEAN
  BY <1>1, Zenon DEF IsSampling
<1>4. IsValidTracingMode(DefaultSampling.TracingMode) /\ IsValidSampleRate(DefaultSampling.SampleRate)
  BY DefaultSamplingFacts DEF IsValidTracingMode
<1>5. /\ IsValidTracingMode(SaidMode) =>
           sampling'.TracingMode = SaidMode /\ sampling'.tracingModeConfigured = TRUE
      /\ ~ IsValidTracingMode(SaidMode) =>
           /\ sampling'.TracingMode = DefaultSampling.TracingMode
           /\ sampling'.tracingModeConfigured = FALSE
  <2>1. CASE sampling.tracingModeConfigured = TRUE
    BY <1>1, <1>2, <2>1, Zenon
  <2>2. CASE sampling.tracingModeConfigured = FALSE
    BY <1>1, <1>2, <1>4, <2>2, Zenon
  <2> QED BY <1>3, <2>1, <2>2, Zenon
<1>6. /\ IsValidSampleRate(SaidRate) =>
           sampling'.SampleRate = SaidRate /\ sampling'.sampleRateConfigured = TRUE
      /\ ~ IsValidSampleRate(SaidRate) =>
           /\ sampling'.SampleRate = DefaultSampling.SampleRate
           /\ sampling'.sampleRateConfigured = FALSE
  <2>1. CASE sampling.sampleRateConfigured = TRUE
    BY <1>1, <1>2, <2>1, Zenon
  <2>2. CASE sampling.sampleRateConfigured = FALSE
    BY <1>1, <1>2, <1>4, <2>2, Zenon
  <2> QED BY <1>3, <2>1, <2>2, Zenon
<1>7. SaidMode' = SaidMode /\ SaidRate' = SaidRate
  <2>1. FileSampling' = FileSampling
    BY DEF FileSampling
  <2> QED BY <2>1, Zenon DEF SaidMode, SaidRate
<1>8. sampling' = SaidSampling'
  <2> DEFINE m == IsValidTracingMode(SaidMode)
             r == IsValidSampleRate(SaidRate)
             q == [TracingMode |-> IF m THEN SaidMode ELSE DefaultSampling.TracingMode,
                   tracingModeConfigured |-> m,
                   SampleRate |-> IF r THEN SaidRate ELSE DefaultSampling.SampleRate,
                   sampleRateConfigured |-> r]
  <2>1. SaidSampling' = q
    BY <1>7, Zenon DEF SaidSampling
  <2>2. m \in BOOLEAN /\ r \in BOOLEAN
    BY DEF IsValidTracingMode, IsValidSampleRate
  <2> HIDE DEF m, r
  <2>3. sampling' = q
    BY <1>2, <1>5, <1>6, <2>2 DEF ValidSamplings, m, r
  <2> QED BY <2>1, <2>3
<1> QED BY <1>1, <1>2, <1>3, <1>4, <1>8, Zenon

\* Validation repairs what the sources say.
LEMMA ValidateStep == ASSUME LoadInv, Validate PROVE LoadInv'
<1>1. /\ loading = "validate" /\ fields = Said /\ fields.Enabled = TRUE
      /\ SamplingGiven /\ ReporterGiven
      /\ UNCHANGED <<file, env, opts, lambda>>
      /\ file \in Files \cup {NoFile} /\ env \in Envs \cup {<<>>} /\ opts \in Options \cup {<<>>}
  BY DEF Validate, sources, LoadInv, Given
<1>2. CASE loading' = "panic"
  <2>1. LoadedIsValid' /\ FlagsTruthful' /\ LoadIsPure'
    BY <1>2, NotLoaded
  <2> QED BY <1>1, <1>2, <2>1 DEF LoadInv
<1>3. CASE /\ loading' = "done" /\ fields' = [Default EXCEPT !.Enabled = FALSE]
           /\ sampling' \in {Nil, DefaultSampling} /\ reporter' \in {Nil, DefaultReporter}
  <2>1. LoadedIsValid' /\ FlagsTruthful' /\ LoadIsPure'
    BY <1>3, Disabling
  <2> QED BY <1>1, <1>3, <2>1 DEF LoadInv
<1>4. CASE /\ KeyAccepted(fields.ServiceKey) /\ sampling # Nil
           /\ fields' = Repaired(fields) /\ sampling' = ValidateSampling(sampling)
           /\ loading' = "done" /\ UNCHANGED reporter
  <2>1. /\ DOMAIN fields = DOMAIN Default
        /\ fields.Collector = Addr(fields.Collector.host, fields.Collector.port)
    BY <1>1, SaidFacts
  <2>2. /\ fields'.Enabled = TRUE /\ fields'.SettingsURL = fields.SettingsURL
        /\ IsValidHost(fields'.Collector)
        /\ fields'.Collector \in {fields.Collector, Default.Collector}
        /\ IsValidEc2MetadataTimeout(fields'.Ec2MetadataTimeout)
        /\ IsValidDebugLevel(fields'.DebugLevel)
        /\ IsValidTokenBucketCap(fields'.TokenBucketCap)
        /\ ~ lambda => /\ fields'.TransactionName = Empty
                       /\ fields'.ServiceKey = NoKey \/ IsValidServiceKey(fields'.ServiceKey)
    BY <1>1, <1>4, <2>1, RepairedFacts, Zenon
  <2>3. /\ sampling' \in ValidSamplings /\ sampling' = SaidSampling'
        /\ sampling'.tracingModeConfigured => sampling.tracingModeConfigured
        /\ sampling'.sampleRateConfigured => sampling.sampleRateConfigured
        /\ ~ sampling'.tracingModeConfigured => sampling'.TracingMode = DefaultSampling.TracingMode
        /\ ~ sampling'.sampleRateConfigured => sampling'.SampleRate = DefaultSampling.SampleRate
    BY <1>1, <1>4, SamplingSaid
  \* The address, the port GetCollector adds and the host of the settings.
  <2>4. fields'.Collector = Addr(fields'.Collector.host, fields'.Collector.port)
    BY <2>1, <2>2, DefaultFacts DEF Addr
  <2>5. GetCollector'.host = fields'.Collector.host
    BY <2>4 DEF GetCollector, Addr
  <2>6. (fields'.SettingsURL = Empty /\ fields'.Collector # Addr("[v6]", NoPort)) =>
           GetSettingsURL' = fields'.Collector.host
    BY <2>4 DEF GetSettingsURL, SettingsHost
  <2>7. /\ sampling' # Nil
        /\ IsValidTracingMode(sampling'.TracingMode) /\ IsValidSampleRate(sampling'.SampleRate)
    BY <2>3, NilAssumption DEF ValidSamplings, IsValidTracingMode, IsValidSampleRate
  <2>8. LoadedIsValid'
    BY <1>1, <2>2, <2>5, <2>6, <2>7, Zenon DEF LoadedIsValid
  <2>9. FlagsTruthful'
    <3>1. /\ sampling.tracingModeConfigured =>
               "TracingMode" \in Readable(env) \/ "Sampling" \in DOMAIN file.sets
          /\ sampling.sampleRateConfigured =>
               "SampleRate" \in Readable(env) \/ "Sampling" \in DOMAIN file.sets
      BY <1>1, <1>4, Zenon DEF SamplingGiven, Flagged
    <3> QED BY <1>1, <2>2, <2>3, <3>1, Zenon DEF FlagsTruthful
  <2>10. LoadIsPure'
    <3>1. Said' = Said
      BY <1>1 DEF Said
    <3>2. Repaired(Said)' = Repaired(Said)
      BY <1>1, <3>1 DEF Repaired
    <3>3. SaidReporter' = SaidReporter
      BY <1>1, Zenon DEF SaidReporter
    <3>4. reporter' # Nil => reporter' = SaidReporter'
      BY <1>1, <1>4, <3>3, Zenon DEF ReporterGiven
    <3> QED BY <1>1, <1>4, <2>2, <2>3, <3>2, <3>4, Zenon DEF LoadIsPure
  <2> QED BY <1>1, <1>4, <2>8, <2>9, <2>10 DEF LoadInv
<1> QED BY <1>2, <1>3, <1>4 DEF Validate, resetThenDisable, Reset, initStruct

\* Every step of a Load preserves the invariant.
LEMMA LoadStep == LoadInv /\ [ConfigNext]_configVars => LoadInv'
<1> SUFFICES ASSUME LoadInv, [ConfigNext]_configVars PROVE LoadInv'
  OBVIOUS
<1>1. CASE ConfigNext
  BY <1>1, BeginStep, FileStep, EnvStep, OptionsStep, ValidateStep DEF ConfigNext
<1>2. CASE UNCHANGED configVars
  <2>1. UNCHANGED <<fields, sampling, reporter, loading, lambda, file, env, opts>>
    BY <1>2 DEF configVars
  <2>2. Said' = Said /\ FileSampling' = FileSampling
    BY <2>1 DEF Said, FileSampling
  <2>3. SaidMode' = SaidMode /\ SaidRate' = SaidRate /\ SaidReporter' = SaidReporter
    BY <2>1, <2>2, Zenon DEF SaidMode, SaidRate, SaidReporter
  <2>4. SamplingGiven' = SamplingGiven /\ ReporterGiven' = ReporterGiven
    BY <2>1, <2>3, Zenon DEF SamplingGiven, ReporterGiven, Flagged, Chosen
  <2>5. LoadedIsValid' = LoadedIsValid
    BY <2>1, Zenon DEF LoadedIsValid, Loaded, GetSettingsURL, GetCollector
  <2>6. FlagsTruthful' = FlagsTruthful
    BY <2>1, Zenon DEF FlagsTruthful, Loaded
  <2>7. Repaired(Said)' = Repaired(Said) /\ SaidSampling' = SaidSampling
    BY <2>1, <2>2, <2>3 DEF Repaired, SaidSampling
  <2>8. LoadIsPure' = LoadIsPure
    BY <2>1, <2>3, <2>7, Zenon DEF LoadIsPure, Loaded
  <2> QED BY <2>1, <2>2, <2>4, <2>5, <2>6, <2>8 DEF LoadInv, Given
<1> QED BY <1>1, <1>2

\* Whatever the sources say and however often Load runs, what it leaves enabled
\* is usable.
THEOREM EnabledIsUsable == ConfigSpec => []LoadedIsValid
<1>1. LoadInv => LoadedIsValid
  BY DEF LoadInv
<1> QED BY <1>1, LoadStart, LoadStep, PTL DEF ConfigSpec

\* The flags that oboe trusts never lie, on any path through the setters, the
\* resets and the error paths.
THEOREM FlagsNeverLie == ConfigSpec => []FlagsTruthful
<1>1. LoadInv => FlagsTruthful
  BY DEF LoadInv
<1> QED BY <1>1, LoadStart, LoadStep, PTL DEF ConfigSpec

\* However many Loads came before, every value, those of the nested structs with
\* their flags included, is a function of the sources of the last one, in their order
\* of precedence.
THEOREM LastLoadDecides == ConfigSpec => []LoadIsPure
<1>1. LoadInv => LoadIsPure
  BY DEF LoadInv
<1> QED BY <1>1, LoadStart, LoadStep, PTL DEF ConfigSpec
=============================================================================
