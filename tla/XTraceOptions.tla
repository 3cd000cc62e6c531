---------------------------- MODULE XTraceOptions ----------------------------
(***************************************************************************)
(* The X-Trace-Options header (internal/xtrace/xtrace.go): its options are *)
(* read one after the other, then its signature is checked against the     *)
(* timestamp found in it and the token of the settings of the moment.      *)
(*                                                                         *)
(* An option is a key, with found = TRUE and a value when it has an equals *)
(* sign; a value of ts is a number of seconds or BadNumber.  A signature   *)
(* names the token and the header it was made for: hmacHash is external.   *)
(* Module Sampler takes the result of this one as its input.               *)
(***************************************************************************)
EXTENDS Integers, Sequences, SequencesExt

CONSTANTS
    Headers,       \* sequences of options
    CustomKeys,    \* keys that match customKeyRegex
    Tokens,        \* trigger trace tokens of the settings
    Now,           \* the time, in seconds since the epoch
    BadNumber,     \* a text that ParseInt refuses
    NoKey,         \* settings without a token, or no settings
    NoSig          \* no signature header

EmptyKey == ""     \* of an option that is blank
Known == {EmptyKey, "trigger-trace", "sw-keys", "ts"}

ASSUME NowAssumption == Now \in Nat
ASSUME HeadersAssumption ==
    \A h \in Headers :
        /\ h \in Seq(ToSet(h))
        /\ \A i \in DOMAIN h :
             /\ h[i].found \in BOOLEAN
             /\ (h[i].key = "ts" /\ h[i].found) => h[i].value \in Int \cup {BadNumber}
ASSUME KeysAssumption == CustomKeys \cap Known = {}
ASSUME TokensAssumption == NoKey \notin Tokens /\ NoSig \notin Tokens

VARIABLES
    header,        \* opts
    sig,           \* NoSig, or [token, data]
    rest,          \* the options not read yet
    x,             \* the fields of Options that parsing fills
    token,         \* oboe's trigger trace token; the settings may change
    state          \* SignatureState with its message; before, "idle" or "parsing"

optionsVars == <<header, sig, rest, x, token, state>>

Window == 300      \* five minutes
NoValue == "unset"

Empty == [tt |-> FALSE, swKeys |-> NoValue, timestamp |-> 0,
          customKVs |-> [k \in CustomKeys |-> NoValue], ignoredKeys |-> <<>>]

OptionsInit ==
    /\ header = <<>> /\ sig = NoSig /\ rest = <<>>
    /\ x = Empty
    /\ token = NoKey
    /\ state = "idle"

\* GetXTraceOptions takes the headers from the context.
GetXTraceOptions(h, s) ==
    /\ state = "idle"
    /\ header' = h /\ sig' = s /\ rest' = h
    /\ state' = "parsing"
    /\ UNCHANGED <<x, token>>

-----------------------------------------------------------------------------
(* parseXTraceOptions.  One action per kind of option.                     *)

Reads(o, y) ==
    /\ state = "parsing" /\ rest # <<>>
    /\ o = Head(rest)
    /\ rest' = Tail(rest)
    /\ x' = y
    /\ UNCHANGED <<header, sig, token, state>>

Ignoring(o) == [x EXCEPT !.ignoredKeys = Append(@, o.key)]

ReadBlank(o) == o.key = EmptyKey /\ Reads(o, x)

\* trigger-trace is a flag; with a value it is dropped without a word.
ReadTriggerTrace(o) ==
    /\ o.key = "trigger-trace"
    /\ Reads(o, IF o.found THEN x ELSE [x EXCEPT !.tt = TRUE])

ReadBare(o) ==
    /\ o.key \notin {EmptyKey, "trigger-trace"} /\ ~ o.found
    /\ Reads(o, Ignoring(o))

ReadSwKeys(o) ==
    /\ o.key = "sw-keys" /\ o.found
    /\ Reads(o, [x EXCEPT !.swKeys = o.value])

\* A plausible slip: a number that cannot be read leaves a zero behind.
ReadTimestampOrZero(o) ==
    /\ o.key = "ts" /\ o.found
    /\ Reads(o, IF o.value = BadNumber THEN [Ignoring(o) EXCEPT !.timestamp = 0]
                ELSE [x EXCEPT !.timestamp = o.value])

ReadTimestamp(o) ==
    /\ o.key = "ts" /\ o.found
    /\ Reads(o, IF o.value = BadNumber THEN Ignoring(o) ELSE [x EXCEPT !.timestamp = o.value])

ReadCustom(o) ==
    /\ o.key \in CustomKeys /\ o.found
    /\ Reads(o, [x EXCEPT !.customKVs[o.key] = o.value])

ReadOther(o) ==
    /\ o.key \notin Known \cup CustomKeys /\ o.found
    /\ Reads(o, Ignoring(o))

-----------------------------------------------------------------------------

tsInScope(ts) == ts >= Now - Window /\ ts <= Now + Window

\* A plausible slip: the options are hashed without looking at their age.
AuthStatusAnyAge == IF token = NoKey THEN "no-signature-key"
                    ELSE IF sig # [token |-> token, data |-> header] THEN "bad-signature" ELSE "ok"

\* validateXTraceOptionsSignature
AuthStatus == IF ~ tsInScope(x.timestamp) THEN "bad-timestamp"
              ELSE IF token = NoKey THEN "no-signature-key"
              ELSE IF sig # [token |-> token, data |-> header] THEN "bad-signature" ELSE "ok"

CheckSignature ==
    /\ state = "parsing" /\ rest = <<>>
    /\ state' = IF sig = NoSig THEN "unsigned" ELSE AuthStatus
    /\ UNCHANGED <<header, sig, rest, x, token>>

\* The settings come, change their token or expire meanwhile.
SettingsChange(t) ==
    /\ state \in {"idle", "parsing"}
    /\ token' = t
    /\ UNCHANGED <<header, sig, rest, x, state>>

OptionsNext ==
    \/ /\ state = "idle"
       /\ \E h \in Headers : \E s \in {NoSig} \cup [token : Tokens, data : {h, <<>>}] :
            GetXTraceOptions(h, s)
    \/ \E o \in IF rest = <<>> THEN {} ELSE {Head(rest)} :
         \/ ReadBlank(o) \/ ReadTriggerTrace(o) \/ ReadBare(o) \/ ReadSwKeys(o)
         \/ ReadTimestamp(o) \/ ReadCustom(o) \/ ReadOther(o)
    \/ CheckSignature
    \/ \E t \in Tokens \cup {NoKey} : SettingsChange(t)

OptionsSpec == OptionsInit /\ [][OptionsNext]_optionsVars

-----------------------------------------------------------------------------
(* Properties.                                                             *)

\* An option that gives key k a value.
Gives(o, k) == o.key = k /\ o.found /\ (k = "ts" => o.value # BadNumber)

\* v is what the first n options of h say of key k, whatever surrounds them: the last
\* value they give it.
Says(h, k, v, default, n) ==
    \/ v = default /\ \A i \in 1..n : ~ Gives(h[i], k)
    \/ \E i \in 1..n :
         /\ Gives(h[i], k) /\ v = h[i].value
         /\ \A j \in (i + 1)..n : ~ Gives(h[j], k)

Ignored(o) ==
    \/ ~ o.found /\ o.key \notin {EmptyKey, "trigger-trace"}
    \/ o.found /\ o.key \notin Known \cup CustomKeys
    \/ o.key = "ts" /\ o.found /\ o.value = BadNumber

\* f leads from the entries of keys to the ignored options among the first n
\* of h.
Enumerates(h, f, keys, n) ==
    /\ \A i, j \in DOMAIN keys : i < j => f[i] < f[j]
    /\ \A i \in DOMAIN keys : Ignored(h[f[i]]) /\ keys[i] = h[f[i]].key
    /\ \A j \in 1..n : Ignored(h[j]) => \E i \in DOMAIN keys : f[i] = j

\* The first n options of h give the fields y.
Meets(h, y, n) ==
    /\ y.tt <=> \E i \in 1..n : h[i].key = "trigger-trace" /\ ~ h[i].found
    /\ Says(h, "sw-keys", y.swKeys, NoValue, n)
    /\ Says(h, "ts", y.timestamp, 0, n)
    /\ \A k \in CustomKeys : Says(h, k, y.customKVs[k], NoValue, n)
    /\ \E f \in [DOMAIN y.ignoredKeys -> 1..n] : Enumerates(h, f, y.ignoredKeys, n)

\* Options do not disturb each other: the last usable value of a key counts and
\* a bad one does not undo it, trigger-trace counts when it stands alone
\* somewhere, and what was ignored is listed in the order of the header.
ParseMeetsHeader == state \notin {"idle", "parsing"} => Meets(header, x, Len(header))

\* A signature is only accepted if it was made, with the token in force when it
\* is checked, for all the options of this header, at a time the header gives
\* within five minutes: without a usable ts no signature is.
ValidIsFresh ==
    state = "ok" =>
        /\ sig = [token |-> token, data |-> header]
        /\ \E t \in (Now - Window)..(Now + Window) : Says(header, "ts", t, 0, Len(header))

=============================================================================
