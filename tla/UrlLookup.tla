----------------------------- MODULE UrlLookup ------------------------------
(***************************************************************************)
(* What the URL filters promise (internal/oboe/url.go): every call of      *)
(* GetTracingMode answers what the list of filters says of its URL, and    *)
(* nothing of the calls made before.  There is no cache here.              *)
(***************************************************************************)
EXTENDS Sequences, Naturals

CONSTANTS
    Requests,      \* goroutines that call GetTracingMode
    Urls,          \* URLs: [id, ext]
    EmptyUrl,      \* a request without a URL
    Configs,       \* lists of filters
    Nil            \* a nil filter, or no answer yet

VARIABLES
    filters,       \* the filters in force
    answer         \* request -> its URL and the answer to its last call

vars == <<filters, answer>>

\* regexFilter.match and extensionFilter.match: a regular expression matches a
\* set of URLs, an extension filter looks at the extension.
Matches(f, u) == IF f.kind = "regex" THEN u \in f.matched ELSE u.ext \in f.Exts

\* lookupTracingMode: the mode of the first filter that matches.  A filter whose
\* expression did not compile is nil, and calling its match panics.
Stops(f, u) == f = Nil \/ Matches(f, u)

FirstStop(fs, u) == CHOOSE i \in DOMAIN fs :
    Stops(fs[i], u) /\ \A j \in 1..(i - 1) : ~ Stops(fs[j], u)

lookupTracingMode(fs, u) ==
    IF u # EmptyUrl /\ \E i \in DOMAIN fs : Stops(fs[i], u)
    THEN LET f == fs[FirstStop(fs, u)] IN IF f = Nil THEN "panic" ELSE f.trace
    ELSE "TraceUnknown"

NoAnswer == [url |-> Nil, mode |-> Nil]

Init ==
    /\ filters \in Configs
    /\ answer = [r \in Requests |-> NoAnswer]

\* A call for url u, from its start to its return.
Answer(r, u) ==
    /\ answer' = [answer EXCEPT ![r] = [url |-> u, mode |-> lookupTracingMode(filters, u)]]
    /\ UNCHANGED filters

\* ReloadURLsConfig, between calls.
Reload(c) ==
    /\ filters' = c
    /\ answer' = [r \in Requests |-> NoAnswer]

Next ==
    \/ \E r \in Requests, u \in Urls \cup {EmptyUrl} : Answer(r, u)
    \/ \E c \in Configs : Reload(c)

Spec == Init /\ [][Next]_vars

=============================================================================
