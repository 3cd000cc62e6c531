---------------------------- MODULE UrlFilters ------------------------------
(***************************************************************************)
(* The URL filters with their cache (internal/oboe/url.go).  Requests call *)
(* GetTracingMode concurrently; a decision found by the filters is kept in *)
(* the cache as text for ten minutes, and may be evicted at any time.      *)
(* freecache itself is external: one Get or Set is atomic, a Set may fail  *)
(* (its error is dropped) and entries vanish.                              *)
(*                                                                         *)
(* Module UrlLookup says what the filters promise; Lookup!Spec is checked  *)
(* and proved of this specification.                                       *)
(***************************************************************************)
EXTENDS Sequences, Naturals

CONSTANTS
    Requests,      \* goroutines that call GetTracingMode
    Urls,          \* URLs: [id, ext]
    EmptyUrl,      \* a request without a URL
    Configs,       \* values of TransactionSettings, sequences of filters
    Nil            \* a nil filter, or nothing in the cache

ASSUME ConfigsAssumption == \A c \in Configs : DOMAIN c = 1..Len(c) /\ Len(c) \in Nat
ASSUME NilAssumption == Nil \notin {"enabled", "disabled", "unknown"}

VARIABLES
    filters,       \* urlFilters.filters
    cache,         \* url -> the text stored for it, or Nil
    pc,            \* request -> where its call is
    url,           \* request -> the URL of its call
    answer         \* request -> its URL and the answer to its last call

filtersVars == <<filters, cache, pc, url, answer>>

-----------------------------------------------------------------------------
(* Tracing modes go through the cache as text (tracing_mode.go).           *)

ModeToString(m) == IF m = "TraceEnabled" THEN "enabled"
               ELSE IF m = "TraceDisabled" THEN "disabled" ELSE "unknown"

NewTracingMode(s) == IF s = "disabled" THEN "TraceDisabled"
                     ELSE IF s = "enabled" THEN "TraceEnabled" ELSE "TraceUnknown"

\* newRegexFilter and newExtensionFilter.  An expression that does not compile is
\* reported as ignored, but a nil filter takes its place in the list.
newFilter(f) ==
    IF f.kind = "regex" /\ f.bad THEN Nil
    ELSE [kind |-> f.kind, matched |-> f.matched, Exts |-> f.extensions,
          trace |-> NewTracingMode(f.Tracing)]

loadConfig(c) == [i \in DOMAIN c |-> newFilter(c[i])]

\* What the filters promise.
Lookup == INSTANCE UrlLookup WITH Configs <- {loadConfig(c) : c \in Configs}

-----------------------------------------------------------------------------
(* GetTracingMode.                                                         *)

FiltersInit ==
    /\ filters \in {loadConfig(c) : c \in Configs}
    /\ cache = [u \in Urls |-> Nil]
    /\ pc = [r \in Requests |-> "idle"]
    /\ url = [r \in Requests |-> Nil]
    /\ answer = [r \in Requests |-> Lookup!NoAnswer]

Return(r, u, m) == answer' = [answer EXCEPT ![r] = [url |-> u, mode |-> m]]

\* No filters, or no URL.
CallTrivial(r, u) ==
    /\ pc[r] = "idle"
    /\ filters = <<>> \/ u = EmptyUrl
    /\ Return(r, u, "TraceUnknown")
    /\ UNCHANGED <<filters, cache, pc, url>>

\* The cache has an answer.
CallHit(r, u) ==
    /\ pc[r] = "idle"
    /\ filters # <<>> /\ u # EmptyUrl
    /\ cache[u] # Nil
    /\ Return(r, u, NewTracingMode(cache[u]))
    /\ UNCHANGED <<filters, cache, pc, url>>

\* The cache has none.
CallMiss(r, u) ==
    /\ pc[r] = "idle"
    /\ filters # <<>> /\ u # EmptyUrl
    /\ cache[u] = Nil
    /\ pc' = [pc EXCEPT ![r] = "lookup"]
    /\ url' = [url EXCEPT ![r] = u]
    /\ UNCHANGED <<filters, cache, answer>>

\* The filters are asked, the answer is stored, unless the cache refuses it, and
\* returned.
LookupAndSet(r) ==
    LET m == Lookup!lookupTracingMode(filters, url[r])
    IN  /\ pc[r] = "lookup"
        /\ m # "panic"
        /\ \/ cache' = [cache EXCEPT ![url[r]] = ModeToString(m)]
           \/ cache' = cache
        /\ Return(r, url[r], m)
        /\ pc' = [pc EXCEPT ![r] = "idle"]
        /\ url' = [url EXCEPT ![r] = Nil]
        /\ UNCHANGED filters

\* A nil filter is reached: the call panics and nothing is stored.
LookupPanics(r) ==
    /\ pc[r] = "lookup"
    /\ Lookup!lookupTracingMode(filters, url[r]) = "panic"
    /\ Return(r, url[r], "panic")
    /\ pc' = [pc EXCEPT ![r] = "idle"]
    /\ url' = [url EXCEPT ![r] = Nil]
    /\ UNCHANGED <<filters, cache>>

\* Ten minutes have passed, or the cache makes room.
Drop(u) ==
    /\ cache[u] # Nil
    /\ cache' = [cache EXCEPT ![u] = Nil]
    /\ UNCHANGED <<filters, pc, url, answer>>

\* A plausible slip: the cache is not cleared.
ReloadURLsConfigKeepsCache(c) ==
    /\ \A r \in Requests : pc[r] = "idle"
    /\ filters' = loadConfig(c)
    /\ answer' = [r \in Requests |-> Lookup!NoAnswer]
    /\ UNCHANGED <<cache, pc, url>>

\* ReloadURLsConfig is not thread-safe: its callers, the tests, make sure that no
\* request is under way.
ReloadURLsConfig(c) ==
    /\ \A r \in Requests : pc[r] = "idle"
    /\ filters' = loadConfig(c)
    /\ cache' = [u \in Urls |-> Nil]
    /\ answer' = [r \in Requests |-> Lookup!NoAnswer]
    /\ UNCHANGED <<pc, url>>

FiltersNext ==
    \/ \E r \in Requests, u \in Urls \cup {EmptyUrl} :
         CallTrivial(r, u) \/ CallHit(r, u) \/ CallMiss(r, u)
    \/ \E r \in Requests : LookupAndSet(r) \/ LookupPanics(r)
    \/ \E u \in Urls : Drop(u)
    \/ \E c \in Configs : ReloadURLsConfig(c)

FiltersSpec == FiltersInit /\ [][FiltersNext]_filtersVars

-----------------------------------------------------------------------------
(* Properties.                                                             *)

\* Type invariant.
TypeOK ==
    /\ filters \in {loadConfig(c) : c \in Configs}
    /\ cache \in [Urls -> {Nil, "enabled", "disabled", "unknown"}]
    /\ pc \in [Requests -> {"idle", "lookup"}]
    /\ url \in [Requests -> Urls \cup {Nil}]
    /\ \A r \in Requests : pc[r] = "lookup" => url[r] \in Urls /\ filters # <<>>

\* The cache never contradicts the filters in force: whichever requests filled
\* it, and whatever was reloaded, an entry is what a lookup would find now.
CacheIsCurrent ==
    \A u \in Urls : cache[u] # Nil => NewTracingMode(cache[u]) = Lookup!lookupTracingMode(filters, u)

\* The cache cannot be observed: calls answer as if each of them went through
\* the filters, and an answer never changes without a call.
Transparent == Lookup!Spec

=============================================================================
