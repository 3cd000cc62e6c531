-------------------------- MODULE TransactionNames --------------------------
(***************************************************************************)
(* How the name of a transaction is derived when the application has not   *)
(* set one (internal/txn/txn.go): from the configuration, the Lambda       *)
(* function, the attributes of the span or its name, trimmed and cut.      *)
(*                                                                         *)
(* A text is a sequence of tokens: Slash, Query (a ? or a #), Blank, or a  *)
(* word; EmptyText is the empty string.  Its length is counted in tokens.  *)
(***************************************************************************)
EXTENDS Naturals, Sequences, FiniteSets, SequencesExt

CONSTANTS
    Inputs,        \* [config, lambda, spanName : texts, attrs : Seq([key, value])]
    MaxName        \* the longest name, 255 in the code

\* A text, of whatever tokens.
IsText(text) == text \in Seq(ToSet(text))

ASSUME MaxNameAssumption == MaxName \in Nat \ {0}
ASSUME InputsAssumption ==
    \A i \in Inputs :
      /\ IsText(i.config) /\ IsText(i.lambda) /\ IsText(i.spanName)
      /\ DOMAIN i.attrs = 1..Len(i.attrs) /\ Len(i.attrs) \in Nat
      /\ \A j \in DOMAIN i.attrs : IsText(i.attrs[j].value)

VARIABLES
    input,
    name,          \* what deriveTransactionName returned
    done           \* it has returned

namesVars == <<input, name, done>>

Slash == "/"
Query == "?"
Blank == " "
EmptyText == <<>>
Unknown == <<"unknown">>

-----------------------------------------------------------------------------

\* strings.IndexAny, and what is before it.
WithoutQuery(path) ==
    LET cuts == {i \in DOMAIN path : path[i] = Query}
    IN  IF cuts = {} THEN path ELSE SubSeq(path, 1, Min(cuts) - 1)

\* strings.SplitN cuts at the slashes: each segment reaches to the next slash
\* after its beginning, or to the end.  Only the first three segments are used, so
\* the limit of four makes no difference to them.
NextSlash(path, from) ==
    LET slashes == {i \in (from + 1)..Len(path) : path[i] = Slash}
    IN  IF slashes = {} THEN Len(path) + 1 ELSE Min(slashes)

\* A plausible slip: all the segments are kept.
extractAllSegments(path) == WithoutQuery(path)

extractTransactionNameFromPath(path) ==
    LET p == WithoutQuery(path)
        first == NextSlash(p, 0)
        second == NextSlash(p, first)
        third == NextSlash(p, second)
        segment1 == <<Slash>> \o SubSeq(p, first + 1, second - 1)
        segment2 == <<Slash>> \o SubSeq(p, second + 1, third - 1)
    IN  IF first > Len(p) THEN p
        ELSE IF second > Len(p) THEN segment1
        ELSE segment1 \o segment2

\* The loop over the attributes: each key has a variable, and url.path shares its
\* variable with http.target.
Variables == [faasName |-> {"faas.name"}, httpRoute |-> {"http.route"},
              urlPath |-> {"url.path", "http.target"}]

ValueOf(attrs, v) ==
    LET given == {i \in DOMAIN attrs : attrs[i].key \in Variables[v]}
    IN  IF given = {} THEN EmptyText ELSE attrs[Max(given)].value

FromAttributes(attrs) ==
    IF ValueOf(attrs, "faasName") # EmptyText THEN ValueOf(attrs, "faasName")
    ELSE IF ValueOf(attrs, "httpRoute") # EmptyText THEN ValueOf(attrs, "httpRoute")
    ELSE extractTransactionNameFromPath(ValueOf(attrs, "urlPath"))

\* strings.TrimSpace
TrimSpace(text) ==
    LET words == {i \in DOMAIN text : text[i] # Blank}
    IN  IF words = {} THEN EmptyText
        ELSE SubSeq(text, Min(words), Max(words))

\* A name that is empty or blank becomes "unknown"; a long one is cut.
Finished(text) ==
    LET t == IF TrimSpace(text) = EmptyText THEN Unknown ELSE TrimSpace(text)
    IN  SubSeq(t, 1, IF Len(t) > MaxName THEN MaxName ELSE Len(t))

deriveTransactionName(i) ==
    Finished(IF i.config # EmptyText THEN i.config
             ELSE IF i.lambda # EmptyText THEN i.lambda
             ELSE IF FromAttributes(i.attrs) # EmptyText THEN FromAttributes(i.attrs)
             ELSE i.spanName)

NamesInit ==
    /\ input = [config |-> EmptyText, lambda |-> EmptyText, attrs |-> <<>>, spanName |-> EmptyText]
    /\ name = EmptyText
    /\ done = FALSE

Derive(i) ==
    /\ ~ done
    /\ input' = i
    /\ name' = deriveTransactionName(i)
    /\ done' = TRUE

NamesNext == ~ done /\ \E i \in Inputs : Derive(i)

NamesSpec == NamesInit /\ [][NamesNext]_namesVars

-----------------------------------------------------------------------------
(* Properties.                                                             *)

Slashes(text) == Cardinality({i \in DOMAIN text : text[i] = Slash})
NamedByPath(i) == /\ \A text \in {i.config, i.lambda, ValueOf(i.attrs, "faasName"),
                                  ValueOf(i.attrs, "httpRoute")} : text = EmptyText
                  /\ ValueOf(i.attrs, "urlPath") # EmptyText
                  /\ Head(ValueOf(i.attrs, "urlPath")) = Slash

\* strings.SplitN makes a segment of the nothing between two slashes, too.
HasEmptySegment(path) ==
    \E i \in 1..(Len(path) - 1) : path[i] = Slash /\ path[i + 1] = Slash

\* Whatever the span says of itself, the name that reaches the metric is usable:
\* not empty, not blank, not too long.  And the number of different names is
\* bounded: a name made from a path is a beginning of it, without the query, with
\* at most two slashes.  Where no segment of the path is empty it is the longest
\* such beginning that does not end in blanks, or as much of that as fits.  Nothing
\* more is said of other paths: txn.go:100 wants their "first 2 non-empty segments",
\* and the code, which takes the first two, names //a/b after an empty one, //a.
NameIsBounded ==
    done => /\ name # EmptyText /\ Head(name) # Blank
            /\ Len(name) <= MaxName
            /\ NamedByPath(input) =>
                 LET path == WithoutQuery(ValueOf(input.attrs, "urlPath"))
                 IN  /\ IsPrefix(name, path) /\ Slashes(name) <= 2
                     /\ ~ HasEmptySegment(path) /\ Len(name) < MaxName =>
                          \E n \in Len(name)..Len(path) :
                             /\ \A i \in (Len(name) + 1)..n : path[i] = Blank
                             /\ n = Len(path) \/ (path[n + 1] = Slash /\ Slashes(name) = 2)

=============================================================================
