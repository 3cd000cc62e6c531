----------------------------- MODULE MCRequests -----------------------------
(***************************************************************************)
(* What is read from a request: its X-Trace-Options, the tracing mode of   *)
(* its URL, and the name of its transaction.  The three share no state, so *)
(* each is checked while the others have not begun.                        *)
(***************************************************************************)
EXTENDS XTraceOptions, TransactionNames, UrlFilters, TLC

\* X-Trace-Options: every header of up to three options out of one of each kind,
\* with timestamps in and out of the window and one that is no number.
Bare(k) == [key |-> k, found |-> FALSE, value |-> ""]
With(k, v) == [key |-> k, found |-> TRUE, value |-> v]

MCOptions == {Bare(""), Bare("trigger-trace"), With("trigger-trace", "1"), Bare("sw-keys"),
              With("sw-keys", "p"), With("sw-keys", "q"), With("ts", 1000), With("ts", 699),
              With("ts", 1300), With("ts", BadNumber), With("custom-a", "v"), With("other", "v")}
MCHeaders == UNION {[1..n -> MCOptions] : n \in 0..3}

\* Transaction names: every path of up to six tokens alone, and every order of up
\* to three attributes beside the other sources of a name, with texts that are
\* empty, blank, padded, too long or have a query.
PathTokens == {Slash, Query, Blank, "a", "b"}
MCPaths == UNION {[1..n -> PathTokens] : n \in 0..6}

From(c, l, a, s) == [config |-> c, lambda |-> l, attrs |-> a, spanName |-> s]
Attr(k, v) == [key |-> k, value |-> v]

Texts == {EmptyText, <<Blank>>, <<Blank, "w", Blank>>, <<"w", "w", "w", "w", "w", "w">>}
Values == {EmptyText, <<Blank>>, <<Slash, "a", Slash, "b", Slash, "c">>, <<"w", Query>>}
Keys == {"faas.name", "http.route", "url.path", "http.target", "other"}
Attrs == {<<>>} \cup {<<Attr(k, v)>> : k \in Keys, v \in Values}
           \cup {<<Attr(p[1], v), Attr(p[2], w)>> :
                   p \in {q \in Keys \X Keys : q[1] # q[2]}, v \in Values, w \in Values}
           \cup {<<Attr(p[1], <<"x">>), Attr(p[2], v), Attr(p[3], <<"z">>)>> :
                   p \in {q \in Keys \X Keys \X Keys : Cardinality({q[1], q[2], q[3]}) = 3}, v \in Values}

MCInputs == {From(EmptyText, EmptyText, <<Attr("url.path", p)>>, <<"span">>) : p \in MCPaths}
              \cup {From(c, l, a, s) : c \in Texts, l \in {EmptyText, <<"fn">>}, a \in Attrs, s \in Texts}

\* URL filters: two requests, two URLs and lists of up to two filters: overlapping
\* filters with different modes, an extension filter, one that matches nothing,
\* and one whose expression does not compile.
page  == [id |-> 1, ext |-> ""]
image == [id |-> 2, ext |-> "png"]
MCUrls == {page, image}
MCEmptyUrl == [id |-> 0, ext |-> ""]

Regex(s, t, b) == [kind |-> "regex", matched |-> s, extensions |-> {}, Tracing |-> t, bad |-> b]
Extension(e, t) == [kind |-> "extensions", matched |-> {}, extensions |-> {e}, Tracing |-> t, bad |-> FALSE]
MCFilters == {Regex({page, image}, "disabled", FALSE), Regex({image}, "enabled", FALSE),
              Extension("png", "disabled"), Extension("js", "enabled"), Regex({}, "enabled", TRUE)}
MCConfigs == {<<>>} \cup {<<f>> : f \in MCFilters} \cup {<<f, g>> : f, g \in MCFilters}

-----------------------------------------------------------------------------

FiltersRest == FiltersInit /\ filters = <<>>

Init == OptionsInit /\ NamesInit /\ FiltersInit

Next ==
    \/ /\ NamesInit /\ FiltersRest
       /\ OptionsNext
       /\ UNCHANGED <<namesVars, filtersVars>>
    \/ /\ OptionsInit /\ FiltersRest
       /\ NamesNext
       /\ UNCHANGED <<optionsVars, filtersVars>>
    \/ /\ OptionsInit /\ NamesInit
       /\ FiltersNext
       /\ UNCHANGED <<optionsVars, namesVars>>

Spec == Init /\ [][Next]_<<optionsVars, namesVars, filtersVars>>
=============================================================================
