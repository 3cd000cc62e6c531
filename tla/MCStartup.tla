----------------------------- MODULE MCStartup ------------------------------
(***************************************************************************)
(* What a process goes through before it can report: loading its           *)
(* configuration, describing itself, dialling its collector.  The three    *)
(* share no state in these models, so each is checked while the others     *)
(* have not begun.                                                         *)
(***************************************************************************)
EXTENDS Config, Resource, ProxyDialer, TLC

\* Configuration: one or two fields given by each source, every field by some
\* source: a value that is fine, one that validate repairs or refuses, one that
\* cannot be read.
Filter(t, r, x) == [type |-> "url", tracing |-> t, regex |-> r, extensions |-> x]

\* What a file or a variable may give a scalar field.
Values == [
    Collector |-> {Addr("host", 443), Addr("host", NoPort), Addr("[v6]", 443), Addr("[v6]", NoPort),
                   Addr("too:many:colons", NoPort)},
    ServiceKey |-> {Key("token64", <<"my-svc">>), Key("token64", <<"My Svc">>), Key("token64", <<"%%">>),
                    Key("token64", <<"a", "b">>), Key("short", <<"my-svc">>), Key("other", <<>>),
                    Key("token64", <<"too long">>)},
    Proxy |-> {"proxy", "user:password@proxy"},
    Precision |-> {3},
    Enabled |-> {FALSE, TRUE},
    Ec2MetadataTimeout |-> {0, 3000, 3001},
    DebugLevel |-> {"info", "loud"},
    TokenBucketCap |-> {-1, 0, 4, 9},
    TransactionName |-> {"checkout"}]

Single == UNION {{x :> v : v \in Values[x]} : x \in DOMAIN Values}

Samplings == {<<>>, "TracingMode" :> "never", "TracingMode" :> "bogus", "TracingMode" :> "Invalid",
              "SampleRate" :> 0, "SampleRate" :> -1, "SampleRate" :> 1000001,
              ("SampleRate" :> 5) @@ ("TracingMode" :> "disabled")}

Yaml(s, b) == [kind |-> "yaml", sets |-> s, bad |-> b]

MCFiles ==
    {NoFile, [NoFile EXCEPT !.kind = "unusable"]}
        \cup {Yaml(s, FALSE) : s \in Single}
        \cup {Yaml("Sampling" :> s, b) : s \in Samplings \cup {Nil}, b \in BOOLEAN}
        \cup {Yaml("Reporter" :> r, b) : r \in {Nil, 5}, b \in BOOLEAN}
        \cup {Yaml("SettingsURL" :> "elsewhere", FALSE)}
        \cup {Yaml("TransactionSettings" :> <<f>>, FALSE) :
                f \in {Filter("enabled", TRUE, FALSE), Filter("disabled", FALSE, TRUE),
                       Filter("bogus", TRUE, FALSE), Filter("enabled", TRUE, TRUE)}}

MCEnvs ==
    {<<>>} \cup Single
        \cup {x :> Unparsable : x \in {"Precision", "Enabled", "SampleRate", "TokenBucketCap"}}
        \cup {"TracingMode" :> m : m \in {"always", "never", "bogus"}}
        \cup {"SampleRate" :> r : r \in {0, 1000000, 1000001, -1}}
        \cup {("SampleRate" :> 7) @@ ("TracingMode" :> "disabled"), "EventFlushInterval" :> 3}

MCOptions ==
    {<<>>, "Collector" :> Addr("option", 443), "Collector" :> Addr("", NoPort),
     "ServiceKey" :> Key("token64", <<"option">>), "ServiceKey" :> Key("other", <<"option">>)}

\* Resource: three calls of Start in surroundings that differ in one or two of
\* the things that the detectors look at.
Meta(n, p, u) == [namespace |-> n, podName |-> p, podUid |-> u]
World == [uamsFile |-> None, uamsHttp |-> None, otel |-> Meta(None, None, None),
          sw |-> Meta(None, None, None), fallback |-> Meta(None, "host", None),
          badAttributes |-> FALSE, disabled |-> {}, startName |-> None, attrName |-> None]
MCWorlds == {
    World,
    [World EXCEPT !.uamsFile = "id 1", !.uamsHttp = "id 2", !.fallback.namespace = "file"],
    [World EXCEPT !.uamsHttp = "id 2", !.sw = Meta("sw", None, "sw uid"), !.otel.podName = "otel pod"],
    [World EXCEPT !.otel = Meta("otel", None, "otel uid"), !.sw = Meta("sw", "sw pod", "sw uid")],
    [World EXCEPT !.badAttributes = TRUE, !.attrName = "attribute",
                  !.otel = Meta("otel", None, "otel uid"), !.sw = Meta("sw", "sw pod", "sw uid")],
    [World EXCEPT !.disabled = {"uams", "k8s"}, !.uamsFile = "id 1", !.sw = Meta("sw", None, None)],
    [World EXCEPT !.attrName = "attribute"],
    [World EXCEPT !.startName = "start"]}

\* Dialer: every kind of proxy setting.
MCProxies == [scheme : {"http", "https", "other"}, cert : {"readable", "unreadable"}]

-----------------------------------------------------------------------------

ConfigRests == ConfigInit /\ ~ lambda
ResourceRests == ResourceInit /\ world = World /\ given = None
DialerRests == DialerInit /\ proxy = [scheme |-> "http", cert |-> "readable"]

Init == ConfigInit /\ ResourceInit /\ DialerInit

Next ==
    \/ /\ ResourceRests /\ DialerRests
       /\ ConfigNext
       /\ UNCHANGED <<resourceVars, dialerVars>>
    \/ /\ ConfigRests /\ DialerRests
       /\ ResourceNext
       /\ UNCHANGED <<configVars, dialerVars>>
    \/ /\ ConfigRests /\ ResourceRests
       /\ DialerNext
       /\ UNCHANGED <<configVars, resourceVars>>

Spec == Init /\ [][Next]_<<configVars, resourceVars, dialerVars>>
=============================================================================
