------------------------------ MODULE Resource -------------------------------
(***************************************************************************)
(* The resource that Start describes the process by: createResource        *)
(* (swo/resource.go), the Kubernetes metadata behind a sync.Once           *)
(* (internal/host/k8s) and the UAMS client id (internal/uams).  A failed   *)
(* Start may be tried again; what the first one left in the environment of *)
(* the process, and in memory, is still there.                             *)
(*                                                                         *)
(* The OpenTelemetry SDK is external: resource.New runs its detectors in   *)
(* order, a later one wins, and returns their errors as one error that     *)
(* wraps them all; resource.Merge may add a schema conflict.               *)
(***************************************************************************)
EXTENDS Naturals

CONSTANTS
    Worlds,        \* what the detectors find outside the process
    KeyName,       \* the name in the service key, None without a valid key
    MaxStarts      \* bound: calls of Start

ASSUME MaxStartsAssumption == MaxStarts \in Nat

VARIABLES
    world,         \* the surroundings now
    serviceName,   \* OTEL_SERVICE_NAME
    given,         \* history: OTEL_SERVICE_NAME as the process was started
    once, memoized, \* sync.Once and the metadata it keeps
    found,         \* attributes so far
    errs,          \* kinds of the errors of resource.New
    starts,        \* calls of Start
    step,
    result,        \* what createResource returned: [attrs, err]
    memos          \* history: what the k8s detector has answered

resourceVars == <<world, serviceName, given, once, memoized, found, errs, starts, step, result, memos>>

None == ""
Fields == {"namespace", "podName", "podUid"}
NoPod == [f \in Fields |-> None]
Nothing == [service |-> None, uams |-> None, pod |-> NoPod]
Conflict == "schema conflict"
Failure == "failure"

ResourceInit ==
    /\ world \in Worlds
    /\ serviceName \in {None, "from env"}
    /\ given = serviceName
    /\ once = FALSE /\ memoized = NoPod
    /\ found = Nothing /\ errs = {}
    /\ starts = 0 /\ step = "idle"
    /\ result = [attrs |-> Nothing, err |-> {}]
    /\ memos = {}

-----------------------------------------------------------------------------
(* The detectors.                                                          *)

\* A plausible slip: the variable is always set from the key.
SetServiceNameAlways(w) ==
    /\ step = "idle" /\ starts < MaxStarts
    /\ world' = w
    /\ starts' = starts + 1
    /\ serviceName' = KeyName
    /\ found' = [Nothing EXCEPT !.service = "unknown_service"]
    /\ errs' = {}
    /\ step' = "uams"
    /\ UNCHANGED <<given, once, memoized, result, memos>>

\* Start is called; since the last call files may have appeared and variables may
\* have been set.  OTEL_SERVICE_NAME is set from the key if it is not set already.
SetServiceName(w) ==
    /\ step = "idle" /\ starts < MaxStarts
    /\ world' = w
    /\ starts' = starts + 1
    /\ serviceName' = IF KeyName # None /\ serviceName = None THEN KeyName ELSE serviceName
    /\ found' = [Nothing EXCEPT !.service = "unknown_service"]
    /\ errs' = {}
    /\ step' = "uams"
    /\ UNCHANGED <<given, once, memoized, result, memos>>

Goes(s, f) ==
    /\ found' = f
    /\ step' = s
    /\ UNCHANGED <<world, serviceName, given, starts, result>>

\* getOptionalDetectors: a detector may be disabled by an environment variable.
Optional(d) == d \notin world.disabled

\* readUamsClientId: the file, else the local endpoint; neither is no error.
DetectUams ==
    /\ step = "uams"
    /\ Goes("cloud", [found EXCEPT !.uams = IF ~ Optional("uams") THEN None
                                            ELSE IF world.uamsFile # None THEN world.uamsFile
                                            ELSE world.uamsHttp])
    /\ UNCHANGED <<once, memoized, errs, memos>>

\* The detectors of OpenTelemetry (host, container, EC2, Azure) may fail, or
\* describe what they found by another schema; the last two may be disabled.
DetectCloud(es) ==
    /\ step = "cloud"
    /\ errs' = errs \cup es
    /\ Goes("k8s", found)
    /\ UNCHANGED <<once, memoized, memos>>

\* requestMetadata, field by field: OTEL_RESOURCE_ATTRIBUTES if all of it can be
\* read, SW_K8S_*, then the namespace file, the host name and /proc; without a
\* namespace there is none.
requestMetadata(w) ==
    LET field(f) == IF w.otel[f] # None /\ ~ w.badAttributes THEN w.otel[f]
                    ELSE IF w.sw[f] # None THEN w.sw[f] ELSE w.fallback[f]
    IN  IF field("namespace") = None THEN NoPod ELSE [f \in Fields |-> field(f)]

\* MemoizeMetadata: asked once, whatever the answer was.
DetectK8s ==
    /\ step = "k8s" /\ Optional("k8s")
    /\ once' = TRUE
    /\ memoized' = IF once THEN memoized ELSE requestMetadata(world)
    /\ memos' = memos \cup {memoized'}
    /\ Goes("env", [found EXCEPT !.pod = memoized'])
    /\ UNCHANGED errs

SkipK8s ==
    /\ step = "k8s" /\ ~ Optional("k8s")
    /\ Goes("env", found)
    /\ UNCHANGED <<once, memoized, memos, errs>>

\* WithFromEnv, then the attributes given to Start.  OTEL_RESOURCE_ATTRIBUTES may
\* name the Pod again; OTEL_SERVICE_NAME is stronger than a service.name there; a
\* part that cannot be read is an error, and the others still count.
DetectEnv ==
    /\ step = "env"
    /\ errs' = IF world.badAttributes THEN errs \cup {Failure} ELSE errs
    /\ Goes("merge", [found EXCEPT
         !.pod = [f \in Fields |-> IF world.otel[f] # None THEN world.otel[f] ELSE @[f]],
         !.service =
         IF world.startName # None THEN world.startName
         ELSE IF serviceName # None THEN serviceName
         ELSE IF world.attrName # None THEN world.attrName ELSE @])
    /\ UNCHANGED <<once, memoized, memos>>

-----------------------------------------------------------------------------
(* The errors.  An error is the set of kinds that errors.Is finds in it.   *)

\* errors.Join(customResourceErrors, mergedError): its parts, without the nil ones.
Combined(merged) == {errs, IF merged THEN {Conflict} ELSE {}} \ {{}}

\* A plausible slip: only an error that is nothing but a conflict is dropped.
filterOnlyPure(parts) == {e \in parts : e # {Conflict}}

\* filterSchemaURLConflict drops every part in which errors.Is finds a conflict.
filterSchemaURLConflict(parts) == {e \in parts : Conflict \notin e}

MergeDefault(merged) ==
    LET parts    == Combined(merged)
        filtered == IF \E e \in parts : Conflict \in e
                    THEN filterSchemaURLConflict(parts) ELSE parts
    IN  /\ step = "merge"
        /\ result' = [attrs |-> found, err |-> UNION filtered]
        /\ step' = "idle"
        /\ UNCHANGED <<world, serviceName, given, once, memoized, found, errs, starts, memos>>

ResourceNext ==
    \/ \E w \in Worlds : SetServiceName(w)
    \/ DetectUams
    \/ \E es \in SUBSET {Conflict, Failure} : DetectCloud(es)
    \/ DetectK8s \/ SkipK8s \/ DetectEnv
    \/ \E m \in BOOLEAN : MergeDefault(m)

ResourceSpec == ResourceInit /\ [][ResourceNext]_resourceVars

-----------------------------------------------------------------------------
(* Properties.                                                             *)

Returned == step = "idle" /\ starts > 0

\* A difference between versions of the semantic conventions never stops the
\* agent, alone or with other errors, and a failure that met no such difference
\* is always reported.
ConflictIsNotFatal ==
    Returned => /\ Conflict \notin result.err
                /\ Failure \notin errs => result.err = {}
                /\ Failure \in errs /\ Conflict \notin errs => result.err = {Failure}

\* Trying Start again does not change who the process says it is: the name is
\* the one given to Start, else OTEL_SERVICE_NAME as the process was started,
\* else that of the key, although the first Start has written the variable; and
\* the k8s detector never contradicts itself, whatever happens between two Starts.
IdentityIsStable ==
    /\ Returned /\ world.startName = None =>
         /\ given # None => result.attrs.service = given
         /\ (given = None /\ KeyName # None) => result.attrs.service = KeyName
    /\ \A p, q \in memos : p = q

==============================================================================
