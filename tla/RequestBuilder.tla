--------------------------- MODULE RequestBuilder ---------------------------
(***************************************************************************)
(* The request-builder tree under v1/: builders mirror the URL hierarchy,  *)
(* a property accessor returns a child builder over the SAME path-         *)
(* parameter dict, by_<item>_id copies the dict (get_path_parameters) and  *)
(* adds one key, with_url starts over from a raw URL, and                  *)
(* to_<method>_request_information turns a builder into a request          *)
(* descriptor.                                                             *)
(*                                                                         *)
(* Path-parameter dicts live in a heap `store` indexed by reference, so    *)
(* that sharing a dict and copying it are different things in the model.  *)
(* The builder constructor (BaseRequestBuilder, in kiota_abstractions)     *)
(* keeps the dict it is given; a raw URL string becomes a one-key dict.    *)
(* The template expansion of RequestInformation (also kiota) is modelled   *)
(* from its contract: a raw URL wins over the template, and only query     *)
(* names the template lists reach the URL.                                 *)
(***************************************************************************)
EXTENDS Integers, Sequences, FiniteSets, TLC

CONSTANTS
    Ids,          \* item ids a caller passes to by_<item>_id
    RawUrls,      \* URLs a caller passes to with_url
    None,         \* Python None
    MaxBuilders   \* bound on the number of builders (and dicts) created

ASSUME MaxBuilders \in Nat \ {0} /\ None \notin Ids \cup RawUrls

RawUrlKey == "request-raw-url"

-----------------------------------------------------------------------------
(* The generated tree, one record per builder class: the path variables    *)
(* and the {?...} query block of its url_template, its property accessors  *)
(* (property -> child kind), its by_<item>_id indexer, whether it defines   *)
(* with_url, its request methods and the Accept header they set.  Kinds    *)
(* whose class file is not in the repository are Opaque: they can be      *)
(* reached but have no operation that is modelled.                         *)

NoIndexer == [key |-> None, child |-> None]
Builder(vars, query, props, indexer, withUrl, methods, accept) ==
    [vars |-> vars, query |-> query, props |-> props, indexer |-> indexer,
     withUrl |-> withUrl, methods |-> methods, accept |-> accept]
NoProps == [p \in {} |-> None]
Opaque == Builder({}, {}, NoProps, NoIndexer, FALSE, {}, None)
JSON == "application/json"

\* v1/v1_request_builder.py
V1RequestBuilder ==
    Builder({}, {},
            [deployments |-> "Deployments", errors |-> "Errors", exceptions |-> "Exceptions",
             logs |-> "Logs", metrics |-> "Metrics", pipelines |-> "Pipelines",
             services |-> "Services", sessions |-> "Sessions", stream |-> "Stream",
             traces |-> "Traces"], NoIndexer, FALSE, {}, None)

\* v1/deployments/deployments_request_builder.py
DeploymentsRequestBuilder ==
    Builder({}, {"cursor", "endTime", "environment", "limit", "serviceName", "startTime", "status"},
            [metrics |-> "DeploymentsMetrics"],
            [key |-> "deploymentId", child |-> "DeploymentItem"], TRUE, {"GET", "POST"}, JSON)

\* v1/deployments/item/with_deployment_item_request_builder.py
WithDeploymentItemRequestBuilder ==
    Builder({"deploymentId"}, {}, NoProps, NoIndexer, TRUE, {"GET", "PATCH"}, JSON)

\* v1/errors/errors_request_builder.py
ErrorsRequestBuilder ==
    Builder({}, {"category", "cursor", "endTime", "limit", "serviceName", "startTime", "status"},
            [stats |-> "ErrorsStats"], [key |-> "errorId", child |-> "ErrorItem"],
            TRUE, {"GET"}, JSON)

\* v1/exceptions/exceptions_request_builder.py
ExceptionsRequestBuilder ==
    Builder({}, {"cursor", "endTime", "exceptionType", "limit", "serviceName", "startTime",
                 "status"},
            [stats |-> "ExceptionsStats"], NoIndexer, TRUE, {"GET"}, JSON)

\* v1/metrics/metrics_request_builder.py
MetricsRequestBuilder ==
    Builder({}, {"cursor", "limit", "namePattern", "serviceName"},
            [query |-> "MetricsQuery"], [key |-> "metricName", child |-> "MetricItem"],
            TRUE, {"GET"}, JSON)

\* v1/services/services_request_builder.py
ServicesRequestBuilder ==
    Builder({}, {"cursor", "limit", "namespaceName"}, NoProps,
            [key |-> "serviceName", child |-> "ServiceItem"], TRUE, {"GET"}, JSON)

\* v1/sessions/sessions_request_builder.py
SessionsRequestBuilder ==
    Builder({}, {"cursor", "endTime", "isActive", "limit", "startTime", "userId"},
            [stats |-> "SessionsStats"], [key |-> "sessionId", child |-> "SessionItem"],
            TRUE, {"GET"}, JSON)

\* v1/stream/stream_request_builder.py
StreamRequestBuilder ==
    Builder({}, {},
            [deployments |-> "StreamDeployments", events |-> "StreamEvents",
             exceptions |-> "StreamExceptions", logs |-> "StreamLogs",
             metrics |-> "StreamMetrics", traces |-> "StreamTraces"],
            NoIndexer, FALSE, {}, None)

\* v1/stream/traces/traces_request_builder.py
TracesRequestBuilder ==
    Builder({}, {"minDurationMs", "serviceName"}, NoProps,
            [key |-> "traceId", child |-> "TraceItem"], TRUE, {"GET"}, "text/event-stream")

\* v1/stream/traces/item/with_trace_item_request_builder.py
WithTraceItemRequestBuilder ==
    Builder({"traceId"}, {}, [spans |-> "TraceSpans"], NoIndexer, FALSE, {}, None)

\* The <Kind>RequestBuilderGetQueryParameters dataclasses: their fields and
\* the renamings of get_query_parameter (other names fall through).
NoRenames == [f \in {} |-> f]
DeploymentsGetQueryParameters ==
    [fields |-> {"cursor", "end_time", "environment", "limit", "service_name", "start_time",
                 "status"},
     renames |-> [end_time |-> "endTime", service_name |-> "serviceName",
                  start_time |-> "startTime"]]
ErrorsGetQueryParameters ==
    [fields |-> {"category", "cursor", "end_time", "limit", "service_name", "start_time",
                 "status"},
     renames |-> [end_time |-> "endTime", service_name |-> "serviceName",
                  start_time |-> "startTime"]]
ExceptionsGetQueryParameters ==
    [fields |-> {"cursor", "end_time", "exception_type", "limit", "service_name",
                 "start_time", "status"},
     renames |-> [end_time |-> "endTime", exception_type |-> "exceptionType",
                  service_name |-> "serviceName", start_time |-> "startTime"]]
MetricsGetQueryParameters ==
    [fields |-> {"cursor", "limit", "name_pattern", "service_name"},
     renames |-> [name_pattern |-> "namePattern", service_name |-> "serviceName"]]
ServicesGetQueryParameters ==
    [fields |-> {"cursor", "limit", "namespace_name"},
     renames |-> [namespace_name |-> "namespaceName"]]
SessionsGetQueryParameters ==
    [fields |-> {"cursor", "end_time", "is_active", "limit", "start_time", "user_id"},
     renames |-> [end_time |-> "endTime", is_active |-> "isActive",
                  start_time |-> "startTime", user_id |-> "userId"]]
TracesGetQueryParameters ==
    [fields |-> {"min_duration_ms", "service_name"},
     renames |-> [min_duration_ms |-> "minDurationMs", service_name |-> "serviceName"]]

Classes ==
    [k \in {"Logs", "Pipelines", "Traces", "DeploymentsMetrics", "ErrorItem", "ErrorsStats",
            "ExceptionsStats", "MetricItem", "MetricsQuery", "ServiceItem", "SessionItem",
            "SessionsStats", "StreamDeployments", "StreamEvents", "StreamExceptions",
            "StreamLogs", "StreamMetrics", "TraceSpans"} |-> Opaque]
    @@ [V1 |-> V1RequestBuilder, Deployments |-> DeploymentsRequestBuilder,
        DeploymentItem |-> WithDeploymentItemRequestBuilder,
        Errors |-> ErrorsRequestBuilder, Exceptions |-> ExceptionsRequestBuilder,
        Metrics |-> MetricsRequestBuilder, Services |-> ServicesRequestBuilder,
        Sessions |-> SessionsRequestBuilder, Stream |-> StreamRequestBuilder,
        StreamTraces |-> TracesRequestBuilder, TraceItem |-> WithTraceItemRequestBuilder]

QueryParameters ==
    [Deployments |-> DeploymentsGetQueryParameters, Errors |-> ErrorsGetQueryParameters,
     Exceptions |-> ExceptionsGetQueryParameters, Metrics |-> MetricsGetQueryParameters,
     Services |-> ServicesGetQueryParameters, Sessions |-> SessionsGetQueryParameters,
     StreamTraces |-> TracesGetQueryParameters]

Kinds == DOMAIN Classes

\* A get_query_parameter that lacks its start_time branch.
GetQueryParameterNoStartTime(k, name) ==
    LET r == QueryParameters[k].renames
    IN  IF name \in DOMAIN r /\ name # "start_time" THEN r[name] ELSE name

\* <Kind>RequestBuilderGetQueryParameters.get_query_parameter.
GetQueryParameter(k, name) ==
    LET r == QueryParameters[k].renames
    IN  IF name \in DOMAIN r THEN r[name] ELSE name

IsWrite(m) == m \in {"POST", "PATCH"}

-----------------------------------------------------------------------------
VARIABLES
    store,     \* reference -> path-parameter dict (key -> value); None if free
    builders,  \* the builders created so far, in creation order
    req,       \* the last request descriptor built, or None
    raised     \* the last call raised TypeError on a None argument

vars == <<store, builders, req, raised>>

Refs == 1..MaxBuilders
Keys == {"deploymentId", "errorId", "metricName", "serviceName", "sessionId",
         "traceId", RawUrlKey}
Dict == UNION {[D -> Ids \cup RawUrls] : D \in SUBSET Keys}

\* A builder: its kind, the dict it references, and the id passed to
\* by_<item>_id (None otherwise).
BuilderRecord == [kind : Kinds, ref : Refs, id : Ids \cup {None}]

\* The URL of a descriptor: the raw URL if the dict has one, else the
\* template with its path variables bound (None when unbound) and the query
\* names the template lists.
Url(k, d, names) ==
    IF RawUrlKey \in DOMAIN d
    THEN [raw |-> d[RawUrlKey], kind |-> k, vars |-> <<>>, query |-> {}]
    ELSE [raw |-> None, kind |-> k,
          vars |-> [v \in Classes[k].vars |-> IF v \in DOMAIN d THEN d[v] ELSE None],
          query |-> names \cap Classes[k].query]

EmptyDict == [x \in {} |-> None]

Init ==
    /\ store = [r \in Refs |-> IF r = 1 THEN EmptyDict ELSE None]
    /\ builders = <<[kind |-> "V1", ref |-> 1, id |-> None]>>
    /\ req = None
    /\ raised = FALSE

NewBuilder(kind, ref, id) == [kind |-> kind, ref |-> ref, id |-> id]
FreeRef == Len(builders) + 1

\* A property accessor: Child(self.request_adapter, self.path_parameters).
Navigate(b, p) ==
    /\ Len(builders) < MaxBuilders
    /\ builders' = Append(builders, NewBuilder(Classes[b.kind].props[p], b.ref, None))
    /\ UNCHANGED <<store, req, raised>>

\* by_<item>_id writing into the parent's dict instead of a copy of it.
ByItemIdInPlace(b, id) ==
    /\ id # None
    /\ Len(builders) < MaxBuilders
    /\ store' = [store EXCEPT ![b.ref] = (Classes[b.kind].indexer.key :> id) @@ store[b.ref]]
    /\ builders' = Append(builders, NewBuilder(Classes[b.kind].indexer.child, b.ref, id))
    /\ raised' = FALSE
    /\ UNCHANGED req

\* by_<item>_id without its "if x is None: raise TypeError" check.
ByItemIdUnchecked(b, id) ==
    /\ Len(builders) < MaxBuilders
    /\ store' = [store EXCEPT ![FreeRef] = (Classes[b.kind].indexer.key :> id) @@ store[b.ref]]
    /\ builders' = Append(builders, NewBuilder(Classes[b.kind].indexer.child, FreeRef, id))
    /\ raised' = FALSE
    /\ UNCHANGED req

\* by_<item>_id(id): reject None, copy the dict, add the key, build the child.
ByItemId(b, id) ==
    \/ /\ id = None
       /\ raised' = TRUE
       /\ UNCHANGED <<store, builders, req>>
    \/ /\ id # None
       /\ Len(builders) < MaxBuilders
       /\ store' = [store EXCEPT ![FreeRef] = (Classes[b.kind].indexer.key :> id) @@ store[b.ref]]
       /\ builders' = Append(builders, NewBuilder(Classes[b.kind].indexer.child, FreeRef, id))
       /\ raised' = FALSE
       /\ UNCHANGED req

\* with_url(raw_url): reject None, else a builder of the same kind over a
\* fresh one-key dict.
WithUrl(b, u) ==
    \/ /\ u = None
       /\ raised' = TRUE
       /\ UNCHANGED <<store, builders, req>>
    \/ /\ u # None
       /\ Len(builders) < MaxBuilders
       /\ store' = [store EXCEPT ![FreeRef] = (RawUrlKey :> u)]
       /\ builders' = Append(builders, NewBuilder(b.kind, FreeRef, None))
       /\ raised' = FALSE
       /\ UNCHANGED req

\* to_<m>_request_information(config[, body]) with the query fields the
\* caller set; a write method rejects a None body before building anything.
ToRequestInformation(i, m, set, body) ==
    LET b == builders[i] IN
    \/ /\ IsWrite(m) /\ body = None
       /\ raised' = TRUE
       /\ UNCHANGED <<store, builders, req>>
    \/ /\ ~IsWrite(m) \/ body # None
       /\ req' = [from |-> i, method |-> m, accept |-> Classes[b.kind].accept,
                  set |-> set, body |-> IsWrite(m),
                  url |-> Url(b.kind, store[b.ref], {GetQueryParameter(b.kind, f) : f \in set})]
       /\ raised' = FALSE
       /\ UNCHANGED <<store, builders>>

\* The query fields a caller sets: none, any one, or all of them.
Settable(k, m) ==
    IF m = "GET" /\ k \in DOMAIN QueryParameters
    THEN LET F == QueryParameters[k].fields IN {{}} \cup {{f} : f \in F} \cup {F}
    ELSE {{}}

Next ==
    \E i \in DOMAIN builders :
        LET b == builders[i] IN
        \/ \E p \in DOMAIN Classes[b.kind].props : Navigate(b, p)
        \/ Classes[b.kind].indexer # NoIndexer /\ \E id \in Ids \cup {None} : ByItemId(b, id)
        \/ Classes[b.kind].withUrl /\ \E u \in RawUrls \cup {None} : WithUrl(b, u)
        \/ \E m \in Classes[b.kind].methods :
              \E set \in Settable(b.kind, m) : \E body \in {"body", None} :
                  ToRequestInformation(i, m, set, body)

Spec == Init /\ [][Next]_vars

TypeOK ==
    /\ store \in [Refs -> Dict \cup {None}]
    /\ builders \in Seq(BuilderRecord) /\ Len(builders) <= MaxBuilders
    /\ raised \in BOOLEAN

-----------------------------------------------------------------------------
\* Spec 8, query translation: every query field the caller set reaches the
\* URL of a template descriptor, none silently dropped (get_query_parameter's
\* renaming has to land on a name of the template's {?...} block).
FiltersReachWire ==
    (req # None /\ req.url.raw = None) => Cardinality(req.url.query) = Cardinality(req.set)

\* Spec 4.4: by_<item>_id returns a builder "scoped one path segment
\* deeper", so a descriptor of an item builder addresses the item, not
\* whatever raw URL its parent was given by with_url.
ItemRequestAddressesItem ==
    (req # None /\ builders[req.from].id # None) => req.url.raw = None

=============================================================================
