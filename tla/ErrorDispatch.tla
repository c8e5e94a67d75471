--------------------------- MODULE ErrorDispatch ---------------------------
(***************************************************************************)
(* The async request methods of the builders (get, post, patch) and what  *)
(* becomes of their exchanges.  A method runs without suspension up to    *)
(* its single await: it checks its body, builds the descriptor, declares  *)
(* its error_mapping, checks the request adapter and hands the request to *)
(* send_async (send_primitive_async for the byte stream).  Several calls  *)
(* may be awaiting at once, and the transport answers them in any order.  *)
(*                                                                         *)
(* send_async and the transport are kiota's and are modelled from the    *)
(* spec's contract (4.5): a 2xx answer is decoded as the declared success *)
(* type (204 gives None); a status found in the error mapping raises that *)
(* class carrying the status; any other status, or no mapping at all,     *)
(* raises the generic APIError.  The byte-stream call returns one bytes    *)
(* value, so it resolves only once the response body has ended.           *)
(***************************************************************************)
EXTENDS Integers, FiniteSets, TLC

CONSTANTS
    Calls,      \* concurrent calls a caller makes
    Statuses,   \* HTTP status codes the server may answer with
    None,       \* Python None
    MaxChunks   \* bound on the event chunks a stream delivers

ASSUME MaxChunks \in Nat /\ Statuses \subseteq 100..599

-----------------------------------------------------------------------------
(* One record per request method: the builder kind and HTTP method, the   *)
(* success type passed to send_async, the error_mapping dict it declares  *)
(* (None where it passes none), whether it takes a body, and whether its   *)
(* result is the raw byte stream.                                          *)

Operation(kind, method, success, errors, write, stream) ==
    [kind |-> kind, method |-> method, success |-> success, errors |-> errors,
     write |-> write, stream |-> stream]

BadRequestOrServer == [s \in {"400", "500"} |-> IF s = "400" THEN "ValidationError"
                                                            ELSE "InternalServerError"]
ServerOnly == "500" :> "InternalServerError"

\* DeploymentsRequestBuilder.get
DeploymentsGet ==
    Operation("Deployments", "GET", "DeploymentsGetResponse", BadRequestOrServer, FALSE, FALSE)
\* DeploymentsRequestBuilder.post
DeploymentsPost ==
    Operation("Deployments", "POST", "DeploymentEntity", BadRequestOrServer, TRUE, FALSE)
\* WithDeploymentItemRequestBuilder.get with the list's error_mapping.
DeploymentItemGetListMapping ==
    Operation("DeploymentItem", "GET", "DeploymentEntity", BadRequestOrServer, FALSE, FALSE)
\* WithDeploymentItemRequestBuilder.get
DeploymentItemGet ==
    Operation("DeploymentItem", "GET", "DeploymentEntity",
              ("404" :> "NotFoundError") @@ ServerOnly, FALSE, FALSE)
\* WithDeploymentItemRequestBuilder.patch
DeploymentItemPatch ==
    Operation("DeploymentItem", "PATCH", "DeploymentEntity",
              ("404" :> "NotFoundError") @@ BadRequestOrServer, TRUE, FALSE)
\* ErrorsRequestBuilder.get
ErrorsGet ==
    Operation("Errors", "GET", "ErrorsGetResponse", BadRequestOrServer, FALSE, FALSE)
\* ExceptionsRequestBuilder.get with its two error classes swapped.
ExceptionsGetSwapped ==
    Operation("Exceptions", "GET", "ExceptionsGetResponse",
              ("400" :> "InternalServerError") @@ ("500" :> "ValidationError"), FALSE, FALSE)
\* ExceptionsRequestBuilder.get
ExceptionsGet ==
    Operation("Exceptions", "GET", "ExceptionsGetResponse", BadRequestOrServer, FALSE, FALSE)
\* MetricsRequestBuilder.get mapping 500 to its success type.
MetricsGetSuccessAsError ==
    Operation("Metrics", "GET", "MetricsGetResponse", "500" :> "MetricsGetResponse", FALSE, FALSE)
\* MetricsRequestBuilder.get
MetricsGet ==
    Operation("Metrics", "GET", "MetricsGetResponse", ServerOnly, FALSE, FALSE)
\* ServicesRequestBuilder.get
ServicesGet ==
    Operation("Services", "GET", "ServicesGetResponse", ServerOnly, FALSE, FALSE)
\* SessionsRequestBuilder.get
SessionsGet ==
    Operation("Sessions", "GET", "SessionsGetResponse", BadRequestOrServer, FALSE, FALSE)
\* TracesRequestBuilder.get (the live trace stream)
StreamTracesGet ==
    Operation("StreamTraces", "GET", "bytes", None, FALSE, TRUE)

Operations ==
    {DeploymentsGet, DeploymentsPost, DeploymentItemGet, DeploymentItemPatch, ErrorsGet,
     ExceptionsGet, MetricsGet, ServicesGet, SessionsGet, StreamTracesGet}

IsSuccess(s) == s \in 200..299

-----------------------------------------------------------------------------
VARIABLES
    adapter,  \* the builders' request_adapter is set (not None)
    call,     \* call -> its state
    sent      \* the calls whose request reached the transport

vars == <<adapter, call, sent>>

\* The error classes (APIError subclasses) the mappings name.
ErrorClasses == {"ValidationError", "NotFoundError", "InternalServerError"}

Outcome ==
    [kind : {"value", "bytes", "typed", "APIError", "TypeError", "Exception", "TransportError"},
     cls : {None} \cup ErrorClasses \cup {o.success : o \in Operations},
     status : Statuses \cup {None}]

\* idle: not made yet; awaiting: sent, no answer; streaming: 2xx stream
\* with an open body; answered: status and complete body received;
\* done: the call returned or raised.
CallState ==
    [phase : {"idle", "awaiting", "streaming", "answered", "done"},
     op : Operations \cup {None}, body : {"body", None}, status : Statuses \cup {None},
     chunks : 0..MaxChunks, outcome : Outcome \cup {None}]

Idle == [phase |-> "idle", op |-> None, body |-> None, status |-> None, chunks |-> 0, outcome |-> None]

Init ==
    /\ adapter \in BOOLEAN
    /\ call = [c \in Calls |-> Idle]
    /\ sent = {}

Raise(kind, status) == [kind |-> kind, cls |-> None, status |-> status]

\* A post/patch without its "if body is None: raise TypeError" check.
InvokeNoBodyCheck(c, o, body) ==
    LET Start(phase, outcome) ==
            call' = [call EXCEPT ![c] = [@ EXCEPT !.phase = phase, !.op = o, !.body = body,
                                                  !.outcome = outcome]]
    IN
    /\ call[c].phase = "idle"
    /\ \/ /\ ~adapter
          /\ Start("done", Raise("Exception", None))
          /\ UNCHANGED sent
       \/ /\ adapter
          /\ Start("awaiting", None)
          /\ sent' = sent \cup {c}
    /\ UNCHANGED adapter

\* The method up to its await, with every body a caller could pass.
\* post/patch raise TypeError on a None body before building anything;
\* then, after the descriptor and the error_mapping, every method raises
\* Exception("Http core is null") without a request adapter; otherwise the
\* request goes to the transport.
Invoke(c, o, body) ==
    LET Start(phase, outcome) ==
            call' = [call EXCEPT ![c] = [@ EXCEPT !.phase = phase, !.op = o, !.body = body,
                                                  !.outcome = outcome]]
    IN
    /\ call[c].phase = "idle"
    /\ \/ /\ o.write /\ body = None
          /\ Start("done", Raise("TypeError", None))
          /\ UNCHANGED sent
       \/ /\ ~o.write \/ body # None
          /\ ~adapter
          /\ Start("done", Raise("Exception", None))
          /\ UNCHANGED sent
       \/ /\ ~o.write \/ body # None
          /\ adapter
          /\ Start("awaiting", None)
          /\ sent' = sent \cup {c}
    /\ UNCHANGED adapter

\* The server answers with a status.  A 2xx answer to the stream opens a
\* body that stays open while events flow; every other body is complete.
Respond(c, s) ==
    /\ call[c].phase = "awaiting"
    /\ call' = [call EXCEPT ![c].status = s,
                            ![c].phase = IF call[c].op.stream /\ IsSuccess(s)
                                         THEN "streaming" ELSE "answered"]
    /\ UNCHANGED <<adapter, sent>>

\* A connection error or timeout of the transport ends the exchange.
Fail(c) ==
    /\ call[c].phase \in {"awaiting", "streaming"}
    /\ call' = [call EXCEPT ![c].phase = "done", ![c].outcome = Raise("TransportError", None)]
    /\ UNCHANGED <<adapter, sent>>

\* The server sends one more event on an open stream.
Chunk(c) ==
    /\ call[c].phase = "streaming"
    /\ call[c].chunks < MaxChunks
    /\ call' = [call EXCEPT ![c].chunks = @ + 1]
    /\ UNCHANGED <<adapter, sent>>

\* The server ends the stream body.
Close(c) ==
    /\ call[c].phase = "streaming"
    /\ call' = [call EXCEPT ![c].phase = "answered"]
    /\ UNCHANGED <<adapter, sent>>

\* The error class the mapping declares for a status, looked up by its
\* decimal string as send_async does (str(status_code)); None if none.
ErrorClass(o, s) ==
    IF o.errors # None /\ ToString(s) \in DOMAIN o.errors THEN o.errors[ToString(s)] ELSE None

\* send_async after the await: raise the mapped class for a failed status,
\* the generic APIError for an unmapped one; return None for 204, the raw
\* bytes for the stream, the decoded success type otherwise.
Dispatch(c) ==
    LET x == call[c]
        e == ErrorClass(x.op, x.status)
        result ==
            CASE ~IsSuccess(x.status) /\ e # None -> [kind |-> "typed", cls |-> e, status |-> x.status]
              [] ~IsSuccess(x.status) -> Raise("APIError", x.status)
              [] x.status = 204 -> [kind |-> "value", cls |-> None, status |-> x.status]
              [] x.op.stream -> [kind |-> "bytes", cls |-> x.op.success, status |-> x.status]
              [] OTHER -> [kind |-> "value", cls |-> x.op.success, status |-> x.status]
    IN
    /\ x.phase = "answered"
    /\ call' = [call EXCEPT ![c].phase = "done", ![c].outcome = result]
    /\ UNCHANGED <<adapter, sent>>

Bodies(o) == IF o.write THEN {"body", None} ELSE {None}

Transport(c) == (\E s \in Statuses : Respond(c, s)) \/ Fail(c)

Next ==
    \E c \in Calls :
        \/ \E o \in Operations : \E body \in Bodies(o) : Invoke(c, o, body)
        \/ Transport(c)
        \/ Chunk(c)
        \/ Close(c)
        \/ Dispatch(c)

\* The transport's timeouts end every exchange that awaits its answer;
\* send_async continues as soon as its answer is complete; a server keeps
\* sending events on a stream it has opened.  Nothing makes a server
\* close an event stream.
Fairness ==
    \A c \in Calls :
        /\ WF_vars(call[c].phase = "awaiting" /\ Transport(c))
        /\ WF_vars(Dispatch(c))
        /\ WF_vars(Chunk(c))

Spec == Init /\ [][Next]_vars /\ Fairness

TypeOK ==
    /\ adapter \in BOOLEAN
    /\ call \in [Calls -> CallState]
    /\ \A c \in Calls : call[c].outcome \in Outcome /\ call[c].outcome.kind = "typed"
          => call[c].outcome.cls \in ErrorClasses
    /\ sent \subseteq Calls

-----------------------------------------------------------------------------
\* Spec 7, "decode-time violations throw synchronously before any network
\* effect": a call that raised TypeError (a None body to post/patch) or
\* "Http core is null" never reached the transport, and every write that
\* reached it carried a body.  This is the order of the checks in each
\* method before its await.
ContractViolationsBeforeSend ==
    \A c \in Calls :
        /\ call[c].outcome \in Outcome /\ call[c].outcome.kind \in {"TypeError", "Exception"}
              => c \notin sent
        /\ c \in sent => (call[c].op.write => call[c].body # None)

\* Spec 6 and 7: the failure classes by status (400 validation, 404 not
\* found, 500 server failure).
Taxonomy == ("400" :> "ValidationError") @@ ("404" :> "NotFoundError")
                 @@ ("500" :> "InternalServerError")

\* Whatever operation a call made and in whatever order the concurrent
\* answers arrived, a typed error it raises carries the status its own
\* exchange received and is the class the spec's taxonomy gives that
\* status: the error_mapping tables of all ten methods agree with each
\* other and with spec 6.
TypedErrorsFollowTaxonomy ==
    \A c \in Calls :
        LET x == call[c] IN
        (x.outcome \in Outcome /\ x.outcome.kind = "typed")
            => /\ x.outcome.status = x.status
               /\ ToString(x.status) \in DOMAIN Taxonomy
               /\ x.outcome.cls = Taxonomy[ToString(x.status)]

\* Spec 8, error dispatch: a 404 answer to GET (or PATCH)
\* /v1/deployments/{id} raises NotFoundError carrying 404, from the item
\* builder's error_mapping.
ItemNotFoundTyped ==
    \A c \in Calls :
        LET x == call[c] IN
        (x.phase = "done" /\ x.op.kind = "DeploymentItem" /\ x.status = 404)
            => x.outcome = [kind |-> "typed", cls |-> "NotFoundError", status |-> 404]

\* Spec 7, taxonomy (4): a 500 answer is a ServerFailure carrying a support
\* error code, i.e. it raises InternalServerError, for every operation.
ServerFailureTyped ==
    \A c \in Calls :
        (call[c].phase = "done" /\ call[c].status = 500)
            => call[c].outcome.cls = "InternalServerError"

\* Spec 4.5 and 5: a streaming operation forwards an ongoing sequence of
\* byte chunks the caller consumes as they come; so an event the server has
\* sent on an open stream eventually reaches the caller of
\* TracesRequestBuilder.get.
StreamEventsReachCaller ==
    \A c \in Calls :
        (call[c].phase = "streaming" /\ call[c].chunks > 0)
            ~> (call[c].outcome \in Outcome /\ call[c].outcome.kind = "bytes")

=============================================================================
