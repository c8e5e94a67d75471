# TLA+ models of the qyl Python client

The code under `src/core/generated/python` is a Kiota-generated client SDK for
the qyl observability REST API. It has no threads and no state of its own
beyond the objects a caller holds. What it does is:

- turn a chain of builder calls into a request descriptor;
- encode request bodies and decode response bodies through a uniform model
  contract;
- resolve untagged union values;
- pick a typed error class by HTTP status.

The network, the HTTP client and the JSON parse node and writer are provided
by `kiota_abstractions`, `kiota_serialization_json` and `kiota_http`, which
are not in this repository.

## Inventory

| Part (spec §2) | Code | State | Operations | What is hard |
|---|---|---|---|---|
| Composed-Value Resolver | `models/qyl/common/attribute_value.py` | the eight optional representations of `AttributeValue` | `create_from_discriminator_value`, construction, `serialize` | truthiness chains; getter order (float before int) |
| Model Contract | every `AdditionalDataHolder, Parsable` class under `models/` and `v1/services/services_get_response.py` (43 classes) | dataclass fields and `additional_data` | `create_from_discriminator_value` plus field assignment, `serialize`, construction | wire names (dotted OpenTelemetry names) in two tables that must agree; non-None defaults; `additional_data` keys that collide with fields |
| Request Descriptor Builder | `v1/**/…_request_builder.py` (11 builder classes) | `path_parameters` dict and `url_template` of each builder | property accessors, `by_<item>_id`, `with_url`, `to_<method>_request_information` | dicts shared by accessors and copied by indexers; raw URL against template; snake_case to camelCase query names |
| Error/Response Dispatcher | `get`/`post`/`patch` of each builder (the `error_mapping` dicts, `send_async`, `send_primitive_async`) | the calls awaiting an answer | a call up to its await, the answer, the dispatch | concurrent calls answered out of order; checks before the send; status to class per operation; streaming has no mapping and returns one `bytes` |
| Enum Codec | the 24 `(str, Enum)` classes | none | decode a wire string, write `.value` | unknown wire values (spec §9 leaves this open) |
| Discriminated Payload Resolver | `models/qyl/common/errors/internal_server_error.py` (its siblings `ValidationError`, `NotFoundError` and `ProblemDetails` are missing from the repository) | as for models | as for models | `type` default `"about:blank"`; `title` in no table |

How the parts interact: caller → builder chain → descriptor → transport
(kiota, external) → dispatcher (the status picks the class) → model contract
(which uses the enum codec and the composed-value resolver for fields) →
caller.

The only concurrency is between async calls. A request method runs without
suspension up to its single `await` on the transport, so concurrent calls
interleave only at that point, and their answers can arrive in any order.
The builders' dicts are shared by these calls but never mutated. Besides the
interleaving of awaiting calls, the hard behaviour comes from *sequences of
legal calls* and from *boundary values*:

- `with_url` followed by `by_id`;
- builders that alias one dict;
- falsy values;
- colliding keys;
- statuses that no mapping lists;
- event streams that never end.

## Modules

| Module | Models | State (VARIABLES) | Actions |
|---|---|---|---|
| `ComposedValue` | `AttributeValue` | `wrapper`, `origin` (the node it was decoded from, or `Caller`), `written`, `writtenFrom`, `raised` | `CreateFromDiscriminatorValue(n)` (lines 29-55), `Construct(i, v)`, `SerializeStep` (64-87) |
| `RequestBuilder` | the builder tree | `store` (a heap of path-parameter dicts by reference, so that sharing a dict and copying it differ), `builders` (each with kind, reference, a snapshot of its dict and its id), `req` (the last descriptor), `raised` | `Navigate` (a property accessor), `ByItemId` (`by_<item>_id`: None raises, else copy and add one key), `WithUrl` (None raises, else a fresh one-key dict), `ToRequestInformation` (a write method with a None body raises, else a descriptor with method, Accept, URL and query names) |
| `Models` | the field table of each class | none (constants) | one definition per class, each of its tables transcribed on its own: the dataclass fields and defaults, `get_field_deserializers` (wire → field, `Table` for keys under the field's own name), `serialize` (field → wire), and for fields holding models the annotated class, the deserializer's factory and getter (`Object`, `ListOf`) and serialize's writer (`WritesObject`, `WritesCollection`) |
| `ModelContract` | the contract over any set of those classes | `model`, `origin`, `written`, `writtenFrom`, `raised` | `Receive(c, d)` (a response body is decoded as class `c`), `Construct(m)`, `Serialize`, `ReceiveWritten` (the peer decodes what was written) |
| `Descriptor` | what spec §4.4 promises of the builders, without dicts or templates | `handles` (resource kind, the item it is scoped to, the `with_url` address), `request`, `rejected` | `Child`, `Item`, `Relocate` (`with_url`), `Request`, `Reject` (a None argument) |
| `ErrorDispatch` | the ten async request methods and their exchanges | `adapter` (the builders' `request_adapter` is set), `call` (each call's phase, operation, body, status, stream chunks and outcome), `sent` (calls whose request reached the transport) | `Invoke(c, o, body)` (the method up to its await: body check, `error_mapping`, adapter check, send), `Respond(c, s)`, `Fail(c)`, `Chunk(c)`, `Close(c)` (the transport and server), `Dispatch(c)` (`send_async` after the await) |

In `RequestBuilder`, each builder class is one record: its template's path
variables and `{?...}` names, its accessors, its indexer, `with_url`, its
methods and Accept. Each `…GetQueryParameters` dataclass is one record: its
fields and the renamings of its `get_query_parameter`. Child classes whose
files are missing from the repository (`LogsRequestBuilder`,
`ErrorsItem`, stats, …) are `Opaque`: they are reachable but have no
operations.

In `ErrorDispatch`, each request method is one record: its builder kind and
HTTP method, the success type and `error_mapping` it passes to
`send_async`, whether it takes a body and whether it returns the raw byte
stream (`TracesRequestBuilder.get` passes `"bytes"` and no mapping to
`send_primitive_async`). `Invoke` models the code every method shares before
its await, in the code's order.

In `ModelContract`, a field holding models is decoded by `Decode` of its
factory's class (`get_object_value`), or element by element for a list
(`get_collection_of_object_values`), and written by `Encode` of the nested
model (`write_object_value`, which writes the nested model's own
`additional_data` too). Documents (`DocsOf`) and caller-built models
(`ModelsOf`) nest up to `MaxDepth` levels; `EnrichedException.cause` nests
its own class. Nested classes whose files are missing from the repository
(`SpanStatus`, `SpanLink`, the `…_labels`/`…_tags` maps, several stats rows)
stay opaque values.

`MCRequestBuilder` also holds the refinement mapping to `Descriptor`:
- a builder is the handle on its kind, scoped to the path variable and raw
  URL its dict holds *now*;
- a descriptor is a request on its builder's handle, with the item bound in
  its URL and the fields whose wire names reached its query.

Library behaviour is modelled from the spec's contract and said so where it
is used. This covers:

- the parse-node getters: type-valid, with the float getter accepting
  integral numbers (§4.2);
- template expansion: a raw URL wins, and only the template's query names
  reach the URL;
- the JSON writer: None is not written, and a key written twice keeps the
  last value;
- `send_async`'s dispatch (§4.5): a 2xx answer is decoded as the success
  type (204 gives None); a failed status found in the mapping, looked up by
  `str(status)`, raises that class carrying the status; any other failure,
  or no mapping, raises the generic `APIError`;
- `send_primitive_async(..., "bytes")` resolves with one `bytes` value once
  the body has ended.

Data is abstracted. JSON numbers come from a small set of integers, strings
from a small set, and model field values are opaque model values. The
per-field type conversions are not modelled, because the properties do not
depend on them.

## Runs

Pass runs:

| Run | Properties | Shows |
|---|---|---|
| `ComposedValue` | `DecodeEncodeFaithful` | Decode then serialize writes back what was received (int widening aside) whenever decoding populated something. |
| `RequestBuilder` | `FiltersReachWire`, `Refinement` | `RequestBuilder` implements `Descriptor` (`Refinement == Abstract!Spec`). No call changes what an existing builder addresses, even though accessors share their parent's dict and siblings for other ids are built from it later, because `by_<item>_id` copies. An item builder is scoped to exactly its id, and a `with_url` builder and its descendants address only that URL, with no filters, as its docstring says. Every filter set on a templated URL reaches its `{?...}` block, because the three tables (template, dataclass, renames) agree. |
| `Models` | `WireRoundTrip`, `ModelRoundTrip` | For 42 classes (all but `InternalServerError`), decode→encode is the identity on documents and encode→decode is the identity on caller-built models with a non-colliding `additional_data` entry, dotted names included, at every nesting level. The tables are transcribed separately, so this checks that the deserializer table and the serialize table agree (dotted names) and that each nested field's annotation, factory and writer agree. `AttributeValue`-typed values (`Attribute.value`) are opaque here: their round trip is `ComposedValue`'s, where falsy values do not survive. |
| `ErrorDispatch` | `ContractViolationsBeforeSend`, `TypedErrorsFollowTaxonomy`, `ItemNotFoundTyped` | Two concurrent calls of any of the ten methods, answered in any order with any status, or failing in the transport. A None body or a missing adapter raises before anything is sent. A typed error carries its own exchange's status and is the class spec §6/§7 gives that status (400 validation, 404 not found, 500 server failure), so the ten mapping tables agree. A 404 on a deployment item raises `NotFoundError` (spec §8). |

Violation runs, each the finding it documents:

| Run | Finding |
|---|---|
| `ComposedValue_DecodeTotal` | `0`, `false`, `""`, `[]` decode to nothing. |
| `ComposedValue_IntegralDecodesToInt64` | `1` becomes `attribute_value_double` and `[1,1]` becomes `double` (arrays have at most two elements), against spec §8, which gives `[1,2,3]` the integer-list variant. |
| `ComposedValue_SerializeEmitsPopulated` | A wrapper holding a falsy value writes nothing. |
| `RequestBuilder_ItemRequestAddressesItem` | `deployments.with_url(u).by_deployment_id(d1)` sends to `u`, against spec §4.4 ("one path segment deeper"). |
| `DeploymentCreate_KnownFieldsTakePrecedence` | An `additional_data` key equal to a field name overwrites the field, against spec §2. |
| `InternalServerError_ModelRoundTrip` | `type=None` comes back `"about:blank"`, and `title` is never written. |
| `ErrorDispatch_ServerFailureTyped` | A 500 answer to the live trace stream raises the generic `APIError`, not `InternalServerError` with its support `error_code` (spec §7), because `TracesRequestBuilder.get` passes no error mapping. |
| `ErrorDispatch_StreamEventsReachCaller` | An event sent on an open trace stream never reaches the caller. The call awaits one `bytes` value, which exists only when the body ends, whereas spec §5 has the caller consume chunks as they come. |

Every property of a pass run has a mutant in `PROJECT.json`: a plausible bug
in the mapped definition that TLC catches. The mutants are:

- serialize missing its last branch;
- `by_id` mutating the parent's dict in place;
- `get_query_parameter` without its `start_time` rename;
- `DeploymentEntity`'s serialize writing `deployment_id` under its Python name instead of `deployment.id`;
- `ErrorStats`' `top_errors` deserializer passing the `by_category` line's factory `ErrorCategoryStats`;
- a method that lacks the `if body is None` check;
- the item GET declaring the list's mapping;
- `ExceptionsRequestBuilder.get` with its two error classes swapped;
- a mapping that names a success type.

## Bounds and why they are enough

**ComposedValue.** Integers `{0, 1}`, strings `{"", "a"}` and arrays of up to
2 elements. These contain every falsy value, a truthy value of each kind,
mixed arrays and arrays of one kind (27,614 states).

**RequestBuilder.**
- Ids `{d1, d2}`, one raw URL and 4 builders.
- Four builders reach `V1 → Deployments → item(d1), item(d2)`: two siblings
  of one parent, which is what the aliasing properties need.
- They also reach `V1 → Deployments → with_url → item`, the raw-URL sequence.
- A caller sets no query field, any single one, or all of them (57,202
  states).

**Models.**
- One value and at most one key per document or constructed model.
- The extra key `"x"`, plus `"service_name"`, which is a wire name of some
  classes and only the Python name of `DeploymentEntity`'s dotted field.
- The table consistency properties are per key, so one key per document
  checks every table entry of every class.
- `MaxDepth = 1`: a nested object or list of one holds a document or model
  of the nested class with its own one key. A nesting bug (a wrong factory,
  an object getter for a list, a writer dropping the nested
  `additional_data`) shows at the first level; deeper levels repeat the same
  table entries. 7,896 states, under 3 minutes.

**DeploymentCreate** (the `KnownFieldsTakePrecedence` run). Two values and
two keys: enough for a field and an `additional_data` entry with the same
name and different values. It and the `InternalServerError` run have no
nested fields, so they use `MaxDepth = 0`.

**ErrorDispatch.**
- Two calls, enough for two exchanges in flight answered in either order.
- Statuses 200, 201, 204, each mapped failure (400, 404, 500) and an
  unmapped one (503).
- Streams of at most one event, which is enough for an event sent on a
  stream that stays open.
- The adapter present or absent.
- 32,930 states.

The builder runs say `CHECK_DEADLOCK FALSE`: a caller may stop after any call,
and the builders it holds are inert values.

## Fairness

Builders and models: none. Every operation there is a single synchronous call
the caller may or may not make.

`ErrorDispatch` has three fairness assumptions, one per call:
- **`WF_vars(awaiting /\ Transport(c))`.** kiota's HTTP client has
  connect and read timeouts, so an exchange awaiting its answer ends with
  an answer or a transport error.
- **`WF_vars(Dispatch(c))`.** `send_async` resumes once its answer is
  complete; nothing else is awaited.
- **`WF_vars(Chunk(c))`.** A server keeps sending events on a stream it has
  opened.

Making a call is not fair: a caller may never call. Closing an event
stream is not fair either: a live stream is never closed, and its
keep-alives keep the read timeout from firing.

The fairness serves the one temporal property, `StreamEventsReachCaller`:
it fails even though the transport and the server keep making progress.
No liveness property is checked of non-streaming calls: that a sent call
ends depends only on kiota's `send_async`, which has an outcome for every
status, and not on any code of this repository.

## Not modelled, and why

- **Transport, authentication, retries, cancellation and the event-stream
  framing.** They live in kiota/httpx, outside the repository (spec §5, §4.5).
- **Deprecated `…RequestConfiguration` subclasses.** They only warn. The
  query parameters they carry are `Settable`.
- **Scalar conversions.** The getters' and writers' conversions of strings,
  numbers, dates and UUIDs are kiota's and are opaque values. A document
  whose `additional_data` put a scalar under the key of a nested model is
  not decoded again (`ReceiveWritten`), because how kiota's parse node reads
  a scalar as an object is not in the repository.
- **`AttributeValue` inside the model classes.** `Attribute.value` and the
  attribute lists of `Span`, `Resource` and others hold `AttributeValue`,
  whose codec `ComposedValue` models on its own. In `Models` it is an opaque
  value that round-trips, so the falsy-value findings of `ComposedValue`
  (a `{"value": 0}` attribute does not come back) are not repeated there;
  composing the two would multiply the Models state space by the
  composed-value one.
- **Nested classes that are missing.** Fields whose class file is absent
  (`SpanStatus`, `SpanLink`, `MetricDataPoint`, …) hold opaque values.
- **Enum Codec.** The 24 `(str, Enum)` classes are value tables with no code
  of their own. Decoding and writing them is kiota's parse node and writer,
  which are not in the repository. Python's `Enum` turns a duplicate value into
  an alias of the first member, so a member always round-trips. What
  happens to an unrecognised wire value is the library's policy, left open
  by spec §9. Enum-typed fields are opaque values in `ModelContract`.
- **Missing files.** `validation_error.py`, `not_found_error.py` and the
  `…GetResponse` modules of most list operations are imported inside the
  request methods but are absent from the repository. The model assumes the
  generated package is complete, as the spec describes it.
- **Pagination invariant** (spec §8, `has_more = false ⇒ next_cursor`
  absent). It is the server's obligation. `ServicesGetResponse` decodes
  whatever it receives, and no code here builds or follows pages.
- **Spec scenario `deployments.byId("d1").metrics`.** It cannot be built: in
  the code, `metrics` is an accessor of `DeploymentsRequestBuilder`, not of
  the item builder.

## Larger instances and composition, weighed

- **Three concurrent calls.** `ErrorDispatch` with three calls finishes in
  about a minute (5.9 million states). Calls share no state but the
  adapter, and every property is per call, so a third call adds no new
  ordering; the run keeps two.
- **Streams of two events.** These take 37,418 states. The only property
  about events (`StreamEventsReachCaller`) already fails with one event, so
  the bound stays at 1.
- **Two keys per document in `Models`.** This does not finish in six and a
  half minutes over all 42 classes. The one property that needs two keys
  (`KnownFieldsTakePrecedence`) has its own run with two keys on
  `DeploymentCreate`.
- **Calls made from `RequestBuilder`'s builders, and success bodies decoded
  by `ModelContract`.** The components interact only through values:
  - a descriptor goes to the transport;
  - a status picks a class;
  - a document goes to a decoder.

  Each side of each interface is checked in its own module:
  - `Refinement` fixes what a descriptor says;
  - `TypedErrorsFollowTaxonomy` fixes which class a status picks;
  - `WireRoundTrip` fixes how a class decodes.

  A product of the state spaces would multiply 57,202 builder states by
  32,930 dispatch states, with no property that reads both.

## Hazards without a property

Every hazard listed in `PROJECT.json` has a property. Three situations were
weighed and are not hazards of this code:
- **A `post`/`patch` body changed while the call awaits.** kiota's
  `set_content_from_parsable` serializes the body inside
  `to_<method>_request_information`, before the only await, so the request
  never reads the model afterwards.
- **A POST applied by the server whose answer is lost.** No code here
  retries, and server effects are outside the spec.
- **An unknown enum wire value.** The policy is kiota's parse node's (see
  Enum Codec above), not code of this repository.
