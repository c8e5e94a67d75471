------------------------- MODULE MCRequestBuilder -------------------------
(* Model values and bounds for checking RequestBuilder with TLC, and the   *)
(* refinement mapping under which RequestBuilder implements Descriptor.     *)
EXTENDS RequestBuilder

CONSTANTS d1, d2, u1
MCIds == {d1, d2}
MCRawUrls == {u1}

\* The resource tree the builder classes describe.
MCResources ==
    [k \in Kinds |->
        [children |-> Classes[k].props, item |-> Classes[k].indexer.child,
         relocatable |-> Classes[k].withUrl,
         methods |-> Classes[k].methods,
         filters |-> IF k \in DOMAIN QueryParameters THEN QueryParameters[k].fields ELSE {}]]

\* The item a path-parameter dict scopes to (the value of its path
\* variable), and the raw URL it holds.
DictTarget(d) ==
    IF DOMAIN d \ {RawUrlKey} = {} THEN None ELSE d[CHOOSE key \in DOMAIN d \ {RawUrlKey} : TRUE]
DictRaw(d) == IF RawUrlKey \in DOMAIN d THEN d[RawUrlKey] ELSE None

\* A builder is the handle on its kind, scoped to what its dict holds now.
AbsHandles ==
    [i \in DOMAIN builders |-> [kind |-> builders[i].kind, target |-> DictTarget(store[builders[i].ref]),
                           raw |-> DictRaw(store[builders[i].ref])]]

\* A descriptor is the request on its builder's handle, its item the value
\* bound to the template's path variable, its filters the fields whose
\* wire names reached the URL.
AbsRequest ==
    IF req = None THEN None
    ELSE [from |-> req.from, method |-> req.method,
          target |-> DictTarget(req.url.vars), raw |-> req.url.raw,
          filters |-> {f \in req.set : GetQueryParameter(builders[req.from].kind, f) \in req.url.query}]

Abstract == INSTANCE Descriptor
    WITH Resources <- MCResources, Root <- "V1", MaxHandles <- MaxBuilders, RawUrls <- MCRawUrls,
         handles <- AbsHandles, request <- AbsRequest, rejected <- raised

\* Spec 4.4: RequestBuilder's steps are Descriptor's steps.  No call
\* changes what an existing builder addresses, although property accessors
\* share their parent's path-parameter dict and siblings for other ids are
\* built from it later; by_<item>_id scopes its child to exactly the id
\* given (it copies the dict and adds one key); a descriptor addresses its
\* builder's item, or the with_url address, with none of the path
\* parameters of the other builders.
Refinement == Abstract!Spec
=============================================================================
