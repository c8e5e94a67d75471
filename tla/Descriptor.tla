----------------------------- MODULE Descriptor -----------------------------
(***************************************************************************)
(* What the Request Descriptor Builder promises (spec 4.4), without dicts, *)
(* templates or name tables.  A caller holds handles on resources of a     *)
(* tree: a handle names a resource kind and the item it is scoped to.  An  *)
(* accessor gives a handle on a child resource scoped to the same item; an *)
(* indexer gives a handle on the item resource scoped to the chosen id; a  *)
(* request on a handle is the method, the handle's item and the filters    *)
(* the caller set; a None argument is rejected and changes nothing.        *)
(* with_url gives a handle on an arbitrary address of the same kind, and   *)
(* "any other path or query parameters are ignored" (its docstring): a     *)
(* request on it, or on a handle derived from it, goes to that address     *)
(* with no filters.                                                        *)
(***************************************************************************)
EXTENDS Naturals, Sequences

CONSTANTS
    Resources,   \* kind -> [children, item, relocatable, methods, filters]
    Root,        \* the kind of the first handle
    Ids,         \* item ids
    RawUrls,     \* addresses given to with_url
    None,
    MaxHandles   \* bound on the handles created

VARIABLES
    handles,   \* the handles created so far, in creation order
    request,   \* the last request described, or None
    rejected   \* the last call was rejected

vars == <<handles, request, rejected>>

Init ==
    /\ handles = <<[kind |-> Root, target |-> None, raw |-> None]>>
    /\ request = None
    /\ rejected = FALSE

\* The handle on child resource p of handle h.
Child(h, p) ==
    /\ Len(handles) < MaxHandles
    /\ handles' = Append(handles, [kind |-> Resources[h.kind].children[p], target |-> h.target,
                                      raw |-> h.raw])
    /\ UNCHANGED <<request, rejected>>

\* The handle on the item of h's collection with the given id.
Item(h, id) ==
    /\ Len(handles) < MaxHandles
    /\ handles' = Append(handles, [kind |-> Resources[h.kind].item, target |-> id, raw |-> h.raw])
    /\ rejected' = FALSE
    /\ UNCHANGED request

\* The handle on address u for a resource of h's kind.
Relocate(h, u) ==
    /\ Len(handles) < MaxHandles
    /\ handles' = Append(handles, [kind |-> h.kind, target |-> None, raw |-> u])
    /\ rejected' = FALSE
    /\ UNCHANGED request

\* A request with method m on handle i: to its address with no filters,
\* or to its item with any of its filters set.
Request(i, m) ==
    LET h == handles[i] IN
    /\ \/ h.raw # None /\ request' = [from |-> i, method |-> m, target |-> None, raw |-> h.raw,
                                     filters |-> {}]
       \/ h.raw = None /\ request' \in [from : {i}, method : {m}, target : {h.target}, raw : {None},
                                        filters : SUBSET Resources[h.kind].filters]
    /\ rejected' = FALSE
    /\ UNCHANGED handles

\* A call with a None argument.
Reject ==
    /\ rejected' = TRUE
    /\ UNCHANGED <<handles, request>>

Next ==
    \/ Reject
    \/ \E i \in DOMAIN handles :
          LET h == handles[i] IN
          \/ \E p \in DOMAIN Resources[h.kind].children : Child(h, p)
          \/ Resources[h.kind].item # None /\ \E id \in Ids : Item(h, id)
          \/ Resources[h.kind].relocatable /\ \E u \in RawUrls : Relocate(h, u)
          \/ \E m \in Resources[h.kind].methods : Request(i, m)

Spec == Init /\ [][Next]_vars

=============================================================================
