--------------------------- MODULE ComposedValue ---------------------------
(***************************************************************************)
(* The composed-type wrapper AttributeValue                                *)
(* (models/qyl/common/attribute_value.py): a value that is one of bool,    *)
(* float, int, str or a list of one of them, decoded from a JSON node      *)
(* without a tag and encoded back without one.                             *)
(*                                                                         *)
(* JSON nodes and Python values share one representation, a record        *)
(* [k |-> kind, v |-> value]: json.loads/json.dumps map each JSON kind to  *)
(* the Python type of the same kind, so the only conversion that changes a *)
(* value's kind is the parse node's float getter, which widens an integral *)
(* number to float (spec 4.2).  Float values are kept integral: the        *)
(* properties only tell "integral number written as int" from "written as  *)
(* float".                                                                 *)
(***************************************************************************)
EXTENDS Integers, Sequences, SequencesExt

CONSTANTS
    None,      \* Python None: a getter found no value of its type
    NullDoc,   \* an absent parse node (parse_node is None)
    Caller,    \* origin of a wrapper the caller constructed itself
    Ints,      \* the numbers that occur in JSON numbers
    Strs,      \* the strings that occur in JSON strings
    MaxLen     \* the longest JSON array considered

ASSUME MaxLen \in Nat

Scalar == [k : {"bool"}, v : BOOLEAN] \cup [k : {"int", "float"}, v : Ints]
            \cup [k : {"str"}, v : Strs]
Json == Scalar \cup [k : {"list"}, v : BoundedSeq(Scalar, MaxLen)]

\* The eight representations, in the order of the dataclass fields, which is
\* also the order create_from_discriminator_value and serialize try them.
Variants == <<"attribute_value_boolean", "attribute_value_double",
              "attribute_value_int64", "attribute_value_string",
              "boolean", "double", "int64", "string">>
VariantNames == ToSet(Variants)

\* The element type each representation holds, and whether it is a list.
ElemKind == [i \in 1..8 |-> <<"bool", "float", "int", "str">>[((i - 1) % 4) + 1]]
IsListVariant(i) == i > 4

EmptyWrapper == [f \in VariantNames |-> None]

\* parse_node.get_<t>_value(): the node if it has that type; the float getter
\* also accepts an integral number and widens it.
ScalarAttempt(t, n) ==
    CASE t = "float" /\ n.k \in {"int", "float"} -> [k |-> "float", v |-> n.v]
      [] n.k = t                                -> n
      [] OTHER                                  -> None

\* parse_node.get_collection_of_primitive_values(t): the list converted
\* element-wise when every element is of type t.
ListAttempt(t, n) ==
    IF n.k = "list" /\ \A i \in DOMAIN n.v : ScalarAttempt(t, n.v[i]) # None
    THEN [k |-> "list", v |-> [i \in DOMAIN n.v |-> ScalarAttempt(t, n.v[i])]]
    ELSE None

Attempt(i, n) ==
    IF IsListVariant(i) THEN ListAttempt(ElemKind[i], n)
                        ELSE ScalarAttempt(ElemKind[i], n)

\* Python truthiness of an attempted value, as tested by the walrus chain.
Truthy(p) ==
    CASE p = None                -> FALSE
      [] p.k = "bool"            -> p.v
      [] p.k \in {"int", "float"} -> p.v # 0
      [] p.k = "str"             -> p.v # ""
      [] p.k = "list"            -> p.v # <<>>

\* The position of the first truthy value of a sequence, 0 if none.
FirstTruthy(s) ==
    IF \E i \in DOMAIN s : Truthy(s[i])
    THEN CHOOSE i \in DOMAIN s : Truthy(s[i]) /\ \A j \in 1..(i - 1) : ~Truthy(s[j])
    ELSE 0

\* create_from_discriminator_value with the string branch assigning to
\* attribute_value_double (a copy-paste slip in the elif chain).
DecodeStringIntoDouble(n) ==
    LET tries == [i \in 1..8 |-> Attempt(i, n)]
        i     == FirstTruthy(tries)
        f     == IF i = 4 THEN 2 ELSE i
    IN  IF i = 0 THEN EmptyWrapper ELSE [EmptyWrapper EXCEPT ![Variants[f]] = tries[i]]

\* create_from_discriminator_value on a present node: the if/elif chain.
Decode(n) ==
    LET tries == [i \in 1..8 |-> Attempt(i, n)]
        i     == FirstTruthy(tries)
    IN  IF i = 0 THEN EmptyWrapper ELSE [EmptyWrapper EXCEPT ![Variants[i]] = tries[i]]

\* serialize without its last branch, as if the generator had dropped it.
SerializeMissingBranch(w) ==
    LET vals == [i \in 1..7 |-> w[Variants[i]]]
        i    == FirstTruthy(vals)
    IN  IF i = 0 THEN None ELSE vals[i]

\* serialize: the if/elif chain writes the first truthy representation with
\* no key; None stands for "nothing written".
Serialize(w) ==
    LET vals == [i \in 1..8 |-> w[Variants[i]]]
        i    == FirstTruthy(vals)
    IN  IF i = 0 THEN None ELSE vals[i]

\* The Python values a caller can store in representation i.
ValuesOf(i) ==
    IF IsListVariant(i)
    THEN {n \in Json : n.k = "list" /\ \A j \in DOMAIN n.v : n.v[j].k = ElemKind[i]}
    ELSE {n \in Scalar : n.k = ElemKind[i]}

-----------------------------------------------------------------------------
VARIABLES
    wrapper,      \* the AttributeValue held by the caller, or None
    origin,       \* the node wrapper was decoded from; Caller if constructed
    written,      \* what the last serialize wrote, or None
    writtenFrom,  \* [w, o]: the wrapper and origin that serialize was given
    raised        \* the last decode raised TypeError

vars == <<wrapper, origin, written, writtenFrom, raised>>

Wrapper == [VariantNames -> Json \cup {None}]

TypeOK ==
    /\ wrapper = None \/ \A i \in 1..8 : wrapper[Variants[i]] \in ValuesOf(i) \cup {None}
    /\ origin \in Json \cup {Caller, None}
    /\ written \in Json \cup {None}
    /\ writtenFrom \in [w : Wrapper \cup {None}, o : Json \cup {Caller, None}]
    /\ raised \in BOOLEAN

Init ==
    /\ wrapper = None
    /\ origin = None
    /\ written = None
    /\ writtenFrom = [w |-> None, o |-> None]
    /\ raised = FALSE

\* AttributeValue.create_from_discriminator_value(parse_node) on the node n
\* of a response body: an absent node raises TypeError, a present one is
\* decoded into a fresh wrapper.
CreateFromDiscriminatorValue(n) ==
    \/ /\ n = NullDoc
       /\ raised' = TRUE
       /\ UNCHANGED <<wrapper, origin, written, writtenFrom>>
    \/ /\ n # NullDoc
       /\ wrapper' = Decode(n)
       /\ origin' = n
       /\ raised' = FALSE
       /\ UNCHANGED <<written, writtenFrom>>

\* The caller builds AttributeValue(<field>=value) with one representation.
Construct(i, val) ==
    /\ wrapper' = [EmptyWrapper EXCEPT ![Variants[i]] = val]
    /\ origin' = Caller
    /\ UNCHANGED <<written, writtenFrom, raised>>

\* AttributeValue.serialize(writer).
SerializeStep ==
    /\ wrapper # None
    /\ written' = Serialize(wrapper)
    /\ writtenFrom' = [w |-> wrapper, o |-> origin]
    /\ UNCHANGED <<wrapper, origin, raised>>

Next ==
    \/ \E n \in Json \cup {NullDoc} : CreateFromDiscriminatorValue(n)
    \/ \E i \in 1..8 : \E val \in ValuesOf(i) : Construct(i, val)
    \/ SerializeStep

Spec == Init /\ [][Next]_vars

-----------------------------------------------------------------------------
Populated(w) == {f \in VariantNames : w[f] # None}

\* Two JSON nodes carry the same value, an int on the right allowed to come
\* back as a float of the same number on the left.
SameScalar(a, b) == a.v = b.v /\ (a.k = b.k \/ (a.k = "float" /\ b.k = "int"))
SameValue(a, b) ==
    IF a.k = "list" /\ b.k = "list"
    THEN Len(a.v) = Len(b.v) /\ \A i \in DOMAIN a.v : SameScalar(a.v[i], b.v[i])
    ELSE a.k # "list" /\ b.k # "list" /\ SameScalar(a, b)

\* Re-encoding a decoded attribute value (create_from_discriminator_value
\* then serialize) writes the value that was received, up to widening an
\* integral number to float: decode and serialize try the same
\* representations and lose nothing in between.
DecodeEncodeFaithful ==
    (writtenFrom.o \in Json /\ Populated(writtenFrom.w) # {})
        => written # None /\ SameValue(written, writtenFrom.o)

\* Spec 3: exactly one representation is populated after decoding any
\* present JSON value (create_from_discriminator_value's truthiness chain).
DecodeTotal ==
    (wrapper # None /\ origin \in Json) => Populated(wrapper) # {}

\* Spec 8: an integral number decodes to the integer representation and an
\* array of integral numbers to the integer-list one (the elif order of
\* create_from_discriminator_value).  Zero is left to DecodeTotal, so that
\* this property is about the order of the chain, not its truthiness.
IntegralDecodesToInt64 ==
    LET IsIntegral(n) ==
            \/ n.k = "int" /\ n.v # 0
            \/ n.k = "list" /\ n.v # <<>> /\ \A i \in DOMAIN n.v : n.v[i].k = "int"
    IN  (wrapper # None /\ origin \in Json /\ IsIntegral(origin))
            => Populated(wrapper) \cap {"attribute_value_int64", "int64"} # {}

\* Spec 4.2: serialize emits whichever single representation is populated
\* (serialize's truthiness chain).
SerializeEmitsPopulated ==
    \A f \in VariantNames :
        (writtenFrom.w # None /\ Populated(writtenFrom.w) = {f})
            => written = writtenFrom.w[f]

=============================================================================
