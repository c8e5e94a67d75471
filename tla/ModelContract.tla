---------------------------- MODULE ModelContract ----------------------------
(***************************************************************************)
(* The model contract shared by every generated model class               *)
(* (AdditionalDataHolder + Parsable): create_from_discriminator_value      *)
(* builds a default instance, the parse node fills it through              *)
(* get_field_deserializers, and serialize writes the known fields, then    *)
(* additional_data.                                                        *)
(*                                                                         *)
(* The parse node and the writer belong to kiota and are modelled from     *)
(* their contract (spec 4.1): a key of the table is decoded into its       *)
(* field, any other key is copied into additional_data; a field whose     *)
(* value is None is not written, and the writer keeps one value per key,   *)
(* the last one written.  A JSON document is a function from keys to      *)
(* values; a class is its field table (see Models).                        *)
(***************************************************************************)
EXTENDS Naturals, FiniteSets, TLC

CONSTANTS
    None,       \* Python None
    NullDoc,    \* an absent parse node
    Caller,     \* origin of a model the caller constructed
    Vals,       \* field and JSON values
    Classes,    \* class name -> its tables (defaults, deser, ser, annotation,
                \* factory, writer), see Models
    ExtraKeys,  \* keys outside the tables that documents and callers use
    MaxKeys,    \* the most keys a document or a constructed model sets
    MaxDepth    \* the deepest nesting of models in a document or model

Fields(c) == DOMAIN Classes[c].defaults
Deserializers(c) == Classes[c].deser
Serializers(c) == Classes[c].ser
DocKeys(c) == DOMAIN Deserializers(c) \cup ExtraKeys

\* The nested-field types of class c: as the dataclass annotates them, as
\* its deserializers decode them, and how serialize writes them (see Models).
Annotation(c) == Classes[c].annotation
Factory(c) == Classes[c].factory
Writer(c) == Classes[c].writer

\* Field f holds models of a class of this run by the type table t.  A
\* field whose class is not in the run is an opaque value.
HoldsModels(t, f) == f \in DOMAIN t /\ t[f].cls \in DOMAIN Classes

\* The subsets of S with at most k elements.
RECURSIVE SubsetsUpTo(_, _)
SubsetsUpTo(S, k) ==
    IF k = 0 THEN {{}}
    ELSE LET T == SubsetsUpTo(S, k - 1) IN T \cup {U \cup {x} : U \in T, x \in S}

\* Functions from at most k keys of S to V.
MapsUpTo(S, V, k) == UNION {[K -> V] : K \in SubsetsUpTo(S, k)}

\* Functions from at most k keys of S, each key x to a value of V(x): the
\* functions on K are built one key at a time, so that no set mixes the
\* values of different keys.
TypedMapsUpTo(S, V(_), k) ==
    LET RECURSIVE On(_)
        On(K) == IF K = {} THEN {[x \in {} |-> None]}
                 ELSE LET x == CHOOSE x \in K : TRUE
                      IN  {(x :> v) @@ g : v \in V(x), g \in On(K \ {x})}
    IN  UNION {On(K) : K \in SubsetsUpTo(S, k)}

\* One model, or a list of one, of a nested type, from a set of models.
Nest(type, inner) == IF type.many THEN {<<x>> : x \in inner} ELSE inner

\* The JSON objects of at most MaxKeys keys, nested at most k deep, that a
\* response of class c may carry: a key of a field holding models carries
\* the object (or array of objects) of the field's annotated class.
RECURSIVE DocsOf(_, _)
DocsOf(c, k) ==
    LET KeyValues(w) ==
            IF w \in DOMAIN Deserializers(c) /\ HoldsModels(Annotation(c), Deserializers(c)[w])
            THEN LET type == Annotation(c)[Deserializers(c)[w]]
                 IN  IF k = 0 THEN {} ELSE Nest(type, DocsOf(type.cls, k - 1))
            ELSE Vals
    IN  TypedMapsUpTo(DocKeys(c), KeyValues, MaxKeys)

Docs(c) == DocsOf(c, MaxDepth)

IsMap(x, S, V) == DOMAIN x \subseteq S /\ \A k \in DOMAIN x : x[k] \in V

RECURSIVE IsModel(_)
IsModel(m) ==
    /\ DOMAIN m = {"cls", "fields", "extra"}
    /\ m.cls \in DOMAIN Classes
    /\ \A f \in Fields(m.cls) :
          IF HoldsModels(Annotation(m.cls), f) /\ m.fields[f] # None
          THEN IF Annotation(m.cls)[f].many
               THEN \A i \in DOMAIN m.fields[f] : IsModel(m.fields[f][i])
               ELSE IsModel(m.fields[f])
          ELSE m.fields[f] \in Vals \cup {None}
    /\ IsMap(m.extra, DocKeys(m.cls), Vals)

\* The field a key of the table decodes into, and whether d sets field f.
Sets(c, d, f) == \E w \in DOMAIN d \cap DOMAIN Deserializers(c) : Deserializers(c)[w] = f
ValueFor(c, d, f) ==
    d[CHOOSE w \in DOMAIN d \cap DOMAIN Deserializers(c) : Deserializers(c)[w] = f]

RECURSIVE Decode(_, _)

\* The value a field f of class c is given for the JSON value v: a field
\* holding models is decoded by get_object_value, or element by element by
\* get_collection_of_object_values, with its deserializer's factory.
DecodedValue(c, f, v) ==
    IF HoldsModels(Factory(c), f)
    THEN IF Factory(c)[f].many
         THEN [i \in DOMAIN v |-> Decode(Factory(c)[f].cls, v[i])]
         ELSE Decode(Factory(c)[f].cls, v)
    ELSE v

\* The fields of class c after the table's keys of d are decoded.
DecodedFields(c, d) ==
    [f \in Fields(c) |->
        IF Sets(c, d, f) THEN DecodedValue(c, f, ValueFor(c, d, f))
        ELSE Classes[c].defaults[f]]

\* create_from_discriminator_value followed by the parse node's field
\* assignment: start from the dataclass defaults, decode the table's keys
\* into their fields, copy every other key into additional_data.
Decode(c, d) ==
    [cls    |-> c,
     fields |-> DecodedFields(c, d),
     extra  |-> [k \in DOMAIN d \ DOMAIN Deserializers(c) |-> d[k]]]

\* The fields serialize writes, keyed by their wire names; a field serialize
\* writes with write_object_value is written as the object the model's own
\* serialize writes, one written with write_collection_of_object_values as
\* an array of them.  A value of a class missing from the run is opaque.
RECURSIVE Encode(_)
KnownWritten(m) ==
    LET ser     == Serializers(m.cls)
        written == {f \in DOMAIN ser : m.fields[f] # None}
        Write(f) ==
            LET v == m.fields[f] IN
            IF f \in DOMAIN Writer(m.cls) /\ v \notin Vals
            THEN IF Writer(m.cls)[f].many
                 THEN [i \in DOMAIN v |-> Encode(v[i])]
                 ELSE Encode(v)
            ELSE v
    IN  [w \in {ser[f] : f \in written} |-> Write(CHOOSE f \in written : ser[f] = w)]
\* serialize: each field with a value under its wire name, then
\* write_additional_data_value, whose keys overwrite a field written under
\* the same name.
Encode(m) == m.extra @@ KnownWritten(m)

\* The models a caller can construct, nested at most k deep: at most
\* MaxKeys keyword arguments, fields (None included) and additional_data
\* entries, the rest defaulted; a field holding models is given a model
\* (or a list of one) of its annotated class.
RECURSIVE ModelsOf(_, _)
ModelsOf(c, k) ==
    LET FieldValues(f) ==
            IF HoldsModels(Annotation(c), f)
            THEN {None} \cup IF k = 0 THEN {}
                             ELSE Nest(Annotation(c)[f], ModelsOf(Annotation(c)[f].cls, k - 1))
            ELSE Vals \cup {None}
    IN  UNION {{[cls |-> c,
                 fields |-> [f \in Fields(c) |->
                               IF f \in DOMAIN a THEN a[f] ELSE Classes[c].defaults[f]],
                 extra  |-> e] :
                   e \in MapsUpTo(DocKeys(c), Vals, MaxKeys - Cardinality(DOMAIN a))} :
               a \in TypedMapsUpTo(Fields(c), FieldValues, MaxKeys)}

Constructed == UNION {ModelsOf(c, MaxDepth) : c \in DOMAIN Classes}

\* The response bodies, with the class they are decoded as.
Received == UNION {[cls : {c}, doc : Docs(c) \cup {NullDoc}] : c \in DOMAIN Classes}

-----------------------------------------------------------------------------
VARIABLES
    model,        \* the model the caller holds, or None
    origin,       \* the document it was decoded from, or Caller
    written,      \* the document the last serialize wrote, or None
    writtenFrom,  \* [m, o]: the model serialize was given and its origin
    raised        \* the last decode raised TypeError

vars == <<model, origin, written, writtenFrom, raised>>

\* d is a JSON object class c's decoder reads: table keys of fields holding
\* models carry objects of their class, every other key a value.
RECURSIVE IsDocOf(_, _)
IsDocOf(c, d) ==
    /\ DOMAIN d \subseteq DocKeys(c)
    /\ \A w \in DOMAIN d :
          IF w \in DOMAIN Deserializers(c) /\ HoldsModels(Annotation(c), Deserializers(c)[w])
          THEN LET type == Annotation(c)[Deserializers(c)[w]] IN
               /\ d[w] \notin Vals
               /\ IF type.many THEN \A i \in DOMAIN d[w] : IsDocOf(type.cls, d[w][i])
                               ELSE IsDocOf(type.cls, d[w])
          ELSE d[w] \in Vals

TypeOK ==
    /\ model = None \/ IsModel(model)
    /\ origin \in {Caller, None} \/ (model # None /\ IsDocOf(model.cls, origin))
    /\ written = None \/ DOMAIN written \subseteq DocKeys(writtenFrom.m.cls)
    /\ writtenFrom.m = None \/ IsModel(writtenFrom.m)
    /\ writtenFrom.o \in {Caller, None} \/ IsDocOf(writtenFrom.m.cls, writtenFrom.o)
    /\ raised \in BOOLEAN

NoExchange == [m |-> None, o |-> None]

Init ==
    /\ model = None
    /\ origin = None
    /\ written = None
    /\ writtenFrom = NoExchange
    /\ raised = FALSE

\* <c>.create_from_discriminator_value(parse_node) and the parse node's
\* get_object_value: None raises TypeError, a document is decoded.
CreateFromDiscriminatorValue(c, d) ==
    \/ /\ d = NullDoc
       /\ raised' = TRUE
       /\ UNCHANGED <<model, origin>>
    \/ /\ d # NullDoc
       /\ model' = Decode(c, d)
       /\ origin' = d
       /\ raised' = FALSE

\* A response body arrives and is decoded; it starts a new exchange, so the
\* last written document is no longer tracked.
Receive(c, d) ==
    /\ CreateFromDiscriminatorValue(c, d)
    /\ written' = None
    /\ writtenFrom' = NoExchange

\* The caller constructs a model with keyword arguments (a new exchange).
Construct(m) ==
    /\ model' = m
    /\ origin' = Caller
    /\ written' = None
    /\ writtenFrom' = NoExchange
    /\ UNCHANGED raised

\* <c>.serialize(writer) into a fresh JSON writer.
Serialize ==
    /\ model # None
    /\ written' = Encode(model)
    /\ writtenFrom' = [m |-> model, o |-> origin]
    /\ UNCHANGED <<model, origin, raised>>

\* The peer decodes the document just written as the same class.  A
\* document whose additional_data put a scalar under the key of a nested
\* model is left out: how kiota's parse node reads it is not modelled.
ReceiveWritten ==
    /\ written # None
    /\ IsDocOf(writtenFrom.m.cls, written)
    /\ CreateFromDiscriminatorValue(writtenFrom.m.cls, written)
    /\ UNCHANGED <<written, writtenFrom>>

Next ==
    \/ \E r \in Received : Receive(r.cls, r.doc)
    \/ \E m \in Constructed : Construct(m)
    \/ Serialize
    \/ ReceiveWritten

Spec == Init /\ [][Next]_vars

-----------------------------------------------------------------------------
\* Spec 4.1/8: re-encoding a decoded document (create_from_discriminator_value,
\* the parse node's field assignment, then serialize) writes back the
\* document received, at every depth: every key either has a field whose
\* serialize call uses the same wire name, or survives in additional_data
\* of the model it was decoded into.
WireRoundTrip ==
    writtenFrom.o \notin {Caller, None} => written = writtenFrom.o

\* No additional_data entry of m, or of a model nested in it, is named like
\* a wire name of its own class.
RECURSIVE ExtraOutsideTables(_)
ExtraOutsideTables(m) ==
    /\ DOMAIN m.extra \cap DOMAIN Deserializers(m.cls) = {}
    /\ \A f \in Fields(m.cls) :
          (HoldsModels(Annotation(m.cls), f) /\ m.fields[f] # None)
              => IF Annotation(m.cls)[f].many
                 THEN \A i \in DOMAIN m.fields[f] : ExtraOutsideTables(m.fields[f][i])
                 ELSE ExtraOutsideTables(m.fields[f])

\* Spec 8: decode(encode(m)) = m for a model the caller built, with its
\* declared fields, the models nested in them, and injected additional_data
\* entries whose keys are not wire names: every nested field is decoded
\* with the class it is annotated with, as an object or a list as annotated.
ModelRoundTrip ==
    (/\ writtenFrom.o = Caller
     /\ ExtraOutsideTables(writtenFrom.m)
     /\ origin = written)
        => model = writtenFrom.m

\* Spec 2: "known fields always take precedence over the same key in extra
\* data": every field with a value is written with that value.
KnownFieldsTakePrecedence ==
    writtenFrom.m # None =>
        \A f \in DOMAIN Serializers(writtenFrom.m.cls) :
            writtenFrom.m.fields[f] # None =>
                LET w == Serializers(writtenFrom.m.cls)[f]
                IN  written[w] = KnownWritten(writtenFrom.m)[w]

=============================================================================
