---------------------------- MODULE SchemaFields ----------------------------
(***************************************************************************)
(* What the task editor can draw of a JSON schema, and what it writes back *)
(* (utils/schema.ts, components/OutputSchemaEditor.tsx): the list of       *)
(* fields of an object, and the constraints of a scalar or an array.       *)
(*                                                                         *)
(* A schema is a record with one entry for every keyword the editors tell  *)
(* apart.  "order" lists the properties in the order of the text.  Names   *)
(* are no whole numbers, which JavaScript would list before the others.    *)
(***************************************************************************)
EXTENDS Integers, FiniteSets, Sequences

CONSTANTS Texts,     \* what may be typed as a property's name or description
          Trimmed    \* such a text without the spaces around it

ASSUME TextAssumption == /\ Trimmed \in [Texts -> Texts] /\ "" \in Texts /\ Trimmed[""] = ""
                         /\ \A t \in Texts : Trimmed[Trimmed[t]] = Trimmed[t]

ScalarTypes == {"string", "number", "integer", "boolean"}
FieldTypes  == ScalarTypes \cup {"array", "object"}
Formats     == {"none", "image", "other"}
Words       == {"1", "1.5", "red"}   \* allowed values: a whole number, another, no number
Entered     == -9..9                 \* the numbers a schema may hold (bound)
Bounds      == {{}} \cup {{n} : n \in Entered}   \* at most one number

\* A property.  "lost" says that a keyword is accepted and not written back as it
\* stands: a title, an empty list of allowed values, a description that is empty or no
\* text.  "rich" is one that is not known, "list" a type that is a list of types.
Property == [type : FieldTypes \cup {"any", "list"}, description : Texts, enum : Seq(Words),
             format : Formats, item : FieldTypes \cup {"none"}, itemFormat : Formats,
             cap : Bounds, lost : BOOLEAN, rich : BOOLEAN]

NoProps == [n \in {} |-> n]

\* A schema with the properties N.  "null" is none, "empty" is {}, "any" has no type
\* or one that is not known.  Of the texts that are no JSON object, "null" stands for
\* those that parse to a value without keys, "unparsable" for the others.  "lost" stands
\* for a title, a description or additionalProperties, required names of which there
\* are none or one is no text, and an object whose properties are missing.
SchemaOver(N) ==
    [type : FieldTypes \cup {"null", "empty", "any", "unparsable"}, props : [N -> Property],
     order : Seq(N), required : Seq(Texts), enum : Seq(Words), pattern : {"", "regex", "broken"},
     min : Bounds, max : Bounds, item : FieldTypes \cup {"none"},
     lost : BOOLEAN, rich : BOOLEAN]

Only(t) == [type |-> t, props |-> NoProps, order |-> <<>>, required |-> <<>>, enum |-> <<>>,
            pattern |-> "", min |-> {}, max |-> {}, item |-> "none", lost |-> FALSE, rich |-> FALSE]

Once(q) == \A j, k \in DOMAIN q : q[j] = q[k] => j = k

IsSchema(s) == /\ \E N \in SUBSET Texts : IsFiniteSet(N) /\ s \in SchemaOver(N)
               /\ Once(s.order) /\ \A n \in DOMAIN s.props : \E k \in DOMAIN s.order : s.order[k] = n
               /\ s.type \in {"null", "empty", "unparsable"} => s = Only(s.type)

EmptyObject == Only("object")
Requires(s, n) == \E k \in DOMAIN s.required : s.required[k] = n
HasSchema(s) == s.type \notin {"null", "empty"}
The(b) == CHOOSE n \in b : TRUE

-----------------------------------------------------------------------------
\* The field list.
SchemaField == [name : Texts, type : FieldTypes \cup {"image"}, required : BOOLEAN,
                description : Texts, enum : Seq(Words), item : FieldTypes, cap : Entered]

EmptyField == [name |-> "", type |-> "string", required |-> FALSE, description |-> "",
               enum |-> <<>>, item |-> "string", cap |-> 1]

\* An image field: an array of strings that are marked as images.
IsImage(p, allowImages) == /\ allowImages /\ p.type = "array"
                           /\ p.item = "string" /\ p.itemFormat = "image"

DrawableProperty(p, allowImages) ==
    /\ p.type \in FieldTypes /\ ~p.rich
    /\ p.format # "none" => allowImages /\ p.type = "string" /\ p.format = "image"
    /\ p.enum # <<>> => p.type = "string"
    /\ p.type # "array" => p.item = "none" /\ p.cap = {}
    /\ p.itemFormat # "none" \/ p.cap # {} => IsImage(p, allowImages)

\* The keywords of a drawable schema: its type, properties, required names and some
\* that are accepted and not drawn.
Drawable(s, allowImages) ==
    \/ ~HasSchema(s)
    \/ /\ [s EXCEPT !.props = NoProps, !.order = <<>>, !.required = <<>>, !.lost = FALSE] = EmptyObject
       /\ \A n \in DOMAIN s.props : DrawableProperty(s.props[n], allowImages)

\* Faulty: an image field without a cap is drawn as one that takes a single image.
FieldOfOne(n, s, allowImages) ==
    LET p == s.props[n]
        image == IsImage(p, allowImages)
    IN [name |-> n, required |-> Requires(s, n), description |-> p.description, enum |-> p.enum,
        type |-> IF image THEN "image" ELSE p.type,
        item |-> IF p.item = "none" THEN "string" ELSE p.item,
        cap  |-> IF image /\ p.cap # {} THEN The(p.cap) ELSE 1]

FieldOf(n, s, allowImages) ==
    LET p == s.props[n]
        image == IsImage(p, allowImages)
    IN [name |-> n, required |-> Requires(s, n), description |-> p.description, enum |-> p.enum,
        type |-> IF image THEN "image" ELSE p.type,
        item |-> IF p.item = "none" THEN "string" ELSE p.item,
        cap  |-> IF ~image THEN 1 ELSE IF p.cap = {} THEN 0 ELSE The(p.cap)]

\* A drawable schema's fields, in the order of its text.
SchemaToFields(s, allowImages) == [i \in DOMAIN s.order |-> FieldOf(s.order[i], s, allowImages)]

PropertyOf(f) ==
    LET image == f.type = "image" IN
    [type       |-> IF image THEN "array" ELSE f.type,
     description |-> Trimmed[f.description],
     enum       |-> IF f.type = "string" THEN f.enum ELSE <<>>,
     format     |-> "none",
     item       |-> IF image THEN "string" ELSE IF f.type = "array" THEN f.item ELSE "none",
     itemFormat |-> IF image THEN "image" ELSE "none",
     cap        |-> IF image /\ f.cap > 0 THEN {f.cap} ELSE {},
     lost       |-> FALSE, rich |-> FALSE]

Named(fields) == {i \in DOMAIN fields : Trimmed[fields[i].name] # ""}

\* The places in S from first to last, and the names of the fields there.
InOrder(S) == CHOOSE q \in [1..Cardinality(S) -> S] : \A j, k \in DOMAIN q : j < k => q[j] < q[k]
NamesAt(fields, S) == [k \in 1..Cardinality(S) |-> Trimmed[fields[InOrder(S)[k]].name]]

\* Where a name comes first.
Firsts(fields) == {i \in Named(fields) : \A j \in Named(fields) :
                       Trimmed[fields[j].name] = Trimmed[fields[i].name] => i <= j}

\* Unnamed fields are skipped; of two with one name the later one is kept, in the place
\* of the first, and the name is required once for each that asks for it.
FieldsToSchema(fields) ==
    LET at(n)  == {i \in Named(fields) : Trimmed[fields[i].name] = n}
        last(n) == CHOOSE i \in at(n) : \A j \in at(n) : j <= i
        N == {Trimmed[fields[i].name] : i \in Named(fields)}
    IN [EmptyObject EXCEPT
          !.props    = [n \in N |-> PropertyOf(fields[last(n)])],
          !.order    = NamesAt(fields, Firsts(fields)),
          !.required = NamesAt(fields, {i \in Named(fields) : fields[i].required})]

HasDuplicates(fields) ==
    \E i, j \in Named(fields) : i # j /\ Trimmed[fields[i].name] = Trimmed[fields[j].name]

-----------------------------------------------------------------------------
\* The constraints of an answer that is no object; they survive a change of type.
Constraints == [enum : Seq(Words), pattern : {"", "regex", "broken"},
                min : Bounds, max : Bounds, item : ScalarTypes]

DetectType(s) == IF s.type \in ScalarTypes \cup {"array"} THEN s.type ELSE "object"

InitConstraints(s) ==
    [enum    |-> s.enum, pattern |-> s.pattern,
     min     |-> IF s.type \in {"string", "number", "integer", "array"} THEN s.min ELSE {},
     max     |-> IF s.type \in {"string", "number", "integer", "array"} THEN s.max ELSE {},
     item    |-> IF s.type = "array" /\ s.item \in ScalarTypes THEN s.item ELSE "string"]

Numbers == {"1", "1.5"}
Numeric(ws)   == \A k \in DOMAIN ws : ws[k] \in Numbers
Truncated(ws) == [k \in DOMAIN ws |-> IF ws[k] = "1.5" THEN "1" ELSE ws[k]]

\* What an allowed-values text means for the type; no number means nothing.
EnumFor(t, c) ==
    CASE t = "string" \/ (t = "array" /\ c.item = "string") -> c.enum
      [] t = "number"  /\ Numeric(c.enum) -> c.enum
      [] t = "integer" /\ Numeric(c.enum) -> Truncated(c.enum)
      [] OTHER -> <<>>

BuildScalar(t, c) ==
    IF t = "boolean" THEN Only(t)
    ELSE [Only(t) EXCEPT !.enum = EnumFor(t, c), !.min = c.min, !.max = c.max,
                         !.pattern = IF t = "string" THEN c.pattern ELSE "",
                         !.item = IF t = "array" THEN c.item ELSE "none"]

ScalarValid(t, c) ==
    \/ t = "boolean"
    \/ /\ \A lo \in c.min, hi \in c.max : lo <= hi
       /\ t \in {"string", "array"}   => \A b \in c.min \cup c.max : b >= 0
       /\ t \in {"number", "integer"} => Numeric(c.enum)
       /\ t = "string" => c.pattern # "broken"
=============================================================================
