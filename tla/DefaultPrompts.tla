--------------------------- MODULE DefaultPrompts ---------------------------
(***************************************************************************)
(* The user prompt the studio writes from a task's input schema            *)
(* (utils/defaultPrompts.ts), and which fields the server takes for images *)
(* when it renders one (tasks/render.go).  A prompt is the set of its      *)
(* input lines: the wording, the system prompt and the output contract in  *)
(* it are left out.                                                        *)
(***************************************************************************)
EXTENDS SchemaFields

CONSTANTS ImageNames,   \* the names that mean an image whatever the schema says
          Lowered       \* a text in lower case

ASSUME LowerAssumption == \A n \in ImageNames \cap Texts : Lowered[n] = n

FieldsOf(s) == {[name |-> n, schema |-> s.props[n], required |-> Requires(s, n)] : n \in DOMAIN s.props}

IsImageField(f) == \/ f.schema.type = "string" /\ f.schema.format = "image"
                   \/ f.schema.type = "array" /\ f.schema.itemFormat = "image"
                   \/ Lowered[f.name] \in ImageNames

\* One line a field: an image is gated on and never inlined, an optional field
\* is guarded.
InputLine(f) == [name |-> f.name, inlined |-> ~IsImageField(f),
                 guarded |-> IsImageField(f) \/ ~f.required]

\* Faulty: only a field's own format is looked at, not that of its items.
BuildFromStrings(s) ==
    {[InputLine(f) EXCEPT !.inlined = f.schema.format # "image" /\ Lowered[f.name] \notin ImageNames] : f \in FieldsOf(s)}

BuildDefaultPrompts(s) == {InputLine(f) : f \in FieldsOf(s)}

\* The server: an image's value is replaced by the number of its pictures.  A schema
\* it cannot decode has the names alone, as they are written.
Decodes(s) == \A n \in DOMAIN s.props : s.props[n].type # "list"

ImageInputFields(s) ==
    ImageNames \cup {n \in DOMAIN s.props :
        /\ Decodes(s)
        /\ \/ s.props[n].type = "string" /\ s.props[n].format = "image"
           \/ s.props[n].type = "array" /\ s.props[n].itemFormat = "image"}
=============================================================================
