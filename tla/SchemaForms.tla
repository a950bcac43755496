---------------------------- MODULE SchemaForms -----------------------------
(***************************************************************************)
(* One of the two panes of a task's schema section (pages/TasksPage.tsx,   *)
(* SchemaSection), with the editor it mounts (components/SchemaEditor.tsx, *)
(* components/OutputSchemaEditor.tsx).                                     *)
(*                                                                         *)
(* Three things hold the schema: the task, the section ("held", what the   *)
(* save button sends) and the editor, which copies its start from the      *)
(* section when it mounts and then only reports its edits.  The panes      *)
(* share the save button alone, so one is modelled, either of the two; how *)
(* the request fares is TaskStudio's.                                      *)
(***************************************************************************)
EXTENDS DefaultPrompts

CONSTANTS Stored,      \* schemas a task may come with
          Typed,       \* what may be typed as JSON
          Patches,     \* edits of a field, each a record of what it sets
          Answers,     \* constraints that may be entered
          MaxFields, MaxEdits   \* bounds

ASSUME FormsAssumption ==
    /\ (\A s \in Stored \cup Typed : IsSchema(s)) /\ Answers \subseteq Constraints
    /\ \A p \in Patches : [k \in DOMAIN EmptyField |-> IF k \in DOMAIN p THEN p[k] ELSE EmptyField[k]]
                           \in SchemaField
    /\ MaxEdits \in Nat

VARIABLES pane,        \* "input" or "output"
          stored,      \* the task's schema
          enabled,     \* the pane is switched on
          held,        \* the section's {schema, valid}
          editor,      \* the editor that is mounted
          edited,      \* the user edited since the schema was loaded or saved
          used         \* edits so far

vars == <<pane, stored, enabled, held, editor, edited, used>>

AllowImages == pane = "input"

\* An editor: the answer's type and constraints (an input is always an object),
\* and the tab, the fields and the text of the object editor.
EditorOn(p, s) ==
    LET t     == IF p = "input" THEN "object" ELSE DetectType(s)
        start == IF t = "object" THEN s ELSE EmptyObject
        drawn == Drawable(start, p = "input")
    IN [type |-> t, c |-> InitConstraints(s),
        mode   |-> IF drawn THEN "fields" ELSE "json",
        fields |-> IF drawn THEN SchemaToFields(start, p = "input") ELSE <<>>,
        raw    |-> start]

Init == /\ pane \in {"input", "output"}
        /\ stored \in Stored
        /\ enabled = HasSchema(stored)
        /\ held = [schema |-> IF stored.type = "null" THEN EmptyObject ELSE stored, valid |-> TRUE]
        /\ editor = EditorOn(pane, held.schema)
        /\ edited = FALSE /\ used = 0

Report(s, ok) == held' = [schema |-> s, valid |-> ok]

Edited == /\ enabled
          /\ used < MaxEdits /\ used' = used + 1
          /\ edited' = TRUE
          /\ UNCHANGED <<pane, stored, enabled>>

-----------------------------------------------------------------------------
\* Faulty: a list with a name twice is reported as any other.
CommitAnyFields(next) ==
    /\ Edited
    /\ editor.type = "object" /\ editor.mode = "fields"
    /\ editor' = [editor EXCEPT !.fields = next]
    /\ Report(FieldsToSchema(next), TRUE)

\* SchemaEditor: the field list.
CommitFields(next) ==
    /\ Edited
    /\ editor.type = "object" /\ editor.mode = "fields"
    /\ editor' = [editor EXCEPT !.fields = next]
    /\ Report(FieldsToSchema(next), ~HasDuplicates(next))

Patched(f, p) == [k \in DOMAIN f |-> IF k \in DOMAIN p THEN p[k] ELSE f[k]]

\* The type "image" is offered for inputs alone.
UpdateField(i, p) ==
    /\ Patched(editor.fields[i], p).type = "image" => AllowImages
    /\ CommitFields([editor.fields EXCEPT ![i] = Patched(@, p)])

AddField       == CommitFields(Append(editor.fields, EmptyField))
RemoveField(i) == CommitFields([j \in 1..Len(editor.fields) - 1 |->
                                   editor.fields[IF j < i THEN j ELSE j + 1]])

\* SchemaEditor: the text.
OnRawChange(s) ==
    /\ Edited
    /\ editor.type = "object" /\ editor.mode = "json"
    /\ editor' = [editor EXCEPT !.raw = s]
    /\ IF s.type \in {"unparsable", "null"} THEN Report(Only("empty"), FALSE) ELSE Report(s, TRUE)

\* To the text: the fields are written out and nothing is reported.
SwitchToJson ==
    /\ enabled /\ editor.type = "object" /\ editor.mode = "fields"
    /\ editor' = [editor EXCEPT !.mode = "json", !.raw = FieldsToSchema(editor.fields)]
    /\ UNCHANGED <<pane, stored, enabled, held, edited, used>>

\* To the fields, if the text can be drawn as fields.
SwitchToFields ==
    /\ enabled /\ editor.type = "object" /\ editor.mode = "json"
    /\ editor.raw.type # "unparsable" /\ Drawable(editor.raw, AllowImages)
    /\ LET fields == SchemaToFields(editor.raw, AllowImages) IN
         /\ editor' = [editor EXCEPT !.mode = "fields", !.fields = fields]
         /\ Report(FieldsToSchema(fields), TRUE)
    /\ UNCHANGED <<pane, stored, enabled, edited, used>>

-----------------------------------------------------------------------------
\* OutputSchemaEditor: another type keeps the constraints; "object" starts blank.
OnTypeChange(t) ==
    /\ pane = "output" /\ Edited /\ t # editor.type
    /\ editor' = [EditorOn(pane, EmptyObject) EXCEPT !.type = t, !.c = editor.c]
    /\ IF t = "object" THEN Report(EmptyObject, TRUE)
       ELSE Report(BuildScalar(t, editor.c), ScalarValid(t, editor.c))

Update(c) ==
    /\ pane = "output" /\ Edited /\ editor.type \notin {"object", "boolean"}
    /\ editor' = [editor EXCEPT !.c = c]
    /\ Report(BuildScalar(editor.type, c), ScalarValid(editor.type, c))

-----------------------------------------------------------------------------
\* SchemaSection: the switch, which unmounts the editor and mounts it anew; while
\* it is off, "editor" is the one that would be mounted.
OnToggle ==
    /\ enabled' = ~enabled
    /\ editor' = EditorOn(pane, held.schema)
    /\ UNCHANGED <<pane, stored, held, edited, used>>

Current   == IF enabled THEN held.schema ELSE Only("null")
Original  == IF HasSchema(stored) THEN stored ELSE Only("null")
\* Compared as texts with sorted keys: the order of the properties does not count.
TextOf(s) == [s EXCEPT !.order = <<>>]
Dirty     == TextOf(Current) # TextOf(Original)
Invalid   == enabled /\ ~held.valid

Save == /\ Dirty /\ ~Invalid
        /\ stored' = Current
        /\ edited' = FALSE
        /\ UNCHANGED <<pane, enabled, held, editor, used>>

Next == \/ \E i \in DOMAIN editor.fields, p \in Patches : UpdateField(i, p)
        \/ Len(editor.fields) < MaxFields /\ AddField
        \/ \E i \in DOMAIN editor.fields : RemoveField(i)
        \/ \E s \in Typed : OnRawChange(s)
        \/ SwitchToJson
        \/ SwitchToFields
        \/ \E t \in ScalarTypes \cup {"array", "object"} : OnTypeChange(t)
        \/ \E c \in Answers : Update(c)
        \/ OnToggle
        \/ Save

Spec == Init /\ [][Next]_vars

-----------------------------------------------------------------------------
\* The schema an editor shows, as it would report it.
Writes(e) == IF e.type # "object" THEN BuildScalar(e.type, e.c)
             ELSE IF e.mode = "json" THEN e.raw ELSE FieldsToSchema(e.fields)

\* What the screen shows, and what it would show had the editor just opened on s.
OnScreen   == Writes(editor)
Redrawn(s) == Writes(EditorOn(pane, s))

FormsTypeOK ==
    /\ pane \in {"input", "output"} /\ enabled \in BOOLEAN /\ edited \in BOOLEAN /\ used \in 0..MaxEdits
    /\ IsSchema(stored) /\ IsSchema(held.schema) /\ held.valid \in BOOLEAN
    /\ editor.type \in ScalarTypes \cup {"array", "object"} /\ editor.c \in Constraints
    /\ editor.mode \in {"fields", "json"} /\ editor.fields \in Seq(SchemaField)
    /\ IsSchema(editor.raw)

\* What the save button may send is what is on the screen: the same schema, or one
\* that is shown as the editor draws it (a keyword the editor does not draw may be
\* held until the first edit).  A name stands twice among the fields only when they
\* were drawn, and not touched, from a schema with names that differ by spaces.
SavableIsShown ==
    enabled /\ held.valid =>
        /\ held.schema = OnScreen \/ OnScreen = Redrawn(held.schema)
        /\ editor.type = "object" /\ editor.mode = "fields" /\ HasDuplicates(editor.fields) =>
             \E s \in Stored \cup Typed : editor.fields = SchemaToFields(s, AllowImages)

\* The required names stand as their properties do.
InKeyOrder(s) == \A j, k \in DOMAIN s.required : j < k =>
                    \E m, n \in DOMAIN s.order :
                       m < n /\ s.order[m] = s.required[j] /\ s.order[n] = s.required[k]

\* Nothing in a schema is beyond the editor that draws it: every keyword is one it
\* writes back, the required names are declared, each once and in the order of the
\* properties, names and descriptions are bare, and a cap lets a picture through (one
\* that does not is drawn as none).
Plain(s) ==
    /\ ~s.lost
    /\ DetectType(s) # "object" => BuildScalar(s.type, InitConstraints(s)) = s
    /\ DetectType(s) = "object" /\ Drawable(s, AllowImages) =>
         /\ \A k \in DOMAIN s.required : s.required[k] \in DOMAIN s.props
         /\ InKeyOrder(s)
         /\ \A n \in DOMAIN s.props : LET p == s.props[n] IN
              /\ n = Trimmed[n] /\ n # "" /\ p.description = Trimmed[p.description]
              /\ ~p.lost /\ p.format = "none"
              /\ p.type = "array" => p.item # "none"
              /\ \A cap \in p.cap : cap > 0

\* Looking changes nothing: without an edit since the schema was loaded or saved, no
\* round of tabs and switches makes a schema count as changed that has nothing
\* beyond its editor.
LookingIsClean ==
    ~edited /\ enabled /\ HasSchema(stored) /\ Plain(stored) => ~Dirty

\* A field the author made an image, in a list that can be saved and has no name
\* twice, is one to the server, but for the spaces around its name; and the prompt
\* written from the schema inlines no field the server takes for an image.
ImagesAreImages ==
    pane = "input" /\ enabled /\ held.valid =>
        LET images == ImageInputFields(held.schema)
            lines  == BuildDefaultPrompts(held.schema)
        IN /\ editor.mode = "fields" /\ ~HasDuplicates(editor.fields) =>
                \A i \in Named(editor.fields) : editor.fields[i].type = "image" =>
                    \E n \in images : Trimmed[n] = Trimmed[editor.fields[i].name]
           /\ \A l \in lines : l.name \in images => ~l.inlined /\ l.guarded
=============================================================================
