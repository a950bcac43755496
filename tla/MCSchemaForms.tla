--------------------------- MODULE MCSchemaForms ----------------------------
(***************************************************************************)
(* Instance of SchemaForms for TLC: what a task may come with, and what    *)
(* may be typed.                                                           *)
(***************************************************************************)
EXTENDS SchemaForms

MCTexts   == {"", " ", "a", " a", "image", "Image"}
MCTrimmed == [t \in MCTexts |-> CASE t = " " -> "" [] t = " a" -> "a" [] OTHER -> t]
MCLowered == [t \in MCTexts |-> IF t = "Image" THEN "image" ELSE t]

Bare(t)  == [type |-> t, description |-> "", enum |-> <<>>, format |-> "none", item |-> "none",
             itemFormat |-> "none", cap |-> {}, lost |-> FALSE, rich |-> FALSE]
Pictures == [Bare("array") EXCEPT !.item = "string", !.itemFormat = "image"]

One(n, p) == [EmptyObject EXCEPT !.props = [m \in {n} |-> p], !.order = <<n>>]
Two(n, p, m, q) ==
    [EmptyObject EXCEPT !.props = [x \in {n, m} |-> IF x = n THEN p ELSE q], !.order = <<n, m>>]

\* Schemas the list of fields writes, draws with a loss, and does not draw.
Objects == { [Two("image", Bare("string"), "a", Pictures) EXCEPT !.required = <<"image", "a">>],
             [Two("a", Bare("string"), "Image", Bare("string")) EXCEPT !.required = <<"Image", "a">>],
             [One("a", [Pictures EXCEPT !.cap = {2}]) EXCEPT !.required = <<"a">>],
             One("a", [Pictures EXCEPT !.cap = {0}]),
             [Two("a", Bare("string"), " a", Pictures) EXCEPT !.required = <<"a", " a">>],
             [One("a", Bare("array")) EXCEPT !.lost = TRUE, !.required = <<"image">>],
             One(" a", [Bare("string") EXCEPT !.lost = TRUE, !.enum = <<"red">>]),
             One("a", [Bare("string") EXCEPT !.description = " a"]),
             One("a", [Bare("string") EXCEPT !.format = "image"]),
             Two("a", Pictures, "image", Bare("list")) }
Scalars == { [Only("integer") EXCEPT !.enum = <<"1.5", "1">>, !.min = {0}],
             [Only("array") EXCEPT !.item = "object", !.max = {2}],
             [Only("string") EXCEPT !.pattern = "regex", !.lost = TRUE],
             [Only("any") EXCEPT !.rich = TRUE] }

MCStored == {Only("null"), Only("empty"), [EmptyObject EXCEPT !.lost = TRUE]} \cup Objects \cup Scalars
MCTyped  == {Only("unparsable"), Only("null"), Only("empty")} \cup Objects \cup Scalars

MCPatches == {[name |-> n] : n \in MCTexts} \cup {[type |-> t] : t \in {"string", "array", "image"}}
             \cup {[required |-> b] : b \in BOOLEAN} \cup {[description |-> " a"]}
             \cup {[cap |-> n] : n \in {0, 2}} \cup {[item |-> "number"], [enum |-> <<"red">>]}

MCAnswers == [enum : {<<>>, <<"1.5">>, <<"red">>}, pattern : {"", "broken"}, min : {{}, {2}},
              max : {{}, {-1}, {1}}, item : {"string", "number"}]
=============================================================================
