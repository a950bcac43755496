---------------------------- MODULE ImagePicker ----------------------------
(***************************************************************************)
(* The image field of a "Try it" panel.  A pick reads its files in the     *)
(* background and then commits them after the images it saw when it began. *)
(***************************************************************************)
EXTENDS Naturals, Sequences

CONSTANTS Images,     \* the images there are
          Multi,      \* the field takes several
          MaxImages   \* how many, 0 for no limit

ASSUME PickerAssumption == Multi \in BOOLEAN /\ MaxImages \in Nat

VARIABLES images,       \* what the field holds
          picks,        \* picks whose files are being read
          wanted,       \* history: see ImagesKept
          raced

pickerVars == <<images, picks, wanted, raced>>

PickerInit == images = <<>> /\ picks = {} /\ wanted = <<>> /\ raced = FALSE

Capped(s) == IF MaxImages > 0 /\ Len(s) > MaxImages THEN SubSeq(s, 1, MaxImages) ELSE s

\* Faulty: a pick replaces what a field for several holds.
WithPickedOnly(base, files) == Capped(files)

\* The field after a pick of files when it held base.
WithPicked(base, files) == IF Multi THEN Capped(base \o files) ELSE Capped(SubSeq(files, 1, 1))

Without(s, i) == SubSeq(s, 1, i - 1) \o SubSeq(s, i + 1, Len(s))

\* Files are chosen, several only for a field that takes several.
Pick(files) ==
    /\ files # <<>> /\ (Len(files) > 1 => Multi /\ MaxImages # 1)
    /\ picks' = picks \cup {[base |-> images, files |-> files]}
    /\ UNCHANGED <<images, wanted, raced>>

\* They were read.
Commit(p) ==
    /\ p \in picks
    /\ picks'  = picks \ {p}
    /\ images' = WithPicked(p.base, p.files)
    /\ wanted' = (IF Multi THEN Capped(wanted \o p.files) ELSE <<p.files[1]>>)
    /\ raced'  = (raced \/ p.base # images)

\* The cross of an image, the button of its enlargement, and "Clear".
RemoveAt(i) ==
    /\ i \in 1..Len(images)
    /\ images' = Without(images, i) /\ wanted' = IF raced THEN wanted ELSE Without(wanted, i)
    /\ UNCHANGED <<picks, raced>>

Clear ==
    /\ images # <<>>
    /\ images' = <<>> /\ wanted' = <<>>
    /\ UNCHANGED <<picks, raced>>

-----------------------------------------------------------------------------
\* The field holds what the user picked and did not remove, up to its limit, unless
\* it changed while a pick was being read.
ImagesKept == ~raced => images = wanted
=============================================================================
