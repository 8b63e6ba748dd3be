-------------------------------- MODULE Iso --------------------------------
(***************************************************************************)
(* internal/iso: the ISO image is streamed from its source, and on the way *)
(* the magic string in it is replaced by kernel parameters for the machine *)
(* that asks.  Bytes are symbols, and what the patch is made of (extra     *)
(* parameters, consoles, vlan, mac, addresses) is the machine's mac        *)
(* followed by a text that stands for its record.                          *)
(***************************************************************************)
EXTENDS Naturals, Sequences, Functions

CONSTANTS
    Image,   \* the source image
    Magic    \* h.MagicString

ASSUME MagicAssumption == Len(Magic) \in Nat \ {0}
ASSUME ImageAssumption == Image \in Seq(Range(Image))

\* h.magicStrPadding.
Padding == [i \in 1..Len(Magic) |-> " "]

\* constructPatch and parseIPAM.
ConstructPatch(mac, rec) == <<mac>> \o rec

\* Mutant: what there is no room for is appended.
CopyIntoGrowing(b, i, p) == SubSeq(b, 1, i - 1) \o p \o SubSeq(b, i + Len(p), Len(b))

\* Go's copy(b[i:], p): as much of p as there is room for.
CopyInto(b, i, p) ==
    [k \in 1..Len(b) |-> IF k \in i..(i + Len(p) - 1) THEN p[k - i + 1] ELSE b[k]]

\* Where the magic string occurs in b.
Occurrences(b) == {i \in 1..(Len(b) + 1 - Len(Magic)) : SubSeq(b, i, i + Len(Magic) - 1) = Magic}

\* Mutant: an occurrence at the very start is taken for none.
PatchChunkNotFirst(b, patch) ==
    LET found == {i \in Occurrences(b) : i > 1}
        first == CHOOSE i \in found : \A j \in found : i <= j
    IN  IF found = {} THEN b ELSE CopyInto(CopyInto(b, first, Padding), first, patch)

\* Copy's work on what one Read returned: the first occurrence is blanked and
\* the patch written over it.
PatchChunk(b, patch) ==
    LET found == Occurrences(b)
        first == CHOOSE i \in found : \A j \in found : i <= j
    IN  IF found = {} THEN b ELSE CopyInto(CopyInto(b, first, Padding), first, patch)
=============================================================================
