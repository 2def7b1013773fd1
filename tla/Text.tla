-------------------------------- MODULE Text --------------------------------
(***************************************************************************)
(* Documents as sequences of characters, and what the C library and the    *)
(* helpers of src/src/ini.c do to them.  A character is a string of its    *)
(* own; "NL", "CR" and "NUL" are the ones that need a name.                *)
(***************************************************************************)
EXTENDS Integers, Sequences, FiniteSetsExt

\* isspace()
Blanks == {" ", "CR", "NL"}

\* The first of some positions of s, or the position after the last one.
FirstOf(positions, s) == IF positions = {} THEN Len(s) + 1 ELSE Min(positions)

Solid(s) == {i \in DOMAIN s : s[i] \notin Blanks}

\* s without the blanks it begins and ends with.
Trim(s) == IF Solid(s) = {} THEN <<>> ELSE SubSeq(s, Min(Solid(s)), Max(Solid(s)))

\* s up to a position, without it.
Before(s, i) == SubSeq(s, 1, i - 1)
After(s, i) == SubSeq(s, i + 1, Len(s))

=============================================================================
