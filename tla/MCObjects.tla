----------------------------- MODULE MCObjects -----------------------------
(***************************************************************************)
(* Values for the runs of Objects.  With a header of 2 bytes for strings of *)
(* 64 bytes and more, an entry of 250 bytes is 253 bytes long after a short *)
(* one and 257 after a long one: its own length crosses 254, where the      *)
(* prevlen of the next entry changes width.                                 *)
(***************************************************************************)
EXTENDS Objects

Short == String(1, 3)
Middle == String(2, 250)
Long == String(3, 300)
TooLongString == String(4, 400)

ListOfAll == {Integer(5), Middle, Long, TooLongString}

\* Integers of all three widths of an intset with base 4, on both sides of 0.
SetOfAll == {Integer(-100), Integer(-5), Integer(-1), Integer(1), Integer(6), Integer(90), Short}

\* A field that is also a value.
Fields == {Integer(1), Middle, Long}
FieldValues == {Integer(1), Short, Middle, Long}

\* In the order of memcmp.
Members == <<Integer(1), Middle, Long, Short>>
=============================================================================
