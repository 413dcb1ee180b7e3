------------------------------ MODULE MCPages -------------------------------
(* Memory maps for TLC, in pages of two bytes. *)
EXTENDS Pages

Region(base, length) == [base |-> base, length |-> length]

\* regions that start and end inside a page, regions that overlap and go beyond the
\* largest memory, and regions that touch; nine pages are not whole words of four
MCMemoryMaps == {<<Region(0, 7), Region(9, 10)>>, <<Region(0, 12), Region(6, 14)>>,
                 <<Region(0, 6), Region(6, 12)>>}
MCReserved == <<Region(0, 6), Region(8, 2)>>
MCBoot == <<0, 1, 2>>
=============================================================================
