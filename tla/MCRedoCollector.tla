-------------------------- MODULE MCRedoCollector ---------------------------
(* Lines of two bytes in a table of four slots, two of them home slots: the
   stores touch one, two or three of five lines, so that probes collide, wrap
   around and meet a full table; one memcpy is not aligned, one is empty. *)
EXTENDS CollectorReference

Touch(a, n) == [addr |-> a, size |-> n]
MCStores == {Touch(4, 1), Touch(5, 2), Touch(7, 4), Touch(10, 1), Touch(14, 2)}
MCCopies == {Touch(5, 3), Touch(8, 0)}
=============================================================================
