------------------------------ MODULE WriteSet ------------------------------
(***************************************************************************)
(* What the redo entry collector promises, byte by byte: between           *)
(* instrument_start and the end of instrument_stop it follows the writes   *)
(* of the thread, and the section ends with all of them in the log, and    *)
(* nothing else but bytes that share a payload with one of them.  The log  *)
(* module Persistence builds on is filled by such sections.                *)
(***************************************************************************)
EXTENDS Integers

CONSTANT Reach      \* bytes of a payload

VARIABLES
    open,       \* a section is being executed or logged
    dirty,      \* bytes written in the section
    durable     \* bytes committed to the log when it ended

vars == <<open, dirty, durable>>

Init == ~open /\ dirty = {} /\ durable = {}

Open == ~open /\ open' /\ dirty' = {} /\ durable' = {}

Write == open /\ dirty \subseteq dirty' /\ UNCHANGED <<open, durable>>

Near(b) == \E d \in dirty : b - d < Reach /\ d - b < Reach

Close ==
    /\ open
    /\ ~open'
    /\ dirty \subseteq durable'
    /\ \A b \in durable' : Near(b)
    /\ UNCHANGED dirty

Next == Open \/ Write \/ Close

Spec == Init /\ [][Next]_vars
=============================================================================
