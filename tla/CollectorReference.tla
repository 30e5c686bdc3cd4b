------------------------- MODULE CollectorReference -------------------------
(***************************************************************************)
(* The inserted code beside its reference: every store that reaches the    *)
(* table of RedoCollector is also given to the hash set of hash_set.c.     *)
(***************************************************************************)
EXTENDS RedoCollector, HashSet

CONSTANT MaxCollisions      \* bound: collisions the reference counts in a section

ASSUME CollisionsBound == MaxCollisions \in Nat

(* PAYLOAD_SIZE divides HASH_SET_ADDRESS_COVERAGE, and nothing is stored to the
   block at address 0, which the reference could not tell from a free slot. *)
ASSUME CoverageAssumption ==
    /\ Coverage % LineSize = 0
    /\ \A r \in StoreRanges : r.addr >= Coverage

RefInit == Init /\ HashSetInit

(* A section starts with an empty reference, as with an empty table. *)
RefStart == InstrumentStart /\ ResetReference

(* The reference is called with every store that reaches the table. *)
RefStore(r) ==
    /\ reference.numberOfCollisions <= MaxCollisions
    /\ BeginStore(r)
    /\ \/ CombinerWord # 0 /\ build = "dedup" /\ AddRedoLogStub(r.addr, r.size)
       \/ ~(CombinerWord # 0 /\ build = "dedup") /\ UNCHANGED hashSetVars

(* The two share nothing: the reference runs first. *)
ClientStep == hpc = "idle" /\ Client /\ UNCHANGED hashSetVars

RefNext ==
    \/ RefStart
    \/ \E r \in StoreRanges : RefStore(r)
    \/ InstrumentStop /\ UNCHANGED hashSetVars
    \/ ResetHashSet /\ UNCHANGED hashSetVars
    \/ \E r \in CopyRanges : (InstrumentedMemcpy(r) \/ WrapPre(r)) /\ UNCHANGED hashSetVars
    \/ ClientStep
    \/ ReferenceStep /\ UNCHANGED vars

refVars == <<vars, hashSetVars>>

(* The processor goes on executing the thread, and the reference beside it. *)
RefSpec ==
    /\ RefInit /\ [][RefNext]_refVars
    /\ WF_refVars(ClientStep)
    /\ WF_refVars(ReferenceStep /\ UNCHANGED vars)

(* Between two stores of a section, the table has a
   line for exactly those blocks that the reference has: neither loses or
   invents one, however the probes of the two collide and however often the
   reference has grown. *)
AgreesWithReference ==
    pc = "app" /\ inSection /\ build = "dedup" =>
        {Aligned(l, Coverage) : l \in Lines} = SetLines(reference)

(* The reference is sound at every step, also while it grows: no block twice,
   every block on the probe path from its home slot, a free slot left for the
   next probe or a growth due, the statistics right ("Subset of
   [numberOfCollisions]"). *)
ReferenceSound ==
    LET h == reference
    IN /\ \A k \in DOMAIN h.setOfEntries :
              h.setOfEntries[k] # 0 =>
                  ProbeSlot(h, h.setOfEntries[k], Distance(h, h.setOfEntries[k])) = k
       /\ h.numberOfEntries = Cardinality(SetLines(h))
       /\ h.numberOfEntries <= h.maxElementsBeforeResize
       /\ h.maxElementsBeforeResize <= h.size
       /\ h.numberOfDuplicates <= h.numberOfCollisions
=============================================================================
