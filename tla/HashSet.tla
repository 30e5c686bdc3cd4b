------------------------------ MODULE HashSet -------------------------------
(***************************************************************************)
(* The address hash set in C (hash_set.c), the reference for the machine   *)
(* code that RedoCollector models: "This will need to be implemented in    *)
(* assembly and inserted using Dynamorio API."  Unlike that code it        *)
(* doubles the table when the number of entries reaches a threshold.       *)
(*                                                                         *)
(* A hash set is a record, and inserting a line is a function of it.  The  *)
(* two loops, over the lines of a store and over the slots of a table that *)
(* is replaced by a larger one, are steps.                                 *)
(***************************************************************************)
EXTENDS Integers

CONSTANTS
    Coverage,           \* HASH_SET_ADDRESS_COVERAGE, 1 << MASK_SHIFT
    InitialSize,        \* size given to address_hash_set_initialise
    ThresholdNum,       \* resizeThreshold, a fraction
    ThresholdDen

(* (int)(size * resizeThreshold). *)
MaxElements(size) == (size * ThresholdNum) \div ThresholdDen

(* The threshold lies between one entry and all of them, and passes the
   assertion of address_hash_set_resize that the product is an integer. *)
ASSUME ThresholdAssumption ==
    /\ Coverage \in Nat \ {0} /\ InitialSize \in Nat \ {0}
    /\ ThresholdDen \in Nat \ {0} /\ ThresholdNum \in 1 .. ThresholdDen
    /\ (2 * InitialSize * ThresholdNum) % ThresholdDen = 0

VARIABLES
    reference,          \* the address_hash_set
    hpc,                \* place in address_hash_set_add_redo_log_stub
    alignedAddress,     \* its loop variable
    stubEnd,            \* its range, the end of the store
    original,           \* setOfEntries of originalAddressHashSet while it is copied
    copied              \* loop index of address_hash_set_resize

stubVars == <<alignedAddress, stubEnd>>
resizeVars == <<original, copied>>
hashSetVars == <<reference, hpc, stubVars, resizeVars>>

NoTable == [k \in {} |-> 0]

(* address_hash_set_initialise. *)
Initialise(size) ==
    [size |-> size,
     maxElementsBeforeResize |-> MaxElements(size),
     setOfEntries |-> [k \in 0 .. size - 1 |-> 0],
     numberOfEntries |-> 0,
     numberOfCollisions |-> 0,
     numberOfDuplicates |-> 0,
     numberOfResizes |-> 0]

(* address_hash_set_reset: the table keeps its size. *)
Reset(h) == Initialise(h.size)

SetLines(h) == {h.setOfEntries[k] : k \in DOMAIN h.setOfEntries} \ {0}

(* The slot a probe for the line comes to after d steps, and the first d at
   which addressIsProcessed: the slot is free or has the line. *)
ProbeSlot(h, line, d) == (line + d) % h.size
Processed(h, line, d) == h.setOfEntries[ProbeSlot(h, line, d)] \in {0, line}
Distance(h, line) ==
    CHOOSE d \in 0 .. h.size - 1 :
        Processed(h, line, d) /\ \A e \in 0 .. d - 1 : ~Processed(h, line, e)

(* address_hash_set_insert_aligned_block_address.  Every slot that was not
   free counts as a collision, the one with the line itself too. *)
InsertAligned(h, line) ==
    LET d == Distance(h, line)
        k == ProbeSlot(h, line, d)
    IN IF h.setOfEntries[k] = 0
       THEN [h EXCEPT !.setOfEntries[k] = line,
                      !.numberOfEntries = @ + 1,
                      !.numberOfCollisions = @ + d]
       ELSE [h EXCEPT !.numberOfDuplicates = @ + 1,
                      !.numberOfCollisions = @ + d + 1]

HashSetInit ==
    /\ reference = Initialise(InitialSize)
    /\ hpc = "idle"
    /\ alignedAddress = 0 /\ stubEnd = 0
    /\ original = NoTable /\ copied = 0

ResetReference ==
    /\ hpc = "idle"
    /\ reference' = Reset(reference)
    /\ UNCHANGED <<hpc, stubVars, resizeVars>>

(* address_hash_set_add_redo_log_stub is called. *)
AddRedoLogStub(addr, size) ==
    /\ hpc = "idle"
    /\ alignedAddress' = addr - (addr % Coverage)
    /\ stubEnd' = addr + size
    /\ hpc' = "stubs"
    /\ UNCHANGED <<reference, resizeVars>>

(* The head of its loop, the test for growth and the insertion. *)
StubsDone ==
    /\ hpc = "stubs" /\ alignedAddress >= stubEnd
    /\ hpc' = "idle"
    /\ alignedAddress' = 0 /\ stubEnd' = 0
    /\ UNCHANGED <<reference, resizeVars>>

(* Faulty variant: the comparison is one entry late. *)
FaultyStubFits ==
    /\ hpc = "stubs" /\ alignedAddress < stubEnd
    /\ reference.numberOfEntries # reference.maxElementsBeforeResize + 1
    /\ hpc' = "insert"
    /\ UNCHANGED <<reference, stubVars, resizeVars>>

StubFits ==
    /\ hpc = "stubs" /\ alignedAddress < stubEnd
    /\ reference.numberOfEntries # reference.maxElementsBeforeResize
    /\ hpc' = "insert"
    /\ UNCHANGED <<reference, stubVars, resizeVars>>

InsertStub ==
    /\ hpc = "insert"
    /\ reference' = InsertAligned(reference, alignedAddress)
    /\ alignedAddress' = alignedAddress + Coverage
    /\ hpc' = "stubs"
    /\ UNCHANGED <<stubEnd, resizeVars>>

(* address_hash_set_resize: the statistics are carried over to a table of
   twice the size, *)
Resize ==
    /\ hpc = "stubs" /\ alignedAddress < stubEnd
    /\ reference.numberOfEntries = reference.maxElementsBeforeResize
    /\ reference' = [Initialise(2 * reference.size) EXCEPT
                        !.numberOfResizes = reference.numberOfResizes + 1,
                        !.numberOfCollisions = reference.numberOfCollisions,
                        !.numberOfDuplicates = reference.numberOfDuplicates]
    /\ original' = reference.setOfEntries /\ copied' = 0
    /\ hpc' = "resize"
    /\ UNCHANGED stubVars

(* the lines enter it in the order of the slots, *)
CopyEntry ==
    /\ hpc = "resize" /\ copied \in DOMAIN original
    /\ reference' = IF original[copied] # 0 THEN InsertAligned(reference, original[copied])
                    ELSE reference
    /\ copied' = copied + 1
    /\ UNCHANGED <<hpc, stubVars, original>>

(* and the line that did not fit is inserted. *)
ResizeDone ==
    /\ hpc = "resize" /\ copied \notin DOMAIN original
    /\ hpc' = "insert"
    /\ original' = NoTable /\ copied' = 0
    /\ UNCHANGED <<reference, stubVars>>

ReferenceStep == StubsDone \/ StubFits \/ InsertStub \/ Resize \/ CopyEntry \/ ResizeDone
=============================================================================
