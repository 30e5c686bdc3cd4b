--------------------------- MODULE CollectorProofs ---------------------------
(***************************************************************************)
(* Machine-checked proofs about the redo entry collector, for every table  *)
(* size, payload size and workload of stores and memcpys, in both builds,  *)
(* also when a section touches more lines than the table has slots (the    *)
(* inserted code then never returns, but breaks nothing).                  *)
(*                                                                         *)
(* What event_thread_init does not set is taken to be zero: Unset = {0}.   *)
(***************************************************************************)
EXTENDS RedoCollector, FiniteSetTheorems, TLAPS

Table == 0 .. Slots - 1

(* A probe from slot h meets slot j before slot k. *)
Before(h, j, k) == IF h <= k THEN h <= j /\ j < k ELSE h <= j \/ j < k

(* The buffers have their sizes. *)
CTypes ==
    /\ CollectorTypeOK
    /\ hashSetBypassBuffer \in [0 .. BypassSize - 1 -> Ranges]
    /\ padding = 0

(* What belongs to which label, and when the word combiner is set. *)
PhaseInv ==
    /\ combiner = IF inSection /\ pc \notin {"memcpys", "collect"} THEN 1 ELSE 0
    /\ pc \in {"insert_stubs", "try_to_insert"} => inSection /\ build = "dedup"
    /\ pc \in {"memcpys", "collect"} => inSection
    /\ pc \in {"app", "memcpys", "collect"} => store = NoStore
    /\ pc \in {"insert_stubs", "try_to_insert", "write"} => store \in StoreRanges

(* The arrays hold what the section recorded, and nothing outside it. *)
CountInv ==
    /\ Len(memcpyArray) <= calls
    /\ build = "bypass" => number_of_hash_set_entries <= calls
    /\ ~inSection => memcpyArray = <<>> /\ number_of_hash_set_entries = 0

(* The probe has passed only slots with other lines; instrument_stop has
   emptied the slots it has passed. *)
ProbeInv ==
    /\ \A k \in Table : hash_set_entries[k] = 0 \/ hash_set_entries[k] > LowLimit
    /\ build = "bypass" \/ ~inSection => \A k \in Table : hash_set_entries[k] = 0
    /\ pc = "collect" =>
           /\ \A k \in Table : k < i => hash_set_entries[k] = 0
           /\ i <= IF build = "dedup" THEN Slots ELSE number_of_hash_set_entries
    /\ pc \in {"insert_stubs", "try_to_insert"} => dest > LowLimit
    /\ pc = "try_to_insert" =>
           \A j \in Table : Before(dest % Slots, j, Slot) => hash_set_entries[j] \notin {0, dest}

(* The table without the slots' arithmetic. *)
PathInv ==
    pc # "collect" =>
        /\ \A k, m \in Table :
               hash_set_entries[k] = hash_set_entries[m] => k = m \/ hash_set_entries[k] = 0
        /\ \A k \in Table :
               hash_set_entries[k] # 0 =>
                   \A j \in Table : Before(hash_set_entries[k] % Slots, j, k) =>
                                     hash_set_entries[j] # 0
        /\ build = "dedup" => number_of_hash_set_entries = Cardinality(Lines)

CollectorInv == CTypes /\ PhaseInv /\ CountInv /\ ProbeInv /\ PathInv

(* Where a byte of the section will be logged from, or already was. *)
InTable(b) ==
    \E k \in Table : /\ hash_set_entries[k] # 0 /\ hash_set_entries[k] <= b
                     /\ b < hash_set_entries[k] + LineSize
InCopies(b) ==
    \E n \in (IF pc = "memcpys" THEN i + 1 ELSE 1) .. Len(memcpyArray) :
        /\ pc # "collect"
        /\ b \in Bytes(memcpyArray[n].addr, memcpyArray[n].addr + memcpyArray[n].size)
InBypass(b) ==
    \E n \in (IF pc = "collect" THEN i ELSE 0) .. number_of_hash_set_entries - 1 :
        /\ build = "bypass"
        /\ b \in Bytes(hashSetBypassBuffer[n].addr,
                       hashSetBypassBuffer[n].addr + hashSetBypassBuffer[n].size)
Covered(b) == b \in logged \/ InTable(b) \/ InCopies(b) \/ InBypass(b)

Pending == Bytes(store.addr, store.addr + store.size)

CoverInv ==
    inSection =>
        /\ \A b \in written : Covered(b)
        /\ pc \in {"insert_stubs", "try_to_insert"} =>
               /\ range = store.addr + store.size
               /\ \A b \in Pending : b < dest => InTable(b)
        /\ pc = "try_to_insert" => dest < range
        /\ pc \in {"insert_stubs", "try_to_insert"} => store.addr < dest + LineSize
        /\ pc = "write" => \A b \in Pending : Covered(b)

(* Nothing is logged that is further than a payload from a written byte. *)
NearDirty(b) == \E d \in written \cup Pending : b - d < LineSize /\ d - b < LineSize

ReachInv ==
    inSection =>
        /\ \A b \in logged : NearDirty(b)
        /\ \A k \in Table : hash_set_entries[k] # 0 =>
               \A b \in Bytes(hash_set_entries[k], hash_set_entries[k] + LineSize) : NearDirty(b)
        /\ \A n \in 1 .. Len(memcpyArray) :
               \A b \in Payloads(memcpyArray[n].addr, memcpyArray[n].addr + memcpyArray[n].size) :
                   NearDirty(b)
        /\ build = "bypass" =>
               \A n \in 0 .. number_of_hash_set_entries - 1 :
                   \A b \in Payloads(hashSetBypassBuffer[n].addr,
                                    hashSetBypassBuffer[n].addr + hashSetBypassBuffer[n].size) :
                       NearDirty(b)

WriteInv == CoverInv /\ ReachInv

-----------------------------------------------------------------------------
(***************************************************************************)
(* Arithmetic of slots, lines and payloads.                                *)
(***************************************************************************)

(* The home slot of an address. *)
LEMMA HomeSlot ==
    ASSUME NEW n \in Int
    PROVE  n % Slots \in Table /\ \E q \in Int : n = (Slots * q) + (n % Slots)
<1>1. n = (Slots * (n \div Slots)) + (n % Slots)
  BY TableAssumption
<1>2. n \div Slots \in Int /\ n % Slots \in Table
  BY TableAssumption DEF Table
<1> QED BY <1>1, <1>2

(* The slot of a multiple of the table size plus a slot. *)
LEMMA SlotOfOffset ==
    ASSUME NEW q \in Int, NEW r \in Table
    PROVE  ((Slots * q) + r) % Slots = r
BY TableAssumption DEF Table

(* The distance of a probe from the home slot of l to slot k. *)
LEMMA ProbeDistance ==
    ASSUME NEW l \in Nat, NEW k \in Table
    PROVE  (k - l) % Slots = IF l % Slots <= k THEN k - (l % Slots)
                             ELSE (k - (l % Slots)) + Slots
<1>1. PICK q \in Int : l = (Slots * q) + (l % Slots)
  BY HomeSlot
<1>2. PICK h \in Table : h = l % Slots
  BY HomeSlot
<1>3. h \in Int /\ k \in Int /\ Slots \in Nat /\ Slots * q \in Int /\ 0 <= h /\ h < Slots
      /\ 0 <= k /\ k < Slots
  BY TableAssumption DEF Table
<1>4. CASE h <= k
  <2>1. -q \in Int /\ Slots * (-q) = -(Slots * q)
    BY <1>3
  <2>2. k - l = (Slots * (-q)) + (k - h)
    BY <1>1, <1>2, <1>3, <2>1
  <2>3. k - h \in Table
    BY <1>3, <1>4 DEF Table
  <2> QED BY <1>2, <1>4, <2>1, <2>2, <2>3, SlotOfOffset
<1>5. CASE ~(h <= k)
  <2>1. -q - 1 \in Int /\ Slots * (-q - 1) = -(Slots * q) - Slots
    BY <1>3
  <2>2. k - l = (Slots * (-q - 1)) + ((k - h) + Slots)
    <3>1. PICK p \in Int : p = Slots * q
      BY <1>3
    <3>2. l = p + h /\ Slots * (-q - 1) = -p - Slots
      BY <1>1, <1>2, <2>1, <3>1
    <3>3. k - l = (-p - Slots) + ((k - h) + Slots)
      BY <1>3, <3>2
    <3> QED BY <3>2, <3>3
  <2>3. (k - h) + Slots \in Table
    BY <1>3, <1>5 DEF Table
  <2> QED BY <1>2, <1>5, <2>1, <2>2, <2>3, SlotOfOffset
<1> QED BY <1>4, <1>5

(* The slot that a probe from the home slot of l reaches after j steps. *)
LEMMA ProbeStep ==
    ASSUME NEW l \in Nat, NEW j \in Table
    PROVE  (l + j) % Slots = IF (l % Slots) + j < Slots THEN (l % Slots) + j
                             ELSE ((l % Slots) + j) - Slots
<1>1. PICK q \in Int : l = (Slots * q) + (l % Slots)
  BY HomeSlot
<1>2. PICK h \in Table : h = l % Slots
  BY HomeSlot
<1>3. h \in Int /\ j \in Int /\ Slots \in Nat /\ Slots * q \in Int /\ 0 <= h /\ h < Slots
      /\ 0 <= j /\ j < Slots
  BY TableAssumption DEF Table
<1>4. CASE h + j < Slots
  <2>1. l + j = (Slots * q) + (h + j)
    BY <1>1, <1>2, <1>3
  <2>2. h + j \in Table
    BY <1>3, <1>4 DEF Table
  <2> QED BY <1>2, <1>4, <2>1, <2>2, SlotOfOffset
<1>5. CASE ~(h + j < Slots)
  <2>1. q + 1 \in Int /\ Slots * (q + 1) = (Slots * q) + Slots
    BY <1>3
  <2>2. l + j = (Slots * (q + 1)) + ((h + j) - Slots)
    <3>1. PICK p \in Int : p = Slots * q
      BY <1>3
    <3>2. l = p + h /\ Slots * (q + 1) = p + Slots
      BY <1>1, <1>2, <2>1, <3>1
    <3>3. l + j = (p + Slots) + ((h + j) - Slots)
      BY <1>3, <3>2
    <3> QED BY <3>2, <3>3
  <2>3. (h + j) - Slots \in Table
    BY <1>3, <1>5 DEF Table
  <2> QED BY <1>2, <1>5, <2>1, <2>2, <2>3, SlotOfOffset
<1> QED BY <1>4, <1>5

(* The slots that a probe passes are those it meets before. *)
LEMMA PassedIsBefore ==
    ASSUME NEW l \in Nat, NEW k \in Table
    PROVE  Passed(l, k) = {j \in Table : Before(l % Slots, j, k)}
<1>1. PICK h \in Table : h = l % Slots
  BY HomeSlot
<1>2. h \in Int /\ k \in Int /\ Slots \in Nat /\ 0 <= h /\ h < Slots /\ 0 <= k /\ k < Slots
  BY TableAssumption DEF Table
<1>3. PICK d \in Table : d = (k - l) % Slots
  BY HomeSlot, k - l \in Int DEF Table
<1>4. d = IF h <= k THEN k - h ELSE (k - h) + Slots
  BY <1>1, <1>3, ProbeDistance
<1>5. \A j \in 0 .. d - 1 : j \in Table
  BY <1>2 DEF Table
<1>6. \A j \in 0 .. d - 1 : (l + j) % Slots = IF h + j < Slots THEN h + j ELSE (h + j) - Slots
  BY <1>1, <1>5, ProbeStep
<1>7. ASSUME NEW j \in 0 .. d - 1
      PROVE  (l + j) % Slots \in Table /\ Before(h, (l + j) % Slots, k)
  <2>1. PICK x \in Int : x = IF h + j < Slots THEN h + j ELSE (h + j) - Slots
    BY <1>2
  <2>2. x \in Table /\ Before(h, x, k)
    BY <1>2, <1>4, <2>1 DEF Before, Table
  <2> QED BY <1>6, <2>1, <2>2
<1>8. ASSUME NEW x \in Table, Before(h, x, k)
      PROVE  \E j \in 0 .. d - 1 : x = (l + j) % Slots
  <2>1. PICK j \in Int : j = IF h <= x THEN x - h ELSE (x - h) + Slots
    <3>1. x \in Int /\ x - h \in Int /\ (x - h) + Slots \in Int
      BY <1>2 DEF Table
    <3> QED BY <3>1
  <2>2. j \in 0 .. d - 1
    BY <1>2, <1>4, <1>8, <2>1 DEF Before, Table
  <2>3. x = IF h + j < Slots THEN h + j ELSE (h + j) - Slots
    BY <1>2, <2>1 DEF Table
  <2> QED BY <1>6, <2>2, <2>3
<1>9. Passed(l, k) = {(l + j) % Slots : j \in 0 .. d - 1}
  BY <1>3 DEF Passed
<1> QED BY <1>1, <1>7, <1>8, <1>9

(* Of two slots a probe meets one before the other. *)
LEMMA BeforeIsTotal ==
    ASSUME NEW h \in Table, NEW j \in Table, NEW k \in Table, j # k
    PROVE  Before(h, j, k) \/ Before(h, k, j)
BY TableAssumption DEF Table, Before

(* The slot after k: what a probe meets before it is k, or before k. *)
LEMMA BeforeNext ==
    ASSUME NEW h \in Table, NEW j \in Table, NEW k \in Table, NEW m \in Table,
           m = IF k = Slots - 1 THEN 0 ELSE k + 1, Before(h, j, m)
    PROVE  j = k \/ Before(h, j, k)
BY TableAssumption DEF Table, Before

(* The first slot that a probe visits. *)
LEMMA NothingBeforeHome ==
    ASSUME NEW h \in Table, NEW j \in Table
    PROVE  ~Before(h, j, h)
BY TableAssumption DEF Table, Before

(* The offset rax names a slot, and moves to the next one. *)
LEMMA OffsetIsSlot ==
    ASSUME NEW k \in Table
    PROVE  /\ (8 * k) \div 8 = k
           /\ (IF 8 * k + 8 < TableBytes THEN 8 * k + 8 ELSE 0) =
                  8 * (IF k = Slots - 1 THEN 0 ELSE k + 1)
           /\ (IF k = Slots - 1 THEN 0 ELSE k + 1) \in Table
BY TableAssumption DEF Table

(* An aligned address is in the line of the address. *)
LEMMA AlignedLine ==
    ASSUME NEW a \in Nat
    PROVE  /\ Aligned(a, LineSize) \in Nat /\ Aligned(a, LineSize) <= a
           /\ a < Aligned(a, LineSize) + LineSize
<1>1. a = (LineSize * (a \div LineSize)) + (a % LineSize)
  BY TableAssumption
<1>2. a % LineSize \in Int /\ 0 <= a % LineSize /\ a % LineSize < LineSize
  BY TableAssumption
<1>3. a % LineSize <= a
  <2>1. a \div LineSize \in Nat
    BY TableAssumption
  <2>2. LineSize * (a \div LineSize) \in Nat
    BY <2>1, TableAssumption
  <2> QED BY <1>1, <1>2, <2>2
<1> QED BY <1>2, <1>3, TableAssumption DEF Aligned

(* Payloads cover the range and end less than one payload behind it. *)
LEMMA PayloadsCover ==
    ASSUME NEW from \in Nat, NEW size \in Nat
    PROVE  /\ Bytes(from, from + size) \subseteq Payloads(from, from + size)
           /\ \A b \in Payloads(from, from + size) :
                  /\ b \in Nat /\ from <= b /\ b < from + size + LineSize - 1 /\ size > 0
<1>1. CASE size = 0
  BY <1>1 DEF Payloads, Bytes
<1>2. CASE size > 0
  <2> DEFINE x == (from + size) - from + LineSize - 1
             q == x \div LineSize
  <2>1. x \in Nat /\ x = size + LineSize - 1 /\ LineSize \in Nat /\ LineSize > 0
    BY <1>2, TableAssumption
  <2>2. x = (LineSize * q) + (x % LineSize)
    BY <2>1
  <2>3. x % LineSize \in Int /\ 0 <= x % LineSize /\ x % LineSize < LineSize
    BY <2>1
  <2>4. q \in Int /\ LineSize * q \in Int
    BY <2>1
  <2> HIDE DEF q
  <2>5. size <= LineSize * q /\ LineSize * q <= size + LineSize - 1
    BY <2>1, <2>2, <2>3, <2>4
  <2>6. Payloads(from, from + size) = Bytes(from, from + (LineSize * q))
    BY <1>2, <2>1 DEF Payloads, q
  <2> HIDE DEF x
  <2> QED BY <1>2, <2>1, <2>4, <2>5, <2>6 DEF Bytes
<1> QED BY <1>1, <1>2

(* The payload of one line is the line. *)
LEMMA LinePayload ==
    ASSUME NEW l \in Nat
    PROVE  Payloads(l, l + LineSize) = Bytes(l, l + LineSize)
<1> DEFINE x == (l + LineSize) - l + LineSize - 1
<1>1. LineSize \in Nat /\ LineSize > 0 /\ x = (LineSize * 1) + (LineSize - 1)
  BY TableAssumption
<1>2. x \div LineSize = 1
  BY <1>1
<1>3. LineSize * (x \div LineSize) = LineSize
  BY <1>1, <1>2
<1> HIDE DEF x
<1>4. Payloads(l, l + LineSize) = Bytes(l, l + (LineSize * (x \div LineSize)))
  BY <1>1 DEF Payloads, x
<1> QED BY <1>3, <1>4

-----------------------------------------------------------------------------
(***************************************************************************)
(* Types, labels and counters.                                             *)
(***************************************************************************)

(* What the workload's ranges are. *)
LEMMA RangeTypes ==
    /\ \A r \in StoreRanges : /\ r \in Ranges /\ r.addr \in Nat /\ r.size \in Nat
                              /\ r.addr > LowLimit + LineSize /\ r.size > 0
    /\ \A r \in CopyRanges : r \in Ranges /\ r.addr \in Nat /\ r.size \in Nat
    /\ \A r \in Ranges : r.addr \in Nat /\ r.size \in Nat
    /\ NoStore \in Ranges
BY WorkloadAssumption DEF Ranges, NoStore

(* Bytes and payloads of a range are addresses. *)
LEMMA RangeBytes ==
    ASSUME NEW r \in Ranges
    PROVE  /\ Bytes(r.addr, r.addr + r.size) \subseteq Nat
           /\ Payloads(r.addr, r.addr + r.size) \subseteq Nat
<1>1. r.addr \in Nat /\ r.size \in Nat
  BY RangeTypes
<1>2. Bytes(r.addr, r.addr + r.size) \subseteq Nat
  BY <1>1 DEF Bytes
<1> QED BY <1>1, <1>2, PayloadsCover

(* The counters do not pass the ends of the arrays. *)
LEMMA Room ==
    ASSUME CTypes, CountInv
    PROVE  /\ calls \in Nat /\ calls <= MaxCalls /\ MaxCalls \in Nat /\ MaxCalls <= MaxMemcpy
           /\ MaxCalls <= BypassSize /\ BypassSize \in Nat /\ MaxMemcpy \in Nat
           /\ Len(memcpyArray) \in Nat /\ Len(memcpyArray) <= calls
           /\ number_of_hash_set_entries \in Nat
           /\ build = "bypass" => number_of_hash_set_entries <= calls
BY WorkloadAssumption DEF CTypes, CollectorTypeOK, CountInv

(* The steps of the application and of the inserted code keep the types. *)
LEMMA StoreTypes ==
    ASSUME CTypes, PhaseInv, CountInv, Application \/ InsertStubs \/ TryToInsert \/ Write
    PROVE  CTypes'
<1>1. CASE InstrumentStart
  BY <1>1, WorkloadAssumption
     DEF InstrumentStart, CTypes, CollectorTypeOK, tableVars, registers
<1>2. CASE InstrumentStop
  BY <1>2 DEF InstrumentStop, CTypes, CollectorTypeOK, tableVars, registers, history, logVars
<1>3. CASE ResetHashSet
  <2>1. EmptyTable \in [0 .. Slots - 1 -> Nat]
    BY DEF EmptyTable
  <2> QED BY <1>3, <2>1 DEF ResetHashSet, CTypes, CollectorTypeOK, registers, history, logVars
<1>4. ASSUME NEW r \in StoreRanges, BeginStore(r)
      PROVE  CTypes'
  <2>1. r \in Ranges /\ r.addr \in Nat /\ r.size \in Nat
    BY RangeTypes
  <2>2. CASE SkipStore
    BY <1>4, <2>1, <2>2
       DEF BeginStore, SkipStore, CTypes, CollectorTypeOK, tableVars, registers, logVars
  <2>3. CASE AlignStore(r)
    <3>1. Aligned(r.addr, LineSize) \in Nat /\ r.addr + r.size \in Nat
      BY <2>1, AlignedLine
    <3> QED BY <1>4, <2>1, <2>3, <3>1
            DEF BeginStore, AlignStore, CTypes, CollectorTypeOK, tableVars, logVars
  <2>4. CASE RecordStore(r)
    <3>1. /\ build = "bypass" /\ calls < MaxCalls /\ calls' = calls + 1
          /\ number_of_hash_set_entries' = number_of_hash_set_entries + 1
          /\ hashSetBypassBuffer' =
                 [k \in DOMAIN hashSetBypassBuffer \cup {number_of_hash_set_entries} |->
                     IF k = number_of_hash_set_entries THEN r ELSE hashSetBypassBuffer[k]]
      BY <2>4 DEF RecordStore
    <3>2. number_of_hash_set_entries \in 0 .. BypassSize - 1
      BY <3>1, Room
    <3>3. hashSetBypassBuffer \in [0 .. BypassSize - 1 -> Ranges]
      BY DEF CTypes
    <3>4. DOMAIN hashSetBypassBuffer \cup {number_of_hash_set_entries} = 0 .. BypassSize - 1
      BY <3>2, <3>3
    <3>5. hashSetBypassBuffer' \in [0 .. BypassSize - 1 -> Ranges]
      BY <2>1, <3>1, <3>3, <3>4
    <3>6. calls' \in 0 .. MaxCalls /\ number_of_hash_set_entries' \in Nat
      BY <3>1, Room
    <3>7. UNCHANGED <<build, combiner, padding, memcpyArray, i, inSection, written, logged,
                      committed, dest, range, rax, hash_set_entries>>
      BY <1>4, <2>4 DEF BeginStore, RecordStore, registers, logVars
    <3>8. store' \in Ranges /\ pc' = "write"
      BY <1>4, <2>1, <2>4 DEF BeginStore, RecordStore
    <3>9. \A k \in DOMAIN hashSetBypassBuffer' : hashSetBypassBuffer'[k] \in Ranges
      BY <3>5
    <3> QED BY <3>5, <3>6, <3>7, <3>8, <3>9 DEF CTypes, CollectorTypeOK
  <2> QED BY <1>4, <2>2, <2>3, <2>4 DEF BeginStore
<1>5. ASSUME NEW r \in CopyRanges, InstrumentedMemcpy(r)
      PROVE  CTypes'
  <2>1. r \in Ranges
    BY RangeTypes
  <2>2. memcpyArray' \in Seq(Ranges)
    <3>1. memcpyArray \in Seq(Ranges) /\ memcpyArray' = Append(memcpyArray, r)
      BY <1>5 DEF InstrumentedMemcpy, CTypes, CollectorTypeOK
    <3> QED BY <2>1, <3>1
  <2>3. written' \subseteq Nat
    BY <1>5, <2>1, RangeBytes DEF InstrumentedMemcpy, CTypes, CollectorTypeOK
  <2>4. calls' \in 0 .. MaxCalls
    BY <1>5, Room DEF InstrumentedMemcpy
  <2> QED BY <1>5, <2>2, <2>3, <2>4
          DEF InstrumentedMemcpy, CTypes, CollectorTypeOK, tableVars, registers, logVars
<1>6. CASE InsertStubs
  <2>1. 8 * (dest % Slots) \in {8 * k : k \in 0 .. Slots - 1}
    <3>1. dest \in Int
      BY DEF CTypes, CollectorTypeOK
    <3>2. dest % Slots \in 0 .. Slots - 1
      BY <3>1, HomeSlot DEF Table
    <3> QED BY <3>2
  <2> QED BY <1>6, <2>1
          DEF InsertStubs, CTypes, CollectorTypeOK, tableVars, history, logVars
<1>7. CASE TryToInsert
  <2>1. UNCHANGED <<build, combiner, padding, hashSetBypassBuffer, memcpyArray, store, range, i,
                    inSection, written, calls, logged, committed>>
    BY <1>7 DEF TryToInsert, history, logVars
  <2>2. PICK k \in Table : rax = 8 * k
    BY DEF CTypes, CollectorTypeOK, Table
  <2>3. Slot = k
    BY <2>2, OffsetIsSlot DEF Slot
  <2>4. dest \in Nat /\ LineSize \in Nat /\ hash_set_entries \in [0 .. Slots - 1 -> Nat]
    BY TableAssumption DEF CTypes, CollectorTypeOK
  <2>5. CASE StoreLine
    <3>1. hash_set_entries' \in [0 .. Slots - 1 -> Nat] /\ dest' \in Nat
      <4>1. /\ hash_set_entries' = [hash_set_entries EXCEPT ![Slot] = dest]
            /\ dest' = dest + LineSize
        BY <2>5 DEF StoreLine, NextLine
      <4>2. hash_set_entries' = [hash_set_entries EXCEPT ![k] = dest]
        BY <2>3, <4>1
      <4>3. dest' \in Nat
        BY <2>4, <4>1
      <4> QED BY <2>4, <4>2, <4>3 DEF Table
    <3>2. number_of_hash_set_entries' \in Nat /\ pc' = "insert_stubs" /\ rax' = rax
      BY <2>5 DEF StoreLine, NextLine, CTypes, CollectorTypeOK
    <3> QED BY <2>1, <3>1, <3>2 DEF CTypes, CollectorTypeOK
  <2>6. CASE Duplicate
    <3>1. dest' \in Nat
      BY <2>4, <2>6 DEF Duplicate, NextLine
    <3> QED BY <2>1, <2>6, <3>1 DEF Duplicate, NextLine, CTypes, CollectorTypeOK
  <2>7. CASE CheckNextIndex
    <3>1. rax' = 8 * (IF k = Slots - 1 THEN 0 ELSE k + 1)
      BY <2>2, <2>7, OffsetIsSlot DEF CheckNextIndex
    <3>2. rax' \in {8 * m : m \in 0 .. Slots - 1}
      BY <3>1, OffsetIsSlot DEF Table
    <3> QED BY <2>1, <2>7, <3>2 DEF CheckNextIndex, CTypes, CollectorTypeOK
  <2> QED BY <1>7, <2>5, <2>6, <2>7 DEF TryToInsert
<1>8. CASE Write
  <2>1. written' \subseteq Nat
    BY <1>8, RangeBytes DEF Write, CTypes, CollectorTypeOK
  <2>2. 0 \in {8 * k : k \in 0 .. Slots - 1}
    BY TableAssumption
  <2> QED BY <1>8, <2>1, <2>2, RangeTypes
          DEF Write, CTypes, CollectorTypeOK, tableVars, logVars
<1> QED
  BY <1>1, <1>2, <1>3, <1>4, <1>5, <1>6, <1>7, <1>8 DEF Application, WrapPre

(* So do the steps of instrument_stop. *)
LEMMA StopTypes ==
    ASSUME CTypes, PhaseInv, CountInv,
           LogMemcpy \/ MemcpysLogged \/ Collect \/ StopEnd \/ UNCHANGED vars
    PROVE  CTypes'
<1>1. CASE LogMemcpy
  <2>1. memcpyArray[i + 1] \in Ranges /\ i + 1 \in Nat
    BY <1>1 DEF LogMemcpy, CTypes, CollectorTypeOK
  <2>2. logged' \subseteq Nat /\ committed' \subseteq Nat
    BY <1>1, <2>1, RangeBytes DEF LogMemcpy, CTypes, CollectorTypeOK
  <2> QED BY <1>1, <2>1, <2>2
          DEF LogMemcpy, CTypes, CollectorTypeOK, tableVars, registers, history
<1>2. CASE MemcpysLogged
  BY <1>2 DEF MemcpysLogged, CTypes, CollectorTypeOK, tableVars, registers, history, logVars
<1>3. CASE Collect
  <2>1. UNCHANGED <<build, combiner, padding, number_of_hash_set_entries, hashSetBypassBuffer,
                    memcpyArray, pc, store, dest, range, rax, inSection, written, calls,
                    committed>>
    BY <1>3 DEF Collect, registers, history
  <2>2. i' = i + 1 /\ i' \in Nat /\ logged \subseteq Nat
    BY <1>3 DEF Collect, CTypes, CollectorTypeOK
  <2>3. CASE CollectSlot
    <3>1. hash_set_entries[i] \in Nat /\ i \in 0 .. Slots - 1
          /\ hash_set_entries \in [0 .. Slots - 1 -> Nat]
      BY <2>3, TableAssumption DEF CollectSlot, CTypes, CollectorTypeOK
    <3>2. Payloads(hash_set_entries[i], hash_set_entries[i] + LineSize) \subseteq Nat
      BY <3>1, PayloadsCover, TableAssumption
    <3>3. logged' \subseteq Nat
      BY <2>2, <2>3, <3>2 DEF CollectSlot
    <3>4. hash_set_entries' \in [0 .. Slots - 1 -> Nat]
      BY <2>3, <3>1 DEF CollectSlot
    <3> QED BY <2>1, <2>2, <3>3, <3>4 DEF CTypes, CollectorTypeOK
  <2>4. CASE CollectBypassed
    <3>1. i \in 0 .. BypassSize - 1
      BY <2>4, Room DEF CollectBypassed, CTypes, CollectorTypeOK
    <3>2. hashSetBypassBuffer[i] \in Ranges
      BY <3>1 DEF CTypes
    <3>3. logged' \subseteq Nat /\ hash_set_entries' = hash_set_entries
      BY <2>2, <2>4, <3>2, RangeBytes DEF CollectBypassed
    <3> QED BY <2>1, <2>2, <3>3 DEF CTypes, CollectorTypeOK
  <2> QED BY <1>3, <2>3, <2>4 DEF Collect
<1>4. CASE StopEnd
  <2>1. <<>> \in Seq(Ranges)
    OBVIOUS
  <2> QED BY <1>4, <2>1 DEF StopEnd, CTypes, CollectorTypeOK, registers
<1>5. CASE UNCHANGED vars
  BY <1>5 DEF vars, CTypes, CollectorTypeOK, tableVars, registers, history, logVars
<1> QED BY <1>1, <1>2, <1>3, <1>4, <1>5

(* Every step keeps the labels in order: stores are collected exactly in
   sections, and instrument_stop runs with combiner cleared. *)
LEMMA PhaseStays ==
    ASSUME CTypes, PhaseInv, [Next]_vars
    PROVE  PhaseInv'
<1> USE DEF PhaseInv
<1>1. CASE InstrumentStart
  BY <1>1 DEF InstrumentStart
<1>2. CASE InstrumentStop
  BY <1>2 DEF InstrumentStop, history
<1>3. CASE ResetHashSet
  BY <1>3 DEF ResetHashSet, history
<1>4. ASSUME NEW r \in StoreRanges, BeginStore(r)
      PROVE  PhaseInv'
  <2>1. /\ pc = "app" /\ store' = r /\ UNCHANGED <<combiner, inSection, build>>
        /\ pc' \in {"write", "insert_stubs"}
    BY <1>4 DEF BeginStore, SkipStore, AlignStore, RecordStore
  <2>2. pc' = "insert_stubs" => inSection /\ build = "dedup"
    <3>1. CombinerWord = combiner
      BY DEF CombinerWord, CTypes, CollectorTypeOK
    <3> QED BY <1>4, <2>1, <3>1 DEF BeginStore, SkipStore, AlignStore, RecordStore
  <2> QED BY <2>1, <2>2
<1>5. ASSUME NEW r \in CopyRanges, InstrumentedMemcpy(r)
      PROVE  PhaseInv'
  BY <1>5 DEF InstrumentedMemcpy
<1>6. CASE InsertStubs
  BY <1>6 DEF InsertStubs, history
<1>7. CASE TryToInsert
  BY <1>7 DEF TryToInsert, StoreLine, Duplicate, CheckNextIndex, NextLine, history
<1>8. CASE Write
  BY <1>8 DEF Write
<1>9. CASE LogMemcpy \/ MemcpysLogged
  BY <1>9 DEF LogMemcpy, MemcpysLogged, history
<1>10. CASE Collect
  BY <1>10 DEF Collect, history
<1>11. CASE StopEnd
  BY <1>11 DEF StopEnd
<1>12. CASE UNCHANGED vars
  BY <1>12 DEF vars, history
<1> QED
  BY <1>1, <1>2, <1>3, <1>4, <1>5, <1>6, <1>7, <1>8, <1>9, <1>10, <1>11, <1>12
     DEF Next, Application, Client, WrapPre

(* Every step keeps the counters within what the section recorded. *)
LEMMA CountStays ==
    ASSUME CTypes, PhaseInv, CountInv, [Next]_vars
    PROVE  CountInv'
<1> USE DEF CountInv
<1>1. CASE InstrumentStart
  <2>1. Len(<<>>) = 0
    OBVIOUS
  <2> QED BY <1>1, <2>1 DEF InstrumentStart, tableVars
<1>2. CASE InstrumentStop
  BY <1>2 DEF InstrumentStop, tableVars, history
<1>3. CASE ResetHashSet
  BY <1>3 DEF ResetHashSet, history
<1>4. ASSUME NEW r \in StoreRanges, BeginStore(r)
      PROVE  CountInv'
  <2>1. UNCHANGED <<build, memcpyArray, inSection>>
    BY <1>4 DEF BeginStore
  <2>2. CASE SkipStore \/ AlignStore(r)
    BY <2>1, <2>2 DEF SkipStore, AlignStore, tableVars
  <2>3. CASE RecordStore(r)
    <3>1. inSection
      BY <1>4, <2>3 DEF BeginStore, RecordStore, CombinerWord, CTypes, PhaseInv
    <3>2. /\ calls' = calls + 1 /\ number_of_hash_set_entries' = number_of_hash_set_entries + 1
      BY <2>3 DEF RecordStore
    <3>3. Len(memcpyArray) <= calls + 1
      BY Room
    <3>4. build = "bypass" => number_of_hash_set_entries + 1 <= calls + 1
      BY Room
    <3> QED BY <2>1, <3>1, <3>2, <3>3, <3>4
  <2> QED BY <1>4, <2>2, <2>3 DEF BeginStore
<1>5. ASSUME NEW r \in CopyRanges, InstrumentedMemcpy(r)
      PROVE  CountInv'
  <2>1. inSection
    BY <1>5 DEF InstrumentedMemcpy, PhaseInv
  <2>2. /\ calls' = calls + 1 /\ memcpyArray' = Append(memcpyArray, r) /\ r \in Ranges
        /\ UNCHANGED <<build, number_of_hash_set_entries, inSection>>
    BY <1>5, RangeTypes DEF InstrumentedMemcpy, tableVars
  <2>3. Len(memcpyArray') = Len(memcpyArray) + 1
    BY <2>2 DEF CTypes, CollectorTypeOK
  <2>4. Len(memcpyArray') <= calls + 1
    BY <2>3, Room
  <2>5. build = "bypass" => number_of_hash_set_entries <= calls + 1
    BY Room
  <2> QED BY <2>1, <2>2, <2>4, <2>5
<1>6. CASE InsertStubs
  BY <1>6 DEF InsertStubs, tableVars, history
<1>7. CASE TryToInsert
  <2>1. build = "dedup" /\ inSection
    BY <1>7 DEF TryToInsert, PhaseInv
  <2> QED BY <1>7, <2>1 DEF TryToInsert, history
<1>8. CASE Write
  BY <1>8 DEF Write, tableVars
<1>9. CASE LogMemcpy \/ MemcpysLogged
  BY <1>9 DEF LogMemcpy, MemcpysLogged, tableVars, history
<1>10. CASE Collect
  BY <1>10 DEF Collect, history
<1>11. CASE StopEnd
  <2>1. Len(<<>>) = 0 /\ 0 <= calls
    BY Room
  <2> QED BY <1>11, <2>1 DEF StopEnd
<1>12. CASE UNCHANGED vars
  BY <1>12 DEF vars, tableVars, history
<1> QED
  BY <1>1, <1>2, <1>3, <1>4, <1>5, <1>6, <1>7, <1>8, <1>9, <1>10, <1>11, <1>12
     DEF Next, Application, Client, WrapPre

-----------------------------------------------------------------------------
(***************************************************************************)
(* The table.                                                              *)
(***************************************************************************)

(* The table's type, and the slot that rax names. *)
LEMMA TableTypes ==
    ASSUME CTypes
    PROVE  /\ hash_set_entries \in [Table -> Nat]
           /\ Slot \in Table /\ rax = 8 * Slot
           /\ dest \in Nat /\ range \in Nat /\ i \in Nat /\ LineSize \in Nat /\ LineSize > 0
           /\ Slots \in Nat /\ Slots > 0 /\ LowLimit \in Nat
           /\ number_of_hash_set_entries \in Nat
<1>1. PICK k \in Table : rax = 8 * k
  BY DEF CTypes, CollectorTypeOK, Table
<1>2. Slot = k
  BY <1>1, OffsetIsSlot DEF Slot
<1> QED BY <1>1, <1>2, TableAssumption DEF CTypes, CollectorTypeOK, Table

(* One slot of the probe. *)
LEMMA ProbeTries ==
    ASSUME CTypes, CTypes', PhaseInv, ProbeInv, TryToInsert
    PROVE  ProbeInv'
<1>1. /\ pc = "try_to_insert" /\ UNCHANGED <<build, inSection, i>>
  BY DEF TryToInsert, history
<1>2. build = "dedup" /\ inSection /\ dest > LowLimit
  BY <1>1 DEF PhaseInv, ProbeInv
<1>3. /\ \A k \in Table : hash_set_entries[k] = 0 \/ hash_set_entries[k] > LowLimit
      /\ \A j \in Table : Before(dest % Slots, j, Slot) => hash_set_entries[j] \notin {0, dest}
  BY <1>1 DEF ProbeInv
<1>4. /\ hash_set_entries \in [Table -> Nat] /\ Slot \in Table /\ rax = 8 * Slot
      /\ dest \in Nat /\ LineSize \in Nat /\ LowLimit \in Nat
  BY TableTypes
<1>5. CASE StoreLine \/ Duplicate
  <2>1. pc' = "insert_stubs" /\ dest' = dest + LineSize
    BY <1>5 DEF StoreLine, Duplicate, NextLine
  <2>2. dest' > LowLimit
    BY <1>2, <1>4, <2>1
  <2>3. \A k \in Table : hash_set_entries'[k] \in {hash_set_entries[k], dest}
    BY <1>4, <1>5 DEF StoreLine, Duplicate
  <2>4. \A k \in Table : hash_set_entries'[k] = 0 \/ hash_set_entries'[k] > LowLimit
    BY <1>2, <1>3, <2>3
  <2> QED BY <1>1, <1>2, <2>1, <2>2, <2>4 DEF ProbeInv
<1>6. CASE CheckNextIndex
  <2>1. /\ hash_set_entries[Slot] \notin {0, dest}
        /\ UNCHANGED <<hash_set_entries, dest, pc>>
        /\ rax' = IF rax + 8 < TableBytes THEN rax + 8 ELSE 0
    BY <1>6 DEF CheckNextIndex
  <2>2. PICK m \in Table : m = IF Slot = Slots - 1 THEN 0 ELSE Slot + 1
    BY <1>4, OffsetIsSlot
  <2>3. rax' = 8 * m
    BY <1>4, <2>1, <2>2, OffsetIsSlot
  <2>4. Slot' = m
    BY <2>3, OffsetIsSlot DEF Slot
  <2>5. dest % Slots \in Table
    BY <1>4, HomeSlot
  <2>6. ASSUME NEW j \in Table, Before(dest % Slots, j, m)
        PROVE  hash_set_entries[j] \notin {0, dest}
    <3>1. j = Slot \/ Before(dest % Slots, j, Slot)
      BY <1>4, <2>2, <2>5, <2>6, BeforeNext
    <3> QED BY <1>3, <2>1, <3>1
  <2>7. (\A j \in Table : Before(dest % Slots, j, Slot) => hash_set_entries[j] \notin {0, dest})'
    BY <2>1, <2>4, <2>6 DEF Before
  <2> QED BY <1>1, <1>2, <1>3, <2>1, <2>7 DEF ProbeInv
<1> QED BY <1>5, <1>6 DEF TryToInsert

(* The loops of instrument_stop. *)
LEMMA ProbeStops ==
    ASSUME CTypes, CTypes', PhaseInv, CountInv, ProbeInv,
           LogMemcpy \/ MemcpysLogged \/ Collect \/ StopEnd
    PROVE  ProbeInv'
<1>1. /\ \A k \in Table : hash_set_entries[k] = 0 \/ hash_set_entries[k] > LowLimit
      /\ build = "bypass" => \A k \in Table : hash_set_entries[k] = 0
  BY DEF ProbeInv
<1>2. /\ hash_set_entries \in [Table -> Nat] /\ i \in Nat /\ Slots \in Nat
      /\ number_of_hash_set_entries \in Nat /\ Slots > 0
  BY TableTypes
<1>3. CASE LogMemcpy
  BY <1>3 DEF LogMemcpy, ProbeInv, tableVars, registers, history
<1>4. CASE MemcpysLogged
  <2>1. /\ pc' = "collect" /\ i' = 0 /\ inSection
        /\ UNCHANGED <<build, hash_set_entries, number_of_hash_set_entries, inSection>>
    BY <1>4 DEF MemcpysLogged, PhaseInv, tableVars, history
  <2>2. \A k \in Table : ~(k < 0)
    BY <1>2 DEF Table
  <2>3. 0 <= IF build = "dedup" THEN Slots ELSE number_of_hash_set_entries
    BY <1>2
  <2> QED BY <1>1, <2>1, <2>2, <2>3 DEF ProbeInv
<1>5. CASE Collect
  <2>1. /\ pc = "collect" /\ i' = i + 1 /\ inSection
        /\ UNCHANGED <<build, number_of_hash_set_entries, inSection, pc>>
    BY <1>5 DEF Collect, PhaseInv, history
  <2>2. \A k \in Table : k < i => hash_set_entries[k] = 0
    BY <2>1 DEF ProbeInv
  <2>3. \A k \in Table : k < i + 1 => k < i \/ k = i
    BY <1>2 DEF Table
  <2>4. CASE CollectSlot
    <3>1. build = "dedup" /\ i < Slots /\ hash_set_entries' = [hash_set_entries EXCEPT ![i] = 0]
      BY <2>4 DEF CollectSlot
    <3>2. \A k \in Table : hash_set_entries'[k] = IF k = i THEN 0 ELSE hash_set_entries[k]
      BY <1>2, <3>1
    <3>3. \A k \in Table : k < i + 1 => hash_set_entries'[k] = 0
      BY <2>2, <2>3, <3>2
    <3>4. i + 1 <= Slots
      BY <1>2, <3>1
    <3>5. \A k \in Table : hash_set_entries'[k] = 0 \/ hash_set_entries'[k] > LowLimit
      BY <1>1, <3>2
    <3> QED BY <2>1, <3>1, <3>3, <3>4, <3>5 DEF ProbeInv
  <2>5. CASE CollectBypassed
    <3>1. build = "bypass" /\ i < number_of_hash_set_entries /\ UNCHANGED hash_set_entries
      BY <2>5 DEF CollectBypassed
    <3>2. i + 1 <= number_of_hash_set_entries
      BY <1>2, <3>1
    <3> QED BY <1>1, <2>1, <3>1, <3>2 DEF ProbeInv
  <2> QED BY <1>5, <2>4, <2>5 DEF Collect
<1>6. CASE StopEnd
  <2>1. /\ pc = "collect" /\ pc' = "app" /\ UNCHANGED <<hash_set_entries, build>>
        /\ i = IF build = "dedup" THEN Slots ELSE number_of_hash_set_entries
    BY <1>6 DEF StopEnd
  <2>2. \A k \in Table : k < Slots
    BY <1>2 DEF Table
  <2>3. build \in {"dedup", "bypass"}
    BY WorkloadAssumption DEF CTypes, CollectorTypeOK
  <2>4. \A k \in Table : hash_set_entries[k] = 0
    BY <1>1, <2>1, <2>2, <2>3 DEF ProbeInv
  <2> QED BY <2>1, <2>4 DEF ProbeInv
<1> QED BY <1>3, <1>4, <1>5, <1>6

(* Every step keeps what the probe and the loop over the table know. *)
LEMMA ProbeStays ==
    ASSUME CTypes, CTypes', PhaseInv, CountInv, ProbeInv, [Next]_vars
    PROVE  ProbeInv'
<1>1. CASE InstrumentStart
  BY <1>1 DEF InstrumentStart, ProbeInv, tableVars
<1>2. CASE InstrumentStop
  BY <1>2 DEF InstrumentStop, ProbeInv, tableVars, history
<1>3. CASE ResetHashSet
  <2>1. \A k \in Table : EmptyTable[k] = 0
    BY DEF EmptyTable, Table
  <2> QED BY <1>3, <2>1 DEF ResetHashSet, ProbeInv, history
<1>4. ASSUME NEW r \in StoreRanges, BeginStore(r)
      PROVE  ProbeInv'
  <2>1. /\ pc = "app" /\ UNCHANGED <<build, i, inSection, hash_set_entries>>
        /\ pc' \in {"write", "insert_stubs"}
    BY <1>4 DEF BeginStore, SkipStore, AlignStore, RecordStore, tableVars
  <2>2. pc' = "insert_stubs" => dest' > LowLimit
    <3>1. CASE AlignStore(r)
      <4>1. /\ r.addr \in Nat /\ r.addr > LowLimit + LineSize
        BY RangeTypes
      <4>2. /\ Aligned(r.addr, LineSize) \in Nat /\ r.addr < Aligned(r.addr, LineSize) + LineSize
        BY <4>1, AlignedLine
      <4>3. Aligned(r.addr, LineSize) > LowLimit
        BY <4>1, <4>2, TableAssumption
      <4> QED BY <3>1, <4>3 DEF AlignStore
    <3> QED BY <1>4, <3>1 DEF BeginStore, SkipStore, RecordStore
  <2> QED BY <2>1, <2>2 DEF ProbeInv
<1>5. ASSUME NEW r \in CopyRanges, InstrumentedMemcpy(r)
      PROVE  ProbeInv'
  BY <1>5 DEF InstrumentedMemcpy, ProbeInv, tableVars
<1>6. CASE InsertStubs
  <2>1. /\ pc = "insert_stubs" /\ UNCHANGED <<build, hash_set_entries, inSection, i, dest>>
        /\ \/ pc' = "write"
           \/ pc' = "try_to_insert" /\ rax' = 8 * (dest % Slots)
    BY <1>6 DEF InsertStubs, tableVars, history
  <2>2. CASE pc' = "write"
    BY <2>1, <2>2 DEF ProbeInv
  <2>3. CASE pc' = "try_to_insert" /\ rax' = 8 * (dest % Slots)
    <3>1. PICK h \in Table : h = dest % Slots
      BY HomeSlot, TableTypes
    <3>2. Slot' = h
      BY <2>3, <3>1, OffsetIsSlot DEF Slot
    <3>3. \A j \in Table : ~Before(h, j, h)
      BY NothingBeforeHome
    <3>4. (\A j \in Table : ~Before(dest % Slots, j, Slot))'
      BY <2>1, <3>1, <3>2, <3>3 DEF Before
    <3> QED BY <2>1, <2>3, <3>4 DEF ProbeInv
  <2> QED BY <2>1, <2>2, <2>3
<1>7. CASE TryToInsert
  BY <1>7, ProbeTries
<1>8. CASE Write
  BY <1>8 DEF Write, ProbeInv, tableVars
<1>9. CASE LogMemcpy \/ MemcpysLogged \/ Collect \/ StopEnd
  BY <1>9, ProbeStops
<1>10. CASE UNCHANGED vars
  <2>1. UNCHANGED <<build, hash_set_entries, number_of_hash_set_entries, inSection, i, pc, dest,
                    rax>>
    BY <1>10 DEF vars, tableVars, registers, history
  <2> QED BY <2>1 DEF ProbeInv, Slot, Before
<1> QED
  BY <1>1, <1>2, <1>3, <1>4, <1>5, <1>6, <1>7, <1>8, <1>9, <1>10
     DEF Next, Application, Client, WrapPre

(* The lines of the table are finitely many. *)
LEMMA LinesFinite ==
    ASSUME CTypes
    PROVE  IsFiniteSet(Lines) /\ DOMAIN hash_set_entries = Table
<1>1. DOMAIN hash_set_entries = Table /\ IsFiniteSet(Table)
  BY TableTypes, FS_Interval, TableAssumption DEF Table
<1>2. IsFiniteSet({hash_set_entries[k] : k \in Table})
  <2> DEFINE T == {hash_set_entries[k] : k \in Table}
  <2>1. hash_set_entries \in Surjection(Table, T)
    BY TableTypes DEF Surjection
  <2> HIDE DEF T
  <2>2. IsFiniteSet(T)
    BY <1>1, <2>1, FS_Surjection
  <2> QED BY <2>2 DEF T
<1>3. Lines \subseteq {hash_set_entries[k] : k \in Table}
  BY <1>1 DEF Lines
<1> QED BY <1>1, <1>2, <1>3, FS_Subset

(* A line that the probe does not find is not in the table: the first free
   slot on its way takes it, and the table stays searchable. *)
LEMMA LineIsNew ==
    ASSUME CTypes, CTypes', PhaseInv, ProbeInv, PathInv, TryToInsert, StoreLine
    PROVE  PathInv'
<1>1. /\ pc = "try_to_insert" /\ pc' = "insert_stubs" /\ UNCHANGED build
      /\ hash_set_entries[Slot] = 0
      /\ hash_set_entries' = [hash_set_entries EXCEPT ![Slot] = dest]
      /\ number_of_hash_set_entries' = number_of_hash_set_entries + 1
  BY DEF TryToInsert, StoreLine, NextLine
<1>2. /\ hash_set_entries \in [Table -> Nat] /\ Slot \in Table /\ dest \in Nat /\ LowLimit \in Nat
  BY TableTypes
<1>3. /\ dest # 0
      /\ \A j \in Table : Before(dest % Slots, j, Slot) => hash_set_entries[j] \notin {0, dest}
  BY <1>1, <1>2 DEF ProbeInv
<1>4. /\ \A k, m \in Table :
             hash_set_entries[k] = hash_set_entries[m] => k = m \/ hash_set_entries[k] = 0
      /\ \A k \in Table :
             hash_set_entries[k] # 0 =>
                 \A j \in Table : Before(hash_set_entries[k] % Slots, j, k) =>
                                   hash_set_entries[j] # 0
      /\ build = "dedup" => number_of_hash_set_entries = Cardinality(Lines)
  BY <1>1 DEF PathInv
<1>5. \A k \in Table : hash_set_entries[k] # dest
  <2> SUFFICES ASSUME NEW k \in Table, hash_set_entries[k] = dest PROVE FALSE
    OBVIOUS
  <2>1. k # Slot /\ dest % Slots \in Table
    BY <1>1, <1>2, <1>3, HomeSlot
  <2>2. ~Before(dest % Slots, k, Slot)
    BY <1>3
  <2>3. ~Before(dest % Slots, Slot, k)
    BY <1>1, <1>2, <1>3, <1>4
  <2> QED BY <1>2, <2>1, <2>2, <2>3, BeforeIsTotal
<1>6. \A k \in Table : hash_set_entries'[k] = IF k = Slot THEN dest ELSE hash_set_entries[k]
  BY <1>1, <1>2
<1>7. \A k, m \in Table :
          hash_set_entries'[k] = hash_set_entries'[m] => k = m \/ hash_set_entries'[k] = 0
  BY <1>4, <1>5, <1>6
<1>8. ASSUME NEW k \in Table, hash_set_entries'[k] # 0,
             NEW j \in Table, Before(hash_set_entries'[k] % Slots, j, k)
      PROVE  hash_set_entries'[j] # 0
  <2>1. CASE k = Slot
    <3>1. Before(dest % Slots, j, Slot)
      BY <1>6, <1>8, <2>1
    <3> QED BY <1>3, <1>6, <3>1
  <2>2. CASE k # Slot
    <3>1. hash_set_entries'[k] = hash_set_entries[k]
      BY <1>6, <2>2
    <3>2. hash_set_entries[k] # 0 /\ Before(hash_set_entries[k] % Slots, j, k)
      BY <1>8, <3>1
    <3> QED BY <1>3, <1>4, <1>6, <3>2
  <2> QED BY <2>1, <2>2
<1>9. Lines' = Lines \cup {dest} /\ dest \notin Lines
  <2>1. Lines = {hash_set_entries[k] : k \in Table} \ {0}
    BY <1>2 DEF Lines
  <2>2. Lines' = {hash_set_entries'[k] : k \in Table} \ {0}
    BY TableTypes, <1>1, <1>2 DEF Lines
  <2> QED BY <1>1, <1>2, <1>3, <1>5, <1>6, <2>1, <2>2
<1>10. Cardinality(Lines') = Cardinality(Lines) + 1
  BY <1>9, LinesFinite, FS_AddElement
<1>11. (\A k \in Table :
           hash_set_entries[k] # 0 =>
               \A j \in Table : Before(hash_set_entries[k] % Slots, j, k) =>
                                 hash_set_entries[j] # 0)'
  BY <1>8 DEF Before
<1>12. (build = "dedup" => number_of_hash_set_entries = Cardinality(Lines))'
  BY <1>1, <1>4, <1>10
<1> QED BY <1>7, <1>11, <1>12 DEF PathInv

(* An empty table is searchable. *)
LEMMA EmptyIsSearchable ==
    ASSUME CTypes', \A k \in Table : hash_set_entries'[k] = 0, number_of_hash_set_entries' = 0
    PROVE  PathInv' /\ Lines' = {}
<1>1. DOMAIN hash_set_entries' = Table
  BY DEF CTypes, CollectorTypeOK, Table
<1>2. Lines' = {}
  BY <1>1 DEF Lines
<1>3. Cardinality(Lines') = 0
  BY <1>2, FS_EmptySet
<1> QED BY <1>2, <1>3 DEF PathInv

(* Every step keeps the table searchable. *)
LEMMA PathStays ==
    ASSUME CTypes, CTypes', PhaseInv, CountInv, CountInv', ProbeInv, ProbeInv', PathInv, [Next]_vars
    PROVE  PathInv'
<1>1. ASSUME UNCHANGED <<build, hash_set_entries>>,
             build = "dedup" => UNCHANGED number_of_hash_set_entries,
             pc = "collect" => pc' = "collect"
      PROVE  PathInv'
  <2>1. Lines' = Lines
    BY <1>1 DEF Lines
  <2> QED BY <1>1, <2>1 DEF PathInv, Before
<1>2. CASE InstrumentStart
  BY <1>1, <1>2 DEF InstrumentStart, tableVars
<1>3. CASE InstrumentStop
  BY <1>1, <1>3 DEF InstrumentStop, tableVars
<1>4. CASE ResetHashSet
  <2>1. ~inSection' /\ number_of_hash_set_entries' = 0
    BY <1>4 DEF ResetHashSet, CountInv, history
  <2>2. \A k \in Table : hash_set_entries'[k] = 0
    BY <2>1 DEF ProbeInv
  <2> QED BY <2>1, <2>2, EmptyIsSearchable
<1>5. ASSUME NEW r \in StoreRanges, BeginStore(r)
      PROVE  PathInv'
  <2>1. /\ pc = "app" /\ UNCHANGED <<build, hash_set_entries>>
        /\ build = "dedup" => UNCHANGED number_of_hash_set_entries
    BY <1>5 DEF BeginStore, SkipStore, AlignStore, RecordStore, tableVars
  <2> QED BY <1>1, <2>1
<1>6. ASSUME NEW r \in CopyRanges, InstrumentedMemcpy(r)
      PROVE  PathInv'
  BY <1>1, <1>6 DEF InstrumentedMemcpy, tableVars
<1>7. CASE InsertStubs
  BY <1>1, <1>7 DEF InsertStubs, tableVars
<1>8. CASE TryToInsert
  <2>1. CASE StoreLine
    BY <1>8, <2>1, LineIsNew
  <2>2. CASE Duplicate \/ CheckNextIndex
    <3>1. /\ pc = "try_to_insert" /\ UNCHANGED <<build, hash_set_entries, number_of_hash_set_entries>>
      BY <1>8, <2>2 DEF TryToInsert, Duplicate, CheckNextIndex
    <3> QED BY <1>1, <3>1
  <2> QED BY <1>8, <2>1, <2>2 DEF TryToInsert
<1>9. CASE Write
  BY <1>1, <1>9 DEF Write, tableVars
<1>10. CASE LogMemcpy \/ MemcpysLogged
  BY <1>1, <1>10 DEF LogMemcpy, MemcpysLogged, tableVars
<1>11. CASE Collect
  BY <1>11 DEF Collect, PathInv
<1>12. CASE StopEnd
  <2>1. ~inSection' /\ number_of_hash_set_entries' = 0
    BY <1>12 DEF StopEnd
  <2>2. \A k \in Table : hash_set_entries'[k] = 0
    BY <2>1 DEF ProbeInv
  <2> QED BY <2>1, <2>2, EmptyIsSearchable
<1>13. CASE UNCHANGED vars
  BY <1>1, <1>13 DEF vars, tableVars
<1> QED
  BY <1>2, <1>3, <1>4, <1>5, <1>6, <1>7, <1>8, <1>9, <1>10, <1>11, <1>12, <1>13
     DEF Next, Application, Client, WrapPre

(* The inductive invariant of the inserted code and of instrument_stop: labels,
   counters, the slots a probe has passed and the lines' paths to their slots. *)
THEOREM CollectorInvariant ==
    ASSUME Unset = {0}
    PROVE  Spec => []CollectorInv
<1>1. Init => CollectorInv
  <2> SUFFICES ASSUME Init PROVE CollectorInv
    OBVIOUS
  <2>1. memcpyArray = <<>>
    <3>1. PICK n \in Unset : memcpyArray = [k \in 1 .. n |-> [addr |-> 0, size |-> LineSize]]
      BY DEF Init
    <3>2. n = 0
      BY <3>1
    <3>3. 1 .. 0 = {}
      OBVIOUS
    <3> QED BY <3>1, <3>2, <3>3
  <2>2. memcpyArray \in Seq(Ranges) /\ Len(memcpyArray) = 0
    BY <2>1
  <2>3. hash_set_entries \in [0 .. Slots - 1 -> Nat] /\ \A k \in Table : hash_set_entries[k] = 0
    BY DEF Init, EmptyTable, Table
  <2>4. hashSetBypassBuffer \in [0 .. BypassSize - 1 -> Ranges]
    BY RangeTypes DEF Init
  <2>5. padding = 0 /\ number_of_hash_set_entries = 0
    BY DEF Init
  <2>6. rax \in {8 * k : k \in 0 .. Slots - 1}
    BY TableAssumption DEF Init
  <2>7. calls \in 0 .. MaxCalls
    BY WorkloadAssumption DEF Init
  <2>8. \A k \in DOMAIN hashSetBypassBuffer : hashSetBypassBuffer[k] \in Ranges
    BY <2>4
  <2>9. CTypes
    BY <2>2, <2>3, <2>4, <2>5, <2>6, <2>7, <2>8, RangeTypes DEF Init, CTypes, CollectorTypeOK
  <2>10. PhaseInv
    BY DEF Init, PhaseInv
  <2>11. CountInv
    BY <2>1, <2>2, <2>5 DEF Init, CountInv
  <2>12. ProbeInv
    BY <2>3 DEF Init, ProbeInv
  <2>13. PathInv
    <3>1. DOMAIN hash_set_entries = Table
      BY <2>3 DEF Table
    <3>2. Lines = {}
      BY <2>3, <3>1 DEF Lines
    <3>3. Cardinality(Lines) = 0
      BY <3>2, FS_EmptySet
    <3> QED BY <2>3, <2>5, <3>3 DEF PathInv
  <2> QED BY <2>9, <2>10, <2>11, <2>12, <2>13 DEF CollectorInv
<1>2. CollectorInv /\ [Next]_vars => CollectorInv'
  <2> SUFFICES ASSUME CollectorInv, [Next]_vars PROVE CollectorInv'
    OBVIOUS
  <2>1. CTypes /\ PhaseInv /\ CountInv /\ ProbeInv /\ PathInv
    BY DEF CollectorInv
  <2>2. CTypes'
    BY <2>1, StoreTypes, StopTypes DEF Next, Client
  <2>3. PhaseInv' /\ CountInv'
    BY <2>1, PhaseStays, CountStays
  <2>4. ProbeInv'
    BY <2>1, <2>2, ProbeStays
  <2>5. PathInv'
    BY <2>1, <2>2, <2>3, <2>4, PathStays
  <2> QED BY <2>2, <2>3, <2>4, <2>5 DEF CollectorInv
<1> QED BY <1>1, <1>2, PTL DEF Spec

(* Type correctness of the collector: above all, that the byte offset of the
   probe stays inside the table although the end is compared with a size that
   is no multiple of eight. *)
THEOREM CollectorTypeCorrect ==
    ASSUME Unset = {0}
    PROVE  Spec => []CollectorTypeOK
<1>1. CollectorInv => CollectorTypeOK
  BY DEF CollectorInv, CTypes
<1> QED BY <1>1, CollectorInvariant, PTL

(* The arrays of recorded memcpys and of bypassed stores are never written
   behind their ends, whatever sections came before. *)
THEOREM BuffersAlwaysFit ==
    ASSUME Unset = {0}
    PROVE  Spec => []BuffersFit
<1>1. CollectorInv => BuffersFit
  BY Room DEF CollectorInv, BuffersFit
<1> QED BY <1>1, CollectorInvariant, PTL

(* The table of the inserted code is searchable in a section (no line twice,
   every line reachable from its home slot, the counter right) and empty
   outside, for every number of slots. *)
THEOREM TableIsSound ==
    ASSUME Unset = {0}
    PROVE  Spec => []TableSound
<1>1. CollectorInv => TableSound
  <2> SUFFICES ASSUME CollectorInv PROVE TableSound
    OBVIOUS
  <2>1. CTypes /\ ProbeInv /\ PathInv
    BY DEF CollectorInv
  <2>2. hash_set_entries \in [Table -> Nat] /\ DOMAIN hash_set_entries = Table
    BY <2>1, TableTypes
  <2>3. ASSUME pc # "collect" PROVE Searchable
    <3>1. ASSUME NEW k \in Table, hash_set_entries[k] # 0
          PROVE  \A j \in Passed(hash_set_entries[k], k) : hash_set_entries[j] # 0
      <4>1. Passed(hash_set_entries[k], k)
              = {j \in Table : Before(hash_set_entries[k] % Slots, j, k)}
        BY <2>2, PassedIsBefore
      <4> QED BY <2>1, <2>3, <3>1, <4>1 DEF PathInv
    <3> QED BY <2>1, <2>2, <2>3, <3>1 DEF PathInv, Searchable
  <2>4. ASSUME ~inSection PROVE Lines = {}
    BY <2>1, <2>2, <2>4 DEF ProbeInv, Lines
  <2> QED BY <2>3, <2>4 DEF TableSound
<1> QED BY <1>1, CollectorInvariant, PTL

-----------------------------------------------------------------------------
(***************************************************************************)
(* What a section writes is logged.                                        *)
(***************************************************************************)

(* A line that stays in its slot covers the same bytes. *)
LEMMA TableKept ==
    ASSUME NEW b, InTable(b),
           \A k \in Table : hash_set_entries[k] # 0 => hash_set_entries'[k] = hash_set_entries[k]
    PROVE  InTable(b)'
BY DEF InTable

(* A byte stays covered while lines stay in their slots and records in their
   places. *)
LEMMA CoveredKept ==
    ASSUME NEW b, Covered(b), logged \subseteq logged',
           \A k \in Table : hash_set_entries[k] # 0 => hash_set_entries'[k] = hash_set_entries[k],
           UNCHANGED <<build, memcpyArray, number_of_hash_set_entries, hashSetBypassBuffer, i>>,
           pc \notin {"memcpys", "collect"}, pc' \notin {"memcpys", "collect"}
    PROVE  Covered(b)'
<1>1. CASE b \in logged
  BY <1>1 DEF Covered
<1>2. CASE InTable(b)
  BY <1>2, TableKept DEF Covered
<1>3. CASE InCopies(b)
  BY <1>3 DEF Covered, InCopies, Bytes
<1>4. CASE InBypass(b)
  BY <1>4 DEF Covered, InBypass, Bytes
<1> QED BY <1>1, <1>2, <1>3, <1>4 DEF Covered

(* A store begins. *)
LEMMA BeginCovers ==
    ASSUME CollectorInv, CollectorInv', CoverInv, NEW r \in StoreRanges, BeginStore(r)
    PROVE  CoverInv'
<1> SUFFICES ASSUME inSection' PROVE CoverInv'
  BY DEF CoverInv
<1>1. /\ pc = "app" /\ inSection /\ store' = r
      /\ UNCHANGED <<build, memcpyArray, i, written, logged, hash_set_entries>>
  BY DEF BeginStore, SkipStore, AlignStore, RecordStore, tableVars, logVars
<1>2. \A b \in written : Covered(b)
  BY <1>1 DEF CoverInv
<1>3. CombinerWord # 0
  BY <1>1 DEF CombinerWord, CollectorInv, CTypes, CollectorTypeOK, PhaseInv
<1>4. /\ r.addr \in Nat /\ r.size \in Nat /\ r.size > 0
  BY RangeTypes
<1>5. CASE AlignStore(r)
  <2>1. /\ dest' = Aligned(r.addr, LineSize) /\ range' = r.addr + r.size /\ pc' = "insert_stubs"
        /\ UNCHANGED <<number_of_hash_set_entries, hashSetBypassBuffer>>
    BY <1>5 DEF AlignStore, tableVars
  <2>2. \A b \in written' : Covered(b)'
    BY <1>1, <1>2, <2>1, CoveredKept
  <2>3. dest' \in Nat /\ dest' <= r.addr /\ r.addr < dest' + LineSize
    BY <1>4, <2>1, AlignedLine
  <2>4. \A b \in Bytes(r.addr, r.addr + r.size) : ~(b < dest')
    BY <1>4, <2>3 DEF Bytes
  <2>5. Pending' = Bytes(r.addr, r.addr + r.size)
    BY <1>1 DEF Pending
  <2> QED BY <1>1, <2>1, <2>2, <2>3, <2>4, <2>5 DEF CoverInv
<1>6. CASE RecordStore(r)
  <2>1. /\ build = "bypass" /\ pc' = "write"
        /\ number_of_hash_set_entries' = number_of_hash_set_entries + 1
        /\ hashSetBypassBuffer' =
               [k \in DOMAIN hashSetBypassBuffer \cup {number_of_hash_set_entries} |->
                   IF k = number_of_hash_set_entries THEN r ELSE hashSetBypassBuffer[k]]
    BY <1>6 DEF RecordStore
  <2>2. number_of_hash_set_entries \in Nat /\ BypassSize \in Nat
        /\ number_of_hash_set_entries <= BypassSize
    BY <2>1, Room DEF CollectorInv
  <2>3. hashSetBypassBuffer \in [0 .. BypassSize - 1 -> Ranges]
    BY DEF CollectorInv, CTypes
  <2>4. /\ \A n \in 0 .. number_of_hash_set_entries - 1 :
               /\ hashSetBypassBuffer'[n] = hashSetBypassBuffer[n]
               /\ n \in 0 .. number_of_hash_set_entries' - 1
        /\ hashSetBypassBuffer'[number_of_hash_set_entries] = r
        /\ number_of_hash_set_entries \in 0 .. number_of_hash_set_entries' - 1
    BY <2>1, <2>2, <2>3
  <2>5. ASSUME NEW b \in written PROVE Covered(b)'
    <3>1. CASE b \in logged \/ InTable(b) \/ InCopies(b)
      BY <1>1, <2>1, <3>1 DEF Covered, InTable, InCopies, Bytes
    <3>2. CASE InBypass(b)
      <4>1. PICK n \in 0 .. number_of_hash_set_entries - 1 :
                b \in Bytes(hashSetBypassBuffer[n].addr,
                           hashSetBypassBuffer[n].addr + hashSetBypassBuffer[n].size)
        BY <1>1, <3>2 DEF InBypass
      <4> QED BY <1>1, <2>1, <2>4, <4>1 DEF Covered, InBypass, Bytes
    <3> QED BY <1>2, <3>1, <3>2 DEF Covered
  <2>6. ASSUME NEW b \in Bytes(r.addr, r.addr + r.size) PROVE Covered(b)'
    BY <1>1, <2>1, <2>4, <2>6 DEF Covered, InBypass, Bytes
  <2>7. Pending' = Bytes(r.addr, r.addr + r.size)
    BY <1>1 DEF Pending
  <2> QED BY <1>1, <2>1, <2>5, <2>6, <2>7 DEF CoverInv
<1> QED BY <1>3, <1>5, <1>6 DEF BeginStore, SkipStore

(* The loop over the lines of a store, and the store. *)
LEMMA InsertCovers ==
    ASSUME CollectorInv, CollectorInv', CoverInv, InsertStubs \/ TryToInsert \/ Write
    PROVE  CoverInv'
<1> SUFFICES ASSUME inSection' PROVE CoverInv'
  BY DEF CoverInv
<1>1. /\ inSection
      /\ UNCHANGED <<build, memcpyArray, i, logged, hashSetBypassBuffer>>
  BY DEF InsertStubs, TryToInsert, Write, tableVars, history, logVars
<1>2. \A b \in written : Covered(b)
  BY <1>1 DEF CoverInv
<1>3. /\ hash_set_entries \in [Table -> Nat] /\ Slot \in Table
      /\ dest \in Nat /\ range \in Nat /\ LineSize \in Nat /\ LineSize > 0
  BY TableTypes DEF CollectorInv
<1>4. CASE InsertStubs
  <2>1. /\ pc = "insert_stubs" /\ pc' \in {"write", "try_to_insert"}
        /\ UNCHANGED <<hash_set_entries, number_of_hash_set_entries, store, dest, range, written>>
        /\ pc' = "write" => dest >= range
        /\ pc' = "try_to_insert" => dest < range
    BY <1>4 DEF InsertStubs, tableVars, history
  <2>2. \A b \in written' : Covered(b)'
    BY <1>1, <1>2, <2>1, CoveredKept
  <2>3. /\ range = store.addr + store.size /\ store.addr < dest + LineSize
        /\ \A b \in Pending : b < dest => InTable(b)
    BY <1>1, <2>1 DEF CoverInv
  <2>4. \A b \in Pending : InTable(b) => InTable(b)'
    BY <2>1, TableKept
  <2>5. Pending' = Pending
    BY <2>1 DEF Pending
  <2>6. CASE pc' = "try_to_insert"
    BY <2>1, <2>2, <2>3, <2>4, <2>5, <2>6 DEF CoverInv
  <2>7. CASE pc' = "write"
    <3>1. store \in StoreRanges
      BY <2>1 DEF CollectorInv, PhaseInv
    <3>2. store.addr \in Nat /\ store.size \in Nat
      BY <3>1, RangeTypes
    <3>3. \A b \in Pending : b < dest
      BY <1>3, <2>1, <2>3, <2>7, <3>2 DEF Pending, Bytes
    <3>4. \A b \in Pending' : Covered(b)'
      BY <2>3, <2>4, <2>5, <3>3 DEF Covered
    <3> QED BY <2>2, <2>7, <3>4 DEF CoverInv
  <2> QED BY <2>1, <2>6, <2>7
<1>5. CASE TryToInsert
  <2>1. /\ pc = "try_to_insert" /\ UNCHANGED <<store, range, written>>
    BY <1>5 DEF TryToInsert, history
  <2>2. /\ range = store.addr + store.size /\ store.addr < dest + LineSize /\ dest < range
        /\ \A b \in Pending : b < dest => InTable(b)
    BY <1>1, <2>1 DEF CoverInv
  <2>3. Pending' = Pending
    BY <2>1 DEF Pending
  <2>4. build = "dedup"
    BY <2>1 DEF CollectorInv, PhaseInv
  <2>5. \A k \in Table : hash_set_entries[k] # 0 => hash_set_entries'[k] = hash_set_entries[k]
    BY <1>3, <1>5 DEF TryToInsert, StoreLine, Duplicate, CheckNextIndex
  <2>6. pc' \in {"insert_stubs", "try_to_insert"}
    BY <1>5, <2>1 DEF TryToInsert, StoreLine, Duplicate, CheckNextIndex, NextLine
  <2>7. ASSUME NEW b \in written PROVE Covered(b)'
    <3>1. CASE b \in logged \/ InCopies(b)
      BY <1>1, <2>1, <2>6, <3>1 DEF Covered, InCopies, Bytes
    <3>2. CASE InTable(b)
      BY <2>5, <3>2, TableKept DEF Covered
    <3> QED BY <1>2, <2>4, <3>1, <3>2 DEF Covered, InBypass
  <2>8. \A b \in Pending : b < dest => InTable(b)'
    BY <2>2, <2>5, TableKept
  <2>9. CASE CheckNextIndex
    <3>1. UNCHANGED <<dest, pc>>
      BY <2>9 DEF CheckNextIndex
    <3> QED BY <2>1, <2>2, <2>3, <2>7, <2>8, <3>1 DEF CoverInv
  <2>10. CASE StoreLine \/ Duplicate
    <3>1. pc' = "insert_stubs" /\ dest' = dest + LineSize
      BY <2>10 DEF StoreLine, Duplicate, NextLine
    <3>2. hash_set_entries'[Slot] = dest /\ dest # 0
      <4>1. dest # 0
        BY <1>3, <2>1, TableAssumption DEF CollectorInv, ProbeInv
      <4> QED BY <1>3, <2>10, <4>1 DEF StoreLine, Duplicate
    <3>3. ASSUME NEW b \in Pending, b < dest' PROVE InTable(b)'
      <4>1. b \in Int
        <5>1. store.addr \in Nat /\ store.size \in Nat
          BY <2>1, RangeTypes DEF CollectorInv, PhaseInv
        <5> QED BY <3>3, <5>1 DEF Pending, Bytes
      <4>2. CASE b < dest
        BY <2>8, <4>2
      <4>3. CASE ~(b < dest)
        <5>1. dest <= b /\ b < dest + LineSize
          BY <1>3, <3>1, <3>3, <4>1, <4>3
        <5> QED BY <1>3, <3>2, <5>1 DEF InTable
      <4> QED BY <4>2, <4>3
    <3>4. store.addr < dest' + LineSize
      <4>1. store.addr \in Nat
        BY <2>1, RangeTypes DEF CollectorInv, PhaseInv
      <4> QED BY <1>3, <2>2, <3>1, <4>1
    <3> QED BY <2>1, <2>2, <2>3, <2>7, <3>1, <3>3, <3>4 DEF CoverInv
  <2> QED BY <1>5, <2>9, <2>10 DEF TryToInsert
<1>6. CASE Write
  <2>1. /\ pc = "write" /\ pc' = "app" /\ written' = written \cup Pending
        /\ UNCHANGED <<hash_set_entries, number_of_hash_set_entries>>
    BY <1>1, <1>6 DEF Write, Pending, tableVars
  <2>2. \A b \in written' : Covered(b)
    BY <1>1, <1>2, <2>1 DEF CoverInv
  <2>3. \A b \in written' : Covered(b)'
    BY <1>1, <2>1, <2>2, CoveredKept
  <2> QED BY <2>1, <2>3 DEF CoverInv
<1> QED BY <1>4, <1>5, <1>6

(* A memcpy. *)
LEMMA CopyCovers ==
    ASSUME CollectorInv, CollectorInv', CoverInv, NEW r \in CopyRanges, InstrumentedMemcpy(r)
    PROVE  CoverInv'
<1>1. /\ pc = "app" /\ inSection /\ memcpyArray' = Append(memcpyArray, r)
      /\ written' = written \cup Bytes(r.addr, r.addr + r.size)
      /\ UNCHANGED <<build, hash_set_entries, number_of_hash_set_entries, hashSetBypassBuffer, pc, i,
                     inSection, logged>>
  BY DEF InstrumentedMemcpy, CollectorInv, PhaseInv, tableVars, logVars
<1>2. r \in Ranges /\ memcpyArray \in Seq(Ranges)
  BY RangeTypes DEF CollectorInv, CTypes, CollectorTypeOK
<1>3. /\ \A n \in 1 .. Len(memcpyArray) :
             memcpyArray'[n] = memcpyArray[n] /\ n \in 1 .. Len(memcpyArray')
      /\ memcpyArray'[Len(memcpyArray) + 1] = r
      /\ Len(memcpyArray) + 1 \in 1 .. Len(memcpyArray')
  BY <1>1, <1>2
<1>4. ASSUME NEW b \in written PROVE Covered(b)'
  <2>1. CASE b \in logged \/ InTable(b) \/ InBypass(b)
    BY <1>1, <2>1 DEF Covered, InTable, InBypass, Bytes
  <2>2. CASE InCopies(b)
    <3>1. PICK n \in 1 .. Len(memcpyArray) :
              b \in Bytes(memcpyArray[n].addr, memcpyArray[n].addr + memcpyArray[n].size)
      BY <1>1, <2>2 DEF InCopies
    <3> QED BY <1>1, <1>3, <3>1 DEF Covered, InCopies, Bytes
  <2>3. Covered(b)
    BY <1>1 DEF CoverInv
  <2> QED BY <2>1, <2>2, <2>3 DEF Covered
<1>5. ASSUME NEW b \in Bytes(r.addr, r.addr + r.size) PROVE Covered(b)'
  BY <1>1, <1>3, <1>5 DEF Covered, InCopies, Bytes
<1> QED BY <1>1, <1>4, <1>5 DEF CoverInv

(* instrument_stop moves what covers a byte from the records into the log. *)
LEMMA StopCovers ==
    ASSUME CollectorInv, CollectorInv', CoverInv,
           InstrumentStop \/ LogMemcpy \/ MemcpysLogged \/ Collect
    PROVE  CoverInv'
<1>1. /\ inSection' = inSection /\ pc' \in {"memcpys", "collect"}
      /\ UNCHANGED <<build, memcpyArray, number_of_hash_set_entries, hashSetBypassBuffer, written>>
  BY DEF InstrumentStop, LogMemcpy, MemcpysLogged, Collect, tableVars, history
<1> SUFFICES ASSUME inSection, NEW b \in written, Covered(b) PROVE Covered(b)'
  BY <1>1 DEF CoverInv
<1>2. /\ hash_set_entries \in [Table -> Nat] /\ i \in Nat /\ Slots \in Nat
      /\ number_of_hash_set_entries \in Nat /\ LowLimit \in Nat
  BY TableTypes DEF CollectorInv
<1>3. memcpyArray \in Seq(Ranges) /\ Len(memcpyArray) \in Nat
  BY DEF CollectorInv, CTypes, CollectorTypeOK
<1>4. CASE InstrumentStop
  <2>1. pc = "app" /\ pc' = "memcpys" /\ i' = 0 /\ UNCHANGED <<hash_set_entries, logged>>
    BY <1>4 DEF InstrumentStop, tableVars, logVars
  <2>2. CASE b \in logged \/ InTable(b)
    BY <2>1, <2>2 DEF Covered, InTable
  <2>3. CASE InCopies(b)
    BY <1>1, <2>1, <2>3 DEF Covered, InCopies, Bytes
  <2>4. CASE InBypass(b)
    BY <1>1, <2>1, <2>4 DEF Covered, InBypass, Bytes
  <2> QED BY <2>2, <2>3, <2>4 DEF Covered
<1>5. CASE LogMemcpy
  <2> DEFINE c == memcpyArray[i + 1]
  <2>1. /\ pc = "memcpys" /\ pc' = pc /\ i < Len(memcpyArray) /\ i' = i + 1
        /\ UNCHANGED hash_set_entries /\ logged' = logged \cup Payloads(c.addr, c.addr + c.size)
    BY <1>5 DEF LogMemcpy, tableVars
  <2>2. CASE b \in logged \/ InTable(b)
    BY <2>1, <2>2 DEF Covered, InTable
  <2>3. CASE InCopies(b)
    <3>1. PICK n \in i + 1 .. Len(memcpyArray) :
              b \in Bytes(memcpyArray[n].addr, memcpyArray[n].addr + memcpyArray[n].size)
      BY <2>1, <2>3 DEF InCopies
    <3>2. CASE n = i + 1
      <4>1. c \in Ranges
        BY <1>2, <1>3, <2>1
      <4>2. c.addr \in Nat /\ c.size \in Nat
        BY <4>1, RangeTypes
      <4>3. b \in Payloads(c.addr, c.addr + c.size)
        BY <3>1, <3>2, <4>2, PayloadsCover
      <4> QED BY <2>1, <4>3 DEF Covered
    <3>3. CASE n # i + 1
      <4>1. n \in i' + 1 .. Len(memcpyArray)
        BY <1>2, <1>3, <2>1, <3>1, <3>3
      <4> QED BY <1>1, <2>1, <3>1, <4>1 DEF Covered, InCopies, Bytes
    <3> QED BY <3>2, <3>3
  <2>4. CASE InBypass(b)
    BY <1>1, <2>1, <2>4 DEF Covered, InBypass, Bytes
  <2> QED BY <2>2, <2>3, <2>4 DEF Covered
<1>6. CASE MemcpysLogged
  <2>1. /\ pc = "memcpys" /\ pc' = "collect" /\ i = Len(memcpyArray) /\ i' = 0
        /\ UNCHANGED <<hash_set_entries, logged>>
    BY <1>6 DEF MemcpysLogged, tableVars, logVars
  <2>2. CASE b \in logged \/ InTable(b)
    BY <2>1, <2>2 DEF Covered, InTable
  <2>3. ~InCopies(b)
    <3>1. \A n \in i + 1 .. Len(memcpyArray) : FALSE
      BY <1>2, <2>1
    <3> QED BY <2>1, <3>1 DEF InCopies
  <2>4. CASE InBypass(b)
    BY <1>1, <2>1, <2>4 DEF Covered, InBypass, Bytes
  <2> QED BY <2>2, <2>3, <2>4 DEF Covered
<1>7. CASE Collect
  <2>1. pc = "collect" /\ pc' = pc /\ i' = i + 1
    BY <1>7 DEF Collect
  <2>2. ~InCopies(b)
    BY <2>1 DEF InCopies
  <2>3. CASE CollectSlot
    <3>1. /\ build = "dedup" /\ i < Slots
          /\ hash_set_entries' = [hash_set_entries EXCEPT ![i] = 0] /\ logged \subseteq logged'
          /\ hash_set_entries[i] > LowLimit =>
                 Payloads(hash_set_entries[i], hash_set_entries[i] + LineSize) \subseteq logged'
      BY <2>3 DEF CollectSlot
    <3>2. i \in Table
      BY <1>2, <3>1 DEF Table
    <3>3. CASE InTable(b)
      <4>1. PICK k \in Table : /\ hash_set_entries[k] # 0 /\ hash_set_entries[k] <= b
                              /\ b < hash_set_entries[k] + LineSize
        BY <3>3 DEF InTable
      <4>2. CASE k = i
        <5>1. hash_set_entries[i] > LowLimit /\ hash_set_entries[i] \in Nat
          BY <1>2, <3>2, <4>1, <4>2 DEF CollectorInv, ProbeInv
        <5>2. b \in Nat
          BY DEF CollectorInv, CTypes, CollectorTypeOK
        <5>3. b \in Bytes(hash_set_entries[i], hash_set_entries[i] + LineSize)
          BY <4>1, <4>2, <5>1, <5>2, TableAssumption DEF Bytes
        <5> QED BY <3>1, <5>1, <5>3, LinePayload DEF Covered
      <4>3. CASE k # i
        <5>1. hash_set_entries'[k] = hash_set_entries[k]
          BY <1>2, <3>1, <4>3
        <5> QED BY <4>1, <5>1 DEF Covered, InTable
      <4> QED BY <4>2, <4>3
    <3>4. CASE b \in logged
      BY <3>1, <3>4 DEF Covered
    <3> QED BY <2>2, <3>1, <3>3, <3>4 DEF Covered, InBypass
  <2>4. CASE CollectBypassed
    <3> DEFINE c == hashSetBypassBuffer[i]
    <3>1. /\ build = "bypass" /\ i < number_of_hash_set_entries /\ UNCHANGED hash_set_entries
          /\ logged' = logged \cup Payloads(c.addr, c.addr + c.size)
      BY <2>4 DEF CollectBypassed
    <3>2. CASE b \in logged \/ InTable(b)
      BY <3>1, <3>2 DEF Covered, InTable
    <3>3. CASE InBypass(b)
      <4>1. PICK n \in i .. number_of_hash_set_entries - 1 :
                b \in Bytes(hashSetBypassBuffer[n].addr,
                           hashSetBypassBuffer[n].addr + hashSetBypassBuffer[n].size)
        BY <2>1, <3>3 DEF InBypass
      <4>2. CASE n = i
        <5>1. i \in 0 .. BypassSize - 1
          BY <1>2, <3>1, Room DEF CollectorInv
        <5>2. c \in Ranges
          BY <5>1 DEF CollectorInv, CTypes
        <5>3. c.addr \in Nat /\ c.size \in Nat
          BY <5>2, RangeTypes
        <5>4. b \in Payloads(c.addr, c.addr + c.size)
          BY <4>1, <4>2, <5>3, PayloadsCover
        <5> QED BY <3>1, <5>4 DEF Covered
      <4>3. CASE n # i
        <5>1. n \in i' .. number_of_hash_set_entries - 1
          BY <1>2, <2>1, <4>1, <4>3
        <5> QED BY <1>1, <2>1, <3>1, <4>1, <5>1 DEF Covered, InBypass, Bytes
      <4> QED BY <4>2, <4>3
    <3> QED BY <2>2, <3>2, <3>3 DEF Covered
  <2> QED BY <1>7, <2>3, <2>4 DEF Collect
<1> QED BY <1>4, <1>5, <1>6, <1>7

(* Every step keeps the written bytes covered. *)
LEMMA CoverStays ==
    ASSUME CollectorInv, CollectorInv', CoverInv, [Next]_vars
    PROVE  CoverInv'
<1>1. CASE InstrumentStart
  BY <1>1 DEF InstrumentStart, CoverInv
<1>2. CASE ResetHashSet
  BY <1>2 DEF ResetHashSet, CoverInv, history
<1>3. CASE StopEnd
  BY <1>3 DEF StopEnd, CoverInv
<1>4. CASE UNCHANGED vars
  <2>1. UNCHANGED <<build, hash_set_entries, number_of_hash_set_entries, hashSetBypassBuffer,
                    memcpyArray, pc, store, dest, range, i, inSection, written, logged>>
    BY <1>4 DEF vars, tableVars, registers, history, logVars
  <2>2. Pending' = Pending
    BY <2>1 DEF Pending
  <2>3. \A b : InTable(b) => InTable(b)'
    BY <2>1 DEF InTable
  <2>4. \A b : Covered(b) => Covered(b)'
    BY <2>1, <2>3 DEF Covered, InCopies, InBypass, Bytes
  <2> QED BY <2>1, <2>2, <2>3, <2>4 DEF CoverInv
<1> QED
  BY <1>1, <1>2, <1>3, <1>4, BeginCovers, InsertCovers, CopyCovers, StopCovers
     DEF Next, Application, Client, WrapPre

-----------------------------------------------------------------------------
(***************************************************************************)
(* Nothing else is logged.                                                 *)
(***************************************************************************)

(* The written bytes only grow within a section, and what is near them stays
   near. *)
LEMMA NearKept ==
    ASSUME NEW b, NearDirty(b), written \cup Pending \subseteq written' \cup Pending'
    PROVE  NearDirty(b)'
BY DEF NearDirty

(* Payloads of a range that the section writes are near it. *)
LEMMA PayloadsNear ==
    ASSUME NEW from \in Nat, NEW size \in Nat, NEW b \in Payloads(from, from + size)
    PROVE  \E d \in Bytes(from, from + size) : b - d < LineSize /\ d - b < LineSize
<1>1. /\ b \in Nat /\ from <= b /\ b < from + size + LineSize - 1 /\ size > 0
      /\ LineSize \in Nat /\ LineSize > 0
  <2>1. b \in Nat /\ from <= b /\ b < from + size + LineSize - 1 /\ size > 0
    BY PayloadsCover
  <2> QED BY <2>1, TableAssumption
<1>2. CASE b < from + size
  <2>1. b \in Bytes(from, from + size) /\ b - b < LineSize
    BY <1>1, <1>2 DEF Bytes
  <2> QED BY <2>1
<1>3. CASE ~(b < from + size)
  <2>1. PICK d \in Int : d = from + size - 1
    OBVIOUS
  <2>2. d \in Bytes(from, from + size) /\ b - d < LineSize /\ d - b < LineSize
    BY <1>1, <1>3, <2>1 DEF Bytes
  <2> QED BY <2>2
<1> QED BY <1>2, <1>3

(* The records and the log stay near what is written, while nothing new is
   recorded or logged. *)
LEMMA ReachKept ==
    ASSUME inSection, ReachInv,
           written \cup Pending \subseteq written' \cup Pending',
           UNCHANGED <<build, memcpyArray, number_of_hash_set_entries, hashSetBypassBuffer>>,
           logged' = logged,
           \A k \in Table : hash_set_entries'[k] \in {0, hash_set_entries[k]}
    PROVE  ReachInv'
<1>1. \A b \in logged' : NearDirty(b)'
  BY NearKept DEF ReachInv
<1>2. ASSUME NEW k \in Table, hash_set_entries'[k] # 0,
             NEW b \in Bytes(hash_set_entries'[k], hash_set_entries'[k] + LineSize)
      PROVE  NearDirty(b)'
  <2>1. hash_set_entries'[k] = hash_set_entries[k]
    BY <1>2
  <2>2. NearDirty(b)
    BY <1>2, <2>1 DEF ReachInv
  <2> QED BY <2>2, NearKept
<1>3. ASSUME NEW n \in 1 .. Len(memcpyArray),
             NEW b \in Payloads(memcpyArray[n].addr, memcpyArray[n].addr + memcpyArray[n].size)
      PROVE  NearDirty(b)'
  BY NearKept DEF ReachInv
<1>4. ASSUME build = "bypass", NEW n \in 0 .. number_of_hash_set_entries - 1,
             NEW b \in Payloads(hashSetBypassBuffer[n].addr,
                              hashSetBypassBuffer[n].addr + hashSetBypassBuffer[n].size)
      PROVE  NearDirty(b)'
  BY <1>4, NearKept DEF ReachInv
<1> QED BY <1>1, <1>2, <1>3, <1>4 DEF ReachInv, Payloads, Bytes

(* A store or a memcpy is recorded: what will be logged for it is near the
   bytes it writes. *)
LEMMA RecordReaches ==
    ASSUME CollectorInv, CollectorInv', ReachInv,
           \/ \E r \in StoreRanges : BeginStore(r)
           \/ \E r \in CopyRanges : InstrumentedMemcpy(r)
    PROVE  ReachInv'
<1> SUFFICES ASSUME inSection' PROVE ReachInv'
  BY DEF ReachInv
<1>1. ASSUME NEW r \in StoreRanges, BeginStore(r)
      PROVE  ReachInv'
  <2>1. /\ pc = "app" /\ inSection /\ store' = r
        /\ UNCHANGED <<build, memcpyArray, written, logged, hash_set_entries>>
    BY <1>1 DEF BeginStore, SkipStore, AlignStore, RecordStore, tableVars, logVars
  <2>2. store = NoStore
    BY <2>1 DEF CollectorInv, PhaseInv
  <2>3. Pending = {} /\ Pending' = Bytes(r.addr, r.addr + r.size)
    BY <2>1, <2>2 DEF Pending, NoStore, Bytes
  <2>4. written \cup Pending \subseteq written' \cup Pending'
    BY <2>1, <2>3
  <2>5. CASE SkipStore \/ AlignStore(r)
    <3>1. UNCHANGED <<number_of_hash_set_entries, hashSetBypassBuffer>>
      BY <2>5 DEF SkipStore, AlignStore, tableVars
    <3> QED BY <2>1, <2>4, <3>1, ReachKept
  <2>6. CASE RecordStore(r)
    <3>1. /\ build = "bypass"
          /\ number_of_hash_set_entries' = number_of_hash_set_entries + 1
          /\ hashSetBypassBuffer' =
                 [k \in DOMAIN hashSetBypassBuffer \cup {number_of_hash_set_entries} |->
                     IF k = number_of_hash_set_entries THEN r ELSE hashSetBypassBuffer[k]]
      BY <2>6 DEF RecordStore
    <3>2. /\ number_of_hash_set_entries \in Nat /\ BypassSize \in Nat
          /\ number_of_hash_set_entries <= BypassSize
      BY <3>1, Room DEF CollectorInv
    <3>3. hashSetBypassBuffer \in [0 .. BypassSize - 1 -> Ranges]
      BY DEF CollectorInv, CTypes
    <3>4. /\ \A n \in 0 .. number_of_hash_set_entries - 1 :
                 hashSetBypassBuffer'[n] = hashSetBypassBuffer[n]
          /\ hashSetBypassBuffer'[number_of_hash_set_entries] = r
          /\ \A n \in 0 .. number_of_hash_set_entries' - 1 :
                 n \in 0 .. number_of_hash_set_entries - 1 \/ n = number_of_hash_set_entries
      BY <3>1, <3>2, <3>3
    <3>5. ASSUME NEW b \in Payloads(r.addr, r.addr + r.size) PROVE NearDirty(b)'
      <4>1. r.addr \in Nat /\ r.size \in Nat
        BY RangeTypes
      <4>2. PICK d \in Bytes(r.addr, r.addr + r.size) : b - d < LineSize /\ d - b < LineSize
        BY <4>1, PayloadsNear
      <4> QED BY <2>3, <4>2 DEF NearDirty
    <3>6. ASSUME NEW n \in 0 .. number_of_hash_set_entries' - 1,
                 NEW b \in Payloads(hashSetBypassBuffer'[n].addr,
                                  hashSetBypassBuffer'[n].addr + hashSetBypassBuffer'[n].size)
          PROVE  NearDirty(b)'
      <4>1. CASE n = number_of_hash_set_entries
        BY <3>4, <3>5, <3>6, <4>1
      <4>2. CASE n \in 0 .. number_of_hash_set_entries - 1
        <5>1. NearDirty(b)
          BY <2>1, <3>1, <3>4, <3>6, <4>2 DEF ReachInv
        <5> QED BY <2>4, <5>1, NearKept
      <4> QED BY <3>4, <4>1, <4>2
    <3>7. \A b \in logged' : NearDirty(b)'
      BY <2>1, <2>4, NearKept DEF ReachInv
    <3>8. \A k \in Table : hash_set_entries[k] # 0 =>
              \A b \in Bytes(hash_set_entries[k], hash_set_entries[k] + LineSize) : NearDirty(b)'
      BY <2>1, <2>4, NearKept DEF ReachInv
    <3>9. \A n \in 1 .. Len(memcpyArray) :
              \A b \in Payloads(memcpyArray[n].addr, memcpyArray[n].addr + memcpyArray[n].size) :
                  NearDirty(b)'
      BY <2>1, <2>4, NearKept DEF ReachInv
    <3> QED BY <2>1, <3>6, <3>7, <3>8, <3>9 DEF ReachInv, Payloads, Bytes
  <2> QED BY <1>1, <2>5, <2>6 DEF BeginStore
<1>2. ASSUME NEW r \in CopyRanges, InstrumentedMemcpy(r)
      PROVE  ReachInv'
  <2>1. /\ inSection /\ memcpyArray' = Append(memcpyArray, r)
        /\ written' = written \cup Bytes(r.addr, r.addr + r.size)
        /\ UNCHANGED <<build, hash_set_entries, number_of_hash_set_entries, hashSetBypassBuffer, store,
                       logged>>
    BY <1>2 DEF InstrumentedMemcpy, CollectorInv, PhaseInv, tableVars, logVars
  <2>2. Pending' = Pending
    BY <2>1 DEF Pending
  <2>3. written \cup Pending \subseteq written' \cup Pending'
    BY <2>1, <2>2
  <2>4. r \in Ranges /\ r.addr \in Nat /\ r.size \in Nat /\ memcpyArray \in Seq(Ranges)
    BY RangeTypes DEF CollectorInv, CTypes, CollectorTypeOK
  <2>5. /\ \A n \in 1 .. Len(memcpyArray) : memcpyArray'[n] = memcpyArray[n]
        /\ memcpyArray'[Len(memcpyArray) + 1] = r
        /\ \A n \in 1 .. Len(memcpyArray') :
               n \in 1 .. Len(memcpyArray) \/ n = Len(memcpyArray) + 1
    BY <2>1, <2>4
  <2>6. ASSUME NEW b \in Payloads(r.addr, r.addr + r.size) PROVE NearDirty(b)'
    <3>1. PICK d \in Bytes(r.addr, r.addr + r.size) : b - d < LineSize /\ d - b < LineSize
      BY <2>4, PayloadsNear
    <3> QED BY <2>1, <3>1 DEF NearDirty
  <2>7. ASSUME NEW n \in 1 .. Len(memcpyArray'),
               NEW b \in Payloads(memcpyArray'[n].addr, memcpyArray'[n].addr + memcpyArray'[n].size)
        PROVE  NearDirty(b)'
    <3>1. CASE n = Len(memcpyArray) + 1
      BY <2>5, <2>6, <2>7, <3>1
    <3>2. CASE n \in 1 .. Len(memcpyArray)
      <4>1. NearDirty(b)
        BY <2>1, <2>5, <2>7, <3>2 DEF ReachInv
      <4> QED BY <2>3, <4>1, NearKept
    <3> QED BY <2>5, <3>1, <3>2
  <2>8. \A b \in logged' : NearDirty(b)'
    BY <2>1, <2>3, NearKept DEF ReachInv
  <2>9. \A k \in Table : hash_set_entries[k] # 0 =>
            \A b \in Bytes(hash_set_entries[k], hash_set_entries[k] + LineSize) : NearDirty(b)'
    BY <2>1, <2>3, NearKept DEF ReachInv
  <2>10. build = "bypass" =>
             \A n \in 0 .. number_of_hash_set_entries - 1 :
                 \A b \in Payloads(hashSetBypassBuffer[n].addr,
                                  hashSetBypassBuffer[n].addr + hashSetBypassBuffer[n].size) :
                     NearDirty(b)'
    BY <2>1, <2>3, NearKept DEF ReachInv
  <2> QED BY <2>1, <2>7, <2>8, <2>9, <2>10 DEF ReachInv, Payloads, Bytes
<1> QED BY <1>1, <1>2

(* A line enters the table because the store touches it. *)
LEMMA LineReaches ==
    ASSUME CollectorInv, CollectorInv', CoverInv, ReachInv, TryToInsert
    PROVE  ReachInv'
<1>1. /\ pc = "try_to_insert" /\ inSection
      /\ UNCHANGED <<build, memcpyArray, hashSetBypassBuffer, store, written, logged, range,
                     inSection>>
  BY DEF TryToInsert, CollectorInv, PhaseInv, history, logVars
<1>2. Pending' = Pending
  BY <1>1 DEF Pending
<1>3. /\ hash_set_entries \in [Table -> Nat] /\ Slot \in Table /\ dest \in Nat
      /\ LineSize \in Nat /\ LineSize > 0
  BY TableTypes DEF CollectorInv
<1>4. CASE Duplicate \/ CheckNextIndex
  <2>1. UNCHANGED <<hash_set_entries, number_of_hash_set_entries>>
    BY <1>4 DEF Duplicate, CheckNextIndex
  <2> QED BY <1>1, <1>2, <2>1, ReachKept
<1>5. CASE StoreLine
  <2>1. hash_set_entries' = [hash_set_entries EXCEPT ![Slot] = dest]
    BY <1>5 DEF StoreLine
  <2>2. build = "dedup"
    BY <1>1 DEF CollectorInv, PhaseInv
  <2>3. /\ range = store.addr + store.size /\ store.addr < dest + LineSize /\ dest < range
    BY <1>1 DEF CoverInv
  <2>4. store.addr \in Nat /\ store.size \in Nat /\ store.size > 0
    BY <1>1, RangeTypes DEF CollectorInv, PhaseInv
  <2>5. ASSUME NEW b \in Bytes(dest, dest + LineSize) PROVE NearDirty(b)
    <3>1. PICK d \in Int : d = IF store.addr <= dest THEN dest ELSE store.addr
      BY <1>3, <2>4
    <3>2. d \in Pending
      BY <1>3, <2>3, <2>4, <3>1 DEF Pending, Bytes
    <3>3. b - d < LineSize /\ d - b < LineSize
      BY <1>3, <2>3, <2>4, <2>5, <3>1 DEF Bytes
    <3> QED BY <3>2, <3>3 DEF NearDirty
  <2>6. \A b : NearDirty(b) => NearDirty(b)'
    BY <1>1, <1>2 DEF NearDirty
  <2>7. ASSUME NEW k \in Table, hash_set_entries'[k] # 0,
               NEW b \in Bytes(hash_set_entries'[k], hash_set_entries'[k] + LineSize)
        PROVE  NearDirty(b)
    <3>1. CASE k = Slot
      <4>1. hash_set_entries'[k] = dest
        BY <1>3, <2>1, <3>1
      <4> QED BY <2>5, <2>7, <4>1
    <3>2. CASE k # Slot
      <4>1. hash_set_entries'[k] = hash_set_entries[k]
        BY <1>3, <2>1, <3>2
      <4> QED BY <1>1, <2>7, <4>1 DEF ReachInv
    <3> QED BY <3>1, <3>2
  <2>8. /\ \A b \in logged : NearDirty(b)
        /\ \A n \in 1 .. Len(memcpyArray) :
               \A b \in Payloads(memcpyArray[n].addr, memcpyArray[n].addr + memcpyArray[n].size) :
                   NearDirty(b)
    BY <1>1 DEF ReachInv
  <2> QED BY <1>1, <2>2, <2>6, <2>7, <2>8 DEF ReachInv, Payloads, Bytes
<1> QED BY <1>4, <1>5 DEF TryToInsert

(* instrument_stop logs what was recorded, and nothing else. *)
LEMMA StopReaches ==
    ASSUME CollectorInv, CollectorInv', ReachInv, LogMemcpy \/ Collect
    PROVE  ReachInv'
<1>1. /\ inSection
      /\ UNCHANGED <<build, memcpyArray, number_of_hash_set_entries, hashSetBypassBuffer, store,
                     written, inSection>>
  BY DEF LogMemcpy, Collect, CollectorInv, PhaseInv, tableVars, history
<1>2. \A b : NearDirty(b) => NearDirty(b)'
  BY <1>1 DEF NearDirty, Pending
<1>3. /\ hash_set_entries \in [Table -> Nat] /\ i \in Nat /\ Slots \in Nat
      /\ number_of_hash_set_entries \in Nat /\ LineSize \in Nat
  BY TableTypes DEF CollectorInv
<1>4. memcpyArray \in Seq(Ranges) /\ Len(memcpyArray) \in Nat
  BY DEF CollectorInv, CTypes, CollectorTypeOK
<1>5. /\ \A b \in logged : NearDirty(b)
      /\ \A k \in Table : hash_set_entries[k] # 0 =>
             \A b \in Bytes(hash_set_entries[k], hash_set_entries[k] + LineSize) : NearDirty(b)
      /\ \A n \in 1 .. Len(memcpyArray) :
             \A b \in Payloads(memcpyArray[n].addr, memcpyArray[n].addr + memcpyArray[n].size) :
                 NearDirty(b)
      /\ build = "bypass" =>
             \A n \in 0 .. number_of_hash_set_entries - 1 :
                 \A b \in Payloads(hashSetBypassBuffer[n].addr,
                                  hashSetBypassBuffer[n].addr + hashSetBypassBuffer[n].size) :
                     NearDirty(b)
  BY <1>1 DEF ReachInv
<1>6. \A b \in logged' : NearDirty(b)
  <2>1. CASE LogMemcpy
    <3>1. i + 1 \in 1 .. Len(memcpyArray)
      BY <1>3, <1>4, <2>1 DEF LogMemcpy
    <3>2. logged' = logged \cup Payloads(memcpyArray[i + 1].addr,
                                        memcpyArray[i + 1].addr + memcpyArray[i + 1].size)
      BY <2>1 DEF LogMemcpy
    <3> QED BY <1>5, <3>1, <3>2
  <2>2. CASE CollectSlot
    <3>1. i \in Table
      BY <1>3, <2>2 DEF CollectSlot, Table
    <3>2. CASE hash_set_entries[i] > LowLimit
      <4>1. hash_set_entries[i] \in Nat /\ hash_set_entries[i] # 0
        BY <1>3, <3>1, <3>2, TableAssumption
      <4>2. logged' = logged \cup Bytes(hash_set_entries[i], hash_set_entries[i] + LineSize)
        BY <2>2, <3>2, <4>1, LinePayload DEF CollectSlot
      <4> QED BY <1>5, <3>1, <4>1, <4>2
    <3>3. CASE ~(hash_set_entries[i] > LowLimit)
      BY <1>5, <2>2, <3>3 DEF CollectSlot
    <3> QED BY <3>2, <3>3
  <2>3. CASE CollectBypassed
    <3>1. build = "bypass" /\ i \in 0 .. number_of_hash_set_entries - 1
      BY <1>3, <2>3 DEF CollectBypassed
    <3>2. logged' = logged \cup Payloads(hashSetBypassBuffer[i].addr,
                                        hashSetBypassBuffer[i].addr + hashSetBypassBuffer[i].size)
      BY <2>3 DEF CollectBypassed
    <3> QED BY <1>5, <3>1, <3>2
  <2> QED BY <2>1, <2>2, <2>3 DEF Collect
<1>7. \A k \in Table : hash_set_entries'[k] \in {0, hash_set_entries[k]}
  BY <1>3 DEF LogMemcpy, Collect, CollectSlot, CollectBypassed, tableVars
<1>8. \A k \in Table : hash_set_entries'[k] # 0 =>
          \A b \in Bytes(hash_set_entries'[k], hash_set_entries'[k] + LineSize) : NearDirty(b)
  <2> SUFFICES ASSUME NEW k \in Table, hash_set_entries'[k] # 0
               PROVE  \A b \in Bytes(hash_set_entries'[k], hash_set_entries'[k] + LineSize) :
                          NearDirty(b)
    OBVIOUS
  <2>1. hash_set_entries'[k] = hash_set_entries[k]
    BY <1>7
  <2> QED BY <1>5, <2>1
<1> QED BY <1>1, <1>2, <1>5, <1>6, <1>8 DEF ReachInv, Payloads, Bytes

(* Every step keeps what will be logged near what is written. *)
LEMMA ReachStays ==
    ASSUME CollectorInv, CollectorInv', CoverInv, ReachInv, [Next]_vars
    PROVE  ReachInv'
<1>1. CASE InstrumentStart
  <2>1. /\ ~inSection /\ logged' = {}
        /\ UNCHANGED <<hash_set_entries, memcpyArray, number_of_hash_set_entries>>
    BY <1>1 DEF InstrumentStart, tableVars
  <2>2. /\ \A k \in Table : hash_set_entries'[k] = 0
        /\ memcpyArray' = <<>> /\ number_of_hash_set_entries' = 0
    BY <2>1 DEF CollectorInv, ProbeInv, CountInv
  <2>3. /\ \A n \in 1 .. Len(memcpyArray') : FALSE
        /\ \A n \in 0 .. number_of_hash_set_entries' - 1 : FALSE
    BY <2>2
  <2> QED BY <2>1, <2>2, <2>3 DEF ReachInv
<1>2. CASE ResetHashSet
  BY <1>2 DEF ResetHashSet, ReachInv, history
<1>3. CASE StopEnd
  BY <1>3 DEF StopEnd, ReachInv
<1>4. CASE InstrumentStop \/ MemcpysLogged \/ InsertStubs \/ UNCHANGED vars
  <2>1. UNCHANGED <<build, hash_set_entries, number_of_hash_set_entries, hashSetBypassBuffer,
                    memcpyArray, store, inSection, written, logged>>
    BY <1>4 DEF InstrumentStop, MemcpysLogged, InsertStubs, vars, tableVars, history, logVars
  <2>2. Pending' = Pending
    BY <2>1 DEF Pending
  <2>3. CASE inSection
    BY <2>1, <2>2, <2>3, ReachKept
  <2> QED BY <2>1, <2>3 DEF ReachInv
<1>5. CASE Write
  <2>1. /\ UNCHANGED <<build, hash_set_entries, number_of_hash_set_entries, hashSetBypassBuffer,
                       memcpyArray, inSection, logged>>
        /\ inSection => written' = written \cup Pending
    BY <1>5 DEF Write, Pending, tableVars, logVars
  <2>2. CASE inSection
    <3>1. written \cup Pending \subseteq written' \cup Pending'
      BY <2>1, <2>2
    <3> QED BY <2>1, <2>2, <3>1, ReachKept
  <2> QED BY <2>1, <2>2 DEF ReachInv
<1> QED
  BY <1>1, <1>2, <1>3, <1>4, <1>5, RecordReaches, LineReaches, StopReaches
     DEF Next, Application, Client, WrapPre

(* The second invariant: every byte written in the section is in the table, in
   a record or in the log, and these hold nothing further than a payload from
   a written byte. *)
THEOREM WriteInvariant ==
    ASSUME Unset = {0}
    PROVE  Spec => [](CollectorInv /\ WriteInv)
<1>1. Init => WriteInv
  BY DEF Init, WriteInv, CoverInv, ReachInv
<1>2. CollectorInv /\ CollectorInv' /\ WriteInv /\ [Next]_vars => WriteInv'
  BY CoverStays, ReachStays DEF WriteInv
<1> QED BY <1>1, <1>2, CollectorInvariant, PTL DEF Spec

(* The end of instrument_stop: every slot and every record has been logged. *)
LEMMA StopCloses ==
    ASSUME CollectorInv, WriteInv, StopEnd
    PROVE  Promise!Close
<1>1. /\ pc = "collect" /\ committed' = logged /\ ~inSection' /\ UNCHANGED written
      /\ i = IF build = "dedup" THEN Slots ELSE number_of_hash_set_entries
  BY DEF StopEnd
<1>2. inSection /\ store = NoStore
  BY <1>1 DEF CollectorInv, PhaseInv
<1>3. Slots \in Nat /\ number_of_hash_set_entries \in Nat
  BY TableTypes DEF CollectorInv
<1>4. build \in {"dedup", "bypass"}
  BY WorkloadAssumption DEF CollectorInv, CTypes, CollectorTypeOK
<1>5. \A k \in Table : hash_set_entries[k] = 0
  <2>1. \A k \in Table : k < Slots
    BY <1>3 DEF Table
  <2> QED BY <1>1, <1>4, <2>1 DEF CollectorInv, ProbeInv
<1>6. ASSUME NEW b \in written PROVE b \in logged
  <2>1. Covered(b)
    BY <1>2 DEF WriteInv, CoverInv
  <2>2. ~InTable(b) /\ ~InCopies(b)
    BY <1>1, <1>5 DEF InTable, InCopies
  <2>3. ~InBypass(b)
    <3>1. build = "bypass" => \A n \in i .. number_of_hash_set_entries - 1 : FALSE
      BY <1>1, <1>3
    <3> QED BY <1>1, <3>1 DEF InBypass
  <2> QED BY <2>1, <2>2, <2>3 DEF Covered
<1>7. Pending = {}
  BY <1>2 DEF Pending, NoStore, Bytes
<1>8. \A b \in logged : \E d \in written : b - d < LineSize /\ d - b < LineSize
  BY <1>2, <1>7 DEF WriteInv, ReachInv, NearDirty
<1> QED BY <1>1, <1>2, <1>6, <1>8 DEF Promise!Close, Promise!Near

(* The collector implements WriteSet: when instrument_stop returns, every byte
   that the section wrote is committed to the log, and nothing that is further
   than a payload from one of them. *)
THEOREM CollectorImplementsWriteSet ==
    ASSUME Unset = {0}
    PROVE  Spec => ImplementsWriteSet
<1>1. Init => Promise!Init
  BY DEF Init, Promise!Init
<1>2. CollectorInv /\ WriteInv /\ [Next]_vars => [Promise!Next]_(Promise!vars)
  <2> SUFFICES ASSUME CollectorInv, WriteInv, [Next]_vars
               PROVE  Promise!Next \/ UNCHANGED Promise!vars
    OBVIOUS
  <2>1. CASE InstrumentStart
    <3>1. Promise!Open
      BY <2>1 DEF InstrumentStart, Promise!Open
    <3> QED BY <3>1 DEF Promise!Next
  <2>2. CASE StopEnd
    BY <2>2, StopCloses DEF Promise!Next
  <2>3. ASSUME NEW r \in CopyRanges, InstrumentedMemcpy(r)
        PROVE  Promise!Next
    <3>1. /\ inSection /\ written \subseteq written' /\ UNCHANGED inSection
      BY <2>3 DEF InstrumentedMemcpy, CollectorInv, PhaseInv
    <3>2. Promise!Write
      BY <3>1 DEF Promise!Write
    <3> QED BY <3>2 DEF Promise!Next
  <2>4. CASE Write
    <3>1. /\ written \subseteq written' /\ UNCHANGED <<inSection, committed>>
          /\ ~inSection => UNCHANGED written
      BY <2>4 DEF Write, logVars
    <3>2. CASE inSection
      <4>1. Promise!Write
        BY <3>1, <3>2 DEF Promise!Write
      <4> QED BY <4>1 DEF Promise!Next
    <3>3. CASE ~inSection
      BY <3>1, <3>3 DEF Promise!vars
    <3> QED BY <3>2, <3>3
  <2>5. CASE LogMemcpy
    <3>1. inSection /\ UNCHANGED <<inSection, written>>
      BY <2>5 DEF LogMemcpy, CollectorInv, PhaseInv, history
    <3> QED BY <3>1 DEF Promise!vars
  <2>6. ASSUME NEW r \in StoreRanges, BeginStore(r)
        PROVE  UNCHANGED Promise!vars
    BY <2>6 DEF BeginStore, Promise!vars, logVars
  <2>7. CASE \/ InstrumentStop \/ ResetHashSet \/ InsertStubs \/ TryToInsert \/ MemcpysLogged
             \/ Collect \/ UNCHANGED vars
    BY <2>7 DEF InstrumentStop, ResetHashSet, InsertStubs, TryToInsert, MemcpysLogged, Collect,
                vars, Promise!vars, history, logVars
  <2> QED BY <2>1, <2>2, <2>3, <2>4, <2>5, <2>6, <2>7 DEF Next, Application, Client, WrapPre
<1> QED BY <1>1, <1>2, WriteInvariant, PTL DEF Spec, Promise!Spec, ImplementsWriteSet
=============================================================================
