--------------------------- MODULE RedoCollector ----------------------------
(***************************************************************************)
(* The redo entry collector: the machine code that the instrumentation     *)
(* client inserts before every store of the application                    *)
(* (redo_entry_collector.c), and the annotations around it                 *)
(* (instrument_start, instrumented_memcpy, instrument_stop,                *)
(* reset_hash_set).  All of its state is in the per_thread_t of one        *)
(* thread, which is what this module models.                               *)
(*                                                                         *)
(* The inserted code is modelled label by label.  It enters every line     *)
(* that a store touches into an open-addressing table whose home slot is   *)
(* the address modulo the number of slots, and probes linearly.  Lines are *)
(* aligned, so only every LineSize-th slot is a home slot and long runs of *)
(* collisions are the normal case.  instrument_stop copies the lines of    *)
(* the table, and the ranges of the recorded memcpys, into the redo log.   *)
(*                                                                         *)
(* Addresses are bytes.  The log is the set of bytes its payloads cover.   *)
(***************************************************************************)
EXTENDS Integers, Sequences, FiniteSets

CONSTANTS
    Slots,          \* HASH_SET_SIZE, a power of two
    TableBytes,     \* REAL_HASH_SET_SIZE, the end of the table in bytes
    LineSize,       \* PAYLOAD_SIZE
    LowLimit,       \* addresses up to this one are not logged (1000)
    StoreRanges,    \* the application's stores: [addr, size]
    CopyRanges,     \* its memcpys: [addr, size]
    MaxMemcpy,      \* MAX_NUM_OF_MEMCPY
    BypassSize,     \* length of hash_set_bypass_buffer
    MaxCalls,       \* bound: recorded calls of a section
    Builds,         \* "dedup": USE_DEDUPLICATION_BUFFER is defined, "bypass": not
    Unset,          \* values of words that event_thread_init does not set
    Overfull        \* TRUE: a section may touch more lines than the table has slots

Ranges == [addr : Nat, size : Nat]

ASSUME TableAssumption ==
    /\ Slots \in Nat \ {0} /\ LineSize \in Nat \ {0} /\ LowLimit \in Nat
    /\ TableBytes \in (8 * Slots - 7) .. 8 * Slots
ASSUME WorkloadAssumption ==
    /\ StoreRanges \subseteq Ranges /\ CopyRanges \subseteq Ranges
    /\ \A r \in StoreRanges \cup CopyRanges : r.addr > LowLimit + LineSize
    /\ \A r \in StoreRanges : r.size > 0
    /\ MaxMemcpy \in Nat /\ BypassSize \in Nat
    /\ MaxCalls \in 0 .. MaxMemcpy /\ MaxCalls <= BypassSize
    /\ Builds \subseteq {"dedup", "bypass"} /\ Unset \subseteq Nat /\ Overfull \in BOOLEAN

VARIABLES
    build,          \* how the client was compiled
    combiner,       \* per_thread_t.combiner
    padding,        \* the four bytes after it, read with it and never written
    hash_set_entries,
    number_of_hash_set_entries,
    hashSetBypassBuffer,
    memcpyArray,
    pc,             \* label of the inserted code, or loop of instrument_stop
    store,          \* the store being executed
    dest, range, rax,   \* registers of the inserted code
    i,              \* loop index of instrument_stop
    inSection,      \* from instrument_start to the end of instrument_stop
    written,        \* history: bytes written in the section
    logged,         \* bytes of the payloads enqueued
    committed,      \* bytes of the payloads committed
    calls           \* history: calls recorded in the section

tableVars == <<hash_set_entries, number_of_hash_set_entries, hashSetBypassBuffer>>
registers == <<dest, range, rax>>
history == <<inSection, written, calls>>
logVars == <<logged, committed>>
vars == <<build, combiner, padding, tableVars, memcpyArray, pc, store, registers, i,
          history, logVars>>

Bytes(from, to) == from .. (to - 1)
Aligned(a, size) == a - (a % size)

(* The payloads that a loop from one address to another enqueues. *)
Payloads(from, to) ==
    IF to <= from THEN {}
    ELSE Bytes(from, from + LineSize * ((to - from + LineSize - 1) \div LineSize))

(* The lines that a store touches. *)
LinesOf(r) ==
    {a \in Aligned(r.addr, LineSize) .. (r.addr + r.size - 1) : a % LineSize = 0}

Lines == {hash_set_entries[k] : k \in DOMAIN hash_set_entries} \ {0}

EmptyTable == [k \in 0 .. Slots - 1 |-> 0]
NoStore == [addr |-> 0, size |-> 0]

(* event_thread_init: the table is zeroed, but not the counters of the table
   and of the recorded memcpys, nor the padding behind combiner. *)
Init ==
    /\ build \in Builds
    /\ combiner = 0
    /\ padding \in Unset
    /\ hash_set_entries = EmptyTable
    /\ number_of_hash_set_entries \in Unset
    /\ hashSetBypassBuffer = [k \in 0 .. BypassSize - 1 |-> NoStore]
    /\ memcpyArray \in {[k \in 1 .. n |-> [addr |-> 0, size |-> LineSize]] : n \in Unset}
    /\ pc = "app" /\ store = NoStore
    /\ dest = 0 /\ range = 0 /\ rax = 0 /\ i = 0
    /\ inSection = FALSE /\ written = {} /\ logged = {} /\ committed = {} /\ calls = 0

-----------------------------------------------------------------------------
(* instrument_start. *)
InstrumentStart ==
    /\ pc = "app" /\ ~inSection
    /\ combiner' = 1
    /\ inSection' = TRUE
    /\ written' = {} /\ logged' = {} /\ committed' = {} /\ calls' = 0
    /\ UNCHANGED <<build, padding, tableVars, memcpyArray, pc, store, registers, i>>

(* The value check_combiner_state compares with zero: eight bytes are loaded. *)
CombinerWord == combiner + padding

(* What the application may do in a section: its lines fit into the table. *)
Fits(r) == Overfull \/ Cardinality(Lines \cup LinesOf(r)) <= Slots

(* Outside a section the inserted code jumps to the end. *)
SkipStore ==
    /\ CombinerWord = 0
    /\ pc' = "write"
    /\ UNCHANGED <<registers, tableVars, calls>>

(* store_address_in_hash_set, up to its loop: the end of the range is computed
   and the address aligned. *)
AlignStore(r) ==
    /\ CombinerWord # 0 /\ build = "dedup" /\ Fits(r)
    /\ dest' = Aligned(r.addr, LineSize)
    /\ range' = r.addr + r.size
    /\ pc' = "insert_stubs"
    /\ UNCHANGED <<rax, tableVars, calls>>

(* store_address_in_buffer: without the table, the store itself is recorded. *)
RecordStore(r) ==
    /\ CombinerWord # 0 /\ build = "bypass" /\ calls < MaxCalls
    /\ calls' = calls + 1
    /\ hashSetBypassBuffer' =
           [k \in DOMAIN hashSetBypassBuffer \cup {number_of_hash_set_entries} |->
               IF k = number_of_hash_set_entries THEN r ELSE hashSetBypassBuffer[k]]
    /\ number_of_hash_set_entries' = number_of_hash_set_entries + 1
    /\ pc' = "write"
    /\ UNCHANGED <<registers, hash_set_entries>>

(* A store that is not relative to the stack pointer reaches the code that
   event_bb_insert put in front of it. *)
BeginStore(r) ==
    /\ pc = "app"
    /\ store' = r
    /\ SkipStore \/ AlignStore(r) \/ RecordStore(r)
    /\ UNCHANGED <<build, combiner, padding, memcpyArray, i, inSection, written, logVars>>

(* insert_stubs_to_cover_given_memory_range. *)
InsertStubs ==
    /\ pc = "insert_stubs"
    /\ \/ dest >= range /\ pc' = "write" /\ UNCHANGED rax
       \/ dest < range /\ pc' = "try_to_insert" /\ rax' = 8 * (dest % Slots)
    /\ UNCHANGED <<build, combiner, padding, tableVars, memcpyArray, store, dest, range, i,
                   history, logVars>>

Slot == rax \div 8

(* Faulty variant: the jumps in the other order, which ends the loop after one
   line. *)
FaultyNextLine == dest' = dest + LineSize /\ pc' = "write"

(* process_any_remaining_stubs: back to the loop head, whose test ends it. *)
NextLine == dest' = dest + LineSize /\ pc' = "insert_stubs"

(* A free slot takes the line. *)
StoreLine ==
    /\ hash_set_entries[Slot] = 0
    /\ hash_set_entries' = [hash_set_entries EXCEPT ![Slot] = dest]
    /\ number_of_hash_set_entries' = number_of_hash_set_entries + 1
    /\ NextLine
    /\ UNCHANGED rax

(* Faulty variant: without the comparison the probe goes on. *)
FaultyDuplicate ==
    /\ hash_set_entries[Slot] = dest
    /\ rax' = IF rax + 8 < TableBytes THEN rax + 8 ELSE 0
    /\ UNCHANGED <<hash_set_entries, number_of_hash_set_entries, dest, pc>>

(* check_if_stub_is_a_duplicate. *)
Duplicate ==
    /\ hash_set_entries[Slot] = dest
    /\ NextLine
    /\ UNCHANGED <<hash_set_entries, number_of_hash_set_entries, rax>>

(* Faulty variant: one slot too far. *)
FaultyCheckNextIndex ==
    /\ hash_set_entries[Slot] \notin {0, dest}
    /\ rax' = IF rax + 8 <= TableBytes THEN rax + 8 ELSE 0
    /\ UNCHANGED <<hash_set_entries, number_of_hash_set_entries, dest, pc>>

(* check_next_index: the byte offset moves on and wraps at the table's end. *)
CheckNextIndex ==
    /\ hash_set_entries[Slot] \notin {0, dest}
    /\ rax' = IF rax + 8 < TableBytes THEN rax + 8 ELSE 0
    /\ UNCHANGED <<hash_set_entries, number_of_hash_set_entries, dest, pc>>

(* try_to_insert_stub_into_given_slot_and_retry_with_higher_index_until_success. *)
TryToInsert ==
    /\ pc = "try_to_insert"
    /\ StoreLine \/ Duplicate \/ CheckNextIndex
    /\ UNCHANGED <<build, combiner, padding, hashSetBypassBuffer, memcpyArray, store, range, i,
                   history, logVars>>

(* restore_registers, and then the application's own store. *)
Write ==
    /\ pc = "write"
    /\ written' = IF inSection THEN written \cup Bytes(store.addr, store.addr + store.size)
                  ELSE written
    /\ pc' = "app"
    /\ store' = NoStore /\ dest' = 0 /\ range' = 0 /\ rax' = 0
    /\ UNCHANGED <<build, combiner, padding, tableVars, memcpyArray, i, inSection, calls,
                   logVars>>

(* instrumented_memcpy: the client records the range and copies. *)
InstrumentedMemcpy(r) ==
    /\ pc = "app" /\ combiner = 1
    /\ calls < MaxCalls
    /\ calls' = calls + 1
    /\ memcpyArray' = Append(memcpyArray, r)
    /\ written' = written \cup Bytes(r.addr, r.addr + r.size)
    /\ UNCHANGED <<build, combiner, padding, tableVars, pc, store, registers, i, inSection,
                   logVars>>

(* A plain memcpy of the application, caught by wrap_pre, which does the same
   and lets the caught call copy nothing. *)
WrapPre(r) == InstrumentedMemcpy(r)

-----------------------------------------------------------------------------
(* instrument_stop: first the recorded memcpys, each committed by itself. *)
InstrumentStop ==
    /\ pc = "app" /\ inSection
    /\ combiner' = 0
    /\ pc' = "memcpys" /\ i' = 0
    /\ UNCHANGED <<build, padding, tableVars, memcpyArray, store, registers, history, logVars>>

LogMemcpy ==
    /\ pc = "memcpys" /\ i < Len(memcpyArray)
    /\ LET c == memcpyArray[i + 1]
       IN logged' = logged \cup Payloads(c.addr, c.addr + c.size)
    /\ committed' = logged'
    /\ i' = i + 1
    /\ UNCHANGED <<build, combiner, padding, tableVars, memcpyArray, pc, store, registers,
                   history>>

MemcpysLogged ==
    /\ pc = "memcpys" /\ i = Len(memcpyArray)
    /\ pc' = "collect" /\ i' = 0
    /\ UNCHANGED <<build, combiner, padding, tableVars, memcpyArray, store, registers, history,
                   logVars>>

(* Faulty variant: the slot keeps its line. *)
FaultyCollectSlot ==
    /\ build = "dedup" /\ i < Slots
    /\ logged' = IF hash_set_entries[i] > LowLimit
                 THEN logged \cup Payloads(hash_set_entries[i], hash_set_entries[i] + LineSize)
                 ELSE logged
    /\ UNCHANGED hash_set_entries

(* collect_payload_and_store_to_pmem: every line of the table is enqueued and
   its slot zeroed. *)
CollectSlot ==
    /\ build = "dedup" /\ i < Slots
    /\ logged' = IF hash_set_entries[i] > LowLimit
                 THEN logged \cup Payloads(hash_set_entries[i], hash_set_entries[i] + LineSize)
                 ELSE logged
    /\ hash_set_entries' = [hash_set_entries EXCEPT ![i] = 0]

(* Without the table, every recorded store in turn. *)
CollectBypassed ==
    /\ build = "bypass" /\ i < number_of_hash_set_entries
    /\ LET r == hashSetBypassBuffer[i]
       IN logged' = logged \cup Payloads(r.addr, r.addr + r.size)
    /\ UNCHANGED hash_set_entries

Collect ==
    /\ pc = "collect"
    /\ CollectSlot \/ CollectBypassed
    /\ i' = i + 1
    /\ UNCHANGED <<build, combiner, padding, number_of_hash_set_entries, hashSetBypassBuffer,
                   memcpyArray, pc, store, registers, history, committed>>

(* Faulty variant: the recorded memcpys stay. *)
FaultyKeepMemcpys ==
    /\ pc = "collect"
    /\ i = IF build = "dedup" THEN Slots ELSE number_of_hash_set_entries
    /\ committed' = logged
    /\ number_of_hash_set_entries' = 0
    /\ inSection' = FALSE
    /\ pc' = "app" /\ i' = 0
    /\ UNCHANGED <<build, combiner, padding, hash_set_entries, hashSetBypassBuffer, memcpyArray,
                   store, registers, written, calls, logged>>

(* The last commit, and the counters start again. *)
StopEnd ==
    /\ pc = "collect"
    /\ i = IF build = "dedup" THEN Slots ELSE number_of_hash_set_entries
    /\ committed' = logged
    /\ number_of_hash_set_entries' = 0
    /\ memcpyArray' = <<>>
    /\ inSection' = FALSE
    /\ pc' = "app" /\ i' = 0
    /\ UNCHANGED <<build, combiner, padding, hash_set_entries, hashSetBypassBuffer, store,
                   registers, written, calls, logged>>

(* reset_hash_set: called by a worker of the RPC mode after its request. *)
ResetHashSet ==
    /\ pc = "app" /\ ~inSection
    /\ combiner' = 0
    /\ hash_set_entries' = EmptyTable
    /\ UNCHANGED <<build, padding, number_of_hash_set_entries, hashSetBypassBuffer, memcpyArray,
                   pc, store, registers, i, history, logVars>>

-----------------------------------------------------------------------------
(* The steps the application asks for, and those that run by themselves. *)
Application ==
    \/ InstrumentStart \/ InstrumentStop \/ ResetHashSet
    \/ \E r \in StoreRanges : BeginStore(r)
    \/ \E r \in CopyRanges : InstrumentedMemcpy(r) \/ WrapPre(r)

Client == InsertStubs \/ TryToInsert \/ Write \/ LogMemcpy \/ MemcpysLogged \/ Collect \/ StopEnd

Next == Application \/ Client

(* The processor goes on executing the thread. *)
Fairness == WF_vars(Client)

Spec == Init /\ [][Next]_vars
FairSpec == Spec /\ Fairness

-----------------------------------------------------------------------------
(* Type correctness. *)
CollectorTypeOK ==
    /\ build \in Builds /\ combiner \in {0, 1} /\ padding \in Unset
    /\ hash_set_entries \in [0 .. Slots - 1 -> Nat]
    /\ number_of_hash_set_entries \in Nat
    /\ \A k \in DOMAIN hashSetBypassBuffer : hashSetBypassBuffer[k] \in Ranges
    /\ memcpyArray \in Seq(Ranges)
    /\ pc \in {"app", "insert_stubs", "try_to_insert", "write", "memcpys", "collect"}
    /\ store \in Ranges /\ dest \in Nat /\ range \in Nat
    /\ rax \in {8 * k : k \in 0 .. Slots - 1}
    /\ i \in Nat /\ inSection \in BOOLEAN /\ calls \in 0 .. MaxCalls
    /\ written \subseteq Nat /\ logged \subseteq Nat /\ committed \subseteq Nat

(* The slots a probe for line l passes before it reaches slot k. *)
Passed(l, k) == {(l + j) % Slots : j \in 0 .. ((k - l) % Slots) - 1}

(* The table is searchable: no line is in it twice, which compare_uint64
   takes for granted, and a probe from a line's home slot meets no free slot
   before the line, or a second store to the line would enter it again.  The
   counter of the entries is their number. *)
Searchable ==
    /\ \A k, m \in DOMAIN hash_set_entries :
           hash_set_entries[k] = hash_set_entries[m] => k = m \/ hash_set_entries[k] = 0
    /\ \A k \in DOMAIN hash_set_entries :
           hash_set_entries[k] # 0 =>
               \A j \in Passed(hash_set_entries[k], k) : hash_set_entries[j] # 0
    /\ build = "dedup" => number_of_hash_set_entries = Cardinality(Lines)

(* In a section the table is searchable; outside it is empty, whether or not
   the thread calls reset_hash_set. *)
TableSound ==
    /\ pc # "collect" => Searchable
    /\ ~inSection => Lines = {}

(* Sections that make no more calls than the arrays have room for never write
   behind them, whatever sections came before. *)
BuffersFit ==
    /\ Len(memcpyArray) <= MaxMemcpy
    /\ build = "bypass" => number_of_hash_set_entries <= BypassSize

(* Every byte that a section writes, by a store of any size and alignment or
   by memcpy, is committed to the log when instrument_stop returns. *)
Promise ==
    INSTANCE WriteSet WITH
        Reach <- LineSize,
        open <- inSection,
        dirty <- written,
        durable <- IF inSection THEN {} ELSE committed

ImplementsWriteSet == Promise!Spec

(* The inserted code and instrument_stop return to the application: the probe
   finds the line or a free slot although the table may be full. *)
InstrumentationReturns == (pc # "app") ~> (pc = "app")
=============================================================================
