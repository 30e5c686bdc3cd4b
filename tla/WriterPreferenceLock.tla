------------------------ MODULE WriterPreferenceLock ------------------------
(***************************************************************************)
(* The writer-preference spin lock of the front end                        *)
(* (flat_combining/writer_preference_spin_lock.c) and the third party that *)
(* uses its writers word directly: the mmap hook event_post_syscall of the *)
(* instrumentation client, which takes the word by compare-and-swap and    *)
(* does NOT wait for the readers.                                          *)
(*                                                                         *)
(* One action is one access to shared memory.  Both shared words are       *)
(* _Atomic and a reader issues an mfence after publishing itself, so the   *)
(* accesses are sequentially consistent.                                   *)
(***************************************************************************)
EXTENDS Integers

CONSTANTS
    NUMBER_OF_THREADS,  \* slots of readers_set (flat_combining.h)
    MmapContexts        \* where the application may call mmap with combiner = 0:
                        \*   "app"   outside every lock,
                        \*   "ro"    inside a read-only request,
                        \*   "alloc" inside the struct allocation of process_command

ASSUME ThreadsAssumption == NUMBER_OF_THREADS \in Nat \ {0}
ASSUME ContextsAssumption == MmapContexts \subseteq {"app", "ro", "alloc"}

Threads == 0 .. NUMBER_OF_THREADS - 1

READING == 0
NOT_READING == 1

VARIABLES
    writers,      \* the lock word: 1 while somebody owns the writer side
    readers_set,  \* readers_set[t]: READING or NOT_READING
    rpc,          \* where t is in readLock / readUnlock
    wpc,          \* where t is in the writer side (lockWriter, drain, writeUnlock)
    scan,         \* loop index i of activeReadersSetIsEmpty in thread t
    mpc           \* where t is in the lock loop of event_post_syscall

lockVars == <<writers, readers_set, rpc, wpc, scan, mpc>>

LockInit ==
    /\ writers = 0
    /\ readers_set = [t \in Threads |-> NOT_READING]
    /\ rpc = [t \in Threads |-> "out"]
    /\ wpc = [t \in Threads |-> "out"]
    /\ scan = [t \in Threads |-> 0]
    /\ mpc = [t \in Threads |-> "out"]

LockIsFree == writers = 0

(***************************************************************************)
(* The reader side.  "check": published, about to test the word;           *)
(* "retreat": lost to a writer, about to unpublish; "spin": waiting for    *)
(* the word to become free, after which the outer loop starts "again".     *)
(***************************************************************************)
MarkReaderAsActive(t) ==
    /\ \/ rpc[t] = "out" /\ wpc[t] = "out" /\ mpc[t] = "out"
       \/ rpc[t] = "again"
    /\ readers_set' = [readers_set EXCEPT ![t] = READING]
    /\ rpc' = [rpc EXCEPT ![t] = "check"]
    /\ UNCHANGED <<writers, wpc, scan, mpc>>

ReadLockTest(t) ==
    /\ rpc[t] = "check"
    /\ rpc' = [rpc EXCEPT ![t] = IF LockIsFree THEN "in" ELSE "retreat"]
    /\ UNCHANGED <<writers, readers_set, wpc, scan, mpc>>

(* Faulty variant: the retreating reader stays published. *)
FaultyRetreat(t) ==
    /\ rpc[t] = "retreat"
    /\ rpc' = [rpc EXCEPT ![t] = "spin"]
    /\ UNCHANGED <<writers, readers_set, wpc, scan, mpc>>

MarkReaderAsInactive(t) ==
    /\ rpc[t] = "retreat"
    /\ readers_set' = [readers_set EXCEPT ![t] = NOT_READING]
    /\ rpc' = [rpc EXCEPT ![t] = "spin"]
    /\ UNCHANGED <<writers, wpc, scan, mpc>>

ReadLockSpin(t) ==
    /\ rpc[t] = "spin"
    /\ LockIsFree
    /\ rpc' = [rpc EXCEPT ![t] = "again"]
    /\ UNCHANGED <<writers, readers_set, wpc, scan, mpc>>

ReadUnlock(t) ==
    /\ rpc[t] = "in"
    /\ mpc[t] = "out"
    /\ readers_set' = [readers_set EXCEPT ![t] = NOT_READING]
    /\ rpc' = [rpc EXCEPT ![t] = "out"]
    /\ UNCHANGED <<writers, wpc, scan, mpc>>

(***************************************************************************)
(* The writer side.  The winner of the compare-and-swap owns the word, but *)
(* is "in" only after one pass over readers_set met no active reader; the  *)
(* pass reads one slot at a time and starts over at the first active one.  *)
(***************************************************************************)
WriterSeesFree(t) ==
    /\ rpc[t] = "out" /\ wpc[t] = "out" /\ mpc[t] = "out"
    /\ LockIsFree
    /\ wpc' = [wpc EXCEPT ![t] = "cas"]
    /\ UNCHANGED <<writers, readers_set, rpc, scan, mpc>>

(* Faulty variants: a plain store in place of the compare-and-swap, and a
   drain that begins at slot 1. *)
FaultyBlindLock(t) ==
    /\ wpc[t] = "cas"
    /\ writers' = 1
    /\ wpc' = [wpc EXCEPT ![t] = "drain"]
    /\ scan' = [scan EXCEPT ![t] = 0]
    /\ UNCHANGED <<readers_set, rpc, mpc>>

FaultySkipFirst(t) ==
    /\ wpc[t] = "cas"
    /\ writers = 0
    /\ writers' = 1
    /\ wpc' = [wpc EXCEPT ![t] = "drain"]
    /\ scan' = [scan EXCEPT ![t] = 1]
    /\ UNCHANGED <<readers_set, rpc, mpc>>

LockWriter(t) ==
    /\ wpc[t] = "cas"
    /\ \/ /\ writers = 0
          /\ writers' = 1
          /\ wpc' = [wpc EXCEPT ![t] = "drain"]
          /\ scan' = [scan EXCEPT ![t] = 0]
       \/ /\ writers # 0
          /\ wpc' = [wpc EXCEPT ![t] = "out"]
          /\ UNCHANGED <<writers, scan>>
    /\ UNCHANGED <<readers_set, rpc, mpc>>

ActiveReadersSetIsEmpty(t) ==
    /\ wpc[t] = "drain"
    /\ \/ /\ readers_set[scan[t]] = READING
          /\ scan' = [scan EXCEPT ![t] = 0]
          /\ wpc' = wpc
       \/ /\ readers_set[scan[t]] # READING
          /\ scan[t] + 1 < NUMBER_OF_THREADS
          /\ scan' = [scan EXCEPT ![t] = scan[t] + 1]
          /\ wpc' = wpc
       \/ /\ readers_set[scan[t]] # READING
          /\ scan[t] + 1 = NUMBER_OF_THREADS
          /\ scan' = [scan EXCEPT ![t] = 0]
          /\ wpc' = [wpc EXCEPT ![t] = "in"]
    /\ UNCHANGED <<writers, readers_set, rpc, mpc>>

WriteUnlock(t) ==
    /\ wpc[t] = "in"
    /\ mpc[t] = "out"
    /\ writers' = 0
    /\ wpc' = [wpc EXCEPT ![t] = "out"]
    /\ UNCHANGED <<readers_set, rpc, scan, mpc>>

(***************************************************************************)
(* event_post_syscall after an mmap by a thread whose combiner field is 0. *)
(* The hook runs wherever the application called mmap, so it can be nested *)
(* in a read-only request or in the allocation under the writer lock.      *)
(***************************************************************************)
MmapHook(t) ==
    /\ mpc[t] = "out"
    /\ \/ "app" \in MmapContexts /\ rpc[t] = "out" /\ wpc[t] = "out"
       \/ "ro" \in MmapContexts /\ rpc[t] = "in"
       \/ "alloc" \in MmapContexts /\ wpc[t] = "in"
    /\ mpc' = [mpc EXCEPT ![t] = "spin"]
    /\ UNCHANGED <<writers, readers_set, rpc, wpc, scan>>

MmapSeesFree(t) ==
    /\ mpc[t] = "spin"
    /\ LockIsFree
    /\ mpc' = [mpc EXCEPT ![t] = "cas"]
    /\ UNCHANGED <<writers, readers_set, rpc, wpc, scan>>

MmapLock(t) ==
    /\ mpc[t] = "cas"
    /\ \/ /\ writers = 0
          /\ writers' = 1
          /\ mpc' = [mpc EXCEPT ![t] = "in"]
       \/ /\ writers # 0
          /\ mpc' = [mpc EXCEPT ![t] = "spin"]
          /\ UNCHANGED writers
    /\ UNCHANGED <<readers_set, rpc, wpc, scan>>

(* Faulty variant: the hook returns without releasing the word. *)
FaultyMmapReturn(t) ==
    /\ mpc[t] = "in"
    /\ mpc' = [mpc EXCEPT ![t] = "out"]
    /\ UNCHANGED <<writers, readers_set, rpc, wpc, scan>>

MmapUnlock(t) ==
    /\ mpc[t] = "in"
    /\ writers' = 0
    /\ mpc' = [mpc EXCEPT ![t] = "out"]
    /\ UNCHANGED <<readers_set, rpc, wpc, scan>>

(***************************************************************************)
(* A thread's choices (which request to issue) and the steps it owes.      *)
(***************************************************************************)
LockRequest(t) ==
    \/ MarkReaderAsActive(t) /\ rpc[t] = "out"
    \/ WriterSeesFree(t)
    \/ MmapHook(t)

ReaderStep(t) ==
    \/ MarkReaderAsActive(t) /\ rpc[t] = "again"
    \/ ReadLockTest(t) \/ MarkReaderAsInactive(t) \/ ReadLockSpin(t)
    \/ ReadUnlock(t)

WriterStep(t) ==
    \/ LockWriter(t) \/ ActiveReadersSetIsEmpty(t) \/ WriteUnlock(t)

MmapStep(t) ==
    \/ MmapSeesFree(t) \/ MmapLock(t) \/ MmapUnlock(t)

LockNext ==
    \E t \in Threads :
        LockRequest(t) \/ ReaderStep(t) \/ WriterStep(t) \/ MmapStep(t)

LockSpec == LockInit /\ [][LockNext]_lockVars

-----------------------------------------------------------------------------
(* Type correctness of the lock's shared words and program counters. *)
LockTypeOK ==
    /\ writers \in {0, 1}
    /\ readers_set \in [Threads -> {READING, NOT_READING}]
    /\ rpc \in [Threads -> {"out", "check", "in", "retreat", "spin", "again"}]
    /\ wpc \in [Threads -> {"out", "cas", "drain", "in"}]
    /\ scan \in [Threads -> Threads]
    /\ mpc \in [Threads -> {"out", "spin", "cas", "in"}]

(* t owns the writers word, as a writer or as the mmap hook. *)
OwnsWord(t) == wpc[t] \in {"drain", "in"} \/ mpc[t] = "in"

(***************************************************************************)
(* Mutual exclusion, what exec_rw_flat_combining and the mmap hook rely    *)
(* on: two threads never own the writers word together (so there is one    *)
(* producer of the redo log), nobody owns it twice, and no request is      *)
(* being read while a writer is in its critical section, although the      *)
(* drain reads the slots one by one while readers come and go.             *)
(***************************************************************************)
MutualExclusion ==
    /\ \A t, u \in Threads : OwnsWord(t) /\ OwnsWord(u) => t = u
    /\ \A t, u \in Threads : wpc[t] = "in" => rpc[u] # "in" /\ mpc[t] # "in"

(***************************************************************************)
(* The inductive strengthening of MutualExclusion: the word is 1 exactly   *)
(* when somebody owns it (no unlock is lost, no owner is forgotten), a     *)
(* slot says READING exactly while its thread is between publishing and    *)
(* unpublishing itself, and every slot the drain has passed holds no       *)
(* reader inside.                                                          *)
(***************************************************************************)
WordIsOwned == (writers = 1) <=> \E t \in Threads : OwnsWord(t)

PublishedReaders ==
    \A t \in Threads :
        (readers_set[t] = READING) <=> rpc[t] \in {"check", "in", "retreat"}

DrainedPrefix ==
    \A t, u \in Threads :
        wpc[t] = "drain" /\ u < scan[t] => rpc[u] # "in"

OneSideAtATime ==
    \A t \in Threads :
        /\ wpc[t] # "out" => rpc[t] = "out"
        /\ mpc[t] # "out" => wpc[t] \in {"out", "in"}
        /\ mpc[t] # "out" => rpc[t] \in {"out", "in"}

(* The whole strengthening, as one invariant: what each pc of the lock code
   implies about the shared words. *)
LockInv ==
    /\ MutualExclusion
    /\ WordIsOwned
    /\ PublishedReaders
    /\ DrainedPrefix
    /\ OneSideAtATime

(* Writer preference: the winner of the compare-and-swap gets its critical
   section, however many readers keep arriving behind it
   (tryWriteLock: "This is what gives writer preference."). *)
WriterDrains == \A t \in Threads : wpc[t] = "drain" ~> wpc[t] = "in"

(* The lock always comes free again: neither the drain nor a critical section
   holds the writers word for ever. *)
WordComesFree == writers = 1 ~> writers = 0
=============================================================================
