------------------------ MODULE FlatCombiningProofs -------------------------
(***************************************************************************)
(* Machine-checked proofs about the writer-preference lock and about the   *)
(* flat-combining executor that uses it, for every number of threads, both *)
(* modes and every set of places where mmap may be called.                 *)
(***************************************************************************)
EXTENDS FlatCombining, FiniteSetTheorems, TLAPS

(***************************************************************************)
(* The lock by itself.                                                     *)
(***************************************************************************)

(* Type correctness of the lock code: every step keeps the shared words and
   the program counters in their types; the scan index stays inside
   readers_set. *)
THEOREM LockTypeCorrect == LockSpec => []LockTypeOK
<1>1. LockInit => LockTypeOK
  BY ThreadsAssumption
  DEF LockInit, LockTypeOK, Threads, READING, NOT_READING
<1>2. LockTypeOK /\ [LockNext]_lockVars => LockTypeOK'
  <2> SUFFICES ASSUME LockTypeOK, [LockNext]_lockVars PROVE LockTypeOK'
    OBVIOUS
  <2> USE DEF LockTypeOK
  <2>1. CASE UNCHANGED lockVars
    BY <2>1 DEF lockVars
  <2>2. ASSUME NEW t \in Threads, LockRequest(t) PROVE LockTypeOK'
    BY <2>2 DEF LockRequest, MarkReaderAsActive, WriterSeesFree, MmapHook
  <2>3. ASSUME NEW t \in Threads, ReaderStep(t) PROVE LockTypeOK'
    BY <2>3 DEF ReaderStep, MarkReaderAsActive, ReadLockTest,
                MarkReaderAsInactive, ReadLockSpin, ReadUnlock
  <2>4. ASSUME NEW t \in Threads, WriterStep(t) PROVE LockTypeOK'
    <3>1. 0 \in Threads
      BY ThreadsAssumption DEF Threads
    <3>2. CASE LockWriter(t)
      BY <3>1, <3>2 DEF LockWriter
    <3>3. CASE ActiveReadersSetIsEmpty(t)
      <4>0. scan[t] \in Threads
        OBVIOUS
      <4>1. scan[t] + 1 < NUMBER_OF_THREADS => scan[t] + 1 \in Threads
        <5> HIDE DEF LockTypeOK
        <5> QED BY <4>0, ThreadsAssumption DEF Threads
      <4> QED BY <3>1, <3>3, <4>1 DEF ActiveReadersSetIsEmpty
    <3>4. CASE WriteUnlock(t)
      BY <3>4 DEF WriteUnlock
    <3> QED BY <2>4, <3>2, <3>3, <3>4 DEF WriterStep
  <2>5. ASSUME NEW t \in Threads, MmapStep(t) PROVE LockTypeOK'
    BY <2>5 DEF MmapStep, MmapSeesFree, MmapLock, MmapUnlock
  <2> QED BY <2>1, <2>2, <2>3, <2>4, <2>5 DEF LockNext
<1> QED BY <1>1, <1>2, PTL DEF LockSpec

-----------------------------------------------------------------------------
(* While the writers word is 0 nobody is draining, writing or in the hook:
   what a successful test or compare-and-swap of the word tells its thread. *)
LEMMA FreeMeansUnowned ==
    ASSUME LockInv, writers = 0, NEW t \in Threads
    PROVE  wpc[t] \notin {"drain", "in"} /\ mpc[t] # "in"
BY DEF LockInv, WordIsOwned, OwnsWord

(* An owner excludes every other owner. *)
LEMMA OwnerIsUnique ==
    ASSUME LockInv, NEW t \in Threads, NEW u \in Threads, OwnsWord(t), u # t
    PROVE  wpc[u] \notin {"drain", "in"} /\ mpc[u] # "in"
BY DEF LockInv, MutualExclusion, OwnsWord

(* A request of the application (publishing a reader, finding the word free,
   entering the mmap hook) preserves the strengthened invariant. *)
LEMMA RequestKeepsLockInv ==
    ASSUME LockTypeOK, LockInv, NEW t \in Threads, LockRequest(t)
    PROVE  LockInv'
<1> USE DEF LockTypeOK, LockInv, MutualExclusion, WordIsOwned, OwnsWord,
            PublishedReaders, DrainedPrefix, OneSideAtATime, READING, NOT_READING
<1>1. CASE MarkReaderAsActive(t)
  BY <1>1 DEF MarkReaderAsActive
<1>2. CASE WriterSeesFree(t)
  BY <1>2 DEF WriterSeesFree
<1>3. CASE MmapHook(t)
  BY <1>3 DEF MmapHook
<1> QED BY <1>1, <1>2, <1>3 DEF LockRequest

(* A step of a reader preserves the strengthened invariant: it enters only
   when the word is free, hence when nobody drains. *)
LEMMA ReaderKeepsLockInv ==
    ASSUME LockTypeOK, LockInv, NEW t \in Threads, ReaderStep(t)
    PROVE  LockInv'
<1> USE DEF LockTypeOK, LockInv, MutualExclusion, WordIsOwned, OwnsWord,
            PublishedReaders, DrainedPrefix, OneSideAtATime, READING, NOT_READING
<1>1. CASE MarkReaderAsActive(t)
  BY <1>1 DEF MarkReaderAsActive
<1>2. CASE ReadLockTest(t)
  <2>1. CASE LockIsFree
    <3>1. \A u \in Threads : wpc[u] \notin {"drain", "in"}
      BY <2>1, FreeMeansUnowned DEF LockIsFree
    <3> QED BY <1>2, <2>1, <3>1 DEF ReadLockTest
  <2>2. CASE ~LockIsFree
    BY <1>2, <2>2 DEF ReadLockTest
  <2> QED BY <2>1, <2>2
<1>3. CASE MarkReaderAsInactive(t)
  BY <1>3 DEF MarkReaderAsInactive
<1>4. CASE ReadLockSpin(t)
  BY <1>4 DEF ReadLockSpin
<1>5. CASE ReadUnlock(t)
  BY <1>5 DEF ReadUnlock
<1> QED BY <1>1, <1>2, <1>3, <1>4, <1>5 DEF ReaderStep

(* A step of a writer preserves the strengthened invariant: the drain ends
   only after it has passed every slot. *)
LEMMA WriterKeepsLockInv ==
    ASSUME LockTypeOK, LockInv, NEW t \in Threads, WriterStep(t)
    PROVE  LockInv'
<1> USE DEF LockTypeOK, LockInv, MutualExclusion, WordIsOwned, OwnsWord,
            PublishedReaders, DrainedPrefix, OneSideAtATime, READING, NOT_READING
<1>1. CASE LockWriter(t)
  <2>1. CASE writers = 0
    <3>1. \A u \in Threads : wpc[u] \notin {"drain", "in"} /\ mpc[u] # "in"
      BY <2>1, FreeMeansUnowned
    <3>2. \A u \in Threads : ~(u < 0)
      BY ThreadsAssumption DEF Threads
    <3> QED BY <1>1, <2>1, <3>1, <3>2 DEF LockWriter
  <2>2. CASE writers # 0
    BY <1>1, <2>2 DEF LockWriter
  <2> QED BY <2>1, <2>2
<1>2. CASE ActiveReadersSetIsEmpty(t)
  <2>0. OwnsWord(t) /\ mpc[t] = "out" /\ wpc[t] = "drain"
    BY <1>2 DEF ActiveReadersSetIsEmpty
  <2>1. \A u \in Threads : u # t => wpc[u] \notin {"drain", "in"} /\ mpc[u] # "in"
    BY <2>0, OwnerIsUnique
  <2>2. CASE readers_set[scan[t]] = READING
    <3>1. \A u \in Threads : ~(u < 0)
      BY ThreadsAssumption DEF Threads
    <3> QED BY <1>2, <2>0, <2>1, <2>2, <3>1 DEF ActiveReadersSetIsEmpty
  <2>3. CASE readers_set[scan[t]] # READING
    <3>0. ~(scan[t] + 1 < NUMBER_OF_THREADS /\ scan[t] + 1 = NUMBER_OF_THREADS)
      <4>1. scan[t] \in Threads
        OBVIOUS
      <4> HIDE DEF LockTypeOK, LockInv
      <4> QED BY <4>1, ThreadsAssumption DEF Threads
    <3>1. rpc[scan[t]] # "in"
      BY <2>3
    <3>2. \A u \in Threads : u < scan[t] + 1 => u < scan[t] \/ u = scan[t]
      BY ThreadsAssumption DEF Threads
    <3>3. \A u \in Threads : u < scan[t] + 1 => rpc[u] # "in"
      BY <2>0, <3>1, <3>2
    <3>4. CASE scan[t] + 1 < NUMBER_OF_THREADS
      <4>1. scan' = [scan EXCEPT ![t] = scan[t] + 1] /\ wpc' = wpc
        BY <1>2, <2>3, <3>4, <3>0 DEF ActiveReadersSetIsEmpty
      <4> QED BY <1>2, <2>0, <2>1, <3>3, <4>1 DEF ActiveReadersSetIsEmpty
    <3>5. CASE scan[t] + 1 = NUMBER_OF_THREADS
      <4>1. \A u \in Threads : rpc[u] # "in"
        BY <3>3, <3>5, ThreadsAssumption DEF Threads
      <4>2. wpc' = [wpc EXCEPT ![t] = "in"]
        BY <1>2, <2>3, <3>5, <3>0 DEF ActiveReadersSetIsEmpty
      <4> QED BY <1>2, <2>0, <2>1, <4>1, <4>2 DEF ActiveReadersSetIsEmpty
    <3> QED BY <1>2, <2>3, <3>4, <3>5 DEF ActiveReadersSetIsEmpty
  <2> QED BY <2>2, <2>3
<1>3. CASE WriteUnlock(t)
  <2>1. OwnsWord(t)
    BY <1>3 DEF WriteUnlock
  <2>2. \A u \in Threads : u # t => wpc[u] \notin {"drain", "in"} /\ mpc[u] # "in"
    BY <2>1, OwnerIsUnique
  <2> QED BY <1>3, <2>2 DEF WriteUnlock
<1> QED BY <1>1, <1>2, <1>3 DEF WriterStep

(* A step of the mmap hook preserves the strengthened invariant: it takes the
   word only when nobody owns it, although it never waits for readers. *)
LEMMA MmapKeepsLockInv ==
    ASSUME LockTypeOK, LockInv, NEW t \in Threads, MmapStep(t)
    PROVE  LockInv'
<1> USE DEF LockTypeOK, LockInv, MutualExclusion, WordIsOwned, OwnsWord,
            PublishedReaders, DrainedPrefix, OneSideAtATime, READING, NOT_READING
<1>1. CASE MmapSeesFree(t)
  BY <1>1 DEF MmapSeesFree
<1>2. CASE MmapLock(t)
  <2>1. CASE writers = 0
    <3>1. \A u \in Threads : wpc[u] \notin {"drain", "in"} /\ mpc[u] # "in"
      BY <2>1, FreeMeansUnowned
    <3> QED BY <1>2, <2>1, <3>1 DEF MmapLock
  <2>2. CASE writers # 0
    BY <1>2, <2>2 DEF MmapLock
  <2> QED BY <2>1, <2>2
<1>3. CASE MmapUnlock(t)
  <2>1. OwnsWord(t) /\ wpc[t] \notin {"drain", "in"}
    BY <1>3 DEF MmapUnlock
  <2>2. \A u \in Threads : u # t => wpc[u] \notin {"drain", "in"} /\ mpc[u] # "in"
    BY <2>1, OwnerIsUnique
  <2> QED BY <1>3, <2>1, <2>2 DEF MmapUnlock
<1> QED BY <1>1, <1>2, <1>3 DEF MmapStep

(* The strengthened invariant is inductive, so it holds in every reachable
   state of the lock code. *)
THEOREM LockInvariant == LockSpec => []LockInv
<1>1. LockInit => LockInv
  BY DEF LockInit, LockInv, MutualExclusion, WordIsOwned, OwnsWord,
         PublishedReaders, DrainedPrefix, OneSideAtATime, READING, NOT_READING
<1>2. LockTypeOK /\ LockInv /\ [LockNext]_lockVars => LockInv'
  <2> SUFFICES ASSUME LockTypeOK, LockInv, [LockNext]_lockVars PROVE LockInv'
    OBVIOUS
  <2>1. CASE UNCHANGED lockVars
    BY <2>1 DEF lockVars, LockInv, MutualExclusion, WordIsOwned, OwnsWord,
                PublishedReaders, DrainedPrefix, OneSideAtATime
  <2>2. CASE LockNext
    BY <2>2, RequestKeepsLockInv, ReaderKeepsLockInv, WriterKeepsLockInv,
       MmapKeepsLockInv DEF LockNext
  <2> QED BY <2>1, <2>2
<1> QED BY <1>1, <1>2, LockTypeCorrect, PTL DEF LockSpec

(* Mutual exclusion of the writer-preference lock, for every number of threads:
   one owner of the writers word, and no reader beside a writer. *)
THEOREM LockIsExclusive == LockSpec => []MutualExclusion
<1>1. LockInv => MutualExclusion
  BY DEF LockInv
<1> QED BY <1>1, LockInvariant, PTL

-----------------------------------------------------------------------------
(***************************************************************************)
(* The executor's use of the lock, for every content of the uninitialised  *)
(* taskArray.                                                              *)
(***************************************************************************)

(* A step of thread t on the lock, through one of the operations of its API. *)
LockStep(t) == LockRequest(t) \/ ReaderStep(t) \/ WriterStep(t) \/ MmapStep(t)

(* Publishing a reader is a lock step wherever readLock stands. *)
LEMMA PublishIsLockStep ==
    ASSUME NEW t \in Threads, MarkReaderAsActive(t)
    PROVE  LockStep(t)
BY DEF MarkReaderAsActive, LockStep, LockRequest, ReaderStep

(* What a thread may ask the executor for uses the lock only through its API. *)
LEMMA RequestUsesLock ==
    ASSUME NEW t \in Threads, Request(t)
    PROVE  LockStep(t) \/ UNCHANGED lockVars
<1>1. CASE ReleaseWorker(t) \/ InitializeThread(t) \/ AllocateBegin(t) \/ ExecRw(t)
  BY <1>1 DEF ReleaseWorker, InitializeThread, AllocateBegin, ExecRw
<1>2. CASE ThreadMmap(t)
  BY <1>2 DEF ThreadMmap, LockStep, LockRequest
<1>3. CASE ExecRo(t)
  BY <1>3, PublishIsLockStep DEF ExecRo
<1> QED BY <1>1, <1>2, <1>3 DEF Request

(* So does every step of a request that has begun: the combiner, the struct
   allocation, a read-only request and the mmap hook. *)
LEMMA StepUsesLock ==
    ASSUME NEW t \in Threads, Step(t)
    PROVE  LockStep(t) \/ UNCHANGED lockVars
<1>1. CASE AllocateLock(t) \/ AllocateEnd(t)
  BY <1>1 DEF AllocateLock, AllocateEnd, LockStep, LockRequest, WriterStep
<1>2. CASE ExecRo(t) \/ ExecRw(t)
  BY <1>2, PublishIsLockStep DEF ExecRo, ExecRw
<1>3. CASE ExecRoLock(t) \/ ExecRoEnd(t)
  BY <1>3 DEF ExecRoLock, ExecRoEnd, LockStep, ReaderStep
<1>4. CASE TestStarted(t) \/ LeaveDone(t) \/ TestDone(t)
  BY <1>4 DEF TestStarted, LeaveDone, TestDone
<1>5. CASE TryLock(t)
  BY <1>5 DEF TryLock, LockStep, LockRequest, WriterStep
<1>6. CASE CollectTask(t) \/ ProcessRequest(t) \/ InstrumentStop(t) \/ MarkDone(t)
           \/ ClearOwn(t)
  BY <1>6 DEF CollectTask, ProcessRequest, InstrumentStop, MarkDone, ClearOwn
<1>7. CASE DrainReaders(t) \/ CombinerUnlock(t)
  BY <1>7 DEF DrainReaders, CombinerUnlock, LockStep, WriterStep
<1>8. CASE ThreadMmapStep(t)
  BY <1>8 DEF ThreadMmapStep, LockStep
<1> QED BY <1>1, <1>2, <1>3, <1>4, <1>5, <1>6, <1>7, <1>8 DEF Step

(* The executor code, whatever it does with taskArray, is a client of the
   lock: its behaviours are behaviours of the lock's specification. *)
THEOREM ExecutorUsesLock == Spec => LockSpec
<1>1. Init => LockInit
  BY DEF Init
<1>2. [Next]_vars => [LockNext]_lockVars
  <2> SUFFICES ASSUME [Next]_vars PROVE [LockNext]_lockVars
    OBVIOUS
  <2>1. CASE UNCHANGED vars
    BY <2>1 DEF vars
  <2>2. CASE Next
    <3>1. PICK t \in Threads : Request(t) \/ Step(t)
      BY <2>2 DEF Next
    <3>2. LockStep(t) \/ UNCHANGED lockVars
      BY <3>1, RequestUsesLock, StepUsesLock
    <3> QED BY <3>2 DEF LockNext, LockStep
  <2> QED BY <2>1, <2>2
<1> QED BY <1>1, <1>2, PTL DEF Spec, LockSpec

(* The strengthened lock invariant holds of the executor code. *)
THEOREM ExecutorLockInvariant == Spec => []LockInv
BY ExecutorUsesLock, LockInvariant, PTL

(* One combiner, allocator or mmap hook at a time, and no read-only callback
   beside a combiner, in the executor code, for every number of threads. *)
THEOREM ExecutorIsExclusive == Spec => []MutualExclusion
BY ExecutorUsesLock, LockIsExclusive, PTL

-----------------------------------------------------------------------------
(* What keeps readers away from updates that a crash could take back: the
   combiner owns the drained lock from the first callback to the unlock, and
   an update is executed but not durable only while its combiner is between
   instrument_start and instrument_stop. *)
CombinerHoldsLock ==
    \A t \in Threads : fpc[t] \in {"combine", "finish", "unlock"} => wpc[t] = "in"

VolatileIsCombined ==
    \A u \in Threads : execs[u] # durable[u] => \E t \in Threads : fpc[t] = "combine"

SectionInv ==
    /\ DOMAIN fpc = Threads /\ DOMAIN execs = Threads /\ DOMAIN durable = Threads
    /\ CombinerHoldsLock
    /\ VolatileIsCombined

(* A thread's request keeps the invariant: a new update starts with no
   execution, and no other thread's place in the executor changes. *)
LEMMA RequestKeepsSection ==
    ASSUME LockTypeOK, SectionInv, NEW t \in Threads, Request(t)
    PROVE  SectionInv'
<1> USE DEF SectionInv, CombinerHoldsLock, VolatileIsCombined, LockTypeOK, Goto
<1>1. CASE ReleaseWorker(t)
  BY <1>1 DEF ReleaseWorker, lockVars
<1>2. CASE InitializeThread(t)
  BY <1>2 DEF InitializeThread, lockVars
<1>3. CASE AllocateBegin(t)
  BY <1>3 DEF AllocateBegin, lockVars
<1>4. CASE ThreadMmap(t)
  BY <1>4 DEF ThreadMmap, MmapHook, fcVars
<1>5. CASE fpc[t] = "idle" /\ ExecRo(t)
  BY <1>5 DEF ExecRo, MarkReaderAsActive
<1>6. CASE fpc[t] = "idle" /\ ExecRw(t)
  BY <1>6 DEF ExecRw, lockVars
<1> QED BY <1>1, <1>2, <1>3, <1>4, <1>5, <1>6 DEF Request

(* A step of a request keeps it: callbacks run in "combine" only, and leaving
   "combine" is instrument_stop, which makes everything durable. *)
LEMMA StepKeepsSection ==
    ASSUME LockTypeOK, SectionInv, NEW t \in Threads, Step(t)
    PROVE  SectionInv'
<1> USE DEF SectionInv, CombinerHoldsLock, VolatileIsCombined, LockTypeOK, Goto
<1>1. CASE AllocateLock(t)
  BY <1>1 DEF AllocateLock, WriterSeesFree, LockWriter, ActiveReadersSetIsEmpty, fcVars
<1>2. CASE AllocateEnd(t)
  BY <1>2 DEF AllocateEnd, WriteUnlock
<1>3. CASE fpc[t] = "request" /\ ExecRo(t)
  BY <1>3 DEF ExecRo, MarkReaderAsActive
<1>4. CASE fpc[t] = "request" /\ ExecRw(t)
  BY <1>4 DEF ExecRw, lockVars
<1>5. CASE ExecRoLock(t)
  BY <1>5 DEF ExecRoLock, MarkReaderAsActive, ReadLockTest, MarkReaderAsInactive,
              ReadLockSpin, fcVars
<1>6. CASE ExecRoEnd(t)
  BY <1>6 DEF ExecRoEnd, ReadUnlock
<1>7. CASE TestStarted(t)
  BY <1>7 DEF TestStarted, lockVars
<1>8. CASE LeaveDone(t)
  BY <1>8 DEF LeaveDone, lockVars
<1>9. CASE TestDone(t)
  BY <1>9 DEF TestDone, lockVars
<1>10. CASE TryLock(t)
  BY <1>10 DEF TryLock, WriterSeesFree, LockWriter, lockVars, fcVars
<1>11. CASE CollectTask(t)
  BY <1>11 DEF CollectTask, lockVars
<1>12. CASE DrainReaders(t)
  BY <1>12 DEF DrainReaders, ActiveReadersSetIsEmpty
<1>13. CASE ProcessRequest(t)
  BY <1>13 DEF ProcessRequest, lockVars
<1>14. CASE InstrumentStop(t)
  BY <1>14 DEF InstrumentStop, lockVars
<1>15. CASE MarkDone(t)
  BY <1>15 DEF MarkDone, lockVars
<1>16. CASE ClearOwn(t)
  BY <1>16 DEF ClearOwn, lockVars
<1>17. CASE CombinerUnlock(t)
  BY <1>17 DEF CombinerUnlock, WriteUnlock
<1>18. CASE ThreadMmapStep(t)
  BY <1>18 DEF ThreadMmapStep, MmapStep, MmapSeesFree, MmapLock, MmapUnlock, fcVars
<1> QED BY <1>1, <1>2, <1>3, <1>4, <1>5, <1>6, <1>7, <1>8, <1>9, <1>10, <1>11, <1>12,
           <1>13, <1>14, <1>15, <1>16, <1>17, <1>18 DEF Step

(* The strengthened invariant holds of the executor code. *)
THEOREM SectionInvariant == Spec => []SectionInv
<1>1. Init => SectionInv
  BY DEF Init, SectionInv, CombinerHoldsLock, VolatileIsCombined
<1>2. LockTypeOK /\ SectionInv /\ [Next]_vars => SectionInv'
  <2> SUFFICES ASSUME LockTypeOK, SectionInv, [Next]_vars PROVE SectionInv'
    OBVIOUS
  <2>1. CASE UNCHANGED vars
    BY <2>1 DEF vars, lockVars, fcVars, SectionInv, CombinerHoldsLock, VolatileIsCombined
  <2>2. CASE Next
    BY <2>2, RequestKeepsSection, StepKeepsSection DEF Next
  <2> QED BY <2>1, <2>2
<1>3. Spec => []LockTypeOK
  BY ExecutorUsesLock, LockTypeCorrect, PTL
<1> QED BY <1>1, <1>2, <1>3, PTL DEF Spec

(* A read-only callback of exec_ro never runs beside an update that has been
   executed and could still be lost in a crash, for every number of threads. *)
THEOREM ReadersSeeOnlyDurable == Spec => []ReadersSeeDurable
<1>1. MutualExclusion /\ SectionInv => ReadersSeeDurable
  BY DEF MutualExclusion, SectionInv, CombinerHoldsLock, VolatileIsCombined,
         ReadersSeeDurable
<1> QED BY <1>1, SectionInvariant, ExecutorIsExclusive, PTL

-----------------------------------------------------------------------------
(***************************************************************************)
(* What exec_rw_flat_combining does with the requests of taskArray.        *)
(*                                                                         *)
(* Everything here needs one circumstance that the code leaves to chance:  *)
(* the memory that allocateFlatCombiningdMemory does not initialise must   *)
(* not happen to say READY_TO_EXECUTE in the slot of a thread that has not *)
(* registered yet.  It is the hypothesis FreshTaskArray of every theorem.  *)
(***************************************************************************)
FreshTaskArray == READY_TO_EXECUTE \notin UninitReady

(* The types of the executor's own variables. *)
ExecutorTypes ==
    /\ rpc_mode \in BOOLEAN
    /\ ready \in [Threads -> ReadyValues]
    /\ fpc \in [Threads -> {"off", "idle", "alloc", "request", "ro", "poll", "poll2",
                            "try", "await", "collect", "combine", "finish", "unlock"}]
    /\ batch \in [Threads -> Seq(Threads)]
    /\ cursor \in [Threads -> 0 .. NUMBER_OF_THREADS]
    /\ global_thread_count \in 0 .. NUMBER_OF_THREADS
    /\ execs \in [Threads -> {0, 1}]
    /\ durable \in [Threads -> {0, 1}]

(***************************************************************************)
(* What a thread's place in the executor says of its side of the lock:     *)
(* who collects owns the word, who executes has drained the readers, and   *)
(* who publishes itself as a reader is in exec_ro.                         *)
(***************************************************************************)
PlaceInLock ==
    \A t \in Threads :
        /\ fpc[t] = "collect" => wpc[t] = "drain"
        /\ fpc[t] \in {"combine", "finish", "unlock"} => wpc[t] = "in"
        /\ rpc[t] # "out" => fpc[t] = "ro"

(* A thread that is not combining has no batch. *)
NoBatchOutside ==
    \A t \in Threads : ~Combining(t) => batch[t] = <<>> /\ cursor[t] = 0

(* The request of slot u is in t's batch and t has not marked it DONE yet. *)
Holds(t, u) ==
    /\ fpc[t] \in {"collect", "combine", "finish"}
    /\ \E i \in 1 .. Len(batch[t]) :
           batch[t][i] = u /\ (fpc[t] = "finish" => i > cursor[t])

(* No slot is twice in a batch. *)
BatchDistinct ==
    \A t \in Threads : \A i, j \in 1 .. Len(batch[t]) :
        batch[t][i] = batch[t][j] => i = j

(* What the three loops of the combiner have done with the i-th request. *)
BatchProgress ==
    \A t \in Threads :
        /\ fpc[t] \in {"combine", "finish"} => cursor[t] <= Len(batch[t])
        /\ \A i \in 1 .. Len(batch[t]) :
               LET u == batch[t][i] IN
               /\ fpc[t] = "collect" =>
                      ready[u] = STARTED /\ execs[u] = 0 /\ durable[u] = 0
               /\ fpc[t] = "combine" =>
                      /\ ready[u] = STARTED /\ durable[u] = 0
                      /\ execs[u] = IF i <= cursor[t] THEN 1 ELSE 0
               /\ fpc[t] = "finish" /\ i > cursor[t] =>
                      ready[u] = STARTED /\ execs[u] = 1 /\ durable[u] = 1

(***************************************************************************)
(* What the mark of a slot says: READY_TO_EXECUTE, a thread waits for an   *)
(* update nobody has touched; STARTED, a combiner has it in its batch;     *)
(* DONE, it is executed once and durable.  The combiner's own slot cannot  *)
(* stay READY_TO_EXECUTE once a pass over taskArray has gone by it.        *)
(***************************************************************************)
MarkMeaning ==
    \A u \in Threads :
        /\ ready[u] = READY_TO_EXECUTE => InUpdate(u) /\ execs[u] = 0 /\ durable[u] = 0
        /\ InUpdate(u) /\ ready[u] = DONE => execs[u] = 1 /\ durable[u] = 1
        /\ InUpdate(u) /\ ready[u] = STARTED => \E t \in Threads : Holds(t, u)
        /\ InUpdate(u) /\ fpc[u] # "unlock" =>
               ready[u] \in {READY_TO_EXECUTE, STARTED, DONE}
        /\ fpc[u] = "unlock" => execs[u] = 1 /\ durable[u] = 1
        /\ fpc[u] = "collect" /\ u < cursor[u] => ready[u] # READY_TO_EXECUTE
        /\ fpc[u] \in {"combine", "finish", "unlock"} => ready[u] # READY_TO_EXECUTE

(* A request stays with its thread while a combiner holds it. *)
HeldInUpdate ==
    \A t, u \in Threads : Holds(t, u) => InUpdate(u)

(* Nothing is durable that has not been executed. *)
DurableWasExecuted == \A u \in Threads : execs[u] = 0 => durable[u] = 0

(* The part of the invariant about taskArray and the batches. *)
TaskInv ==
    /\ NoBatchOutside
    /\ BatchDistinct
    /\ BatchProgress
    /\ MarkMeaning
    /\ HeldInUpdate
    /\ DurableWasExecuted

ExecutorInv == ExecutorTypes /\ PlaceInLock /\ TaskInv

-----------------------------------------------------------------------------
(* One combiner at a time: the lock's exclusion seen from taskArray. *)
LEMMA OneCombiner ==
    ASSUME MutualExclusion, PlaceInLock, NEW t \in Threads, NEW u \in Threads,
           Combining(t), Combining(u)
    PROVE  t = u
BY DEF MutualExclusion, PlaceInLock, Combining, OwnsWord

(* Every request and step keeps the thread's place in the executor in line
   with its side of the lock. *)
LEMMA StepKeepsPlace ==
    ASSUME LockTypeOK, ExecutorTypes, PlaceInLock,
           NEW t \in Threads, Request(t) \/ Step(t)
    PROVE  PlaceInLock'
<1> USE DEF PlaceInLock, LockTypeOK, ExecutorTypes, Goto
<1>1. CASE ReleaseWorker(t)
  BY <1>1 DEF ReleaseWorker, lockVars
<1>2. CASE InitializeThread(t)
  BY <1>2 DEF InitializeThread, lockVars
<1>3. CASE AllocateBegin(t)
  BY <1>3 DEF AllocateBegin, lockVars
<1>4. CASE ThreadMmap(t)
  BY <1>4 DEF ThreadMmap, MmapHook, fcVars
<1>5. CASE AllocateLock(t)
  <2>1. fpc[t] = "alloc" /\ fpc' = fpc
    BY <1>5 DEF AllocateLock, fcVars
  <2>2. CASE WriterSeesFree(t)
    BY <2>1, <2>2 DEF WriterSeesFree
  <2>3. CASE LockWriter(t)
    BY <2>1, <2>3 DEF LockWriter
  <2>4. CASE ActiveReadersSetIsEmpty(t)
    BY <2>1, <2>4 DEF ActiveReadersSetIsEmpty
  <2> QED BY <1>5, <2>2, <2>3, <2>4 DEF AllocateLock
<1>6. CASE AllocateEnd(t)
  BY <1>6 DEF AllocateEnd, WriteUnlock
<1>7. CASE ExecRo(t)
  BY <1>7 DEF ExecRo, MarkReaderAsActive
<1>8. CASE ExecRw(t)
  BY <1>8 DEF ExecRw, lockVars
<1>9. CASE ExecRoLock(t)
  BY <1>9 DEF ExecRoLock, MarkReaderAsActive, ReadLockTest, MarkReaderAsInactive,
              ReadLockSpin, fcVars
<1>10. CASE ExecRoEnd(t)
  BY <1>10 DEF ExecRoEnd, ReadUnlock
<1>11. CASE TestStarted(t) \/ LeaveDone(t) \/ TestDone(t)
  BY <1>11 DEF TestStarted, LeaveDone, TestDone, lockVars
<1>12. CASE TryLock(t)
  BY <1>12 DEF TryLock, WriterSeesFree, LockWriter, lockVars, fcVars
<1>13. CASE CollectTask(t) \/ ProcessRequest(t) \/ MarkDone(t)
  BY SMTT(30), <1>13 DEF CollectTask, ProcessRequest, MarkDone, lockVars
<1>14. CASE DrainReaders(t)
  BY <1>14 DEF DrainReaders, ActiveReadersSetIsEmpty
<1>15. CASE InstrumentStop(t) \/ ClearOwn(t)
  BY <1>15 DEF InstrumentStop, ClearOwn, lockVars
<1>16. CASE CombinerUnlock(t)
  BY <1>16 DEF CombinerUnlock, WriteUnlock
<1>17. CASE ThreadMmapStep(t)
  BY <1>17 DEF ThreadMmapStep, MmapStep, MmapSeesFree, MmapLock, MmapUnlock, fcVars
<1> QED BY <1>1, <1>2, <1>3, <1>4, <1>5, <1>6, <1>7, <1>8, <1>9, <1>10, <1>11, <1>12,
           <1>13, <1>14, <1>15, <1>16, <1>17 DEF Request, Step

(* A step that leaves taskArray and the batches alone, and moves no thread into
   or out of an update or a combination, keeps it. *)
LEMMA FrameKeepsTasks ==
    ASSUME ExecutorTypes, TaskInv,
           UNCHANGED <<ready, batch, cursor, execs, durable>>,
           \A u \in Threads :
               \/ fpc'[u] = fpc[u]
               \/ ~Combining(u) /\ ~Combining(u)' /\ (InUpdate(u)' <=> InUpdate(u))
    PROVE  TaskInv'
<1> USE DEF ExecutorTypes, TaskInv
<1>1. \A u \in Threads : (Combining(u)' <=> Combining(u)) /\ (InUpdate(u)' <=> InUpdate(u))
  BY DEF Combining, InUpdate
<1>2. \A u \in Threads : Combining(u) \/ Combining(u)' => fpc'[u] = fpc[u]
  BY DEF Combining, InUpdate
<1>3. \A t, u \in Threads : Holds(t, u)' <=> Holds(t, u)
  BY <1>2 DEF Holds, Combining
<1>4. NoBatchOutside' /\ BatchDistinct' /\ DurableWasExecuted'
  BY <1>1 DEF NoBatchOutside, BatchDistinct, DurableWasExecuted
<1>5. HeldInUpdate'
  BY <1>1, <1>3 DEF HeldInUpdate
<1>6. BatchProgress'
  BY <1>2 DEF BatchProgress, Combining
<1>7. MarkMeaning'
  BY <1>1, <1>2, <1>3 DEF MarkMeaning, Combining
<1> QED BY <1>4, <1>5, <1>6, <1>7

(* Registering a thread: its slot is in no batch. *)
LEMMA RegisterKeepsTasks ==
    ASSUME ExecutorTypes, TaskInv, NEW t \in Threads,
           ReleaseWorker(t) \/ InitializeThread(t)
    PROVE  TaskInv'
<1> USE DEF ExecutorTypes, TaskInv, STARTED, DONE, READY_TO_EXECUTE, NONE,
            READY_TO_INTIALISE
<1>1. /\ fpc[t] = "off" /\ fpc' = [fpc EXCEPT ![t] = "idle"]
      /\ UNCHANGED <<batch, cursor, execs, durable>>
      /\ \E r \in {NONE, READY_TO_INTIALISE} : ready' = [ready EXCEPT ![t] = r]
  BY DEF ReleaseWorker, InitializeThread, Goto
<1>2. \A u \in Threads : (Combining(u)' <=> Combining(u)) /\ (InUpdate(u)' <=> InUpdate(u))
  BY <1>1 DEF Combining, InUpdate
<1>3. \A u \in Threads : Combining(u) \/ Combining(u)' => fpc'[u] = fpc[u]
  BY <1>1 DEF Combining
<1>4. \A c, u \in Threads : Holds(c, u)' <=> Holds(c, u)
  BY <1>1, <1>3 DEF Holds, Combining
<1>5. NoBatchOutside' /\ BatchDistinct' /\ DurableWasExecuted' /\ HeldInUpdate'
  BY <1>1, <1>2, <1>4 DEF NoBatchOutside, BatchDistinct, DurableWasExecuted, HeldInUpdate
<1>6. ~InUpdate(t) /\ \A c \in Threads : ~Holds(c, t)
  BY <1>1 DEF InUpdate, Combining, HeldInUpdate
<1>7. BatchProgress'
  BY SMTT(30), <1>1, <1>3, <1>6 DEF BatchProgress, Holds, Combining
<1>8. MarkMeaning'
  BY <1>1, <1>2, <1>3, <1>4, <1>6 DEF MarkMeaning, Combining
<1> QED BY <1>5, <1>7, <1>8

(* Publishing an update: a thread that was waiting for nothing is in no batch,
   so no combiner sees its counters start anew. *)
LEMMA PublishKeepsTasks ==
    ASSUME ExecutorTypes, TaskInv, NEW t \in Threads, ExecRw(t)
    PROVE  TaskInv'
<1> USE DEF ExecutorTypes, TaskInv, STARTED, DONE, READY_TO_EXECUTE
<1>1. /\ fpc[t] \in {"idle", "request"} /\ fpc' = [fpc EXCEPT ![t] = "poll"]
      /\ UNCHANGED <<batch, cursor>>
      /\ ready' = [ready EXCEPT ![t] = READY_TO_EXECUTE]
      /\ execs' = [execs EXCEPT ![t] = 0] /\ durable' = [durable EXCEPT ![t] = 0]
  BY DEF ExecRw, Goto
<1>2. \A u \in Threads : /\ Combining(u)' <=> Combining(u)
                         /\ InUpdate(u)' <=> InUpdate(u) \/ u = t
                         /\ Combining(u) \/ Combining(u)' => fpc'[u] = fpc[u]
  BY <1>1 DEF Combining, InUpdate
<1>4. \A c, u \in Threads : Holds(c, u)' <=> Holds(c, u)
  BY <1>1, <1>2 DEF Holds, Combining
<1>5. NoBatchOutside' /\ BatchDistinct' /\ DurableWasExecuted' /\ HeldInUpdate'
  BY <1>1, <1>2, <1>4 DEF NoBatchOutside, BatchDistinct, DurableWasExecuted, HeldInUpdate
<1>6. ~InUpdate(t) /\ \A c \in Threads : ~Holds(c, t)
  BY <1>1 DEF InUpdate, Combining, HeldInUpdate
<1>7. BatchProgress'
  BY SMTT(30), <1>1, <1>2, <1>6 DEF BatchProgress, Holds, Combining
<1>8. MarkMeaning'
  BY <1>1, <1>2, <1>4, <1>6 DEF MarkMeaning, Combining
<1> QED BY <1>5, <1>7, <1>8

(* Leaving with DONE: a marked request is in no batch any more. *)
LEMMA LeaveKeepsTasks ==
    ASSUME ExecutorTypes, TaskInv, NEW t \in Threads, LeaveDone(t)
    PROVE  TaskInv'
<1> USE DEF ExecutorTypes, TaskInv, STARTED, DONE, READY_TO_EXECUTE, NONE
<1>1. /\ fpc[t] \in {"await", "poll2"} /\ fpc' = [fpc EXCEPT ![t] = "idle"]
      /\ ready[t] = DONE /\ ready' = [ready EXCEPT ![t] = NONE]
      /\ UNCHANGED <<batch, cursor, execs, durable>>
  BY DEF LeaveDone, Goto
<1>2. \A u \in Threads : /\ Combining(u)' <=> Combining(u)
                         /\ InUpdate(u)' <=> InUpdate(u) /\ u # t
                         /\ Combining(u) \/ Combining(u)' => fpc'[u] = fpc[u]
  BY <1>1 DEF Combining, InUpdate
<1>4. \A c, u \in Threads : Holds(c, u)' <=> Holds(c, u)
  BY <1>1, <1>2 DEF Holds, Combining
<1>6. \A c \in Threads : ~Holds(c, t)
  BY <1>1 DEF BatchProgress, Holds
<1>5. NoBatchOutside' /\ BatchDistinct' /\ DurableWasExecuted' /\ HeldInUpdate'
  BY <1>1, <1>2, <1>4, <1>6 DEF NoBatchOutside, BatchDistinct, DurableWasExecuted, HeldInUpdate
<1>7. BatchProgress'
  BY SMTT(30), <1>1, <1>2, <1>6 DEF BatchProgress, Holds, Combining
<1>8. MarkMeaning'
  BY <1>1, <1>2, <1>4, <1>6 DEF MarkMeaning, Combining
<1> QED BY <1>5, <1>7, <1>8

(* Winning the lock: the new combiner starts with an empty batch. *)
LEMMA TryLockKeepsTasks ==
    ASSUME ExecutorTypes, TaskInv, NEW t \in Threads, TryLock(t)
    PROVE  TaskInv'
<1> USE DEF ExecutorTypes, TaskInv
<1>1. /\ fpc[t] = "try" /\ UNCHANGED <<ready, batch, cursor, execs, durable>>
      /\ \/ fpc' = fpc
         \/ fpc' = [fpc EXCEPT ![t] = "poll"]
         \/ fpc' = [fpc EXCEPT ![t] = "collect"]
  BY DEF TryLock, Goto, fcVars
<1>2. CASE fpc' = fpc \/ fpc' = [fpc EXCEPT ![t] = "poll"]
  BY <1>1, <1>2, FrameKeepsTasks DEF Combining, InUpdate
<1>3. CASE fpc' = [fpc EXCEPT ![t] = "collect"]
  <2> HIDE DEF ExecutorTypes
  <2>1. batch[t] = <<>> /\ cursor[t] = 0
    BY <1>1 DEF NoBatchOutside, Combining
  <2>10. 1 .. Len(batch[t]) = {} /\ ~ t < cursor[t]
    BY <2>1 DEF Threads
  <2> USE DEF ExecutorTypes
  <2>2. \A u \in Threads : /\ Combining(u)' <=> Combining(u) \/ u = t
                           /\ InUpdate(u)' <=> InUpdate(u)
                           /\ u # t => fpc'[u] = fpc[u]
    BY <1>1, <1>3 DEF Combining, InUpdate
  <2>3. \A c, u \in Threads : Holds(c, u)' <=> Holds(c, u)
    BY <1>1, <1>3, <2>10, <2>2 DEF Holds
  <2>4. NoBatchOutside' /\ BatchDistinct' /\ DurableWasExecuted' /\ HeldInUpdate'
    BY <1>1, <2>2, <2>3 DEF NoBatchOutside, BatchDistinct, DurableWasExecuted, HeldInUpdate
  <2>5. BatchProgress'
    BY SMTT(30), <1>1, <1>3, <2>10, <2>2 DEF BatchProgress
  <2>6. MarkMeaning'
    BY <1>1, <1>3, <2>10, <2>2, <2>3 DEF MarkMeaning
  <2> QED BY <2>4, <2>5, <2>6
<1> QED BY <1>1, <1>2, <1>3

(* Collecting a slot: a request that was READY_TO_EXECUTE is in no batch yet
   and has not been executed; it joins the batch of the only combiner. *)
LEMMA CollectKeepsTasks ==
    ASSUME ExecutorTypes, PlaceInLock, MutualExclusion, TaskInv,
           NEW t \in Threads, CollectTask(t)
    PROVE  TaskInv'
<1> USE DEF ExecutorTypes, TaskInv
<1> DEFINE c == cursor[t]
<1>1. /\ fpc[t] = "collect" /\ c \in Threads
      /\ cursor' = [cursor EXCEPT ![t] = c + 1]
      /\ UNCHANGED <<fpc, execs, durable>>
  BY ThreadsAssumption DEF CollectTask, Threads
<1>2. /\ \A u \in Threads : Combining(u) => u = t
      /\ \A u \in Threads : (Combining(u)' <=> Combining(u)) /\ (InUpdate(u)' <=> InUpdate(u))
  BY <1>1, OneCombiner DEF Combining, InUpdate
<1>3. CASE ready[c] # READY_TO_EXECUTE
  <2>1. UNCHANGED <<ready, batch>>
    BY <1>3 DEF CollectTask
  <2>2. \A d, u \in Threads : Holds(d, u)' <=> Holds(d, u)
    BY <1>1, <2>1 DEF Holds
  <2>3. NoBatchOutside' /\ BatchDistinct' /\ DurableWasExecuted' /\ HeldInUpdate'
    BY <1>1, <1>2, <2>1, <2>2
       DEF NoBatchOutside, BatchDistinct, DurableWasExecuted, HeldInUpdate, Combining
  <2>4. BatchProgress'
    <3> SUFFICES ASSUME NEW d \in Threads PROVE BatchProgress!(d)'
      BY DEF BatchProgress
    <3>1. CASE d = t
      BY <1>1, <2>1, <3>1 DEF BatchProgress
    <3>2. CASE d # t
      BY <1>2, <3>2 DEF Combining
    <3> QED BY <3>1, <3>2
  <2>5. MarkMeaning'
    BY <1>1, <1>2, <1>3, <2>1, <2>2 DEF MarkMeaning, Threads
  <2> QED BY <2>3, <2>4, <2>5
<1>4. CASE ready[c] = READY_TO_EXECUTE
  <2> DEFINE n == Len(batch[t])
  <2>1. /\ ready' = [ready EXCEPT ![c] = STARTED]
        /\ batch' = [batch EXCEPT ![t] = Append(batch[t], c)]
    BY <1>4 DEF CollectTask
  <2>2. /\ n \in Nat /\ Len(batch'[t]) = n + 1
        /\ \A i \in 1 .. n : batch[t][i] \in Threads /\ batch'[t][i] = batch[t][i]
        /\ batch'[t][n + 1] = c
    BY <2>1, <1>1
  <2>3. InUpdate(c) /\ execs[c] = 0 /\ durable[c] = 0
    BY <1>1, <1>4 DEF MarkMeaning
  <2>4. \A i \in 1 .. n : batch[t][i] # c
    BY <1>1, <1>4 DEF BatchProgress, STARTED, READY_TO_EXECUTE
  <2>5. \A u \in Threads : Holds(t, u)' <=> Holds(t, u) \/ u = c
    <3> SUFFICES ASSUME NEW u \in Threads PROVE Holds(t, u)' <=> Holds(t, u) \/ u = c
      OBVIOUS
    <3>1. Holds(t, u) <=> \E i \in 1 .. n : batch[t][i] = u
      BY <1>1 DEF Holds
    <3>2. Holds(t, u)' <=> \E i \in 1 .. n + 1 : batch'[t][i] = u
      BY <1>1, <2>2 DEF Holds
    <3> HIDE DEF ExecutorTypes, n, c
    <3>3. n + 1 \in 1 .. n + 1 /\ 1 .. n + 1 = (1 .. n) \cup {n + 1}
      BY <2>2
    <3>4. (\E i \in 1 .. n + 1 : batch'[t][i] = u)
              <=> (\E i \in 1 .. n : batch'[t][i] = u) \/ batch'[t][n + 1] = u
      BY <3>3
    <3> QED BY <2>2, <3>1, <3>2, <3>4
  <2>6. \A d, u \in Threads : d # t => ~Holds(d, u) /\ ~Holds(d, u)'
    BY <1>1, <1>2 DEF Holds, Combining
  <2>7. NoBatchOutside' /\ DurableWasExecuted'
    BY <1>1, <1>2, <2>1 DEF NoBatchOutside, DurableWasExecuted, Combining
  <2>8. HeldInUpdate'
    BY <1>1, <1>2, <2>3, <2>5, <2>6 DEF HeldInUpdate
  <2>9. BatchDistinct'
    <3> SUFFICES ASSUME NEW d \in Threads PROVE BatchDistinct!(d)'
      BY DEF BatchDistinct
    <3>1. CASE d = t
      <4>1. \A i, j \in 1 .. n : batch[t][i] = batch[t][j] => i = j
        BY DEF BatchDistinct
      <4> HIDE DEF ExecutorTypes, TaskInv, n, c
      <4> QED BY <2>2, <2>4, <3>1, <4>1
    <3>2. CASE d # t
      BY <2>1, <3>2 DEF BatchDistinct
    <3> QED BY <3>1, <3>2
  <2>10. BatchProgress'
    <3> SUFFICES ASSUME NEW d \in Threads PROVE BatchProgress!(d)'
      BY DEF BatchProgress
    <3>1. CASE d = t
      <4>1. \A i \in 1 .. n : /\ ready'[batch'[t][i]] = STARTED
                              /\ execs'[batch'[t][i]] = 0 /\ durable'[batch'[t][i]] = 0
        <5>1. \A i \in 1 .. n : /\ ready[batch[t][i]] = STARTED
                                /\ execs[batch[t][i]] = 0 /\ durable[batch[t][i]] = 0
          BY <1>1 DEF BatchProgress
        <5>2. \A u \in Threads : u # c => ready'[u] = ready[u]
          BY <2>1
        <5> HIDE DEF ExecutorTypes, TaskInv, n, c
        <5> QED BY ZenonT(30), <1>1, <2>2, <2>4, <5>1, <5>2
      <4>2. ready'[c] = STARTED /\ execs'[c] = 0 /\ durable'[c] = 0
        BY <1>1, <2>1, <2>3
      <4> HIDE DEF ExecutorTypes, TaskInv, n, c
      <4> QED BY <1>1, <2>2, <3>1, <4>1, <4>2
    <3>2. CASE d # t
      BY <1>2, <3>2 DEF Combining
    <3> QED BY <3>1, <3>2
  <2>11. MarkMeaning'
    BY <1>1, <1>2, <2>1, <2>3, <2>5, <2>6
       DEF MarkMeaning, STARTED, READY_TO_EXECUTE, DONE, Threads
  <2> QED BY <2>7, <2>8, <2>9, <2>10, <2>11
<1> QED BY <1>3, <1>4

(* A step of the drain: a new pass over taskArray begins, the pass goes on, or
   the combiner starts to execute a batch of which nothing has been executed.
   Its own request cannot have been overlooked by then. *)
LEMMA DrainKeepsTasks ==
    ASSUME ExecutorTypes, PlaceInLock, MutualExclusion, TaskInv,
           NEW t \in Threads, DrainReaders(t)
    PROVE  TaskInv'
<1> USE DEF ExecutorTypes, TaskInv
<1>1. /\ fpc[t] = "collect" /\ cursor[t] = NUMBER_OF_THREADS
      /\ UNCHANGED <<ready, batch, execs, durable>>
      /\ \/ cursor' = [cursor EXCEPT ![t] = 0] /\ fpc' = [fpc EXCEPT ![t] = "combine"]
         \/ cursor' = [cursor EXCEPT ![t] = 0] /\ fpc' = fpc
         \/ cursor' = cursor /\ fpc' = fpc
  BY DEF DrainReaders, Goto
<1>2. /\ \A u \in Threads : Combining(u) => u = t
      /\ \A u \in Threads : (Combining(u)' <=> Combining(u)) /\ (InUpdate(u)' <=> InUpdate(u))
  BY <1>1, OneCombiner DEF Combining, InUpdate
<1>3. \A d, u \in Threads : Holds(d, u)' <=> Holds(d, u)
  BY <1>1 DEF Holds
<1>4. NoBatchOutside' /\ BatchDistinct' /\ DurableWasExecuted' /\ HeldInUpdate'
  BY <1>1, <1>2, <1>3
     DEF NoBatchOutside, BatchDistinct, DurableWasExecuted, HeldInUpdate, Combining
<1>5. BatchProgress'
  <2> SUFFICES ASSUME NEW d \in Threads PROVE BatchProgress!(d)'
    BY DEF BatchProgress
  <2>1. CASE d = t
    BY <1>1, <2>1 DEF BatchProgress
  <2>2. CASE d # t
    BY <1>2, <2>2 DEF Combining
  <2> QED BY <2>1, <2>2
<1>6. t < NUMBER_OF_THREADS /\ ready[t] # READY_TO_EXECUTE
  BY <1>1, ThreadsAssumption DEF MarkMeaning, Threads
<1>7. MarkMeaning'
  <2> SUFFICES ASSUME NEW u \in Threads PROVE MarkMeaning!(u)'
    BY DEF MarkMeaning
  <2> QED BY <1>1, <1>2, <1>3, <1>6 DEF MarkMeaning, Threads
<1> QED BY <1>4, <1>5, <1>7

(* Executing a request: it is the next one of the batch, not executed yet. *)
LEMMA ExecuteKeepsTasks ==
    ASSUME ExecutorTypes, PlaceInLock, MutualExclusion, TaskInv,
           NEW t \in Threads, ProcessRequest(t)
    PROVE  TaskInv' /\ execs' \in [Threads -> {0, 1}]
<1> USE DEF ExecutorTypes, TaskInv
<1> DEFINE k == cursor[t] + 1
           v == batch[t][k]
<1>1. /\ fpc[t] = "combine" /\ k \in 1 .. Len(batch[t]) /\ v \in Threads
      /\ cursor' = [cursor EXCEPT ![t] = k]
      /\ execs' = [execs EXCEPT ![v] = execs[v] + 1]
      /\ UNCHANGED <<fpc, ready, batch, durable>>
  BY DEF ProcessRequest
<1>2. execs[v] = 0 /\ durable[v] = 0 /\ ready[v] = STARTED
  BY <1>1 DEF BatchProgress
<1>3. execs' = [execs EXCEPT ![v] = 1]
  BY <1>1, <1>2
<1>4. /\ \A u \in Threads : Combining(u) => u = t
      /\ \A u \in Threads : (Combining(u)' <=> Combining(u)) /\ (InUpdate(u)' <=> InUpdate(u))
  BY <1>1, OneCombiner DEF Combining, InUpdate
<1>5. \A d, u \in Threads : Holds(d, u)' <=> Holds(d, u)
  BY <1>1 DEF Holds
<1>6. NoBatchOutside' /\ BatchDistinct' /\ DurableWasExecuted' /\ HeldInUpdate'
  BY <1>1, <1>2, <1>3, <1>4, <1>5
     DEF NoBatchOutside, BatchDistinct, DurableWasExecuted, HeldInUpdate, Combining
<1>7. BatchProgress'
  <2> SUFFICES ASSUME NEW d \in Threads PROVE BatchProgress!(d)'
    BY DEF BatchProgress
  <2>1. CASE d = t
    BY SMTT(30), <1>1, <1>2, <1>3, <2>1 DEF BatchProgress, BatchDistinct
  <2>2. CASE d # t
    BY <1>1, <1>4, <2>2 DEF NoBatchOutside, Combining, BatchProgress
  <2> QED BY <2>1, <2>2
<1>8. MarkMeaning'
  <2> SUFFICES ASSUME NEW u \in Threads PROVE MarkMeaning!(u)'
    BY DEF MarkMeaning
  <2> QED BY SMTT(30), <1>1, <1>2, <1>3, <1>4, <1>5
          DEF MarkMeaning, STARTED, DONE, READY_TO_EXECUTE, Combining
<1> QED BY <1>3, <1>6, <1>7, <1>8

(* instrument_stop: the whole batch has been executed and becomes durable. *)
LEMMA CommitKeepsTasks ==
    ASSUME ExecutorTypes, PlaceInLock, MutualExclusion, TaskInv,
           NEW t \in Threads, InstrumentStop(t)
    PROVE  TaskInv'
<1> USE DEF ExecutorTypes, TaskInv
<1>1. /\ fpc[t] = "combine" /\ cursor[t] = Len(batch[t])
      /\ fpc' = [fpc EXCEPT ![t] = "finish"] /\ cursor' = [cursor EXCEPT ![t] = 0]
      /\ durable' = execs /\ UNCHANGED <<ready, batch, execs>>
  BY DEF InstrumentStop, Goto
<1>2. /\ \A u \in Threads : Combining(u) => u = t
      /\ \A u \in Threads : (Combining(u)' <=> Combining(u)) /\ (InUpdate(u)' <=> InUpdate(u))
  BY <1>1, OneCombiner DEF Combining, InUpdate
<1>3. \A u \in Threads : Holds(t, u)' <=> Holds(t, u)
  BY <1>1 DEF Holds
<1>4. \A d, u \in Threads : d # t => ~Holds(d, u) /\ ~Holds(d, u)'
  BY <1>2 DEF Holds, Combining
<1>5. NoBatchOutside' /\ BatchDistinct' /\ DurableWasExecuted' /\ HeldInUpdate'
  BY <1>1, <1>2, <1>3, <1>4
     DEF NoBatchOutside, BatchDistinct, DurableWasExecuted, HeldInUpdate, Combining
<1>6. BatchProgress'
  <2> SUFFICES ASSUME NEW d \in Threads PROVE BatchProgress!(d)'
    BY DEF BatchProgress
  <2>1. CASE d = t
    <3>1. \A i \in 1 .. Len(batch[t]) : ready[batch[t][i]] = STARTED /\ execs[batch[t][i]] = 1
      <4>1. \A i \in 1 .. Len(batch[t]) : i <= cursor[t]
        BY <1>1
      <4> HIDE DEF ExecutorTypes
      <4> QED BY <1>1, <4>1 DEF BatchProgress
    <3>2. Len(batch[t]) \in Nat /\ cursor'[t] = 0 /\ fpc'[t] = "finish"
      BY <1>1
    <3> HIDE DEF ExecutorTypes, TaskInv
    <3> QED BY <1>1, <2>1, <3>1, <3>2
  <2>2. CASE d # t
    BY <1>2, <2>2 DEF Combining
  <2> QED BY <2>1, <2>2
<1>7. MarkMeaning'
  <2> SUFFICES ASSUME NEW u \in Threads PROVE MarkMeaning!(u)'
    BY DEF MarkMeaning
  <2>1. Holds(t, u)' <=> Holds(t, u)
    BY <1>3
  <2> QED BY <1>1, <1>2, <1>3, <1>4, <2>1
          DEF MarkMeaning, STARTED, DONE, READY_TO_EXECUTE, Combining
<1> QED BY <1>5, <1>6, <1>7

(* Marking a request DONE: it leaves the batch executed and durable, and it is
   nowhere else in the batch. *)
LEMMA MarkKeepsTasks ==
    ASSUME ExecutorTypes, PlaceInLock, MutualExclusion, TaskInv,
           NEW t \in Threads, MarkDone(t)
    PROVE  TaskInv'
<1> USE DEF ExecutorTypes, TaskInv
<1> DEFINE k == cursor[t] + 1
           v == batch[t][k]
<1>1. /\ fpc[t] = "finish" /\ k \in 1 .. Len(batch[t]) /\ v \in Threads
      /\ cursor' = [cursor EXCEPT ![t] = k]
      /\ ready' = [ready EXCEPT ![v] = DONE]
      /\ UNCHANGED <<fpc, batch, execs, durable>>
  BY DEF MarkDone
<1>2. execs[v] = 1 /\ durable[v] = 1 /\ ready[v] = STARTED /\ InUpdate(v)
  BY <1>1 DEF BatchProgress, HeldInUpdate, Holds
<1>3. /\ \A u \in Threads : Combining(u) => u = t
      /\ \A u \in Threads : (Combining(u)' <=> Combining(u)) /\ (InUpdate(u)' <=> InUpdate(u))
  BY <1>1, OneCombiner DEF Combining, InUpdate
<1>4. \A u \in Threads : Holds(t, u)' <=> Holds(t, u) /\ u # v
  <2> DEFINE n == Len(batch[t])
  <2>1. \A u : Holds(t, u) <=> \E i \in 1 .. n : batch[t][i] = u /\ i > cursor[t]
    BY <1>1 DEF Holds
  <2>2. \A u : Holds(t, u)' <=> \E i \in 1 .. n : batch[t][i] = u /\ i > k
    BY <1>1 DEF Holds
  <2>3. \A i \in 1 .. n : batch[t][i] = v <=> i = k
    BY <1>1 DEF BatchDistinct
  <2>4. \A i \in 1 .. n : i > cursor[t] <=> i > k \/ i = k
    BY SMTT(30), <1>1
  <2> HIDE DEF ExecutorTypes, TaskInv, k, v, n
  <2> QED BY <2>1, <2>2, <2>3, <2>4
<1>5. \A d, u \in Threads : d # t => ~Holds(d, u) /\ ~Holds(d, u)'
  BY <1>3 DEF Holds, Combining
<1>6. NoBatchOutside' /\ BatchDistinct' /\ DurableWasExecuted' /\ HeldInUpdate'
  BY SMTT(30), <1>1, <1>3, <1>4, <1>5
     DEF NoBatchOutside, BatchDistinct, DurableWasExecuted, HeldInUpdate, Combining
<1>7. BatchProgress'
  <2> SUFFICES ASSUME NEW d \in Threads PROVE BatchProgress!(d)'
    BY DEF BatchProgress
  <2>1. CASE d = t
    <3>1. \A i \in 1 .. Len(batch[t]) : i > cursor[t] =>
              /\ ready[batch[t][i]] = STARTED
              /\ execs[batch[t][i]] = 1 /\ durable[batch[t][i]] = 1
      BY <1>1 DEF BatchProgress
    <3>2. \A i \in 1 .. Len(batch[t]) : i > k =>
              batch[t][i] \in Threads /\ batch[t][i] # v /\ i > cursor[t]
      BY SMTT(30), <1>1 DEF BatchDistinct
    <3>3. \A u \in Threads : u # v => ready'[u] = ready[u]
      BY <1>1
    <3>4. cursor'[t] = k
      BY <1>1
    <3> HIDE DEF ExecutorTypes, TaskInv, k, v
    <3> QED BY <1>1, <2>1, <3>1, <3>2, <3>3, <3>4
  <2>2. CASE d # t
    BY <1>3, <2>2 DEF Combining
  <2> QED BY <2>1, <2>2
<1>8. MarkMeaning'
  <2> SUFFICES ASSUME NEW u \in Threads PROVE MarkMeaning!(u)'
    BY DEF MarkMeaning
  <2>1. CASE u = v
    BY <1>1, <1>2, <1>3, <2>1 DEF MarkMeaning, STARTED, DONE, READY_TO_EXECUTE, Combining
  <2>2. CASE u # v
    BY <1>1, <1>3, <1>4, <1>5, <2>2 DEF MarkMeaning, Combining
  <2> QED BY <2>1, <2>2
<1> QED BY <1>6, <1>7, <1>8

(* The combiner's own request: nobody holds it any more and it is not waiting
   to be collected, so it is DONE. *)
LEMMA OwnIsDone ==
    ASSUME ExecutorTypes, PlaceInLock, MutualExclusion, TaskInv,
           NEW t \in Threads, ClearOwn(t)
    PROVE  ready[t] = DONE /\ execs[t] = 1 /\ durable[t] = 1
<1> USE DEF ExecutorTypes, TaskInv
<1>1. fpc[t] = "finish" /\ cursor[t] = Len(batch[t]) /\ Combining(t) /\ InUpdate(t)
  BY DEF ClearOwn, Combining, InUpdate
<1>2. \A d \in Threads : Holds(d, t) => d = t
  BY <1>1, OneCombiner DEF Holds, Combining
<1>3. ~Holds(t, t)
  BY <1>1 DEF Holds
<1> QED BY <1>1, <1>2, <1>3 DEF MarkMeaning

(* Clearing it and releasing the lock. *)
LEMMA FinishKeepsTasks ==
    ASSUME ExecutorTypes, PlaceInLock, MutualExclusion, TaskInv,
           NEW t \in Threads, ClearOwn(t) \/ CombinerUnlock(t)
    PROVE  TaskInv'
<1> USE DEF ExecutorTypes, TaskInv
<1>1. /\ fpc[t] \in {"finish", "unlock"} /\ Combining(t)
      /\ UNCHANGED <<execs, durable>>
  BY DEF ClearOwn, CombinerUnlock, Combining
<1>2. \A u \in Threads : Combining(u) => u = t
  BY <1>1, OneCombiner
<1>3. \A d, u \in Threads : ~Holds(d, u) /\ ~Holds(d, u)'
  <2>1. \A u \in Threads : ~Holds(t, u) /\ ~Holds(t, u)'
    BY DEF ClearOwn, CombinerUnlock, Goto, Holds
  <2>2. \A d, u \in Threads : d # t => ~Holds(d, u) /\ ~Holds(d, u)'
    BY <1>2 DEF ClearOwn, CombinerUnlock, Goto, Holds, Combining
  <2> QED BY <2>1, <2>2
<1>4. HeldInUpdate' /\ DurableWasExecuted'
  BY <1>1, <1>3 DEF HeldInUpdate, DurableWasExecuted
<1>5. CASE ClearOwn(t)
  <2>1. /\ fpc[t] = "finish" /\ fpc' = [fpc EXCEPT ![t] = "unlock"]
        /\ ready' = [ready EXCEPT ![t] = NONE] /\ UNCHANGED <<batch, cursor>>
    BY <1>5 DEF ClearOwn, Goto
  <2>2. \A u \in Threads : (Combining(u)' <=> Combining(u)) /\ (InUpdate(u)' <=> InUpdate(u))
    BY <2>1 DEF Combining, InUpdate
  <2>3. NoBatchOutside' /\ BatchDistinct'
    BY <2>1, <2>2 DEF NoBatchOutside, BatchDistinct
  <2>4. BatchProgress'
    BY <1>2, <2>1 DEF BatchProgress, Combining
  <2>5. MarkMeaning'
    BY <1>1, <1>2, <1>3, <1>5, <2>1, <2>2, OwnIsDone
       DEF MarkMeaning, NONE, STARTED, DONE, READY_TO_EXECUTE
  <2> QED BY <1>4, <2>3, <2>4, <2>5
<1>6. CASE CombinerUnlock(t)
  <2>1. /\ fpc[t] = "unlock" /\ fpc' = [fpc EXCEPT ![t] = "idle"]
        /\ batch' = [batch EXCEPT ![t] = <<>>] /\ cursor' = [cursor EXCEPT ![t] = 0]
        /\ UNCHANGED ready
    BY <1>6 DEF CombinerUnlock, Goto
  <2>2. \A u \in Threads : /\ ~Combining(u)' /\ (InUpdate(u)' <=> InUpdate(u) /\ u # t)
                           /\ u # t => fpc'[u] = fpc[u]
    BY <1>2, <2>1 DEF Combining, InUpdate
  <2>3. NoBatchOutside'
    BY <1>2, <2>1, <2>2 DEF NoBatchOutside
  <2>4. BatchDistinct'
    BY <2>1 DEF BatchDistinct
  <2>5. BatchProgress'
    BY <2>2 DEF BatchProgress, Combining
  <2>6. MarkMeaning'
    BY <1>1, <1>2, <1>3, <2>1, <2>2 DEF MarkMeaning, Combining
  <2> QED BY <1>4, <2>3, <2>4, <2>5, <2>6
<1> QED BY <1>5, <1>6

-----------------------------------------------------------------------------
(* ready_commands_indexes has room for every batch: it holds distinct slots. *)
LEMMA BatchFits ==
    ASSUME ExecutorTypes, BatchDistinct, NEW t \in Threads
    PROVE  Len(batch[t]) <= NUMBER_OF_THREADS
<1> DEFINE n == Len(batch[t])
<1>1. /\ n \in Nat /\ batch[t] \in [1 .. n -> Threads]
      /\ \A i, j \in 1 .. n : batch[t][i] = batch[t][j] => i = j
  BY DEF ExecutorTypes, BatchDistinct
<1>2. IsFiniteSet(1 .. n) /\ Cardinality(1 .. n) = n
  <2>1. 1 \in Int /\ n \in Int
    BY <1>1
  <2> HIDE DEF n
  <2>2. IsFiniteSet(1 .. n) /\ Cardinality(1 .. n) = IF 1 > n THEN 0 ELSE n - 1 + 1
    BY <2>1, FS_Interval
  <2> QED BY <1>1, <2>2
<1>3. IsFiniteSet(Threads) /\ Cardinality(Threads) = NUMBER_OF_THREADS
  BY FS_Interval, ThreadsAssumption DEF Threads
<1>4. CASE n > NUMBER_OF_THREADS
  <2> HIDE DEF n
  <2>1. Cardinality(Threads) < Cardinality(1 .. n)
    BY <1>1, <1>2, <1>3, <1>4, ThreadsAssumption
  <2>2. \E x, y \in 1 .. n : x # y /\ batch[t][x] = batch[t][y]
    BY <1>1, <1>2, <1>3, <2>1, FS_PigeonHole
  <2> QED BY <1>1, <2>2
<1> QED BY <1>1, <1>4, ThreadsAssumption

(* Every request and step keeps the types of the executor's variables. *)
LEMMA StepKeepsTypes ==
    ASSUME ExecutorInv, MutualExclusion, NEW t \in Threads, Request(t) \/ Step(t)
    PROVE  ExecutorTypes'
<1> USE ThreadsAssumption
        DEF ExecutorTypes, Goto, ReadyValues, STARTED, DONE, READY_TO_EXECUTE, NONE,
            READY_TO_INTIALISE
<1>0. ExecutorTypes /\ PlaceInLock /\ TaskInv
  BY DEF ExecutorInv
<1>1. CASE ReleaseWorker(t)
  BY <1>0, <1>1 DEF ReleaseWorker, Threads
<1>2. CASE InitializeThread(t)
  BY <1>0, <1>2 DEF InitializeThread, Threads
<1>3. CASE AllocateBegin(t) \/ AllocateEnd(t)
  BY <1>0, <1>3 DEF AllocateBegin, AllocateEnd, setup
<1>4. CASE ThreadMmap(t) \/ ThreadMmapStep(t) \/ AllocateLock(t) \/ ExecRoLock(t)
  BY <1>0, <1>4 DEF ThreadMmap, ThreadMmapStep, AllocateLock, ExecRoLock, fcVars, setup
<1>5. CASE ExecRo(t) \/ ExecRoEnd(t)
  BY <1>0, <1>5 DEF ExecRo, ExecRoEnd, setup
<1>6. CASE ExecRw(t)
  BY <1>0, <1>6 DEF ExecRw, setup
<1>7. CASE TestStarted(t) \/ TestDone(t)
  <2>1. \E l \in {"await", "poll2", "try"} : fpc' = [fpc EXCEPT ![t] = l]
    BY <1>7 DEF TestStarted, TestDone
  <2> QED BY <1>0, <1>7, <2>1 DEF TestStarted, TestDone, setup
<1>17. CASE LeaveDone(t)
  BY <1>0, <1>17 DEF LeaveDone, setup
<1>8. CASE TryLock(t)
  BY <1>0, <1>8 DEF TryLock, fcVars, setup
<1>9. CASE CollectTask(t)
  <2>1. cursor[t] \in Threads /\ cursor[t] + 1 \in 0 .. NUMBER_OF_THREADS
    BY <1>0, <1>9 DEF CollectTask, Threads
  <2>2. CASE ready[cursor[t]] = READY_TO_EXECUTE
    <3>1. batch' = [batch EXCEPT ![t] = Append(batch[t], cursor[t])]
      BY <1>9, <2>2 DEF CollectTask
    <3>2. Append(batch[t], cursor[t]) \in Seq(Threads)
      BY <1>0, <2>1
    <3>3. batch' \in [Threads -> Seq(Threads)]
      BY <1>0, <3>1, <3>2
    <3>4. ready' \in [Threads -> ReadyValues]
      <4>1. ready' = [ready EXCEPT ![cursor[t]] = STARTED] /\ STARTED \in ReadyValues
        BY <1>9, <2>2 DEF CollectTask
      <4> QED BY <1>0, <4>1
    <3>5. cursor' \in [Threads -> 0 .. NUMBER_OF_THREADS]
      BY <1>0, <1>9, <2>1 DEF CollectTask
    <3> QED BY <1>0, <1>9, <3>3, <3>4, <3>5 DEF CollectTask, setup
  <2>3. CASE ready[cursor[t]] # READY_TO_EXECUTE
    BY <1>0, <1>9, <2>1, <2>3 DEF CollectTask, setup
  <2> QED BY <2>2, <2>3
<1>10. CASE DrainReaders(t)
  <2>1. cursor[t] \in 0 .. NUMBER_OF_THREADS /\ 0 \in 0 .. NUMBER_OF_THREADS
    BY <1>0
  <2> HIDE DEF ReadyValues
  <2>2. \E v \in 0 .. NUMBER_OF_THREADS : cursor' = [cursor EXCEPT ![t] = v]
    BY <1>10, <2>1 DEF DrainReaders
  <2>3. cursor' \in [Threads -> 0 .. NUMBER_OF_THREADS]
    BY <1>0, <2>2
  <2> QED BY <1>0, <1>10, <2>3 DEF DrainReaders, setup
<1>11. Len(batch[t]) \in Nat /\ Len(batch[t]) <= NUMBER_OF_THREADS
  BY <1>0, BatchFits DEF TaskInv
<1>12. CASE ProcessRequest(t)
  <2>1. cursor[t] + 1 \in 0 .. NUMBER_OF_THREADS
    BY <1>0, <1>11, <1>12 DEF ProcessRequest
  <2>2. execs' \in [Threads -> {0, 1}]
    BY <1>0, <1>12, ExecuteKeepsTasks
  <2> QED BY <1>0, <1>12, <2>1, <2>2 DEF ProcessRequest, setup
<1>13. CASE InstrumentStop(t)
  BY <1>0, <1>13 DEF InstrumentStop, setup
<1>14. CASE MarkDone(t)
  <2>1. cursor[t] + 1 \in 0 .. NUMBER_OF_THREADS
    BY <1>0, <1>11, <1>14 DEF MarkDone
  <2> QED BY <1>0, <1>14, <2>1 DEF MarkDone, setup
<1>15. CASE ClearOwn(t)
  BY <1>0, <1>15 DEF ClearOwn, setup
<1>16. CASE CombinerUnlock(t)
  <2>1. <<>> \in Seq(Threads)
    OBVIOUS
  <2>2. batch' \in [Threads -> Seq(Threads)]
    BY <1>0, <1>16, <2>1 DEF CombinerUnlock
  <2>3. cursor' \in [Threads -> 0 .. NUMBER_OF_THREADS]
    BY <1>0, <1>16 DEF CombinerUnlock
  <2> QED BY <1>0, <1>16, <2>2, <2>3 DEF CombinerUnlock, setup
<1> QED BY <1>1, <1>2, <1>3, <1>4, <1>5, <1>6, <1>7, <1>8, <1>9, <1>10, <1>12, <1>13,
           <1>14, <1>15, <1>16, <1>17 DEF Request, Step

(* Every request and step keeps what taskArray and the batches say. *)
LEMMA StepKeepsTasks ==
    ASSUME ExecutorInv, MutualExclusion, NEW t \in Threads, Request(t) \/ Step(t)
    PROVE  TaskInv'
<1>0. ExecutorTypes /\ PlaceInLock /\ TaskInv
  BY DEF ExecutorInv
<1>1. CASE ReleaseWorker(t) \/ InitializeThread(t)
  BY <1>0, <1>1, RegisterKeepsTasks
<1>2. CASE \/ AllocateBegin(t) \/ AllocateEnd(t) \/ ExecRo(t) \/ ExecRoEnd(t)
           \/ TestStarted(t) \/ TestDone(t)
  BY <1>0, <1>2, FrameKeepsTasks
     DEF AllocateBegin, AllocateEnd, ExecRo, ExecRoEnd, TestStarted, TestDone, Goto,
         ExecutorTypes, Combining, InUpdate
<1>3. CASE ThreadMmap(t) \/ ThreadMmapStep(t) \/ AllocateLock(t) \/ ExecRoLock(t)
  BY <1>0, <1>3, FrameKeepsTasks
     DEF ThreadMmap, ThreadMmapStep, AllocateLock, ExecRoLock, fcVars
<1>4. CASE ExecRw(t) \/ LeaveDone(t) \/ TryLock(t)
  BY <1>0, <1>4, PublishKeepsTasks, LeaveKeepsTasks, TryLockKeepsTasks
<1>5. CASE CollectTask(t) \/ DrainReaders(t) \/ ProcessRequest(t)
  BY <1>0, <1>5, CollectKeepsTasks, DrainKeepsTasks, ExecuteKeepsTasks
<1>6. CASE InstrumentStop(t) \/ MarkDone(t) \/ ClearOwn(t) \/ CombinerUnlock(t)
  BY <1>0, <1>6, CommitKeepsTasks, MarkKeepsTasks, FinishKeepsTasks
<1> QED BY <1>1, <1>2, <1>3, <1>4, <1>5, <1>6 DEF Request, Step

(* The inductive invariant of the executor: what every mark of taskArray and
   every place in exec_rw_flat_combining says of the updates. *)
THEOREM ExecutorInvariant ==
    ASSUME FreshTaskArray
    PROVE  Spec => []ExecutorInv
<1>1. Init => ExecutorInv
  <2> SUFFICES ASSUME Init PROVE ExecutorInv
    OBVIOUS
  <2>1. /\ fpc = [t \in Threads |-> "off"] /\ batch = [t \in Threads |-> <<>>]
        /\ cursor = [t \in Threads |-> 0] /\ rpc = [t \in Threads |-> "out"]
        /\ execs = [t \in Threads |-> 0] /\ durable = [t \in Threads |-> 0]
        /\ global_thread_count = 0 /\ rpc_mode \in BOOLEAN
    BY ModeAssumption DEF Init, LockInit
  <2>8. ready \in [Threads -> ReadyValues] /\ \A t \in Threads : ready[t] # READY_TO_EXECUTE
    <3> DEFINE V == ReadyValues \ {READY_TO_EXECUTE}
    <3>1. {NONE} \subseteq V /\ UninitReady \subseteq V
      BY UninitAssumption
         DEF FreshTaskArray, ReadyValues, STARTED, NONE, READY_TO_EXECUTE, READY_TO_INTIALISE
    <3>2. ready \in [Threads -> V]
      BY <3>1 DEF Init
    <3> QED BY <3>2
  <2>2. \A t \in Threads : ~Combining(t) /\ ~InUpdate(t)
    BY <2>1 DEF Combining, InUpdate
  <2>3. ExecutorTypes
    BY <2>1, <2>8, ThreadsAssumption DEF ExecutorTypes
  <2>4. PlaceInLock
    BY <2>1 DEF PlaceInLock
  <2>5. NoBatchOutside /\ BatchProgress /\ HeldInUpdate /\ DurableWasExecuted
    BY <2>1 DEF NoBatchOutside, BatchProgress, HeldInUpdate, Holds, DurableWasExecuted
  <2>6. BatchDistinct
    BY <2>1 DEF BatchDistinct
  <2>7. MarkMeaning
    BY <2>1, <2>2, <2>8 DEF MarkMeaning
  <2> QED BY <2>3, <2>4, <2>5, <2>6, <2>7 DEF ExecutorInv, TaskInv
<1>2. LockTypeOK /\ MutualExclusion /\ ExecutorInv /\ [Next]_vars => ExecutorInv'
  <2> SUFFICES ASSUME LockTypeOK, MutualExclusion, ExecutorInv, [Next]_vars
               PROVE  ExecutorInv'
    OBVIOUS
  <2>1. CASE UNCHANGED vars
    <3>1. UNCHANGED <<rpc, wpc>> /\ UNCHANGED fcVars
      BY <2>1 DEF vars, lockVars
    <3>2. TaskInv'
      BY <3>1, FrameKeepsTasks DEF ExecutorInv, fcVars
    <3> QED BY <3>1, <3>2 DEF ExecutorInv, ExecutorTypes, PlaceInLock, fcVars, setup
  <2>2. CASE Next
    BY <2>2, StepKeepsPlace, StepKeepsTypes, StepKeepsTasks DEF Next, ExecutorInv
  <2> QED BY <2>1, <2>2
<1>3. Spec => []LockTypeOK
  BY ExecutorUsesLock, LockTypeCorrect, PTL
<1> QED BY <1>1, <1>2, <1>3, ExecutorIsExclusive, PTL DEF Spec

(* Type correctness of the executor, the bounds of ready_commands_indexes and
   of its loop indexes included, for every number of threads. *)
THEOREM ExecutorTypeCorrect ==
    ASSUME FreshTaskArray
    PROVE  Spec => []FCTypeOK
<1>1. LockTypeOK /\ ExecutorInv => FCTypeOK
  BY BatchFits DEF ExecutorInv, TaskInv, ExecutorTypes, FCTypeOK
<1>2. Spec => []LockTypeOK
  BY ExecutorUsesLock, LockTypeCorrect, PTL
<1> QED BY <1>1, <1>2, ExecutorInvariant, PTL

(* A published request is collected once and keeps its STARTED mark until its
   combiner is done with it, for every number of threads. *)
THEOREM RequestsCollectedOnce ==
    ASSUME FreshTaskArray
    PROVE  Spec => []CollectedOnce
<1>1. ExecutorInv => CollectedOnce
  BY DEF ExecutorInv, TaskInv, ExecutorTypes, BatchDistinct, BatchProgress, CollectedOnce
<1> QED BY <1>1, ExecutorInvariant, PTL

-----------------------------------------------------------------------------
(***************************************************************************)
(* What a step does to one thread's update, seen from outside: the mapping *)
(* of FlatCombining to DurableExecutor, step by step.                      *)
(***************************************************************************)

(* exec_rw_flat_combining returns only an update that was executed once and is
   durable: through a DONE mark or as the combiner's own request. *)
LEMMA StepReturnsDurable ==
    ASSUME ExecutorInv, NEW t \in Threads, Request(t) \/ Step(t),
           NEW u \in Threads, InUpdate(u), ~InUpdate(u)'
    PROVE  u = t /\ execs[t] = 1 /\ durable[t] = 1 /\ UNCHANGED <<execs, durable>>
<1> USE DEF ExecutorInv, ExecutorTypes, Goto
<1>1. CASE LeaveDone(t)
  BY <1>1 DEF LeaveDone, TaskInv, MarkMeaning, InUpdate, Combining
<1>2. CASE CombinerUnlock(t)
  BY <1>2 DEF CombinerUnlock, TaskInv, MarkMeaning, InUpdate, Combining
<1>3. CASE ReleaseWorker(t) \/ InitializeThread(t) \/ AllocateBegin(t)
  BY <1>3 DEF ReleaseWorker, InitializeThread, AllocateBegin, InUpdate, Combining
<1>4. CASE ThreadMmap(t) \/ ThreadMmapStep(t) \/ AllocateLock(t) \/ ExecRoLock(t)
  BY <1>4 DEF ThreadMmap, ThreadMmapStep, AllocateLock, ExecRoLock, fcVars, InUpdate,
              Combining
<1>5. CASE AllocateEnd(t) \/ ExecRo(t) \/ ExecRoEnd(t) \/ ExecRw(t)
  BY <1>5 DEF AllocateEnd, ExecRo, ExecRoEnd, ExecRw, InUpdate, Combining
<1>6. CASE TestStarted(t) \/ TestDone(t)
  BY <1>6 DEF TestStarted, TestDone, InUpdate, Combining
<1>7. CASE TryLock(t)
  BY <1>7 DEF TryLock, fcVars, InUpdate, Combining
<1>8. CASE CollectTask(t) \/ ProcessRequest(t) \/ MarkDone(t)
  BY <1>8 DEF CollectTask, ProcessRequest, MarkDone, InUpdate, Combining
<1>9. CASE DrainReaders(t)
  BY <1>9 DEF DrainReaders, InUpdate, Combining
<1>10. CASE InstrumentStop(t) \/ ClearOwn(t)
  BY <1>10 DEF InstrumentStop, ClearOwn, InUpdate, Combining
<1> QED BY <1>1, <1>2, <1>3, <1>4, <1>5, <1>6, <1>7, <1>8, <1>9, <1>10 DEF Request, Step

(* An update that exec_rw_flat_combining reports has been executed exactly once
   and is durable, whoever executed it, for every number of threads. *)
THEOREM ReturnsOnlyDurable ==
    ASSUME FreshTaskArray
    PROVE  Spec => ReturnedIsDurable
<1>1. ExecutorInv /\ [Next]_vars =>
          [\A t \in Threads :
              InUpdate(t) /\ ~InUpdate(t)' => execs[t] = 1 /\ durable[t] = 1]_vars
  BY StepReturnsDurable DEF Next
<1> QED BY <1>1, ExecutorInvariant, PTL DEF Spec, ReturnedIsDurable

(* Only an execution of a callback counts one, and the request it executes is
   one that a thread has published and is waiting for. *)
LEMMA ExecutedIsHeld ==
    ASSUME ExecutorInv, NEW t \in Threads, ProcessRequest(t)
    PROVE  \E v \in Threads :
               /\ InUpdate(v) /\ execs[v] = 0 /\ durable[v] = 0
               /\ execs' = [execs EXCEPT ![v] = 1]
<1> USE DEF ExecutorInv, ExecutorTypes, TaskInv
<1> DEFINE k == cursor[t] + 1
           v == batch[t][k]
<1>1. /\ fpc[t] = "combine" /\ k \in 1 .. Len(batch[t]) /\ v \in Threads
      /\ execs' = [execs EXCEPT ![v] = execs[v] + 1]
  BY DEF ProcessRequest
<1>2. execs[v] = 0 /\ durable[v] = 0
  BY <1>1 DEF BatchProgress
<1>3. InUpdate(v)
  BY <1>1 DEF HeldInUpdate, Holds
<1>4. execs' = [execs EXCEPT ![v] = 1]
  BY <1>1, <1>2
<1> HIDE DEF ExecutorInv, v
<1> QED BY <1>1, <1>2, <1>3, <1>4

(* No callback is executed for a thread that has not published an update or has
   already left with its result, for every number of threads. *)
THEOREM ExecutesOnlySubmitted ==
    ASSUME FreshTaskArray
    PROVE  Spec => OnlySubmittedExecuted
<1>1. ASSUME ExecutorInv, NEW t \in Threads, Request(t) \/ Step(t), NEW u \in Threads,
             execs'[u] > execs[u]
      PROVE  InUpdate(u)
  <2>1. execs[u] \in {0, 1} /\ ~ execs[u] > execs[u]
    BY <1>1 DEF ExecutorInv, ExecutorTypes
  <2>2. execs' # execs
    BY <1>1, <2>1
  <2>3. CASE ProcessRequest(t)
    BY <1>1, <2>1, <2>3, ExecutedIsHeld DEF ExecutorInv, ExecutorTypes
  <2>4. CASE ExecRw(t)
    BY <1>1, <2>1, <2>4 DEF ExecRw, ExecutorInv, ExecutorTypes
  <2>5. CASE ReleaseWorker(t) \/ InitializeThread(t) \/ AllocateBegin(t) \/ AllocateEnd(t)
             \/ ExecRo(t) \/ ExecRoEnd(t) \/ TestStarted(t) \/ TestDone(t) \/ LeaveDone(t)
    BY <2>2, <2>5 DEF ReleaseWorker, InitializeThread, AllocateBegin, AllocateEnd, ExecRo,
                      ExecRoEnd, TestStarted, TestDone, LeaveDone
  <2>6. CASE ThreadMmap(t) \/ ThreadMmapStep(t) \/ AllocateLock(t) \/ ExecRoLock(t)
             \/ TryLock(t)
    BY <2>2, <2>6 DEF ThreadMmap, ThreadMmapStep, AllocateLock, ExecRoLock, TryLock, fcVars
  <2>7. CASE CollectTask(t) \/ DrainReaders(t) \/ InstrumentStop(t) \/ MarkDone(t)
             \/ ClearOwn(t) \/ CombinerUnlock(t)
    BY <2>2, <2>7 DEF CollectTask, DrainReaders, InstrumentStop, MarkDone, ClearOwn,
                      CombinerUnlock
  <2> QED BY <1>1, <2>3, <2>4, <2>5, <2>6, <2>7 DEF Request, Step
<1>2. ExecutorInv /\ [Next]_vars =>
          [\A t \in Threads : execs'[t] > execs[t] => InUpdate(t)]_vars
  BY <1>1 DEF Next
<1> QED BY <1>2, ExecutorInvariant, PTL DEF Spec, OnlySubmittedExecuted

-----------------------------------------------------------------------------
(* The abstract state is a function of these: who is in an update, how often it
   was executed and made durable, and who is inside a read-only callback. *)
LEMMA AbstractFrame ==
    ASSUME \A u \in Threads : InUpdate(u)' <=> InUpdate(u),
           \A u \in Threads : (rpc[u] = "in")' <=> rpc[u] = "in",
           UNCHANGED <<execs, durable>>
    PROVE  UNCHANGED Abstract!vars
BY DEF Abstract!vars, UpdateState

(* Publishing an update is Submit. *)
LEMMA PublishIsSubmit ==
    ASSUME ExecutorInv, NEW t \in Threads, ExecRw(t)
    PROVE  Abstract!Submit(t)
<1> USE DEF ExecutorInv, ExecutorTypes
<1>1. /\ fpc[t] \in {"idle", "request"} /\ fpc' = [fpc EXCEPT ![t] = "poll"]
      /\ execs' = [execs EXCEPT ![t] = 0] /\ durable' = [durable EXCEPT ![t] = 0]
      /\ UNCHANGED rpc
  BY DEF ExecRw, Goto, lockVars
<1>2. UpdateState(t) = "none" /\ UpdateState(t)' = "submitted" /\ rpc[t] # "in"
  BY <1>1 DEF UpdateState, InUpdate, Combining, PlaceInLock
<1>3. \A u \in Threads : u # t => UpdateState(u)' = UpdateState(u)
  BY <1>1 DEF UpdateState, InUpdate, Combining
<1> QED BY <1>1, <1>2, <1>3 DEF Abstract!Submit

(* A callback of the combiner is Apply: no reader is inside. *)
LEMMA ExecuteIsApply ==
    ASSUME ExecutorInv, MutualExclusion, NEW t \in Threads, ProcessRequest(t)
    PROVE  \E v \in Threads : Abstract!Apply(v)
<1> USE DEF ExecutorInv, ExecutorTypes
<1>1. PICK v \in Threads : /\ InUpdate(v) /\ execs[v] = 0 /\ durable[v] = 0
                          /\ execs' = [execs EXCEPT ![v] = 1]
  BY ExecutedIsHeld
<1>2. UNCHANGED <<rpc, fpc, durable>> /\ fpc[t] = "combine"
  BY DEF ProcessRequest, lockVars
<1>3. \A u \in Threads : rpc[u] # "in"
  BY <1>2 DEF PlaceInLock, MutualExclusion
<1>4. UpdateState(v) = "submitted" /\ UpdateState(v)' = "applied"
  BY <1>1, <1>2 DEF UpdateState, InUpdate, Combining
<1>5. \A u \in Threads : u # v => UpdateState(u)' = UpdateState(u)
  BY <1>1, <1>2 DEF UpdateState, InUpdate, Combining
<1> QED BY <1>2, <1>3, <1>4, <1>5 DEF Abstract!Apply

(* instrument_stop is Persist, or nothing when no request was collected. *)
LEMMA CommitIsPersist ==
    ASSUME ExecutorInv, NEW t \in Threads, InstrumentStop(t)
    PROVE  Abstract!Persist \/ UNCHANGED Abstract!vars
<1> USE DEF ExecutorInv, ExecutorTypes
<1>1. /\ fpc[t] = "combine" /\ fpc' = [fpc EXCEPT ![t] = "finish"]
      /\ durable' = execs /\ UNCHANGED <<rpc, execs>>
  BY DEF InstrumentStop, Goto, lockVars
<1>2. \A u \in Threads : InUpdate(u)' <=> InUpdate(u)
  BY <1>1 DEF InUpdate, Combining
<1>3. \A u \in Threads :
          UpdateState(u)' = IF UpdateState(u) = "applied" THEN "durable" ELSE UpdateState(u)
  BY <1>1, <1>2 DEF UpdateState, TaskInv, DurableWasExecuted
<1>4. CASE \E u \in Threads : UpdateState(u) = "applied"
  BY <1>1, <1>3, <1>4 DEF Abstract!Persist
<1>5. CASE \A u \in Threads : UpdateState(u) # "applied"
  BY <1>1, <1>3, <1>5 DEF Abstract!vars
<1> QED BY <1>4, <1>5

(* Leaving exec_rw_flat_combining is Return. *)
LEMMA LeaveIsReturn ==
    ASSUME ExecutorInv, NEW t \in Threads, LeaveDone(t) \/ CombinerUnlock(t)
    PROVE  Abstract!Return(t)
<1> USE DEF ExecutorInv, ExecutorTypes
<1>1. /\ InUpdate(t) /\ fpc' = [fpc EXCEPT ![t] = "idle"] /\ UNCHANGED <<rpc, execs, durable>>
  BY DEF LeaveDone, CombinerUnlock, WriteUnlock, Goto, InUpdate, Combining, lockVars
<1>2. \A u \in Threads : InUpdate(u)' <=> InUpdate(u) /\ u # t
  BY <1>1 DEF InUpdate, Combining
<1>3. execs[t] = 1 /\ durable[t] = 1
  BY <1>1, <1>2, StepReturnsDurable DEF Step
<1>4. UpdateState(t) = "durable" /\ UpdateState(t)' = "none"
  BY <1>1, <1>2, <1>3 DEF UpdateState
<1>5. \A u \in Threads : u # t => UpdateState(u)' = UpdateState(u)
  BY <1>1, <1>2 DEF UpdateState
<1> QED BY <1>1, <1>4, <1>5 DEF Abstract!Return

(* Taking the reader side is BeginRead: the word was free, so no combiner holds
   an update that is not durable. *)
LEMMA LockIsBeginRead ==
    ASSUME ExecutorInv, LockTypeOK, LockInv, SectionInv, NEW t \in Threads,
           fpc[t] = "ro", ReadLockTest(t), UNCHANGED fcVars
    PROVE  Abstract!BeginRead(t) \/ UNCHANGED Abstract!vars
<1>1. /\ UNCHANGED <<fpc, execs, durable>> /\ rpc[t] = "check"
      /\ rpc' = [rpc EXCEPT ![t] = IF LockIsFree THEN "in" ELSE "retreat"]
  BY DEF fcVars, ReadLockTest
<1>2. \A u \in Threads : InUpdate(u)' <=> InUpdate(u)
  BY <1>1 DEF InUpdate, Combining
<1>3. \A u \in Threads : UpdateState(u)' = UpdateState(u)
  BY <1>1, <1>2 DEF UpdateState
<1>4. CASE LockIsFree
  <2>1. \A u \in Threads : fpc[u] # "combine"
    BY <1>4 DEF LockIsFree, LockInv, WordIsOwned, OwnsWord, ExecutorInv, PlaceInLock
  <2>2. \A u \in Threads : UpdateState(u) # "applied"
    BY <2>1 DEF UpdateState, SectionInv, VolatileIsCombined, ExecutorInv, ExecutorTypes
  <2>3. UpdateState(t) = "none"
    BY DEF UpdateState, InUpdate, Combining
  <2>4. {u \in Threads : rpc[u] = "in"}' = {u \in Threads : rpc[u] = "in"} \cup {t}
    BY <1>1, <1>4 DEF LockTypeOK
  <2> QED BY <1>1, <1>3, <2>2, <2>3, <2>4 DEF Abstract!BeginRead
<1>5. CASE ~LockIsFree
  <2>1. {u \in Threads : rpc[u] = "in"}' = {u \in Threads : rpc[u] = "in"}
    BY <1>1, <1>5 DEF LockTypeOK
  <2> QED BY <1>3, <2>1 DEF Abstract!vars
<1> QED BY <1>4, <1>5

(* Leaving it is EndRead. *)
LEMMA UnlockIsEndRead ==
    ASSUME ExecutorInv, LockTypeOK, NEW t \in Threads, ExecRoEnd(t)
    PROVE  Abstract!EndRead(t)
<1>1. /\ fpc[t] = "ro" /\ fpc' = [fpc EXCEPT ![t] = "idle"] /\ UNCHANGED <<execs, durable>>
      /\ rpc[t] = "in" /\ rpc' = [rpc EXCEPT ![t] = "out"]
  BY DEF ExecRoEnd, ReadUnlock, Goto
<1>2. \A u \in Threads : InUpdate(u)' <=> InUpdate(u)
  BY <1>1 DEF InUpdate, Combining, ExecutorInv, ExecutorTypes
<1>3. \A u \in Threads : UpdateState(u)' = UpdateState(u)
  BY <1>1, <1>2 DEF UpdateState
<1>4. {u \in Threads : rpc[u] = "in"}' = {u \in Threads : rpc[u] = "in"} \ {t}
  BY <1>1 DEF LockTypeOK
<1> QED BY <1>1, <1>3, <1>4 DEF Abstract!EndRead

(* Everything else is invisible: the lock's own steps, registration, the tests
   of ready, collection and marking. *)
LEMMA OtherStepsAreInvisible ==
    ASSUME ExecutorInv, LockTypeOK, NEW t \in Threads,
           \/ ReleaseWorker(t) \/ InitializeThread(t) \/ AllocateBegin(t) \/ AllocateEnd(t)
           \/ ThreadMmap(t) \/ ThreadMmapStep(t) \/ AllocateLock(t) \/ ExecRo(t)
           \/ ExecRoLock(t) /\ ~ReadLockTest(t)
           \/ TestStarted(t) \/ TestDone(t) \/ TryLock(t) \/ CollectTask(t)
           \/ DrainReaders(t) \/ MarkDone(t) \/ ClearOwn(t)
    PROVE  UNCHANGED Abstract!vars
<1> USE DEF ExecutorInv, ExecutorTypes, Goto
<1>1. CASE ReleaseWorker(t) \/ InitializeThread(t) \/ AllocateBegin(t)
  BY <1>1, AbstractFrame DEF ReleaseWorker, InitializeThread, AllocateBegin, lockVars,
                             InUpdate, Combining
<1>2. CASE AllocateEnd(t)
  BY <1>2, AbstractFrame DEF AllocateEnd, WriteUnlock, InUpdate, Combining
<1>3. CASE ThreadMmap(t) \/ ThreadMmapStep(t)
  BY <1>3, AbstractFrame
     DEF ThreadMmap, ThreadMmapStep, MmapHook, MmapStep, MmapSeesFree, MmapLock,
         MmapUnlock, fcVars, InUpdate, Combining
<1>4. CASE AllocateLock(t)
  BY <1>4, AbstractFrame
     DEF AllocateLock, WriterSeesFree, LockWriter, ActiveReadersSetIsEmpty, fcVars,
         InUpdate, Combining
<1>5. CASE ExecRo(t)
  <2>1. \A u \in Threads : (rpc[u] = "in")' <=> rpc[u] = "in"
    BY <1>5 DEF ExecRo, MarkReaderAsActive, LockTypeOK
  <2> QED BY <1>5, <2>1, AbstractFrame DEF ExecRo, InUpdate, Combining
<1>6. CASE ExecRoLock(t) /\ ~ReadLockTest(t)
  <2>1. \A u \in Threads : (rpc[u] = "in")' <=> rpc[u] = "in"
    BY <1>6 DEF ExecRoLock, MarkReaderAsActive, MarkReaderAsInactive, ReadLockSpin,
                LockTypeOK
  <2> QED BY <1>6, <2>1, AbstractFrame DEF ExecRoLock, fcVars, InUpdate, Combining
<1>7. CASE TestStarted(t) \/ TestDone(t)
  BY <1>7, AbstractFrame DEF TestStarted, TestDone, lockVars, InUpdate, Combining
<1>8. CASE TryLock(t)
  BY <1>8, AbstractFrame
     DEF TryLock, WriterSeesFree, LockWriter, lockVars, fcVars, InUpdate, Combining
<1>9. CASE CollectTask(t) \/ MarkDone(t) \/ ClearOwn(t)
  BY <1>9, AbstractFrame
     DEF CollectTask, MarkDone, ClearOwn, lockVars, InUpdate, Combining
<1>10. CASE DrainReaders(t)
  BY <1>10, AbstractFrame
     DEF DrainReaders, ActiveReadersSetIsEmpty, InUpdate, Combining
<1> QED BY <1>1, <1>2, <1>3, <1>4, <1>5, <1>6, <1>7, <1>8, <1>9, <1>10

(* The executor implements DurableExecutor, for every number of threads and in
   both modes: whatever the locks, slots and combiners do, every update is
   applied once, made durable and only then reported, and no read-only request
   runs while an applied update is still volatile. *)
THEOREM ExecutorImplementsDurableExecutor ==
    ASSUME FreshTaskArray
    PROVE  Spec => ImplementsDurableExecutor
<1>1. Init => Abstract!Init
  BY DEF Init, LockInit, Abstract!Init, UpdateState, InUpdate, Combining
<1>2. ASSUME ExecutorInv, LockTypeOK, LockInv, SectionInv,
             NEW t \in Threads, Request(t) \/ Step(t)
      PROVE  Abstract!Next \/ UNCHANGED Abstract!vars
  <2>1. MutualExclusion
    BY <1>2 DEF LockInv
  <2>2. CASE ExecRw(t)
    BY <1>2, <2>2, PublishIsSubmit DEF Abstract!Next
  <2>3. CASE ProcessRequest(t)
    BY <1>2, <2>1, <2>3, ExecuteIsApply DEF Abstract!Next
  <2>4. CASE InstrumentStop(t)
    BY <1>2, <2>4, CommitIsPersist DEF Abstract!Next
  <2>5. CASE LeaveDone(t) \/ CombinerUnlock(t)
    BY <1>2, <2>5, LeaveIsReturn DEF Abstract!Next
  <2>6. CASE ExecRoLock(t) /\ ReadLockTest(t)
    BY <1>2, <2>6, LockIsBeginRead DEF Abstract!Next, ExecRoLock
  <2>7. CASE ExecRoEnd(t)
    BY <1>2, <2>7, UnlockIsEndRead DEF Abstract!Next
  <2> QED BY <1>2, <2>2, <2>3, <2>4, <2>5, <2>6, <2>7, OtherStepsAreInvisible
          DEF Request, Step
<1>3. UNCHANGED vars => UNCHANGED Abstract!vars
  BY AbstractFrame DEF vars, fcVars, lockVars, InUpdate, Combining
<1>4. ExecutorInv /\ LockTypeOK /\ LockInv /\ SectionInv /\ [Next]_vars
          => [Abstract!Next]_(Abstract!vars)
  BY <1>2, <1>3 DEF Next
<1>5. Spec => []LockTypeOK
  BY ExecutorUsesLock, LockTypeCorrect, PTL
<1> QED BY <1>1, <1>4, <1>5, ExecutorInvariant, ExecutorLockInvariant, SectionInvariant, PTL
        DEF Spec, ImplementsDurableExecutor, Abstract!Spec
=============================================================================
