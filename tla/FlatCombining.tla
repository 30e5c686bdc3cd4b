--------------------------- MODULE FlatCombining ----------------------------
(***************************************************************************)
(* The flat-combining executor of the front end                            *)
(* (flat_combining/flat_combining.c): application threads publish updates  *)
(* in taskArray, the thread that wins the writer lock (the combiner)       *)
(* executes every published update inside one instrumented section, makes  *)
(* the section durable, and only then marks the updates DONE.  Read-only   *)
(* requests run under the reader side of the same lock.                    *)
(*                                                                         *)
(* The lock is WriterPreferenceLock, step by step: an action here that     *)
(* touches the lock is a conjunction with the lock's action.  The redo     *)
(* log behind instrument_stop is the RingBuffer module; at this level      *)
(* instrument_stop makes the executed updates durable in one step.         *)
(***************************************************************************)
EXTENDS WriterPreferenceLock, Sequences

CONSTANTS
    Modes,       \* the values of rpc_mode considered
    UninitReady  \* values that ready may have in the uninitialised taskArray

(* The values of thread_entry.ready (flat_combining.h). *)
STARTED == 0
DONE == 1
READY_TO_EXECUTE == 2
NONE == 3
READY_TO_INTIALISE == 4
ReadyValues == STARTED .. READY_TO_INTIALISE

ASSUME ModeAssumption == Modes \subseteq BOOLEAN
ASSUME UninitAssumption == UninitReady \subseteq ReadyValues /\ UninitReady # {}

VARIABLES
    rpc_mode,             \* TRUE: worker threads serving clients; FALSE: threads
                          \* that register with mangosteen_initialize_thread
    ready,                \* taskArray[t].ready
    fpc,                  \* where thread t is in the executor
    batch,                \* ready_commands_indexes of thread t (its first
                          \* number_of_comamnds elements)
    cursor,               \* the loop index i, later index, of thread t
    global_thread_count,  \* threads registered (RPC mode: released) so far
    execs,                \* executions of the update t submitted last
    durable               \* ... those already made durable by instrument_stop

setup == <<rpc_mode, global_thread_count>>
fcVars == <<setup, ready, fpc, batch, cursor, execs, durable>>
vars == <<lockVars, fcVars>>

(***************************************************************************)
(* allocateFlatCombiningdMemory leaves taskArray uninitialised.  In RPC    *)
(* mode start_worker_threads sets every ready to NONE and the workers wait *)
(* to be released; otherwise each thread sets its own entry in             *)
(* mangosteen_initialize_thread.                                           *)
(***************************************************************************)
Init ==
    /\ LockInit
    /\ rpc_mode \in Modes
    /\ ready \in [Threads -> IF rpc_mode THEN {NONE} ELSE UninitReady]
    /\ fpc = [t \in Threads |-> "off"]
    /\ global_thread_count = 0
    /\ batch = [t \in Threads |-> <<>>]
    /\ cursor = [t \in Threads |-> 0]
    /\ execs = [t \in Threads |-> 0]
    /\ durable = [t \in Threads |-> 0]

Goto(t, l) == fpc' = [fpc EXCEPT ![t] = l]

(* The last loop of start_front_end releases the workers one after the other;
   start_worker_thread goes on when it sees the value and leaves it there. *)
ReleaseWorker(t) ==
    /\ rpc_mode
    /\ fpc[t] = "off"
    /\ t = global_thread_count
    /\ ready' = [ready EXCEPT ![t] = READY_TO_INTIALISE]
    /\ global_thread_count' = global_thread_count + 1
    /\ Goto(t, "idle")
    /\ UNCHANGED <<lockVars, rpc_mode, batch, cursor, execs, durable>>

(* mangosteen_initialize_thread: the whole body runs under a mutex. *)
InitializeThread(t) ==
    /\ ~rpc_mode
    /\ fpc[t] = "off"
    /\ mpc[t] = "out"
    /\ t = global_thread_count
    /\ ready' = [ready EXCEPT ![t] = NONE]
    /\ global_thread_count' = global_thread_count + 1
    /\ Goto(t, "idle")
    /\ UNCHANGED <<lockVars, rpc_mode, batch, cursor, execs, durable>>

(***************************************************************************)
(* process_command: the first request of a client allocates its            *)
(* application struct under the drained writer lock, with combiner = 0.    *)
(***************************************************************************)
AllocateBegin(t) ==
    /\ rpc_mode
    /\ fpc[t] = "idle"
    /\ mpc[t] = "out"
    /\ Goto(t, "alloc")
    /\ UNCHANGED <<lockVars, setup, ready, batch, cursor, execs, durable>>

AllocateLock(t) ==
    /\ fpc[t] = "alloc"
    /\ WriterSeesFree(t) \/ LockWriter(t) \/ ActiveReadersSetIsEmpty(t)
    /\ UNCHANGED fcVars

AllocateEnd(t) ==
    /\ fpc[t] = "alloc"
    /\ WriteUnlock(t)
    /\ Goto(t, "request")
    /\ UNCHANGED <<setup, ready, batch, cursor, execs, durable>>

(***************************************************************************)
(* exec_ro: the callback runs while rpc[t] = "in".                         *)
(***************************************************************************)
ExecRo(t) ==
    /\ fpc[t] \in {"idle", "request"}
    /\ MarkReaderAsActive(t)
    /\ Goto(t, "ro")
    /\ UNCHANGED <<setup, ready, batch, cursor, execs, durable>>

ExecRoLock(t) ==
    /\ fpc[t] = "ro"
    /\ \/ MarkReaderAsActive(t) /\ rpc[t] = "again"
       \/ ReadLockTest(t) \/ MarkReaderAsInactive(t) \/ ReadLockSpin(t)
    /\ UNCHANGED fcVars

ExecRoEnd(t) ==
    /\ fpc[t] = "ro"
    /\ ReadUnlock(t)
    /\ Goto(t, "idle")
    /\ UNCHANGED <<setup, ready, batch, cursor, execs, durable>>

(***************************************************************************)
(* exec_rw_flat_combining.  The two tests of ready at the top of the loop  *)
(* are separate reads: a combiner may mark the request between them.       *)
(***************************************************************************)
ExecRw(t) ==
    /\ fpc[t] \in {"idle", "request"}
    /\ mpc[t] = "out"
    /\ ready' = [ready EXCEPT ![t] = READY_TO_EXECUTE]
    /\ execs' = [execs EXCEPT ![t] = 0]
    /\ durable' = [durable EXCEPT ![t] = 0]
    /\ Goto(t, "poll")
    /\ UNCHANGED <<lockVars, setup, batch, cursor>>

TestStarted(t) ==
    /\ fpc[t] = "poll"
    /\ Goto(t, IF ready[t] = STARTED THEN "await" ELSE "poll2")
    /\ UNCHANGED <<lockVars, setup, ready, batch, cursor, execs, durable>>

(* Faulty variant: a waiting thread leaves as soon as its request is taken. *)
FaultyLeaveStarted(t) ==
    /\ fpc[t] \in {"await", "poll2"}
    /\ ready[t] \in {STARTED, DONE}
    /\ ready' = [ready EXCEPT ![t] = NONE]
    /\ Goto(t, "idle")
    /\ UNCHANGED <<lockVars, setup, batch, cursor, execs, durable>>

(* Both DONE branches: the inner spin after STARTED and the second test. *)
LeaveDone(t) ==
    /\ fpc[t] \in {"await", "poll2"}
    /\ ready[t] = DONE
    /\ ready' = [ready EXCEPT ![t] = NONE]
    /\ Goto(t, "idle")
    /\ UNCHANGED <<lockVars, setup, batch, cursor, execs, durable>>

TestDone(t) ==
    /\ fpc[t] = "poll2"
    /\ ready[t] # DONE
    /\ Goto(t, "try")
    /\ UNCHANGED <<lockVars, setup, ready, batch, cursor, execs, durable>>

TryLock(t) ==
    /\ fpc[t] = "try"
    /\ \/ WriterSeesFree(t) /\ UNCHANGED fcVars
       \/ /\ wpc[t] = "out" /\ ~LockIsFree
          /\ Goto(t, "poll")
          /\ UNCHANGED <<lockVars, setup, ready, batch, cursor, execs, durable>>
       \/ /\ LockWriter(t)
          /\ Goto(t, IF writers = 0 THEN "collect" ELSE "poll")
          /\ UNCHANGED <<setup, ready, batch, cursor, execs, durable>>

(* Faulty variants of the collection: the slot keeps its mark, gets the wrong
   mark, or is taken whatever its mark is. *)
FaultyCollect(t, takes, mark) ==
    /\ fpc[t] = "collect"
    /\ cursor[t] < NUMBER_OF_THREADS
    /\ LET i == cursor[t] IN
       IF ready[i] \in takes
       THEN /\ ready' = [ready EXCEPT ![i] = mark]
            /\ batch' = [batch EXCEPT ![t] = Append(batch[t], i)]
       ELSE UNCHANGED <<ready, batch>>
    /\ cursor' = [cursor EXCEPT ![t] = cursor[t] + 1]
    /\ UNCHANGED <<lockVars, setup, fpc, execs, durable>>

FaultyKeepReady(t) == FaultyCollect(t, {READY_TO_EXECUTE}, READY_TO_EXECUTE)
FaultyMarkEarly(t) == FaultyCollect(t, {READY_TO_EXECUTE}, DONE)
FaultyTakeAll(t) == FaultyCollect(t, {READY_TO_EXECUTE, STARTED, DONE}, STARTED)

(* The inner for loop: one slot of taskArray per step. *)
CollectTask(t) ==
    /\ fpc[t] = "collect"
    /\ cursor[t] < NUMBER_OF_THREADS
    /\ \/ /\ ready[cursor[t]] = READY_TO_EXECUTE
          /\ ready' = [ready EXCEPT ![cursor[t]] = STARTED]
          /\ batch' = [batch EXCEPT ![t] = Append(batch[t], cursor[t])]
       \/ /\ ready[cursor[t]] # READY_TO_EXECUTE
          /\ UNCHANGED <<ready, batch>>
    /\ cursor' = [cursor EXCEPT ![t] = cursor[t] + 1]
    /\ UNCHANGED <<lockVars, setup, fpc, execs, durable>>

(* activeReadersSetIsEmpty after each pass over taskArray: an active reader
   sends the combiner through taskArray again, an empty set ends the loop. *)
DrainReaders(t) ==
    /\ fpc[t] = "collect"
    /\ cursor[t] = NUMBER_OF_THREADS
    /\ ActiveReadersSetIsEmpty(t)
    /\ \/ /\ wpc'[t] = "in"
          /\ cursor' = [cursor EXCEPT ![t] = 0]
          /\ Goto(t, "combine")
       \/ /\ wpc'[t] # "in"
          /\ cursor' = [cursor EXCEPT ![t] =
                           IF readers_set[scan[t]] = READING THEN 0 ELSE @]
          /\ UNCHANGED fpc
    /\ UNCHANGED <<setup, ready, batch, execs, durable>>

(* Faulty variant: a request is marked DONE when its callback returns. *)
FaultyDoneEarly(t) ==
    /\ fpc[t] = "combine"
    /\ cursor[t] < Len(batch[t])
    /\ LET u == batch[t][cursor[t] + 1]
       IN /\ execs' = [execs EXCEPT ![u] = execs[u] + 1]
          /\ ready' = [ready EXCEPT ![u] = DONE]
    /\ cursor' = [cursor EXCEPT ![t] = cursor[t] + 1]
    /\ UNCHANGED <<lockVars, setup, fpc, batch, durable>>

(* processRequestCallBack of the next collected request, between
   instrument_start and instrument_stop. *)
ProcessRequest(t) ==
    /\ fpc[t] = "combine"
    /\ cursor[t] < Len(batch[t])
    /\ LET u == batch[t][cursor[t] + 1]
       IN execs' = [execs EXCEPT ![u] = execs[u] + 1]
    /\ cursor' = [cursor EXCEPT ![t] = cursor[t] + 1]
    /\ UNCHANGED <<lockVars, setup, ready, fpc, batch, durable>>

(* Faulty variant: the section is logged without a commit. *)
FaultyNoCommit(t) ==
    /\ fpc[t] = "combine"
    /\ cursor[t] = Len(batch[t])
    /\ cursor' = [cursor EXCEPT ![t] = 0]
    /\ Goto(t, "finish")
    /\ UNCHANGED <<lockVars, setup, ready, batch, execs, durable>>

(* instrument_stop: everything the section wrote is committed to the log. *)
InstrumentStop(t) ==
    /\ fpc[t] = "combine"
    /\ cursor[t] = Len(batch[t])
    /\ durable' = execs
    /\ cursor' = [cursor EXCEPT ![t] = 0]
    /\ Goto(t, "finish")
    /\ UNCHANGED <<lockVars, setup, ready, batch, execs>>

(* Faulty variant: finished requests are marked NONE. *)
FaultyMarkNone(t) ==
    /\ fpc[t] = "finish"
    /\ cursor[t] < Len(batch[t])
    /\ ready' = [ready EXCEPT ![batch[t][cursor[t] + 1]] = NONE]
    /\ cursor' = [cursor EXCEPT ![t] = cursor[t] + 1]
    /\ UNCHANGED <<lockVars, setup, fpc, batch, execs, durable>>

MarkDone(t) ==
    /\ fpc[t] = "finish"
    /\ cursor[t] < Len(batch[t])
    /\ ready' = [ready EXCEPT ![batch[t][cursor[t] + 1]] = DONE]
    /\ cursor' = [cursor EXCEPT ![t] = cursor[t] + 1]
    /\ UNCHANGED <<lockVars, setup, fpc, batch, execs, durable>>

(* threadEntry->ready = NONE: the combiner's own request is finished, whether
   it was in this batch or was already DONE when the lock was won. *)
ClearOwn(t) ==
    /\ fpc[t] = "finish"
    /\ cursor[t] = Len(batch[t])
    /\ ready' = [ready EXCEPT ![t] = NONE]
    /\ Goto(t, "unlock")
    /\ UNCHANGED <<lockVars, setup, batch, cursor, execs, durable>>

CombinerUnlock(t) ==
    /\ fpc[t] = "unlock"
    /\ WriteUnlock(t)
    /\ batch' = [batch EXCEPT ![t] = <<>>]
    /\ cursor' = [cursor EXCEPT ![t] = 0]
    /\ Goto(t, "idle")
    /\ UNCHANGED <<setup, ready, execs, durable>>

(* mmap by a thread whose combiner field is 0: outside the executor, inside a
   read-only callback, or inside the allocation callback. *)
ThreadMmap(t) ==
    /\ MmapHook(t)
    /\ fpc[t] \in {"off", "idle", "ro", "alloc"}
    /\ fpc[t] = "off" => ~rpc_mode
    /\ fpc[t] = "alloc" => wpc[t] = "in"
    /\ UNCHANGED fcVars

ThreadMmapStep(t) == MmapStep(t) /\ UNCHANGED fcVars

-----------------------------------------------------------------------------
(* A thread's free choices. *)
Request(t) ==
    \/ ReleaseWorker(t) \/ InitializeThread(t) \/ AllocateBegin(t) \/ ThreadMmap(t)
    \/ fpc[t] = "idle" /\ (ExecRo(t) \/ ExecRw(t))

(* What it owes once it has begun a request. *)
Step(t) ==
    \/ AllocateLock(t) \/ AllocateEnd(t)
    \/ fpc[t] = "request" /\ (ExecRo(t) \/ ExecRw(t))
    \/ ExecRoLock(t) \/ ExecRoEnd(t)
    \/ TestStarted(t) \/ LeaveDone(t) \/ TestDone(t) \/ TryLock(t)
    \/ CollectTask(t) \/ DrainReaders(t) \/ ProcessRequest(t)
    \/ InstrumentStop(t) \/ MarkDone(t) \/ ClearOwn(t) \/ CombinerUnlock(t)
    \/ ThreadMmapStep(t)

Next == \E t \in Threads : Request(t) \/ Step(t)

(* Threads are scheduled and callbacks return. *)
Fairness == \A t \in Threads : WF_vars(Step(t))

Spec == Init /\ [][Next]_vars
FairSpec == Spec /\ Fairness

-----------------------------------------------------------------------------
Combining(t) == fpc[t] \in {"collect", "combine", "finish", "unlock"}

(* t is inside exec_rw_flat_combining. *)
InUpdate(t) == fpc[t] \in {"poll", "poll2", "try", "await"} \/ Combining(t)

(* Type correctness; ready_commands_indexes never needs more than
   NUMBER_OF_THREADS elements. *)
FCTypeOK ==
    /\ LockTypeOK
    /\ rpc_mode \in BOOLEAN
    /\ ready \in [Threads -> ReadyValues]
    /\ fpc \in [Threads -> {"off", "idle", "alloc", "request", "ro", "poll", "poll2",
                            "try", "await", "collect", "combine", "finish", "unlock"}]
    /\ batch \in [Threads -> Seq(Threads)]
    /\ cursor \in [Threads -> 0 .. NUMBER_OF_THREADS]
    /\ \A t \in Threads : Len(batch[t]) <= NUMBER_OF_THREADS
    /\ global_thread_count \in 0 .. NUMBER_OF_THREADS
    /\ execs \in [Threads -> {0, 1}]
    /\ durable \in [Threads -> {0, 1}]

(* A request is in at most one batch, once, and stays STARTED from collection
   until its combiner marks it DONE: nobody takes it back or over. *)
CollectedOnce ==
    \A t \in Threads : Combining(t) =>
        /\ \A i, j \in 1 .. Len(batch[t]) : batch[t][i] = batch[t][j] => i = j
        /\ fpc[t] \in {"collect", "combine"} =>
               \A i \in 1 .. Len(batch[t]) : ready[batch[t][i]] = STARTED

(* A read-only callback never runs beside an executed update that is not yet
   durable (it would return a value a crash can take back). *)
ReadersSeeDurable ==
    \A t, u \in Threads : rpc[t] = "in" => execs[u] = durable[u]

(* When exec_rw_flat_combining returns, the update has been executed exactly
   once and is durable, whoever executed it. *)
ReturnedIsDurable ==
    [][\A t \in Threads :
          InUpdate(t) /\ ~InUpdate(t)' => execs[t] = 1 /\ durable[t] = 1]_vars

(* Only requests that a thread has submitted and is waiting for are executed. *)
OnlySubmittedExecuted ==
    [][\A t \in Threads : execs'[t] > execs[t] => InUpdate(t)]_vars

(***************************************************************************)
(* The executor implements DurableExecutor: an update is applied from the  *)
(* moment its callback has run and durable from instrument_stop on, and it *)
(* is over when exec_rw_flat_combining returns.                            *)
(***************************************************************************)
UpdateState(t) ==
    IF ~InUpdate(t) THEN "none"
    ELSE IF execs[t] = 0 THEN "submitted"
    ELSE IF durable[t] = 0 THEN "applied" ELSE "durable"

Abstract == INSTANCE DurableExecutor WITH
    Clients <- Threads,
    update <- [t \in Threads |-> UpdateState(t)],
    reading <- {t \in Threads : rpc[t] = "in"}

(* Every step of the executor code is a step of DurableExecutor or none. *)
ImplementsDurableExecutor == Abstract!Spec

(* Once the other users of the writers word (struct allocation, mmap hook)
   leave it alone, every submitted update completes, whoever combines. *)
WordUsersQuiet == \A t \in Threads : mpc[t] = "out" /\ fpc[t] # "alloc"
UpdatesComplete ==
    <>[]WordUsersQuiet => \A t \in Threads : InUpdate(t) ~> ~InUpdate(t)
=============================================================================
