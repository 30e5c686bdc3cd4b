---------------------------- MODULE Persistence -----------------------------
(***************************************************************************)
(* What an application gets from Mangosteen: batches of updates executed   *)
(* on the front end's memory, logged by instrument_stop, applied by the    *)
(* back end to the memory image in persistent memory, and found again      *)
(* after a crash.  It joins the instrumentation client (what is logged,    *)
(* and in which groups), the back end (process_entry, recovery replay) and *)
(* the front end's restore_memory.  The redo log between them is           *)
(* CommittedLog, which RingBuffer implements.                              *)
(*                                                                         *)
(* Memory is a set of payload-sized lines; the content of a line is the    *)
(* number of the batch that wrote it last (0: the initial checkpoint).     *)
(***************************************************************************)
EXTENDS Integers, Sequences

CONSTANTS
    Lines,          \* payload-sized pieces of the application's memory
    MaxBatches,     \* bound: batches executed
    MaxCrashes,     \* bound: crashes
    Circumstances   \* when a crash may happen besides the ordinary moments:
                    \*   "early"  before the back end's first commit,
                    \*   "torn"   while a batch with memcpys is being logged,
                    \*   "rerun"  while a recovered application executes again

ASSUME LinesAssumption == Lines # {} /\ "commit" \notin Lines
ASSUME PersistenceBounds == MaxBatches \in Nat /\ MaxCrashes \in Nat
ASSUME CircumstancesAssumption ==
    Circumstances \subseteq {"early", "torn", "rerun"}

VARIABLES
    mem,        \* memory of the application (front end)
    image,      \* the memory files written by the back end
    shared,     \* TRUE: the front end maps the memory files themselves
    regions,    \* commit_metadata.numberOfRegions # 0
    fpc,        \* where the front end is
    bpc,        \* where the back end is
    batch,      \* number of the batch executed last
    stores,     \* lines in the hash set (instrumented stores)
    copies,     \* memcpyArray
    logged,     \* loop index of instrument_stop over memcpyArray
    acknowledged,  \* the batch whose requests were marked DONE last
    writes,     \* history: writes[k] = lines written by batch k
    crashes,
    \* the redo log (CommittedLog)
    log, committed, applied, acked, delivered

logVars == <<log, committed, applied, acked, delivered>>
memVars == <<mem, image, shared>>
section == <<stores, copies, logged>>
workload == <<batch, acknowledged, writes>>
vars == <<memVars, regions, fpc, bpc, workload, section, crashes, logVars>>

(* Log entries: the content of a line, or the commit mark. *)
Redo(l) == [line |-> l, content |-> mem[l]]
CommitMark == [line |-> "commit", content |-> 0]
IsCommitMark(e) == e.line = "commit"
LogEntries == [line : Lines \cup {"commit"}, content : 0 .. MaxBatches]

RedoLog == INSTANCE CommittedLog WITH Entries <- LogEntries, IsCommit <- IsCommitMark

Checkpoint == [l \in Lines |-> 0]

(* First launch: the CRIU checkpoint is the memory; the back end, forked
   before anything runs, waits for the semaphore. *)
Init ==
    /\ mem = Checkpoint /\ image = Checkpoint
    /\ shared = FALSE /\ regions = FALSE
    /\ fpc = "idle" /\ bpc = "wait"
    /\ batch = 0 /\ acknowledged = 0
    /\ stores = {} /\ copies = <<>> /\ logged = 0 /\ writes = <<>>
    /\ crashes = 0
    /\ log = <<>> /\ committed = 0 /\ applied = 0 /\ acked = 0
    /\ delivered = CommitMark

-----------------------------------------------------------------------------
(* The combiner executes a batch between instrument_start and instrument_stop. *)
InstrumentStart ==
    /\ fpc = "idle"
    /\ batch < MaxBatches
    /\ batch' = batch + 1
    /\ writes' = Append(writes, {})
    /\ fpc' = "exec"
    /\ UNCHANGED <<memVars, regions, bpc, section, acknowledged, crashes, logVars>>

(* A write to line l; the memory files see it at once when they are mapped. *)
WriteLine(l) ==
    /\ mem' = [mem EXCEPT ![l] = batch]
    /\ image' = IF shared THEN mem' ELSE image
    /\ writes' = [writes EXCEPT ![batch] = writes[batch] \cup {l}]
    /\ UNCHANGED <<shared, regions, fpc, bpc, batch, acknowledged, crashes, logVars>>

(* An instrumented store: its line goes into the hash set. *)
Store(l) ==
    /\ fpc = "exec"
    /\ l \notin stores
    /\ stores' = stores \cup {l}
    /\ WriteLine(l)
    /\ UNCHANGED <<copies, logged>>

(* Faulty variant: the copied range is not recorded. *)
FaultyUnrecorded(l) ==
    /\ fpc = "exec"
    /\ WriteLine(l)
    /\ UNCHANGED section

(* instrumented_memcpy: the range goes into memcpyArray. *)
InstrumentedMemcpy(l) ==
    /\ fpc = "exec"
    /\ \A i \in 1 .. Len(copies) : copies[i] # l
    /\ copies' = Append(copies, l)
    /\ WriteLine(l)
    /\ UNCHANGED <<stores, logged>>

(* instrument_stop: one group per memcpy, each with its own commit, and then
   one group with the lines of the hash set. *)
InstrumentStop ==
    /\ fpc = "exec"
    /\ fpc' = "log"
    /\ UNCHANGED <<memVars, regions, bpc, workload, section, crashes, logVars>>

LogMemcpy ==
    /\ fpc = "log"
    /\ logged < Len(copies)
    /\ RedoLog!AppendEntry(Redo(copies[logged + 1]))
    /\ logged' = logged + 1
    /\ fpc' = "commit_copy"
    /\ UNCHANGED <<memVars, regions, bpc, workload, stores, copies, crashes>>

LogStore(l) ==
    /\ fpc = "log"
    /\ logged = Len(copies)
    /\ l \in stores
    /\ RedoLog!AppendEntry(Redo(l))
    /\ stores' = stores \ {l}
    /\ UNCHANGED <<memVars, regions, fpc, bpc, workload, copies, logged, crashes>>

LogCommit ==
    /\ \/ fpc = "commit_copy" /\ fpc' = "publish_copy"
       \/ fpc = "log" /\ logged = Len(copies) /\ stores = {} /\ fpc' = "publish"
    /\ RedoLog!AppendEntry(CommitMark)
    /\ UNCHANGED <<memVars, regions, bpc, workload, section, crashes>>

(* The commit is published; the last one of a session ends instrument_stop,
   which empties memcpyArray. *)
Publish ==
    /\ \/ fpc = "publish_copy" /\ fpc' = "log" /\ UNCHANGED <<copies, logged>>
       \/ fpc = "publish" /\ fpc' = "done" /\ copies' = <<>> /\ logged' = 0
    /\ RedoLog!Commit
    /\ UNCHANGED <<memVars, regions, bpc, workload, stores, crashes>>

(* Faulty variant: a miscounted batch. *)
FaultyAckNext ==
    /\ fpc = "done"
    /\ acknowledged' = batch + 1
    /\ fpc' = "idle"
    /\ UNCHANGED <<memVars, regions, bpc, batch, section, writes, crashes, logVars>>

(* The requests of the batch are marked DONE: the application knows. *)
MarkDone ==
    /\ fpc = "done"
    /\ acknowledged' = batch
    /\ fpc' = "idle"
    /\ UNCHANGED <<memVars, regions, bpc, batch, section, writes, crashes, logVars>>

-----------------------------------------------------------------------------
(* start_back_end of a new process: woken by the front end, it copies its own
   memory, the checkpoint it was forked from, into new memory files. *)
SynchronizeAddressSpace ==
    /\ bpc = "wait"
    /\ image' = Checkpoint
    /\ bpc' = "run"
    /\ UNCHANGED <<mem, shared, regions, fpc, workload, section, crashes, logVars>>

(* process_entry of a redo or a commit entry. *)
ProcessEntry ==
    /\ bpc \in {"run", "replay"}
    /\ RedoLog!Apply
    /\ IF IsCommitMark(delivered')
       THEN /\ bpc' = IF bpc = "run" THEN "commit" ELSE "commit_replay"
            /\ UNCHANGED memVars
       ELSE /\ image' = [image EXCEPT ![delivered'.line] = delivered'.content]
            /\ mem' = IF shared THEN image' ELSE mem
            /\ UNCHANGED <<shared, bpc>>
    /\ UNCHANGED <<regions, fpc, workload, section, crashes>>

(* commit_rb_batch: the region count becomes durable before the head moves. *)
CommitRegions ==
    /\ bpc \in {"commit", "commit_replay"}
    /\ ~regions
    /\ regions' = TRUE
    /\ UNCHANGED <<memVars, fpc, bpc, workload, section, crashes, logVars>>

CommitDequeued ==
    /\ bpc \in {"commit", "commit_replay"}
    /\ regions
    /\ RedoLog!Ack
    /\ bpc' = IF bpc = "commit" THEN "run" ELSE "replay"
    /\ UNCHANGED <<memVars, regions, fpc, workload, section, crashes>>

(* Faulty variants: the front end is woken before the log is replayed, or
   never. *)
FaultyWakeEarly ==
    /\ bpc = "replay"
    /\ bpc' = "run"
    /\ fpc' = "restore"
    /\ UNCHANGED <<memVars, regions, workload, section, crashes, logVars>>

FaultyNoWake ==
    /\ bpc = "replay"
    /\ applied = committed
    /\ bpc' = "run"
    /\ UNCHANGED <<memVars, regions, fpc, workload, section, crashes, logVars>>

(* The end of the replay loop (remote_head = remote_tail, which is after the
   last commit entry): sem_post wakes the front end up. *)
ReplayDone ==
    /\ bpc = "replay"
    /\ applied = committed
    /\ bpc' = "run"
    /\ fpc' = "restore"
    /\ UNCHANGED <<memVars, regions, workload, section, crashes, logVars>>

(* restore_memory: the front end maps the memory files over its addresses. *)
RestoreMemory ==
    /\ fpc = "restore"
    /\ mem' = image
    /\ shared' = TRUE
    /\ fpc' = "restored"
    /\ UNCHANGED <<image, regions, bpc, workload, section, crashes, logVars>>

-----------------------------------------------------------------------------
(* Both processes die and are launched again from the checkpoint.  Without
   committed regions launch_mangosteen takes this for a new process. *)
Crash ==
    /\ crashes < MaxCrashes
    /\ "early" \notin Circumstances => regions
    /\ "torn" \notin Circumstances =>
           fpc \notin {"log", "commit_copy", "publish_copy", "publish"} \/ copies = <<>>
    /\ "rerun" \notin Circumstances => ~shared \/ fpc = "restored"
    /\ crashes' = crashes + 1
    /\ RedoLog!Crash
    /\ mem' = Checkpoint
    /\ shared' = FALSE
    /\ fpc' = IF regions THEN "down" ELSE "restored"
    /\ bpc' = IF regions THEN "replay" ELSE "wait"
    /\ stores' = {} /\ copies' = <<>> /\ logged' = 0
    /\ UNCHANGED <<image, regions, workload>>

(* The memory after the first j batches. *)
Effect(j) ==
    [l \in Lines |->
        LET ks == {k \in 1 .. j : l \in writes[k]}
        IN IF ks = {} THEN 0 ELSE CHOOSE k \in ks : \A m \in ks : m <= k]

(* The recovered application goes on from what it found; a batch that did not
   survive leaves the history. *)
Resume ==
    /\ fpc = "restored"
    /\ \/ mem = Effect(batch) /\ UNCHANGED writes
       \/ /\ mem # Effect(batch) /\ mem = Effect(acknowledged)
          /\ writes' = [writes EXCEPT ![batch] = {}]
    /\ acknowledged' = batch
    /\ fpc' = "idle"
    /\ UNCHANGED <<memVars, regions, bpc, batch, section, crashes, logVars>>

-----------------------------------------------------------------------------
FrontEnd ==
    \/ InstrumentStart \/ InstrumentStop \/ LogMemcpy \/ LogCommit \/ Publish \/ MarkDone
    \/ RestoreMemory \/ Resume
    \/ \E l \in Lines : Store(l) \/ InstrumentedMemcpy(l) \/ LogStore(l)

BackEnd ==
    \/ SynchronizeAddressSpace \/ ProcessEntry \/ CommitRegions \/ CommitDequeued
    \/ ReplayDone

Next == FrontEnd \/ BackEnd \/ Crash

Fairness == WF_vars(BackEnd) /\ WF_vars(RestoreMemory)

Spec == Init /\ [][Next]_vars
FairSpec == Spec /\ Fairness

-----------------------------------------------------------------------------
(* Type correctness. *)
TypeOK ==
    /\ mem \in [Lines -> 0 .. MaxBatches] /\ image \in [Lines -> 0 .. MaxBatches]
    /\ shared \in BOOLEAN /\ regions \in BOOLEAN
    /\ fpc \in {"idle", "exec", "log", "commit_copy", "publish_copy", "publish", "done",
                "down", "restore", "restored"}
    /\ bpc \in {"wait", "run", "commit", "replay", "commit_replay"}
    /\ batch \in 0 .. MaxBatches /\ acknowledged \in 0 .. batch
    /\ stores \subseteq Lines /\ copies \in Seq(Lines) /\ logged \in 0 .. Len(copies)
    /\ writes \in [1 .. batch -> SUBSET Lines]
    /\ crashes \in 0 .. MaxCrashes
    /\ log \in Seq(LogEntries) /\ delivered \in LogEntries

(* What recovery finds is the memory after a prefix of the batches, and every
   batch that was acknowledged is in it: batches are atomic and durable. *)
RecoveredState ==
    fpc = "restored" => \E j \in acknowledged .. batch : mem = Effect(j)

(* The application's memory is what its own batches wrote: nothing that the
   back end does reaches it while it runs. *)
LiveMemory ==
    fpc \notin {"down", "restore", "restored"} => mem = Effect(batch)

(* While the back end has nothing left to do its image equals the memory of
   the batches acknowledged so far, as long as it is the only one that writes
   to the image: before the first recovery. *)
DrainedImage ==
    bpc = "run" /\ applied = Len(log) /\ fpc = "idle" /\ ~shared => image = Effect(acknowledged)

(* A crash is followed by a complete recovery, unless another one comes. *)
RecoveryCompletes == (fpc = "down") ~> (fpc = "restored")
=============================================================================
