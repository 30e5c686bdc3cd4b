# Mangosteen: TLA+ models, checks and proofs

Mangosteen makes an unmodified in-memory application durable. The application runs
in a *front-end* process under DynamoRIO; its updates are executed in batches by a
flat-combining executor, every store of a batch is recorded, and at the end of the
batch the changed memory is written to a redo log in persistent memory. A *back-end*
process, forked from the same checkpoint, applies the log to a memory image kept in
files. After a crash the checkpoint is started again, the back end replays what is
left of the log, and the front end maps the image over its own memory.

The models follow the C code under `src/`; `PROJECT.json` gives for every definition
the lines it stands for. File and line references below are relative to `src/`.

## 1. Inventory

| Component | State it keeps | Operations | Talks to |
|---|---|---|---|
| Writer-preference lock (`flat_combining/writer_preference_spin_lock.c`) | the atomic word `writers`, one `readers_set` slot per thread | readLock/readUnlock, lockWriter, activeReadersSetIsEmpty, writeUnlock | executor; the mmap hook takes `writers` itself |
| Flat-combining executor (`flat_combining/flat_combining.c`) | `taskArray[t].ready`, the combiner's list of collected requests, `global_thread_count` | exec_ro, exec_rw_flat_combining, allocation of a client's struct, registration | lock, instrument_start/stop, RPC loop |
| RPC event loop (`flat_combining.c`, `netutils/`) | per client: status, bytes read, response left; epoll registrations | accept, read, process_command, write, re-arm, close | kernel, clients, executor |
| Instrumentation client (`instrumentation/instrument_front_end.c`, `instrumenation_common.h`) | per thread: hash set of written lines, `memcpyArray`, `combiner` flag | instrument_start/stop, instrumented_memcpy, mmap hook | ring buffer (producer), lock |
| Redo entry collector (`instrumentation/redo_entry_collector.c`) | the open-addressing table of lines and its counter, or the bypass buffer | inserted code for each store | instrumentation client |
| Reference hash set (`hash_set/hash_set.c`) | table of lines that doubles, statistics | initialise, reset, add, resize | nothing: the C model the collector was written from |
| Ring buffer (`ring_buffer/ring_buffer.c`) | slots, `remote_head`/`remote_tail`, `last_persisted_head`/`_tail`, private copies on both sides | enqueue, commit, dequeue, acknowledge, create or recover | producer: front end; consumer: back end |
| Back end (`back-end/back_end.c`) | the memory image | run_consumer, process_entry, commit_rb_batch, remap_backend, replay | ring, region table, semaphore |
| Region table (`region_table/region_table.c`) | table of regions, two entry counters, memory files, file sequence number | open, add record, create file, commit | back end, front-end restore |
| Front end (`front-end/front_end.c`) | worker threads, restored mappings | registration, release, semaphore handshake, restore_memory | back end, executor |
| Launcher (`mangosteen_instrumentation.c`) | `new_process` decision | launch_mangosteen, fork | everything |
| Transient allocator (`transient_allocator/`) | one free list per power of two, in anonymous mappings | alloc, free | nothing: built by its own CMakeLists with its own test main (section 8) |
| Annotation stubs, examples | – | – | section 8 |

What is hard here, and what makes each part correct:

* **Lock.** The drain looks at the reader slots one at a time while readers publish
  themselves, retreat and return; the mmap hook owns the word without draining.
  Correct: one owner of the word, no reader beside a drained writer, no writer
  starved by readers, no release forgotten.
* **Executor.** A request may be collected, executed and marked DONE by any thread
  while its owner polls it and tries to become the combiner. Correct: each submitted
  update executed once, durable before it is reported, and no reader sees an update
  that a crash could undo.
* **Ring.** Five copies of head and tail, two of which both processes write; a full
  ring; power failure between a store and its fence, also after a recovery that relied
  on the store. Correct: entries are applied in
  order, once, as written, only from committed groups, and none is recycled early.
* **Recovery.** Batches atomic and durable; recovery may crash itself; the first
  launch must be told apart from a recovery.
* **Start-up.** A named semaphore and files that outlive processes. Correct: no hang,
  no token left for the next launch, no mapping before replay, every committed
  region comes back from its own file.
* **Collector.** Machine code put together instruction by instruction: a loop over the
  lines of a store inside a loop over the slots, with jumps that are inserted in front
  of earlier ones. Aligned addresses hash to every PAYLOAD_SIZE-th slot only, so
  collisions are the rule. Correct: every byte a section writes is in the log when
  instrument_stop returns, nothing of one section shows up in the next, and the code
  always comes back to the application.
* **Event loop.** Edge-triggered, one-shot events; a client that sends or leaves before
  it is accepted. Correct: no lost wake-up, no use of a freed client, each request
  executed once and answered whole.

The hazards, each with its line and the properties that watch it, are listed in
`PROJECT.json`.

## 2. Modules

```
WriterPreferenceLock                            FlatCombining  implements DurableExecutor
        ^                                       RingBuffer     implements CommittedLog
FlatCombining <------ FlatCombiningProofs       Persistence    uses       CommittedLog
RingBuffer <--------- RingBufferProofs          RedoCollector  implements WriteSet
Persistence <-------- PersistenceProofs
RegionTable <- Startup <- StartupProofs
RedoCollector <------ CollectorProofs <------------+
RedoCollector, HashSet <- CollectorReference <- ReferenceProofs
EventLoop <---------- EventLoopProofs
```

`WriterPreferenceLock` — one action per access to a shared word. `rpc`, `wpc` and
`mpc` say where a thread is in the reader side, the writer side and the mmap hook.
`MmapContexts` says where the application calls mmap with `combiner = 0`: outside all
locks ("app"), in a read-only callback ("ro"), in the struct allocation ("alloc").

`FlatCombining` — EXTENDS the lock; an action that touches it is a conjunction with
the lock's action. `fpc` is the place in exec_ro / exec_rw_flat_combining /
process_command, `batch` is `ready_commands_indexes`, `cursor` the loop index.
`execs` and `durable` count what happened to the update a thread submitted last.
instrument_stop is one durable step here; its inside is `RingBuffer` and
`Persistence`. `UninitReady` is what the uninitialised `taskArray` may hold.

`DurableExecutor` — the promise: submitted, applied once, durable, returned; reads
only while nothing applied is volatile.

`RingBuffer` — the producer's session (read the words, wait, enqueue, commit entry,
publish tail, announce tail, write the words back) and the consumer's loop (poll,
dequeue, process, acknowledge, fence), each shared access a step; process crash and
power failure, and the recovery branch of ring_buffer_create_and_initialise. The
history variables `log`, `published`, `announced`, `consumed`, `acked` and
`fencedAck` are positions in the endless log of which the ring is a window.
`fencedBuffer`, `fencedHead` and `fencedTail` are what a fence has made durable. A power
failure keeps or loses every other store on its own; the tails it may leave are
`TailsLeft`. The recovery branch makes nothing durable, so a tail that a killed process
had stored and not fenced stays in the cache while recovery replays up to it:
`UnfencedTail` says whether a later power failure may take back that tail too.
`RoomFirst` restricts the workload to sessions that begin with room for all their
entries.

`CommittedLog` — the promise of the log, without a ring.

`Persistence` — memory as lines holding the number of the batch that wrote them
last; stores, memcpys, the groups instrument_stop makes of them, the back end's
image, crash, replay, restore. The log is `CommittedLog` itself, by INSTANCE.

`RegionTable`, `Startup` — the table's records, files and counters; launch, fork,
semaphore (value and name are separate), address-space copy, replay, restore. Kills and
reboots come in every state. The history variable `met` records three moments that the
code does not handle: a kill that leaves a token in the semaphore ("stale"), a first
launch that finds region records of an earlier one ("early"), a recovered back end that
makes a memory file ("grow"). Behaviours go on after them; a property that the code loses
at one of them says so in its statement, and holds up to it.

`RedoCollector` — the per_thread_t of one thread. `pc` is the label of the inserted code
("insert_stubs", "try_to_insert") or the loop of instrument_stop ("memcpys",
"collect"); `dest`, `range` and `rax` are its registers, with `rax` in bytes as in the
code. Addresses are bytes, so that unaligned stores, stores across lines and the
rounding of payloads are what they are in the code; the log is the set of bytes its
payloads cover. `written`, `logged` and `committed` belong to the current section.
`build` chooses between the table and, without USE_DEDUPLICATION_BUFFER, the bypass
buffer. The emitted `jmp` of `redo_entry_collector.c:527` and `:531` both land in
front of the `jge` at line 520, the first of them first, so the loop goes back to its
head unconditionally and the test there ends it; `NextLine` says that.

`WriteSet` — the promise to the executor: a section opens, writes, and closes with
everything it wrote durable, and nothing durable that is further than a payload from
what it wrote.

`HashSet`, `CollectorReference` — hash_set.c, with the insertion of a line as a function
of the hash set's record and the two loops (over the blocks of a store, over the slots of
a table that is replaced by a larger one) as steps; and the composition in which each
store that reaches the table also goes to the reference. `hpc` is the place in
address_hash_set_add_redo_log_stub, `alignedAddress` and `stubEnd` its variables,
`original` and `copied` the old table and the loop index of address_hash_set_resize. The
two sides share nothing, so the reference runs first.

`EventLoop` — one worker (workers share no listening socket and no epoll instance),
its clients, the sockets and epoll. Clients, network and epoll are external and
modelled by the interface the code uses. A client is connected when the kernel has put it
in the backlog, and sends or leaves from then on; `Accept` is the EPOLL_CTL_ADD of its
connection, which reports what has already arrived. A request is complete when the last
two bytes read are the marker: the last two of the request, or, with `InnerMarkers`, the
last two of any piece.

The `MC*` modules only extend a specification; the `.cfg` files give the constants.
Definitions called `Faulty...` are deliberate errors (a dropped guard, a lost reset,
a swapped order) kept beside the definition they alter, with which each property was
seen to fail.

## 3. Runs

| Run | Bounds | Shows |
|---|---|---|
| `fc_exec` | 3 threads, both modes, every mmap context, uninitialised `ready` STARTED or NONE | lock invariant, each update collected and executed once, durable before return and before any reader; refinement of DurableExecutor |
| `fc_live` | 3 threads, RPC mode, mmap outside locks | WriterDrains, WordComesFree, UpdatesComplete |
| `ring` | 6 slots, up to 2 groups a session with 1 entry and its COMMIT each, 9 entries, 2 crashes, power loss, RoomFirst | no slot recycled early, refinement of CommittedLog, committed entries are consumed |
| `ring_overrun` | 3 slots, no crash | *violation*: UnackedIntact on a full ring |
| `ring_stale` | 3 slots, no crash, RoomFirst | *violation*: SessionCompletes |
| `ring_unfenced` | 6 slots, 1 entry and its COMMIT a session, 4 entries, 2 crashes, power loss, RoomFirst, UnfencedTail | *violation*: AppliesTheLog |
| `persist_recovery` | 2 lines, 2 batches, 2 crashes | recovery finds a prefix of the batches with all acknowledged ones; before the first recovery, a drained back end's image is the acknowledged memory |
| `persist_torn` | as above, crash while a batch with memcpys is logged | *violation*: RecoveredState |
| `persist_shared` | 3 batches, 1 crash | *violation*: LiveMemory |
| `startup` | 2 initial regions, 7 table entries, 4 groups, 3 kills or reboots in any state | handshake, regions, completion, each up to the moments it names |
| `redo_collector` | 4 slots, lines of 2 bytes, 5 stores over 5 lines and 2 memcpys, 2 calls a section, any number of sections, both builds; reference of 2 slots growing at one half | table sound and empty between sections, agreement with the reference set, reference sound through growth, arrays never overrun; refinement of WriteSet; the inserted code returns |
| `event_loop` | 2 clients, in the backlog or accepted, requests of 3 bytes in any pieces, responses of 2 over a send buffer of 1, 2 requests each | wake-ups, ownership of clients, one response per request, service, closing |

Why the bounds are enough to meet the interesting cases. Three threads are a combiner,
an owner whose request is collected by it, and a reader or mmap hook in between; the
drain then passes a slot that becomes active again. Nine entries in six slots wrap the
ring with a session of two groups across the seam, and two crashes allow one during
the recovery from the other. Two lines distinguish a torn batch from a whole one, and
two batches a newer value from an older one. Three kills or reboots allow a crash in
the recovery of a recovery, and they come between any two steps: between a record, its
file and its commit, before the first commit, between a post and its wait, with regions
in the log. Seven table entries hold every region a run can map, and the initial ones
twice or three times after abandoned first launches. A three-byte request can be cut in front of, inside and
behind its two-byte end marker; a response of two bytes over a buffer of one blocks
and continues; a second request meets what the first one left in the buffers. Four
slots of which only two are home slots, and stores of one, two and three lines, make
probes collide, wrap around at the table's end and meet a full table; five lines are
one more than the slots, so sections have to leave the table empty for the next one.
The reference starts with two slots and a threshold of one entry and grows twice, also
in the middle of a store. `MaxCollisions` only keeps the statistics of the reference finite.

`CHECK_DEADLOCK FALSE` stands in the runs in which the system may really stop: the
workload bound is used up, or a mmap context is allowed that blocks its own thread
(`fc_exec`). `fc_live` and the ring runs keep deadlock checking on.

### Assumed circumstances

The passing runs leave out situations in which the code fails, and say so by a
constant that lets them in again:

| Constant | Value | Then fails |
|---|---|---|
| `MmapContexts` | "ro" | WriterDrains: the hook waits for a writer that waits for the reader it is nested in |
| | "alloc" | deadlock: the hook waits for the word its own thread holds |
| `UninitReady` | READY_TO_EXECUTE | OnlySubmittedExecuted |
| `RoomFirst` | FALSE | UnackedIntact (run `ring_overrun`) |
| `UnfencedTail` | TRUE | AppliesTheLog (run `ring_unfenced`), and with it ImplementsCommittedLog |
| `Circumstances` (Persistence) | "torn" | RecoveredState (run `persist_torn`) |
| | "early" | RecoveredState: a crash before the first region commit looks like a first launch |
| | "rerun" | RecoveredState, through the shared pages of `persist_shared` |
| `RING_BUFFER_SIZE`, `MaxGroup` | a group that, with its COMMIT entry, takes every slot (and `RoomFirst = FALSE`) | SessionCompletes, in the first session |
| `Unset` | 1 | TableSound and BuffersFit: the first section reads words that event_thread_init does not set |
| `Overfull` | TRUE | InstrumentationReturns: a probe for one line more than the table has slots never ends |
| `AcceptErrors` | TRUE | ClientsServed: the rest of the backlog waits for the next connection |
| `InnerMarkers` | TRUE, and requests of 4 bytes | OneResponsePerRequest: a piece that ends with a marker is executed as a request of its own |

`Startup` has no such constant: its run contains the moments that the code does not
handle, and the properties carry the condition themselves. Without it TLC finds

| Condition dropped | Then fails |
|---|---|
| no "stale" | RestoreAfterReplay, NoTokenLeft: the token of a killed launch wakes the front end of the next one before the replay; RestoredComplete |
| no "early" | RegionsBacked: the regions of an abandoned first launch are recorded a second time, behind the first ones |
| no "grow" | RegionsBacked, RestoredComplete: file numbers restart at 0, table indexes do not; StartupCompletes: the next launch finds a file missing and aborts |

Safety of the lock and of the executor needs none of these restrictions: `fc_exec`
allows every mmap context.

## 4. What the code does that its documentation does not say

The violation runs each state a promise that the repository's comments make and that
the code does not keep in some interleaving:

1. `ring_overrun` — `ring_buffer.c:209`. The enqueue functions wait on `remote_head`,
   the commit function waits on `last_persisted_head`, which is older. On a full
   ring the producer's head goes backwards and the producer laps the consumer.
2. `ring_stale` — `instrumenation_common.h:213`. At the end of a session the
   producer stores its own head over the consumer's. If the consumer has nothing
   left to acknowledge, a later commit waits for ever on an empty ring.
3. `ring_unfenced` — `ring_buffer.c:113`. Recovery starts from `remote_tail` and does not
   flush it. A process is killed between the store of the tail (line 219) and its fence
   (line 221); recovery replays up to the tail and acknowledges, which makes the head
   durable; power is lost and the tail falls back behind the head. The next replay goes
   around the ring and applies old slots.
4. `persist_torn` — `instrument_front_end.c:324`. One commit per memcpy: a batch is
   not atomic.
5. `persist_shared` — `front_end.c:89`. After a recovery the front end runs on the
   pages the back end writes, and an older redo entry overwrites a newer value.

More are in the tables above and need no run of their own, because `persist_recovery`
and `startup` show them as soon as the circumstance is let in or the condition dropped:
with "early" (`mangosteen_instrumentation.c:49`) a crash before the back end's first
commit loses acknowledged batches; with "stale" (`front_end.c:111`) a front end maps the
memory files before the replay; with "grow" (`region_table.c:93`) a recovered application that
maps a region, or a replay of an MMAP entry, overwrites `mem_file_0` and leaves a table
entry without its file.

Two questions the source leaves open are answered by `redo_collector`. The TODO at
`instrumenation_common.h:182` calls zeroing the table in the executor redundant:
TableSound holds whether or not a thread calls reset_hash_set, so it is. And
REAL_HASH_SET_SIZE is 16382 for 2048 slots, not 16384 (`instrumenation_common.h:35`):
offsets are multiples of 8, so any bound from 8 * Slots - 7 to 8 * Slots wraps at the
same slot, which is all that TableAssumption asks.

## 5. Fairness

* `FlatCombining`: weak fairness of each thread's steps inside a request. Threads are
  operating-system threads, callbacks return, spin loops have no other exit. Issuing
  a request is never forced. UpdatesComplete is conditional on the *other* users of
  the word (struct allocation, mmap hook) becoming quiet: the compare-and-swap is not
  fair, and under weak fairness they could win it for ever. Among updates no such
  condition is needed, because whoever wins executes everybody's requests.
* `RingBuffer`, `Persistence`, `Startup`: weak fairness of each process; beginning a
  session, launching and crashing are free.
* `RedoCollector`: weak fairness of the inserted code and of instrument_stop (the
  processor goes on executing the thread); what the application does is free.
* `EventLoop`: weak fairness of the worker and of delivery; clients may do nothing.

## 6. Proofs

Every safety property of the passing runs is proved for every value of the constants.
Each theorem is an invariant argument: the property is seldom inductive, the module defines the
strengthening that is, TLC checked the strengthening on a small instance first, and one
lemma per action (or group of actions) keeps it.

| Module | Theorem | Statement |
|---|---|---|
| `FlatCombiningProofs` | LockTypeCorrect, LockInvariant, LockIsExclusive | LockSpec => []LockTypeOK, []LockInv, []MutualExclusion |
| | ExecutorUsesLock | Spec of FlatCombining => LockSpec |
| | ExecutorLockInvariant, ExecutorIsExclusive | the same invariants of the executor |
| | SectionInvariant, ReadersSeeOnlyDurable | Spec => []SectionInv, []ReadersSeeDurable |
| (*fresh*) | ExecutorInvariant, ExecutorTypeCorrect | Spec => []ExecutorInv, []FCTypeOK |
| | RequestsCollectedOnce, ReturnsOnlyDurable, ExecutesOnlySubmitted | Spec => []CollectedOnce, ReturnedIsDurable, OnlySubmittedExecuted |
| | ExecutorImplementsDurableExecutor | Spec => ImplementsDurableExecutor |
| `RingBufferProofs` | RingTypeCorrect | Spec => []TypeOK |
| (*fenced*) | WordsInvariant | Spec => [] of the words' invariant |
| (*fenced*, *room*) | WindowInvariant, SlotsAreNotReused | Spec => [] of the window's invariant, []UnackedIntact |
| (*fenced*, *room*) | RingImplementsLog | Spec => ImplementsCommittedLog |
| `PersistenceProofs` | PersistenceTypeCorrect | Spec => []TypeOK |
| (*ordinary*) | RecoveryInvariant, RecoveredIsPrefix, DrainedImageIsExact | Spec => []RecoveryInv, []RecoveredState, []DrainedImage |
| `StartupProofs` | SemaphoreInvariant, RestoresAfterReplay, TokensAreTaken | Spec => [] of the semaphore's invariant, []RestoreAfterReplay, []NoTokenLeft |
| (*table*) | TableInvariant, CommittedRegionsBacked, RecoveryIsComplete, StartupTypeCorrect | Spec => [] of the table's invariant, []RegionsBacked, []RestoredComplete, []TypeOK |
| `CollectorProofs` (*zeroed*) | CollectorInvariant, CollectorTypeCorrect, BuffersAlwaysFit, TableIsSound | Spec => []CollectorInv, []CollectorTypeOK, []BuffersFit, []TableSound |
| | WriteInvariant, CollectorImplementsWriteSet | Spec => []WriteInv, ImplementsWriteSet |
| `ReferenceProofs` (*zeroed*) | ReferenceInvariant | RefSpec => [](CollectorInv /\ RefInv) |
| | ReferenceIsSound, TableAgreesWithReference | RefSpec => []ReferenceSound, []AgreesWithReference |
| `EventLoopProofs` (*one marker*) | LoopInvariant, LoopTypeCorrect | Spec => []LoopInv, []TypeOK |
| | WakeupsAreNotLost, ReportsDoNotDangle, RequestsAnsweredOnce | Spec => []NoLostWakeup, []NoDanglingReport, []OneResponsePerRequest |

The words in italics are hypotheses of the theorems. Each is one of the circumstances
of section 3, without which the property fails:

| Hypothesis | In the theorems | Why |
|---|---|---|
| *fresh* | `READY_TO_EXECUTE \notin UninitReady` | allocateFlatCombiningdMemory leaves the slots of unregistered threads as they are |
| *fenced* | `~UnfencedTail` | recovery starts from a tail that it does not make durable |
| *room* | `RoomFirst` | the producer's wait loops read stale head words |
| *ordinary* | `Circumstances = {}` of Persistence | crashes at the moments named "torn", "early" and "rerun" lose or mix batches |
| *table* | `InitialRegions <= INITIAL_TABLE_SIZE` | the address-space copy of the first launch records them all. Crashes come in every state; what the code does not handle is in the properties |
| *zeroed* | `Unset = {0}` | event_thread_init does not set every word it reads later; `Overfull` may have either value |
| *one marker* | `~InnerMarkers` | do_event looks for the marker at the end of what it has read so far |

The lock, the executor's use of it, the types of the ring and of Persistence, and the
semaphore of start-up need no hypothesis beyond the assumptions on the constants
(`ThreadsAssumption`, `ContextsAssumption` and their like), which say what the header
files say: there is a thread, a slot, a line, a buffer is longer than nothing. One more
deserves a word. `CoverageAssumption` says that PAYLOAD_SIZE divides
HASH_SET_ADDRESS_COVERAGE (32 and 64) and that nothing is stored to the block at address
0, whose address the reference could not tell from a free slot.

### The arguments

*Lock.* MutualExclusion alone is not inductive: the writer enters its section because of
what it saw at slots it has already passed. LockInv adds *WordIsOwned* (the word is 1
exactly when somebody owns it, so a successful compare-and-swap proves there is no other
owner), *PublishedReaders* (a slot says READING exactly between publishing and
unpublishing), *DrainedPrefix* (no reader is inside at a slot the scan has passed; a
reader that comes later is published but meets the word taken), and *OneSideAtATime*.

*Executor.* Its lock steps are conjunctions with the lock's own actions, so it refines
LockSpec by case analysis, and the lock theorems carry over. ReadersSeeDurable needs
*SectionInv*: an update is executed without being durable only while some thread is
combining, and by MutualExclusion no reader is inside then. What happens to requests
needs *ExecutorInv*: a thread's place in the executor fixes its side of the lock
(*PlaceInLock*), so there is one combiner (*OneCombiner*); its batch holds each slot once
(*BatchDistinct*), the prefix behind the cursor is done (*BatchProgress*), and each value
of `ready` says whether the request is waiting, held by the combiner or finished
(*MarkMeaning*). The refinement of DurableExecutor maps `execs` and `durable` of a
thread's request to submitted, applied and durable; the combiner's instrument_stop is the
one abstract step that makes everything applied durable.

*Ring.* The history variables give every word a position in the endless log. *IndexInv*
says each word is its position modulo the size, *OrderInv* that the positions are ordered
acknowledged, applied, announced, published, logged; that much holds for every workload,
as long as no power failure takes back a tail that recovery has started from: then the
acknowledged position would be ahead of the announced one. That every index stays inside
the ring (*TailInv*) does not depend on it.
The head words the producer waits on are left out, because they may be stale. Under
RoomFirst, *RoomInv* bounds the log by the fenced acknowledgement plus the size with a
budget for the rest of the session, so two positions of the window that share a slot are
the same position; then the slots hold the logged entries, and UnackedIntact and the
refinement of CommittedLog follow.

*Recovery.* RecoveredState speaks of one moment; the invariant has to say in every phase
what the three copies hold. *LogSound*: a redo entry holds what its batch wrote, and
batches are logged in order. *Between*, *Executing*, *Logging*: which batches the log holds
completely, and what the memory holds, when the front end is at rest, in a batch or
writing it to the log. *ImageInv*: the image holds for each line the last entry of *some*
position from the applied to the committed one — a replay repeats entries it had already
applied, so the image may be ahead of the position, never behind it. At the end of
the replay both ends of that interval are the same. *Recovery* says the same of a crash
during recovery. Nothing is claimed of a recovered application that executes again
(*Rerun*), see below.

*Start-up.* *SemInv*: the semaphore holds one token exactly while the launch's message is
under way, which makes a taken token evidence of the sender's place; it is kept until a
kill leaves a token. For the table, crashes in every state mean that the counters after a
crash may be ahead of what the back end has acknowledged, or behind what it has recorded.
*TableInv* therefore speaks of a number *b* of acknowledged regions that no variable
holds: the regions above *b* are those still in the log, in order (*LogFrom*); each
counter is *b*, or one more for the group in progress (*CountInv*); what differs after a
crash does so only when the first group of the log maps a region (*Lag*), and then the
recovery's first step that could matter is the one that makes a file, which is "grow";
entry *k* of the table and file *k* belong to region *k* + 1 (*FilesInv*). It is kept until
"early" or "grow"; *DataInv*, the part with types, always. RestoredComplete follows from
both invariants with *QuietInv*: the front end is woken on an empty log, and nothing is
logged before it has restored its memory.

*Collector.* *PathInv* is Searchable without slot arithmetic (*Before* orders slots
along a probe path cyclically); *ProbeInv* says the current probe has passed only slots
that hold other lines, so inserting at the first free slot keeps the line findable and
unique. For WriteSet, *CoverInv* says that what has been written is in the log, the table,
the memcpy array or the bypass buffer, and that of the current store everything below
`dest` is in the table; *ReachInv* that nothing is recorded further than a payload from a
written or pending byte.

*Reference.* *HashOK* says of a hash set that every line is in the slot where a probe for
it ends, and that the statistics are right. From it follows that no line is in the set
twice, so that by the pigeonhole principle a set with fewer entries than slots has a free
one, so that a probe ends; and the line that is put where it ends disturbs no other probe
(*InsertLine*). *SizeOK* and *RefRoom* keep the entries below the threshold: a table of
twice the size has a larger threshold, all lines of the old table together are fewer
than it, and what has been copied are the lines of the slots passed. *Agreement*
relates the two sides in the middle of a store: the blocks of the lines in the table
together with those still to insert are the blocks of the reference together with those
it has still to insert; both sets of work start equal because a block begins with a
line (*SameBlocks*). That a nonempty set of naturals has a least element, which says that
a probe that meets a good slot meets a first one, comes from the library's
well-foundedness of finite subsets (*LeastElement*), not from an induction.

*Event loop.* *PeerInv* and *BytesInv* follow a request's and a response's bytes over
client, socket and buffers; *WorkerInv* says who owns a client: a reported or current
client is disarmed, an armed one is live. With them NoLostWakeup, what an armed
registration still owes, is inductive; the other two properties follow from LoopInv.

### What the proof attempts showed

* DrainedImage, as it was first stated, held only because its run has two batches. With
  three, after a recovery with shared memory files, the back end applies an older entry to
  a line between the batch's store and its logging, and the stale content is logged as the
  newer batch's: the image then differs from the acknowledged memory for good. This is a
  further consequence of `persist_shared`; DrainedImage now speaks of the time before
  the first recovery.
* The collector's assumption has `size > 0` for stores: a store of no bytes would log the
  line in front of it, which nobody wrote. Every x86 store writes at least a byte.
* The event loop's types need MAX_REQUEST_SIZE > 0: the terminating zero is written at
  an index below it.

### Only model-checked

* Liveness: WriterDrains, WordComesFree, UpdatesComplete, CommittedIsConsumed,
  RecoveryCompletes, StartupCompletes, ClientsServed, GoneIsClosed and
  InstrumentationReturns. They rest on fairness and ENABLED, which the prover does not
  handle.
* The violation runs, which are counterexamples.

## 7. Plan

Done, in this order: the lock and the executor (the heart of the concurrency), the ring
buffer, end-to-end persistence, start-up with the region table, the event loop, the
proofs of the lock and of the executor's use of it; the collector with its promise
and its reference; then the proofs of section 6 for the
executor, the event loop, the ring, start-up, persistence and the collector, with the
refinements of DurableExecutor, CommittedLog and WriteSet, and those of the reference
set, whose loops became steps of its model for it; last, what a fence has made durable of
the ring's tail, crashes of start-up in every state, and clients that act in the backlog.

Next, models:

1. The metadata word, records and fences of the region table as separate durable
   words (`back_end.c:29`).
2. Memcpys of several payloads in `Persistence`, which takes its lines from the promise
   that `WriteSet` states.

Next, proofs:

1. The safety part of the liveness arguments: that a waiting thread, session or client
   always has somebody else's step to wait for, as invariants.
2. What still holds of a recovered application that executes again ("rerun") as long as no
   redo entry of an earlier batch is left.

## 8. Not modelled, and why

* Code emission and event registration of the DynamoRIO client, and the CRIU
  checkpoint: tool plumbing; their effect is what the models start from.
* The collector's overflow branch: compiled only under DISABLE_OVERFLOW_BUFFER, which the
  client's build does not define (so `overflowBuffer.size` stays 0). Stores relative to
  the stack pointer, which event_bb_insert skips, and addresses up to 1000, which
  instrument_stop skips, are no stores of the model.
* The transient allocator: it is built by its own CMakeLists with a test main of its own,
  and nothing of Mangosteen links it. A block given out begins at byte 12 of a node whose
  `usable_space` lies at bytes 16 to 23 (`transient_allocator.c:90`, `:102`), so a caller
  that fills its block destroys what free and the next alloc of it rely on; there is no
  contract to check beside that.
* `address_hash_set_destroy` and the print functions of hash_set.c.
* A fifth registered thread (`front_end.c:28` does not compare global_thread_count with
  NUMBER_OF_THREADS).
* `dr_annotations.c`: empty symbols replaced at run time.
* Failures of the kernel's resources (malloc, epoll_ctl, mmap) except a missing memory
  file and an accept error; signals raised by send.
* File layout: every word of the ring's struct is taken to be inside its file, although
  the file is made 32 bytes longer than the slots only, and remote_tail and
  commit_metadata lie behind its end (`ring_buffer.c:24`): they outlive a reboot only if
  the file system keeps such bytes; creation of files is
  durable.
* munmap, which the hook ignores too.
* Code that is not compiled (`USE_PER_BATCH_MEMORY_MMAPING_SYNCRONIZATION`) and
  functions that nothing calls (`ring_buffer_open`, `region_table_restore_consumer`,
  `region_table_restore_application`).
* The examples: their comments are taken as statements of the library's contract.
