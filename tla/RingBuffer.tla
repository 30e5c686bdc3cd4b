----------------------------- MODULE RingBuffer -----------------------------
(***************************************************************************)
(* The persistent redo log (ring_buffer/ring_buffer.c): a ring of entries  *)
(* in persistent memory with one producer, the front-end thread that holds *)
(* the writer lock (instrument_stop, event_post_syscall), and one          *)
(* consumer, the back-end process (back-end/back_end.c).                   *)
(*                                                                         *)
(* A log session of the producer reads the shared head and tail (the       *)
(* last_persisted words), enqueues groups of entries, ends each with a     *)
(* COMMIT entry and writes its own head and tail back.  The consumer polls *)
(* the shared words, dequeues and applies entries, and advances            *)
(* remote_head at each COMMIT.  One action is one access to a shared word  *)
(* or slot.  A crash may hit between any two of them.                      *)
(***************************************************************************)
EXTENDS Integers, Sequences

CONSTANTS
    RING_BUFFER_SIZE,  \* slots of the ring
    Payloads,          \* what an enqueued entry carries besides its type
    LoggedTypes,       \* the entry types the workload logs
    MaxGroup,          \* bound: entries of a group, the COMMIT not counted
    MaxGroups,         \* bound: groups of a session (1 + number of memcpys)
    MaxEntries,        \* bound: entries ever logged
    MaxCrashes,        \* bound: crashes
    PowerLoss,         \* TRUE: a crash also loses stores that no fence covers
    RoomFirst,         \* TRUE: the workload begins a session only while the ring
                       \* has room for all of it (the back end keeps up)
    UnfencedTail       \* TRUE: a power loss may also take back a tail that a killed
                       \* process had stored and that recovery has started from

ASSUME SizeAssumption == RING_BUFFER_SIZE \in Nat \ {0, 1}
ASSUME BoundsAssumption ==
    /\ MaxGroup \in Nat /\ MaxGroups \in Nat \ {0}
    /\ MaxEntries \in Nat /\ MaxCrashes \in Nat
    /\ PowerLoss \in BOOLEAN /\ RoomFirst \in BOOLEAN /\ UnfencedTail \in BOOLEAN
    /\ Payloads # {} /\ LoggedTypes # {}

Slots == 0 .. RING_BUFFER_SIZE - 1

(* Entry types (ring_buffer.h). *)
REDO_ENTRY == 0
MMAP_ENTRY == 1
COMMIT_ENTRY == 2
TRANSIENT_MMAP_ENTRY == 3

EntryTypes == {REDO_ENTRY, MMAP_ENTRY, COMMIT_ENTRY, TRANSIENT_MMAP_ENTRY}
ASSUME TypesAssumption == LoggedTypes \subseteq EntryTypes \ {COMMIT_ENTRY}

Entry == [entry_type : EntryTypes, payload : Payloads]

VARIABLES
    buffer,               \* the slots of the ring
    last_persisted_head,  \* the head and tail words both sides poll
    last_persisted_tail,
    remote_head,          \* the head and tail words recovery starts from
    remote_tail,
    ppc,                  \* where the producer is in its session
    thread_local_head,    \* the producer's copies of head and tail
    thread_local_tail,
    filled, groups,       \* entries in this group, groups in this session
    cpc,                  \* where the consumer is
    tmp,                  \* run_consumer: the head value read last
    global_local_head,    \* the consumer's copies of head and tail
    global_local_tail,
    current,              \* the entry the consumer looked at last
    crashes,
    fencedBuffer,         \* values that the last fence made durable
    fencedHead,
    fencedTail,
    \* History: positions in the infinite log that the ring holds a window of.
    log,                  \* every entry enqueued and not lost in a crash
    published,            \* position of remote_tail
    announced,            \* position of last_persisted_tail
    consumed,             \* entries applied
    acked,                \* position of remote_head
    fencedAck,            \* position of fencedHead
    fencedPublished       \* position of fencedTail

shared == <<buffer, last_persisted_head, last_persisted_tail, remote_head, remote_tail>>
producer == <<ppc, thread_local_head, thread_local_tail, filled, groups>>
consumer == <<cpc, tmp, global_local_head, global_local_tail, current>>
durability == <<fencedBuffer, fencedHead, fencedTail>>
history == <<log, published, announced, consumed, acked, fencedAck, fencedPublished>>
vars == <<shared, producer, consumer, crashes, durability, history>>

(* ring_buffer_create_and_initialise on a new file. *)
Init ==
    /\ \E e \in Entry : /\ e.entry_type = REDO_ENTRY
                        /\ buffer = [i \in Slots |-> e]
                        /\ current = e
    /\ last_persisted_head = 0 /\ last_persisted_tail = 0
    /\ remote_head = 0 /\ remote_tail = 0
    /\ ppc = "idle" /\ thread_local_head = 0 /\ thread_local_tail = 0
    /\ filled = 0 /\ groups = 0
    /\ cpc = "poll" /\ tmp = 0
    /\ global_local_head = 0 /\ global_local_tail = 0
    /\ crashes = 0
    /\ fencedBuffer = buffer /\ fencedHead = 0 /\ fencedTail = 0
    /\ log = <<>> /\ published = 0 /\ announced = 0
    /\ consumed = 0 /\ acked = 0 /\ fencedAck = 0 /\ fencedPublished = 0

(* Faulty variant: wraps one index too late. *)
FaultyWrap(i) == IF i = RING_BUFFER_SIZE THEN 0 ELSE i + 1

(* The index after i: nextTail in the producer, global_local_head + 1 in the
   consumer, wrapped by comparison and never by a remainder. *)
Following(i) == IF i + 1 = RING_BUFFER_SIZE THEN 0 ELSE i + 1
Preceding(i) == IF i = 0 THEN RING_BUFFER_SIZE - 1 ELSE i - 1

-----------------------------------------------------------------------------
SessionSize == MaxGroups * (MaxGroup + 1)

(* instrument_stop and event_post_syscall begin by reading the shared words. *)
BeginSession ==
    /\ ppc = "idle"
    /\ Len(log) + SessionSize <= MaxEntries
    /\ RoomFirst => Len(log) + SessionSize < fencedAck + RING_BUFFER_SIZE
    /\ thread_local_head' = last_persisted_head
    /\ thread_local_tail' = last_persisted_tail
    /\ ppc' \in {"enqueue", "commit"}
    /\ ppc' = "enqueue" => MaxGroup > 0
    /\ filled' = 0 /\ groups' = 0
    /\ UNCHANGED <<shared, consumer, crashes, durability, history>>

(* The wait loop of both enqueue functions, for the case that the ring looks
   full: it reads remote_head, which the consumer stores before its fence. *)
EnqueueWait ==
    /\ ppc = "enqueue"
    /\ Following(thread_local_tail) = thread_local_head
    /\ thread_local_head' = remote_head
    /\ UNCHANGED <<shared, ppc, thread_local_tail, filled, groups, consumer,
                   crashes, durability, history>>

(* ring_buffer_enqueue_redo_log_entry, ring_buffer_enqueue_mmap_entry. *)
Enqueue(type, p) ==
    /\ ppc = "enqueue"
    /\ Following(thread_local_tail) # thread_local_head
    /\ LET e == [entry_type |-> type, payload |-> p]
       IN /\ buffer' = [buffer EXCEPT ![thread_local_tail] = e]
          /\ log' = Append(log, e)
    /\ thread_local_tail' = Following(thread_local_tail)
    /\ filled' = filled + 1
    /\ ppc' \in {"enqueue", "commit"}
    /\ ppc' = "enqueue" => filled + 1 < MaxGroup
    /\ UNCHANGED <<last_persisted_head, last_persisted_tail, remote_head, remote_tail,
                   thread_local_head, groups, consumer, crashes, durability,
                   published, announced, consumed, acked, fencedAck, fencedPublished>>

(* The wait loop of ring_buffer_commit_enqueued_entries reads the other head
   word, the one the producer itself overwrites at the end of a session. *)
CommitWait ==
    /\ ppc = "commit"
    /\ Following(thread_local_tail) = thread_local_head
    /\ thread_local_head' = last_persisted_head
    /\ UNCHANGED <<shared, ppc, thread_local_tail, filled, groups, consumer,
                   crashes, durability, history>>

(* Faulty variant: no pmem_drain before the tail is published. *)
FaultyNoDrain ==
    /\ ppc = "commit"
    /\ Following(thread_local_tail) # thread_local_head
    /\ buffer' = [buffer EXCEPT ![thread_local_tail].entry_type = COMMIT_ENTRY]
    /\ log' = Append(log, buffer'[thread_local_tail])
    /\ thread_local_tail' = Following(thread_local_tail)
    /\ ppc' = "publish"
    /\ UNCHANGED <<last_persisted_head, last_persisted_tail, remote_head, remote_tail,
                   thread_local_head, filled, groups, consumer, crashes, durability,
                   published, announced, consumed, acked, fencedAck, fencedPublished>>

(* The COMMIT entry reuses what the slot held; pmem_drain then makes every
   flushed entry durable. *)
CommitEntry ==
    /\ ppc = "commit"
    /\ Following(thread_local_tail) # thread_local_head
    /\ buffer' = [buffer EXCEPT ![thread_local_tail].entry_type = COMMIT_ENTRY]
    /\ log' = Append(log, buffer'[thread_local_tail])
    /\ thread_local_tail' = Following(thread_local_tail)
    /\ fencedBuffer' = buffer'
    /\ ppc' = "publish"
    /\ UNCHANGED <<last_persisted_head, last_persisted_tail, remote_head, remote_tail,
                   thread_local_head, filled, groups, consumer, crashes, fencedHead,
                   fencedTail, published, announced, consumed, acked, fencedAck,
                   fencedPublished>>

PublishTail ==
    /\ ppc = "publish"
    /\ remote_tail' = thread_local_tail
    /\ published' = Len(log)
    /\ ppc' = "announce"
    /\ UNCHANGED <<buffer, last_persisted_head, last_persisted_tail, remote_head,
                   thread_local_head, thread_local_tail, filled, groups, consumer,
                   crashes, durability, log, announced, consumed, acked, fencedAck,
                   fencedPublished>>

(* pmem_flush and mfence: remote_tail is durable; then the word the consumer
   polls. *)
AnnounceTail ==
    /\ ppc = "announce"
    /\ last_persisted_tail' = remote_tail
    /\ announced' = published
    /\ fencedTail' = remote_tail
    /\ fencedPublished' = published
    /\ groups' = groups + 1
    /\ filled' = 0
    /\ \/ ppc' = "end"
       \/ /\ groups + 1 < MaxGroups
          /\ ppc' \in {"enqueue", "commit"}
          /\ ppc' = "enqueue" => MaxGroup > 0
    /\ UNCHANGED <<buffer, last_persisted_head, remote_head, remote_tail,
                   thread_local_head, thread_local_tail, consumer, crashes, fencedBuffer,
                   fencedHead, log, published, consumed, acked, fencedAck>>

(* set_global_head_value and set_global_tail_value write the producer's copies
   into the shared words, whatever the consumer has stored there meanwhile. *)
EndSession ==
    /\ ppc = "end"
    /\ last_persisted_head' = thread_local_head
    /\ last_persisted_tail' = thread_local_tail
    /\ ppc' = "idle"
    /\ UNCHANGED <<buffer, remote_head, remote_tail, thread_local_head,
                   thread_local_tail, filled, groups, consumer, crashes, durability,
                   history>>

-----------------------------------------------------------------------------
(* run_consumer: read the head, then compare the tail with it. *)
PollHead ==
    /\ cpc = "poll"
    /\ tmp' = last_persisted_head
    /\ cpc' = "test"
    /\ UNCHANGED <<shared, producer, global_local_head, global_local_tail, current,
                   crashes, durability, history>>

TestTail ==
    /\ cpc = "test"
    /\ cpc' = IF last_persisted_tail = tmp THEN "poll" ELSE "dequeue"
    /\ UNCHANGED <<shared, producer, tmp, global_local_head, global_local_tail, current,
                   crashes, durability, history>>

(* Faulty variant: the consumer never reloads the tail. *)
FaultyNoReload ==
    /\ cpc = "dequeue"
    /\ global_local_head = global_local_tail
    /\ UNCHANGED vars

(* ring_buffer_dequeue: wait for the tail, then take the slot at the head. *)
DequeueWait ==
    /\ cpc = "dequeue"
    /\ global_local_head = global_local_tail
    /\ global_local_tail' = last_persisted_tail
    /\ UNCHANGED <<shared, producer, cpc, tmp, global_local_head, current, crashes,
                   durability, history>>

Dequeue ==
    /\ cpc = "dequeue"
    /\ global_local_head # global_local_tail
    /\ global_local_head' = Following(global_local_head)
    /\ cpc' = "process"
    /\ UNCHANGED <<shared, producer, tmp, global_local_tail, current, crashes,
                   durability, history>>

(* process_entry returns to its caller: the replay loop before the front end
   is up, run_consumer afterwards. *)
Caller == IF ppc = "down" THEN "replay" ELSE "poll"

(* process_entry follows the pointer into the ring: the slot is read now. *)
ProcessEntry ==
    /\ cpc = "process"
    /\ current' = buffer[Preceding(global_local_head)]
    /\ consumed' = consumed + 1
    /\ cpc' = IF current'.entry_type = COMMIT_ENTRY THEN "ack" ELSE Caller
    /\ UNCHANGED <<shared, producer, tmp, global_local_head, global_local_tail, crashes,
                   durability, log, published, announced, acked, fencedAck, fencedPublished>>

(* ring_buffer_commit_dequeued_entries: the store, later its fence and the
   word the producer polls. *)
AckHead ==
    /\ cpc = "ack"
    /\ remote_head' = global_local_head
    /\ acked' = consumed
    /\ cpc' = "fence"
    /\ UNCHANGED <<buffer, last_persisted_head, last_persisted_tail, remote_tail, producer,
                   tmp, global_local_head, global_local_tail, current, crashes, durability,
                   log, published, announced, consumed, fencedAck, fencedPublished>>

FenceHead ==
    /\ cpc = "fence"
    /\ fencedHead' = remote_head
    /\ fencedAck' = acked
    /\ last_persisted_head' = remote_head
    /\ cpc' = Caller
    /\ UNCHANGED <<buffer, last_persisted_tail, remote_head, remote_tail, producer,
                   tmp, global_local_head, global_local_tail, current, crashes, fencedBuffer,
                   fencedTail, log, published, announced, consumed, acked, fencedPublished>>

(* The replay loop of start_back_end; when the log is empty it wakes up the
   front end (sem_post), whose threads then may log again. *)
Replay ==
    /\ cpc = "replay"
    /\ \/ /\ remote_head # remote_tail
          /\ cpc' = "dequeue"
          /\ UNCHANGED ppc
       \/ /\ remote_head = remote_tail
          /\ cpc' = "poll"
          /\ ppc' = "idle"
    /\ UNCHANGED <<shared, thread_local_head, thread_local_tail, filled, groups, tmp,
                   global_local_head, global_local_tail, current, crashes, durability,
                   history>>

-----------------------------------------------------------------------------
(* Faulty variant: recovery sets both polled words from remote_head. *)
FaultyRestart(head, tail, headPos, tailPos) ==
    /\ crashes < MaxCrashes
    /\ crashes' = crashes + 1
    /\ remote_head' = head /\ remote_tail' = tail
    /\ last_persisted_head' = head /\ last_persisted_tail' = head
    /\ global_local_head' = head /\ global_local_tail' = tail
    /\ ppc' = "down" /\ cpc' = "replay"
    /\ thread_local_head' = 0 /\ thread_local_tail' = 0
    /\ filled' = 0 /\ groups' = 0 /\ tmp' = 0
    /\ log' = SubSeq(log, 1, tailPos)
    /\ published' = tailPos /\ announced' = tailPos
    /\ consumed' = headPos /\ acked' = headPos
    /\ UNCHANGED current

(* Both processes stop and start again: the recovery branch of
   ring_buffer_create_and_initialise on what the file holds. *)
Restart(head, tail, headPos, tailPos) ==
    /\ crashes < MaxCrashes
    /\ crashes' = crashes + 1
    /\ remote_head' = head /\ remote_tail' = tail
    /\ last_persisted_head' = head /\ last_persisted_tail' = tail
    /\ global_local_head' = head /\ global_local_tail' = tail
    /\ ppc' = "down" /\ cpc' = "replay"
    /\ thread_local_head' = 0 /\ thread_local_tail' = 0
    /\ filled' = 0 /\ groups' = 0 /\ tmp' = 0
    /\ log' = SubSeq(log, 1, tailPos)
    /\ published' = tailPos /\ announced' = tailPos
    /\ consumed' = headPos /\ acked' = headPos
    /\ UNCHANGED current

(* The processes are killed: every store to the mapped file survives, fenced
   or not, and recovery fences none of them. *)
ProcessCrash ==
    /\ Restart(remote_head, remote_tail, acked, published)
    /\ UNCHANGED <<buffer, durability, fencedAck, fencedPublished>>

(* The tails a power loss may leave, with their positions: the one stored last;
   the one before it, which a fence made durable when it was announced, if no
   recovery announced it; and then the last one that a fence did cover. *)
TailsLeft ==
    {<<remote_tail, published>>, <<last_persisted_tail, announced>>}
        \cup (IF UnfencedTail THEN {<<fencedTail, fencedPublished>>} ELSE {})

(* Power fails: a store that no fence covers is lost or not, word by word and
   slot by slot. *)
PowerFailure ==
    /\ PowerLoss
    /\ \E keepHead \in BOOLEAN, tail \in TailsLeft,
          kept \in SUBSET {i \in Slots : buffer[i] # fencedBuffer[i]} :
          /\ Restart(IF keepHead THEN remote_head ELSE fencedHead, tail[1],
                     IF keepHead THEN acked ELSE fencedAck, tail[2])
          /\ buffer' = [i \in Slots |-> IF i \in kept THEN buffer[i] ELSE fencedBuffer[i]]
    /\ fencedBuffer' = buffer'
    /\ fencedHead' = remote_head' /\ fencedTail' = remote_tail'
    /\ fencedAck' = acked' /\ fencedPublished' = published'

-----------------------------------------------------------------------------
EnqueueAny == \E type \in LoggedTypes, p \in Payloads : Enqueue(type, p)

ProducerStep ==
    \/ EnqueueWait \/ EnqueueAny \/ CommitWait \/ CommitEntry
    \/ PublishTail \/ AnnounceTail \/ EndSession

ConsumerStep ==
    \/ PollHead \/ TestTail \/ DequeueWait \/ Dequeue \/ ProcessEntry
    \/ AckHead \/ FenceHead \/ Replay

Next == BeginSession \/ ProducerStep \/ ConsumerStep \/ ProcessCrash \/ PowerFailure

(* The producer goes on with a session it has begun, and the back end runs. *)
Fairness == WF_vars(ProducerStep) /\ WF_vars(ConsumerStep)

Spec == Init /\ [][Next]_vars
FairSpec == Spec /\ Fairness

-----------------------------------------------------------------------------
(* Type correctness of the ring: every index stays inside it. *)
TypeOK ==
    /\ buffer \in [Slots -> Entry]
    /\ fencedBuffer \in [Slots -> Entry]
    /\ {last_persisted_head, last_persisted_tail, remote_head, remote_tail,
        thread_local_head, thread_local_tail, tmp, global_local_head,
        global_local_tail, fencedHead, fencedTail} \subseteq Slots
    /\ ppc \in {"idle", "enqueue", "commit", "publish", "announce", "end", "down"}
    /\ cpc \in {"poll", "test", "dequeue", "process", "ack", "fence", "replay"}
    /\ filled \in Nat /\ groups \in Nat /\ crashes \in Nat
    /\ current \in Entry
    /\ log \in Seq(Entry)
    /\ {published, announced, consumed, acked, fencedAck, fencedPublished} \subseteq Nat

(* The ring never reuses a slot it still needs: at any moment the slots from
   remote_head on hold the published entries that recovery would replay, as
   they were logged, and the slots behind them hold the group being written. *)
UnackedIntact ==
    \A k \in acked + 1 .. Len(log) : buffer[(k - 1) % RING_BUFFER_SIZE] = log[k]

(* The consumer applies the logged entries in order, none twice, none skipped,
   none overwritten, and only committed ones. *)
IsCommitEntry(e) == e.entry_type = COMMIT_ENTRY

Abstract == INSTANCE CommittedLog WITH
    Entries <- Entry, IsCommit <- IsCommitEntry,
    committed <- announced, applied <- consumed, acked <- fencedAck,
    delivered <- current

(* The ring implements CommittedLog: what was announced is applied entry by
   entry and survives process crashes and power failures, as long as a power
   failure takes back no tail that recovery has started from (UnfencedTail). *)
ImplementsCommittedLog == Abstract!Spec

(* What the back end applies is the log, entry by entry, also in a recovery
   that follows another one: "make them available on recovery". *)
AppliesTheLog ==
    [][consumed' = consumed + 1 => consumed < Len(log) /\ current' = log[consumed + 1]]_vars

(* The back end drains the log: what is announced is applied, through stale
   heads, wrap-arounds and restarts. *)
CommittedIsConsumed == (consumed < announced) ~> (consumed = announced)

(* A log session that has begun finishes: "commit persistent memory
   transaction" returns to the application. *)
SessionCompletes == (ppc \in {"enqueue", "commit"}) ~> (ppc \in {"end", "down"})
=============================================================================
