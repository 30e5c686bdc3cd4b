-------------------------- MODULE RingBufferProofs --------------------------
(***************************************************************************)
(* Machine-checked proofs about the redo log, for every size of the ring,  *)
(* every number and length of groups, every number of crashes, with and    *)
(* without the loss of unfenced stores.                                    *)
(*                                                                         *)
(* That no slot is reused too early is proved for workloads that keep the  *)
(* back end ahead (RoomFirst).  Without it the wait loops of the producer  *)
(* read head words that may be stale, and it does not hold.  Everything    *)
(* that relates the head to the tail needs that a power loss takes back no *)
(* tail that recovery has started from (~UnfencedTail).                    *)
(***************************************************************************)
EXTENDS RingBuffer, TLAPS

(* The slot of the log position after n entries. *)
Pos(n) == n % RING_BUFFER_SIZE

(* Entries the consumer has taken out of the ring: one more than it has applied
   between ring_buffer_dequeue and process_entry. *)
Taken == IF cpc = "process" THEN consumed + 1 ELSE consumed

IsCommitAt(n) == log[n].entry_type = COMMIT_ENTRY

InSession == ppc \in {"enqueue", "commit", "publish", "announce", "end"}

(* The positions are in order: nothing is acknowledged before it is applied,
   taken before it is announced, or announced before it is published. *)
OrderInv ==
    /\ fencedAck <= acked /\ acked <= consumed /\ Taken <= announced
    /\ announced <= published /\ published <= Len(log)

(* What the producer has published when it stands where it stands.  A tail that
   moves, moves to the end of a group.  Nothing is logged during a replay. *)
ProducerInv ==
    /\ ppc \in {"idle", "end", "down"} => announced = published /\ published = Len(log)
    /\ ppc \in {"enqueue", "commit", "publish"} => announced = published
    /\ ppc = "publish" => fencedBuffer = buffer
    /\ ppc = "announce" => published = Len(log)
    /\ ppc \in {"publish", "announce"} => announced < Len(log) /\ IsCommitAt(Len(log))
    /\ cpc = "replay" => ppc = "down"

(* The consumer acknowledges whole groups. *)
ConsumerInv ==
    /\ acked > 0 => IsCommitAt(acked)
    /\ fencedAck > 0 => IsCommitAt(fencedAck)
    /\ cpc \in {"ack", "fence"} => consumed > 0 /\ IsCommitAt(consumed)
    /\ cpc = "fence" => acked = consumed

(* Every head and tail word holds the slot of its position.  Left out are the
   head words the producer waits on: those may be stale. *)
IndexInv ==
    /\ remote_head = Pos(acked) /\ remote_tail = Pos(published)
    /\ last_persisted_tail = Pos(announced) /\ fencedHead = Pos(fencedAck)
    /\ global_local_head = Pos(Taken)
    /\ \E g \in Taken .. announced : global_local_tail = Pos(g)
    /\ InSession => thread_local_tail = Pos(Len(log))

(* Room for the rest of the session behind the entries that a power failure
   could still ask for: g groups of the session are complete. *)
Budget(g) == (MaxGroups - g) * (MaxGroup + 1)

RoomInv ==
    /\ Len(log) < fencedAck + RING_BUFFER_SIZE
    /\ ppc \in {"enqueue", "commit"} =>
           /\ groups < MaxGroups
           /\ filled <= MaxGroup /\ (ppc = "enqueue" => filled < MaxGroup)
           /\ Len(log) + Budget(groups) - filled < fencedAck + RING_BUFFER_SIZE
    /\ ppc \in {"publish", "announce"} =>
           /\ groups < MaxGroups
           /\ Len(log) + Budget(groups + 1) < fencedAck + RING_BUFFER_SIZE

(* The slots still hold what was logged, from the position a power failure goes
   back to, and durably so as far as the tail has been published. *)
IntactInv ==
    /\ \A k \in fencedAck + 1 .. Len(log) : buffer[Pos(k - 1)] = log[k]
    /\ \A k \in fencedAck + 1 .. published : fencedBuffer[Pos(k - 1)] = log[k]

(* The part that holds of every workload, and the part that needs room. *)
WordsInv == TypeOK /\ OrderInv /\ ProducerInv /\ IndexInv
WindowInv == ConsumerInv /\ RoomInv /\ IntactInv

-----------------------------------------------------------------------------
(***************************************************************************)
(* Slots and positions.                                                    *)
(***************************************************************************)

(* Every position has a slot of the ring. *)
LEMMA PosIsSlot ==
    ASSUME NEW n \in Nat
    PROVE  Pos(n) \in Slots /\ Pos(0) = 0
BY SizeAssumption DEF Pos, Slots

(* The remainder of a sum of a multiple of the ring's size and an offset. *)
LEMMA PosOfOffset ==
    ASSUME NEW q \in Int, NEW r \in Slots
    PROVE  Pos((RING_BUFFER_SIZE * q) + r) = r
BY SizeAssumption DEF Pos, Slots

(* Every position is a multiple of the ring's size and its slot. *)
LEMMA PosSplits ==
    ASSUME NEW n \in Nat
    PROVE  \E q \in Int : n = (RING_BUFFER_SIZE * q) + Pos(n)
<1>1. n = (RING_BUFFER_SIZE * (n \div RING_BUFFER_SIZE)) + (n % RING_BUFFER_SIZE)
  BY SizeAssumption
<1>2. n \div RING_BUFFER_SIZE \in Int
  BY SizeAssumption
<1> QED BY <1>1, <1>2 DEF Pos

(* Wrapping by comparison is the remainder: the index after a position's slot is
   the slot of the next position, and back. *)
LEMMA PosFollows ==
    ASSUME NEW n \in Nat
    PROVE  Following(Pos(n)) = Pos(n + 1) /\ Preceding(Pos(n + 1)) = Pos(n)
<1> DEFINE S == RING_BUFFER_SIZE
<1>1. PICK q \in Int : n = (S * q) + Pos(n)
  BY PosSplits
<1>2. Pos(n) \in Slots /\ S \in Nat \ {0, 1}
  BY PosIsSlot, SizeAssumption
<1>3. CASE Pos(n) + 1 = S
  <2>1. n + 1 = (S * (q + 1)) + 0
    <3>1. S * (q + 1) = (S * q) + S /\ S * q \in Int
      BY <1>2
    <3>2. Pos(n) = S - 1
      BY <1>2, <1>3 DEF Slots
    <3> QED BY <1>1, <1>2, <3>1, <3>2
  <2>2. 0 \in Slots /\ q + 1 \in Int
    BY <1>2 DEF Slots
  <2>3. Pos(n + 1) = 0
    BY <2>1, <2>2, PosOfOffset
  <2> QED BY <1>2, <1>3, <2>3 DEF Following, Preceding, Slots
<1>4. CASE Pos(n) + 1 # S
  <2>1. n + 1 = (S * q) + (Pos(n) + 1)
    BY <1>1, <1>2 DEF Slots
  <2>2. Pos(n) + 1 \in Slots
    BY <1>2, <1>4 DEF Slots
  <2>3. Pos(n + 1) = Pos(n) + 1
    BY <2>1, <2>2, PosOfOffset
  <2> QED BY <1>2, <1>4, <2>3 DEF Following, Preceding, Slots
<1> QED BY <1>3, <1>4

(* Positions less than a ring's size apart have different slots. *)
LEMMA PosDiffers ==
    ASSUME NEW m \in Nat, NEW n \in Nat, m < n, n < m + RING_BUFFER_SIZE
    PROVE  Pos(m) # Pos(n)
<1> DEFINE S == RING_BUFFER_SIZE
<1>1. PICK p \in Int : m = (S * p) + Pos(m)
  BY PosSplits
<1>2. PICK q \in Int : n = (S * q) + Pos(n)
  BY PosSplits
<1>3. Pos(m) \in Int /\ Pos(n) \in Int /\ S \in Nat \ {0, 1}
  BY PosIsSlot, SizeAssumption DEF Slots
<1> SUFFICES ASSUME Pos(m) = Pos(n) PROVE FALSE
  OBVIOUS
<1>4. n - m = S * (q - p)
  BY <1>1, <1>2, <1>3
<1>5. CASE q - p <= 0
  <2>1. S * (q - p) <= 0
    BY <1>3, <1>5
  <2> QED BY <1>4, <2>1
<1>6. CASE q - p >= 1
  <2>1. S * (q - p) >= S
    BY <1>3, <1>6
  <2> QED BY <1>3, <1>4, <2>1
<1> QED BY <1>5, <1>6

-----------------------------------------------------------------------------
(***************************************************************************)
(* The words and positions, for every workload.                            *)
(***************************************************************************)

(* Appending to the log: the producer's own tail follows it. *)
LEMMA AppendKeepsWords ==
    ASSUME WordsInv, NEW e \in Entry, ppc \in {"enqueue", "commit"},
           log' = Append(log, e), thread_local_tail' = Following(thread_local_tail),
           UNCHANGED <<published, announced, consumed, acked, fencedAck, cpc>>
    PROVE  /\ log' \in Seq(Entry) /\ Len(log') = Len(log) + 1 /\ log'[Len(log')] = e
           /\ OrderInv' /\ thread_local_tail' = Pos(Len(log'))
           /\ thread_local_tail' \in Slots
<1>1. log \in Seq(Entry) /\ Len(log) \in Nat
  BY DEF WordsInv, TypeOK
<1>2. log' \in Seq(Entry) /\ Len(log') = Len(log) + 1 /\ log'[Len(log')] = e
  BY <1>1
<1>3. OrderInv'
  BY <1>1, <1>2 DEF WordsInv, TypeOK, OrderInv, Taken
<1>4. thread_local_tail = Pos(Len(log))
  BY DEF WordsInv, IndexInv, InSession
<1>5. thread_local_tail' = Pos(Len(log) + 1) /\ Pos(Len(log) + 1) \in Slots
  BY <1>1, <1>4, PosFollows, PosIsSlot
<1> QED BY <1>2, <1>3, <1>5

(* What a producer's step leaves alone of the words of the consumer. *)
LEMMA ProducerKeepsWords ==
    ASSUME WordsInv, BeginSession \/ ProducerStep
    PROVE  WordsInv'
<1> USE BoundsAssumption DEF WordsInv, OrderInv, ProducerInv, IndexInv, InSession, Taken
<1>1. CASE BeginSession
  <2>1. thread_local_tail' = Pos(Len(log))
    BY <1>1 DEF BeginSession
  <2>2. TypeOK'
    BY <1>1 DEF BeginSession, TypeOK, shared, consumer, durability, history
  <2> QED BY <1>1, <2>1, <2>2
          DEF BeginSession, shared, consumer, durability, history, TypeOK, IsCommitAt
<1>2. CASE EnqueueWait \/ CommitWait
  <2>1. TypeOK'
    BY <1>2 DEF EnqueueWait, CommitWait, TypeOK, shared, consumer, durability, history
  <2> QED BY <1>2, <2>1
          DEF EnqueueWait, CommitWait, shared, consumer, durability, history, IsCommitAt
<1>3. CASE EnqueueAny
  <2>1. PICK type \in LoggedTypes, p \in Payloads : Enqueue(type, p)
    BY <1>3 DEF EnqueueAny
  <2> DEFINE e == [entry_type |-> type, payload |-> p]
  <2>2. e \in Entry
    BY TypesAssumption DEF Entry
  <2>3. /\ log' \in Seq(Entry) /\ Len(log') = Len(log) + 1
        /\ OrderInv' /\ thread_local_tail' = Pos(Len(log')) /\ thread_local_tail' \in Slots
    BY <2>1, <2>2, AppendKeepsWords DEF Enqueue, consumer
  <2>4. TypeOK'
    BY <2>1, <2>2, <2>3 DEF Enqueue, TypeOK, consumer, durability
  <2>5. ProducerInv'
    BY <2>1 DEF Enqueue, consumer
  <2>6. IndexInv'
    BY <2>1, <2>3 DEF Enqueue, consumer, durability
  <2> QED BY <2>3, <2>4, <2>5, <2>6
<1>4. CASE CommitEntry
  <2> DEFINE e == buffer'[thread_local_tail]
  <2>1. /\ buffer' \in [Slots -> Entry] /\ e \in Entry /\ e.entry_type = COMMIT_ENTRY
        /\ ppc = "commit" /\ ppc' = "publish" /\ fencedBuffer' = buffer'
    BY <1>4 DEF CommitEntry, TypeOK, Entry, EntryTypes
  <2>2. /\ log' \in Seq(Entry) /\ Len(log') = Len(log) + 1 /\ log'[Len(log')] = e
        /\ OrderInv' /\ thread_local_tail' = Pos(Len(log')) /\ thread_local_tail' \in Slots
    BY <1>4, <2>1, AppendKeepsWords DEF CommitEntry, consumer
  <2>3. TypeOK'
    BY <1>4, <2>1, <2>2 DEF CommitEntry, TypeOK, consumer
  <2>4. ProducerInv'
    BY <1>4, <2>1, <2>2 DEF CommitEntry, TypeOK, IsCommitAt, consumer
  <2>5. IndexInv'
    BY <1>4, <2>2 DEF CommitEntry, consumer
  <2> QED BY <2>2, <2>3, <2>4, <2>5
<1>5. CASE PublishTail
  <2>1. TypeOK'
    BY <1>5 DEF PublishTail, TypeOK, consumer, durability
  <2> QED BY <1>5, <2>1 DEF PublishTail, TypeOK, consumer, durability, IsCommitAt
<1>6. CASE AnnounceTail
  <2>1. TypeOK'
    BY <1>6 DEF AnnounceTail, TypeOK, consumer, durability
  <2>2. PICK g \in Taken .. announced : global_local_tail = Pos(g)
    OBVIOUS
  <2>3. g \in Taken' .. announced'
    BY <1>6 DEF AnnounceTail, TypeOK, consumer
  <2>4. OrderInv' /\ ProducerInv'
    BY <1>6 DEF AnnounceTail, TypeOK, consumer, IsCommitAt
  <2>5. IndexInv'
    BY <1>6, <2>2, <2>3 DEF AnnounceTail, consumer, durability
  <2> QED BY <2>1, <2>4, <2>5
<1>7. CASE EndSession
  <2>1. TypeOK'
    BY <1>7 DEF EndSession, TypeOK, consumer, durability, history
  <2> QED BY <1>7, <2>1 DEF EndSession, consumer, durability, history, IsCommitAt
<1> QED BY <1>1, <1>2, <1>3, <1>4, <1>5, <1>6, <1>7 DEF ProducerStep

(* The consumer's steps: what it takes has been announced. *)
LEMMA ConsumerKeepsWords ==
    ASSUME WordsInv, ConsumerStep
    PROVE  WordsInv'
<1> USE DEF WordsInv, OrderInv, ProducerInv, IndexInv, InSession, Taken
<1>0. PICK g \in Taken .. announced : global_local_tail = Pos(g)
  OBVIOUS
<1>1. CASE PollHead \/ TestTail
  <2>1. TypeOK'
    BY <1>1 DEF PollHead, TestTail, TypeOK, shared, producer, durability, history
  <2> QED BY <1>1, <2>1
          DEF PollHead, TestTail, shared, producer, durability, history, IsCommitAt
<1>2. CASE DequeueWait
  <2>1. TypeOK'
    BY <1>2 DEF DequeueWait, TypeOK, shared, producer, durability, history
  <2>2. announced \in Taken' .. announced'
    BY <1>2 DEF DequeueWait, history, TypeOK
  <2> QED BY <1>2, <2>1, <2>2
          DEF DequeueWait, shared, producer, durability, history, IsCommitAt
<1>3. CASE Dequeue
  <2>0. consumed \in Nat /\ global_local_head = Pos(consumed)
    BY <1>3 DEF Dequeue, TypeOK
  <2>1. global_local_head' = Pos(consumed + 1) /\ Pos(consumed + 1) \in Slots
    <3>1. Following(Pos(consumed)) = Pos(consumed + 1)
      BY <2>0, PosFollows
    <3>2. Pos(consumed + 1) \in Slots
      BY <2>0, PosIsSlot
    <3> QED BY <1>3, <2>0, <3>1, <3>2 DEF Dequeue
  <2>2. TypeOK'
    <3>1. global_local_head' \in Slots
      BY <2>1
    <3> QED BY <1>3, <3>1 DEF Dequeue, TypeOK, shared, producer, durability, history
  <2>3. g # consumed
    BY <1>0, <1>3 DEF Dequeue
  <2>4. g \in Taken' .. announced' /\ Taken' <= announced'
    BY <1>0, <1>3, <2>3 DEF Dequeue, history, TypeOK
  <2>5. OrderInv'
    BY <1>3, <2>4 DEF Dequeue, history
  <2> QED BY <1>0, <1>3, <2>1, <2>2, <2>4, <2>5
          DEF Dequeue, shared, producer, durability, history, IsCommitAt
<1>4. CASE ProcessEntry
  <2>0. global_local_head \in Slots
    BY DEF TypeOK
  <2>1. Preceding(global_local_head) \in Slots
    <3> HIDE DEF WordsInv, OrderInv, ProducerInv, IndexInv
    <3> QED BY <2>0, SizeAssumption DEF Preceding, Slots
  <2>2. TypeOK'
    BY <1>4, <2>1 DEF ProcessEntry, Caller, TypeOK, shared, producer, durability
  <2>3. Taken' = Taken /\ Taken' = consumed' /\ consumed' = consumed + 1
    BY <1>4 DEF ProcessEntry, Caller
  <2>4. OrderInv'
    BY <1>4, <2>3 DEF ProcessEntry, TypeOK
  <2> QED BY <1>0, <1>4, <2>2, <2>3, <2>4
          DEF ProcessEntry, Caller, shared, producer, durability, IsCommitAt
<1>5. CASE AckHead
  <2>1. TypeOK'
    BY <1>5 DEF AckHead, TypeOK, producer, durability
  <2>2. OrderInv'
    BY <1>5 DEF AckHead, TypeOK
  <2> QED BY <1>0, <1>5, <2>1, <2>2 DEF AckHead, producer, durability, IsCommitAt
<1>6. CASE FenceHead
  <2>1. TypeOK'
    BY <1>6 DEF FenceHead, Caller, TypeOK, producer
  <2>2. OrderInv'
    BY <1>6 DEF FenceHead, Caller, TypeOK
  <2>3. Taken' = Taken
    BY <1>6 DEF FenceHead, Caller
  <2> QED BY <1>0, <1>6, <2>1, <2>2, <2>3 DEF FenceHead, Caller, producer, IsCommitAt
<1>7. CASE Replay
  <2>1. TypeOK'
    BY <1>7 DEF Replay, TypeOK, shared, durability, history
  <2>2. Taken' = Taken
    BY <1>7 DEF Replay, history
  <2>3. OrderInv'
    BY <1>7, <2>2 DEF Replay, history
  <2>4. ProducerInv'
    BY <1>7 DEF Replay, shared, durability, history, IsCommitAt
  <2>5. IndexInv'
    BY <1>7, <2>2 DEF Replay, shared, durability, history
  <2> QED BY <2>1, <2>3, <2>4, <2>5
<1> QED BY <1>1, <1>2, <1>3, <1>4, <1>5, <1>6, <1>7 DEF ConsumerStep

(* A crash that recovery finds a consistent pair of words for. *)
LEMMA RestartKeepsWords ==
    ASSUME WordsInv, NEW headPos \in Nat, NEW tailPos \in Nat,
           headPos <= tailPos, tailPos <= Len(log),
           Restart(Pos(headPos), Pos(tailPos), headPos, tailPos),
           buffer' \in [Slots -> Entry], fencedBuffer' \in [Slots -> Entry],
           fencedHead' = Pos(fencedAck'), fencedAck' \in Nat, fencedAck' <= headPos,
           fencedTail' \in Slots, fencedPublished' \in Nat
    PROVE  WordsInv' /\ Len(log') = tailPos /\ \A k \in 1 .. tailPos : log'[k] = log[k]
<1>1. log \in Seq(Entry) /\ Len(log) \in Nat
  BY DEF WordsInv, TypeOK
<1>2. log' \in Seq(Entry) /\ Len(log') = tailPos /\ \A k \in 1 .. tailPos : log'[k] = log[k]
  BY <1>1 DEF Restart
<1>3. Pos(headPos) \in Slots /\ Pos(tailPos) \in Slots /\ Pos(fencedAck') \in Slots
      /\ 0 \in Slots
  BY PosIsSlot, SizeAssumption DEF Slots
<1>4. TypeOK'
  BY <1>2, <1>3 DEF Restart, WordsInv, TypeOK
<1>5. Taken' = headPos /\ tailPos \in headPos .. tailPos
  BY DEF Restart, Taken
<1>6. OrderInv' /\ ProducerInv'
  BY <1>2, <1>5 DEF Restart, OrderInv, ProducerInv
<1>7. IndexInv'
  BY <1>2, <1>5 DEF Restart, IndexInv, InSession
<1> QED BY <1>2, <1>4, <1>6, <1>7 DEF WordsInv

(* The two crashes are such: what they find are the words and positions of the
   last stores, or of the last fenced ones. *)
LEMMA CrashKeepsWords ==
    ASSUME ~UnfencedTail, WordsInv, ProcessCrash \/ PowerFailure
    PROVE  /\ WordsInv'
           /\ \E headPos \in {acked, fencedAck}, tailPos \in {published, announced} :
                 /\ log' = SubSeq(log, 1, tailPos)
                 /\ Len(log') = tailPos /\ \A k \in 1 .. tailPos : log'[k] = log[k]
                 /\ acked' = headPos /\ consumed' = headPos /\ published' = tailPos
                 /\ announced' = tailPos /\ fencedAck' \in {fencedAck, headPos}
                 /\ cpc' = "replay" /\ ppc' = "down" /\ UNCHANGED current
           /\ \A i \in Slots : buffer'[i] \in {buffer[i], fencedBuffer[i]}
           /\ (fencedBuffer' = fencedBuffer /\ buffer' = buffer) \/ fencedBuffer' = buffer'
<1> USE DEF WordsInv
<1>1. /\ acked \in Nat /\ fencedAck \in Nat /\ published \in Nat /\ announced \in Nat
      /\ fencedAck <= acked /\ acked <= announced /\ announced <= published
      /\ published <= Len(log)
  BY DEF TypeOK, OrderInv, Taken
<1>2. CASE ProcessCrash
  <2>1. /\ Restart(Pos(acked), Pos(published), acked, published)
        /\ UNCHANGED <<buffer, fencedBuffer, fencedHead, fencedAck, fencedTail, fencedPublished>>
    BY <1>2 DEF ProcessCrash, IndexInv, durability
  <2>2. /\ buffer' \in [Slots -> Entry] /\ fencedBuffer' \in [Slots -> Entry]
        /\ fencedHead' = Pos(fencedAck') /\ fencedTail' \in Slots /\ fencedPublished' \in Nat
    BY <2>1 DEF TypeOK, IndexInv
  <2>3. /\ WordsInv' /\ Len(log') = published
        /\ \A k \in 1 .. published : log'[k] = log[k]
    BY <1>1, <2>1, <2>2, RestartKeepsWords
  <2> HIDE DEF WordsInv
  <2> QED BY <2>1, <2>3 DEF Restart
<1>3. CASE PowerFailure
  <2>1. PICK keepHead \in BOOLEAN, tail \in TailsLeft,
             kept \in SUBSET {i \in Slots : buffer[i] # fencedBuffer[i]} :
          /\ Restart(IF keepHead THEN remote_head ELSE fencedHead, tail[1],
                     IF keepHead THEN acked ELSE fencedAck, tail[2])
          /\ buffer' = [i \in Slots |-> IF i \in kept THEN buffer[i] ELSE fencedBuffer[i]]
    BY <1>3 DEF PowerFailure
  <2>9. PICK t \in {published, announced} : tail[1] = Pos(t) /\ tail[2] = t
    BY <2>1 DEF TailsLeft, IndexInv
  <2> DEFINE h == IF keepHead THEN acked ELSE fencedAck
  <2>2. Restart(Pos(h), Pos(t), h, t)
    <3>1. Pos(h) = IF keepHead THEN remote_head ELSE fencedHead
      BY DEF IndexInv
    <3> QED BY <2>1, <2>9, <3>1
  <2>3. h \in {acked, fencedAck} /\ t \in {published, announced}
    OBVIOUS
  <2> HIDE DEF h
  <2>4. h \in Nat /\ t \in Nat /\ h <= t /\ t <= Len(log)
    BY <1>1, <2>3 DEF TypeOK
  <2>5. /\ fencedBuffer' = buffer' /\ fencedHead' = remote_head' /\ fencedAck' = acked'
        /\ remote_head' = Pos(h) /\ acked' = h
        /\ fencedTail' = Pos(t) /\ fencedPublished' = t
    BY <1>3, <2>2 DEF PowerFailure, Restart
  <2>6. buffer' \in [Slots -> Entry] /\ \A i \in Slots : buffer'[i] \in {buffer[i], fencedBuffer[i]}
    BY <2>1 DEF TypeOK
  <2>7. WordsInv' /\ Len(log') = t /\ \A k \in 1 .. t : log'[k] = log[k]
    BY <2>2, <2>4, <2>5, <2>6, RestartKeepsWords, PosIsSlot
  <2> HIDE DEF WordsInv
  <2>8. /\ acked' = h /\ consumed' = h /\ published' = t /\ announced' = t
        /\ cpc' = "replay" /\ ppc' = "down" /\ UNCHANGED current
        /\ log' = SubSeq(log, 1, t)
    BY <2>2 DEF Restart
  <2> QED BY <2>3, <2>5, <2>6, <2>7, <2>8
<1> QED BY <1>2, <1>3

(* Stuttering changes nothing. *)
LEMMA StutterKeepsWords ==
    ASSUME WordsInv, UNCHANGED vars
    PROVE  WordsInv'
BY DEF vars, shared, producer, consumer, durability, history, WordsInv, TypeOK,
       OrderInv, ProducerInv, IndexInv, InSession, Taken, IsCommitAt

(* ring_buffer_create_and_initialise on a new file. *)
LEMMA InitialWords ==
    ASSUME Init
    PROVE  WordsInv
<1>1. 0 \in Slots /\ Pos(0) = 0
  BY PosIsSlot
<1>2. log = <<>> /\ Len(log) = 0 /\ log \in Seq(Entry)
  BY DEF Init
<1>3. TypeOK
  BY <1>1, <1>2 DEF Init, TypeOK
<1>4. 0 \in 0 .. 0
  OBVIOUS
<1> QED BY <1>1, <1>2, <1>3, <1>4
        DEF Init, WordsInv, OrderInv, ProducerInv, IndexInv, InSession, Taken, IsCommitAt

(* For every workload, whether or not the back end keeps up: each head and tail
   word of ring_buffer.c but the two head words the producer waits on holds the
   slot of its position in the log, and the consumer never runs ahead of what
   ring_buffer_commit_enqueued_entries has announced, over wrap-arounds, kills
   and power failures, as long as no power failure takes back a tail that
   ring_buffer_create_and_initialise had recovered from. *)
THEOREM WordsInvariant == ~UnfencedTail => (Spec => []WordsInv)
<1> SUFFICES ASSUME ~UnfencedTail PROVE Spec => []WordsInv
  OBVIOUS
<1>1. Init => WordsInv
  BY InitialWords
<1>2. WordsInv /\ [Next]_vars => WordsInv'
  BY ProducerKeepsWords, ConsumerKeepsWords, CrashKeepsWords, StutterKeepsWords DEF Next
<1> QED BY <1>1, <1>2, PTL DEF Spec

-----------------------------------------------------------------------------
(***************************************************************************)
(* The indexes, whatever a power failure takes back.                       *)
(***************************************************************************)

(* A tail that may be left after a power failure is a tail of this log. *)
TailInv == TypeOK /\ announced <= published /\ fencedPublished <= published /\ published <= Len(log)

(* Wrapping by comparison stays inside the ring. *)
LEMMA WrapStays ==
    ASSUME NEW i \in Slots
    PROVE  Following(i) \in Slots /\ Preceding(i) \in Slots /\ 0 \in Slots
BY SizeAssumption DEF Following, Preceding, Slots

(* The producer's steps. *)
LEMMA ProducerKeepsTail ==
    ASSUME TailInv, BeginSession \/ ProducerStep
    PROVE  TailInv'
<1> USE DEF TailInv
<1>0. log \in Seq(Entry) /\ Len(log) \in Nat /\ thread_local_tail \in Slots
  BY DEF TypeOK
<1>1. CASE BeginSession \/ EnqueueWait \/ CommitWait \/ EndSession
  BY <1>1 DEF BeginSession, EnqueueWait, CommitWait, EndSession, TypeOK,
              shared, producer, consumer, durability, history
<1>2. CASE EnqueueAny
  <2>1. PICK type \in LoggedTypes, p \in Payloads : Enqueue(type, p)
    BY <1>2 DEF EnqueueAny
  <2>2. PICK e \in Entry : e = [entry_type |-> type, payload |-> p]
    BY TypesAssumption DEF Entry
  <2>3. log' = Append(log, e) /\ log' \in Seq(Entry) /\ Len(log') = Len(log) + 1
    BY <1>0, <2>1, <2>2 DEF Enqueue
  <2>4. TypeOK'
    BY <1>0, <2>1, <2>2, <2>3, WrapStays DEF Enqueue, TypeOK, consumer, durability
  <2> QED BY <1>0, <2>1, <2>3, <2>4 DEF Enqueue, TypeOK
<1>3. CASE CommitEntry
  <2>1. PICK e \in Entry : e = buffer'[thread_local_tail]
    BY <1>3 DEF CommitEntry, TypeOK, Entry, EntryTypes
  <2>2. buffer' \in [Slots -> Entry]
    BY <1>3 DEF CommitEntry, TypeOK, Entry, EntryTypes
  <2>3. log' = Append(log, e) /\ log' \in Seq(Entry) /\ Len(log') = Len(log) + 1
    BY <1>0, <1>3, <2>1 DEF CommitEntry
  <2>4. TypeOK'
    BY <1>0, <1>3, <2>2, <2>3, WrapStays DEF CommitEntry, TypeOK, consumer
  <2> QED BY <1>0, <1>3, <2>3, <2>4 DEF CommitEntry, TypeOK
<1>4. CASE PublishTail
  BY <1>0, <1>4 DEF PublishTail, TypeOK, consumer, durability
<1>5. CASE AnnounceTail
  BY <1>0, <1>5 DEF AnnounceTail, TypeOK, consumer
<1> QED BY <1>1, <1>2, <1>3, <1>4, <1>5 DEF ProducerStep

(* The consumer's steps. *)
LEMMA ConsumerKeepsTail ==
    ASSUME TailInv, ConsumerStep
    PROVE  TailInv'
<1> USE DEF TailInv
<1>1. CASE PollHead \/ TestTail \/ DequeueWait \/ Dequeue
  BY <1>1, WrapStays DEF PollHead, TestTail, DequeueWait, Dequeue, TypeOK,
                         shared, producer, durability, history
<1>2. CASE ProcessEntry
  <2>1. Preceding(global_local_head) \in Slots
    BY WrapStays DEF TypeOK
  <2> QED BY <1>2, <2>1 DEF ProcessEntry, Caller, TypeOK, shared, producer, durability
<1>3. CASE AckHead \/ FenceHead
  BY <1>3 DEF AckHead, FenceHead, Caller, TypeOK, producer, durability
<1>4. CASE Replay
  BY <1>4 DEF Replay, TypeOK, shared, durability, history
<1> QED BY <1>1, <1>2, <1>3, <1>4 DEF ConsumerStep

(* A restart from words of the ring and a position of the log. *)
LEMMA RestartKeepsTail ==
    ASSUME TailInv, NEW head \in Slots, NEW tail \in Slots, NEW headPos \in Nat,
           NEW tailPos \in Nat, tailPos <= Len(log), Restart(head, tail, headPos, tailPos),
           buffer' \in [Slots -> Entry], fencedBuffer' \in [Slots -> Entry],
           fencedHead' \in Slots, fencedTail' \in Slots, fencedAck' \in Nat,
           fencedPublished' \in Nat, fencedPublished' <= tailPos
    PROVE  TailInv'
<1>1. log \in Seq(Entry) /\ Len(log) \in Nat
  BY DEF TailInv, TypeOK
<1>2. log' \in Seq(Entry) /\ Len(log') = tailPos
  BY <1>1 DEF Restart
<1>3. 0 \in Slots
  BY SizeAssumption DEF Slots
<1>4. TypeOK'
  BY <1>2, <1>3 DEF Restart, TailInv, TypeOK
<1> QED BY <1>2, <1>4 DEF Restart, TailInv

(* Kills and power failures, with every outcome. *)
LEMMA CrashKeepsTail ==
    ASSUME TailInv, ProcessCrash \/ PowerFailure
    PROVE  TailInv'
<1>1. /\ buffer \in [Slots -> Entry] /\ fencedBuffer \in [Slots -> Entry]
      /\ remote_head \in Slots /\ remote_tail \in Slots /\ last_persisted_tail \in Slots
      /\ fencedHead \in Slots /\ fencedTail \in Slots
      /\ acked \in Nat /\ fencedAck \in Nat /\ published \in Nat /\ announced \in Nat
      /\ fencedPublished \in Nat /\ Len(log) \in Nat
      /\ announced <= published /\ fencedPublished <= published /\ published <= Len(log)
  BY DEF TailInv, TypeOK
<1>2. CASE ProcessCrash
  <2>1. /\ Restart(remote_head, remote_tail, acked, published)
        /\ UNCHANGED <<buffer, fencedBuffer, fencedHead, fencedTail, fencedAck, fencedPublished>>
    BY <1>2 DEF ProcessCrash, durability
  <2> QED BY <1>1, <2>1, RestartKeepsTail
<1>3. CASE PowerFailure
  <2>1. PICK keepHead \in BOOLEAN, tail \in TailsLeft,
             kept \in SUBSET {i \in Slots : buffer[i] # fencedBuffer[i]} :
          /\ Restart(IF keepHead THEN remote_head ELSE fencedHead, tail[1],
                     IF keepHead THEN acked ELSE fencedAck, tail[2])
          /\ buffer' = [i \in Slots |-> IF i \in kept THEN buffer[i] ELSE fencedBuffer[i]]
    BY <1>3 DEF PowerFailure
  <2>2. tail[1] \in Slots /\ tail[2] \in Nat /\ tail[2] <= Len(log)
    BY <1>1, <2>1 DEF TailsLeft
  <2>3. PICK head \in Slots, headPos \in Nat : Restart(head, tail[1], headPos, tail[2])
    <3>1. CASE keepHead
      BY <1>1, <2>1, <3>1
    <3>2. CASE ~keepHead
      BY <1>1, <2>1, <3>2
    <3> QED BY <3>1, <3>2
  <2>4. buffer' \in [Slots -> Entry]
    BY <1>1, <2>1
  <2>5. /\ fencedBuffer' = buffer' /\ fencedHead' = head /\ fencedAck' = headPos
        /\ fencedTail' = tail[1] /\ fencedPublished' = tail[2]
    BY <1>3, <2>3 DEF PowerFailure, Restart
  <2>6. tail[2] <= tail[2]
    BY <2>2
  <2> QED BY <2>2, <2>3, <2>4, <2>5, <2>6, RestartKeepsTail
<1> QED BY <1>2, <1>3

(* Every index of the ring buffer stays inside the ring, although ring_buffer.c
   wraps by comparing with RING_BUFFER_SIZE and never checks a bound: for every
   workload, and also after a power failure that puts the tail behind the head. *)
THEOREM RingTypeCorrect == Spec => []TypeOK
<1>1. Init => TailInv
  BY InitialWords DEF Init, WordsInv, TailInv
<1>2. TailInv /\ [Next]_vars => TailInv'
  <2>1. ASSUME TailInv, UNCHANGED vars PROVE TailInv'
    BY <2>1 DEF vars, shared, producer, consumer, durability, history, TailInv, TypeOK
  <2> QED BY <2>1, ProducerKeepsTail, ConsumerKeepsTail, CrashKeepsTail DEF Next
<1>3. TailInv => TypeOK
  BY DEF TailInv
<1> QED BY <1>1, <1>2, <1>3, PTL DEF Spec

-----------------------------------------------------------------------------
(***************************************************************************)
(* The window of the log that the ring holds, while the back end keeps up. *)
(***************************************************************************)

(* What a group takes from the room of its session. *)
LEMMA BudgetOfGroup ==
    ASSUME NEW g \in Nat, g < MaxGroups
    PROVE  /\ Budget(g) = MaxGroup + 1 + Budget(g + 1)
           /\ Budget(g + 1) \in Nat
           /\ Budget(0) = SessionSize
<1> DEFINE a == MaxGroups - (g + 1)
           b == MaxGroup + 1
<1>1. a \in Nat /\ b \in Nat /\ MaxGroups - g = a + 1
  BY BoundsAssumption
<1>2. (a + 1) * b = (a * b) + b /\ a * b \in Nat
  BY <1>1
<1>3. MaxGroups - 0 = MaxGroups
  BY BoundsAssumption
<1> QED BY <1>1, <1>2, <1>3, BoundsAssumption DEF Budget, SessionSize

(* Writing the slot after the last entry does not hit a slot that is needed. *)
LEMMA WriteKeepsIntact ==
    ASSUME WordsInv, IntactInv, Len(log) < fencedAck + RING_BUFFER_SIZE,
           ppc \in {"enqueue", "commit"}, NEW e \in Entry,
           log' = Append(log, e), buffer'[thread_local_tail] = e,
           \A i \in Slots : i # thread_local_tail => buffer'[i] = buffer[i],
           fencedBuffer' \in {fencedBuffer, buffer'},
           UNCHANGED <<published, fencedAck>>
    PROVE  IntactInv'
<1>1. /\ log \in Seq(Entry) /\ Len(log) \in Nat /\ fencedAck \in Nat /\ published \in Nat
      /\ published <= Len(log) /\ thread_local_tail = Pos(Len(log))
  BY DEF WordsInv, TypeOK, OrderInv, IndexInv, InSession
<1>2. /\ Len(log') = Len(log) + 1 /\ log'[Len(log) + 1] = e
      /\ \A k \in 1 .. Len(log) : log'[k] = log[k]
  BY <1>1
<1>3. ASSUME NEW k \in fencedAck + 1 .. Len(log')
      PROVE  buffer'[Pos(k - 1)] = log'[k]
  <2>1. CASE k = Len(log) + 1
    BY <1>1, <1>2, <2>1
  <2>2. CASE k # Len(log) + 1
    <3>1. /\ k \in 1 .. Len(log) /\ k \in fencedAck + 1 .. Len(log) /\ k - 1 \in Nat
          /\ k - 1 < Len(log) /\ Len(log) < (k - 1) + RING_BUFFER_SIZE
      BY <1>1, <1>2, <2>2, SizeAssumption
    <3>2. Pos(k - 1) # thread_local_tail /\ Pos(k - 1) \in Slots
      BY <1>1, <3>1, PosDiffers, PosIsSlot
    <3>3. buffer[Pos(k - 1)] = log[k]
      BY <3>1 DEF IntactInv
    <3> QED BY <1>2, <3>1, <3>2, <3>3
  <2> QED BY <2>1, <2>2
<1>4. ASSUME NEW k \in fencedAck + 1 .. published
      PROVE  fencedBuffer'[Pos(k - 1)] = log'[k]
  <2>1. k \in 1 .. Len(log) /\ k \in fencedAck + 1 .. Len(log')
    BY <1>1, <1>2
  <2>2. fencedBuffer[Pos(k - 1)] = log[k]
    BY DEF IntactInv
  <2> QED BY <1>2, <1>3, <2>1, <2>2
<1> QED BY <1>3, <1>4 DEF IntactInv

(* The commit positions of the consumer are kept by whatever keeps its
   positions and the entries of the log. *)
LEMMA CommitsStay ==
    ASSUME WordsInv, ConsumerInv, UNCHANGED <<fencedAck, acked, consumed, cpc>>,
           \A k \in 1 .. Len(log) : log'[k] = log[k]
    PROVE  ConsumerInv'
<1>1. /\ fencedAck \in Nat /\ acked \in Nat /\ consumed \in Nat /\ Len(log) \in Nat
      /\ fencedAck <= Len(log) /\ acked <= Len(log) /\ consumed <= Len(log)
  BY DEF WordsInv, OrderInv, TypeOK, Taken
<1> QED BY <1>1 DEF ConsumerInv, IsCommitAt

(* The producer's steps. *)
LEMMA ProducerKeepsWindow ==
    ASSUME RoomFirst, WordsInv, WindowInv, BeginSession \/ ProducerStep
    PROVE  WindowInv'
<1> USE DEF WindowInv
<1>1. /\ log \in Seq(Entry) /\ Len(log) \in Nat /\ fencedAck \in Nat /\ published \in Nat
      /\ filled \in Nat /\ groups \in Nat /\ published <= Len(log) /\ MaxGroup \in Nat
      /\ MaxGroups \in Nat \ {0} /\ RING_BUFFER_SIZE \in Nat
      /\ thread_local_tail \in Slots /\ buffer \in [Slots -> Entry]
  BY BoundsAssumption, SizeAssumption DEF WordsInv, TypeOK, OrderInv
<1>2. ASSUME groups < MaxGroups
      PROVE  /\ Budget(groups) = MaxGroup + 1 + Budget(groups + 1)
             /\ Budget(groups + 1) \in Nat
  BY <1>1, <1>2, BudgetOfGroup
<1>3. CASE BeginSession
  <2>1. Budget(0) = SessionSize
    BY <1>1, BudgetOfGroup
  <2>2. RoomInv'
    BY <1>1, <1>3, <2>1 DEF BeginSession, RoomInv, Budget, shared, consumer, durability, history
  <2>3. ConsumerInv'
    BY <1>3, CommitsStay DEF BeginSession, consumer, history
  <2>4. IntactInv'
    BY <1>3 DEF BeginSession, IntactInv, shared, durability, history
  <2> QED BY <2>2, <2>3, <2>4
<1>4. CASE EnqueueWait \/ CommitWait
  <2>1. RoomInv'
    BY <1>4 DEF EnqueueWait, CommitWait, RoomInv, Budget, history
  <2>2. ConsumerInv'
    BY <1>4, CommitsStay DEF EnqueueWait, CommitWait, consumer, history
  <2>3. IntactInv'
    BY <1>4 DEF EnqueueWait, CommitWait, IntactInv, shared, durability, history
  <2> QED BY <2>1, <2>2, <2>3
<1>5. CASE EnqueueAny
  <2>1. PICK type \in LoggedTypes, p \in Payloads : Enqueue(type, p)
    BY <1>5 DEF EnqueueAny
  <2> DEFINE e == [entry_type |-> type, payload |-> p]
  <2>2. e \in Entry
    BY TypesAssumption DEF Entry
  <2>3. /\ ppc = "enqueue" /\ log' = Append(log, e) /\ UNCHANGED <<published, fencedAck>>
        /\ buffer' = [buffer EXCEPT ![thread_local_tail] = e]
        /\ fencedBuffer' = fencedBuffer
        /\ filled' = filled + 1 /\ groups' = groups /\ ppc' \in {"enqueue", "commit"}
        /\ ppc' = "enqueue" => filled + 1 < MaxGroup
        /\ UNCHANGED <<acked, consumed, cpc>>
    BY <2>1 DEF Enqueue, durability, consumer
  <2> HIDE DEF e
  <2>4. Len(log') = Len(log) + 1 /\ \A k \in 1 .. Len(log) : log'[k] = log[k]
    BY <1>1, <2>2, <2>3
  <2>5. IntactInv'
    <3>1. Len(log) < fencedAck + RING_BUFFER_SIZE
      BY DEF RoomInv
    <3>2. /\ buffer'[thread_local_tail] = e
          /\ \A i \in Slots : i # thread_local_tail => buffer'[i] = buffer[i]
      BY <1>1, <2>3
    <3> QED BY <2>2, <2>3, <3>1, <3>2, WriteKeepsIntact
  <2>6. ConsumerInv'
    BY <2>3, <2>4, CommitsStay
  <2>7. RoomInv'
    <3>1. /\ groups < MaxGroups /\ filled < MaxGroup
          /\ Len(log) + Budget(groups) - filled < fencedAck + RING_BUFFER_SIZE
      BY <2>3 DEF RoomInv
    <3>2. Budget(groups') = Budget(groups)
      BY <2>3 DEF Budget
    <3> HIDE DEF WindowInv
    <3> QED BY SMTT(30), <1>1, <1>2, <2>3, <2>4, <3>1, <3>2 DEF RoomInv
  <2> QED BY <2>5, <2>6, <2>7
<1>6. CASE CommitEntry
  <2> DEFINE e == buffer'[thread_local_tail]
  <2>1. /\ ppc = "commit" /\ log' = Append(log, e) /\ UNCHANGED <<published, fencedAck>>
        /\ buffer' = [buffer EXCEPT ![thread_local_tail].entry_type = COMMIT_ENTRY]
        /\ fencedBuffer' = buffer'
        /\ filled' = filled /\ groups' = groups /\ ppc' = "publish"
        /\ UNCHANGED <<acked, consumed, cpc>>
    BY <1>6 DEF CommitEntry, consumer
  <2>2. e \in Entry /\ \A i \in Slots : i # thread_local_tail => buffer'[i] = buffer[i]
    BY <1>1, <2>1 DEF Entry, EntryTypes
  <2>4. Len(log') = Len(log) + 1 /\ \A k \in 1 .. Len(log) : log'[k] = log[k]
    BY <1>1, <2>1, <2>2
  <2>5. IntactInv'
    <3>1. Len(log) < fencedAck + RING_BUFFER_SIZE
      BY DEF RoomInv
    <3> QED BY <2>1, <2>2, <3>1, WriteKeepsIntact
  <2>6. ConsumerInv'
    BY <2>1, <2>4, CommitsStay
  <2>7. RoomInv'
    <3>1. /\ groups < MaxGroups /\ filled <= MaxGroup
          /\ Len(log) + Budget(groups) - filled < fencedAck + RING_BUFFER_SIZE
      BY <2>1 DEF RoomInv
    <3>2. Budget(groups' + 1) = Budget(groups + 1)
      BY <2>1 DEF Budget
    <3> HIDE DEF WindowInv
    <3> QED BY SMTT(30), <1>1, <1>2, <2>1, <2>4, <3>1, <3>2 DEF RoomInv
  <2> QED BY <2>5, <2>6, <2>7
<1>7. CASE PublishTail
  <2>1. RoomInv'
    BY <1>7 DEF PublishTail, RoomInv, Budget
  <2>2. ConsumerInv'
    BY <1>7, CommitsStay DEF PublishTail, consumer
  <2>3. IntactInv'
    BY <1>7 DEF PublishTail, IntactInv, WordsInv, ProducerInv, durability
  <2> QED BY <2>1, <2>2, <2>3
<1>8. CASE AnnounceTail
  <2>1. RoomInv'
    <3>1. /\ groups < MaxGroups
          /\ Len(log) < fencedAck + RING_BUFFER_SIZE
          /\ Len(log) + Budget(groups + 1) < fencedAck + RING_BUFFER_SIZE
      BY <1>8 DEF RoomInv, AnnounceTail
    <3>2. /\ groups' = groups + 1 /\ filled' = 0 /\ UNCHANGED <<log, fencedAck>>
          /\ ppc' = "end" \/ /\ groups + 1 < MaxGroups /\ ppc' \in {"enqueue", "commit"}
                             /\ ppc' = "enqueue" => MaxGroup > 0
      BY <1>8 DEF AnnounceTail
    <3>3. Budget(groups') = Budget(groups + 1)
      BY <3>2 DEF Budget
    <3> HIDE DEF WindowInv
    <3> QED BY <1>1, <1>2, <3>1, <3>2, <3>3 DEF RoomInv
  <2>2. ConsumerInv'
    BY <1>8, CommitsStay DEF AnnounceTail, consumer
  <2>3. IntactInv'
    BY <1>8 DEF AnnounceTail, IntactInv, durability
  <2> QED BY <2>1, <2>2, <2>3
<1>9. CASE EndSession
  <2>1. RoomInv'
    BY <1>9 DEF EndSession, RoomInv, history
  <2>2. ConsumerInv'
    BY <1>9, CommitsStay DEF EndSession, consumer, history
  <2>3. IntactInv'
    BY <1>9 DEF EndSession, IntactInv, durability, history
  <2> QED BY <2>1, <2>2, <2>3
<1> QED BY <1>3, <1>4, <1>5, <1>6, <1>7, <1>8, <1>9 DEF ProducerStep

(* What process_entry finds in the slot before global_local_head is the next
   entry of the log. *)
LEMMA ReadsNextEntry ==
    ASSUME WordsInv, IntactInv, cpc = "process"
    PROVE  /\ consumed \in Nat /\ consumed < announced
           /\ buffer[Preceding(global_local_head)] = log[consumed + 1]
<1>1. /\ consumed \in Nat /\ fencedAck \in Nat /\ announced \in Nat /\ Len(log) \in Nat
      /\ published \in Nat /\ acked \in Nat
      /\ consumed + 1 <= announced /\ announced <= published /\ published <= Len(log)
      /\ fencedAck <= acked /\ acked <= consumed
      /\ global_local_head = Pos(consumed + 1)
  BY DEF WordsInv, TypeOK, OrderInv, IndexInv, Taken
<1>2. Preceding(global_local_head) = Pos(consumed)
  BY <1>1, PosFollows
<1>3. consumed + 1 \in fencedAck + 1 .. Len(log) /\ (consumed + 1) - 1 = consumed
  BY <1>1
<1>4. buffer[Pos((consumed + 1) - 1)] = log[consumed + 1]
  BY <1>3 DEF IntactInv
<1> QED BY <1>1, <1>2, <1>3, <1>4

(* The consumer's steps. *)
LEMMA ConsumerKeepsWindow ==
    ASSUME WordsInv, WindowInv, ConsumerStep
    PROVE  WindowInv'
<1> USE DEF WindowInv
<1>1. CASE PollHead \/ TestTail \/ DequeueWait \/ Dequeue
  <2>1. RoomInv'
    BY <1>1 DEF PollHead, TestTail, DequeueWait, Dequeue, RoomInv, Budget, producer, history
  <2>2. ConsumerInv'
    BY <1>1 DEF PollHead, TestTail, DequeueWait, Dequeue, ConsumerInv, IsCommitAt, history
  <2>3. IntactInv'
    BY <1>1 DEF PollHead, TestTail, DequeueWait, Dequeue, IntactInv, shared, durability, history
  <2> QED BY <2>1, <2>2, <2>3
<1>2. CASE ProcessEntry
  <2>1. consumed \in Nat /\ current' = log[consumed + 1]
    BY <1>2, ReadsNextEntry DEF ProcessEntry
  <2>2. ConsumerInv'
    BY <1>2, <2>1 DEF ProcessEntry, Caller, ConsumerInv, IsCommitAt
  <2>3. RoomInv'
    BY <1>2 DEF ProcessEntry, RoomInv, Budget, producer
  <2>4. IntactInv'
    BY <1>2 DEF ProcessEntry, IntactInv, shared, durability
  <2> QED BY <2>2, <2>3, <2>4
<1>3. CASE AckHead
  <2>1. ConsumerInv'
    BY <1>3 DEF AckHead, ConsumerInv, IsCommitAt
  <2>2. RoomInv'
    BY <1>3 DEF AckHead, RoomInv, Budget, producer
  <2>3. IntactInv'
    BY <1>3 DEF AckHead, IntactInv, durability
  <2> QED BY <2>1, <2>2, <2>3
<1>4. CASE FenceHead
  <2>1. /\ fencedAck \in Nat /\ acked \in Nat /\ fencedAck <= acked /\ fencedAck' = acked
        /\ Len(log) \in Nat /\ groups \in Nat /\ filled \in Nat /\ RING_BUFFER_SIZE \in Nat
        /\ published \in Nat
        /\ UNCHANGED <<log, ppc, groups, filled, published, buffer, fencedBuffer>>
    BY <1>4, SizeAssumption DEF FenceHead, WordsInv, TypeOK, OrderInv, producer
  <2>2. ConsumerInv'
    BY <1>4 DEF FenceHead, Caller, ConsumerInv, IsCommitAt
  <2>3. Budget(groups) \in Int /\ Budget(groups + 1) \in Int
    BY <2>1, BoundsAssumption DEF Budget
  <2>4. Budget(groups') = Budget(groups) /\ Budget(groups' + 1) = Budget(groups + 1)
    BY <2>1 DEF Budget
  <2>5. RoomInv'
    BY <2>1, <2>3, <2>4 DEF RoomInv
  <2>6. IntactInv'
    BY <2>1 DEF IntactInv
  <2> QED BY <2>2, <2>5, <2>6
<1>5. CASE Replay
  <2>1. RoomInv'
    BY <1>5 DEF Replay, RoomInv, Budget, history
  <2>2. ConsumerInv'
    BY <1>5 DEF Replay, ConsumerInv, IsCommitAt, history
  <2>3. IntactInv'
    BY <1>5 DEF Replay, IntactInv, shared, durability, history
  <2> QED BY <2>1, <2>2, <2>3
<1> QED BY <1>1, <1>2, <1>3, <1>4, <1>5 DEF ConsumerStep

(* A crash: the words recovery starts from are not older than the window, so
   every slot it will read holds its entry, kept or lost. *)
LEMMA CrashKeepsWindow ==
    ASSUME ~UnfencedTail, WordsInv, WindowInv, ProcessCrash \/ PowerFailure
    PROVE  WindowInv'
<1>1. PICK headPos \in {acked, fencedAck}, tailPos \in {published, announced} :
          /\ Len(log') = tailPos /\ \A k \in 1 .. tailPos : log'[k] = log[k]
          /\ acked' = headPos /\ consumed' = headPos /\ published' = tailPos
          /\ announced' = tailPos /\ fencedAck' \in {fencedAck, headPos}
          /\ cpc' = "replay" /\ ppc' = "down"
  BY CrashKeepsWords
<1>2. /\ \A i \in Slots : buffer'[i] \in {buffer[i], fencedBuffer[i]}
      /\ (fencedBuffer' = fencedBuffer /\ buffer' = buffer) \/ fencedBuffer' = buffer'
  BY CrashKeepsWords
<1>3. /\ acked \in Nat /\ fencedAck \in Nat /\ published \in Nat /\ announced \in Nat
      /\ Len(log) \in Nat /\ headPos \in Nat /\ tailPos \in Nat /\ fencedAck' \in Nat
      /\ fencedAck <= headPos /\ headPos <= acked /\ acked <= announced
      /\ announced <= tailPos /\ tailPos <= published /\ published <= Len(log)
      /\ fencedAck <= fencedAck' /\ fencedAck' <= headPos
  BY <1>1 DEF WordsInv, TypeOK, OrderInv, Taken
<1>4. PICK f \in Nat, t \in Nat :
          /\ f = fencedAck' /\ fencedAck <= f /\ f <= headPos /\ f \in {fencedAck, headPos}
          /\ t = tailPos /\ headPos <= t /\ t <= published /\ t <= Len(log)
  BY <1>1, <1>3
<1>5. /\ fencedAck \in Nat /\ published \in Nat /\ Len(log) \in Nat
      /\ fencedAck <= f /\ t <= published /\ t <= Len(log)
  BY <1>3, <1>4
<1>6. ConsumerInv'
  <2>1. ASSUME NEW p \in {f, headPos}, p > 0
        PROVE  log'[p].entry_type = COMMIT_ENTRY
    <3>1. p \in {acked, fencedAck} /\ p \in 1 .. t
      BY <1>1, <1>3, <1>4, <2>1
    <3>2. IsCommitAt(p)
      BY <2>1, <3>1 DEF WindowInv, ConsumerInv
    <3> QED BY <1>1, <1>4, <3>1, <3>2 DEF IsCommitAt
  <2> QED BY <1>1, <1>4, <2>1 DEF ConsumerInv, IsCommitAt
<1>7. RoomInv'
  <2>1. Len(log) < fencedAck + RING_BUFFER_SIZE /\ RING_BUFFER_SIZE \in Nat
    BY SizeAssumption DEF WindowInv, RoomInv
  <2>2. t < f + RING_BUFFER_SIZE
    BY <1>5, <2>1
  <2> QED BY <1>1, <1>4, <2>2 DEF RoomInv
<1>8. IntactInv'
  <2>1. ASSUME NEW k \in f + 1 .. t
        PROVE  buffer'[Pos(k - 1)] = log'[k] /\ fencedBuffer'[Pos(k - 1)] = log'[k]
    <3>1. /\ k \in 1 .. t /\ k \in fencedAck + 1 .. Len(log)
          /\ k \in fencedAck + 1 .. published /\ k - 1 \in Nat
      BY <1>5
    <3>2. buffer[Pos(k - 1)] = log[k] /\ fencedBuffer[Pos(k - 1)] = log[k]
      BY <3>1 DEF WindowInv, IntactInv
    <3>3. Pos(k - 1) \in Slots
      BY <3>1, PosIsSlot
    <3> QED BY <1>1, <1>2, <1>4, <3>1, <3>2, <3>3
  <2> QED BY <1>1, <1>4, <2>1 DEF IntactInv
<1> QED BY <1>6, <1>7, <1>8 DEF WindowInv

(* Stuttering changes nothing. *)
LEMMA StutterKeepsWindow ==
    ASSUME WindowInv, UNCHANGED vars
    PROVE  WindowInv'
BY DEF vars, shared, producer, consumer, durability, history, WindowInv,
       ConsumerInv, RoomInv, IntactInv, IsCommitAt, Budget

(* A new ring has room and nothing to keep. *)
LEMMA InitialWindow ==
    ASSUME Init
    PROVE  WindowInv
BY SizeAssumption DEF Init, WindowInv, ConsumerInv, RoomInv, IntactInv

(* While the back end keeps up, every slot from the acknowledged position that a
   power failure would go back to, holds the entry that was logged there, in
   the cache and, up to remote_tail, behind the last fence. *)
THEOREM WindowInvariant ==
    RoomFirst /\ ~UnfencedTail => (Spec => [](WordsInv /\ WindowInv))
<1> SUFFICES ASSUME RoomFirst, ~UnfencedTail PROVE Spec => [](WordsInv /\ WindowInv)
  OBVIOUS
<1>1. Init => WordsInv /\ WindowInv
  BY InitialWords, InitialWindow
<1>2. WordsInv /\ WindowInv /\ [Next]_vars => WordsInv' /\ WindowInv'
  BY ProducerKeepsWords, ConsumerKeepsWords, CrashKeepsWords, StutterKeepsWords,
     ProducerKeepsWindow, ConsumerKeepsWindow, CrashKeepsWindow, StutterKeepsWindow
  DEF Next
<1> QED BY <1>1, <1>2, PTL DEF Spec

(* The ring never reuses a slot that recovery would still read
   (ring_buffer_enqueue_redo_log_entry writes into it,
   ring_buffer_create_and_initialise would replay it). *)
THEOREM SlotsAreNotReused == RoomFirst /\ ~UnfencedTail => (Spec => []UnackedIntact)
<1> SUFFICES ASSUME RoomFirst, ~UnfencedTail PROVE Spec => []UnackedIntact
  OBVIOUS
<1>1. WordsInv /\ WindowInv => UnackedIntact
  BY DEF WordsInv, WindowInv, TypeOK, OrderInv, IntactInv, UnackedIntact, Pos
<1> QED BY <1>1, WindowInvariant, PTL

(* A step of the producer appends to the abstract log, or commits, or does not
   show there. *)
LEMMA ProducerRefines ==
    ASSUME WordsInv, BeginSession \/ ProducerStep
    PROVE  [Abstract!Next]_(Abstract!vars)
<1> USE DEF Abstract!vars, Abstract!Next
<1>1. CASE BeginSession \/ EnqueueWait \/ CommitWait \/ EndSession
  BY <1>1 DEF BeginSession, EnqueueWait, CommitWait, EndSession, consumer, history
<1>2. CASE EnqueueAny
  <2>1. PICK type \in LoggedTypes, p \in Payloads : Enqueue(type, p)
    BY <1>2 DEF EnqueueAny
  <2>2. [entry_type |-> type, payload |-> p] \in Entry
    BY TypesAssumption DEF Entry
  <2>3. Abstract!AppendEntry([entry_type |-> type, payload |-> p])
    BY <2>1 DEF Enqueue, Abstract!AppendEntry, consumer
  <2> QED BY <2>2, <2>3
<1>3. CASE CommitEntry
  <2>1. buffer'[thread_local_tail] \in Entry
    BY <1>3 DEF CommitEntry, WordsInv, TypeOK, Entry, EntryTypes
  <2>2. Abstract!AppendEntry(buffer'[thread_local_tail])
    BY <1>3 DEF CommitEntry, Abstract!AppendEntry, consumer
  <2> QED BY <2>1, <2>2
<1>4. CASE PublishTail
  BY <1>4 DEF PublishTail, consumer
<1>5. CASE AnnounceTail
  <2>1. Abstract!Commit
    BY <1>5 DEF AnnounceTail, WordsInv, ProducerInv, IsCommitAt, IsCommitEntry,
                Abstract!Commit, consumer
  <2> QED BY <2>1
<1> QED BY <1>1, <1>2, <1>3, <1>4, <1>5 DEF ProducerStep

(* A step of the consumer applies the next committed entry, as it was logged,
   or acknowledges the group it has finished, or does not show. *)
LEMMA ConsumerRefines ==
    ASSUME WordsInv, WindowInv, ConsumerStep
    PROVE  [Abstract!Next]_(Abstract!vars)
<1> USE DEF Abstract!vars, Abstract!Next
<1>1. CASE PollHead \/ TestTail \/ DequeueWait \/ Dequeue \/ Replay
  BY <1>1 DEF PollHead, TestTail, DequeueWait, Dequeue, Replay, history
<1>2. CASE ProcessEntry
  <2>1. consumed < announced /\ current' = log[consumed + 1]
    BY <1>2, ReadsNextEntry DEF ProcessEntry, WindowInv
  <2>2. Abstract!Apply
    BY <1>2, <2>1 DEF ProcessEntry, Abstract!Apply
  <2> QED BY <2>2
<1>3. CASE AckHead
  BY <1>3 DEF AckHead
<1>4. CASE FenceHead
  <2>1. Abstract!Ack
    BY <1>4 DEF FenceHead, WindowInv, ConsumerInv, IsCommitAt, IsCommitEntry, Abstract!Ack
  <2> QED BY <2>1
<1> QED BY <1>1, <1>2, <1>3, <1>4 DEF ConsumerStep

(* A crash keeps the committed prefix and goes back to an acknowledged group. *)
LEMMA CrashRefines ==
    ASSUME ~UnfencedTail, WordsInv, WindowInv, ProcessCrash \/ PowerFailure
    PROVE  Abstract!Crash
<1>1. PICK headPos \in {acked, fencedAck}, tailPos \in {published, announced} :
          /\ log' = SubSeq(log, 1, tailPos)
          /\ consumed' = headPos /\ announced' = tailPos
          /\ fencedAck' \in {fencedAck, headPos} /\ UNCHANGED current
  BY CrashKeepsWords
<1>2. /\ acked \in Nat /\ fencedAck \in Nat /\ published \in Nat /\ announced \in Nat
      /\ consumed \in Nat /\ Len(log) \in Nat
      /\ fencedAck <= acked /\ acked <= consumed /\ announced <= published
      /\ published <= Len(log)
  BY DEF WordsInv, TypeOK, OrderInv, Taken
<1>3. /\ headPos \in fencedAck .. consumed
      /\ headPos > fencedAck => IsCommitEntry(log[headPos])
  BY <1>1, <1>2 DEF WindowInv, ConsumerInv, IsCommitAt, IsCommitEntry
<1>4. \/ tailPos = announced
      \/ Len(log) > announced /\ IsCommitEntry(log[Len(log)]) /\ tailPos = Len(log)
  <2>1. published = announced \/ ppc = "announce"
    BY DEF WordsInv, TypeOK, ProducerInv
  <2> QED BY <1>1, <2>1 DEF WordsInv, ProducerInv, IsCommitAt, IsCommitEntry
<1> QED BY <1>1, <1>3, <1>4 DEF Abstract!Crash

(* While the back end keeps up, the ring of ring_buffer.c with its two pairs of
   head and tail words is a log: the back end applies committed entries in
   order, each as it was written, none twice but after a crash, none skipped.
   A kill loses nothing that was committed; a power failure loses nothing that
   was committed since the last recovery, and nothing recovered either, unless
   it takes back the tail of a killed process that no commit has flushed since:
   recovery (ring_buffer.c:110-113) does not flush it. *)
THEOREM RingImplementsLog ==
    RoomFirst /\ ~UnfencedTail => (Spec => ImplementsCommittedLog)
<1> SUFFICES ASSUME RoomFirst, ~UnfencedTail PROVE Spec => ImplementsCommittedLog
  OBVIOUS
<1>1. Init => Abstract!Init
  BY DEF Init, Abstract!Init
<1>2. WordsInv /\ WindowInv /\ [Next]_vars => [Abstract!Next]_(Abstract!vars)
  <2>1. ASSUME UNCHANGED vars PROVE UNCHANGED Abstract!vars
    BY <2>1 DEF vars, Abstract!vars, consumer, history
  <2>2. Abstract!Crash => Abstract!Next
    BY DEF Abstract!Next
  <2> QED BY <2>1, <2>2, ProducerRefines, ConsumerRefines, CrashRefines DEF Next
<1>3. Abstract!Init /\ [][Abstract!Next]_(Abstract!vars) => Abstract!Spec
  BY DEF Abstract!Spec
<1> QED BY <1>1, <1>2, <1>3, WindowInvariant, PTL DEF Spec, ImplementsCommittedLog
=============================================================================
