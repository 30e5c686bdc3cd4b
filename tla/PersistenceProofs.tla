-------------------------- MODULE PersistenceProofs --------------------------
(***************************************************************************)
(* Machine-checked proofs about recovery, for every set of lines, every    *)
(* number of batches and every number of crashes, also during recovery.    *)
(*                                                                         *)
(* What recovery finds is proved for crashes at the ordinary moments       *)
(* (Circumstances = {}): after the back end's first commit, not while a    *)
(* batch with memcpys is being logged, and not while a recovered           *)
(* application executes again.  Outside them it does not hold.             *)
(***************************************************************************)
EXTENDS Persistence, SequenceTheorems, TLAPS

(* Types, and the order of the positions in the log. *)
PTypes ==
    /\ mem \in [Lines -> 0 .. MaxBatches] /\ image \in [Lines -> 0 .. MaxBatches]
    /\ shared \in BOOLEAN /\ regions \in BOOLEAN
    /\ fpc \in {"idle", "exec", "log", "commit_copy", "publish_copy", "publish", "done",
                "down", "restore", "restored"}
    /\ bpc \in {"wait", "run", "commit", "replay", "commit_replay"}
    /\ batch \in 0 .. MaxBatches /\ acknowledged \in 0 .. batch
    /\ stores \subseteq Lines /\ copies \in Seq(Lines) /\ logged \in 0 .. Len(copies)
    /\ writes \in Seq(SUBSET Lines) /\ Len(writes) = batch
    /\ crashes \in 0 .. MaxCrashes
    /\ log \in Seq(LogEntries) /\ delivered \in LogEntries
    /\ committed \in Nat /\ applied \in Nat /\ acked \in Nat
    /\ acked <= applied /\ applied <= committed /\ committed <= Len(log)
    /\ fpc = "exec" => batch > 0

Recovering == fpc \in {"down", "restore", "restored"}

(* The recovered application executes again: nothing is claimed of it, and no
   ordinary crash comes any more. *)
Rerun == shared /\ ~Recovering

(* Batch k is in the first p entries of the log, which hold no later one. *)
Holds(k, p) == \A l \in writes[k] : \E n \in 1 .. p : log[n] = [line |-> l, content |-> k]
NoneAfter(k, p) == \A n \in 1 .. p : ~IsCommitMark(log[n]) => log[n].content <= k
Upto(j, p) == NoneAfter(j, p) /\ \A k \in 1 .. j : Holds(k, p)

(* A redo entry holds what its batch wrote, and batches are logged in order. *)
LogSound ==
    /\ \A n \in 1 .. Len(log) :
           ~IsCommitMark(log[n]) =>
               log[n].content \in 1 .. batch /\ log[n].line \in writes[log[n].content]
    /\ \A m, n \in 1 .. Len(log) :
           m < n /\ ~IsCommitMark(log[m]) /\ ~IsCommitMark(log[n]) =>
               log[m].content <= log[n].content

(* What is in the log when the front end stands where it stands. *)
Between ==
    fpc \in {"idle", "done"} =>
        /\ committed = Len(log) /\ Upto(batch, committed)
        /\ stores = {} /\ copies = <<>> /\ logged = 0
        /\ fpc = "idle" => acknowledged = batch

Executing ==
    fpc = "exec" =>
        /\ committed = Len(log) /\ Upto(batch - 1, committed) /\ logged = 0
        /\ \A l \in writes[batch] : l \in stores \/ \E n \in 1 .. Len(copies) : copies[n] = l

Logging ==
    fpc \in {"log", "commit_copy", "publish_copy", "publish"} =>
        /\ \A k \in 1 .. batch - 1 : Holds(k, committed)
        /\ copies = <<>> => NoneAfter(batch - 1, committed) /\ fpc \in {"log", "publish"}
        /\ copies = <<>> /\ fpc = "log" =>
               \A n \in committed + 1 .. Len(log) : ~IsCommitMark(log[n])
        /\ \A l \in writes[batch] :
               \/ l \in stores
               \/ \E n \in logged + 1 .. Len(copies) : copies[n] = l
               \/ \E n \in 1 .. Len(log) : log[n] = [line |-> l, content |-> batch]
        /\ fpc = "publish" => stores = {} /\ logged = Len(copies)

InBatch ==
    fpc \in {"exec", "log", "commit_copy", "publish_copy", "publish"} =>
        /\ batch > 0 /\ acknowledged < batch
        /\ stores \subseteq writes[batch]
        /\ \A n \in 1 .. Len(copies) : copies[n] \in writes[batch]
        /\ \A l \in writes[batch] : mem[l] = batch

Recovery ==
    Recovering =>
        /\ committed = Len(log)
        /\ \E j \in acknowledged .. batch : Upto(j, committed)
        /\ fpc \in {"restore", "restored"} => applied = committed
        /\ fpc = "restored" => mem = image

(* A line of the image is as it was after some prefix of the log that the
   back end has applied, or will not have to apply again. *)
LastIs(p, l, c) ==
    \/ c = 0 /\ \A n \in 1 .. p : log[n].line # l
    \/ \E n \in 1 .. p : /\ log[n] = [line |-> l, content |-> c]
                         /\ \A m \in n + 1 .. p : log[m].line # l

ImageInv == \A l \in Lines : \E p \in applied .. committed : LastIs(p, l, image[l])

(* Where the processes may be. *)
PlacesInv ==
    /\ fpc = "down" <=> bpc \in {"replay", "commit_replay"}
    /\ fpc \in {"down", "restore"} => ~shared
    /\ fpc = "restored" => shared
    /\ bpc = "wait" => applied = 0 /\ ~shared /\ ~Recovering

BatchInv ==
    ~Rerun => LogSound /\ Between /\ Executing /\ Logging /\ InBatch /\ Recovery /\ ImageInv

RecoveryInv == PlacesInv /\ BatchInv

-----------------------------------------------------------------------------
(***************************************************************************)
(* Types, for every circumstance.                                          *)
(***************************************************************************)

(* Appending an entry to the log, committing, applying, acknowledging. *)
LEMMA AppendTypes ==
    ASSUME PTypes, NEW e \in LogEntries, RedoLog!AppendEntry(e)
    PROVE  /\ log' \in Seq(LogEntries) /\ Len(log') = Len(log) + 1 /\ Len(log) \in Nat
           /\ log'[Len(log) + 1] = e
           /\ \A n \in 1 .. Len(log) : log'[n] = log[n]
           /\ committed <= Len(log')
           /\ UNCHANGED <<committed, applied, acked, delivered>>
BY DEF PTypes, RedoLog!AppendEntry

(* A line of the memory, or the commit mark, as a log entry. *)
LEMMA EntryTypes ==
    ASSUME PTypes
    PROVE  /\ CommitMark \in LogEntries /\ IsCommitMark(CommitMark)
           /\ \A l \in Lines : Redo(l) \in LogEntries /\ ~IsCommitMark(Redo(l))
           /\ \A e \in LogEntries : ~IsCommitMark(e) => e.line \in Lines
BY LinesAssumption, PersistenceBounds
   DEF PTypes, CommitMark, LogEntries, IsCommitMark, Redo

(* Every step of the front end keeps the types. *)
LEMMA FrontEndTypes ==
    ASSUME PTypes, FrontEnd
    PROVE  PTypes'
<1> USE PersistenceBounds
<1>1. CASE InstrumentStart
  <2>1. writes' \in Seq(SUBSET Lines) /\ Len(writes') = batch + 1
    BY <1>1 DEF InstrumentStart, PTypes
  <2>2. batch' = batch + 1 /\ batch' \in 0 .. MaxBatches /\ acknowledged' \in 0 .. batch'
    BY <1>1 DEF InstrumentStart, PTypes
  <2> QED BY <1>1, <2>1, <2>2 DEF InstrumentStart, PTypes, memVars, section, logVars
<1>2. ASSUME NEW l \in Lines, Store(l) \/ InstrumentedMemcpy(l)
      PROVE  PTypes'
  <2>1. WriteLine(l)
    BY <1>2 DEF Store, InstrumentedMemcpy
  <2>2. mem' \in [Lines -> 0 .. MaxBatches] /\ image' \in [Lines -> 0 .. MaxBatches]
    BY <2>1 DEF WriteLine, PTypes
  <2>3. writes' \in Seq(SUBSET Lines) /\ Len(writes') = batch
    <3>1. writes \in Seq(SUBSET Lines) /\ batch \in 1 .. Len(writes) /\ Len(writes) = batch
      BY <1>2 DEF PTypes, Store, InstrumentedMemcpy
    <3>2. writes[batch] \in SUBSET Lines
      BY <3>1, ElementOfSeq
    <3>3. writes[batch] \cup {l} \in SUBSET Lines
      BY <3>2
    <3>4. writes' = [writes EXCEPT ![batch] = writes[batch] \cup {l}]
      BY <2>1 DEF WriteLine
    <3>5. /\ [writes EXCEPT ![batch] = writes[batch] \cup {l}] \in Seq(SUBSET Lines)
          /\ Len([writes EXCEPT ![batch] = writes[batch] \cup {l}]) = Len(writes)
      BY <3>1, <3>3, ExceptSeq
    <3> QED BY <3>1, <3>4, <3>5
  <2>4. stores' \subseteq Lines /\ copies' \in Seq(Lines) /\ logged' \in 0 .. Len(copies')
    <3>1. CASE Store(l)
      BY <3>1 DEF Store, PTypes
    <3>2. CASE InstrumentedMemcpy(l)
      <4>1. copies \in Seq(Lines) /\ logged \in 0 .. Len(copies)
        BY DEF PTypes
      <4>2. copies' = Append(copies, l) /\ stores' = stores /\ logged' = logged
        BY <3>2 DEF InstrumentedMemcpy
      <4>3. copies' \in Seq(Lines) /\ Len(copies') = Len(copies) + 1 /\ Len(copies) \in Nat
        BY <4>1, <4>2
      <4> QED BY <4>1, <4>2, <4>3 DEF PTypes
    <3> QED BY <1>2, <3>1, <3>2
  <2>5. /\ fpc = "exec" /\ batch > 0 /\ fpc' = fpc /\ batch' = batch
    BY <1>2, <2>1 DEF Store, InstrumentedMemcpy, WriteLine, PTypes
  <2> QED BY <2>1, <2>2, <2>3, <2>4, <2>5 DEF WriteLine, PTypes, logVars
<1>3. CASE InstrumentStop
  BY <1>3 DEF InstrumentStop, PTypes, memVars, workload, section, logVars
<1>4. CASE LogMemcpy
  <2>1. copies[logged + 1] \in Lines /\ logged' \in 0 .. Len(copies)
    BY <1>4 DEF LogMemcpy, PTypes
  <2>2. Redo(copies[logged + 1]) \in LogEntries
    BY <2>1, EntryTypes
  <2> QED BY <1>4, <2>1, <2>2, AppendTypes DEF LogMemcpy, PTypes, memVars, workload
<1>5. ASSUME NEW l \in Lines, LogStore(l)
      PROVE  PTypes'
  <2>1. Redo(l) \in LogEntries
    BY EntryTypes
  <2> QED BY <1>5, <2>1, AppendTypes DEF LogStore, PTypes, memVars, workload
<1>6. CASE LogCommit
  <2>1. CommitMark \in LogEntries
    BY EntryTypes
  <2> QED BY <1>6, <2>1, AppendTypes DEF LogCommit, PTypes, memVars, workload, section
<1>7. CASE Publish
  <2>1. committed' = Len(log) /\ UNCHANGED <<log, applied, acked, delivered>>
    BY <1>7 DEF Publish, RedoLog!Commit
  <2>2. copies' \in Seq(Lines) /\ logged' \in 0 .. Len(copies')
    <3>1. CASE copies' = <<>> /\ logged' = 0
      <4>1. <<>> \in Seq(Lines) /\ Len(<<>>) = 0
        BY EmptySeq
      <4> QED BY <3>1, <4>1
    <3>2. CASE UNCHANGED <<copies, logged>>
      BY <3>2 DEF PTypes
    <3> QED BY <1>7, <3>1, <3>2 DEF Publish
  <2> QED BY <1>7, <2>1, <2>2 DEF Publish, PTypes, memVars, workload
<1>8. CASE MarkDone
  BY <1>8 DEF MarkDone, PTypes, memVars, section, logVars
<1>9. CASE RestoreMemory
  BY <1>9 DEF RestoreMemory, PTypes, workload, section, logVars
<1>10. CASE Resume
  <2>1. writes' \in Seq(SUBSET Lines) /\ Len(writes') = batch
    <3>1. writes \in Seq(SUBSET Lines) /\ Len(writes) = batch
      BY DEF PTypes
    <3>2. CASE UNCHANGED writes
      BY <3>1, <3>2
    <3>3. CASE /\ mem # Effect(batch) /\ mem = Effect(acknowledged)
               /\ writes' = [writes EXCEPT ![batch] = {}]
      <4>1. batch # acknowledged
        BY <3>3
      <4>2. batch \in 1 .. Len(writes)
        BY <3>1, <4>1 DEF PTypes
      <4>3. /\ [writes EXCEPT ![batch] = {}] \in Seq(SUBSET Lines)
            /\ Len([writes EXCEPT ![batch] = {}]) = Len(writes)
        BY <3>1, <4>2, {} \in SUBSET Lines, ExceptSeq
      <4> QED BY <3>1, <3>3, <4>3
    <3> QED BY <1>10, <3>2, <3>3 DEF Resume
  <2> QED BY <1>10, <2>1 DEF Resume, PTypes, memVars, section, logVars
<1> QED BY <1>1, <1>2, <1>3, <1>4, <1>5, <1>6, <1>7, <1>8, <1>9, <1>10 DEF FrontEnd

(* So does every step of the back end, and a crash. *)
LEMMA BackEndTypes ==
    ASSUME PTypes, BackEnd \/ Crash \/ UNCHANGED vars
    PROVE  PTypes'
<1> USE PersistenceBounds
<1>1. CASE SynchronizeAddressSpace
  BY <1>1 DEF SynchronizeAddressSpace, Checkpoint, PTypes, workload, section, logVars
<1>2. CASE ProcessEntry
  <2>1. /\ applied < committed /\ delivered' = log[applied + 1] /\ applied' = applied + 1
        /\ UNCHANGED <<log, committed, acked>>
    BY <1>2 DEF ProcessEntry, RedoLog!Apply
  <2>2. delivered' \in LogEntries
    BY <2>1 DEF PTypes
  <2>3. /\ mem' \in [Lines -> 0 .. MaxBatches] /\ image' \in [Lines -> 0 .. MaxBatches]
        /\ bpc' \in {bpc, "commit", "commit_replay"} /\ shared' = shared
    <3>1. CASE IsCommitMark(delivered')
      BY <1>2, <3>1 DEF ProcessEntry, PTypes, memVars
    <3>2. CASE ~IsCommitMark(delivered')
      <4>1. delivered'.line \in Lines /\ delivered'.content \in 0 .. MaxBatches
        BY <2>2, <3>2 DEF LogEntries, IsCommitMark
      <4> QED BY <1>2, <3>2, <4>1 DEF ProcessEntry, PTypes
    <3> QED BY <3>1, <3>2
  <2>4. applied' \in Nat /\ acked <= applied' /\ applied' <= committed
    BY <2>1 DEF PTypes
  <2>5. bpc' \in {"wait", "run", "commit", "replay", "commit_replay"}
    BY <2>3 DEF PTypes
  <2>6. UNCHANGED <<regions, fpc, batch, acknowledged, writes, stores, copies, logged, crashes>>
    BY <1>2 DEF ProcessEntry, workload, section
  <2> QED BY <2>1, <2>2, <2>3, <2>4, <2>5, <2>6 DEF PTypes
<1>3. CASE CommitRegions
  BY <1>3 DEF CommitRegions, PTypes, memVars, workload, section, logVars
<1>4. CASE CommitDequeued
  BY <1>4 DEF CommitDequeued, RedoLog!Ack, PTypes, memVars, workload, section
<1>5. CASE ReplayDone
  BY <1>5 DEF ReplayDone, PTypes, memVars, workload, section, logVars
<1>6. CASE Crash
  <2>1. /\ committed' \in {committed, Len(log)} /\ log' = SubSeq(log, 1, committed')
        /\ applied' \in acked .. applied /\ acked' \in {acked, applied'}
        /\ UNCHANGED delivered
    BY <1>6 DEF Crash, RedoLog!Crash
  <2>2. committed' \in Nat /\ committed <= committed' /\ committed' <= Len(log)
    BY <2>1 DEF PTypes
  <2>3. log' \in Seq(LogEntries) /\ Len(log') = committed'
    <3>1. log \in Seq(LogEntries) /\ committed' \in Int /\ 1 \in Int
      BY <2>2 DEF PTypes
    <3>2. \A n \in 1 .. committed' : log[n] \in LogEntries
      BY <2>2, <3>1, ElementOfSeq
    <3>3. /\ SubSeq(log, 1, committed') \in Seq(LogEntries)
          /\ Len(SubSeq(log, 1, committed')) = IF 1 <= committed' THEN committed' - 1 + 1 ELSE 0
      BY <3>1, <3>2, SubSeqProperties
    <3>4. \A n \in Nat : (IF 1 <= n THEN n - 1 + 1 ELSE 0) = n
      OBVIOUS
    <3>5. log' = SubSeq(log, 1, committed')
      BY <2>1
    <3> QED BY <2>2, <3>3, <3>4, <3>5
  <2>4. /\ applied' \in Nat /\ acked' \in Nat /\ acked' <= applied' /\ applied' <= committed'
    BY <2>1, <2>2 DEF PTypes
  <2>5. <<>> \in Seq(Lines) /\ Len(<<>>) = 0
    BY EmptySeq
  <2>6. copies' \in Seq(Lines) /\ logged' \in 0 .. Len(copies') /\ stores' \subseteq Lines
    BY <1>6, <2>5 DEF Crash
  <2>7. /\ mem' \in [Lines -> 0 .. MaxBatches] /\ shared' \in BOOLEAN
        /\ fpc' \in {"down", "restored"} /\ bpc' \in {"replay", "wait"}
        /\ UNCHANGED <<image, regions, batch, acknowledged, writes>>
    <3>1. Checkpoint \in [Lines -> 0 .. MaxBatches]
      BY DEF Checkpoint
    <3> QED BY <1>6, <3>1 DEF Crash, workload
  <2>8. crashes' \in 0 .. MaxCrashes
    BY <1>6 DEF Crash, PTypes
  <2> QED BY <2>1, <2>2, <2>3, <2>4, <2>6, <2>7, <2>8 DEF PTypes
<1>7. CASE UNCHANGED vars
  BY <1>7 DEF vars, memVars, workload, section, logVars, PTypes
<1> QED BY <1>1, <1>2, <1>3, <1>4, <1>5, <1>6, <1>7 DEF BackEnd

(* The variables keep their types, and the positions in the log their order. *)
LEMMA PersistenceTypes == Spec => []PTypes
<1>1. Init => PTypes
  <2>1. <<>> \in Seq(Lines) /\ <<>> \in Seq(LogEntries) /\ <<>> \in Seq(SUBSET Lines) /\ Len(<<>>) = 0
    BY EmptySeq
  <2>2. CommitMark \in LogEntries /\ Checkpoint \in [Lines -> 0 .. MaxBatches]
    BY PersistenceBounds DEF CommitMark, LogEntries, Checkpoint
  <2> SUFFICES ASSUME Init PROVE PTypes
    OBVIOUS
  <2>3. /\ mem \in [Lines -> 0 .. MaxBatches] /\ image \in [Lines -> 0 .. MaxBatches]
        /\ stores \subseteq Lines /\ copies \in Seq(Lines)
        /\ writes \in Seq(SUBSET Lines) /\ log \in Seq(LogEntries) /\ delivered \in LogEntries
    BY <2>1, <2>2 DEF Init
  <2>4. Len(copies) = 0 /\ Len(writes) = 0 /\ Len(log) = 0
    BY <2>1 DEF Init
  <2>5. /\ batch \in 0 .. MaxBatches /\ acknowledged \in 0 .. batch /\ logged \in 0 .. Len(copies)
        /\ Len(writes) = batch /\ crashes \in 0 .. MaxCrashes
        /\ committed \in Nat /\ applied \in Nat /\ acked \in Nat
        /\ acked <= applied /\ applied <= committed /\ committed <= Len(log)
    BY <2>4, PersistenceBounds DEF Init
  <2> QED BY <2>3, <2>5 DEF Init, PTypes
<1>2. PTypes /\ [Next]_vars => PTypes'
  BY FrontEndTypes, BackEndTypes DEF Next
<1> QED BY <1>1, <1>2, PTL DEF Spec

(* Type correctness of the composition of front end, back end and redo log, for
   crashes at every moment, the ones that break recovery included. *)
THEOREM PersistenceTypeCorrect == Spec => []TypeOK
<1>1. PTypes => TypeOK
  <2> SUFFICES ASSUME PTypes PROVE TypeOK
    OBVIOUS
  <2>1. writes \in [1 .. batch -> SUBSET Lines]
    BY DEF PTypes
  <2> QED BY <2>1 DEF PTypes, TypeOK
<1> QED BY <1>1, PersistenceTypes, PTL

-----------------------------------------------------------------------------
(***************************************************************************)
(* Where the processes may be.                                             *)
(***************************************************************************)

(* Every step keeps the places: a back end that replays and a front end that
   waits for it go together, and a recovered front end shares the image. *)
LEMMA PlacesStay ==
    ASSUME PTypes, PlacesInv, Circumstances = {}, [Next]_vars
    PROVE  PlacesInv'
<1> USE DEF PlacesInv, Recovering
<1>1. CASE InstrumentStart
  BY <1>1 DEF InstrumentStart, memVars, logVars
<1>2. ASSUME NEW l \in Lines, Store(l) \/ InstrumentedMemcpy(l)
      PROVE  PlacesInv'
  BY <1>2 DEF Store, InstrumentedMemcpy, WriteLine, logVars
<1>3. CASE InstrumentStop
  BY <1>3 DEF InstrumentStop, memVars, logVars
<1>4. CASE LogMemcpy
  BY <1>4 DEF LogMemcpy, RedoLog!AppendEntry, memVars
<1>5. ASSUME NEW l \in Lines, LogStore(l)
      PROVE  PlacesInv'
  BY <1>5 DEF LogStore, RedoLog!AppendEntry, memVars
<1>6. CASE LogCommit
  BY <1>6 DEF LogCommit, RedoLog!AppendEntry, memVars
<1>7. CASE Publish
  BY <1>7 DEF Publish, RedoLog!Commit, memVars
<1>8. CASE MarkDone
  BY <1>8 DEF MarkDone, memVars, logVars
<1>9. CASE RestoreMemory
  BY <1>9 DEF RestoreMemory, logVars
<1>10. CASE Resume
  BY <1>10 DEF Resume, memVars, logVars
<1>11. CASE SynchronizeAddressSpace
  BY <1>11 DEF SynchronizeAddressSpace, logVars
<1>12. CASE ProcessEntry
  <2>1. UNCHANGED <<fpc, shared>>
    BY <1>12 DEF ProcessEntry, memVars
  <2>2. /\ bpc = "run" => bpc' \in {"run", "commit"}
        /\ bpc = "replay" => bpc' \in {"replay", "commit_replay"}
        /\ bpc \in {"run", "replay"}
    BY <1>12 DEF ProcessEntry
  <2> QED BY <2>1, <2>2
<1>13. CASE CommitRegions
  BY <1>13 DEF CommitRegions, memVars, logVars
<1>14. CASE CommitDequeued
  BY <1>14 DEF CommitDequeued, RedoLog!Ack, memVars
<1>15. CASE ReplayDone
  BY <1>15 DEF ReplayDone, memVars, logVars
<1>16. CASE Crash
  BY <1>16 DEF Crash
<1>17. CASE UNCHANGED vars
  BY <1>17 DEF vars, memVars, logVars
<1> QED
  BY <1>1, <1>2, <1>3, <1>4, <1>5, <1>6, <1>7, <1>8, <1>9, <1>10, <1>11, <1>12, <1>13,
     <1>14, <1>15, <1>16, <1>17 DEF Next, FrontEnd, BackEnd

(* An application that executes again after a recovery is not recovered once
   more by an ordinary crash. *)
LEMMA RerunStays ==
    ASSUME PTypes, PlacesInv, Circumstances = {}, [Next]_vars, Rerun
    PROVE  Rerun'
<1> USE DEF PlacesInv, Recovering, Rerun
<1>1. CASE InstrumentStart
  BY <1>1 DEF InstrumentStart, memVars
<1>2. ASSUME NEW l \in Lines, Store(l) \/ InstrumentedMemcpy(l) \/ LogStore(l)
      PROVE  Rerun'
  BY <1>2 DEF Store, InstrumentedMemcpy, WriteLine, LogStore, memVars
<1>3. CASE InstrumentStop \/ LogMemcpy \/ LogCommit \/ Publish \/ MarkDone
  BY <1>3 DEF InstrumentStop, LogMemcpy, LogCommit, Publish, MarkDone, memVars
<1>4. CASE RestoreMemory \/ Resume
  BY <1>4 DEF RestoreMemory, Resume, memVars
<1>5. CASE SynchronizeAddressSpace
  BY <1>5 DEF SynchronizeAddressSpace
<1>6. CASE ProcessEntry
  BY <1>6 DEF ProcessEntry, memVars
<1>7. CASE CommitRegions \/ CommitDequeued \/ ReplayDone
  BY <1>7 DEF CommitRegions, CommitDequeued, ReplayDone, memVars
<1>8. CASE Crash
  BY <1>8 DEF Crash
<1>9. CASE UNCHANGED vars
  BY <1>9 DEF vars, memVars
<1> QED BY <1>1, <1>2, <1>3, <1>4, <1>5, <1>6, <1>7, <1>8, <1>9 DEF Next, FrontEnd, BackEnd

-----------------------------------------------------------------------------
(***************************************************************************)
(* Lemmas about what the log holds.                                        *)
(***************************************************************************)

(* The numbers behind the types. *)
LEMMA Numbers ==
    ASSUME PTypes
    PROVE  /\ Len(log) \in Nat /\ committed \in Nat /\ applied \in Nat
           /\ applied <= committed /\ committed <= Len(log)
           /\ batch \in Nat /\ acknowledged \in Nat /\ acknowledged <= batch
           /\ Len(copies) \in Nat /\ logged \in Nat /\ logged <= Len(copies)
           /\ Len(writes) = batch
           /\ \A n \in 1 .. Len(log) : log[n] \in LogEntries
BY PersistenceBounds DEF PTypes

(* What the log holds of the first j batches in its first p entries stays when
   neither those entries nor those batches change. *)
LEMMA UptoKept ==
    ASSUME NEW j \in Nat, NEW p \in Nat, Upto(j, p),
           \A n \in 1 .. p : log'[n] = log[n],
           \A k \in 1 .. j : writes'[k] = writes[k]
    PROVE  Upto(j, p)'
<1>1. NoneAfter(j, p)'
  BY DEF Upto, NoneAfter
<1>2. ASSUME NEW k \in 1 .. j
      PROVE  Holds(k, p)'
  <2>1. Holds(k, p) /\ writes'[k] = writes[k]
    BY DEF Upto
  <2> QED BY <2>1 DEF Holds
<1> QED BY <1>1, <1>2 DEF Upto

(* An entry of the batch that is being logged, or a commit mark, keeps the log
   sound. *)
LEMMA LogGrows ==
    ASSUME PTypes, LogSound, NEW e \in LogEntries, RedoLog!AppendEntry(e),
           ~IsCommitMark(e) => e.content = batch /\ batch > 0 /\ e.line \in writes[batch],
           UNCHANGED <<batch, writes>>
    PROVE  LogSound'
<1>1. /\ Len(log') = Len(log) + 1 /\ Len(log) \in Nat /\ log'[Len(log) + 1] = e
      /\ \A n \in 1 .. Len(log) : log'[n] = log[n]
  BY AppendTypes
<1>2. \A n \in 1 .. Len(log') : n \in 1 .. Len(log) \/ n = Len(log) + 1
  BY <1>1
<1>3. \A n \in 1 .. Len(log) : ~IsCommitMark(log[n]) =>
          log[n].content \in 1 .. batch /\ log[n].line \in writes[log[n].content]
  BY DEF LogSound
<1>4. batch \in Nat
  BY Numbers
<1>5. ASSUME NEW n \in 1 .. Len(log'), ~IsCommitMark(log'[n])
      PROVE  log'[n].content \in 1 .. batch /\ log'[n].line \in writes[log'[n].content]
  <2>1. CASE n \in 1 .. Len(log)
    BY <1>1, <1>3, <1>5, <2>1
  <2>2. CASE n = Len(log) + 1
    BY <1>1, <1>4, <1>5, <2>2
  <2> QED BY <1>2, <2>1, <2>2
<1>6. ASSUME NEW m \in 1 .. Len(log'), NEW n \in 1 .. Len(log'), m < n,
             ~IsCommitMark(log'[m]), ~IsCommitMark(log'[n])
      PROVE  log'[m].content <= log'[n].content
  <2>1. m \in 1 .. Len(log)
    BY <1>1, <1>2, <1>6
  <2>2. CASE n \in 1 .. Len(log)
    BY <1>1, <1>6, <2>1, <2>2 DEF LogSound
  <2>3. CASE n = Len(log) + 1
    <3>1. log'[n].content = batch
      BY <1>1, <1>6, <2>3
    <3>2. log'[m].content \in 1 .. batch
      BY <1>5, <1>6
    <3> QED BY <1>4, <3>1, <3>2
  <2> QED BY <1>2, <2>2, <2>3
<1> QED BY <1>5, <1>6 DEF LogSound

(* A line of the image stays explained while the log keeps its committed
   entries, whatever is committed later or must be applied again. *)
LEMMA ImageKept ==
    ASSUME PTypes, PTypes', ImageInv, image' = image,
           \A n \in 1 .. committed : log'[n] = log[n],
           applied' <= applied, committed <= committed'
    PROVE  ImageInv'
<1>1. /\ applied \in Nat /\ committed \in Nat /\ applied' \in Nat /\ committed' \in Nat
  BY DEF PTypes
<1> SUFFICES ASSUME NEW l \in Lines
             PROVE  \E p \in applied' .. committed' : LastIs(p, l, image[l])'
  BY DEF ImageInv
<1>2. PICK p \in applied .. committed : LastIs(p, l, image[l])
  BY DEF ImageInv
<1>3. p \in applied' .. committed' /\ p \in Nat /\ p <= committed
  BY <1>1, <1>2
<1>4. \A n \in 1 .. p : log'[n] = log[n]
  BY <1>1, <1>3
<1>5. image'[l] = image[l]
  OBVIOUS
<1>6. LastIs(p, l, image[l])'
  <2>1. CASE image[l] = 0 /\ \A n \in 1 .. p : log[n].line # l
    BY <1>4, <1>5, <2>1 DEF LastIs
  <2>2. CASE \E n \in 1 .. p : /\ log[n] = [line |-> l, content |-> image[l]]
                              /\ \A m \in n + 1 .. p : log[m].line # l
    <3>1. PICK n \in 1 .. p : /\ log[n] = [line |-> l, content |-> image[l]]
                             /\ \A m \in n + 1 .. p : log[m].line # l
      BY <2>2
    <3>2. \A m \in n + 1 .. p : m \in 1 .. p
      BY <1>3
    <3>3. \A m \in n + 1 .. p : log'[m].line # l
      BY <1>4, <3>1, <3>2
    <3>4. log'[n] = [line |-> l, content |-> image'[l]]
      BY <1>4, <1>5, <3>1
    <3> QED BY <3>3, <3>4 DEF LastIs
  <2> QED BY <1>2, <2>1, <2>2 DEF LastIs
<1> QED BY <1>3, <1>6

(* The back end applies the next entry: the line it writes is now as after
   that entry, and every other line is as it was. *)
LEMMA ImageApplied ==
    ASSUME PTypes, PTypes', ImageInv, LogSound, ProcessEntry
    PROVE  ImageInv'
<1>1. /\ applied < committed /\ delivered' = log[applied + 1] /\ applied' = applied + 1
      /\ UNCHANGED <<log, committed>>
  BY DEF ProcessEntry, RedoLog!Apply
<1>2. applied \in Nat /\ committed \in Nat /\ committed <= Len(log) /\ Len(log) \in Nat
  BY Numbers
<1>3. delivered' \in LogEntries
  BY DEF PTypes
<1> SUFFICES ASSUME NEW l \in Lines
             PROVE  \E p \in applied' .. committed : LastIs(p, l, image[l])'
  BY <1>1 DEF ImageInv
<1>4. l # "commit"
  BY LinesAssumption
<1>5. applied + 1 \in applied' .. committed
  BY <1>1, <1>2
<1>6. CASE delivered'.line = l
  <2>1. ~IsCommitMark(delivered')
    BY <1>4, <1>6 DEF IsCommitMark
  <2>2. image'[l] = delivered'.content
    BY <1>6, <2>1 DEF ProcessEntry, PTypes
  <2>3. log[applied + 1] = [line |-> l, content |-> image'[l]]
    BY <1>1, <1>3, <1>6, <2>2 DEF LogEntries
  <2>4. applied + 1 \in 1 .. applied + 1 /\ \A m \in applied + 1 + 1 .. applied + 1 : log[m].line # l
    BY <1>2
  <2>5. LastIs(applied + 1, l, image'[l])
    BY <2>3, <2>4 DEF LastIs
  <2> QED BY <1>1, <1>5, <2>5 DEF LastIs
<1>7. CASE delivered'.line # l
  <2>1. image'[l] = image[l]
    <3>1. CASE IsCommitMark(delivered')
      BY <3>1 DEF ProcessEntry, memVars
    <3>2. CASE ~IsCommitMark(delivered')
      BY <1>7, <3>2 DEF ProcessEntry, PTypes
    <3> QED BY <3>1, <3>2
  <2>2. PICK p \in applied .. committed : LastIs(p, l, image[l])
    BY DEF ImageInv
  <2>3. CASE p > applied
    <3>1. p \in applied' .. committed
      BY <1>1, <1>2, <2>3
    <3> QED BY <1>1, <2>1, <2>2, <3>1 DEF LastIs
  <2>4. CASE p = applied
    <3>1. \A n \in 1 .. applied + 1 : n \in 1 .. applied \/ n = applied + 1
      BY <1>2
    <3>2. log[applied + 1].line # l
      BY <1>1, <1>7
    <3>3. LastIs(applied + 1, l, image[l])
      <4>1. CASE image[l] = 0 /\ \A n \in 1 .. p : log[n].line # l
        BY <2>4, <3>1, <3>2, <4>1 DEF LastIs
      <4>2. CASE \E n \in 1 .. p : /\ log[n] = [line |-> l, content |-> image[l]]
                                  /\ \A m \in n + 1 .. p : log[m].line # l
        <5>1. PICK n \in 1 .. p : /\ log[n] = [line |-> l, content |-> image[l]]
                                 /\ \A m \in n + 1 .. p : log[m].line # l
          BY <4>2
        <5>2. \A m \in n + 1 .. applied + 1 : m \in n + 1 .. p \/ m = applied + 1
          BY <1>2, <2>4
        <5>3. n \in 1 .. applied + 1
          BY <1>2, <2>4
        <5> QED BY <3>2, <5>1, <5>2, <5>3 DEF LastIs
      <4> QED BY <2>2, <4>1, <4>2 DEF LastIs
    <3> QED BY <1>1, <1>5, <2>1, <3>3 DEF LastIs
  <2> QED BY <1>2, <2>2, <2>3, <2>4
<1> QED BY <1>6, <1>7

(* The memory after the first j batches holds, in a line that batch c wrote
   and no later one of them, the number c. *)
LEMMA EffectIsLast ==
    ASSUME NEW j \in Nat, NEW l \in Lines, NEW c \in 1 .. j, l \in writes[c],
           \A k \in 1 .. j : l \in writes[k] => k <= c
    PROVE  Effect(j)[l] = c
<1> DEFINE ks == {k \in 1 .. j : l \in writes[k]}
           last == CHOOSE k \in ks : \A m \in ks : m <= k
<1>1. c \in ks /\ \A m \in ks : m <= c
  OBVIOUS
<1>2. last \in ks /\ \A m \in ks : m <= last
  BY <1>1
<1>3. last = c
  <2>1. last <= c /\ c <= last /\ last \in Nat /\ c \in Nat
    BY <1>1, <1>2
  <2> QED BY <2>1
<1>4. Effect(j)[l] = IF ks = {} THEN 0 ELSE last
  BY DEF Effect
<1> QED BY <1>1, <1>3, <1>4

(* The last entry for a line in the committed log is what the first j batches
   left in it, when the log holds these batches and no later one. *)
LEMMA LastIsEffect ==
    ASSUME PTypes, LogSound, NEW j \in Nat, j <= batch, Upto(j, committed),
           NEW l \in Lines, NEW c, LastIs(committed, l, c)
    PROVE  c = Effect(j)[l]
<1>1. /\ committed \in Nat /\ committed <= Len(log) /\ Len(log) \in Nat /\ batch \in Nat
      /\ \A n \in 1 .. committed : n \in 1 .. Len(log)
  BY Numbers
<1>2. \A k \in 1 .. j : l \in writes[k] =>
          \E n \in 1 .. committed : log[n] = [line |-> l, content |-> k]
  BY DEF Upto, Holds
<1>3. CASE c = 0 /\ \A n \in 1 .. committed : log[n].line # l
  <2>1. {k \in 1 .. j : l \in writes[k]} = {}
    <3>1. ASSUME NEW k \in 1 .. j, l \in writes[k]
          PROVE  FALSE
      <4>1. PICK n \in 1 .. committed : log[n] = [line |-> l, content |-> k]
        BY <1>2, <3>1
      <4>2. log[n].line = l
        BY <4>1
      <4> QED BY <1>3, <4>2
    <3> QED BY <3>1
  <2> QED BY <1>3, <2>1 DEF Effect
<1>4. CASE \E n \in 1 .. committed : /\ log[n] = [line |-> l, content |-> c]
                                    /\ \A m \in n + 1 .. committed : log[m].line # l
  <2>1. PICK n \in 1 .. committed : /\ log[n] = [line |-> l, content |-> c]
                                   /\ \A m \in n + 1 .. committed : log[m].line # l
    BY <1>4
  <2>2. ~IsCommitMark(log[n]) /\ log[n].line = l /\ log[n].content = c
    BY <2>1, LinesAssumption DEF IsCommitMark
  <2>3. c \in 1 .. batch /\ l \in writes[c]
    BY <1>1, <2>2 DEF LogSound
  <2>4. c <= j
    BY <2>2 DEF Upto, NoneAfter
  <2>5. c \in 1 .. j
    BY <1>1, <2>3, <2>4
  <2>6. ASSUME NEW k \in 1 .. j, l \in writes[k]
        PROVE  k <= c
    <3>1. PICK m \in 1 .. committed : log[m] = [line |-> l, content |-> k]
      BY <1>2, <2>6
    <3>2. ~IsCommitMark(log[m]) /\ log[m].line = l /\ log[m].content = k
      BY <3>1, LinesAssumption DEF IsCommitMark
    <3>3. m <= n
      <4>1. m \notin n + 1 .. committed
        BY <2>1, <3>2
      <4> QED BY <1>1, <4>1
    <3>4. CASE m = n
      BY <2>2, <2>5, <3>2, <3>4
    <3>5. CASE m < n
      <4>1. log[m].content <= log[n].content
        BY <1>1, <2>2, <3>2, <3>5 DEF LogSound
      <4> QED BY <2>2, <3>2, <4>1
    <3> QED BY <1>1, <3>3, <3>4, <3>5
  <2> QED BY <2>3, <2>5, <2>6, EffectIsLast
<1> QED BY <1>3, <1>4 DEF LastIs

(* An image whose back end has applied everything is the memory after these
   batches. *)
LEMMA ImageIsEffect ==
    ASSUME PTypes, LogSound, ImageInv, applied = committed,
           NEW j \in Nat, j <= batch, Upto(j, committed)
    PROVE  image = Effect(j)
<1>1. ASSUME NEW l \in Lines
      PROVE  image[l] = Effect(j)[l]
  <2>1. committed \in Nat
    BY Numbers
  <2>2. PICK p \in committed .. committed : LastIs(p, l, image[l])
    BY DEF ImageInv
  <2>3. p = committed
    BY <2>1, <2>2
  <2> QED BY <2>2, <2>3, LastIsEffect
<1>2. image \in [Lines -> 0 .. MaxBatches]
  BY DEF PTypes
<1>3. Effect(j) = [l \in Lines |-> Effect(j)[l]]
  BY DEF Effect
<1> QED BY <1>1, <1>2, <1>3

-----------------------------------------------------------------------------
(***************************************************************************)
(* The batches, one action at a time.                                      *)
(***************************************************************************)

(* instrument_start opens a batch that has written nothing. *)
LEMMA StartKeepsBatches ==
    ASSUME PTypes, PTypes', PlacesInv, BatchInv, ~Rerun, InstrumentStart
    PROVE  BatchInv'
<1>1. /\ fpc = "idle" /\ fpc' = "exec" /\ batch' = batch + 1 /\ writes' = Append(writes, {})
      /\ UNCHANGED <<mem, image, shared, stores, copies, logged, acknowledged, log, committed,
                     applied>>
  BY DEF InstrumentStart, memVars, section, logVars
<1>2. /\ LogSound /\ ImageInv /\ committed = Len(log) /\ Upto(batch, committed)
      /\ stores = {} /\ copies = <<>> /\ logged = 0 /\ acknowledged = batch
  BY <1>1 DEF BatchInv, Between
<1>3. batch \in Nat /\ committed \in Nat /\ Len(log) \in Nat
  BY Numbers
<1>4. /\ \A k \in 1 .. batch : writes'[k] = writes[k]
      /\ writes'[batch + 1] = {}
  BY <1>1 DEF PTypes
<1>5. LogSound'
  <2>1. \A n \in 1 .. Len(log) : ~IsCommitMark(log[n]) =>
            log[n].content \in 1 .. batch /\ log[n].line \in writes[log[n].content]
    BY <1>2 DEF LogSound
  <2>2. \A k \in 1 .. batch : k \in 1 .. batch + 1
    BY <1>3
  <2>3. \A n \in 1 .. Len(log) : ~IsCommitMark(log[n]) =>
            log[n].content \in 1 .. batch + 1 /\ log[n].line \in writes'[log[n].content]
    BY <1>4, <2>1, <2>2
  <2> QED BY <1>1, <1>2, <2>3 DEF LogSound
<1>6. Executing'
  <2>1. PICK j \in Nat, p \in Nat : j = batch /\ p = committed
    BY <1>3
  <2>2. Upto(j, p)'
    BY <1>1, <1>2, <1>4, <2>1, UptoKept
  <2>3. j = batch' - 1 /\ p = committed'
    BY <1>1, <1>3, <2>1
  <2>4. Upto(batch - 1, committed)'
    BY <2>2, <2>3 DEF Upto, NoneAfter, Holds
  <2>5. writes'[batch'] = {}
    BY <1>1, <1>4
  <2> QED BY <1>1, <1>2, <2>4, <2>5 DEF Executing
<1>7. InBatch'
  <2>1. batch' > 0 /\ acknowledged' < batch'
    BY <1>1, <1>2, <1>3
  <2>2. writes'[batch'] = {} /\ stores' = {} /\ copies' = <<>>
    BY <1>1, <1>2, <1>4
  <2>3. \A n \in 1 .. Len(copies') : FALSE
    BY <2>2
  <2> QED BY <2>1, <2>2, <2>3 DEF InBatch
<1>8. ImageInv'
  BY <1>1, <1>2, <1>3, Numbers, ImageKept
<1> QED
  BY <1>1, <1>5, <1>6, <1>7, <1>8 DEF BatchInv, Between, Logging, Recovery, Recovering

(* A store or a memcpy of the batch: the line is written, remembered, and its
   content is the batch. *)
LEMMA WriteKeepsBatches ==
    ASSUME PTypes, PTypes', PlacesInv, BatchInv, ~Rerun,
           NEW l \in Lines, Store(l) \/ InstrumentedMemcpy(l)
    PROVE  BatchInv'
<1>1. /\ fpc = "exec" /\ fpc' = "exec" /\ WriteLine(l)
      /\ UNCHANGED <<batch, shared, acknowledged, log, committed, applied, logged>>
  BY DEF Store, InstrumentedMemcpy, WriteLine, logVars
<1>2. ~shared /\ image' = image
  BY <1>1 DEF Rerun, Recovering, WriteLine
<1>3. LogSound /\ ImageInv /\ Executing /\ InBatch
  BY DEF BatchInv
<1>4. batch \in Nat /\ batch > 0 /\ committed \in Nat /\ Len(log) \in Nat
  BY <1>1, <1>3, Numbers DEF InBatch
<1>5. /\ writes'[batch] = writes[batch] \cup {l}
      /\ \A k \in 1 .. batch : k # batch => writes'[k] = writes[k]
      /\ mem' = [mem EXCEPT ![l] = batch]
  BY <1>1, <1>4 DEF WriteLine, PTypes
<1>6. LogSound'
  <2>1. \A k \in 1 .. batch : writes[k] \subseteq writes'[k]
    BY <1>5
  <2>2. \A n \in 1 .. Len(log) : ~IsCommitMark(log[n]) =>
            log[n].content \in 1 .. batch /\ log[n].line \in writes'[log[n].content]
    BY <1>3, <2>1 DEF LogSound
  <2> QED BY <1>1, <1>3, <2>2 DEF LogSound
<1>7. /\ \A i \in stores : i \in stores'
      /\ \A n \in 1 .. Len(copies) : n \in 1 .. Len(copies') /\ copies'[n] = copies[n]
      /\ l \in stores' \/ \E n \in 1 .. Len(copies') : copies'[n] = l
      /\ \A i \in stores' : i \in stores \/ i = l
      /\ \A n \in 1 .. Len(copies') : (n \in 1 .. Len(copies) /\ copies'[n] = copies[n]) \/ copies'[n] = l
  <2>1. CASE Store(l)
    BY <2>1 DEF Store
  <2>2. CASE InstrumentedMemcpy(l)
    <3>1. copies \in Seq(Lines) /\ copies' = Append(copies, l) /\ stores' = stores
      BY <2>2 DEF InstrumentedMemcpy, PTypes
    <3>2. /\ Len(copies') = Len(copies) + 1 /\ Len(copies) \in Nat /\ copies'[Len(copies) + 1] = l
          /\ \A n \in 1 .. Len(copies) : copies'[n] = copies[n]
      BY <3>1
    <3>3. /\ \A n \in 1 .. Len(copies) : n \in 1 .. Len(copies')
          /\ Len(copies) + 1 \in 1 .. Len(copies')
          /\ \A n \in 1 .. Len(copies') : n \in 1 .. Len(copies) \/ n = Len(copies) + 1
      BY <3>2
    <3> QED BY <3>1, <3>2, <3>3
  <2> QED BY <2>1, <2>2
<1>8. Executing'
  <2>1. PICK j \in Nat, p \in Nat : j = batch - 1 /\ p = committed
    BY <1>4
  <2>2. \A k \in 1 .. j : writes'[k] = writes[k]
    BY <1>4, <1>5, <2>1
  <2>3. Upto(j, p)
    BY <1>1, <1>3, <2>1 DEF Executing
  <2>4. Upto(j, p)'
    BY <1>1, <2>2, <2>3, UptoKept
  <2>5. j = batch' - 1 /\ p = committed'
    BY <1>1, <2>1
  <2>6. Upto(batch - 1, committed)'
    BY <2>4, <2>5 DEF Upto, NoneAfter, Holds
  <2>7. \A i \in writes[batch] : i \in stores \/ \E n \in 1 .. Len(copies) : copies[n] = i
    BY <1>1, <1>3 DEF Executing
  <2>8. \A i \in writes'[batch] : i \in stores' \/ \E n \in 1 .. Len(copies') : copies'[n] = i
    BY <1>5, <1>7, <2>7
  <2>9. committed' = Len(log') /\ logged' = 0
    BY <1>1, <1>3 DEF Executing
  <2> QED BY <1>1, <2>6, <2>8, <2>9 DEF Executing
<1>9. InBatch'
  <2>1. /\ stores \subseteq writes[batch] /\ acknowledged < batch
        /\ \A n \in 1 .. Len(copies) : copies[n] \in writes[batch]
        /\ \A i \in writes[batch] : mem[i] = batch
    BY <1>1, <1>3 DEF InBatch
  <2>2. stores' \subseteq writes'[batch]
    BY <1>5, <1>7, <2>1
  <2>3. \A n \in 1 .. Len(copies') : copies'[n] \in writes'[batch]
    BY <1>5, <1>7, <2>1
  <2>4. writes[batch] \subseteq Lines /\ mem \in [Lines -> 0 .. MaxBatches]
    <3>1. writes \in Seq(SUBSET Lines) /\ batch \in 1 .. Len(writes)
      BY <1>4 DEF PTypes
    <3>2. writes[batch] \in SUBSET Lines
      BY <3>1, ElementOfSeq
    <3> QED BY <3>2 DEF PTypes
  <2>5. \A i \in writes'[batch] : mem'[i] = batch
    BY <1>5, <2>1, <2>4
  <2> QED BY <1>1, <1>4, <2>1, <2>2, <2>3, <2>5 DEF InBatch
<1>10. ImageInv'
  BY <1>1, <1>2, <1>3, <1>4, Numbers, ImageKept
<1> QED
  BY <1>1, <1>6, <1>8, <1>9, <1>10 DEF BatchInv, Between, Logging, Recovery, Recovering

(* instrument_stop begins to log what the batch wrote. *)
LEMMA StopKeepsBatches ==
    ASSUME PTypes, PTypes', PlacesInv, BatchInv, ~Rerun, InstrumentStop
    PROVE  BatchInv'
<1>1. /\ fpc = "exec" /\ fpc' = "log"
      /\ UNCHANGED <<mem, image, shared, batch, acknowledged, writes, stores, copies, logged,
                     log, committed, applied>>
  BY DEF InstrumentStop, memVars, workload, section, logVars
<1>2. LogSound /\ ImageInv /\ Executing /\ InBatch
  BY DEF BatchInv
<1>3. LogSound' /\ ImageInv'
  BY <1>1, <1>2 DEF LogSound, ImageInv, LastIs
<1>4. InBatch'
  BY <1>1, <1>2 DEF InBatch
<1>5. Logging'
  <2>1. /\ committed = Len(log) /\ Upto(batch - 1, committed) /\ logged = 0
        /\ \A l \in writes[batch] : l \in stores \/ \E n \in 1 .. Len(copies) : copies[n] = l
    BY <1>1, <1>2 DEF Executing
  <2>2. /\ \A k \in 1 .. batch - 1 : Holds(k, committed)
        /\ NoneAfter(batch - 1, committed)
    BY <2>1 DEF Upto
  <2>3. /\ (\A k \in 1 .. batch - 1 : Holds(k, committed))'
        /\ NoneAfter(batch - 1, committed)'
    BY <1>1, <2>2 DEF Holds, NoneAfter
  <2>4. \A n \in committed + 1 .. Len(log) : FALSE
    BY <2>1, Numbers
  <2>5. \A l \in writes[batch] : l \in stores \/ \E n \in logged + 1 .. Len(copies) : copies[n] = l
    BY <2>1
  <2> QED BY <1>1, <2>3, <2>4, <2>5 DEF Logging
<1> QED
  BY <1>1, <1>3, <1>4, <1>5 DEF BatchInv, Between, Executing, Recovery, Recovering

(* instrument_stop appends an entry, of a memcpy, of a line of the hash set or
   a commit: nothing of the batch is forgotten, and nothing else is logged. *)
LEMMA AppendKeepsBatches ==
    ASSUME PTypes, PTypes', PlacesInv, BatchInv, ~Rerun,
           NEW e \in LogEntries, RedoLog!AppendEntry(e),
           ~IsCommitMark(e) => e.content = batch /\ e.line \in writes[batch],
           fpc \in {"log", "commit_copy"},
           fpc' \in {"log", "commit_copy", "publish_copy", "publish"},
           UNCHANGED <<batch, writes, mem, image, shared, acknowledged, copies>>,
           stores' \subseteq stores,
           \A l \in stores : l \in stores' \/ e = [line |-> l, content |-> batch],
           \A n \in logged + 1 .. Len(copies) :
               n \in logged' + 1 .. Len(copies) \/ e = [line |-> copies[n], content |-> batch],
           copies = <<>> => fpc' \in {"log", "publish"},
           copies = <<>> /\ fpc' = "log" => fpc = "log" /\ ~IsCommitMark(e),
           fpc' = "publish" => stores' = {} /\ logged' = Len(copies)
    PROVE  BatchInv'
<1>1. LogSound /\ ImageInv /\ Logging /\ InBatch
  BY DEF BatchInv
<1>2. /\ batch \in Nat /\ committed \in Nat /\ Len(log) \in Nat /\ committed <= Len(log)
      /\ applied \in Nat
  BY Numbers
<1>3. /\ batch > 0 /\ acknowledged < batch /\ stores \subseteq writes[batch]
      /\ \A n \in 1 .. Len(copies) : copies[n] \in writes[batch]
      /\ \A l \in writes[batch] : mem[l] = batch
  BY <1>1 DEF InBatch
<1>4. /\ Len(log') = Len(log) + 1 /\ log'[Len(log) + 1] = e
      /\ \A n \in 1 .. Len(log) : log'[n] = log[n]
      /\ UNCHANGED <<committed, applied>>
  BY AppendTypes
<1>5. \A n \in 1 .. committed : n \in 1 .. Len(log) /\ log'[n] = log[n]
  BY <1>2, <1>4
<1>6. LogSound'
  BY <1>1, <1>3, LogGrows
<1>7. ImageInv'
  BY <1>1, <1>2, <1>4, <1>5, ImageKept
<1>8. InBatch'
  BY <1>3 DEF InBatch
<1>9. Logging'
  <2>1. /\ \A k \in 1 .. batch - 1 : Holds(k, committed)
        /\ copies = <<>> => NoneAfter(batch - 1, committed)
        /\ copies = <<>> /\ fpc = "log" =>
               \A n \in committed + 1 .. Len(log) : ~IsCommitMark(log[n])
        /\ \A l \in writes[batch] :
               \/ l \in stores
               \/ \E n \in logged + 1 .. Len(copies) : copies[n] = l
               \/ \E n \in 1 .. Len(log) : log[n] = [line |-> l, content |-> batch]
    BY <1>1 DEF Logging
  <2>2. (\A k \in 1 .. batch - 1 : Holds(k, committed))'
    BY <1>4, <1>5, <2>1 DEF Holds
  <2>3. (copies = <<>> => NoneAfter(batch - 1, committed))'
    BY <1>4, <1>5, <2>1 DEF NoneAfter
  <2>4. ASSUME copies' = <<>>, fpc' = "log", NEW n \in committed + 1 .. Len(log')
        PROVE  ~IsCommitMark(log'[n])
    <3>1. CASE n = Len(log) + 1
      BY <1>4, <2>4, <3>1
    <3>2. CASE n \in committed + 1 .. Len(log)
      <4>1. n \in 1 .. Len(log)
        BY <1>2, <3>2
      <4> QED BY <1>4, <2>1, <2>4, <3>2, <4>1
    <3> QED BY <1>2, <1>4, <3>1, <3>2
  <2>5. \A n \in 1 .. Len(log) : n \in 1 .. Len(log')
    BY <1>2, <1>4
  <2>6. Len(log) + 1 \in 1 .. Len(log')
    BY <1>2, <1>4
  <2>7. ASSUME NEW l \in writes[batch]
        PROVE  \/ l \in stores'
               \/ \E n \in logged' + 1 .. Len(copies) : copies[n] = l
               \/ \E n \in 1 .. Len(log') : log'[n] = [line |-> l, content |-> batch]
    <3>1. CASE e = [line |-> l, content |-> batch]
      BY <1>4, <2>6, <3>1
    <3>2. CASE l \in stores /\ e # [line |-> l, content |-> batch]
      BY <3>2
    <3>3. CASE /\ \E n \in logged + 1 .. Len(copies) : copies[n] = l
               /\ e # [line |-> l, content |-> batch]
      BY <3>3
    <3>4. CASE \E n \in 1 .. Len(log) : log[n] = [line |-> l, content |-> batch]
      BY <1>4, <2>5, <3>4
    <3> QED BY <2>1, <3>1, <3>2, <3>3, <3>4
  <2> QED BY <1>4, <2>2, <2>3, <2>4, <2>7 DEF Logging
<1> QED
  BY <1>6, <1>7, <1>8, <1>9 DEF BatchInv, Between, Executing, Recovery, Recovering

(* The three actions that append. *)
LEMMA LoggingKeepsBatches ==
    ASSUME PTypes, PTypes', PlacesInv, BatchInv, ~Rerun,
           LogMemcpy \/ LogCommit \/ \E l \in Lines : LogStore(l)
    PROVE  BatchInv'
<1>1. /\ fpc \in {"log", "commit_copy"}
      /\ UNCHANGED <<batch, writes, mem, image, shared, acknowledged, copies>>
  BY DEF LogMemcpy, LogCommit, LogStore, memVars, workload, section
<1>2. /\ stores \subseteq writes[batch] /\ \A l \in writes[batch] : mem[l] = batch
      /\ \A n \in 1 .. Len(copies) : copies[n] \in writes[batch]
  BY <1>1 DEF BatchInv, InBatch
<1>3. copies = <<>> => fpc \in {"log", "publish"}
  BY <1>1 DEF BatchInv, Logging
<1>4. Len(copies) \in Nat /\ logged \in Nat /\ logged <= Len(copies)
  BY Numbers
<1>5. CASE LogMemcpy
  <2> DEFINE l == copies[logged + 1]
             e == Redo(l)
  <2>1. /\ fpc = "log" /\ logged < Len(copies) /\ RedoLog!AppendEntry(e)
        /\ logged' = logged + 1 /\ fpc' = "commit_copy" /\ stores' = stores
    BY <1>5 DEF LogMemcpy
  <2>2. logged + 1 \in 1 .. Len(copies)
    BY <1>4, <2>1
  <2>3. l \in Lines
    BY <2>2, ElementOfSeq DEF PTypes
  <2>4. mem[l] = batch /\ l \in writes[batch]
    BY <1>2, <2>2
  <2>5. e \in LogEntries /\ e = [line |-> l, content |-> batch]
    BY <2>3, <2>4, EntryTypes DEF Redo
  <2>6. e.content = batch /\ e.line \in writes[batch]
    BY <2>4, <2>5
  <2>7. \A n \in logged + 1 .. Len(copies) :
            n \in logged' + 1 .. Len(copies) \/ e = [line |-> copies[n], content |-> batch]
    <3>1. \A n \in logged + 1 .. Len(copies) : n \in logged' + 1 .. Len(copies) \/ n = logged + 1
      BY <1>4, <2>1
    <3> QED BY <2>5, <3>1
  <2>8. copies # <<>>
    BY <1>4, <2>1
  <2> HIDE DEF e, l
  <2> QED BY <1>1, <2>1, <2>5, <2>6, <2>7, <2>8, AppendKeepsBatches
<1>6. ASSUME NEW l \in Lines, LogStore(l)
      PROVE  BatchInv'
  <2> DEFINE e == Redo(l)
  <2>1. /\ fpc = "log" /\ logged = Len(copies) /\ l \in stores /\ RedoLog!AppendEntry(e)
        /\ stores' = stores \ {l} /\ UNCHANGED <<fpc, logged>>
    BY <1>6 DEF LogStore
  <2>2. mem[l] = batch /\ l \in writes[batch]
    BY <1>2, <2>1
  <2>3. e \in LogEntries /\ ~IsCommitMark(e) /\ e = [line |-> l, content |-> batch]
    BY <2>2, EntryTypes DEF Redo
  <2>4. e.content = batch /\ e.line \in writes[batch]
    BY <2>2, <2>3
  <2>5. /\ stores' \subseteq stores
        /\ \A i \in stores : i \in stores' \/ e = [line |-> i, content |-> batch]
    BY <2>1, <2>3
  <2> HIDE DEF e
  <2> QED BY <1>1, <2>1, <2>3, <2>4, <2>5, AppendKeepsBatches
<1>7. CASE LogCommit
  <2>1. /\ RedoLog!AppendEntry(CommitMark) /\ UNCHANGED <<stores, logged>>
        /\ \/ fpc = "commit_copy" /\ fpc' = "publish_copy"
           \/ fpc = "log" /\ logged = Len(copies) /\ stores = {} /\ fpc' = "publish"
    BY <1>7 DEF LogCommit, section
  <2>2. CommitMark \in LogEntries /\ IsCommitMark(CommitMark)
    BY EntryTypes
  <2>3. copies = <<>> => fpc' = "publish"
    BY <1>3, <2>1
  <2> QED BY <1>1, <2>1, <2>2, <2>3, AppendKeepsBatches
<1> QED BY <1>5, <1>6, <1>7

(* When everything the batch wrote is logged, the log holds this batch and no
   later one. *)
LEMMA AllLogged ==
    ASSUME PTypes, LogSound, Logging, InBatch, fpc = "publish"
    PROVE  Upto(batch, Len(log))
<1>1. /\ batch \in Nat /\ committed \in Nat /\ Len(log) \in Nat /\ committed <= Len(log)
      /\ Len(copies) \in Nat
  BY Numbers
<1>2. /\ \A k \in 1 .. batch - 1 : Holds(k, committed)
      /\ stores = {} /\ logged = Len(copies)
      /\ \A l \in writes[batch] :
             \/ l \in stores
             \/ \E n \in logged + 1 .. Len(copies) : copies[n] = l
             \/ \E n \in 1 .. Len(log) : log[n] = [line |-> l, content |-> batch]
  BY DEF Logging
<1>3. NoneAfter(batch, Len(log))
  <2>1. \A n \in 1 .. Len(log) : ~IsCommitMark(log[n]) => log[n].content \in 1 .. batch
    BY DEF LogSound
  <2>2. \A c \in 1 .. batch : c <= batch
    BY <1>1
  <2> QED BY <2>1, <2>2 DEF NoneAfter
<1>4. ASSUME NEW k \in 1 .. batch
      PROVE  Holds(k, Len(log))
  <2>1. CASE k = batch
    <3>1. \A n \in Len(copies) + 1 .. Len(copies) : FALSE
      BY <1>1
    <3> QED BY <1>2, <2>1, <3>1 DEF Holds
  <2>2. CASE k # batch
    <3>1. k \in 1 .. batch - 1
      BY <1>1, <2>2
    <3>2. Holds(k, committed)
      BY <1>2, <3>1
    <3>3. \A n \in 1 .. committed : n \in 1 .. Len(log)
      BY <1>1
    <3> QED BY <3>2, <3>3 DEF Holds
  <2> QED BY <2>1, <2>2
<1> QED BY <1>3, <1>4 DEF Upto

(* The tail word moves: a group is committed, and with the last one the batch. *)
LEMMA PublishKeepsBatches ==
    ASSUME PTypes, PTypes', PlacesInv, BatchInv, ~Rerun, Publish
    PROVE  BatchInv'
<1>1. /\ fpc \in {"publish_copy", "publish"} /\ committed' = Len(log)
      /\ UNCHANGED <<mem, image, shared, batch, acknowledged, writes, stores, log, applied>>
  BY DEF Publish, RedoLog!Commit, memVars, workload
<1>2. LogSound /\ ImageInv /\ Logging /\ InBatch
  BY DEF BatchInv
<1>3. /\ batch \in Nat /\ committed \in Nat /\ Len(log) \in Nat /\ committed <= Len(log)
      /\ applied \in Nat
  BY Numbers
<1>4. LogSound'
  BY <1>1, <1>2 DEF LogSound
<1>5. ImageInv'
  BY <1>1, <1>2, <1>3, ImageKept
<1>6. CASE fpc = "publish_copy"
  <2>1. fpc' = "log" /\ UNCHANGED <<copies, logged>>
    BY <1>6 DEF Publish
  <2>2. copies # <<>>
    BY <1>2, <1>6 DEF Logging
  <2>3. /\ \A k \in 1 .. batch - 1 : Holds(k, committed)
        /\ \A l \in writes[batch] :
               \/ l \in stores
               \/ \E n \in logged + 1 .. Len(copies) : copies[n] = l
               \/ \E n \in 1 .. Len(log) : log[n] = [line |-> l, content |-> batch]
    BY <1>1, <1>2 DEF Logging
  <2>4. \A n \in 1 .. committed : n \in 1 .. Len(log)
    BY <1>3
  <2>5. \A k \in 1 .. batch - 1 : Holds(k, Len(log))
    BY <2>3, <2>4 DEF Holds
  <2>6. (\A k \in 1 .. batch - 1 : Holds(k, committed))'
    BY <1>1, <2>5 DEF Holds
  <2>7. Logging'
    BY <1>1, <2>1, <2>2, <2>3, <2>6 DEF Logging
  <2>8. InBatch'
    BY <1>1, <1>2, <2>1 DEF InBatch
  <2> QED
    BY <1>4, <1>5, <2>1, <2>7, <2>8 DEF BatchInv, Between, Executing, Recovery, Recovering
<1>7. CASE fpc = "publish"
  <2>1. fpc' = "done" /\ copies' = <<>> /\ logged' = 0
    BY <1>7 DEF Publish
  <2>2. Upto(batch, Len(log)) /\ stores = {}
    BY <1>2, <1>7, AllLogged DEF Logging
  <2>3. Upto(batch, committed)'
    BY <1>1, <2>2 DEF Upto, NoneAfter, Holds
  <2>4. Between'
    BY <1>1, <2>1, <2>2, <2>3 DEF Between
  <2> QED
    BY <1>4, <1>5, <2>1, <2>4
       DEF BatchInv, Executing, Logging, InBatch, Recovery, Recovering
<1> QED BY <1>1, <1>6, <1>7

(* The requests of the batch are answered. *)
LEMMA MarkKeepsBatches ==
    ASSUME PTypes, PTypes', PlacesInv, BatchInv, ~Rerun, MarkDone
    PROVE  BatchInv'
<1>1. /\ fpc = "done" /\ fpc' = "idle" /\ acknowledged' = batch
      /\ UNCHANGED <<mem, image, shared, batch, writes, stores, copies, logged, log, committed,
                     applied>>
  BY DEF MarkDone, memVars, section, logVars
<1>2. LogSound /\ ImageInv /\ Between
  BY DEF BatchInv
<1>3. LogSound' /\ ImageInv'
  BY <1>1, <1>2 DEF LogSound, ImageInv, LastIs
<1>4. Upto(batch, committed)'
  BY <1>1, <1>2 DEF Between, Upto, NoneAfter, Holds
<1>5. Between'
  BY <1>1, <1>2, <1>4 DEF Between
<1> QED
  BY <1>1, <1>3, <1>5 DEF BatchInv, Executing, Logging, InBatch, Recovery, Recovering

(* restore_memory maps an image on which the whole log has been replayed. *)
LEMMA RestoreKeepsBatches ==
    ASSUME PTypes, PTypes', PlacesInv, BatchInv, ~Rerun, RestoreMemory
    PROVE  BatchInv'
<1>1. /\ fpc = "restore" /\ fpc' = "restored" /\ mem' = image
      /\ UNCHANGED <<image, batch, acknowledged, writes, log, committed, applied>>
  BY DEF RestoreMemory, workload, logVars
<1>2. LogSound /\ ImageInv /\ Recovery
  BY DEF BatchInv
<1>3. LogSound' /\ ImageInv'
  BY <1>1, <1>2 DEF LogSound, ImageInv, LastIs
<1>4. /\ committed = Len(log) /\ applied = committed
      /\ \E j \in acknowledged .. batch : Upto(j, committed)
  BY <1>1, <1>2 DEF Recovery, Recovering
<1>5. (\E j \in acknowledged .. batch : Upto(j, committed))'
  BY <1>1, <1>4 DEF Upto, NoneAfter, Holds
<1>6. Recovery'
  BY <1>1, <1>4, <1>5 DEF Recovery
<1> QED BY <1>1, <1>3, <1>6 DEF BatchInv, Between, Executing, Logging, InBatch

(* A step that only moves the back end, or nothing of what the batches are
   about. *)
LEMMA BatchesUnchanged ==
    ASSUME PTypes, PTypes', PlacesInv, BatchInv, ~Rerun,
           UNCHANGED <<mem, shared, fpc, batch, acknowledged, writes, stores, copies, logged, log,
                       committed>>,
           ImageInv',
           fpc \in {"restore", "restored"} => UNCHANGED <<applied, image>>
    PROVE  BatchInv'
<1>1. LogSound /\ Between /\ Executing /\ Logging /\ InBatch /\ Recovery
  BY DEF BatchInv
<1>2. LogSound'
  BY <1>1 DEF LogSound
<1>3. Between'
  BY <1>1 DEF Between, Upto, NoneAfter, Holds
<1>4. Executing'
  BY <1>1 DEF Executing, Upto, NoneAfter, Holds
<1>5. Logging'
  BY <1>1 DEF Logging, NoneAfter, Holds
<1>6. InBatch'
  BY <1>1 DEF InBatch
<1>7. Recovery'
  BY <1>1 DEF Recovery, Recovering, Upto, NoneAfter, Holds
<1> QED BY <1>2, <1>3, <1>4, <1>5, <1>6, <1>7 DEF BatchInv

(* The steps of the back end. *)
LEMMA BackEndKeepsBatches ==
    ASSUME PTypes, PTypes', PlacesInv, BatchInv, ~Rerun, BackEnd \/ UNCHANGED vars
    PROVE  BatchInv'
<1>1. LogSound /\ ImageInv /\ Recovery
  BY DEF BatchInv
<1>2. committed \in Nat /\ applied \in Nat /\ applied <= committed /\ Len(log) \in Nat
  BY Numbers
<1>3. CASE SynchronizeAddressSpace
  <2>1. /\ bpc = "wait" /\ image' = Checkpoint
        /\ UNCHANGED <<mem, shared, fpc, batch, acknowledged, writes, stores, copies, logged, log,
                       committed, applied>>
    BY <1>3 DEF SynchronizeAddressSpace, workload, section, logVars
  <2>2. applied = 0 /\ ~Recovering
    BY <2>1 DEF PlacesInv
  <2>3. ASSUME NEW l \in Lines
        PROVE  \E p \in applied' .. committed' : LastIs(p, l, image[l])'
    <3>1. image'[l] = 0
      BY <2>1 DEF Checkpoint
    <3>2. 0 \in applied' .. committed'
      BY <1>2, <2>1, <2>2
    <3>3. \A n \in 1 .. 0 : FALSE
      OBVIOUS
    <3>4. LastIs(0, l, image[l])'
      BY <3>1, <3>3 DEF LastIs
    <3> QED BY <3>2, <3>4
  <2>4. ImageInv'
    BY <2>3 DEF ImageInv
  <2> QED BY <2>1, <2>2, <2>4, BatchesUnchanged DEF Recovering
<1>4. CASE ProcessEntry
  <2>1. /\ applied < committed
        /\ UNCHANGED <<log, committed, fpc, batch, acknowledged, writes, stores, copies, logged,
                       shared>>
    BY <1>4 DEF ProcessEntry, RedoLog!Apply, memVars, workload, section
  <2>2. fpc \notin {"restore", "restored"}
    BY <1>1, <1>2, <2>1 DEF Recovery, Recovering
  <2>3. ~shared
    BY <2>2 DEF Rerun, Recovering, PlacesInv
  <2>4. mem' = mem
    BY <1>4, <2>3 DEF ProcessEntry, memVars
  <2>5. ImageInv'
    BY <1>1, <1>4, ImageApplied
  <2> QED BY <2>1, <2>2, <2>4, <2>5, BatchesUnchanged
<1>5. CASE CommitRegions \/ CommitDequeued \/ UNCHANGED vars
  <2>1. UNCHANGED <<mem, image, shared, fpc, batch, acknowledged, writes, stores, copies, logged,
                    log, committed, applied>>
    BY <1>5 DEF CommitRegions, CommitDequeued, RedoLog!Ack, vars, memVars, workload, section,
                logVars
  <2>2. ImageInv'
    BY <1>1, <2>1 DEF ImageInv, LastIs
  <2> QED BY <2>1, <2>2, BatchesUnchanged
<1>6. CASE ReplayDone
  <2>1. /\ bpc = "replay" /\ applied = committed /\ fpc' = "restore"
        /\ UNCHANGED <<mem, image, shared, batch, acknowledged, writes, log, committed, applied>>
    BY <1>6 DEF ReplayDone, memVars, workload, logVars
  <2>2. fpc = "down"
    BY <2>1 DEF PlacesInv
  <2>3. LogSound' /\ ImageInv'
    BY <1>1, <2>1 DEF LogSound, ImageInv, LastIs
  <2>4. committed = Len(log) /\ \E j \in acknowledged .. batch : Upto(j, committed)
    BY <1>1, <2>2 DEF Recovery, Recovering
  <2>5. (\E j \in acknowledged .. batch : Upto(j, committed))'
    BY <2>1, <2>4 DEF Upto, NoneAfter, Holds
  <2>6. Recovery'
    BY <2>1, <2>4, <2>5 DEF Recovery
  <2> QED BY <2>1, <2>3, <2>6 DEF BatchInv, Between, Executing, Logging, InBatch
<1> QED BY <1>3, <1>4, <1>5, <1>6 DEF BackEnd

(* What survives an ordinary crash: the acknowledged batches and no part of a
   later one, or the whole batch whose commit was under way. *)
LEMMA SurvivingPrefix ==
    ASSUME PTypes, PTypes', PlacesInv, BatchInv, ~Rerun, Circumstances = {}, Crash
    PROVE  \E j \in acknowledged .. batch : Upto(j, committed')
<1>1. /\ batch \in Nat /\ committed \in Nat /\ Len(log) \in Nat /\ committed <= Len(log)
      /\ acknowledged \in Nat /\ acknowledged <= batch
  BY Numbers
<1>2. LogSound /\ Between /\ Executing /\ Logging /\ InBatch /\ Recovery
  BY DEF BatchInv
<1>3. \/ committed' = committed
      \/ /\ Len(log) > committed /\ IsCommitMark(log[Len(log)])
         /\ committed' = Len(log)
  BY DEF Crash, RedoLog!Crash
<1>4. batch \in acknowledged .. batch
  BY <1>1
<1>5. CASE fpc \in {"idle", "done"}
  <2>1. committed = Len(log) /\ Upto(batch, committed)
    BY <1>2, <1>5 DEF Between
  <2>2. committed' = committed
    BY <1>3, <2>1
  <2> QED BY <1>4, <2>1, <2>2
<1>6. CASE fpc = "exec"
  <2>1. committed = Len(log) /\ Upto(batch - 1, committed) /\ acknowledged < batch
    BY <1>2, <1>6 DEF Executing, InBatch
  <2>2. committed' = committed /\ batch - 1 \in acknowledged .. batch
    BY <1>1, <1>3, <2>1
  <2> QED BY <2>1, <2>2
<1>7. CASE fpc \in {"log", "commit_copy", "publish_copy", "publish"}
  <2>1. copies = <<>>
    BY <1>7 DEF Crash
  <2>2. /\ \A k \in 1 .. batch - 1 : Holds(k, committed)
        /\ NoneAfter(batch - 1, committed) /\ fpc \in {"log", "publish"}
        /\ fpc = "log" => \A n \in committed + 1 .. Len(log) : ~IsCommitMark(log[n])
    BY <1>2, <1>7, <2>1 DEF Logging
  <2>3. CASE committed' = committed
    <3>1. Upto(batch - 1, committed)
      BY <2>2 DEF Upto
    <3>2. batch - 1 \in acknowledged .. batch
      BY <1>1, <1>2, <1>7 DEF InBatch
    <3> QED BY <2>3, <3>1, <3>2
  <2>4. CASE /\ Len(log) > committed /\ IsCommitMark(log[Len(log)])
             /\ committed' = Len(log)
    <3>1. Len(log) \in committed + 1 .. Len(log)
      BY <1>1, <2>4
    <3>2. fpc = "publish"
      BY <2>2, <2>4, <3>1
    <3>3. Upto(batch, Len(log))
      BY <1>2, <3>2, AllLogged
    <3> QED BY <1>4, <2>4, <3>3
  <2> QED BY <1>3, <2>3, <2>4
<1>8. CASE Recovering
  <2>1. committed = Len(log) /\ \E j \in acknowledged .. batch : Upto(j, committed)
    BY <1>2, <1>8 DEF Recovery
  <2>2. committed' = committed
    BY <1>3, <2>1
  <2> QED BY <2>1, <2>2
<1> QED BY <1>5, <1>6, <1>7, <1>8 DEF PTypes, Recovering

(* An ordinary crash. *)
LEMMA CrashKeepsBatches ==
    ASSUME PTypes, PTypes', PlacesInv, BatchInv, ~Rerun, Circumstances = {}, Crash
    PROVE  BatchInv'
<1>1. /\ log' = SubSeq(log, 1, committed')
      /\ committed' \in {committed, Len(log)} /\ applied' \in acked .. applied
      /\ fpc' = "down"
      /\ UNCHANGED <<image, batch, acknowledged, writes>>
  BY DEF Crash, RedoLog!Crash, workload
<1>2. /\ committed \in Nat /\ Len(log) \in Nat /\ committed <= Len(log) /\ applied \in Nat
      /\ batch \in Nat /\ acknowledged \in Nat
      /\ \A n \in 1 .. Len(log) : log[n] \in LogEntries
  BY Numbers
<1>3. committed <= committed' /\ committed' <= Len(log) /\ committed' \in Nat
  BY <1>1, <1>2
<1>4. applied' <= applied /\ applied' \in Nat
  BY <1>1, <1>2 DEF PTypes
<1>5. /\ \A n \in 1 .. committed' : log'[n] = log[n]
      /\ Len(log') = committed'
  <2>1. log \in Seq(LogEntries)
    BY DEF PTypes
  <2>2. \A p \in Nat : p <= Len(log) =>
            /\ Len(SubSeq(log, 1, p)) = p
            /\ \A n \in 1 .. p : SubSeq(log, 1, p)[n] = log[n]
    BY <2>1
  <2> QED BY <1>1, <1>3, <2>2
<1>6. \A n \in 1 .. committed : n \in 1 .. committed' /\ n \in 1 .. Len(log)
  BY <1>2, <1>3
<1>7. LogSound'
  <2>1. \A n \in 1 .. Len(log') : n \in 1 .. Len(log) /\ log'[n] = log[n]
    BY <1>2, <1>3, <1>5
  <2>2. LogSound
    BY DEF BatchInv
  <2> QED BY <1>1, <2>1, <2>2 DEF LogSound
<1>8. ImageInv'
  <2>1. ImageInv
    BY DEF BatchInv
  <2> QED BY <1>1, <1>3, <1>4, <1>5, <1>6, <2>1, ImageKept
<1>9. (\E j \in acknowledged .. batch : Upto(j, committed))'
  <2>1. PICK j \in acknowledged .. batch : Upto(j, committed')
    BY SurvivingPrefix
  <2>2. PICK p \in Nat : p = committed'
    BY <1>3
  <2>3. j \in Nat /\ Upto(j, p)
    BY <1>2, <2>1, <2>2
  <2>4. Upto(j, p)'
    BY <1>1, <1>5, <2>2, <2>3, UptoKept
  <2>5. Upto(j, committed)'
    BY <2>2, <2>4 DEF Upto, NoneAfter, Holds
  <2>6. j \in acknowledged' .. batch'
    BY <1>1, <2>1
  <2> QED BY <2>5, <2>6
<1>10. Recovery'
  BY <1>1, <1>5, <1>9 DEF Recovery
<1> QED BY <1>1, <1>7, <1>8, <1>10 DEF BatchInv, Between, Executing, Logging, InBatch

-----------------------------------------------------------------------------
(***************************************************************************)
(* The theorems about recovery.                                            *)
(***************************************************************************)

(* The inductive invariant: at every ordinary moment the log holds the batches
   in order and whole, and the image is explained by it. *)
THEOREM RecoveryInvariant ==
    ASSUME Circumstances = {}
    PROVE  Spec => [](PTypes /\ RecoveryInv)
<1>1. Init => RecoveryInv
  <2> SUFFICES ASSUME Init PROVE RecoveryInv
    OBVIOUS
  <2>1. Len(log) = 0 /\ committed = 0 /\ applied = 0 /\ Len(copies) = 0
    BY EmptySeq DEF Init
  <2>2. LogSound
    BY <2>1 DEF LogSound
  <2>3. Upto(batch, committed)
    BY <2>1 DEF Init, Upto, NoneAfter
  <2>4. Between
    BY <2>1, <2>3 DEF Init, Between
  <2>5. ImageInv
    <3>1. ASSUME NEW l \in Lines
          PROVE  0 \in applied .. committed /\ LastIs(0, l, image[l])
      BY <2>1 DEF Init, Checkpoint, LastIs
    <3> QED BY <3>1 DEF ImageInv
  <2>6. PlacesInv
    BY DEF Init, PlacesInv, Recovering
  <2> QED
    BY <2>2, <2>4, <2>5, <2>6
       DEF Init, RecoveryInv, BatchInv, Executing, Logging, InBatch, Recovery, Recovering
<1>2. PTypes /\ PTypes' /\ RecoveryInv /\ [Next]_vars => RecoveryInv'
  <2> SUFFICES ASSUME PTypes, PTypes', RecoveryInv, [Next]_vars PROVE RecoveryInv'
    OBVIOUS
  <2>1. PlacesInv /\ BatchInv /\ PlacesInv'
    BY PlacesStay DEF RecoveryInv
  <2>2. CASE Rerun
    BY <2>1, <2>2, RerunStays DEF RecoveryInv, BatchInv
  <2>3. CASE ~Rerun
    <3>1. CASE Resume
      <4>1. shared' /\ fpc' = "idle"
        BY <2>1, <3>1 DEF Resume, memVars, PlacesInv
      <4> QED BY <2>1, <4>1 DEF RecoveryInv, BatchInv, Rerun, Recovering
    <3>2. CASE InstrumentStart
      BY <2>1, <2>3, <3>2, StartKeepsBatches DEF RecoveryInv
    <3>3. CASE InstrumentStop
      BY <2>1, <2>3, <3>3, StopKeepsBatches DEF RecoveryInv
    <3>4. CASE LogMemcpy \/ LogCommit \/ \E l \in Lines : LogStore(l)
      BY <2>1, <2>3, <3>4, LoggingKeepsBatches DEF RecoveryInv
    <3>5. CASE Publish
      BY <2>1, <2>3, <3>5, PublishKeepsBatches DEF RecoveryInv
    <3>6. CASE MarkDone
      BY <2>1, <2>3, <3>6, MarkKeepsBatches DEF RecoveryInv
    <3>7. CASE RestoreMemory
      BY <2>1, <2>3, <3>7, RestoreKeepsBatches DEF RecoveryInv
    <3>8. ASSUME NEW l \in Lines, Store(l) \/ InstrumentedMemcpy(l)
          PROVE  RecoveryInv'
      BY <2>1, <2>3, <3>8, WriteKeepsBatches DEF RecoveryInv
    <3>9. CASE BackEnd \/ UNCHANGED vars
      BY <2>1, <2>3, <3>9, BackEndKeepsBatches DEF RecoveryInv
    <3>10. CASE Crash
      BY <2>1, <2>3, <3>10, CrashKeepsBatches DEF RecoveryInv
    <3> QED
      BY <3>1, <3>2, <3>3, <3>4, <3>5, <3>6, <3>7, <3>8, <3>9, <3>10 DEF Next, FrontEnd
  <2> QED BY <2>2, <2>3
<1> QED BY <1>1, <1>2, PersistenceTypes, PTL DEF Spec

(* Batches are atomic and durable: what the front end finds in the memory files
   after a crash, and after crashes of the recovery, is the memory after a
   prefix of the batches, which contains every acknowledged one. *)
THEOREM RecoveredIsPrefix ==
    ASSUME Circumstances = {}
    PROVE  Spec => []RecoveredState
<1>1. PTypes /\ RecoveryInv => RecoveredState
  <2> SUFFICES ASSUME PTypes, RecoveryInv, fpc = "restored"
               PROVE  \E j \in acknowledged .. batch : mem = Effect(j)
    BY DEF RecoveredState
  <2>1. LogSound /\ ImageInv /\ Recovery
    BY DEF RecoveryInv, BatchInv, Rerun, Recovering
  <2>2. applied = committed /\ mem = image
    BY <2>1 DEF Recovery, Recovering
  <2>3. PICK j \in acknowledged .. batch : Upto(j, committed)
    BY <2>1 DEF Recovery, Recovering
  <2>4. j \in Nat /\ j <= batch
    BY <2>3, Numbers
  <2>5. image = Effect(j)
    BY <2>1, <2>2, <2>3, <2>4, ImageIsEffect
  <2> QED BY <2>2, <2>3, <2>5
<1> QED BY <1>1, RecoveryInvariant, PTL

(* Before the first recovery, a back end that has caught up with an idle front
   end has brought the image to the memory of the acknowledged batches. *)
THEOREM DrainedImageIsExact ==
    ASSUME Circumstances = {}
    PROVE  Spec => []DrainedImage
<1>1. PTypes /\ RecoveryInv => DrainedImage
  <2> SUFFICES ASSUME PTypes, RecoveryInv, applied = Len(log), fpc = "idle", ~shared
               PROVE  image = Effect(acknowledged)
    BY DEF DrainedImage
  <2>1. LogSound /\ ImageInv /\ Between
    BY DEF RecoveryInv, BatchInv, Rerun
  <2>2. committed = Len(log) /\ Upto(batch, committed) /\ acknowledged = batch
    BY <2>1 DEF Between
  <2>3. batch \in Nat /\ batch <= batch
    BY Numbers
  <2>4. image = Effect(batch)
    BY <2>1, <2>2, <2>3, ImageIsEffect
  <2> QED BY <2>2, <2>4
<1> QED BY <1>1, RecoveryInvariant, PTL
=============================================================================
