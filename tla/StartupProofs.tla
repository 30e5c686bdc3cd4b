---------------------------- MODULE StartupProofs ----------------------------
(***************************************************************************)
(* Machine-checked proofs about launch and recovery, for every number of   *)
(* regions, logged groups and crashes, with kills and reboots allowed in   *)
(* every state.                                                            *)
(*                                                                         *)
(* The properties themselves say up to which moment they hold: the ones of *)
(* the semaphore until a kill leaves a token in it ("stale"), the ones of  *)
(* the region table until a first launch finds records of an earlier one   *)
(* ("early") or a recovered back end makes a memory file ("grow").         *)
(***************************************************************************)
EXTENDS Startup, SequenceTheorems, TLAPS

(* Where the two processes may be. *)
PlaceInv ==
    /\ fpc \in {"down", "open", "post", "wait", "restore", "run", "aborted"}
    /\ bpc \in {"down", "open", "wait", "unlink", "sync", "record", "remap", "idle", "file",
                "commit", "table", "ack", "aborted"}
    /\ phase \in {"replay", "consume"} /\ isNewProcess \in BOOLEAN
    /\ fpc = "down" <=> bpc = "down"
    /\ fpc = "post" \/ bpc \in {"wait", "unlink", "sync", "record"} => isNewProcess
    /\ fpc \in {"wait", "restore", "aborted"} \/ bpc \in {"remap", "aborted"} => ~isNewProcess
    /\ fpc # "down" /\ isNewProcess => phase = "consume"
    /\ ~isNewProcess /\ bpc \in {"open", "remap", "aborted"} => phase = "replay"

(* The launch has posted its token and not yet taken it. *)
Token ==
    \/ isNewProcess /\ fpc = "run" /\ bpc \in {"open", "wait"}
    \/ ~isNewProcess /\ fpc \in {"open", "wait"} /\ phase = "consume"

FrontHolds == fpc \in {"post", "wait"}
BackHolds == bpc = "wait" \/ (bpc \notin {"down", "open"} /\ phase = "replay")

(* The semaphore holds one token exactly while the launch's message is under
   way; who has opened it; what a token that was taken tells. *)
SemInv ==
    /\ named \in {Absent, 0, 1} /\ orphan \in {Absent, 0}
    /\ handle \in [{"front", "back"} -> {"closed", "named", "orphan"}]
    /\ handle["front"] = IF FrontHolds THEN "named" ELSE "closed"
    /\ handle["back"] = IF BackHolds THEN "named" ELSE "closed"
    /\ FrontHolds \/ BackHolds \/ bpc = "unlink" => named # Absent
    /\ named = 1 <=> Token
    /\ isNewProcess /\ bpc \notin {"down", "open", "wait"} => fpc = "run"
    /\ ~isNewProcess /\ fpc \in {"restore", "run", "aborted"} => phase = "consume"

(* No kill has left a token in the semaphore. *)
NotStale == "stale" \notin met

-----------------------------------------------------------------------------
InGroup == bpc \in {"file", "commit", "table", "ack"}

(* What holds of the table and the log after every crash and every launch. *)
DataInv ==
    /\ regionTable \in [Indexes -> Regions \cup {NoFile}]
    /\ files \in [Indexes -> Regions \cup {NoFile}]
    /\ uncommited_number_of_entries \in 0 .. INITIAL_TABLE_SIZE
    /\ number_of_entries \in 0 .. INITIAL_TABLE_SIZE
    /\ numberOfRegions \in 0 .. INITIAL_TABLE_SIZE
    /\ sequenceNumber \in 0 .. INITIAL_TABLE_SIZE
    /\ log \in Seq(Regions \cup {StoresOnly})
    /\ logged \in 0 .. MaxLogged /\ crashes \in 0 .. MaxCrashes
    /\ allocated \in InitialRegions .. InitialRegions + logged
    /\ mapped \subseteq Regions
    /\ InGroup => log # <<>>
    /\ bpc = "file" => Head(log) # StoresOnly /\ sequenceNumber < uncommited_number_of_entries
    /\ bpc = "record" => /\ sequenceNumber \in 1 .. InitialRegions
                         /\ sequenceNumber <= uncommited_number_of_entries + 1
    /\ bpc \notin {"down", "record"} => sequenceNumber <= uncommited_number_of_entries
    /\ \A k \in Indexes : \/ k < uncommited_number_of_entries
                          \/ k < number_of_entries
                          \/ k < numberOfRegions
                          => regionTable[k] \in Regions

(* A recovered back end wakes the front end on an empty log, and until the
   front end has restored its memory nothing is logged. *)
QuietInv ==
    ~isNewProcess /\ fpc \in {"open", "wait", "restore"} /\ phase = "consume" => log = <<>>

-----------------------------------------------------------------------------
(* No moment has been met after which file numbers and table indexes differ. *)
Sound == {"early", "grow"} \cap met = {}

(* Of the regions, 1 .. b have been acknowledged or were there at the first
   launch; the others are still in the log, in order. *)
LogFrom(b) ==
    /\ InitialRegions <= b /\ b <= allocated
    /\ \A i, j \in 1 .. Len(log) :
           i < j /\ log[i] # StoresOnly /\ log[j] # StoresOnly => log[i] < log[j]
    /\ \A i \in 1 .. Len(log) : log[i] # StoresOnly => log[i] \in b + 1 .. allocated
    /\ \A r \in b + 1 .. allocated : \E i \in 1 .. Len(log) : log[i] = r

(* The regions with the one of the group that the back end is working on. *)
WithGroup(b) == IF InGroup /\ Head(log) # StoresOnly THEN b + 1 ELSE b

(* What a crash may leave: the counters differ from b only when the first
   group of the log maps a region. *)
Lag(b) ==
    /\ numberOfRegions \in {b, b + 1}
    /\ \/ numberOfRegions = b /\ uncommited_number_of_entries = b
       \/ log # <<>> /\ Head(log) # StoresOnly

(* How the four counters of the table move. *)
CountInv(b) ==
    /\ numberOfRegions = 0 => b = InitialRegions
    /\ bpc = "down" => numberOfRegions = 0 \/ Lag(b)
    /\ bpc # "down" /\ ~isNewProcess =>
           /\ Lag(b) /\ number_of_entries = numberOfRegions
           /\ bpc \notin {"file", "aborted"}
           /\ InGroup => Head(log) = StoresOnly
    /\ isNewProcess /\ bpc \in {"open", "wait", "unlink", "sync", "record"} =>
           /\ numberOfRegions = 0 /\ number_of_entries = 0
           /\ uncommited_number_of_entries <= InitialRegions
           /\ bpc \in {"open", "wait", "unlink"} => uncommited_number_of_entries = 0
           /\ sequenceNumber = IF bpc = "record" THEN uncommited_number_of_entries + 1
                               ELSE uncommited_number_of_entries
           /\ bpc = "record" => uncommited_number_of_entries < InitialRegions
    /\ isNewProcess /\ bpc \in {"idle", "file", "commit", "table", "ack"} =>
           /\ uncommited_number_of_entries = WithGroup(b)
           /\ number_of_entries = IF bpc = "ack" THEN WithGroup(b) ELSE b
           /\ IF bpc \in {"table", "ack"} THEN numberOfRegions = WithGroup(b)
              ELSE numberOfRegions \in {0, b}
           /\ sequenceNumber = IF bpc = "file" THEN b ELSE WithGroup(b)

(* Entry k of the table and memory file k belong to region k + 1. *)
FilesInv ==
    /\ \A k \in 0 .. numberOfRegions - 1 : regionTable[k] = k + 1 /\ files[k] = k + 1
    /\ bpc # "down" /\ isNewProcess =>
           \A k \in 0 .. uncommited_number_of_entries - 1 :
               /\ regionTable[k] = k + 1
               /\ (bpc = "file" /\ k = uncommited_number_of_entries - 1) \/ files[k] = k + 1
    /\ bpc = "record" => files[uncommited_number_of_entries] = uncommited_number_of_entries + 1

Table(b) == LogFrom(b) /\ CountInv(b) /\ FilesInv

TableInv == Sound => \E b \in Nat : Table(b)

(* The regions the process has at its first launch fit into the table. *)
TableHolds == InitialRegions <= INITIAL_TABLE_SIZE

-----------------------------------------------------------------------------
(***************************************************************************)
(* The semaphore.                                                          *)
(***************************************************************************)

(* The control flow of start_front_end and start_back_end. *)
LEMMA StepKeepsPlaces ==
    ASSUME PlaceInv, [Next]_vars
    PROVE  PlaceInv'
<1> USE DEF PlaceInv
<1>1. CASE Launch
  BY <1>1 DEF Launch
<1>2. CASE FrontEnd
  BY <1>2 DEF FrontEnd, FrontOpen, FrontPost, FrontWait, RestoreMemory
<1>3. CASE Application
  BY <1>3 DEF Application, LogStores, LogMmap, LogGroup
<1>4. CASE BackEnd
  <2>1. CASE BackOpen \/ BackWait \/ BackUnlink \/ SyncFile \/ SyncRecord \/ SyncCommit
    BY <2>1 DEF BackOpen, BackWait, BackUnlink, SyncFile, SyncRecord, SyncCommit
  <2>2. CASE RemapBackend \/ ReplayDone
    BY <2>2 DEF RemapBackend, ReplayDone
  <2>3. CASE \/ ProcessMmap \/ ProcessMmapFile \/ ProcessRedo
             \/ CommitRegions \/ CommitTable \/ CommitDequeued
    BY <2>3 DEF ProcessMmap, ProcessMmapFile, ProcessRedo, CommitRegions, CommitTable,
                CommitDequeued
  <2> QED BY <1>4, <2>1, <2>2, <2>3 DEF BackEnd
<1>5. CASE Kill \/ Reboot
  BY <1>5 DEF Kill, Reboot, Crash
<1>6. CASE UNCHANGED vars
  BY <1>6 DEF vars
<1> QED BY <1>1, <1>2, <1>3, <1>4, <1>5, <1>6 DEF Next

(* A step that leaves the semaphore alone and the two processes where it does
   not matter to it. *)
LEMMA QuietKeepsSem ==
    ASSUME SemInv, UNCHANGED <<semVars, phase, isNewProcess>>,
           Token' = Token, FrontHolds' = FrontHolds, BackHolds' = BackHolds,
           bpc' = "unlink" => bpc = "unlink",
           bpc' \notin {"down", "open", "wait"} /\ isNewProcess => fpc' = "run",
           fpc' \in {"restore", "run", "aborted"} /\ ~isNewProcess => phase = "consume"
    PROVE  SemInv'
BY DEF SemInv, semVars

(* What each step does to the semaphore and its handles. *)
LEMMA StepKeepsSem ==
    ASSUME NotStale', PlaceInv, SemInv, [Next]_vars
    PROVE  SemInv'
<1> USE DEF PlaceInv, Token, FrontHolds, BackHolds, Absent
<1>1. CASE Launch
  BY <1>1 DEF Launch, semVars, SemInv
<1>2. CASE FrontOpen
  BY <1>2 DEF FrontOpen, SemOpen, SemInv
<1>3. CASE FrontPost
  BY <1>3 DEF FrontPost, SemPost, SemInv
<1>4. CASE FrontWait
  BY <1>4 DEF FrontWait, SemWait, SemInv
<1>5. CASE RestoreMemory
  BY <1>5, QuietKeepsSem DEF RestoreMemory, SemInv
<1>6. CASE Application
  BY <1>6, QuietKeepsSem DEF Application, LogStores, LogMmap, LogGroup, SemInv
<1>7. CASE BackOpen
  BY <1>7 DEF BackOpen, SemOpen, SemInv
<1>8. CASE BackWait
  BY <1>8 DEF BackWait, SemWait, SemInv
<1>9. CASE BackUnlink
  BY <1>9 DEF BackUnlink, SemUnlink, SemInv
<1>10. CASE SyncFile \/ SyncRecord \/ SyncCommit
  BY <1>10, QuietKeepsSem DEF SyncFile, SyncRecord, SyncCommit, SemInv
<1>11. CASE RemapBackend
  BY <1>11, QuietKeepsSem DEF RemapBackend, SemInv
<1>12. CASE ProcessMmap \/ ProcessMmapFile \/ ProcessRedo
  BY <1>12, QuietKeepsSem DEF ProcessMmap, ProcessMmapFile, ProcessRedo, SemInv
<1>13. CASE CommitRegions \/ CommitTable \/ CommitDequeued
  BY <1>13, QuietKeepsSem DEF CommitRegions, CommitTable, CommitDequeued, SemInv
<1>14. CASE ReplayDone
  BY <1>14 DEF ReplayDone, SemPost, SemInv
<1>15. CASE Kill
  BY <1>15 DEF Kill, Crash, SemInv, NotStale
<1>16. CASE Reboot
  BY <1>16 DEF Reboot, Crash, SemInv
<1>17. CASE UNCHANGED vars
  BY <1>17, QuietKeepsSem DEF vars, SemInv
<1> QED BY <1>1, <1>2, <1>3, <1>4, <1>5, <1>6, <1>7, <1>8, <1>9, <1>10, <1>11, <1>12,
           <1>13, <1>14, <1>15, <1>16, <1>17 DEF Next, FrontEnd, BackEnd

(* A moment that has been met stays met. *)
LEMMA MetGrows ==
    ASSUME [Next]_vars
    PROVE  met \subseteq met'
<1>1. CASE Launch
  BY <1>1 DEF Launch
<1>2. CASE FrontEnd
  BY <1>2 DEF FrontEnd, FrontOpen, FrontPost, FrontWait, RestoreMemory
<1>3. CASE Application
  BY <1>3 DEF Application, LogStores, LogMmap, LogGroup
<1>4. CASE BackOpen \/ BackWait \/ BackUnlink \/ SyncFile \/ SyncRecord \/ SyncCommit
  BY <1>4 DEF BackOpen, BackWait, BackUnlink, SyncFile, SyncRecord, SyncCommit
<1>5. CASE RemapBackend \/ ProcessMmap \/ ProcessMmapFile \/ ProcessRedo
  BY <1>5 DEF RemapBackend, ProcessMmap, ProcessMmapFile, ProcessRedo
<1>6. CASE CommitRegions \/ CommitTable \/ CommitDequeued \/ ReplayDone
  BY <1>6 DEF CommitRegions, CommitTable, CommitDequeued, ReplayDone
<1>7. CASE Kill \/ Reboot
  BY <1>7 DEF Kill, Reboot
<1>8. CASE UNCHANGED vars
  BY <1>8 DEF vars
<1> QED BY <1>1, <1>2, <1>3, <1>4, <1>5, <1>6, <1>7, <1>8 DEF Next, BackEnd

(* Init has no token. *)
LEMMA InitialPlaces ==
    ASSUME Init
    PROVE  PlaceInv /\ SemInv
BY DEF Init, PlaceInv, SemInv, Token, FrontHolds, BackHolds, Absent

(* launch_mangosteen, start_front_end and start_back_end exchange exactly one
   token per launch over init_semaphore, whatever the region table holds and
   wherever the processes are killed, until a kill leaves a token behind. *)
THEOREM SemaphoreInvariant ==
    Spec => [](PlaceInv /\ (NotStale => SemInv))
<1>1. PlaceInv /\ (NotStale => SemInv) /\ [Next]_vars => (PlaceInv /\ (NotStale => SemInv))'
  <2> SUFFICES ASSUME PlaceInv, NotStale => SemInv, [Next]_vars
               PROVE  PlaceInv' /\ (NotStale' => SemInv')
    OBVIOUS
  <2>1. PlaceInv'
    BY StepKeepsPlaces
  <2>2. NotStale' => NotStale
    BY MetGrows DEF NotStale
  <2> QED BY <2>1, <2>2, StepKeepsSem
<1> QED BY <1>1, InitialPlaces, PTL DEF Spec

(* A recovering front end comes out of sem_wait only after the replay loop of
   start_back_end: until a kill leaves a token, restore_memory never maps files
   that are being replayed. *)
THEOREM RestoresAfterReplay == Spec => []RestoreAfterReplay
<1>1. PlaceInv /\ (NotStale => SemInv) => RestoreAfterReplay
  BY DEF PlaceInv, SemInv, NotStale, RestoreAfterReplay
<1> QED BY <1>1, SemaphoreInvariant, PTL

(* Until a kill leaves a token in init_semaphore, no launch leaves its own
   there for the next one. *)
THEOREM TokensAreTaken == Spec => []NoTokenLeft
<1>1. PlaceInv /\ (NotStale => SemInv) => NoTokenLeft
  BY DEF PlaceInv, SemInv, NotStale, NoTokenLeft, Token, Absent
<1> QED BY <1>1, SemaphoreInvariant, PTL

-----------------------------------------------------------------------------
(***************************************************************************)
(* What every crash and every launch preserve.                             *)
(***************************************************************************)

(* Types of what the proofs below compute with. *)
LEMMA CounterTypes ==
    ASSUME DataInv
    PROVE  /\ uncommited_number_of_entries \in Nat /\ number_of_entries \in Nat
           /\ numberOfRegions \in Nat /\ sequenceNumber \in Nat
           /\ INITIAL_TABLE_SIZE \in Nat /\ InitialRegions \in Nat \ {0} /\ MaxLogged \in Nat
           /\ allocated \in Nat \ {0} /\ allocated <= InitialRegions + MaxLogged
           /\ allocated \in Regions
           /\ \A r \in 1 .. allocated : r \in Regions
           /\ \A r \in 1 .. InitialRegions : r \in Regions
<1>1. /\ uncommited_number_of_entries \in Nat /\ number_of_entries \in Nat
      /\ numberOfRegions \in Nat /\ sequenceNumber \in Nat
      /\ INITIAL_TABLE_SIZE \in Nat /\ InitialRegions \in Nat \ {0}
      /\ allocated \in Nat \ {0} /\ allocated <= InitialRegions + MaxLogged
      /\ MaxLogged \in Nat
  BY TableAssumption, StartupAssumption DEF DataInv
<1>2. /\ \A r \in 1 .. allocated : r \in Regions
      /\ \A r \in 1 .. InitialRegions : r \in Regions
  BY <1>1, StartupAssumption
<1>3. allocated \in 1 .. allocated
  BY <1>1
<1> QED BY <1>1, <1>2, <1>3

(* The types, for steps that only move one of the processes. *)
LEMMA MoveKeepsData ==
    ASSUME DataInv,
           \/ FrontOpen \/ FrontPost \/ FrontWait \/ BackOpen \/ BackWait \/ BackUnlink
           \/ ProcessRedo \/ ReplayDone \/ UNCHANGED vars
    PROVE  DataInv'
<1>1. /\ UNCHANGED <<regionTable, uncommited_number_of_entries, number_of_entries,
                     numberOfRegions, files, sequenceNumber, log, logged, allocated,
                     mapped, crashes>>
      /\ \/ bpc' = bpc
         \/ bpc = "open" /\ bpc' \in {"wait", "remap"}
         \/ bpc = "wait" /\ bpc' = "unlink"
         \/ bpc = "unlink" /\ bpc' = "sync"
         \/ bpc = "idle" /\ bpc' = "commit" /\ log # <<>>
  BY DEF tableVars, records, workload, FrontOpen, FrontPost, FrontWait, BackOpen, BackWait,
         BackUnlink, ProcessRedo, ReplayDone, vars
<1> QED BY <1>1 DEF DataInv, InGroup

(* launch_mangosteen. *)
LEMMA LaunchKeepsData ==
    ASSUME DataInv, Launch
    PROVE  DataInv'
<1>1. /\ UNCHANGED <<regionTable, uncommited_number_of_entries, numberOfRegions, files, log,
                     logged, allocated, mapped, crashes>>
      /\ number_of_entries' = numberOfRegions /\ sequenceNumber' = 0 /\ bpc' = "open"
  BY DEF Launch, RegionTableOpen, records, workload
<1>2. 0 \in 0 .. INITIAL_TABLE_SIZE /\ 0 <= uncommited_number_of_entries
  BY TableAssumption DEF DataInv
<1> QED BY <1>1, <1>2 DEF DataInv, InGroup

(* restore_memory maps recorded regions only. *)
LEMMA RestoreKeepsData ==
    ASSUME DataInv, RestoreMemory
    PROVE  DataInv'
<1>1. /\ UNCHANGED <<regionTable, uncommited_number_of_entries, number_of_entries,
                     numberOfRegions, files, sequenceNumber, log, logged, allocated,
                     crashes, bpc>>
      /\ mapped' = MappedRegions(number_of_entries)
  BY DEF RestoreMemory, tableVars, records
<1>2. mapped' \subseteq Regions
  <2> SUFFICES ASSUME NEW r \in mapped' PROVE r \in Regions
    OBVIOUS
  <2>1. PICK k \in 0 .. number_of_entries - 1 : regionTable[k] = r
    BY <1>1 DEF MappedRegions
  <2>2. k \in Indexes /\ k < number_of_entries
    BY TableAssumption DEF DataInv, Indexes
  <2> QED BY <2>1, <2>2 DEF DataInv
<1> QED BY <1>1, <1>2 DEF DataInv, InGroup

(* What the combiner appends to the log. *)
LEMMA Logging ==
    ASSUME DataInv, Application
    PROVE  /\ \E g \in Regions \cup {StoresOnly} :
                  /\ log' = Append(log, g)
                  /\ \/ g = StoresOnly /\ UNCHANGED <<allocated, mapped>>
                     \/ /\ g = allocated + 1 /\ g # StoresOnly
                        /\ allocated' = allocated + 1 /\ mapped' = mapped \cup {g}
           /\ logged' = logged + 1 /\ logged < MaxLogged
           /\ UNCHANGED <<regionTable, uncommited_number_of_entries, number_of_entries,
                          numberOfRegions, files, sequenceNumber, crashes, isNewProcess,
                          fpc, bpc, phase, met>>
           /\ fpc = "run"
<1>1. CASE LogStores
  BY <1>1 DEF LogStores, LogGroup, tableVars, records
<1>2. CASE LogMmap
  <2>1. allocated + 1 \in Regions /\ allocated + 1 # StoresOnly
    BY <1>2, StartupAssumption DEF LogMmap, LogGroup, DataInv, StoresOnly
  <2> QED BY <1>2, <2>1 DEF LogMmap, LogGroup, tableVars, records
<1> QED BY <1>1, <1>2 DEF Application

(* The log after an append. *)
LEMMA Appended ==
    ASSUME DataInv, NEW g \in Regions \cup {StoresOnly}, log' = Append(log, g)
    PROVE  /\ Len(log) \in Nat /\ log' \in Seq(Regions \cup {StoresOnly})
           /\ Len(log') = Len(log) + 1 /\ log'[Len(log) + 1] = g
           /\ \A i \in 1 .. Len(log) : log'[i] = log[i]
           /\ log # <<>> => Head(log') = Head(log)
           /\ log = <<>> => Head(log') = g
           /\ log' # <<>>
BY DEF DataInv

LEMMA LogKeepsData ==
    ASSUME DataInv, Application
    PROVE  DataInv'
<1>1. PICK g \in Regions \cup {StoresOnly} :
          /\ log' = Append(log, g)
          /\ \/ g = StoresOnly /\ UNCHANGED <<allocated, mapped>>
             \/ /\ g = allocated + 1 /\ g # StoresOnly
                /\ allocated' = allocated + 1 /\ mapped' = mapped \cup {g}
  BY Logging
<1>2. /\ logged' = logged + 1 /\ logged < MaxLogged
      /\ UNCHANGED <<regionTable, uncommited_number_of_entries, number_of_entries,
                     numberOfRegions, files, sequenceNumber, crashes, bpc>>
  BY Logging
<1>3. log' \in Seq(Regions \cup {StoresOnly}) /\ log' # <<>> /\ (log # <<>> => Head(log') = Head(log))
  BY <1>1, Appended
<1>4. mapped' \subseteq Regions
  BY <1>1 DEF DataInv, StoresOnly
<1>5. /\ allocated' \in InitialRegions .. InitialRegions + logged'
      /\ logged' \in 0 .. MaxLogged
  BY <1>1, <1>2, StartupAssumption DEF DataInv
<1>6. /\ InGroup' => log' # <<>>
      /\ bpc' = "file" => Head(log') # StoresOnly
  BY <1>2, <1>3 DEF DataInv, InGroup
<1> QED BY <1>2, <1>3, <1>4, <1>5, <1>6 DEF DataInv

(* add_region_record. *)
LEMMA RecordKeepsData ==
    ASSUME TableHolds, DataInv, SyncRecord \/ ProcessMmap
    PROVE  DataInv'
<1> DEFINE u == uncommited_number_of_entries
<1>1. PICK r \in Regions :
          /\ u < INITIAL_TABLE_SIZE
          /\ regionTable' = [regionTable EXCEPT ![u] = r] /\ uncommited_number_of_entries' = u + 1
  <2>1. CASE SyncRecord
    <3>1. sequenceNumber \in Regions
      BY <2>1, CounterTypes DEF SyncRecord, DataInv
    <3> QED BY <2>1, <3>1 DEF SyncRecord, AddRegionRecord, HasRoom
  <2>2. CASE ProcessMmap
    <3>1. Head(log) \in Regions
      BY <2>2 DEF ProcessMmap, DataInv
    <3> QED BY <2>2, <3>1 DEF ProcessMmap, AddRegionRecord, HasRoom
  <2> QED BY <2>1, <2>2
<1>2. /\ UNCHANGED <<files, number_of_entries, numberOfRegions, sequenceNumber, log, logged,
                     allocated, mapped, crashes>>
      /\ \/ bpc = "record" /\ bpc' = "sync"
         \/ bpc = "idle" /\ bpc' = "file" /\ log # <<>> /\ Head(log) # StoresOnly
  BY DEF SyncRecord, ProcessMmap, AddRegionRecord, workload
<1>3. u \in Nat /\ sequenceNumber \in Nat /\ INITIAL_TABLE_SIZE \in Nat
  BY CounterTypes
<1>4. u \in Indexes /\ u + 1 \in 0 .. INITIAL_TABLE_SIZE
  BY <1>1, <1>3 DEF Indexes
<1>5. regionTable' \in [Indexes -> Regions \cup {NoFile}]
  BY <1>1, <1>4 DEF DataInv
<1>6. ASSUME NEW k \in Indexes, k < u + 1 \/ k < number_of_entries \/ k < numberOfRegions
      PROVE  regionTable'[k] \in Regions
  <2>1. CASE k = u
    BY <1>1, <1>4, <2>1 DEF DataInv
  <2>2. CASE k # u
    <3>1. k < u \/ k < number_of_entries \/ k < numberOfRegions
      BY <1>3, <1>6, <2>2 DEF Indexes
    <3>2. regionTable[k] \in Regions
      BY <3>1 DEF DataInv
    <3> QED BY <1>1, <1>4, <2>2, <3>2 DEF DataInv
  <2> QED BY <2>1, <2>2
<1>7. sequenceNumber <= u + 1 /\ (bpc' = "file" => sequenceNumber < u + 1)
  BY <1>2, <1>3 DEF DataInv
<1> QED BY <1>1, <1>2, <1>4, <1>5, <1>6, <1>7 DEF DataInv, InGroup

(* create_pmem_file. *)
LEMMA FileKeepsData ==
    ASSUME TableHolds, DataInv, SyncFile \/ ProcessMmapFile
    PROVE  DataInv'
<1> DEFINE s == sequenceNumber
<1>1. PICK r \in Regions : files' = [files EXCEPT ![s] = r]
  <2>1. CASE SyncFile
    <3>1. s + 1 \in 1 .. InitialRegions
      BY <2>1, CounterTypes DEF SyncFile
    <3>2. s + 1 \in Regions
      BY <3>1, CounterTypes
    <3> QED BY <2>1, <3>2 DEF SyncFile, CreatePmemFile
  <2>2. CASE ProcessMmapFile
    <3>1. Head(log) \in Regions
      BY <2>2 DEF ProcessMmapFile, DataInv, InGroup
    <3> QED BY <2>2, <3>1 DEF ProcessMmapFile, CreatePmemFile
  <2> QED BY <2>1, <2>2
<1>2. /\ UNCHANGED <<regionTable, uncommited_number_of_entries, number_of_entries,
                     numberOfRegions, log, logged, allocated, mapped, crashes>>
      /\ sequenceNumber' = s + 1
      /\ \/ bpc = "sync" /\ bpc' = "record" /\ s < InitialRegions
         \/ bpc = "file" /\ bpc' = "commit"
  BY DEF SyncFile, ProcessMmapFile, CreatePmemFile, records, workload
<1>3. /\ uncommited_number_of_entries \in 0 .. INITIAL_TABLE_SIZE /\ s \in Nat
      /\ INITIAL_TABLE_SIZE \in Nat /\ InitialRegions \in Nat
      /\ InitialRegions <= INITIAL_TABLE_SIZE
  BY CounterTypes DEF TableHolds, DataInv
<1>4. /\ bpc = "sync" => s <= uncommited_number_of_entries
      /\ bpc = "file" => s < uncommited_number_of_entries /\ log # <<>>
  BY DEF DataInv, InGroup
<1>5. /\ s \in Indexes /\ s + 1 \in 0 .. INITIAL_TABLE_SIZE
      /\ bpc' = "record" => s + 1 \in 1 .. InitialRegions /\ s + 1 <= uncommited_number_of_entries + 1
      /\ bpc' = "commit" => s + 1 <= uncommited_number_of_entries
  BY <1>2, <1>3, <1>4 DEF Indexes
<1>6. files' \in [Indexes -> Regions \cup {NoFile}]
  BY <1>1, <1>5 DEF DataInv
<1> QED BY <1>2, <1>4, <1>5, <1>6 DEF DataInv, InGroup

(* The commits, remap_backend and the end of a group. *)
LEMMA CommitKeepsData ==
    ASSUME DataInv,
           SyncCommit \/ RemapBackend \/ CommitRegions \/ CommitTable \/ CommitDequeued
    PROVE  DataInv'
<1>1. /\ UNCHANGED <<regionTable, uncommited_number_of_entries, files, sequenceNumber,
                     logged, allocated, mapped, crashes>>
      /\ number_of_entries' \in {number_of_entries, uncommited_number_of_entries, numberOfRegions}
      /\ numberOfRegions' \in {numberOfRegions, uncommited_number_of_entries}
      /\ bpc \in {"sync", "remap", "commit", "table", "ack"}
      /\ \/ bpc' \in {"idle", "aborted"} /\ (log' = log \/ (bpc = "ack" /\ log' = Tail(log)))
         \/ bpc \in {"commit", "table"} /\ bpc' \in {"table", "ack"} /\ log' = log
  BY DEF SyncCommit, RemapBackend, CommitRegions, CommitTable, CommitDequeued, CommitMetadata,
         RegionTableCommit, tableVars, records, workload
<1>2. log' \in Seq(Regions \cup {StoresOnly}) /\ (InGroup' => log' # <<>>)
  <2>1. log \in Seq(Regions \cup {StoresOnly}) /\ (InGroup => log # <<>>)
    BY DEF DataInv
  <2>2. log # <<>> => Tail(log) \in Seq(Regions \cup {StoresOnly})
    BY <2>1
  <2> QED BY <1>1, <2>1, <2>2 DEF InGroup
<1>3. /\ number_of_entries' \in 0 .. INITIAL_TABLE_SIZE
      /\ numberOfRegions' \in 0 .. INITIAL_TABLE_SIZE
  BY <1>1 DEF DataInv
<1>4. \A k \in Indexes : \/ k < uncommited_number_of_entries' \/ k < number_of_entries'
                         \/ k < numberOfRegions'
                         => regionTable'[k] \in Regions
  BY <1>1 DEF DataInv
<1> QED BY <1>1, <1>2, <1>3, <1>4 DEF DataInv

(* A kill or a reboot. *)
LEMMA CrashKeepsData ==
    ASSUME DataInv, Kill \/ Reboot
    PROVE  DataInv'
<1>1. /\ UNCHANGED <<regionTable, number_of_entries, numberOfRegions, files, sequenceNumber,
                     log, logged, allocated>>
      /\ uncommited_number_of_entries' \in {uncommited_number_of_entries, number_of_entries}
      /\ bpc' = "down" /\ mapped' = {} /\ crashes < MaxCrashes /\ crashes' = crashes + 1
  BY DEF Kill, Reboot, Crash
<1>2. crashes' \in 0 .. MaxCrashes
  BY <1>1, StartupAssumption DEF DataInv
<1>3. \A k \in Indexes : \/ k < uncommited_number_of_entries' \/ k < number_of_entries'
                         \/ k < numberOfRegions'
                         => regionTable'[k] \in Regions
  BY <1>1 DEF DataInv
<1> QED BY <1>1, <1>2, <1>3 DEF DataInv, InGroup

LEMMA InitialData ==
    ASSUME Init
    PROVE  DataInv
<1>1. /\ regionTable = [k \in Indexes |-> NoFile] /\ files = [k \in Indexes |-> NoFile]
      /\ uncommited_number_of_entries = 0 /\ number_of_entries = 0 /\ numberOfRegions = 0
      /\ sequenceNumber = 0 /\ bpc = "down" /\ log = <<>> /\ logged = 0
      /\ allocated = InitialRegions /\ mapped = {} /\ crashes = 0
  BY DEF Init, TableInit
<1>2. \A k \in Indexes : ~(k < 0)
  BY TableAssumption DEF Indexes
<1> QED BY <1>1, <1>2, TableAssumption, StartupAssumption DEF DataInv, InGroup

LEMMA StepKeepsData ==
    ASSUME TableHolds, DataInv, [Next]_vars
    PROVE  DataInv'
BY MoveKeepsData, LaunchKeepsData, RestoreKeepsData, LogKeepsData, RecordKeepsData,
   FileKeepsData, CommitKeepsData, CrashKeepsData DEF Next, FrontEnd, BackEnd

(* The semaphore's values, with stale tokens too, and the moments met. *)
SemTypes ==
    /\ named \in Nat \cup {Absent} /\ orphan \in Nat \cup {Absent}
    /\ handle \in [{"front", "back"} -> {"closed", "named", "orphan"}]
    /\ met \subseteq Moments

LEMMA StepKeepsSemTypes ==
    ASSUME SemTypes, [Next]_vars
    PROVE  SemTypes'
<1> USE DEF SemTypes, Absent, Moments
<1>1. CASE Launch
  BY <1>1 DEF Launch, semVars
<1>2. CASE FrontOpen \/ BackOpen
  <2>1. CASE FrontOpen
    BY <2>1 DEF FrontOpen, SemOpen
  <2>2. CASE BackOpen
    BY <2>2 DEF BackOpen, SemOpen
  <2> QED BY <1>2, <2>1, <2>2
<1>3. CASE FrontPost
  BY <1>3 DEF FrontPost, SemPost
<1>4. CASE FrontWait \/ BackWait
  <2>1. CASE FrontWait
    BY <2>1 DEF FrontWait, SemWait
  <2>2. CASE BackWait
    BY <2>2 DEF BackWait, SemWait
  <2> QED BY <1>4, <2>1, <2>2
<1>5. CASE RestoreMemory \/ Application
  BY <1>5 DEF RestoreMemory, Application, LogStores, LogMmap, LogGroup, semVars
<1>6. CASE BackUnlink
  <2>1. DOMAIN handle = {"front", "back"}
    OBVIOUS
  <2> QED BY <1>6, <2>1 DEF BackUnlink, SemUnlink
<1>7. CASE SyncFile \/ SyncRecord \/ SyncCommit \/ RemapBackend \/ ProcessMmap
  BY <1>7 DEF SyncFile, SyncRecord, SyncCommit, RemapBackend, ProcessMmap, semVars
<1>8. CASE ProcessMmapFile \/ ProcessRedo \/ CommitRegions \/ CommitTable \/ CommitDequeued
  BY <1>8 DEF ProcessMmapFile, ProcessRedo, CommitRegions, CommitTable, CommitDequeued, semVars
<1>9. CASE ReplayDone
  BY <1>9 DEF ReplayDone, SemPost
<1>10. CASE Kill
  BY <1>10 DEF Kill, Crash
<1>11. CASE Reboot
  BY <1>11 DEF Reboot, Crash
<1>12. CASE UNCHANGED vars
  BY <1>12 DEF vars, semVars
<1> QED BY <1>1, <1>2, <1>3, <1>4, <1>5, <1>6, <1>7, <1>8, <1>9, <1>10, <1>11, <1>12
        DEF Next, FrontEnd, BackEnd

(* The counters of the table and the file numbers stay within the table, over
   every kill, reboot and launch, stale tokens and left records included. *)
THEOREM StartupTypeCorrect ==
    ASSUME TableHolds
    PROVE  Spec => []TypeOK
<1> DEFINE Types == PlaceInv /\ DataInv /\ SemTypes
<1>1. Init => Types
  BY InitialPlaces, InitialData DEF SemInv, SemTypes, Init, Absent
<1>2. Types /\ [Next]_vars => Types'
  BY StepKeepsPlaces, StepKeepsData, StepKeepsSemTypes
<1>3. Types => TypeOK
  BY CounterTypes DEF TypeOK, PlaceInv, DataInv, SemTypes
<1> HIDE DEF Types
<1> QED BY <1>1, <1>2, <1>3, PTL DEF Spec

-----------------------------------------------------------------------------
(***************************************************************************)
(* The region table.                                                       *)
(***************************************************************************)

(* The next region in the log is the one after those acknowledged. *)
LEMMA HeadIsNext ==
    ASSUME DataInv, NEW b \in Nat, LogFrom(b), log # <<>>, Head(log) # StoresOnly
    PROVE  Head(log) = b + 1 /\ b + 1 <= allocated
<1>1. Len(log) \in Nat /\ Len(log) >= 1 /\ Head(log) = log[1] /\ log[1] \in Nat
  BY StartupAssumption DEF DataInv, StoresOnly
<1>2. allocated \in Nat
  BY CounterTypes
<1>3. log[1] \in b + 1 .. allocated
  BY <1>1 DEF LogFrom
<1>4. b + 1 \in b + 1 .. allocated
  BY <1>2, <1>3
<1>5. PICK i \in 1 .. Len(log) : log[i] = b + 1
  BY <1>4 DEF LogFrom
<1>6. CASE i = 1
  BY <1>1, <1>2, <1>3, <1>5, <1>6
<1>7. CASE i # 1
  <2>1. 1 < i /\ 1 \in 1 .. Len(log) /\ log[i] # StoresOnly
    BY <1>1, <1>2, <1>5, <1>7 DEF StoresOnly
  <2>2. log[1] < log[i]
    BY <1>1, <2>1 DEF LogFrom
  <2> QED BY <1>2, <1>3, <1>5, <2>2
<1> QED BY <1>6, <1>7

(* An empty log has acknowledged every region. *)
LEMMA NothingPending ==
    ASSUME DataInv, NEW b \in Nat, LogFrom(b), log = <<>>
    PROVE  b = allocated
<1>1. allocated \in Nat /\ b <= allocated
  BY CounterTypes DEF LogFrom
<1> SUFFICES ASSUME b < allocated PROVE FALSE
  BY <1>1
<1>2. allocated \in b + 1 .. allocated
  BY <1>1
<1>3. PICK i \in 1 .. Len(log) : log[i] = allocated
  BY <1>2 DEF LogFrom
<1> QED BY <1>3

(* Steps that only move one of the processes. *)
LEMMA MoveKeepsTable ==
    ASSUME PlaceInv, DataInv, NEW b \in Nat, Table(b),
           \/ FrontOpen \/ FrontPost \/ FrontWait \/ BackOpen \/ BackWait \/ BackUnlink
           \/ ProcessRedo \/ ReplayDone \/ RestoreMemory \/ UNCHANGED vars
    PROVE  Table(b)'
<1>1. /\ UNCHANGED <<regionTable, uncommited_number_of_entries, number_of_entries,
                     numberOfRegions, files, sequenceNumber, log, allocated, isNewProcess>>
      /\ \/ bpc' = bpc
         \/ isNewProcess /\ bpc = "open" /\ bpc' = "wait"
         \/ ~isNewProcess /\ bpc = "open" /\ bpc' = "remap"
         \/ isNewProcess /\ bpc = "wait" /\ bpc' = "unlink"
         \/ isNewProcess /\ bpc = "unlink" /\ bpc' = "sync"
         \/ bpc = "idle" /\ bpc' = "commit" /\ Head(log) = StoresOnly
  BY DEF PlaceInv, tableVars, records, workload, FrontOpen, FrontPost, FrontWait, BackOpen,
         BackWait, BackUnlink, ProcessRedo, ReplayDone, RestoreMemory, vars
<1>2. LogFrom(b)'
  BY <1>1 DEF Table, LogFrom
<1>3. WithGroup(b)' = WithGroup(b)
  BY <1>1 DEF WithGroup, InGroup
<1>4. Lag(b)' <=> Lag(b)
  BY <1>1 DEF Lag
<1>5. CountInv(b)'
  BY <1>1, <1>3, <1>4 DEF Table, CountInv, InGroup
<1>6. FilesInv'
  BY <1>1 DEF Table, FilesInv
<1> QED BY <1>2, <1>5, <1>6 DEF Table

(* launch_mangosteen. *)
LEMMA LaunchKeepsTable ==
    ASSUME PlaceInv, DataInv, Sound', NEW b \in Nat, Table(b), Launch
    PROVE  Table(b)'
<1>1. /\ UNCHANGED <<regionTable, uncommited_number_of_entries, numberOfRegions, files, log,
                     allocated>>
      /\ number_of_entries' = numberOfRegions /\ sequenceNumber' = 0
      /\ isNewProcess' = (numberOfRegions = 0)
      /\ bpc = "down" /\ bpc' = "open"
  BY DEF Launch, RegionTableOpen, records, workload
<1>2. uncommited_number_of_entries \in Nat /\ numberOfRegions \in Nat /\ InitialRegions \in Nat
  BY CounterTypes
<1>3. numberOfRegions = 0 => uncommited_number_of_entries = 0
  <2> SUFFICES ASSUME numberOfRegions = 0, uncommited_number_of_entries > 0 PROVE FALSE
    BY <1>2
  <2>1. "early" \in met'
    BY <1>1 DEF Launch
  <2> QED BY <2>1 DEF Sound
<1>4. LogFrom(b)'
  BY <1>1 DEF Table, LogFrom
<1>5. Lag(b)' <=> Lag(b)
  BY <1>1 DEF Lag
<1>6. CountInv(b)'
  <2>1. CASE numberOfRegions = 0
    <3>1. /\ isNewProcess' /\ uncommited_number_of_entries' = 0 /\ numberOfRegions' = 0
          /\ number_of_entries' = 0 /\ b = InitialRegions
      BY <1>1, <1>3, <2>1 DEF Table, CountInv
    <3> QED BY <1>1, <1>2, <3>1 DEF CountInv
  <2>2. CASE numberOfRegions # 0
    <3>1. ~isNewProcess' /\ Lag(b)' /\ numberOfRegions' # 0
      BY <1>1, <1>5, <2>2 DEF Table, CountInv
    <3> QED BY <1>1, <3>1 DEF CountInv, InGroup
  <2> QED BY <2>1, <2>2
<1>7. FilesInv'
  BY <1>1, <1>2, <1>3 DEF Table, FilesInv
<1> QED BY <1>4, <1>6, <1>7 DEF Table

(* The combiner logs a group. *)
LEMMA LogKeepsTable ==
    ASSUME PlaceInv, DataInv, NEW b \in Nat, Table(b), Application
    PROVE  Table(b)'
<1>1. PICK g \in Regions \cup {StoresOnly} :
          /\ log' = Append(log, g)
          /\ \/ g = StoresOnly /\ UNCHANGED allocated
             \/ g = allocated + 1 /\ g # StoresOnly /\ allocated' = allocated + 1
  BY Logging
<1>2. /\ UNCHANGED <<regionTable, uncommited_number_of_entries, number_of_entries,
                     numberOfRegions, files, sequenceNumber, isNewProcess, bpc>>
      /\ bpc # "down"
  BY Logging DEF PlaceInv
<1>3. /\ Len(log) \in Nat
      /\ Len(log') = Len(log) + 1 /\ log'[Len(log) + 1] = g
      /\ \A i \in 1 .. Len(log) : log'[i] = log[i]
      /\ log # <<>> => Head(log') = Head(log)
      /\ log' # <<>>
  BY <1>1, Appended
<1>4. b \in Nat /\ allocated \in Nat /\ InitialRegions <= b /\ b <= allocated
  BY CounterTypes DEF Table, LogFrom
<1>5. LogFrom(b)'
  <2>1. ASSUME NEW i \in 1 .. Len(log'), log'[i] # StoresOnly
        PROVE  log'[i] \in b + 1 .. allocated'
    <3>1. CASE i = Len(log) + 1
      BY <1>1, <1>3, <1>4, <2>1, <3>1
    <3>2. CASE i # Len(log) + 1
      <4>1. i \in 1 .. Len(log) /\ log'[i] = log[i]
        BY <1>3, <3>2
      <4>2. log[i] \in b + 1 .. allocated
        BY <2>1, <4>1 DEF Table, LogFrom
      <4> QED BY <1>1, <1>4, <4>1, <4>2
    <3> QED BY <3>1, <3>2
  <2>2. ASSUME NEW i \in 1 .. Len(log'), NEW j \in 1 .. Len(log'), i < j,
               log'[i] # StoresOnly, log'[j] # StoresOnly
        PROVE  log'[i] < log'[j]
    <3>1. i \in 1 .. Len(log) /\ log'[i] = log[i]
      BY <1>3, <2>2
    <3>2. log[i] \in b + 1 .. allocated
      BY <2>2, <3>1 DEF Table, LogFrom
    <3>3. CASE j = Len(log) + 1
      BY <1>1, <1>3, <1>4, <2>2, <3>1, <3>2, <3>3
    <3>4. CASE j # Len(log) + 1
      <4>1. j \in 1 .. Len(log) /\ log'[j] = log[j]
        BY <1>3, <3>4
      <4> QED BY <2>2, <3>1, <4>1 DEF Table, LogFrom
    <3> QED BY <3>3, <3>4
  <2>3. ASSUME NEW r \in b + 1 .. allocated'
        PROVE  \E i \in 1 .. Len(log') : log'[i] = r
    <3>1. CASE r \in b + 1 .. allocated
      <4>1. PICK i \in 1 .. Len(log) : log[i] = r
        BY <3>1 DEF Table, LogFrom
      <4> QED BY <1>3, <4>1
    <3>2. CASE r \notin b + 1 .. allocated
      <4>1. r = g
        BY <1>1, <1>4, <3>2
      <4>2. Len(log) + 1 \in 1 .. Len(log')
        BY <1>3
      <4> QED BY <1>3, <4>1, <4>2
    <3> QED BY <3>1, <3>2
  <2>4. InitialRegions <= b /\ b <= allocated'
    BY <1>1, <1>4
  <2> QED BY <2>1, <2>2, <2>3, <2>4 DEF LogFrom
<1>6. InGroup' = InGroup /\ (InGroup => log # <<>>)
  BY <1>2 DEF InGroup, DataInv
<1>7. WithGroup(b)' = WithGroup(b)
  BY <1>3, <1>6 DEF WithGroup
<1>8. Lag(b) => Lag(b)'
  BY <1>2, <1>3 DEF Lag
<1>9. CountInv(b)'
  BY <1>2, <1>3, <1>6, <1>7, <1>8 DEF Table, CountInv
<1>10. FilesInv'
  BY <1>2 DEF Table, FilesInv
<1> QED BY <1>5, <1>9, <1>10 DEF Table

(* synchronize_address_space of a new back end. *)
LEMMA SyncKeepsTable ==
    ASSUME TableHolds, PlaceInv, DataInv, NEW b \in Nat, Table(b),
           SyncFile \/ SyncRecord \/ SyncCommit
    PROVE  Table(b)'
<1> DEFINE u == uncommited_number_of_entries
<1>1. /\ isNewProcess /\ bpc \in {"sync", "record"} /\ bpc' \in {"sync", "record", "idle"}
      /\ UNCHANGED <<numberOfRegions, log, allocated, isNewProcess>>
  BY DEF SyncFile, SyncRecord, SyncCommit, CreatePmemFile, AddRegionRecord, RegionTableCommit,
         workload, PlaceInv
<1>2. /\ numberOfRegions = 0 /\ number_of_entries = 0 /\ u <= InitialRegions
      /\ sequenceNumber = IF bpc = "record" THEN u + 1 ELSE u
      /\ bpc = "record" => u < InitialRegions
      /\ b = InitialRegions
  BY <1>1 DEF Table, CountInv
<1>3. /\ u \in Nat /\ InitialRegions \in Nat \ {0} /\ INITIAL_TABLE_SIZE \in Nat
      /\ InitialRegions <= INITIAL_TABLE_SIZE
  BY CounterTypes DEF TableHolds
<1>4. LogFrom(b)'
  BY <1>1 DEF Table, LogFrom
<1>5. /\ regionTable \in [Indexes -> Regions \cup {NoFile}]
      /\ files \in [Indexes -> Regions \cup {NoFile}]
      /\ \A k \in 0 .. u - 1 : regionTable[k] = k + 1
      /\ \A k \in 0 .. u - 1 : files[k] = k + 1
      /\ bpc = "record" => files[u] = u + 1
  BY <1>1 DEF DataInv, Table, FilesInv
<1>6. CASE SyncFile
  <2>1. /\ bpc = "sync" /\ bpc' = "record" /\ u < InitialRegions /\ sequenceNumber = u
        /\ files' = [files EXCEPT ![u] = u + 1] /\ sequenceNumber' = u + 1
        /\ UNCHANGED <<regionTable, uncommited_number_of_entries, number_of_entries>>
    BY <1>2, <1>6 DEF SyncFile, CreatePmemFile, records
  <2>2. u \in Indexes
    BY <1>3, <2>1 DEF Indexes
  <2>3. CountInv(b)'
    BY <1>1, <1>2, <2>1 DEF CountInv
  <2>4. FilesInv'
    BY <1>1, <1>2, <1>3, <1>5, <2>1, <2>2 DEF FilesInv
  <2> QED BY <1>4, <2>3, <2>4 DEF Table
<1>7. CASE SyncRecord
  <2>1. /\ bpc = "record" /\ bpc' = "sync" /\ u < InitialRegions /\ sequenceNumber = u + 1
        /\ u < INITIAL_TABLE_SIZE
        /\ regionTable' = [regionTable EXCEPT ![u] = u + 1]
        /\ uncommited_number_of_entries' = u + 1
        /\ UNCHANGED <<files, sequenceNumber, number_of_entries>>
    BY <1>2, <1>7 DEF SyncRecord, AddRegionRecord, HasRoom
  <2>2. u \in Indexes
    BY <1>3, <2>1 DEF Indexes
  <2>3. CountInv(b)'
    BY <1>1, <1>2, <1>3, <2>1 DEF CountInv
  <2>4. FilesInv'
    BY <1>1, <1>2, <1>3, <1>5, <2>1, <2>2 DEF FilesInv
  <2> QED BY <1>4, <2>3, <2>4 DEF Table
<1>8. CASE SyncCommit
  <2>1. /\ bpc = "sync" /\ bpc' = "idle" /\ u = InitialRegions /\ number_of_entries' = u
        /\ UNCHANGED <<regionTable, uncommited_number_of_entries, files, sequenceNumber>>
    BY <1>2, <1>8 DEF SyncCommit, RegionTableCommit, records
  <2>2. WithGroup(b)' = b
    BY <2>1 DEF WithGroup, InGroup
  <2>3. CountInv(b)'
    BY <1>1, <1>2, <1>3, <2>1, <2>2 DEF CountInv
  <2>4. FilesInv'
    BY <1>1, <1>2, <1>5, <2>1 DEF FilesInv
  <2> QED BY <1>4, <2>3, <2>4 DEF Table
<1> QED BY <1>6, <1>7, <1>8

(* remap_backend of a recovering back end finds all its files. *)
LEMMA RemapKeepsTable ==
    ASSUME PlaceInv, DataInv, NEW b \in Nat, Table(b), RemapBackend
    PROVE  Table(b)'
<1>1. /\ UNCHANGED <<regionTable, uncommited_number_of_entries, numberOfRegions, files,
                     sequenceNumber, log, allocated, isNewProcess>>
      /\ number_of_entries' = numberOfRegions
      /\ ~isNewProcess /\ bpc = "remap"
      /\ bpc' = IF CanMapAll(number_of_entries) THEN "idle" ELSE "aborted"
  BY DEF RemapBackend, PlaceInv, records, workload
<1>2. Lag(b) /\ number_of_entries = numberOfRegions
  BY <1>1 DEF Table, CountInv
<1>3. numberOfRegions \in 0 .. INITIAL_TABLE_SIZE /\ INITIAL_TABLE_SIZE \in Nat
  BY CounterTypes DEF DataInv
<1>4. CanMapAll(number_of_entries)
  <2> SUFFICES ASSUME NEW k \in 0 .. numberOfRegions - 1 PROVE files[k] # NoFile
    BY <1>2 DEF CanMapAll
  <2>1. files[k] = regionTable[k]
    BY DEF Table, FilesInv
  <2>2. k \in Indexes /\ k < numberOfRegions
    BY <1>3 DEF Indexes
  <2>3. regionTable[k] \in Regions
    BY <2>2 DEF DataInv
  <2> QED BY <2>1, <2>3, TableAssumption
<1>5. bpc' = "idle"
  BY <1>1, <1>4
<1>6. LogFrom(b)'
  BY <1>1 DEF Table, LogFrom
<1>7. Lag(b)'
  BY <1>1, <1>2 DEF Lag
<1>8. CountInv(b)'
  BY <1>1, <1>5, <1>7 DEF Table, CountInv, InGroup
<1>9. FilesInv'
  BY <1>1, <1>5 DEF Table, FilesInv
<1> QED BY <1>6, <1>8, <1>9 DEF Table

(* process_entry of an MMAP_ENTRY: the record, then the file. *)
LEMMA MmapKeepsTable ==
    ASSUME PlaceInv, DataInv, Sound', NEW b \in Nat, Table(b),
           ProcessMmap \/ ProcessMmapFile
    PROVE  Table(b)'
<1> DEFINE u == uncommited_number_of_entries
<1>1. /\ log # <<>> /\ Head(log) # StoresOnly /\ bpc \in {"idle", "file"}
      /\ bpc' \in {"file", "commit"}
      /\ UNCHANGED <<number_of_entries, numberOfRegions, log, allocated, isNewProcess>>
  BY DEF ProcessMmap, ProcessMmapFile, CreatePmemFile, AddRegionRecord, workload, DataInv, InGroup
<1>2. isNewProcess
  <2>1. CASE ProcessMmap
    BY <2>1 DEF ProcessMmap, Sound, PlaceInv
  <2>2. CASE ProcessMmapFile
    BY <2>2 DEF ProcessMmapFile, Table, CountInv, PlaceInv
  <2> QED BY <2>1, <2>2
<1>3. Head(log) = b + 1 /\ b + 1 <= allocated
  BY <1>1, HeadIsNext DEF Table
<1>4. u \in 0 .. INITIAL_TABLE_SIZE /\ INITIAL_TABLE_SIZE \in Nat /\ numberOfRegions \in Nat
  BY CounterTypes DEF DataInv
<1>5. /\ WithGroup(b) = IF bpc = "file" THEN b + 1 ELSE b
      /\ WithGroup(b)' = b + 1
  BY <1>1 DEF WithGroup, InGroup
<1>6. /\ number_of_entries = b /\ numberOfRegions \in {0, b} /\ sequenceNumber = b
      /\ u = IF bpc = "file" THEN b + 1 ELSE b
      /\ numberOfRegions = 0 => b = InitialRegions
  BY <1>1, <1>2, <1>5 DEF Table, CountInv
<1>7. /\ regionTable \in [Indexes -> Regions \cup {NoFile}]
      /\ files \in [Indexes -> Regions \cup {NoFile}]
      /\ \A k \in 0 .. u - 1 : regionTable[k] = k + 1
      /\ \A k \in 0 .. u - 1 : (bpc = "file" /\ k = u - 1) \/ files[k] = k + 1
  BY <1>1, <1>2 DEF DataInv, Table, FilesInv
<1>8. LogFrom(b)'
  BY <1>1 DEF Table, LogFrom
<1>9. CASE ProcessMmap
  <2>1. /\ bpc = "idle" /\ bpc' = "file" /\ u = b /\ b < INITIAL_TABLE_SIZE
        /\ regionTable' = [regionTable EXCEPT ![b] = b + 1]
        /\ uncommited_number_of_entries' = b + 1
        /\ UNCHANGED <<files, sequenceNumber>>
    BY <1>3, <1>6, <1>9 DEF ProcessMmap, AddRegionRecord, HasRoom
  <2>2. b \in Indexes
    BY <1>4, <2>1 DEF Indexes
  <2>3. CountInv(b)'
    BY <1>1, <1>2, <1>5, <1>6, <2>1 DEF CountInv
  <2>4. FilesInv'
    BY <1>1, <1>2, <1>4, <1>6, <1>7, <2>1, <2>2 DEF FilesInv
  <2> QED BY <1>8, <2>3, <2>4 DEF Table
<1>10. CASE ProcessMmapFile
  <2>1. /\ bpc = "file" /\ bpc' = "commit" /\ u = b + 1
        /\ files' = [files EXCEPT ![b] = b + 1] /\ sequenceNumber' = b + 1
        /\ UNCHANGED <<regionTable, uncommited_number_of_entries>>
    BY <1>3, <1>6, <1>10 DEF ProcessMmapFile, CreatePmemFile, records
  <2>2. b \in Indexes
    BY <1>4, <2>1 DEF Indexes
  <2>3. CountInv(b)'
    BY <1>1, <1>2, <1>5, <1>6, <2>1 DEF CountInv
  <2>4. FilesInv'
    BY <1>1, <1>2, <1>4, <1>6, <1>7, <2>1, <2>2 DEF FilesInv
  <2> QED BY <1>8, <2>3, <2>4 DEF Table
<1> QED BY <1>9, <1>10

(* commit_rb_batch: the metadata word, then the table. *)
LEMMA CommitKeepsTable ==
    ASSUME PlaceInv, DataInv, NEW b \in Nat, Table(b), CommitRegions \/ CommitTable
    PROVE  Table(b)'
<1> DEFINE u == uncommited_number_of_entries
<1>1. /\ UNCHANGED <<regionTable, uncommited_number_of_entries, files, sequenceNumber, log,
                     allocated, isNewProcess>>
      /\ \/ bpc = "commit" /\ bpc' = "table" /\ numberOfRegions' = u /\ UNCHANGED number_of_entries
         \/ bpc = "table" /\ bpc' = "ack" /\ number_of_entries' = u /\ UNCHANGED numberOfRegions
  BY DEF CommitRegions, CommitTable, CommitMetadata, RegionTableCommit, records, workload
<1>2. InitialRegions \in Nat \ {0} /\ InitialRegions <= b /\ u \in Nat
  BY CounterTypes DEF Table, LogFrom
<1>3. WithGroup(b)' = WithGroup(b) /\ WithGroup(b) # 0
  BY <1>1, <1>2 DEF WithGroup, InGroup
<1>4. LogFrom(b)'
  BY <1>1 DEF Table, LogFrom
<1>5. CASE isNewProcess
  <2>1. u = WithGroup(b)
    BY <1>1, <1>5 DEF Table, CountInv
  <2>2. CountInv(b)'
    BY <1>1, <1>3, <1>5, <2>1 DEF Table, CountInv
  <2>3. FilesInv'
    BY <1>1, <1>5, <2>1 DEF Table, FilesInv
  <2> QED BY <1>4, <2>2, <2>3 DEF Table
<1>6. CASE ~isNewProcess
  <2>1. Head(log) = StoresOnly /\ Lag(b) /\ number_of_entries = numberOfRegions
    BY <1>1, <1>6 DEF Table, CountInv, InGroup
  <2>2. numberOfRegions = b /\ u = b
    BY <2>1 DEF Lag
  <2>3. Lag(b)' /\ number_of_entries' = numberOfRegions' /\ numberOfRegions' # 0
    BY <1>1, <1>2, <2>1, <2>2 DEF Lag
  <2>4. CountInv(b)'
    BY <1>1, <1>6, <2>1, <2>3 DEF CountInv, InGroup
  <2>5. FilesInv'
    BY <1>1, <1>6, <2>2 DEF Table, FilesInv
  <2> QED BY <1>4, <2>4, <2>5 DEF Table
<1> QED BY <1>5, <1>6 DEF PlaceInv

(* ring_buffer_commit_dequeued_entries: the group leaves the log, and its
   region counts as acknowledged. *)
LEMMA DequeueKeepsTable ==
    ASSUME PlaceInv, DataInv, NEW b \in Nat, Table(b), CommitDequeued
    PROVE  \E d \in Nat : Table(d)'
<1>1. /\ bpc = "ack" /\ bpc' = "idle" /\ log' = Tail(log)
      /\ UNCHANGED <<regionTable, uncommited_number_of_entries, number_of_entries,
                     numberOfRegions, files, sequenceNumber, allocated, isNewProcess>>
  BY DEF CommitDequeued, tableVars, records
<1>2. log # <<>> /\ log \in Seq(Regions \cup {StoresOnly})
  BY <1>1 DEF DataInv, InGroup
<1>3. /\ Len(log) \in Nat /\ Len(log) >= 1
      /\ Len(log') = Len(log) - 1 /\ Head(log) = log[1]
      /\ \A i \in 1 .. Len(log') : log'[i] = log[i + 1]
  BY <1>1, <1>2, HeadTailProperties
<1>4. PICK d \in Nat : d = IF log[1] # StoresOnly THEN b + 1 ELSE b
  OBVIOUS
<1>5. /\ allocated \in Nat /\ InitialRegions \in Nat \ {0}
      /\ InitialRegions <= b /\ b <= allocated
  BY CounterTypes DEF Table, LogFrom
<1>6. log[1] # StoresOnly => log[1] = d /\ d <= allocated
  BY <1>2, <1>3, <1>4, HeadIsNext DEF Table
<1>7. LogFrom(d)'
  <2>1. ASSUME NEW i \in 1 .. Len(log')
        PROVE  i + 1 \in 1 .. Len(log) /\ log'[i] = log[i + 1]
    BY <1>3
  <2>2. ASSUME NEW i \in 1 .. Len(log'), log'[i] # StoresOnly
        PROVE  log'[i] \in d + 1 .. allocated
    <3>1. log[i + 1] \in b + 1 .. allocated
      BY <2>1, <2>2 DEF Table, LogFrom
    <3>2. CASE log[1] # StoresOnly
      <4>1. 1 \in 1 .. Len(log) /\ 1 < i + 1
        BY <1>3
      <4>2. log[1] < log[i + 1]
        BY <2>1, <2>2, <3>2, <4>1 DEF Table, LogFrom
      <4> QED BY <1>5, <1>6, <2>1, <3>1, <3>2, <4>2
    <3>3. CASE log[1] = StoresOnly
      BY <1>4, <2>1, <3>1, <3>3
    <3> QED BY <3>2, <3>3
  <2>3. ASSUME NEW i \in 1 .. Len(log'), NEW j \in 1 .. Len(log'), i < j,
               log'[i] # StoresOnly, log'[j] # StoresOnly
        PROVE  log'[i] < log'[j]
    <3>1. i + 1 < j + 1
      BY <1>3, <2>3
    <3> QED BY <2>1, <2>3, <3>1 DEF Table, LogFrom
  <2>4. ASSUME NEW r \in d + 1 .. allocated
        PROVE  \E i \in 1 .. Len(log') : log'[i] = r
    <3>1. r \in b + 1 .. allocated /\ r # StoresOnly /\ r # d
      BY <1>4, <1>5 DEF StoresOnly
    <3>2. PICK i \in 1 .. Len(log) : log[i] = r
      BY <3>1 DEF Table, LogFrom
    <3>3. i # 1
      BY <1>6, <3>1, <3>2
    <3>4. i - 1 \in 1 .. Len(log') /\ (i - 1) + 1 = i
      BY <1>3, <3>3
    <3> QED BY <1>3, <3>2, <3>4
  <2>5. InitialRegions <= d /\ d <= allocated
    BY <1>4, <1>5, <1>6
  <2> QED BY <1>1, <2>2, <2>3, <2>4, <2>5 DEF LogFrom
<1>8. WithGroup(b) = d
  BY <1>1, <1>3, <1>4 DEF WithGroup, InGroup
<1>9. FilesInv'
  BY <1>1 DEF Table, FilesInv
<1>10. CountInv(d)'
  <2>1. CASE isNewProcess
    <3>1. /\ uncommited_number_of_entries = d /\ number_of_entries = d /\ numberOfRegions = d
          /\ sequenceNumber = d
      BY <1>1, <1>8, <2>1 DEF Table, CountInv
    <3>2. WithGroup(d)' = d
      BY <1>1 DEF WithGroup, InGroup
    <3>3. d # 0
      BY <1>4, <1>5
    <3> QED BY <1>1, <2>1, <3>1, <3>2, <3>3 DEF CountInv
  <2>2. CASE ~isNewProcess
    <3>1. Head(log) = StoresOnly /\ Lag(b) /\ number_of_entries = numberOfRegions
      BY <1>1, <2>2 DEF Table, CountInv, InGroup
    <3>2. d = b /\ numberOfRegions = d /\ uncommited_number_of_entries = d /\ d # 0
      BY <1>3, <1>4, <1>5, <3>1 DEF Lag
    <3>3. Lag(d)'
      BY <1>1, <3>2 DEF Lag
    <3> QED BY <1>1, <2>2, <3>1, <3>2, <3>3 DEF CountInv, InGroup
  <2> QED BY <2>1, <2>2 DEF PlaceInv
<1> QED BY <1>7, <1>9, <1>10 DEF Table

(* A kill or a reboot, in every state. *)
LEMMA CrashKeepsTable ==
    ASSUME PlaceInv, DataInv, NEW b \in Nat, Table(b), Kill \/ Reboot
    PROVE  Table(b)'
<1> DEFINE u == uncommited_number_of_entries
<1>1. /\ bpc' = "down" /\ bpc # "down"
      /\ UNCHANGED <<regionTable, number_of_entries, numberOfRegions, files, sequenceNumber,
                     isNewProcess, log, allocated>>
      /\ uncommited_number_of_entries' \in {u, number_of_entries}
  BY DEF Kill, Reboot, Crash, PlaceInv
<1>2. LogFrom(b)'
  BY <1>1 DEF Table, LogFrom
<1>3. FilesInv'
  BY <1>1 DEF Table, FilesInv
<1>4. numberOfRegions = 0 \/ Lag(b)'
  <2>1. CASE ~isNewProcess
    <3>1. Lag(b) /\ number_of_entries = numberOfRegions
      BY <1>1, <2>1 DEF Table, CountInv
    <3> QED BY <1>1, <3>1 DEF Lag
  <2>2. CASE isNewProcess /\ bpc \in {"open", "wait", "unlink", "sync", "record"}
    BY <2>2 DEF Table, CountInv
  <2>3. CASE isNewProcess /\ bpc \in {"idle", "file", "commit", "table", "ack"}
    <3>1. /\ u = WithGroup(b) /\ number_of_entries \in {b, WithGroup(b)}
          /\ numberOfRegions \in {0, b, WithGroup(b)}
      BY <2>3 DEF Table, CountInv
    <3>2. \/ WithGroup(b) = b
          \/ WithGroup(b) = b + 1 /\ log # <<>> /\ Head(log) # StoresOnly
      BY DEF WithGroup, DataInv
    <3> QED BY <1>1, <3>1, <3>2 DEF Lag
  <2> QED BY <1>1, <2>1, <2>2, <2>3 DEF PlaceInv
<1>5. CountInv(b)'
  BY <1>1, <1>4 DEF Table, CountInv, InGroup
<1> QED BY <1>2, <1>3, <1>5 DEF Table

(* An empty table. *)
LEMMA InitialTable ==
    ASSUME Init
    PROVE  TableInv /\ QuietInv /\ RestoredComplete
<1>1. /\ numberOfRegions = 0 /\ fpc = "down" /\ bpc = "down" /\ log = <<>>
      /\ allocated = InitialRegions
  BY DEF Init, TableInit
<1>2. InitialRegions \in Nat /\ Len(log) = 0
  BY <1>1, StartupAssumption
<1>3. LogFrom(InitialRegions)
  BY <1>1, <1>2 DEF LogFrom
<1>4. CountInv(InitialRegions) /\ FilesInv
  BY <1>1, <1>2 DEF CountInv, FilesInv
<1> QED BY <1>1, <1>2, <1>3, <1>4 DEF TableInv, Table, QuietInv, RestoredComplete

LEMMA StepKeepsTable ==
    ASSUME TableHolds, PlaceInv, DataInv, TableInv, [Next]_vars
    PROVE  TableInv'
<1> SUFFICES ASSUME Sound' PROVE \E d \in Nat : Table(d)'
  BY DEF TableInv
<1>1. Sound
  BY MetGrows DEF Sound
<1>2. PICK b \in Nat : Table(b)
  BY <1>1 DEF TableInv
<1>3. CASE CommitDequeued
  BY <1>2, <1>3, DequeueKeepsTable
<1>4. CASE ~CommitDequeued
  <2>1. Table(b)'
    BY <1>2, <1>4, MoveKeepsTable, LaunchKeepsTable, LogKeepsTable, SyncKeepsTable,
       RemapKeepsTable, MmapKeepsTable, CommitKeepsTable, CrashKeepsTable
       DEF Next, FrontEnd, BackEnd
  <2> QED BY <2>1
<1> QED BY <1>3, <1>4

(* The log is empty from the end of the replay to restore_memory. *)
LEMMA StepKeepsQuiet ==
    ASSUME PlaceInv, DataInv, QuietInv, [Next]_vars
    PROVE  QuietInv'
<1> USE DEF QuietInv
<1>1. CASE Launch
  BY <1>1 DEF Launch, PlaceInv
<1>2. CASE FrontEnd
  BY <1>2 DEF FrontEnd, FrontOpen, FrontPost, FrontWait, RestoreMemory, workload, PlaceInv
<1>3. CASE Application
  BY <1>3 DEF Application, LogStores, LogMmap, LogGroup
<1>4. CASE BackOpen \/ BackWait \/ BackUnlink \/ SyncFile \/ SyncRecord \/ SyncCommit
  BY <1>4 DEF BackOpen, BackWait, BackUnlink, SyncFile, SyncRecord, SyncCommit, workload
<1>5. CASE RemapBackend \/ ProcessMmap \/ ProcessMmapFile \/ ProcessRedo
  BY <1>5 DEF RemapBackend, ProcessMmap, ProcessMmapFile, ProcessRedo, workload
<1>6. CASE CommitRegions \/ CommitTable \/ ReplayDone
  BY <1>6 DEF CommitRegions, CommitTable, ReplayDone, workload
<1>7. CASE CommitDequeued
  BY <1>7 DEF CommitDequeued, DataInv, InGroup
<1>8. CASE Kill \/ Reboot
  BY <1>8 DEF Kill, Reboot, Crash
<1>9. CASE UNCHANGED vars
  BY <1>9 DEF vars, workload
<1> QED BY <1>1, <1>2, <1>3, <1>4, <1>5, <1>6, <1>7, <1>8, <1>9 DEF Next, BackEnd

(* Only restore_memory brings a recovered process to its main loop, and then
   the table holds every region. *)
LEMMA StepKeepsRestored ==
    ASSUME PlaceInv, NotStale => SemInv, DataInv, TableInv, QuietInv, RestoredComplete,
           [Next]_vars
    PROVE  RestoredComplete'
<1> SUFFICES ASSUME met' = {}, fpc' = "run", ~isNewProcess'
             PROVE  1 .. allocated' \subseteq mapped'
  BY DEF RestoredComplete
<1>1. met = {}
  BY MetGrows
<1>2. CASE RestoreMemory
  <2>1. /\ fpc = "restore" /\ ~isNewProcess /\ mapped' = MappedRegions(number_of_entries)
        /\ UNCHANGED allocated
    BY <1>2 DEF RestoreMemory, PlaceInv
  <2>2. log = <<>>
    <3>1. phase = "consume"
      BY <1>1, <2>1 DEF NotStale, SemInv
    <3> QED BY <2>1, <3>1 DEF QuietInv
  <2>3. PICK b \in Nat : Table(b)
    BY <1>1 DEF TableInv, Sound
  <2>4. b = allocated
    BY <2>2, <2>3, NothingPending DEF Table
  <2>5. numberOfRegions = b /\ number_of_entries = b
    BY <2>1, <2>2, <2>3 DEF Table, CountInv, Lag, PlaceInv
  <2>6. \A k \in 0 .. allocated - 1 : regionTable[k] = k + 1 /\ files[k] = k + 1
    BY <2>3, <2>4, <2>5 DEF Table, FilesInv
  <2>7. mapped' = {regionTable[k] : k \in {j \in 0 .. allocated - 1 : files[j] = regionTable[j]}}
    BY <2>1, <2>4, <2>5 DEF MappedRegions
  <2>8. ASSUME NEW r \in 1 .. allocated PROVE r \in mapped'
    <3>1. r - 1 \in 0 .. allocated - 1 /\ (r - 1) + 1 = r
      BY CounterTypes
    <3> QED BY <2>6, <2>7, <3>1
  <2> QED BY <2>1, <2>8
<1>3. CASE Application
  <2>1. 1 .. allocated \subseteq mapped
    BY <1>1, <1>3, Logging DEF RestoredComplete
  <2>2. \/ UNCHANGED <<allocated, mapped>>
        \/ allocated' = allocated + 1 /\ mapped' = mapped \cup {allocated + 1}
    BY <1>3, Logging
  <2> QED BY <2>1, <2>2, CounterTypes
<1>4. CASE ~RestoreMemory /\ ~Application
  <2>1. fpc = "run" /\ ~isNewProcess /\ UNCHANGED <<allocated, mapped>>
    <3>1. ~Launch /\ ~Kill /\ ~Reboot
      BY DEF Launch, Kill, Reboot, Crash
    <3>2. CASE FrontEnd
      BY <1>4, <3>2 DEF FrontEnd, FrontOpen, FrontPost, FrontWait, PlaceInv
    <3>3. CASE BackOpen \/ BackWait \/ BackUnlink \/ SyncFile \/ SyncRecord \/ SyncCommit
      BY <3>3 DEF BackOpen, BackWait, BackUnlink, SyncFile, SyncRecord, SyncCommit, workload
    <3>4. CASE RemapBackend \/ ProcessMmap \/ ProcessMmapFile \/ ProcessRedo
      BY <3>4 DEF RemapBackend, ProcessMmap, ProcessMmapFile, ProcessRedo, workload
    <3>5. CASE CommitRegions \/ CommitTable \/ CommitDequeued \/ ReplayDone
      BY <3>5 DEF CommitRegions, CommitTable, CommitDequeued, ReplayDone, workload
    <3>6. CASE UNCHANGED vars
      BY <3>6 DEF vars, workload
    <3> QED BY <1>4, <3>1, <3>2, <3>3, <3>4, <3>5, <3>6 DEF Next, BackEnd
  <2> QED BY <1>1, <2>1 DEF RestoredComplete
<1> QED BY <1>2, <1>3, <1>4

(* The records of region_table.c, the memory files and the counters agree
   through synchronize_address_space, process_entry, commit_rb_batch, kills and
   reboots in every state and recoveries, until a first launch finds left
   records or a recovered back end makes a file. *)
THEOREM TableInvariant ==
    ASSUME TableHolds
    PROVE  Spec => [](PlaceInv /\ DataInv /\ TableInv)
<1>1. Init => PlaceInv /\ DataInv /\ TableInv
  BY InitialPlaces, InitialData, InitialTable
<1>2. PlaceInv /\ DataInv /\ TableInv /\ [Next]_vars => (PlaceInv /\ DataInv /\ TableInv)'
  BY StepKeepsPlaces, StepKeepsData, StepKeepsTable
<1> QED BY <1>1, <1>2, PTL DEF Spec

(* Every region that remap_backend and restore_memory would map has its own
   memory file under its own index, wherever a crash comes between a record,
   its file and its commit, until "early" or "grow" is met. *)
THEOREM CommittedRegionsBacked ==
    ASSUME TableHolds
    PROVE  Spec => []RegionsBacked
<1>1. ASSUME DataInv, TableInv PROVE RegionsBacked
  <2> SUFFICES ASSUME Sound, NEW k \in 0 .. numberOfRegions - 1
               PROVE  files[k] = regionTable[k] /\ files[k] # NoFile
    BY DEF RegionsBacked, Sound
  <2>1. files[k] = regionTable[k]
    BY <1>1 DEF TableInv, Table, FilesInv
  <2>2. k \in Indexes /\ k < numberOfRegions
    BY <1>1, TableAssumption DEF DataInv, Indexes
  <2>3. regionTable[k] \in Regions
    BY <1>1, <2>2 DEF DataInv
  <2> QED BY <2>1, <2>3, TableAssumption
<1>2. DataInv /\ TableInv => RegionsBacked
  BY <1>1
<1> QED BY <1>2, TableInvariant, PTL

(* restore_memory gives a recovered application every region it had, over any
   number of kills, reboots and recoveries, until one of the moments that the
   code does not handle is met. *)
THEOREM RecoveryIsComplete ==
    ASSUME TableHolds
    PROVE  Spec => []RestoredComplete
<1> DEFINE Sem == PlaceInv /\ (NotStale => SemInv)
           Tab == PlaceInv /\ DataInv /\ TableInv
           Res == QuietInv /\ RestoredComplete
<1>1. Init => Res
  BY InitialTable
<1>2. Sem /\ Tab /\ Res /\ [Next]_vars => Res'
  BY StepKeepsQuiet, StepKeepsRestored
<1>3. Res => RestoredComplete
  OBVIOUS
<1>4. Spec => []Sem
  BY SemaphoreInvariant
<1>5. Spec => []Tab
  BY TableInvariant
<1> HIDE DEF Sem, Tab, Res
<1> QED BY <1>1, <1>2, <1>3, <1>4, <1>5, PTL DEF Spec
=============================================================================
