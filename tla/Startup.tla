------------------------------ MODULE Startup -------------------------------
(***************************************************************************)
(* Launch and recovery of the two processes (mangosteen_instrumentation.c, *)
(* front-end/front_end.c, back-end/back_end.c).  launch_mangosteen opens   *)
(* the ring buffer and the region table, decides whether this is a new     *)
(* process or a recovery, and forks the back end.  The two processes then  *)
(* meet at the named semaphore init_semaphore: a new back end waits for    *)
(* the front end, a recovering front end waits until the back end has      *)
(* replayed the log.                                                       *)
(*                                                                         *)
(* A name of a semaphore and the semaphore are two things: sem_unlink      *)
(* removes the name, and open handles keep the semaphore.  Both outlive a  *)
(* killed process, neither outlives a reboot.                              *)
(*                                                                         *)
(* The log is abstracted to its committed groups that the back end has not *)
(* acknowledged; a group maps a region or only stores.                     *)
(***************************************************************************)
EXTENDS RegionTable, Sequences

CONSTANTS
    InitialRegions,  \* regions of the address space at the first launch
    MaxLogged,       \* bound: groups logged
    MaxCrashes       \* bound: crashes

ASSUME StartupAssumption ==
    /\ InitialRegions \in Nat \ {0} /\ MaxLogged \in Nat /\ MaxCrashes \in Nat
    /\ Regions = 1 .. InitialRegions + MaxLogged

StoresOnly == 0   \* a group without a mapped region
Absent == -1      \* no semaphore of that name

VARIABLES
    fpc, bpc,       \* where the two processes are
    phase,          \* "replay" or "consume": the caller of process_entry
    isNewProcess,
    named,          \* value of the semaphore called init_semaphore, or Absent
    orphan,         \* value of the one whose name was removed
    handle,         \* which of the two each process has open
    log,            \* committed groups not yet acknowledged
    logged,         \* groups ever logged
    allocated,      \* the regions 1 .. allocated have been mapped
    mapped,         \* regions mapped again, or for the first time, since launch
    crashes,
    met             \* history: the moments met so far that the code does not handle

(* "stale": a kill that leaves a token in the semaphore;
   "early": a first launch that finds region records of an earlier one;
   "grow":  a recovered back end that makes a memory file. *)
Moments == {"stale", "early", "grow"}

semVars == <<named, orphan, handle>>
workload == <<log, logged, allocated, mapped>>
vars == <<tableVars, fpc, bpc, phase, isNewProcess, semVars, workload, crashes, met>>

Init ==
    /\ TableInit
    /\ fpc = "down" /\ bpc = "down" /\ phase = "consume"
    /\ isNewProcess = TRUE
    /\ named = Absent /\ orphan = Absent
    /\ handle = [front |-> "closed", back |-> "closed"]
    /\ log = <<>> /\ logged = 0 /\ allocated = InitialRegions /\ mapped = {}
    /\ crashes = 0 /\ met = {}

-----------------------------------------------------------------------------
(* The semaphore, as the C library implements it (external). *)
SemOpen(p) ==
    /\ named' = IF named = Absent THEN 0 ELSE named
    /\ handle' = [handle EXCEPT ![p] = "named"]
    /\ UNCHANGED orphan

SemPost(p) ==
    /\ named' = IF handle[p] = "named" THEN named + 1 ELSE named
    /\ orphan' = IF handle[p] = "orphan" THEN orphan + 1 ELSE orphan
    /\ handle' = [handle EXCEPT ![p] = "closed"]

(* The waiter of a new back end opened the name before it removes it, so a
   wait is always on the named semaphore. *)
SemWait(p) ==
    /\ handle[p] = "named" /\ named > 0
    /\ named' = named - 1
    /\ handle' = [handle EXCEPT ![p] = "closed"]
    /\ UNCHANGED orphan

SemUnlink ==
    /\ named' = Absent
    /\ orphan' = named
    /\ handle' = [p \in DOMAIN handle |->
                     IF handle[p] = "named" THEN "orphan" ELSE handle[p]]

-----------------------------------------------------------------------------
(* launch_mangosteen up to and including the fork. *)
Launch ==
    /\ fpc = "down" /\ bpc = "down"
    /\ RegionTableOpen
    /\ isNewProcess' = (number_of_entries' = 0)
    /\ fpc' = "open" /\ bpc' = "open"
    /\ phase' = IF isNewProcess' THEN "consume" ELSE "replay"
    /\ met' = met \cup (IF isNewProcess' /\ uncommited_number_of_entries > 0 THEN {"early"} ELSE {})
    /\ UNCHANGED <<semVars, workload, crashes>>

(* start_front_end. *)
FrontOpen ==
    /\ fpc = "open"
    /\ SemOpen("front")
    /\ fpc' = IF isNewProcess THEN "post" ELSE "wait"
    /\ UNCHANGED <<tableVars, bpc, phase, isNewProcess, workload, crashes, met>>

FrontPost ==
    /\ fpc = "post"
    /\ SemPost("front")
    /\ fpc' = "run"
    /\ UNCHANGED <<tableVars, bpc, phase, isNewProcess, workload, crashes, met>>

(* Faulty variant: the front end looks at the value and does not take it. *)
FaultyPeek ==
    /\ fpc = "wait"
    /\ named > 0
    /\ handle' = [handle EXCEPT !["front"] = "closed"]
    /\ fpc' = "restore"
    /\ UNCHANGED <<named, orphan>>
    /\ UNCHANGED <<tableVars, bpc, phase, isNewProcess, workload, crashes, met>>

FrontWait ==
    /\ fpc = "wait"
    /\ SemWait("front")
    /\ fpc' = "restore"
    /\ UNCHANGED <<tableVars, bpc, phase, isNewProcess, workload, crashes, met>>

(* Faulty variants: the loop ends one entry too early or too late. *)
FaultyRestore(regions) ==
    /\ fpc = "restore"
    /\ mapped' = regions
    /\ fpc' = "run"
    /\ UNCHANGED <<tableVars, bpc, phase, isNewProcess, semVars, log, logged,
                   allocated, crashes, met>>

FaultyRestoreShort == FaultyRestore(MappedRegions(number_of_entries - 1))
FaultyRestoreLong == FaultyRestore({files[i] : i \in 0 .. number_of_entries})

RestoreMemory ==
    /\ fpc = "restore"
    /\ mapped' = MappedRegions(number_of_entries)
    /\ fpc' = IF CanMapAll(number_of_entries) THEN "run" ELSE "aborted"
    /\ UNCHANGED <<tableVars, bpc, phase, isNewProcess, semVars, log, logged,
                   allocated, crashes, met>>

(* The combiner commits a group: the hook of an mmap inside the section logs a
   region, instrument_stop logs stores. *)
LogGroup(g) ==
    /\ fpc = "run"
    /\ logged < MaxLogged
    /\ log' = Append(log, g)
    /\ logged' = logged + 1
    /\ UNCHANGED <<tableVars, fpc, bpc, phase, isNewProcess, semVars, crashes, met>>

LogStores == LogGroup(StoresOnly) /\ UNCHANGED <<allocated, mapped>>

LogMmap ==
    /\ LogGroup(allocated + 1)
    /\ allocated' = allocated + 1
    /\ mapped' = mapped \cup {allocated + 1}

-----------------------------------------------------------------------------
(* start_back_end. *)
BackOpen ==
    /\ bpc = "open"
    /\ SemOpen("back")
    /\ bpc' = IF isNewProcess THEN "wait" ELSE "remap"
    /\ UNCHANGED <<tableVars, fpc, phase, isNewProcess, workload, crashes, met>>

(* A new back end: sem_wait, sem_close, then sem_unlink. *)
BackWait ==
    /\ bpc = "wait"
    /\ SemWait("back")
    /\ bpc' = "unlink"
    /\ UNCHANGED <<tableVars, fpc, phase, isNewProcess, workload, crashes, met>>

BackUnlink ==
    /\ bpc = "unlink"
    /\ SemUnlink
    /\ bpc' = "sync"
    /\ UNCHANGED <<tableVars, fpc, phase, isNewProcess, workload, crashes, met>>

(* synchronize_address_space: for each region that should_replace accepts, a
   file with its content and then its record; at the end the table's commit. *)
SyncFile ==
    /\ bpc = "sync"
    /\ sequenceNumber < InitialRegions
    /\ CreatePmemFile(sequenceNumber + 1)
    /\ bpc' = "record"
    /\ UNCHANGED <<fpc, phase, isNewProcess, semVars, workload, crashes, met>>

SyncRecord ==
    /\ bpc = "record"
    /\ AddRegionRecord(sequenceNumber)
    /\ bpc' = "sync"
    /\ UNCHANGED <<fpc, phase, isNewProcess, semVars, workload, crashes, met>>

SyncCommit ==
    /\ bpc = "sync"
    /\ sequenceNumber = InitialRegions
    /\ RegionTableCommit
    /\ bpc' = "idle"
    /\ UNCHANGED <<fpc, phase, isNewProcess, semVars, workload, crashes, met>>

(* remap_backend maps the committed regions. *)
RemapBackend ==
    /\ bpc = "remap"
    /\ bpc' = IF CanMapAll(number_of_entries) THEN "idle" ELSE "aborted"
    /\ number_of_entries' = numberOfRegions
    /\ UNCHANGED <<records, numberOfRegions, files, sequenceNumber, fpc, phase,
                   isNewProcess, semVars, workload, crashes, met>>

(* process_entry on the first entry of the next group: an MMAP_ENTRY adds a
   record and then creates the file; redo and transient-mmap entries touch no
   metadata. *)
ProcessMmap ==
    /\ bpc = "idle" /\ log # <<>> /\ Head(log) # StoresOnly
    /\ AddRegionRecord(Head(log))
    /\ bpc' = "file"
    /\ met' = met \cup (IF isNewProcess THEN {} ELSE {"grow"})
    /\ UNCHANGED <<fpc, phase, isNewProcess, semVars, workload, crashes>>

ProcessMmapFile ==
    /\ bpc = "file"
    /\ CreatePmemFile(Head(log))
    /\ bpc' = "commit"
    /\ UNCHANGED <<fpc, phase, isNewProcess, semVars, workload, crashes, met>>

ProcessRedo ==
    /\ bpc = "idle" /\ log # <<>> /\ Head(log) = StoresOnly
    /\ bpc' = "commit"
    /\ UNCHANGED <<tableVars, fpc, phase, isNewProcess, semVars, workload, crashes, met>>

(* commit_rb_batch: metadata, then the table, then the head of the ring. *)
CommitRegions ==
    /\ bpc = "commit"
    /\ CommitMetadata
    /\ bpc' = "table"
    /\ UNCHANGED <<fpc, phase, isNewProcess, semVars, workload, crashes, met>>

CommitTable ==
    /\ bpc = "table"
    /\ RegionTableCommit
    /\ bpc' = "ack"
    /\ UNCHANGED <<fpc, phase, isNewProcess, semVars, workload, crashes, met>>

CommitDequeued ==
    /\ bpc = "ack"
    /\ log' = Tail(log)
    /\ bpc' = "idle"
    /\ UNCHANGED <<tableVars, fpc, phase, isNewProcess, semVars, logged, allocated,
                   mapped, crashes, met>>

(* Faulty variants: the front end is woken before the replay, or not at all. *)
FaultyWakeFirst ==
    /\ bpc = "idle" /\ phase = "replay" /\ handle["back"] # "closed"
    /\ SemPost("back")
    /\ phase' = IF log = <<>> THEN "consume" ELSE "replay"
    /\ UNCHANGED <<tableVars, fpc, bpc, isNewProcess, workload, crashes, met>>

FaultyNoWake ==
    /\ bpc = "idle" /\ phase = "replay" /\ log = <<>>
    /\ phase' = "consume"
    /\ UNCHANGED <<tableVars, fpc, bpc, isNewProcess, semVars, workload, crashes, met>>

(* The replay loop ends on an empty log; the front end is woken up. *)
ReplayDone ==
    /\ bpc = "idle" /\ phase = "replay" /\ log = <<>>
    /\ SemPost("back")
    /\ phase' = "consume"
    /\ UNCHANGED <<tableVars, fpc, bpc, isNewProcess, workload, crashes, met>>

-----------------------------------------------------------------------------
(* Both processes die; the next launch starts from the checkpoint. *)
Crash ==
    /\ crashes < MaxCrashes
    /\ fpc # "down"
    /\ crashes' = crashes + 1
    /\ fpc' = "down" /\ bpc' = "down"
    /\ orphan' = Absent
    /\ handle' = [front |-> "closed", back |-> "closed"]
    /\ mapped' = {}
    /\ UNCHANGED <<regionTable, number_of_entries, numberOfRegions, files, sequenceNumber,
                   phase, isNewProcess, log, logged, allocated>>

Kill ==
    /\ Crash
    /\ met' = met \cup (IF named > 0 THEN {"stale"} ELSE {})
    /\ UNCHANGED <<named, uncommited_number_of_entries>>

(* After a reboot the semaphore is gone, and so may be what the counter of
   written entries gained since region_table_commit flushed its cache line. *)
Reboot ==
    /\ Crash
    /\ named' = Absent
    /\ uncommited_number_of_entries' \in {uncommited_number_of_entries, number_of_entries}
    /\ UNCHANGED met

-----------------------------------------------------------------------------
FrontEnd == FrontOpen \/ FrontPost \/ FrontWait \/ RestoreMemory
Application == LogStores \/ LogMmap
BackEnd ==
    \/ BackOpen \/ BackWait \/ BackUnlink \/ SyncFile \/ SyncRecord \/ SyncCommit
    \/ RemapBackend \/ ProcessMmap \/ ProcessMmapFile \/ ProcessRedo
    \/ CommitRegions \/ CommitTable \/ CommitDequeued \/ ReplayDone

Next == Launch \/ FrontEnd \/ Application \/ BackEnd \/ Kill \/ Reboot

(* A launched process runs; whether to launch is the operator's choice. *)
Fairness == WF_vars(FrontEnd) /\ WF_vars(BackEnd)

Spec == Init /\ [][Next]_vars
FairSpec == Spec /\ Fairness

-----------------------------------------------------------------------------
(* Type correctness; the sequence number never runs past the last file. *)
TypeOK ==
    /\ regionTable \in [Indexes -> Regions \cup {NoFile}]
    /\ uncommited_number_of_entries \in 0 .. INITIAL_TABLE_SIZE
    /\ number_of_entries \in 0 .. INITIAL_TABLE_SIZE
    /\ numberOfRegions \in 0 .. INITIAL_TABLE_SIZE
    /\ files \in [Indexes -> Regions \cup {NoFile}]
    /\ sequenceNumber \in 0 .. INITIAL_TABLE_SIZE
    /\ fpc \in {"down", "open", "post", "wait", "restore", "run", "aborted"}
    /\ bpc \in {"down", "open", "wait", "unlink", "sync", "record", "remap", "idle", "file",
                "commit", "table", "ack", "aborted"}
    /\ phase \in {"replay", "consume"} /\ isNewProcess \in BOOLEAN
    /\ named \in Nat \cup {Absent} /\ orphan \in Nat \cup {Absent}
    /\ handle \in [{"front", "back"} -> {"closed", "named", "orphan"}]
    /\ log \in Seq(Regions \cup {StoresOnly})
    /\ logged \in 0 .. MaxLogged /\ allocated \in Regions /\ mapped \subseteq Regions
    /\ crashes \in 0 .. MaxCrashes /\ met \subseteq Moments

(* A recovering front end maps the memory files only after the back end has
   replayed the whole log into them: the semaphore carries exactly that
   message, over first launches, recoveries, reboots and kills at any moment,
   until a kill leaves a token in the semaphore; the next launch takes that
   token for its own. *)
RestoreAfterReplay ==
    "stale" \notin met => (fpc \in {"restore", "run"} => phase = "consume")

(* Every launch takes the token it posts: when both processes are up, the
   semaphore a later launch would find holds none, unless a kill left one. *)
NoTokenLeft == "stale" \notin met => (fpc = "run" /\ bpc = "idle" => named <= 0)

(* Every region that recovery may use has its own memory file under its own
   index.  A crash between a record, its file and its commit, before the first
   commit, or with mapped regions in the log does not change that; it ends with
   a first launch over the records of an earlier one, or when a recovered back
   end makes a file, because file numbers start at 0 again. *)
RegionsBacked ==
    {"early", "grow"} \cap met = {} =>
        \A i \in 0 .. numberOfRegions - 1 : files[i] = regionTable[i] /\ files[i] # NoFile

(* After a recovery the front end has every region that the application had
   mapped before the crash, with that region's own content, as long as none of
   the moments that the code does not handle has been met; the replay of a
   region that was still in the log is one of them ("grow"). *)
RestoredComplete ==
    met = {} => (fpc = "run" /\ ~isNewProcess => 1 .. allocated \subseteq mapped)

(* Start-up never hangs: whatever a crash left behind, a launch gets both
   processes to their main loops, unless another crash comes or a moment that
   the code does not handle is met: with "grow", restore_memory finds no file
   of a replayed region and aborts. *)
StartupCompletes ==
    fpc = "open" ~>
        \/ met # {} \/ fpc = "down"
        \/ fpc = "run" /\ phase = "consume" /\ bpc # "wait"
=============================================================================
