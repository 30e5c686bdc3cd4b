---------------------------- MODULE RegionTable -----------------------------
(***************************************************************************)
(* The region table (region_table/region_table.c): which memory regions    *)
(* the back end keeps in memory files, and how many of them recovery may   *)
(* use.  The table and the metadata word of the ring buffer are files; the *)
(* sequence number that names new memory files is a static variable of the *)
(* process.                                                                *)
(*                                                                         *)
(* A region stands for an address range of the application; a memory file  *)
(* holds the content of the region it was created for.  The recovery code  *)
(* finds the file of a table entry by the entry's index.                   *)
(***************************************************************************)
EXTENDS Integers

CONSTANTS
    INITIAL_TABLE_SIZE,  \* entries the table has room for
    Regions,             \* the regions of the application's address space
    NoFile               \* an entry never written, a file never created

ASSUME TableAssumption ==
    INITIAL_TABLE_SIZE \in Nat /\ Regions \subseteq Nat \ {0} /\ NoFile \notin Regions

VARIABLES
    regionTable,        \* the region recorded in each entry
    uncommited_number_of_entries,  \* entries written; a word of the file too
    number_of_entries,  \* entries in use
    numberOfRegions,    \* commit_metadata.numberOfRegions of the ring buffer
    files,              \* the memory files, by number
    sequenceNumber      \* number of the next memory file

records == <<regionTable, uncommited_number_of_entries>>
tableVars == <<records, number_of_entries, numberOfRegions, files, sequenceNumber>>

Indexes == 0 .. INITIAL_TABLE_SIZE - 1

TableInit ==
    /\ regionTable = [i \in Indexes |-> NoFile]
    /\ uncommited_number_of_entries = 0
    /\ number_of_entries = 0
    /\ numberOfRegions = 0
    /\ files = [n \in Indexes |-> NoFile]
    /\ sequenceNumber = 0

(* region_table_create_or_open on the files as they are; a new table has no
   entries, like the metadata of a new ring buffer. *)
RegionTableOpen ==
    /\ number_of_entries' = numberOfRegions
    /\ sequenceNumber' = 0
    /\ UNCHANGED <<records, numberOfRegions, files>>

(* assert(uncommited_number_of_entries < currentTableSize): a back end that
   fails it stops for good, so the record is never added. *)
HasRoom == uncommited_number_of_entries < INITIAL_TABLE_SIZE

AddRegionRecord(r) ==
    /\ HasRoom
    /\ regionTable' = [regionTable EXCEPT ![uncommited_number_of_entries] = r]
    /\ uncommited_number_of_entries' = uncommited_number_of_entries + 1
    /\ UNCHANGED <<number_of_entries, numberOfRegions, files, sequenceNumber>>

(* create_pmem_file opens with O_TRUNC: an older file of that number is gone. *)
CreatePmemFile(r) ==
    /\ files' = [files EXCEPT ![sequenceNumber] = r]
    /\ sequenceNumber' = sequenceNumber + 1
    /\ UNCHANGED <<records, number_of_entries, numberOfRegions>>

RegionTableCommit ==
    /\ number_of_entries' = uncommited_number_of_entries
    /\ UNCHANGED <<records, numberOfRegions, files, sequenceNumber>>

(* Faulty variant: the metadata counts one entry too many. *)
FaultyMetadata ==
    /\ numberOfRegions' = uncommited_number_of_entries + 1
    /\ UNCHANGED <<records, number_of_entries, files, sequenceNumber>>

(* commit_rb_batch: the 8-byte metadata word is persisted. *)
CommitMetadata ==
    /\ numberOfRegions' = uncommited_number_of_entries
    /\ UNCHANGED <<records, number_of_entries, files, sequenceNumber>>

(* The loop of remap_backend and restore_memory opens mem_file_i for entry i
   and asserts that the mapping succeeds. *)
CanMapAll(n) == \A i \in 0 .. n - 1 : files[i] # NoFile
MappedRegions(n) ==
    {regionTable[i] : i \in {j \in 0 .. n - 1 : files[j] = regionTable[j]}}

=============================================================================
