---------------------------- MODULE CommittedLog ----------------------------
(***************************************************************************)
(* What the redo log promises, without a ring, slots or head and tail      *)
(* words: entries are appended in groups, a group counts from its commit   *)
(* entry on, the consumer applies committed entries in order, each as it   *)
(* was written, and acknowledges whole groups.  A crash forgets what was   *)
(* appended but not committed and makes the consumer start again after the *)
(* last acknowledged group, or after a later one that it had applied.  At  *)
(* a crash the commit that is under way may count or not.                  *)
(***************************************************************************)
EXTENDS Naturals, Sequences

CONSTANTS
    Entries,      \* what a log entry may be
    IsCommit(_)   \* the entries that end a group

VARIABLES
    log,        \* the entries appended, the uncommitted ones included
    committed,  \* length of the committed prefix of log
    applied,    \* entries applied by the consumer
    acked,      \* entries the consumer will not ask for again
    delivered   \* the entry applied last, as the consumer saw it

vars == <<log, committed, applied, acked, delivered>>

Init ==
    /\ log = <<>>
    /\ committed = 0 /\ applied = 0 /\ acked = 0
    /\ delivered \in Entries

AppendEntry(e) ==
    /\ log' = Append(log, e)
    /\ UNCHANGED <<committed, applied, acked, delivered>>

Commit ==
    /\ Len(log) > committed
    /\ IsCommit(log[Len(log)])
    /\ committed' = Len(log)
    /\ UNCHANGED <<log, applied, acked, delivered>>

Apply ==
    /\ applied < committed
    /\ delivered' = log[applied + 1]
    /\ applied' = applied + 1
    /\ UNCHANGED <<log, committed, acked>>

Ack ==
    /\ applied > 0
    /\ IsCommit(log[applied])
    /\ acked' = applied
    /\ UNCHANGED <<log, committed, applied, delivered>>

Crash ==
    /\ \/ committed' = committed
       \/ /\ Len(log) > committed /\ IsCommit(log[Len(log)])
          /\ committed' = Len(log)
    /\ log' = SubSeq(log, 1, committed')
    /\ applied' \in acked .. applied
    /\ applied' > acked => IsCommit(log[applied'])
    /\ acked' \in {acked, applied'}
    /\ UNCHANGED delivered

Next ==
    \/ \E e \in Entries : AppendEntry(e)
    \/ Commit \/ Apply \/ Ack \/ Crash

Spec == Init /\ [][Next]_vars
=============================================================================
