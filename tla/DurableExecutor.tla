-------------------------- MODULE DurableExecutor ---------------------------
(***************************************************************************)
(* What the flat-combining executor promises, without locks, slots and     *)
(* combiners.  An update is submitted, applied to memory once, made        *)
(* durable and only then reported; several applied updates become durable  *)
(* together.  A read-only request runs only while no applied update is     *)
(* still volatile.                                                         *)
(***************************************************************************)
CONSTANT Clients

VARIABLES
    update,  \* update[c]: "none", "submitted", "applied" or "durable"
    reading  \* the clients inside a read-only request

vars == <<update, reading>>

Init ==
    /\ update = [c \in Clients |-> "none"]
    /\ reading = {}

Submit(c) ==
    /\ update[c] = "none"
    /\ c \notin reading
    /\ update' = [update EXCEPT ![c] = "submitted"]
    /\ UNCHANGED reading

Apply(c) ==
    /\ update[c] = "submitted"
    /\ reading = {}
    /\ update' = [update EXCEPT ![c] = "applied"]
    /\ UNCHANGED reading

(* One durable point for everything applied so far. *)
Persist ==
    /\ \E c \in Clients : update[c] = "applied"
    /\ update' = [c \in Clients |->
                     IF update[c] = "applied" THEN "durable" ELSE update[c]]
    /\ UNCHANGED reading

Return(c) ==
    /\ update[c] = "durable"
    /\ update' = [update EXCEPT ![c] = "none"]
    /\ UNCHANGED reading

BeginRead(c) ==
    /\ update[c] = "none"
    /\ c \notin reading
    /\ \A d \in Clients : update[d] # "applied"
    /\ reading' = reading \cup {c}
    /\ UNCHANGED update

EndRead(c) ==
    /\ c \in reading
    /\ reading' = reading \ {c}
    /\ UNCHANGED update

Next ==
    \/ Persist
    \/ \E c \in Clients :
           Submit(c) \/ Apply(c) \/ Return(c) \/ BeginRead(c) \/ EndRead(c)

Spec == Init /\ [][Next]_vars
=============================================================================
