--------------------------- MODULE EventLoopProofs --------------------------
(***************************************************************************)
(* Machine-checked proofs about the connection state machine of an RPC     *)
(* worker, for any number of clients and requests, every size of requests, *)
(* responses and send buffers, and whether accept fails or not.  They need *)
(* that no piece of a request ends with the marker (~InnerMarkers).        *)
(***************************************************************************)
EXTENDS EventLoop, FiniteSetTheorems, TLAPS

(* What the client's side says of the connection: until accept the worker has
   done nothing for it, and only a client that has left leaves an end of file,
   a reset or an ended connection behind. *)
PeerInv ==
    \A c \in Clients :
        /\ cpc[c] = "off" <=> object[c] = "none"
        /\ object[c] = "none" => requests[c] = 0
        /\ object[c] \in {"none", "backlog"} =>
               executed[c] = 0 /\ outbox[c] = 0 /\ status[c] = "Reading"
        /\ eof[c] <=> cpc[c] = "gone"
        /\ hup[c] \/ status[c] = "Ended" => cpc[c] = "gone"
        /\ cpc[c] = "sending" => unsent[c] > 0
        /\ cpc[c] = "awaiting" => unsent[c] = 0

(***************************************************************************)
(* Where the bytes are.  Before a request is executed all its bytes are    *)
(* with the client, in the socket or in req, and none of a response is     *)
(* anywhere; after it, none of the request is left, and what the client    *)
(* waits for is received, in the send buffer or still to be written.       *)
(***************************************************************************)
Owed(c) == executed[c] = requests[c] - 1

BytesInv ==
    \A c \in Clients :
        /\ executed[c] = requests[c] \/ Owed(c)
        /\ ~Owed(c) =>
               unsent[c] = 0 /\ inbox[c] = 0 /\ bytes_read[c] = 0 /\ ~complete[c]
        /\ Owed(c) =>
               /\ unsent[c] + inbox[c] + bytes_read[c] \in 3 .. MAX_REQUEST_SIZE - 1
               /\ received[c] = 0 /\ outbox[c] = 0 /\ Unwritten(c) = 0
        /\ complete[c] => unsent[c] = 0 /\ inbox[c] = 0
        /\ cpc[c] = "idle" => ~Owed(c) /\ outbox[c] = 0 /\ Unwritten(c) = 0
        /\ cpc[c] = "sending" => Owed(c)
        /\ cpc[c] = "awaiting" /\ ~Owed(c) =>
               received[c] + outbox[c] + Unwritten(c) = ResponseSize

(***************************************************************************)
(* What the worker holds: it handles one report at a time, a report and an *)
(* interest exist only for live connections and exclude each other, and an *)
(* ended connection is being closed.                                       *)
(***************************************************************************)
WorkerInv ==
    /\ wpc \in {"wait", "dispatch", "accept"} <=> current = Nobody
    /\ wpc = "wait" => batch = {}
    /\ wpc \in {"read", "process"} => status[current] = "Reading"
    /\ wpc = "process" => complete[current]
    /\ wpc = "write" => status[current] = "Writing"
    /\ \A e, f \in batch : e[1] = f[1] => e = f
    /\ \A e \in batch : e[1] # Listen => e[1] # current
    /\ \A c \in Clients :
           /\ object[c] = "live" /\ status[c] = "Ended" => current = c /\ wpc = "rearm"
           /\ Reported(c) => object[c] = "live" /\ armed[c] = "none"
           /\ pending[c] => armed[c] # "none"
           /\ armed[c] # "none" => object[c] = "live"

LoopInv ==
    /\ TypeOK
    /\ PeerInv
    /\ BytesInv
    /\ WorkerInv
    /\ NoLostWakeup

-----------------------------------------------------------------------------
(***************************************************************************)
(* Every step of a client, of the network and of the worker keeps each     *)
(* part of the invariant.                                                  *)
(***************************************************************************)

(* What epoll_wait reports: the due connections, each once, and the listening
   socket. *)
LEMMA ReportsOfWait ==
    ASSUME TypeOK, EpollWait
    PROVE  /\ \A e \in batch' : \/ e = <<Listen, FALSE>> /\ e[1] = Listen
                                \/ e[1] \in Due /\ e = <<e[1], hup[e[1]]>>
           /\ \A c \in Due : \E e \in batch' : e[1] = c
           /\ \A c \in Due : c \in Clients /\ pending[c]
<1> DEFINE S == {<<c, hup[c]>> : c \in Due}
           T == IF listening THEN {<<Listen, FALSE>>} ELSE {}
<1>1. batch' = S \cup T
  BY DEF EpollWait
<1>2. \A e \in S : e[1] \in Due /\ e = <<e[1], hup[e[1]]>>
  OBVIOUS
<1>3. \A e \in T : e = <<Listen, FALSE>> /\ e[1] = Listen
  <2>1. <<Listen, FALSE>>[1] = Listen
    OBVIOUS
  <2>2. \A e \in T : e = <<Listen, FALSE>>
    OBVIOUS
  <2> HIDE DEF T
  <2> QED BY <2>1, <2>2
<1>4. \A c \in Due : \E e \in S : e[1] = c
  <2> SUFFICES ASSUME NEW c \in Due PROVE \E e \in S : e[1] = c
    OBVIOUS
  <2>1. <<c, hup[c]>> \in S /\ <<c, hup[c]>>[1] = c
    OBVIOUS
  <2> QED BY <2>1
<1> HIDE DEF S, T
<1> QED BY <1>1, <1>2, <1>3, <1>4 DEF Due

(* The types: the buffers are large enough and the counters bounded. *)
LEMMA StepKeepsTypes ==
    ASSUME ~InnerMarkers, LoopInv, Next
    PROVE  TypeOK'
<1> USE RequestAssumption, ResponseAssumption, NamesAssumption
        DEF LoopInv, TypeOK, BytesInv, WorkerInv, Owed
<1>1. ASSUME NEW c \in Clients, Connect(c) PROVE TypeOK'
  BY <1>1 DEF Connect, client, worker
<1>2. ASSUME NEW c \in Clients, NEW size \in RequestSizes, BeginRequest(c, size) PROVE TypeOK'
  BY <1>2 DEF BeginRequest, client, epoll, worker
<1>3. ASSUME NEW c \in Clients, NEW n \in 1 .. MAX_REQUEST_SIZE, Send(c, n) PROVE TypeOK'
  BY <1>3 DEF Send, client, worker, Wake
<1>4. ASSUME NEW c \in Clients, Receive(c) PROVE TypeOK'
  <2>1. Unwritten(c) \in Nat
    BY DEF Unwritten
  <2>2. received[c] + outbox[c] \in 0 .. ResponseSize
    BY <1>4, <2>1 DEF Receive
  <2> QED BY <1>4, <2>2 DEF Receive, client, worker, Wake
<1>5. ASSUME NEW c \in Clients, Leave(c) PROVE TypeOK'
  BY <1>5 DEF Leave, client, worker, Wake
<1>6. ASSUME NEW c \in Clients, Reset(c) PROVE TypeOK'
  BY <1>6 DEF Reset, client, worker, Wake
<1>7. ASSUME EpollWait PROVE TypeOK'
  <2>1. batch' \subseteq (Clients \cup {Listen}) \X BOOLEAN
    <3> SUFFICES ASSUME NEW e \in batch' PROVE e \in (Clients \cup {Listen}) \X BOOLEAN
      OBVIOUS
    <3>1. CASE e = <<Listen, FALSE>>
      BY <3>1
    <3>2. CASE e[1] \in Due /\ e = <<e[1], hup[e[1]]>>
      <4>1. e[1] \in Clients /\ hup[e[1]] \in BOOLEAN
        BY <3>2 DEF Due
      <4> QED BY <3>2, <4>1
    <3> QED BY <1>7, <3>1, <3>2, ReportsOfWait
  <2>2. armed' \in [Clients -> {"none", "in", "out"}]
    BY <1>7 DEF EpollWait
  <2> QED BY <1>7, <2>1, <2>2 DEF EpollWait, peer, client
<1>8. ASSUME EndOfBatch PROVE TypeOK'
  BY <1>8 DEF EndOfBatch, peer, client, epoll
<1>9. ASSUME NEW e \in batch, HandleRequest(e) PROVE TypeOK'
  BY <1>9 DEF HandleRequest, peer, client, epoll
<1>10. ASSUME NEW e \in batch, HandleHup(e) PROVE TypeOK'
  BY <1>10 DEF HandleHup, peer, epoll
<1>11. ASSUME HandleListen PROVE TypeOK'
  BY <1>11 DEF HandleListen, peer, client, epoll
<1>12. ASSUME NEW c \in Clients, Accept(c) PROVE TypeOK'
  <2>1. Interest(c) \in {"in", "out"} /\ IsReady(c) \in BOOLEAN
    BY DEF Interest, IsReady
  <2> QED BY <1>12, <2>1 DEF Accept, peer, worker
<1>13. ASSUME AcceptAgain PROVE TypeOK'
  BY <1>13 DEF AcceptAgain, peer, client, epoll
<1>14. ASSUME NEW c \in Clients, ReadSome(c) PROVE TypeOK'
  BY <1>14 DEF ReadSome, epoll, worker, Least
<1>15. ASSUME NEW c \in Clients, ReadAgain(c) PROVE TypeOK'
  BY <1>15 DEF ReadAgain, peer, client, epoll
<1>16. ASSUME NEW c \in Clients, ReadError(c) PROVE TypeOK'
  BY <1>16 DEF ReadError, peer, client, epoll
<1>17. ASSUME NEW c \in Clients, ReadEof(c) PROVE TypeOK'
  BY <1>17 DEF ReadEof, peer, epoll
<1>18. ASSUME NEW c \in Clients, ProcessCommand(c) PROVE TypeOK'
  BY <1>18 DEF ProcessCommand, peer, epoll
<1>19. ASSUME NEW c \in Clients, WriteSome(c) PROVE TypeOK'
  BY <1>19 DEF WriteSome, client, epoll, Least
<1>20. ASSUME NEW c \in Clients, WriteBlocked(c) PROVE TypeOK'
  BY <1>20 DEF WriteBlocked, peer, epoll
<1>21. ASSUME NEW c \in Clients, WriteError(c) PROVE TypeOK'
  BY <1>21 DEF WriteError, peer, epoll
<1>22. ASSUME NEW c \in Clients, WriteDone(c) PROVE TypeOK'
  BY <1>22 DEF WriteDone, peer, epoll
<1>23. ASSUME NEW c \in Clients, Rearm(c) PROVE TypeOK'
  <2>1. Interest(c) \in {"in", "out"} /\ IsReady(c) \in BOOLEAN
    BY DEF Interest, IsReady
  <2> QED BY <1>23, <2>1 DEF Rearm, peer, client
<1>24. ASSUME NEW c \in Clients, CloseEnded(c) PROVE TypeOK'
  BY <1>24 DEF CloseEnded, peer, epoll
<1> QED BY <1>1, <1>2, <1>3, <1>4, <1>5, <1>6, <1>7, <1>8, <1>9, <1>10, <1>11, <1>12,
           <1>13, <1>14, <1>15, <1>16, <1>17, <1>18, <1>19, <1>20, <1>21, <1>22, <1>23,
           <1>24
        DEF Next, Worker, Client, Network

(* The client's side of the connection. *)
LEMMA StepKeepsPeer ==
    ASSUME ~InnerMarkers, LoopInv, Next
    PROVE  PeerInv'
<1> USE RequestAssumption, ResponseAssumption, NamesAssumption
        DEF LoopInv, TypeOK, PeerInv, BytesInv, WorkerInv, Reported
<1>1. ASSUME NEW c \in Clients, Connect(c) PROVE PeerInv'
  BY <1>1 DEF Connect, client, worker
<1>2. ASSUME NEW c \in Clients, NEW size \in RequestSizes, BeginRequest(c, size) PROVE PeerInv'
  BY <1>2 DEF BeginRequest, client, epoll, worker
<1>3. ASSUME NEW c \in Clients, NEW n \in 1 .. MAX_REQUEST_SIZE, Send(c, n) PROVE PeerInv'
  <2>1. /\ cpc[c] = "sending" /\ unsent' = [unsent EXCEPT ![c] = unsent[c] - n]
        /\ cpc' = [cpc EXCEPT ![c] = IF n = unsent[c] THEN "awaiting" ELSE "sending"]
        /\ n \in 1 .. unsent[c] /\ UNCHANGED <<object, requests, executed, outbox, status, eof, hup>>
    BY <1>3 DEF Send, client
  <2>2. /\ n # unsent[c] => unsent[c] - n > 0
        /\ n = unsent[c] => unsent[c] - n = 0
    <3>1. unsent[c] \in Nat
      OBVIOUS
    <3> HIDE DEF LoopInv
    <3> QED BY <2>1, <3>1
  <2> QED BY <2>1, <2>2
<1>4. ASSUME NEW c \in Clients, Receive(c) PROVE PeerInv'
  BY <1>4 DEF Receive, client, worker, Wake
<1>5. ASSUME NEW c \in Clients, Leave(c) PROVE PeerInv'
  BY <1>5 DEF Leave, client, worker, Wake
<1>6. ASSUME NEW c \in Clients, Reset(c) PROVE PeerInv'
  BY <1>6 DEF Reset, client, worker, Wake
<1>7. ASSUME EpollWait PROVE PeerInv'
  BY <1>7 DEF EpollWait, peer, client, Due
<1>8. ASSUME EndOfBatch PROVE PeerInv'
  BY <1>8 DEF EndOfBatch, peer, client, epoll
<1>9. ASSUME NEW e \in batch, HandleRequest(e) PROVE PeerInv'
  BY <1>9 DEF HandleRequest, peer, client, epoll
<1>10. ASSUME NEW e \in batch, HandleHup(e) PROVE PeerInv'
  BY <1>10 DEF HandleHup, peer, epoll
<1>11. ASSUME HandleListen PROVE PeerInv'
  BY <1>11 DEF HandleListen, peer, client, epoll
<1>12. ASSUME NEW c \in Clients, Accept(c) PROVE PeerInv'
  BY <1>12 DEF Accept, peer, worker
<1>13. ASSUME AcceptAgain PROVE PeerInv'
  BY <1>13 DEF AcceptAgain, peer, client, epoll
<1>14. ASSUME NEW c \in Clients, ReadSome(c) PROVE PeerInv'
  BY <1>14 DEF ReadSome, epoll, worker, Least
<1>15. ASSUME NEW c \in Clients, ReadAgain(c) PROVE PeerInv'
  BY <1>15 DEF ReadAgain, peer, client, epoll
<1>16. ASSUME NEW c \in Clients, ReadError(c) PROVE PeerInv'
  BY <1>16 DEF ReadError, peer, client, epoll
<1>17. ASSUME NEW c \in Clients, ReadEof(c) PROVE PeerInv'
  BY <1>17 DEF ReadEof, peer, epoll
<1>18. ASSUME NEW c \in Clients, ProcessCommand(c) PROVE PeerInv'
  BY <1>18 DEF ProcessCommand, peer, epoll
<1>19. ASSUME NEW c \in Clients, WriteSome(c) PROVE PeerInv'
  BY <1>19 DEF WriteSome, client, epoll, Least
<1>20. ASSUME NEW c \in Clients, WriteBlocked(c) PROVE PeerInv'
  BY <1>20 DEF WriteBlocked, peer, epoll
<1>21. ASSUME NEW c \in Clients, WriteError(c) PROVE PeerInv'
  BY <1>21 DEF WriteError, peer, epoll
<1>22. ASSUME NEW c \in Clients, WriteDone(c) PROVE PeerInv'
  BY <1>22 DEF WriteDone, peer, epoll
<1>23. ASSUME NEW c \in Clients, Rearm(c) PROVE PeerInv'
  BY <1>23 DEF Rearm, peer, client
<1>24. ASSUME NEW c \in Clients, CloseEnded(c) PROVE PeerInv'
  BY <1>24 DEF CloseEnded, peer, epoll
<1> QED BY <1>1, <1>2, <1>3, <1>4, <1>5, <1>6, <1>7, <1>8, <1>9, <1>10, <1>11, <1>12,
           <1>13, <1>14, <1>15, <1>16, <1>17, <1>18, <1>19, <1>20, <1>21, <1>22, <1>23,
           <1>24
        DEF Next, Worker, Client, Network

(* The worker's side: reports, interests and the connection being handled. *)
LEMMA StepKeepsWorker ==
    ASSUME ~InnerMarkers, LoopInv, Next
    PROVE  WorkerInv'
<1> USE RequestAssumption, ResponseAssumption, NamesAssumption
        DEF LoopInv, TypeOK, WorkerInv, Reported
<1>1. ASSUME NEW c \in Clients, Connect(c) PROVE WorkerInv'
  <2>1. object[c] = "none"
    BY <1>1 DEF Connect, PeerInv
  <2>2. /\ object' = [object EXCEPT ![c] = "backlog"]
        /\ UNCHANGED <<status, complete, armed, pending, worker>>
    BY <1>1 DEF Connect
  <2> QED BY <2>1, <2>2 DEF worker
<1>2. ASSUME NEW c \in Clients, NEW size \in RequestSizes, BeginRequest(c, size) PROVE WorkerInv'
  BY <1>2 DEF BeginRequest, client, epoll, worker
<1>3. ASSUME NEW c \in Clients, NEW n \in 1 .. MAX_REQUEST_SIZE, Send(c, n) PROVE WorkerInv'
  BY <1>3 DEF Send, client, worker, Wake
<1>4. ASSUME NEW c \in Clients, Receive(c) PROVE WorkerInv'
  BY <1>4 DEF Receive, client, worker, Wake
<1>5. ASSUME NEW c \in Clients, Leave(c) PROVE WorkerInv'
  BY <1>5 DEF Leave, client, worker, Wake
<1>6. ASSUME NEW c \in Clients, Reset(c) PROVE WorkerInv'
  BY <1>6 DEF Reset, client, worker, Wake
<1>7. ASSUME EpollWait PROVE WorkerInv'
  <2>1. wpc = "wait" /\ current = Nobody /\ \A c \in Clients : current # c
    BY <1>7 DEF EpollWait
  <2>2. /\ \A e \in batch' : \/ e = <<Listen, FALSE>> /\ e[1] = Listen
                             \/ e[1] \in Due /\ e = <<e[1], hup[e[1]]>>
        /\ \A c \in Due : c \in Clients /\ pending[c]
    BY <1>7, ReportsOfWait
  <2>3. \A e, f \in batch' : e[1] = f[1] => e = f
    <3>1. Listen \notin Due
      BY <2>2
    <3> HIDE DEF LoopInv
    <3> QED BY <2>2, <3>1
  <2>4. \A c \in Clients : Reported(c)' => c \in Due
    <3>1. \A c \in Clients : current' # c
      BY <1>7, <2>1 DEF EpollWait
    <3> HIDE DEF LoopInv
    <3> QED BY <2>2, <3>1
  <2>5. \A e \in batch' : e[1] # Listen => e[1] # current'
    BY <1>7, <2>1, <2>2 DEF EpollWait
  <2>6. \A c \in Clients :
            /\ pending'[c] = FALSE /\ object'[c] = object[c] /\ status'[c] = status[c]
            /\ armed'[c] = IF c \in Due THEN "none" ELSE armed[c]
    BY <1>7 DEF EpollWait, client
  <2>7. wpc' = "dispatch" /\ current' = Nobody
    BY <1>7, <2>1 DEF EpollWait
  <2> HIDE DEF Reported
  <2> QED BY <2>1, <2>2, <2>3, <2>4, <2>5, <2>6, <2>7
<1>8. ASSUME EndOfBatch PROVE WorkerInv'
  BY <1>8 DEF EndOfBatch, peer, client, epoll
<1>9. ASSUME NEW e \in batch, HandleRequest(e) PROVE WorkerInv'
  BY <1>9 DEF HandleRequest, peer, client, epoll
<1>10. ASSUME NEW e \in batch, HandleHup(e) PROVE WorkerInv'
  BY <1>10 DEF HandleHup, peer, epoll
<1>11. ASSUME HandleListen PROVE WorkerInv'
  BY <1>11 DEF HandleListen, peer, client, epoll
<1>12. ASSUME NEW c \in Clients, Accept(c) PROVE WorkerInv'
  <2>1. /\ wpc = "accept" /\ object[c] = "backlog"
        /\ object' = [object EXCEPT ![c] = "live"]
        /\ armed' = [armed EXCEPT ![c] = Interest(c)]
        /\ pending' = [pending EXCEPT ![c] = IsReady(c)]
        /\ UNCHANGED <<status, wpc, batch, current, complete>>
    BY <1>12 DEF Accept, peer, worker
  <2>2. status[c] = "Reading" /\ Interest(c) = "in"
    BY <2>1 DEF PeerInv, Interest
  <2>3. \A d \in Clients : Reported(d)' <=> Reported(d)
    BY <2>1
  <2>4. ~Reported(c)
    BY <2>1
  <2> HIDE DEF Reported
  <2> QED BY <2>1, <2>2, <2>3, <2>4
<1>13. ASSUME AcceptAgain PROVE WorkerInv'
  BY <1>13 DEF AcceptAgain, peer, client, epoll
<1>14. ASSUME NEW c \in Clients, ReadSome(c) PROVE WorkerInv'
  BY <1>14 DEF ReadSome, epoll, worker, Least
<1>15. ASSUME NEW c \in Clients, ReadAgain(c) PROVE WorkerInv'
  BY <1>15 DEF ReadAgain, peer, client, epoll
<1>16. ASSUME NEW c \in Clients, ReadError(c) PROVE WorkerInv'
  BY <1>16 DEF ReadError, peer, client, epoll
<1>17. ASSUME NEW c \in Clients, ReadEof(c) PROVE WorkerInv'
  BY <1>17 DEF ReadEof, peer, epoll
<1>18. ASSUME NEW c \in Clients, ProcessCommand(c) PROVE WorkerInv'
  BY <1>18 DEF ProcessCommand, peer, epoll
<1>19. ASSUME NEW c \in Clients, WriteSome(c) PROVE WorkerInv'
  BY <1>19 DEF WriteSome, client, epoll, Least
<1>20. ASSUME NEW c \in Clients, WriteBlocked(c) PROVE WorkerInv'
  BY <1>20 DEF WriteBlocked, peer, epoll
<1>21. ASSUME NEW c \in Clients, WriteError(c) PROVE WorkerInv'
  BY <1>21 DEF WriteError, peer, epoll
<1>22. ASSUME NEW c \in Clients, WriteDone(c) PROVE WorkerInv'
  BY <1>22 DEF WriteDone, peer, epoll
<1>23. ASSUME NEW c \in Clients, Rearm(c) PROVE WorkerInv'
  <2>1. Interest(c) # "none"
    BY DEF Interest
  <2> QED BY <1>23, <2>1 DEF Rearm, peer, client
<1>24. ASSUME NEW c \in Clients, CloseEnded(c) PROVE WorkerInv'
  BY <1>24 DEF CloseEnded, peer, epoll
<1> QED BY <1>1, <1>2, <1>3, <1>4, <1>5, <1>6, <1>7, <1>8, <1>9, <1>10, <1>11, <1>12,
           <1>13, <1>14, <1>15, <1>16, <1>17, <1>18, <1>19, <1>20, <1>21, <1>22, <1>23,
           <1>24
        DEF Next, Worker, Client, Network

(* The bytes of requests and responses. *)
LEMMA StepKeepsBytes ==
    ASSUME ~InnerMarkers, LoopInv, Next
    PROVE  BytesInv'
<1> USE RequestAssumption, ResponseAssumption, NamesAssumption
        DEF LoopInv, TypeOK, PeerInv, BytesInv, WorkerInv, Reported, Owed, Unwritten
<1>1. ASSUME NEW c \in Clients, Connect(c) PROVE BytesInv'
  BY <1>1 DEF Connect, client, worker
<1>2. ASSUME NEW c \in Clients, NEW size \in RequestSizes, BeginRequest(c, size) PROVE BytesInv'
  BY <1>2 DEF BeginRequest, client, epoll, worker
<1>3. ASSUME NEW c \in Clients, NEW n \in 1 .. MAX_REQUEST_SIZE, Send(c, n) PROVE BytesInv'
  BY <1>3 DEF Send, client, worker, Wake
<1>4. ASSUME NEW c \in Clients, Receive(c) PROVE BytesInv'
  BY <1>4 DEF Receive, client, worker, Wake
<1>5. ASSUME NEW c \in Clients, Leave(c) PROVE BytesInv'
  BY <1>5 DEF Leave, client, worker, Wake
<1>6. ASSUME NEW c \in Clients, Reset(c) PROVE BytesInv'
  BY <1>6 DEF Reset, client, worker, Wake
<1>7. ASSUME EpollWait PROVE BytesInv'
  BY <1>7 DEF EpollWait, peer, client, Due
<1>8. ASSUME EndOfBatch PROVE BytesInv'
  BY <1>8 DEF EndOfBatch, peer, client, epoll
<1>9. ASSUME NEW e \in batch, HandleRequest(e) PROVE BytesInv'
  BY <1>9 DEF HandleRequest, peer, client, epoll
<1>10. ASSUME NEW e \in batch, HandleHup(e) PROVE BytesInv'
  BY <1>10 DEF HandleHup, peer, epoll
<1>11. ASSUME HandleListen PROVE BytesInv'
  BY <1>11 DEF HandleListen, peer, client, epoll
<1>12. ASSUME NEW c \in Clients, Accept(c) PROVE BytesInv'
  BY <1>12 DEF Accept, peer, worker
<1>13. ASSUME AcceptAgain PROVE BytesInv'
  BY <1>13 DEF AcceptAgain, peer, client, epoll
<1>14. ASSUME NEW c \in Clients, ReadSome(c) PROVE BytesInv'
  <2>1. complete' = [complete EXCEPT ![c] = inbox'[c] = 0 /\ unsent[c] = 0]
    <3>1. PICK inner \in {FALSE, InnerMarkers} :
              complete' = [complete EXCEPT ![c] = inner \/ (inbox'[c] = 0 /\ unsent[c] = 0)]
      BY <1>14 DEF ReadSome
    <3>2. inner = FALSE
      BY AcceptAssumption
    <3> QED BY <3>1, <3>2, Zenon
  <2>2. PICK r : r = Least(inbox[c], MAX_REQUEST_SIZE - bytes_read[c])
    OBVIOUS
  <2>3. /\ bytes_read' = [bytes_read EXCEPT ![c] = bytes_read[c] + r]
        /\ inbox' = [inbox EXCEPT ![c] = inbox[c] - r]
    BY <1>14, <2>2 DEF ReadSome
  <2>4. r \in Nat /\ r <= inbox[c]
    BY <2>2 DEF Least
  <2>5. inbox[c] > 0 /\ UNCHANGED <<cpc, unsent, outbox, received, requests, status, left,
                                    executed, wpc, current, rest>>
    BY <1>14 DEF ReadSome, worker
  <2> QED BY <2>1, <2>3, <2>4, <2>5
<1>15. ASSUME NEW c \in Clients, ReadAgain(c) PROVE BytesInv'
  BY <1>15 DEF ReadAgain, peer, client, epoll
<1>16. ASSUME NEW c \in Clients, ReadError(c) PROVE BytesInv'
  BY <1>16 DEF ReadError, peer, client, epoll
<1>17. ASSUME NEW c \in Clients, ReadEof(c) PROVE BytesInv'
  BY <1>17 DEF ReadEof, peer, epoll
<1>18. ASSUME NEW c \in Clients, ProcessCommand(c) PROVE BytesInv'
  BY <1>18 DEF ProcessCommand, peer, epoll
<1>19. ASSUME NEW c \in Clients, WriteSome(c) PROVE BytesInv'
  BY <1>19 DEF WriteSome, client, epoll, Least
<1>20. ASSUME NEW c \in Clients, WriteBlocked(c) PROVE BytesInv'
  BY <1>20 DEF WriteBlocked, peer, epoll
<1>21. ASSUME NEW c \in Clients, WriteError(c) PROVE BytesInv'
  BY <1>21 DEF WriteError, peer, epoll
<1>22. ASSUME NEW c \in Clients, WriteDone(c) PROVE BytesInv'
  BY <1>22 DEF WriteDone, peer, epoll
<1>23. ASSUME NEW c \in Clients, Rearm(c) PROVE BytesInv'
  BY <1>23 DEF Rearm, peer, client
<1>24. ASSUME NEW c \in Clients, CloseEnded(c) PROVE BytesInv'
  BY <1>24 DEF CloseEnded, peer, epoll
<1> QED BY <1>1, <1>2, <1>3, <1>4, <1>5, <1>6, <1>7, <1>8, <1>9, <1>10, <1>11, <1>12,
           <1>13, <1>14, <1>15, <1>16, <1>17, <1>18, <1>19, <1>20, <1>21, <1>22, <1>23,
           <1>24
        DEF Next, Worker, Client, Network

(* Wake-ups: whatever makes progress possible finds the connection armed. *)
LEMMA StepKeepsWakeups ==
    ASSUME ~InnerMarkers, LoopInv, Next
    PROVE  NoLostWakeup'
<1> USE RequestAssumption, ResponseAssumption, NamesAssumption
        DEF LoopInv, TypeOK, NoLostWakeup, WorkerInv, Reported, Interest, IsReady
<1>1. ASSUME NEW c \in Clients, Connect(c) PROVE NoLostWakeup'
  BY <1>1 DEF Connect, client, worker
<1>2. ASSUME NEW c \in Clients, NEW size \in RequestSizes, BeginRequest(c, size) PROVE NoLostWakeup'
  BY <1>2 DEF BeginRequest, client, epoll, worker
<1>3. ASSUME NEW c \in Clients, NEW n \in 1 .. MAX_REQUEST_SIZE, Send(c, n) PROVE NoLostWakeup'
  <2>1. /\ inbox' = [inbox EXCEPT ![c] = inbox[c] + n]
        /\ pending' = [pending EXCEPT ![c] = pending[c] \/ armed[c] \in {"in"}]
        /\ UNCHANGED <<object, batch, current, armed, status, hup, eof, outbox>>
    BY <1>3 DEF Send, Wake, client, worker
  <2>2. \A d \in Clients : d # c => pending'[d] = pending[d] /\ inbox'[d] = inbox[d]
    BY <2>1
  <2>3. pending'[c] = (pending[c] \/ armed[c] = "in")
    BY <2>1
  <2>4. \A d \in Clients : Reported(d)' <=> Reported(d)
    BY <2>1
  <2> SUFFICES ASSUME NEW d \in Clients, (object[d] = "live" /\ ~Reported(d))'
               PROVE  (armed[d] = Interest(d) /\ (IsReady(d) => pending[d]))'
    BY DEF NoLostWakeup
  <2> HIDE DEF Reported
  <2>5. CASE d = c
    BY <2>1, <2>3, <2>4, <2>5
  <2>6. CASE d # c
    BY <2>1, <2>2, <2>4, <2>6
  <2> QED BY <2>5, <2>6
<1>4. ASSUME NEW c \in Clients, Receive(c) PROVE NoLostWakeup'
  <2>1. /\ outbox' = [outbox EXCEPT ![c] = 0]
        /\ pending' = [pending EXCEPT ![c] = pending[c] \/ armed[c] \in {"out"}]
        /\ UNCHANGED <<object, batch, current, armed, status, hup, eof, inbox>>
    BY <1>4 DEF Receive, Wake, client, worker
  <2>2. \A d \in Clients : d # c => pending'[d] = pending[d] /\ outbox'[d] = outbox[d]
    BY <2>1
  <2>3. pending'[c] = (pending[c] \/ armed[c] = "out")
    BY <2>1
  <2>4. \A d \in Clients : Reported(d)' <=> Reported(d)
    BY <2>1
  <2> SUFFICES ASSUME NEW d \in Clients, (object[d] = "live" /\ ~Reported(d))'
               PROVE  (armed[d] = Interest(d) /\ (IsReady(d) => pending[d]))'
    BY DEF NoLostWakeup
  <2> HIDE DEF Reported
  <2>5. CASE d = c
    BY <2>1, <2>3, <2>4, <2>5
  <2>6. CASE d # c
    BY <2>1, <2>2, <2>4, <2>6
  <2> QED BY <2>5, <2>6
<1>5. ASSUME NEW c \in Clients, Leave(c) PROVE NoLostWakeup'
  <2>1. /\ eof' = [eof EXCEPT ![c] = TRUE]
        /\ pending' = [pending EXCEPT ![c] = pending[c] \/ armed[c] \in {"in"}]
        /\ UNCHANGED <<object, batch, current, armed, status, hup, inbox, outbox>>
    BY <1>5 DEF Leave, Wake, client, worker
  <2>2. \A d \in Clients : d # c => pending'[d] = pending[d] /\ eof'[d] = eof[d]
    BY <2>1
  <2>3. pending'[c] = (pending[c] \/ armed[c] = "in")
    BY <2>1
  <2>4. \A d \in Clients : Reported(d)' <=> Reported(d)
    BY <2>1
  <2> SUFFICES ASSUME NEW d \in Clients, (object[d] = "live" /\ ~Reported(d))'
               PROVE  (armed[d] = Interest(d) /\ (IsReady(d) => pending[d]))'
    BY DEF NoLostWakeup
  <2> HIDE DEF Reported
  <2>5. CASE d = c
    BY <2>1, <2>3, <2>4, <2>5
  <2>6. CASE d # c
    BY <2>1, <2>2, <2>4, <2>6
  <2> QED BY <2>5, <2>6
<1>6. ASSUME NEW c \in Clients, Reset(c) PROVE NoLostWakeup'
  <2>1. /\ hup' = [hup EXCEPT ![c] = TRUE]
        /\ pending' = [pending EXCEPT ![c] = pending[c] \/ armed[c] \in {"in", "out"}]
        /\ UNCHANGED <<object, batch, current, armed, status, eof, inbox, outbox>>
    BY <1>6 DEF Reset, Wake, client, worker
  <2>2. \A d \in Clients : d # c => pending'[d] = pending[d] /\ hup'[d] = hup[d]
    BY <2>1
  <2>3. pending'[c] = (pending[c] \/ armed[c] = "in" \/ armed[c] = "out")
    BY <2>1
  <2>4. \A d \in Clients : Reported(d)' <=> Reported(d)
    BY <2>1
  <2> SUFFICES ASSUME NEW d \in Clients, (object[d] = "live" /\ ~Reported(d))'
               PROVE  (armed[d] = Interest(d) /\ (IsReady(d) => pending[d]))'
    BY DEF NoLostWakeup
  <2> HIDE DEF Reported
  <2>5. CASE d = c
    BY <2>1, <2>3, <2>4, <2>5
  <2>6. CASE d # c
    BY <2>1, <2>2, <2>4, <2>6
  <2> QED BY <2>5, <2>6
<1>7. ASSUME EpollWait PROVE NoLostWakeup'
  <2>1. current = Nobody /\ batch = {} /\ \A c \in Clients : ~Reported(c)
    BY <1>7 DEF EpollWait
  <2>2. \A c \in Due : Reported(c)'
    BY <1>7, ReportsOfWait
  <2>3. \A c \in Clients \ Due : ~pending[c] /\ armed'[c] = armed[c]
    BY <1>7 DEF EpollWait, Due
  <2>4. UNCHANGED <<object, status, hup, inbox, eof, outbox>>
    BY <1>7 DEF EpollWait, peer, client
  <2>5. pending' = [c \in Clients |-> FALSE]
    BY <1>7 DEF EpollWait
  <2> HIDE DEF Reported
  <2> QED BY <2>1, <2>2, <2>3, <2>4, <2>5
<1>8. ASSUME EndOfBatch PROVE NoLostWakeup'
  BY <1>8 DEF EndOfBatch, peer, client, epoll
<1>9. ASSUME NEW e \in batch, HandleRequest(e) PROVE NoLostWakeup'
  BY <1>9 DEF HandleRequest, peer, client, epoll
<1>10. ASSUME NEW e \in batch, HandleHup(e) PROVE NoLostWakeup'
  BY <1>10 DEF HandleHup, peer, epoll
<1>11. ASSUME HandleListen PROVE NoLostWakeup'
  <2>1. UNCHANGED <<object, status, hup, inbox, eof, outbox, armed, pending, current>>
    BY <1>11 DEF HandleListen, peer, client, epoll
  <2>2. batch' = batch \ {<<Listen, FALSE>>}
    BY <1>11 DEF HandleListen
  <2>3. \A c \in Clients : \A e \in batch : e[1] = c => e # <<Listen, FALSE>>
    <3>1. <<Listen, FALSE>>[1] = Listen
      OBVIOUS
    <3> HIDE DEF LoopInv
    <3> QED BY <3>1
  <2>4. \A c \in Clients : Reported(c)' <=> Reported(c)
    <3> HIDE DEF LoopInv
    <3> QED BY <2>1, <2>2, <2>3
  <2> HIDE DEF Reported
  <2> QED BY <2>1, <2>4
<1>12. ASSUME NEW c \in Clients, Accept(c) PROVE NoLostWakeup'
  <2>1. /\ object' = [object EXCEPT ![c] = "live"]
        /\ armed' = [armed EXCEPT ![c] = Interest(c)]
        /\ pending' = [pending EXCEPT ![c] = IsReady(c)]
        /\ UNCHANGED <<status, batch, current, hup, inbox, eof, outbox>>
    BY <1>12 DEF Accept, peer, worker
  <2>2. \A d \in Clients : Reported(d)' <=> Reported(d)
    BY <2>1
  <2> HIDE DEF Reported
  <2> QED BY <2>1, <2>2
<1>13. ASSUME AcceptAgain PROVE NoLostWakeup'
  BY <1>13 DEF AcceptAgain, peer, client, epoll
<1>14. ASSUME NEW c \in Clients, ReadSome(c) PROVE NoLostWakeup'
  BY <1>14 DEF ReadSome, epoll, worker, Least
<1>15. ASSUME NEW c \in Clients, ReadAgain(c) PROVE NoLostWakeup'
  BY <1>15 DEF ReadAgain, peer, client, epoll
<1>16. ASSUME NEW c \in Clients, ReadError(c) PROVE NoLostWakeup'
  BY <1>16 DEF ReadError, peer, client, epoll
<1>17. ASSUME NEW c \in Clients, ReadEof(c) PROVE NoLostWakeup'
  BY <1>17 DEF ReadEof, peer, epoll
<1>18. ASSUME NEW c \in Clients, ProcessCommand(c) PROVE NoLostWakeup'
  BY <1>18 DEF ProcessCommand, peer, epoll
<1>19. ASSUME NEW c \in Clients, WriteSome(c) PROVE NoLostWakeup'
  BY <1>19 DEF WriteSome, client, epoll, Least
<1>20. ASSUME NEW c \in Clients, WriteBlocked(c) PROVE NoLostWakeup'
  BY <1>20 DEF WriteBlocked, peer, epoll
<1>21. ASSUME NEW c \in Clients, WriteError(c) PROVE NoLostWakeup'
  BY <1>21 DEF WriteError, peer, epoll
<1>22. ASSUME NEW c \in Clients, WriteDone(c) PROVE NoLostWakeup'
  BY <1>22 DEF WriteDone, peer, epoll
<1>23. ASSUME NEW c \in Clients, Rearm(c) PROVE NoLostWakeup'
  BY <1>23 DEF Rearm, peer, client
<1>24. ASSUME NEW c \in Clients, CloseEnded(c) PROVE NoLostWakeup'
  BY <1>24 DEF CloseEnded, peer, epoll
<1> QED BY <1>1, <1>2, <1>3, <1>4, <1>5, <1>6, <1>7, <1>8, <1>9, <1>10, <1>11, <1>12,
           <1>13, <1>14, <1>15, <1>16, <1>17, <1>18, <1>19, <1>20, <1>21, <1>22, <1>23,
           <1>24
        DEF Next, Worker, Client, Network

-----------------------------------------------------------------------------
(* The inductive invariant of the event loop. *)
THEOREM LoopInvariant ==
    ASSUME ~InnerMarkers
    PROVE  Spec => []LoopInv
<1>1. Init => LoopInv
  <2> SUFFICES ASSUME Init PROVE LoopInv
    OBVIOUS
  <2> USE RequestAssumption, ResponseAssumption, NamesAssumption DEF Init
  <2>1. TypeOK
    <3>1. /\ 0 \in 0 .. MAX_REQUEST_SIZE /\ 0 \in 0 .. MAX_REQUEST_SIZE - 1
          /\ 0 \in 0 .. SendBuffer /\ 0 \in 0 .. ResponseSize /\ 0 \in 0 .. MaxRequests
      OBVIOUS
    <3> HIDE RequestAssumption, ResponseAssumption
    <3> QED BY <3>1 DEF TypeOK
  <2>2. PeerInv
    BY DEF PeerInv
  <2>3. BytesInv
    BY DEF BytesInv, Owed, Unwritten
  <2>4. WorkerInv
    BY DEF WorkerInv, Reported
  <2>5. NoLostWakeup
    BY DEF NoLostWakeup
  <2> QED BY <2>1, <2>2, <2>3, <2>4, <2>5 DEF LoopInv
<1>2. LoopInv /\ [Next]_vars => LoopInv'
  <2> SUFFICES ASSUME LoopInv, [Next]_vars PROVE LoopInv'
    OBVIOUS
  <2>1. CASE Next
    BY <2>1, StepKeepsTypes, StepKeepsPeer, StepKeepsBytes, StepKeepsWorker,
       StepKeepsWakeups DEF LoopInv
  <2>2. CASE UNCHANGED vars
    <3> USE <2>2 DEF LoopInv, vars, peer, client, epoll, worker
    <3>1. TypeOK' /\ PeerInv'
      BY DEF TypeOK, PeerInv
    <3>2. BytesInv'
      BY DEF BytesInv, Owed, Unwritten
    <3>3. WorkerInv'
      BY DEF WorkerInv, Reported
    <3>4. NoLostWakeup'
      BY DEF NoLostWakeup, Reported, Interest, IsReady
    <3> QED BY <3>1, <3>2, <3>3, <3>4
  <2> QED BY <2>1, <2>2
<1> QED BY <1>1, <1>2, PTL DEF Spec

(* Type correctness of a worker and its connections: req never overflows, however
   a request is cut into pieces. *)
THEOREM LoopTypeCorrect ==
    ASSUME ~InnerMarkers
    PROVE  Spec => []TypeOK
<1>1. LoopInv => TypeOK
  BY DEF LoopInv
<1> QED BY <1>1, LoopInvariant, PTL

(* No wake-up is lost: one-shot registration and the re-arming at the end of
   handle_request_event leave no connection with progress to make and no event
   due, for any number of clients. *)
THEOREM WakeupsAreNotLost ==
    ASSUME ~InnerMarkers
    PROVE  Spec => []NoLostWakeup
<1>1. LoopInv => NoLostWakeup
  BY DEF LoopInv
<1> QED BY <1>1, LoopInvariant, PTL

(* A set in which any two elements are equal has at most one element. *)
LEMMA AtMostOne ==
    ASSUME NEW S, \A x, y \in S : x = y
    PROVE  Cardinality(S) \in {0, 1} /\ (S = {} => Cardinality(S) = 0)
<1>1. CASE S = {}
  BY <1>1, FS_EmptySet
<1>2. CASE S # {}
  <2>1. PICK x : x \in S
    BY <1>2
  <2>2. S = {x}
    BY <2>1
  <2>3. Cardinality({x}) = 1
    BY FS_Singleton
  <2> QED BY <1>2, <2>2, <2>3
<1> QED BY <1>1, <1>2

(* A client struct that was freed or abandoned is referred to by no interest,
   event or report, and a live one by one report at most. *)
THEOREM ReportsDoNotDangle ==
    ASSUME ~InnerMarkers
    PROVE  Spec => []NoDanglingReport
<1>1. ASSUME LoopInv, NEW c \in Clients
      PROVE  Cardinality({e \in batch : e[1] = c}) + (IF current = c THEN 1 ELSE 0) <= 1
  <2> DEFINE S == {e \in batch : e[1] = c}
  <2>1. \A x, y \in S : x = y
    BY <1>1 DEF LoopInv, WorkerInv
  <2>2. current = c => S = {}
    BY <1>1, NamesAssumption DEF LoopInv, WorkerInv
  <2>3. Cardinality(S) \in {0, 1} /\ (S = {} => Cardinality(S) = 0)
    BY <2>1, AtMostOne
  <2> HIDE DEF S
  <2>4. Cardinality(S) + (IF current = c THEN 1 ELSE 0) <= 1
    BY <2>2, <2>3
  <2> QED BY <2>4 DEF S
<1>2. LoopInv => NoDanglingReport
  BY <1>1 DEF LoopInv, TypeOK, WorkerInv, NoDanglingReport
<1> QED BY <1>2, LoopInvariant, PTL

(* One execution and one whole response per request, for any number of clients
   and requests and however requests and responses are cut into pieces. *)
THEOREM RequestsAnsweredOnce ==
    ASSUME ~InnerMarkers
    PROVE  Spec => []OneResponsePerRequest
<1>1. LoopInv => OneResponsePerRequest
  BY DEF LoopInv, TypeOK, BytesInv, Owed, OneResponsePerRequest
<1> QED BY <1>1, LoopInvariant, PTL
=============================================================================
