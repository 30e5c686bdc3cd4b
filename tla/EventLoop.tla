----------------------------- MODULE EventLoop ------------------------------
(***************************************************************************)
(* The connection state machine of an RPC worker thread (do_event,         *)
(* handle_accept_events, handle_request_event and start_event_loop of      *)
(* flat_combining/flat_combining.c).  A worker has its own listening       *)
(* socket and epoll instance, so one worker and its clients are the whole  *)
(* system.                                                                 *)
(*                                                                         *)
(* Connections are registered edge-triggered and one-shot: an event is     *)
(* reported once, and nothing more is reported until handle_request_event  *)
(* arms the connection again.  A lost wake-up would leave a client waiting *)
(* for ever.  Executing a request (process_command) is one step here and   *)
(* the module FlatCombining in full.                                       *)
(*                                                                         *)
(* A request is a number of bytes of which the last two are the end        *)
(* marker.  As the code assumes, clients do not pipeline.  InnerMarkers    *)
(* says whether a payload may hold the marker too, so that a piece of a    *)
(* request can end with it.                                                *)
(***************************************************************************)
EXTENDS Integers, FiniteSets

CONSTANTS
    Clients,
    MAX_REQUEST_SIZE,
    RequestSizes,    \* sizes of requests, marker included
    ResponseSize,    \* bytes of a response
    SendBuffer,      \* bytes a socket takes before send() would block
    MaxRequests,     \* bound: requests of a client
    AcceptErrors,    \* TRUE: accept may fail with another error than EAGAIN
    InnerMarkers     \* TRUE: what was read of a request may end with a marker

ASSUME RequestAssumption ==
    /\ MAX_REQUEST_SIZE \in Nat \ {0}
    /\ RequestSizes \subseteq 3 .. MAX_REQUEST_SIZE - 1
ASSUME ResponseAssumption ==
    ResponseSize \in Nat \ {0} /\ SendBuffer \in Nat \ {0} /\ MaxRequests \in Nat
ASSUME AcceptAssumption == AcceptErrors \in BOOLEAN /\ InnerMarkers \in BOOLEAN

VARIABLES
    \* the clients and the network
    cpc,           \* what the client is doing
    unsent,        \* bytes of its request not yet sent
    inbox,         \* bytes sent and not yet read by the worker
    eof, hup,      \* the client has closed, the connection is reset
    outbox,        \* bytes in the worker's send buffer
    received,      \* bytes of the response the client has got
    requests,      \* requests begun by the client
    \* mangosteen_client_t
    status, bytes_read, left,
    complete,      \* the bytes in req end with the marker
    object,        \* "none", "backlog": connected and not yet accepted, "live",
                   \* "freed", or "leaked": closed and never freed
    executed,      \* requests executed for the client
    \* epoll
    armed,         \* the one-shot interest: "none", "in" or "out"
    pending,       \* an event is due
    listening,     \* an event on the listening socket is due
    \* the worker
    wpc, batch, current, rest

peer == <<cpc, unsent, inbox, eof, hup, outbox, received, requests>>
client == <<status, bytes_read, left, complete, object, executed>>
epoll == <<armed, pending, listening>>
worker == <<wpc, batch, current, rest>>
vars == <<peer, client, epoll, worker>>

Listen == "listen"
Nobody == "nobody"
ASSUME NamesAssumption == {Listen, Nobody} \cap Clients = {}

Init ==
    /\ cpc = [c \in Clients |-> "off"]
    /\ unsent = [c \in Clients |-> 0] /\ inbox = [c \in Clients |-> 0]
    /\ eof = [c \in Clients |-> FALSE] /\ hup = [c \in Clients |-> FALSE]
    /\ outbox = [c \in Clients |-> 0] /\ received = [c \in Clients |-> 0]
    /\ requests = [c \in Clients |-> 0]
    /\ status = [c \in Clients |-> "Reading"]
    /\ bytes_read = [c \in Clients |-> 0] /\ left = [c \in Clients |-> 0]
    /\ complete = [c \in Clients |-> FALSE]
    /\ object = [c \in Clients |-> "none"]
    /\ executed = [c \in Clients |-> 0]
    /\ armed = [c \in Clients |-> "none"] /\ pending = [c \in Clients |-> FALSE]
    /\ listening = FALSE
    /\ wpc = "wait" /\ batch = {} /\ current = Nobody /\ rest = 0

-----------------------------------------------------------------------------
(* Clients and network (external).  New data, an end of file or a reset makes
   an event due when the connection is armed for it; so does new room in the
   send buffer. *)
Wake(c, interests) == pending' = [pending EXCEPT ![c] = @ \/ armed[c] \in interests]

(* The kernel completes the connection: the client may send, or leave, before
   the worker accepts it. *)
Connect(c) ==
    /\ cpc[c] = "off"
    /\ cpc' = [cpc EXCEPT ![c] = "idle"]
    /\ object' = [object EXCEPT ![c] = "backlog"]
    /\ listening' = TRUE
    /\ UNCHANGED <<unsent, inbox, eof, hup, outbox, received, requests, status, bytes_read,
                   left, complete, executed, armed, pending, worker>>

BeginRequest(c, size) ==
    /\ cpc[c] = "idle"
    /\ requests[c] < MaxRequests
    /\ requests' = [requests EXCEPT ![c] = @ + 1]
    /\ unsent' = [unsent EXCEPT ![c] = size]
    /\ received' = [received EXCEPT ![c] = 0]
    /\ cpc' = [cpc EXCEPT ![c] = "sending"]
    /\ UNCHANGED <<inbox, eof, hup, outbox, client, epoll, worker>>

Send(c, n) ==
    /\ cpc[c] = "sending"
    /\ n \in 1 .. unsent[c]
    /\ unsent' = [unsent EXCEPT ![c] = @ - n]
    /\ inbox' = [inbox EXCEPT ![c] = @ + n]
    /\ cpc' = [cpc EXCEPT ![c] = IF n = unsent[c] THEN "awaiting" ELSE "sending"]
    /\ Wake(c, {"in"})
    /\ UNCHANGED <<eof, hup, outbox, received, requests, client, armed, listening, worker>>

Receive(c) ==
    /\ cpc[c] = "awaiting" /\ outbox[c] > 0
    /\ received' = [received EXCEPT ![c] = @ + outbox[c]]
    /\ outbox' = [outbox EXCEPT ![c] = 0]
    /\ cpc' = [cpc EXCEPT ![c] =
                  IF received'[c] >= ResponseSize THEN "idle" ELSE "awaiting"]
    /\ Wake(c, {"out"})
    /\ UNCHANGED <<unsent, inbox, eof, hup, requests, client, armed, listening, worker>>

Leave(c) ==
    /\ cpc[c] \in {"idle", "sending", "awaiting"}
    /\ cpc' = [cpc EXCEPT ![c] = "gone"]
    /\ eof' = [eof EXCEPT ![c] = TRUE]
    /\ Wake(c, {"in"})
    /\ UNCHANGED <<unsent, inbox, hup, outbox, received, requests, client, armed,
                   listening, worker>>

(* Data for a client that is gone is answered with a reset. *)
Reset(c) ==
    /\ cpc[c] = "gone" /\ ~hup[c] /\ outbox[c] > 0
    /\ hup' = [hup EXCEPT ![c] = TRUE]
    /\ Wake(c, {"in", "out"})
    /\ UNCHANGED <<cpc, unsent, inbox, eof, outbox, received, requests, client, armed,
                   listening, worker>>

-----------------------------------------------------------------------------
(* epoll_wait: all due events at once; a reported connection is disarmed. *)
Due == {c \in Clients : pending[c]}

(* Faulty variant: a reported connection stays armed. *)
FaultyNoOneshot ==
    /\ wpc = "wait"
    /\ Due # {} \/ listening
    /\ batch' = {<<c, hup[c]>> : c \in Due} \cup (IF listening THEN {<<Listen, FALSE>>} ELSE {})
    /\ pending' = [c \in Clients |-> FALSE]
    /\ listening' = FALSE
    /\ wpc' = "dispatch"
    /\ UNCHANGED <<peer, client, armed, current, rest>>

EpollWait ==
    /\ wpc = "wait"
    /\ Due # {} \/ listening
    /\ batch' = {<<c, hup[c]>> : c \in Due} \cup (IF listening THEN {<<Listen, FALSE>>} ELSE {})
    /\ armed' = [c \in Clients |-> IF c \in Due THEN "none" ELSE armed[c]]
    /\ pending' = [c \in Clients |-> FALSE]
    /\ listening' = FALSE
    /\ wpc' = "dispatch"
    /\ UNCHANGED <<peer, client, current, rest>>

EndOfBatch ==
    /\ wpc = "dispatch"
    /\ batch = {}
    /\ wpc' = "wait"
    /\ UNCHANGED <<peer, client, epoll, batch, current, rest>>

(* handle_event on a connection: do_event by status, unless the event carries
   EPOLLERR or EPOLLHUP. *)
HandleRequest(e) ==
    /\ wpc = "dispatch" /\ e \in batch /\ e[1] # Listen /\ ~e[2]
    /\ batch' = batch \ {e}
    /\ current' = e[1]
    /\ rest' = left[e[1]]
    /\ wpc' = IF status[e[1]] = "Reading" THEN "read" ELSE "write"
    /\ UNCHANGED <<peer, client, epoll>>

(* The early return of handle_request_event: the socket is closed, the client
   struct stays allocated. *)
HandleHup(e) ==
    /\ wpc = "dispatch" /\ e \in batch /\ e[1] # Listen /\ e[2]
    /\ batch' = batch \ {e}
    /\ object' = [object EXCEPT ![e[1]] = "leaked"]
    /\ UNCHANGED <<peer, status, bytes_read, left, complete, executed, epoll, wpc,
                   current, rest>>

HandleListen ==
    /\ wpc = "dispatch" /\ <<Listen, FALSE>> \in batch
    /\ batch' = batch \ {<<Listen, FALSE>>}
    /\ wpc' = "accept"
    /\ UNCHANGED <<peer, client, epoll, current, rest>>

(* What a connection in its status waits for, and whether that is there;
   EPOLL_CTL_ADD and EPOLL_CTL_MOD report at once what is already there. *)
Interest(c) == IF status[c] = "Reading" THEN "in" ELSE "out"

IsReady(c) ==
    \/ hup[c]
    \/ status[c] = "Reading" /\ (inbox[c] > 0 \/ eof[c])
    \/ status[c] = "Writing" /\ outbox[c] < SendBuffer

(* One round of the loop of handle_accept_events; the client struct is new.
   The step is the EPOLL_CTL_ADD: what the client does between accept and it
   is there when the connection is armed, like what it did in the backlog. *)
Accept(c) ==
    /\ wpc = "accept" /\ object[c] = "backlog"
    /\ object' = [object EXCEPT ![c] = "live"]
    /\ armed' = [armed EXCEPT ![c] = Interest(c)]
    /\ pending' = [pending EXCEPT ![c] = IsReady(c)]
    /\ UNCHANGED <<peer, status, bytes_read, left, complete, executed, listening, worker>>

(* accept fails, and the loop ends whatever the error is: with EAGAIN when no
   connection is waiting, or with an error of the kernel's resources. *)
AcceptAgain ==
    /\ wpc = "accept"
    /\ AcceptErrors \/ \A c \in Clients : object[c] # "backlog"
    /\ wpc' = "dispatch"
    /\ UNCHANGED <<peer, client, epoll, batch, current, rest>>

-----------------------------------------------------------------------------
(* do_event, status Reading: read until EAGAIN, end of file or an error. *)
Least(m, n) == IF m <= n THEN m ELSE n

(* The marker is looked for in the last two bytes that were read. *)
ReadSome(c) ==
    /\ wpc = "read" /\ c = current /\ ~hup[c]
    /\ inbox[c] > 0
    /\ LET r == Least(inbox[c], MAX_REQUEST_SIZE - bytes_read[c])
       IN /\ bytes_read' = [bytes_read EXCEPT ![c] = @ + r]
          /\ inbox' = [inbox EXCEPT ![c] = @ - r]
          /\ \E inner \in {FALSE, InnerMarkers} :
                complete' = [complete EXCEPT ![c] = inner \/ (inbox'[c] = 0 /\ unsent[c] = 0)]
    /\ UNCHANGED <<cpc, unsent, eof, hup, outbox, received, requests, status, left, object,
                   executed, epoll, worker>>

(* Faulty variant: a partial request is dropped. *)
FaultyReadAgain(c) ==
    /\ wpc = "read" /\ c = current /\ ~hup[c]
    /\ inbox[c] = 0 /\ ~eof[c]
    /\ wpc' = IF bytes_read[c] > 2 /\ complete[c] THEN "process" ELSE "rearm"
    /\ bytes_read' = [bytes_read EXCEPT ![c] = IF complete[c] THEN @ ELSE 0]
    /\ UNCHANGED <<peer, status, left, complete, object, executed, epoll, batch, current, rest>>

(* EAGAIN: the request is finished if what was read ends with the marker. *)
ReadAgain(c) ==
    /\ wpc = "read" /\ c = current /\ ~hup[c]
    /\ inbox[c] = 0 /\ ~eof[c]
    /\ wpc' = IF bytes_read[c] > 2 /\ complete[c] THEN "process" ELSE "rearm"
    /\ UNCHANGED <<peer, client, epoll, batch, current, rest>>

(* Any other error: the connection stays in Reading. *)
ReadError(c) ==
    /\ wpc = "read" /\ c = current /\ hup[c]
    /\ wpc' = "rearm"
    /\ UNCHANGED <<peer, client, epoll, batch, current, rest>>

(* Faulty variant: end of file is treated like EAGAIN. *)
FaultyReadEof(c) ==
    /\ wpc = "read" /\ c = current /\ ~hup[c]
    /\ inbox[c] = 0 /\ eof[c]
    /\ wpc' = "rearm"
    /\ UNCHANGED <<peer, client, epoll, batch, current, rest>>

(* End of file, also after a complete request. *)
ReadEof(c) ==
    /\ wpc = "read" /\ c = current /\ ~hup[c]
    /\ inbox[c] = 0 /\ eof[c]
    /\ status' = [status EXCEPT ![c] = "Ended"]
    /\ wpc' = "rearm"
    /\ UNCHANGED <<peer, bytes_read, left, complete, object, executed, epoll, batch,
                   current, rest>>

(* Faulty variant: the next request is appended to this one. *)
FaultyKeepBytes(c) ==
    /\ wpc = "process" /\ c = current
    /\ executed' = [executed EXCEPT ![c] = @ + 1]
    /\ left' = [left EXCEPT ![c] = ResponseSize]
    /\ complete' = [complete EXCEPT ![c] = FALSE]
    /\ status' = [status EXCEPT ![c] = "Writing"]
    /\ wpc' = "rearm"
    /\ UNCHANGED <<peer, bytes_read, object, epoll, batch, current, rest>>

(* process_command, then the switch to writing. *)
ProcessCommand(c) ==
    /\ wpc = "process" /\ c = current
    /\ executed' = [executed EXCEPT ![c] = @ + 1]
    /\ left' = [left EXCEPT ![c] = ResponseSize]
    /\ bytes_read' = [bytes_read EXCEPT ![c] = 0]
    /\ complete' = [complete EXCEPT ![c] = FALSE]
    /\ status' = [status EXCEPT ![c] = "Writing"]
    /\ wpc' = "rearm"
    /\ UNCHANGED <<peer, object, epoll, batch, current, rest>>

(* do_event, status Writing: send until all is sent or the socket would block. *)
WriteSome(c) ==
    /\ wpc = "write" /\ c = current /\ ~hup[c]
    /\ rest > 0 /\ outbox[c] < SendBuffer
    /\ LET written == Least(rest, SendBuffer - outbox[c])
       IN /\ outbox' = [outbox EXCEPT ![c] = @ + written]
          /\ rest' = rest - written
    /\ UNCHANGED <<cpc, unsent, inbox, eof, hup, received, requests, client, epoll, wpc,
                   batch, current>>

(* Faulty variant: what is left is not written back. *)
FaultyWriteBlocked(c) ==
    /\ wpc = "write" /\ c = current /\ ~hup[c]
    /\ rest > 0 /\ outbox[c] = SendBuffer
    /\ wpc' = "rearm"
    /\ UNCHANGED <<peer, client, epoll, batch, current, rest>>

WriteBlocked(c) ==
    /\ wpc = "write" /\ c = current /\ ~hup[c]
    /\ rest > 0 /\ outbox[c] = SendBuffer
    /\ left' = [left EXCEPT ![c] = rest]
    /\ wpc' = "rearm"
    /\ UNCHANGED <<peer, status, bytes_read, complete, object, executed, epoll, batch,
                   current, rest>>

WriteError(c) ==
    /\ wpc = "write" /\ c = current /\ hup[c]
    /\ rest > 0
    /\ status' = [status EXCEPT ![c] = "Ended"]
    /\ wpc' = "rearm"
    /\ UNCHANGED <<peer, bytes_read, left, complete, object, executed, epoll, batch,
                   current, rest>>

WriteDone(c) ==
    /\ wpc = "write" /\ c = current
    /\ rest = 0
    /\ status' = [status EXCEPT ![c] = "Reading"]
    /\ wpc' = "rearm"
    /\ UNCHANGED <<peer, bytes_read, left, complete, object, executed, epoll, batch,
                   current, rest>>

(* Faulty variant: what is already there is not reported. *)
FaultyRearmBlind(c) ==
    /\ wpc = "rearm" /\ c = current /\ status[c] # "Ended"
    /\ armed' = [armed EXCEPT ![c] = Interest(c)]
    /\ wpc' = "dispatch" /\ current' = Nobody /\ rest' = 0
    /\ UNCHANGED <<peer, client, pending, listening, batch>>

(* The end of handle_request_event. *)
Rearm(c) ==
    /\ wpc = "rearm" /\ c = current /\ status[c] # "Ended"
    /\ armed' = [armed EXCEPT ![c] = Interest(c)]
    /\ pending' = [pending EXCEPT ![c] = IsReady(c)]
    /\ wpc' = "dispatch" /\ current' = Nobody /\ rest' = 0
    /\ UNCHANGED <<peer, client, listening, batch>>

CloseEnded(c) ==
    /\ wpc = "rearm" /\ c = current /\ status[c] = "Ended"
    /\ object' = [object EXCEPT ![c] = "freed"]
    /\ wpc' = "dispatch" /\ current' = Nobody /\ rest' = 0
    /\ UNCHANGED <<peer, status, bytes_read, left, complete, executed, epoll, batch>>

-----------------------------------------------------------------------------
Client(c) ==
    \/ Connect(c) \/ Leave(c)
    \/ \E size \in RequestSizes : BeginRequest(c, size)

Network(c) == Receive(c) \/ Reset(c) \/ \E n \in 1 .. MAX_REQUEST_SIZE : Send(c, n)

Worker ==
    \/ EpollWait \/ EndOfBatch \/ HandleListen \/ AcceptAgain
    \/ \E e \in batch : HandleRequest(e) \/ HandleHup(e)
    \/ \E c \in Clients :
          \/ Accept(c) \/ ReadSome(c) \/ ReadAgain(c) \/ ReadEof(c) \/ ReadError(c)
          \/ ProcessCommand(c)
          \/ WriteSome(c) \/ WriteBlocked(c) \/ WriteError(c) \/ WriteDone(c)
          \/ Rearm(c) \/ CloseEnded(c)

Next == Worker \/ \E c \in Clients : Client(c) \/ Network(c)

(* The worker is scheduled and requests return; what is sent arrives. *)
Fairness == WF_vars(Worker) /\ \A c \in Clients : WF_vars(Network(c))

Spec == Init /\ [][Next]_vars
FairSpec == Spec /\ Fairness

-----------------------------------------------------------------------------
(* Type correctness; req never holds more than MAX_REQUEST_SIZE bytes and the
   read of zero bytes that the assertion in do_event excludes does not happen. *)
TypeOK ==
    /\ cpc \in [Clients -> {"off", "idle", "sending", "awaiting", "gone"}]
    /\ unsent \in [Clients -> 0 .. MAX_REQUEST_SIZE]
    /\ inbox \in [Clients -> 0 .. MAX_REQUEST_SIZE]
    /\ eof \in [Clients -> BOOLEAN] /\ hup \in [Clients -> BOOLEAN]
    /\ outbox \in [Clients -> 0 .. SendBuffer]
    /\ received \in [Clients -> 0 .. ResponseSize]
    /\ requests \in [Clients -> 0 .. MaxRequests]
    /\ status \in [Clients -> {"Reading", "Writing", "Ended"}]
    /\ bytes_read \in [Clients -> 0 .. MAX_REQUEST_SIZE - 1]
    /\ left \in [Clients -> 0 .. ResponseSize]
    /\ complete \in [Clients -> BOOLEAN]
    /\ object \in [Clients -> {"none", "backlog", "live", "freed", "leaked"}]
    /\ executed \in [Clients -> 0 .. MaxRequests]
    /\ armed \in [Clients -> {"none", "in", "out"}]
    /\ pending \in [Clients -> BOOLEAN] /\ listening \in BOOLEAN
    /\ wpc \in {"wait", "dispatch", "accept", "read", "process", "write", "rearm"}
    /\ batch \subseteq (Clients \cup {Listen}) \X BOOLEAN
    /\ current \in Clients \cup {Nobody} /\ rest \in 0 .. ResponseSize

Reported(c) == current = c \/ \E e \in batch : e[1] = c

(* No lost wake-up: a live connection that no report is being handled for is
   armed for what its status needs, and an event is due as soon as that can
   make progress. *)
NoLostWakeup ==
    \A c \in Clients : object[c] = "live" /\ ~Reported(c) =>
        /\ armed[c] = Interest(c)
        /\ IsReady(c) => pending[c]

(* Nobody touches a freed client: once it is freed or abandoned, no interest,
   due event or report refers to it any more, and nothing refers to it twice. *)
NoDanglingReport ==
    \A c \in Clients :
        /\ object[c] # "live" => armed[c] = "none" /\ ~pending[c] /\ ~Reported(c)
        /\ Reported(c) => armed[c] = "none"
        /\ Cardinality({e \in batch : e[1] = c}) + (IF current = c THEN 1 ELSE 0) <= 1

(* One execution and one whole response per request: every request before the
   current one has been executed once, the current one at most once and only
   when all of it has been sent, and the bytes received, buffered and left of
   its response add up. *)
Unwritten(c) ==
    IF current = c /\ wpc = "write" THEN rest
    ELSE IF status[c] = "Writing" THEN left[c] ELSE 0

OneResponsePerRequest ==
    \A c \in Clients : object[c] = "live" =>
        /\ cpc[c] = "idle" => executed[c] = requests[c]
        /\ cpc[c] = "sending" => executed[c] = requests[c] - 1
        /\ cpc[c] = "awaiting" =>
              \/ executed[c] = requests[c] - 1
              \/ /\ executed[c] = requests[c]
                 /\ received[c] + outbox[c] + Unwritten(c) = ResponseSize

(* Every connection is accepted and every request gets its whole response,
   however it is cut into pieces, unless the client leaves ("process it using
   Mangosteen and then once ready to send a response switch to writing mode"). *)
ClientsServed ==
    \A c \in Clients :
        /\ object[c] = "backlog" ~> object[c] # "backlog"
        /\ cpc[c] = "awaiting" ~> cpc[c] \in {"idle", "gone"}

(* The connection of a client that left is closed in the end, whatever the
   worker was doing for it. *)
GoneIsClosed ==
    \A c \in Clients : cpc[c] = "gone" ~> object[c] \in {"freed", "leaked"}
=============================================================================
