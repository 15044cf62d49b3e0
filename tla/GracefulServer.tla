--------------------------- MODULE GracefulServer ---------------------------
(***************************************************************************)
(* The repository's server, as its components are composed in              *)
(* src/tests/integration/graceful_shutdown_tests.cpp: one I/O thread runs  *)
(* a SelectPoller loop over an Acceptor and its Connections and echoes     *)
(* frames, clients send a frame and wait for the reply, and the main       *)
(* thread requests a shutdown.  The phase changes by the actions of        *)
(* Lifecycle, which ShutdownCoordinator implements.  The clients of that   *)
(* test wait for every reply; clients that send ahead, which the decode    *)
(* loop of process_connection_read is written for, are added here.         *)
(*                                                                         *)
(* Data.  Bytes are counted, not distinguished: a frame is FrameLen units  *)
(* and a socket buffer holds SockBuf units per direction.  A system call   *)
(* of the I/O thread is one step; what the thread does between two calls   *)
(* touches only its own state and belongs to the step before.              *)
(* select() reports what is ready at that moment in the order of an        *)
(* unordered_map: any order, and any choice when the batch is too small.   *)
(***************************************************************************)
EXTENDS Naturals, FiniteSets

CONSTANTS
    Clients,
    FrameLen,         \* units of an encoded frame
    Frames,           \* frames a client sends
    Pipelining,       \* clients that do not wait for a reply between frames
    SockBuf,          \* units the kernel buffers in one direction
    MaxEvents,        \* size of the events array given to wait()
    AwaitClients,     \* main waits until every client is connected
    DeadlineCanPass   \* the 30 s of run_server may pass before it drains

ASSUME ServerAssumption ==
    /\ IsFiniteSet(Clients) /\ Pipelining \subseteq Clients
    /\ FrameLen \in Nat \ {0} /\ Frames \in Nat \ {0} /\ SockBuf \in Nat \ {0}
    /\ MaxEvents \in Nat \ {0}
    /\ AwaitClients \in BOOLEAN /\ DeadlineCanPass \in BOOLEAN

VARIABLES
    phase,        \* lifecycle
    io,           \* where the I/O thread is in run_server
    cur,          \* the event it handles
    resume,       \* where try_flush_writes returns to
    batch,        \* events of the last wait() not handled yet
    listening,    \* the listener is registered (not listener_unregistered)
    handle,       \* native handle of a client's accepted socket, 0: none
    interest,     \* interest_ of the poller for a connection
    rbuf, wbuf,   \* units in read_buf_ and write_buf_
    awaiting,     \* awaiting_reply_flush
    completions,
    client,       \* where each client is
    sent, got,    \* units a client has sent and received
    backlog,      \* connected clients that were not accepted yet
    up, down,     \* units in the kernel, to the server and to the client
    accepted      \* history: clients that were accepted

serverVars == <<io, cur, resume, batch, listening, handle, interest,
                rbuf, wbuf, awaiting, completions, accepted>>
clientVars == <<client, sent, got>>
kernelVars == <<backlog, up, down>>
vars == <<phase, serverVars, clientVars, kernelVars>>

L == INSTANCE Lifecycle

None == [handle |-> 0, owner |-> {}, mask |-> {}]
Listener == [handle |-> 0, owner |-> {}, mask |-> {"Read"}]
Handles == 1..Cardinality(Clients)
Slots == {c \in Clients : handle[c] # 0}
Total == Frames * FrameLen

Events == [handle : {0} \cup Handles, owner : SUBSET Clients, mask : SUBSET {"Read", "Write"}]

TypeOK ==
    /\ phase \in L!Phases
    /\ io \in {"top", "wait", "events", "accept", "recv", "decode", "flush",
               "advance", "exit", "done", "aborted"}
    /\ cur \in Events /\ resume \in {"events", "decode"} /\ batch \subseteq Events
    /\ listening \in BOOLEAN
    /\ handle \in [Clients -> {0} \cup Handles]
    /\ interest \in [Clients -> SUBSET {"Read", "Write"}]
    /\ rbuf \in [Clients -> 0..Total] /\ wbuf \in [Clients -> 0..Total]
    /\ awaiting \in [Clients -> BOOLEAN] /\ completions \in Nat
    /\ client \in [Clients -> {"new", "connected", "closed", "aborted"}]
    /\ sent \in [Clients -> 0..Total] /\ got \in [Clients -> 0..Total]
    /\ backlog \subseteq Clients /\ accepted \subseteq Clients
    /\ up \in [Clients -> 0..SockBuf] /\ down \in [Clients -> 0..SockBuf]

Init ==
    /\ L!LifecycleInit
    /\ io = "top" /\ cur = None /\ resume = "events" /\ batch = {}
    /\ listening = TRUE
    /\ handle = [c \in Clients |-> 0]
    /\ interest = [c \in Clients |-> {}]
    /\ rbuf = [c \in Clients |-> 0] /\ wbuf = [c \in Clients |-> 0]
    /\ awaiting = [c \in Clients |-> FALSE] /\ completions = 0
    /\ client = [c \in Clients |-> "new"]
    /\ sent = [c \in Clients |-> 0] /\ got = [c \in Clients |-> 0]
    /\ backlog = {} /\ accepted = {}
    /\ up = [c \in Clients |-> 0] /\ down = [c \in Clients |-> 0]

(***************************************************************************)
(* The calls run_server makes on the poller and on a connection's buffers. *)
(***************************************************************************)
(* SelectPoller::upsert and erase. *)
Upsert(c, mask) == interest' = [interest EXCEPT ![c] = mask]
Erase(c) == interest' = [interest EXCEPT ![c] = {}]

(* Connection::append_read, consume_read, consume_write and clear_write. *)
AppendRead(c, n) == rbuf' = [rbuf EXCEPT ![c] = @ + n]
ConsumeRead(c, n) == rbuf' = [rbuf EXCEPT ![c] = @ - n]
ConsumeWrite(c, n) == wbuf' = [wbuf EXCEPT ![c] = @ - n]
ClearWrite(c) == wbuf' = [wbuf EXCEPT ![c] = 0]

(* remove_slot: the poller forgets the connection, its socket is closed. *)
RemoveSlot(c) ==
    /\ Erase(c)
    /\ handle' = [handle EXCEPT ![c] = 0]
    /\ awaiting' = [awaiting EXCEPT ![c] = FALSE]

(***************************************************************************)
(* The loop of run_server.                                                 *)
(***************************************************************************)
(* Loop condition, and the listener is unregistered when draining began. *)
LoopTop ==
    /\ io = "top"
    /\ IF L!ShouldPollNetwork
         THEN io' = "wait" /\ listening' = (listening /\ L!ShouldAcceptNewConnections)
         ELSE io' = "exit" /\ UNCHANGED listening
    /\ UNCHANGED <<phase, cur, resume, batch, handle, interest, rbuf, wbuf,
                   awaiting, completions, accepted, clientVars, kernelVars>>

(* Fault: the deadline is only looked at while draining. *)
DeadlineWhenDraining ==
    /\ DeadlineCanPass /\ phase # "Running"
    /\ io = "top"
    /\ io' = "exit"
    /\ UNCHANGED <<phase, cur, resume, batch, listening, handle, interest, rbuf, wbuf,
                   awaiting, completions, accepted, clientVars, kernelVars>>

DeadlinePasses ==
    /\ DeadlineCanPass
    /\ io = "top"
    /\ io' = "exit"
    /\ UNCHANGED <<phase, cur, resume, batch, listening, handle, interest, rbuf, wbuf,
                   awaiting, completions, accepted, clientVars, kernelVars>>

(* What select() reports for a registered connection. *)
Fired(c) ==
    {m \in interest[c] :
        \/ m = "Read" /\ (up[c] > 0 \/ client[c] = "closed")
        \/ m = "Write" /\ down[c] < SockBuf}

EventOf(c) == [handle |-> handle[c], owner |-> {c}, mask |-> Fired(c)]

(* The sockets whose descriptors select() left set. *)
Ready ==
    {EventOf(c) : c \in {d \in Slots : Fired(d) # {}}}
    \cup {e \in {Listener} : listening /\ backlog # {}}

(* poller.wait: at most MaxEvents of the ready sockets; none: time out. *)
Wait ==
    /\ io = "wait"
    /\ \E B \in SUBSET Ready :
          /\ B = Ready \/ Cardinality(B) = MaxEvents
          /\ Cardinality(B) <= MaxEvents
          /\ batch' = B
    /\ io' = "events"
    /\ UNCHANGED <<phase, cur, resume, listening, handle, interest, rbuf, wbuf,
                   awaiting, completions, accepted, clientVars, kernelVars>>

(* find_slot_index: the connections with the handle of an event. *)
SlotOf(e) == {c \in Slots : handle[c] = e.handle}

AfterRead(e) == IF "Write" \in e.mask THEN "flush" ELSE "events"

(* Fault: a `continue` does not move on to the next event. *)
NextEventAgain ==
    /\ io = "events"
    /\ \E e \in batch :
          /\ \/ batch' = batch \ {e}
             \/ e # Listener /\ UNCHANGED batch
          /\ cur' = e
          /\ io' = IF e = Listener
                     THEN IF L!ShouldAcceptNewConnections THEN "accept" ELSE "events"
                     ELSE IF SlotOf(e) = {} THEN "events"
                     ELSE IF "Read" \in e.mask THEN "recv" ELSE "flush"
    /\ resume' = "events"
    /\ UNCHANGED <<phase, listening, handle, interest, rbuf, wbuf,
                   awaiting, completions, accepted, clientVars, kernelVars>>

(* The next event: a listener event is skipped once draining, an event     *)
(* whose handle has no slot is skipped.                                    *)
NextEvent ==
    /\ io = "events"
    /\ \E e \in batch :
          /\ batch' = batch \ {e}
          /\ cur' = e
          /\ io' = IF e = Listener
                     THEN IF L!ShouldAcceptNewConnections THEN "accept" ELSE "events"
                     ELSE IF SlotOf(e) = {} THEN "events"
                     ELSE IF "Read" \in e.mask THEN "recv" ELSE "flush"
    /\ resume' = "events"
    /\ UNCHANGED <<phase, listening, handle, interest, rbuf, wbuf,
                   awaiting, completions, accepted, clientVars, kernelVars>>

EventsDone ==
    /\ io = "events" /\ batch = {}
    /\ io' = "advance"
    /\ UNCHANGED <<phase, cur, resume, batch, listening, handle, interest, rbuf, wbuf,
                   awaiting, completions, accepted, clientVars, kernelVars>>

(* The kernel gives a new socket the lowest free handle. *)
FreeHandle == CHOOSE h \in Handles \ {handle[c] : c \in Slots} :
                  \A k \in Handles \ {handle[c] : c \in Slots} : h <= k

(* accept_one: the socket of a client from the backlog. *)
AcceptOne(c) ==
    /\ backlog' = backlog \ {c}
    /\ handle' = [handle EXCEPT ![c] = FreeHandle]

(* accept_and_register: the new connection is watched for reading. *)
AcceptAndRegister(c) == AcceptOne(c) /\ Upsert(c, {"Read"})

(* The accept loop, until accept() would block; it does not look at the    *)
(* phase again.                                                            *)
Accept ==
    /\ io = "accept"
    /\ \/ \E c \in backlog : /\ AcceptAndRegister(c)
                             /\ accepted' = accepted \cup {c}
                             /\ UNCHANGED io
       \/ /\ backlog = {}
          /\ io' = "events"
          /\ UNCHANGED <<backlog, handle, interest, accepted>>
    /\ UNCHANGED <<phase, cur, resume, batch, listening, rbuf, wbuf,
                   awaiting, completions, clientVars, up, down>>

(***************************************************************************)
(* process_connection_read, for the connection of the current event.       *)
(***************************************************************************)
(* What receive_nonblocking returns: buffered data comes before the end. *)
ReceiveNonblocking(c) ==
    IF up[c] > 0 THEN "Data"
    ELSE IF client[c] = "closed" THEN "Closed" ELSE "WouldBlock"

(* The data is appended to the read buffer, which is then decoded. *)
RecvData(c) ==
    /\ io = "recv" /\ c \in SlotOf(cur)
    /\ ReceiveNonblocking(c) = "Data"
    /\ AppendRead(c, up[c])
    /\ up' = [up EXCEPT ![c] = 0]
    /\ io' = "decode"
    /\ UNCHANGED <<phase, cur, resume, batch, listening, handle, interest, wbuf,
                   awaiting, completions, accepted, clientVars, backlog, down>>

RecvWouldBlock(c) ==
    /\ io = "recv" /\ c \in SlotOf(cur)
    /\ ReceiveNonblocking(c) = "WouldBlock"
    /\ io' = AfterRead(cur)
    /\ resume' = "events"
    /\ UNCHANGED <<phase, cur, batch, listening, handle, interest, rbuf, wbuf,
                   awaiting, completions, accepted, clientVars, kernelVars>>

(* End of stream: the buffers are dropped and the slot is removed. *)
RecvClosed(c) ==
    /\ io = "recv" /\ c \in SlotOf(cur)
    /\ ReceiveNonblocking(c) = "Closed"
    /\ rbuf' = [rbuf EXCEPT ![c] = 0]
    /\ ClearWrite(c)
    /\ RemoveSlot(c)
    /\ io' = "events"
    /\ UNCHANGED <<phase, cur, resume, batch, listening, completions, accepted,
                   clientVars, kernelVars>>

(* Fault: the frame is taken although part of it is still missing. *)
DecodeShort(c) ==
    /\ io = "decode" /\ c \in SlotOf(cur)
    /\ rbuf[c] > 0
    /\ ConsumeRead(c, FrameLen)
    /\ wbuf' = [wbuf EXCEPT ![c] = @ + FrameLen]
    /\ awaiting' = [awaiting EXCEPT ![c] = TRUE]
    /\ Upsert(c, {"Read", "Write"})
    /\ io' = "flush" /\ resume' = "decode"
    /\ UNCHANGED <<phase, cur, batch, listening, handle, completions, accepted,
                   clientVars, kernelVars>>

(* A complete frame is echoed to the write buffer and flushed. *)
DecodeFrame(c) ==
    /\ io = "decode" /\ c \in SlotOf(cur)
    /\ rbuf[c] >= FrameLen
    /\ ConsumeRead(c, FrameLen)
    /\ wbuf' = [wbuf EXCEPT ![c] = @ + FrameLen]
    /\ awaiting' = [awaiting EXCEPT ![c] = TRUE]
    /\ Upsert(c, {"Read", "Write"})
    /\ io' = "flush" /\ resume' = "decode"
    /\ UNCHANGED <<phase, cur, batch, listening, handle, completions, accepted,
                   clientVars, kernelVars>>

(* Fault: one frame for every recv(). *)
DecodeOncePerRecv(c) ==
    /\ io = "decode" /\ c \in SlotOf(cur)
    /\ rbuf[c] < FrameLen \/ resume = "decode"
    /\ io' = "recv" /\ resume' = "events"
    /\ UNCHANGED <<phase, cur, batch, listening, handle, interest, rbuf, wbuf,
                   awaiting, completions, accepted, clientVars, kernelVars>>

DecodeIncomplete(c) ==
    /\ io = "decode" /\ c \in SlotOf(cur)
    /\ rbuf[c] < FrameLen
    /\ io' = "recv"
    /\ UNCHANGED <<phase, cur, resume, batch, listening, handle, interest, rbuf, wbuf,
                   awaiting, completions, accepted, clientVars, kernelVars>>

(***************************************************************************)
(* try_flush_writes.                                                       *)
(***************************************************************************)
(* Fault: a partial send is taken for a complete one. *)
FlushForgetsRest(c) ==
    /\ wbuf[c] > 0 /\ down[c] < SockBuf
    /\ \E k \in 1..wbuf[c] :
          /\ down[c] + k <= SockBuf
          /\ down' = [down EXCEPT ![c] = @ + k]
          /\ ConsumeWrite(c, wbuf[c])

(* flush_write_nonblocking: the kernel takes some of the write buffer. *)
FlushWriteNonblocking(c) ==
    /\ wbuf[c] > 0 /\ down[c] < SockBuf
    /\ \E k \in 1..wbuf[c] :
          /\ down[c] + k <= SockBuf
          /\ down' = [down EXCEPT ![c] = @ + k]
          /\ ConsumeWrite(c, k)

(* One send, and the loop of try_flush_writes goes on. *)
Send(c) ==
    /\ io = "flush" /\ c \in SlotOf(cur)
    /\ FlushWriteNonblocking(c)
    /\ UNCHANGED <<phase, io, cur, resume, batch, listening, handle, interest, rbuf,
                   awaiting, completions, accepted, clientVars, backlog, up>>

(* Fault: a blocked connection is only watched for reading. *)
SendBlocksUnwatched(c) ==
    /\ io = "flush" /\ c \in SlotOf(cur)
    /\ wbuf[c] > 0 /\ down[c] = SockBuf
    /\ Upsert(c, {"Read"})
    /\ io' = resume
    /\ UNCHANGED <<phase, cur, resume, batch, listening, handle, rbuf, wbuf,
                   awaiting, completions, accepted, clientVars, kernelVars>>

SendWouldBlock(c) ==
    /\ io = "flush" /\ c \in SlotOf(cur)
    /\ wbuf[c] > 0 /\ down[c] = SockBuf
    /\ Upsert(c, {"Read", "Write"})
    /\ io' = resume
    /\ UNCHANGED <<phase, cur, resume, batch, listening, handle, rbuf, wbuf,
                   awaiting, completions, accepted, clientVars, kernelVars>>

(* The write buffer is empty: count the reply, watch for reading only. *)
FlushDone(c) ==
    /\ io = "flush" /\ c \in SlotOf(cur)
    /\ wbuf[c] = 0
    /\ completions' = completions + (IF awaiting[c] THEN 1 ELSE 0)
    /\ awaiting' = [awaiting EXCEPT ![c] = FALSE]
    /\ Upsert(c, {"Read"})
    /\ io' = resume
    /\ UNCHANGED <<phase, cur, resume, batch, listening, handle, rbuf, wbuf,
                   accepted, clientVars, kernelVars>>

(***************************************************************************)
(* The end of a turn, and the end of run_server.                           *)
(***************************************************************************)
(* Fault: connections without pending writes do not count as active. *)
DrainedByWrites == ~listening /\ \A c \in Slots : wbuf[c] = 0

Drained == ~listening /\ Slots = {} /\ \A c \in Slots : wbuf[c] = 0

TryAdvance ==
    /\ io = "advance"
    /\ io' = "top"
    /\ IF phase = "Draining" /\ Drained THEN L!AdvanceToStopped ELSE UNCHANGED phase
    /\ UNCHANGED <<cur, resume, batch, listening, handle, interest, rbuf, wbuf,
                   awaiting, completions, accepted, clientVars, kernelVars>>

(* assert(phase() == Stopped): a thread that the deadline took out of its  *)
(* loop ends the process, and its slots and listener with it.              *)
StoppedAssertFails ==
    /\ io = "exit" /\ phase # "Stopped"
    /\ io' = "aborted"
    /\ UNCHANGED <<phase, cur, resume, batch, listening, handle, interest, rbuf, wbuf,
                   awaiting, completions, accepted, clientVars, kernelVars>>

(* The assertion holds: the remaining slots and the listener are closed. *)
Cleanup ==
    /\ io = "exit" /\ phase = "Stopped"
    /\ io' = "done"
    /\ listening' = FALSE
    /\ handle' = [c \in Clients |-> 0]
    /\ interest' = [c \in Clients |-> {}]
    /\ UNCHANGED <<phase, cur, resume, batch, rbuf, wbuf, awaiting, completions,
                   accepted, clientVars, kernelVars>>

(***************************************************************************)
(* client_session and main.                                                *)
(***************************************************************************)
(* The clients are threads of the same process: a failed assertion of the  *)
(* I/O thread or of a client ends them all.                                *)
Alive == io # "aborted" /\ \A c \in Clients : client[c] # "aborted"

Connect(c) ==
    /\ Alive
    /\ client[c] = "new"
    /\ IF io = "done" THEN client' = [client EXCEPT ![c] = "aborted"] /\ UNCHANGED backlog
                      ELSE /\ client' = [client EXCEPT ![c] = "connected"]
                           /\ backlog' = backlog \cup {c}
    /\ UNCHANGED <<phase, serverVars, sent, got, up, down>>

(* send_all, unit by unit; unless it pipelines, a client sends the next    *)
(* frame only after the last reply.                                        *)
ClientSend(c) ==
    /\ client[c] = "connected"
    /\ sent[c] < Total
    /\ c \in Pipelining \/ sent[c] < FrameLen * (1 + got[c] \div FrameLen)
    /\ up[c] < SockBuf
    /\ sent' = [sent EXCEPT ![c] = @ + 1]
    /\ up' = [up EXCEPT ![c] = @ + 1]
    /\ UNCHANGED <<phase, serverVars, client, got, backlog, down>>

ClientRecv(c) ==
    /\ client[c] = "connected"
    /\ down[c] > 0
    /\ got' = [got EXCEPT ![c] = @ + down[c]]
    /\ down' = [down EXCEPT ![c] = 0]
    /\ UNCHANGED <<phase, serverVars, client, sent, backlog, up>>

ClientClose(c) ==
    /\ client[c] = "connected"
    /\ got[c] = Total
    /\ client' = [client EXCEPT ![c] = "closed"]
    /\ UNCHANGED <<phase, serverVars, sent, got, kernelVars>>

(* The server has closed its end: recv() or send() fails. *)
ClientAbort(c) ==
    /\ Alive
    /\ client[c] = "connected" /\ io = "done"
    /\ client' = [client EXCEPT ![c] = "aborted"]
    /\ UNCHANGED <<phase, serverVars, sent, got, kernelVars>>

(* main, or a signal handler. *)
Request ==
    /\ Alive
    /\ AwaitClients => \A c \in Clients : client[c] # "new"
    /\ L!RequestShutdown
    /\ UNCHANGED <<serverVars, clientVars, kernelVars>>

-----------------------------------------------------------------------------
Connection(c) ==
    \/ RecvData(c) \/ RecvWouldBlock(c) \/ RecvClosed(c)
    \/ DecodeFrame(c) \/ DecodeIncomplete(c)
    \/ Send(c) \/ SendWouldBlock(c) \/ FlushDone(c)

Server ==
    \/ LoopTop \/ Wait \/ NextEvent \/ EventsDone \/ Accept
    \/ TryAdvance \/ StoppedAssertFails \/ Cleanup
    \/ \E c \in Clients : Connection(c)

Session(c) == Alive /\ (ClientSend(c) \/ ClientRecv(c) \/ ClientClose(c))

Next ==
    \/ Server \/ DeadlinePasses \/ Request
    \/ \E c \in Clients : Connect(c) \/ Session(c) \/ ClientAbort(c)

Spec == Init /\ [][Next]_vars

(* The I/O thread keeps running.  Clients may stall: only DrainEnds        *)
(* supposes that a connected client sends its frames, reads what arrives   *)
(* and closes.                                                             *)
FairSpec == Spec /\ WF_vars(Server)

ClientFairness == \A c \in Clients : WF_vars(Session(c))

-----------------------------------------------------------------------------
(* Whenever the I/O thread polls, it watches a connection for writability  *)
(* exactly when it has something to write: a blocked reply is never        *)
(* forgotten, and an idle connection never makes select() spin.            *)
PendingWritesWatched ==
    io = "wait" => \A c \in Slots :
        interest[c] = IF wbuf[c] > 0 THEN {"Read", "Write"} ELSE {"Read"}

(* No unit is lost, duplicated or made up between a client and its echo,   *)
(* through partial sends, partial frames and full socket buffers.          *)
NoByteLost ==
    \A c \in Slots \cup backlog :
        sent[c] = up[c] + rbuf[c] + wbuf[c] + down[c] + got[c]

(* An event is handled for the connection it was reported for, although    *)
(* handles are reused while a batch of events is being worked off.         *)
EventsReachTheirConnection ==
    io \in {"recv", "decode", "flush"} => SlotOf(cur) = cur.owner

(* Whenever the I/O thread polls, every complete frame it has received has *)
(* been answered: it never sleeps on a frame that only more data from the  *)
(* client would bring back to its attention.                               *)
NoFrameStranded == io = "wait" => \A c \in Slots : rbuf[c] < FrameLen

(* The server stops only when every client it accepted has been answered   *)
(* completely and has closed.  Each reply was counted once, except that    *)
(* replies a pipelining client is sent together count as one.              *)
StoppedIsDrained ==
    phase = "Stopped" =>
        /\ Slots = {} /\ ~listening
        /\ \A c \in accepted : client[c] = "closed" /\ got[c] = Total
        /\ completions <= Frames * Cardinality(accepted)
        /\ completions >= Frames * Cardinality(accepted \ Pipelining)
                             + Cardinality(accepted \cap Pipelining)

(* A requested shutdown completes: clients that were accepted are drained  *)
(* and clients that were not do not hold it up; otherwise only a deadline  *)
(* that passed, and then the failed assertion, ends the server.            *)
DrainEnds ==
    ClientFairness => (phase = "Draining") ~> (phase = "Stopped" \/ io = "aborted")

(* Once its time is up, the I/O thread leaves run_server, with the phase   *)
(* Stopped or by the assertion after the loop, whether or not a shutdown   *)
(* was requested and although clients stall in the middle of a frame or    *)
(* never read: nothing it does for a client whose traffic is bounded keeps *)
(* it away from the clock.                                                 *)
DeadlineEndsServer == SF_vars(DeadlinePasses) => <>(io \in {"done", "aborted"})

(* graceful_shutdown_tests.cpp:329 asserts that a client that connected    *)
(* before the shutdown was requested gets its reply.                       *)
ConnectedAreServed == \A c \in Clients : client[c] # "aborted"

=============================================================================
