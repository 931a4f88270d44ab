------------------------- MODULE ClientStreamProcessor -------------------------
(***************************************************************************)
(* The connection side of a multiplexed RPC client,                        *)
(* src/src/mrpc_client_stream_processor.c: the reader loop of              *)
(* mrpc_client_stream_processor_process_stream, the writer fiber           *)
(* stream_writer_func, invoke_rpc with acquire/release_request_processor,  *)
(* stop_async, stop_all_request_processors and stop_stream_writer.         *)
(*                                                                         *)
(* A request processor's invoke is modelled from the spec (its code is not *)
(* in the source): it sends one request packet on the writer queue, then   *)
(* waits on its reader queue for the response; the END packet a stop       *)
(* pushes, or a timeout, makes it fail. Packets are records               *)
(* [rid, call]: the request id and the number of the call they belong to;  *)
(* call 0 marks the END packet of a disconnect. A request processor of the *)
(* pool is named by the request id it took from the bitmap when it was     *)
(* created (create_request_processor).                                     *)
(***************************************************************************)
EXTENDS Naturals, Sequences, FiniteSets, SequencesExt

CONSTANTS
  Callers,          \* fibers calling mrpc_client_stream_processor_invoke_rpc
  MaxProcessors,    \* MAX_REQUEST_PROCESSORS_CNT: request processors pool size
  PacketsCnt,       \* MAX_PACKETS_CNT: packets pool size
  WriterQueueSize,  \* MAX_WRITER_QUEUE_SIZE
  ReaderQueueSize,  \* reader queue size of a request processor's packet stream
  MaxCalls,         \* bound: invoke_rpc calls over all callers
  ResponseTimeouts, \* TRUE: a call's wait for its response may time out while
                    \* the response is on its way; FALSE: only once it cannot come
  SocketMayFail,    \* TRUE: the socket may fail once, at any moment
  Stop,             \* the NULL packet that stops the writer fiber
  NoFiber

ASSUME /\ MaxProcessors \in Nat \ {0} /\ PacketsCnt \in Nat \ {0}
       /\ WriterQueueSize \in Nat \ {0} /\ ReaderQueueSize \in Nat \ {0}
       /\ ResponseTimeouts \in BOOLEAN /\ SocketMayFail \in BOOLEAN

Ids == 0..(MaxProcessors - 1)
Reader == "reader"
Writer == "writer"
Fibers == Callers \cup {Reader, Writer}
Packet(id, k) == [rid |-> id, call |-> k]
EndPacket(id) == Packet(id, 0)

VARIABLES
  stream,          \* stream_processor->stream is not NULL
  sockUp,          \* the ff_stream is neither disconnected nor failed
  wire,            \* packets the server sent, not yet read by the reader loop
  unflushed,       \* requests written to the socket, not yet flushed
  server,          \* requests the server has received and not yet answered
  writerQueue,     \* writer_queue
  freePackets,     \* free entries of packets_pool
  created,         \* request processors the pool has created (by request id)
  acquired,        \* request processors acquired from the pool
  active,          \* request ids whose active_request_processors slot is set
  activeCnt,       \* active_request_processors_cnt
  rpStopEvent,     \* request_processors_stop_event is set
  writerStopEvent, \* writer_stop_event is set
  readerQueue,     \* per request processor: its packet stream's reader queue
  cs,              \* per caller: where its invoke_rpc is, its processor and call
  rl,              \* the reader loop: where it is and the packet it holds
  wr,              \* the writer fiber: where it is
  running,         \* the fiber between two suspension points, or NoFiber
  failedAsserts,   \* ff_assert sites found false, and "null_deref"
  calls,           \* invoke_rpc calls made
  socketFailures   \* socket failures that happened

vars == <<stream, sockUp, wire, unflushed, server, writerQueue, freePackets,
          created, acquired, active, activeCnt, rpStopEvent, writerStopEvent,
          readerQueue, cs, rl, wr, running, failedAsserts, calls,
          socketFailures>>

CallerIdle == [pc |-> "idle", id |-> 0, call |-> 0, ok |-> FALSE, got |-> 0]

-----------------------------------------------------------------------------
(* Scheduling: a fiber keeps the processor until it has to wait.           *)

CanRun(f) == running \in {NoFiber, f}

\* dereferencing NULL ends the process
Fatal == "null_deref" \in failedAsserts

Check(cond, site) ==
  failedAsserts' = IF cond THEN failedAsserts ELSE failedAsserts \cup {site}

\* defect variant of ProcessorAvailable: released entries are never reused
ProcessorAvailableNoReuse == Cardinality(created) < MaxProcessors

\* a free request processor, or room to create one
ProcessorAvailable == acquired # created \/ Cardinality(created) < MaxProcessors

\* would the fiber waiting at `pc` (on processor id) go on at once?
Ready(pc, id) ==
  CASE pc \in {"rp_acq"} -> ProcessorAvailable'
    [] pc \in {"req_acq", "acq", "stop_acq"} -> freePackets' > 0
    [] pc \in {"req_put", "stop_writer"} -> Len(writerQueue') < WriterQueueSize
    [] pc = "resp_get" -> readerQueue'[id] # <<>>
    [] pc = "read" -> wire' # <<>> \/ ~sockUp'
    [] pc \in {"push", "stop_put"} -> Len(readerQueue'[id]) < ReaderQueueSize
    [] pc \in {"get", "skip"} -> writerQueue' # <<>>
    [] pc = "wait_rp" -> rpStopEvent'
    [] pc = "rp_woken" -> TRUE
    [] pc = "wait_writer" -> writerStopEvent'
    [] pc \in {"stop", "foreach"} -> TRUE
    [] OTHER -> FALSE

\* the caller c goes on at `pc`
CallerGoto(c, rec) ==
  /\ cs' = [cs EXCEPT ![c] = rec]
  /\ running' = IF Ready(rec.pc, rec.id) THEN c ELSE NoFiber

RlGoto(rec) ==
  /\ rl' = rec
  /\ running' = IF Ready(rec.pc, rec.pk.rid) THEN Reader ELSE NoFiber

WrGoto(pc) ==
  /\ wr' = pc
  /\ running' = IF Ready(pc, 0) THEN Writer ELSE NoFiber

-----------------------------------------------------------------------------
(* mrpc_client_stream_processor_invoke_rpc on a caller fiber.              *)

\* the request processors the pool may hand out: a free one, else a new one
\* whose create_request_processor takes the lowest free bit of the bitmap
PoolChoices ==
  IF acquired # created THEN created \ acquired ELSE {Min(Ids \ created)}

\* ff_event_set of the auto-reset request_processors_stop_event, when `set`:
\* a reader loop waiting on it is woken and takes the event, which stays
\* reset, so a later ff_event_reset cannot take the wake back; with no
\* waiter the event stays set for the next wait
SetStopEvent(set) ==
  IF set /\ rl.pc = "wait_rp"
  THEN /\ rl' = [rl EXCEPT !.pc = "rp_woken"]
       /\ rpStopEvent' = FALSE
  ELSE /\ rpStopEvent' = (set \/ rpStopEvent)
       /\ UNCHANGED rl

\* release_request_processor, run as soon as the processor's invoke returns
Release(c, ok, got) ==
  LET id == cs[c].id IN
  /\ Check(activeCnt > 0 /\ id \in active, "release_slot")
  /\ active' = active \ {id}
  /\ acquired' = acquired \ {id}
  /\ activeCnt' = activeCnt - 1
  /\ SetStopEvent(activeCnt - 1 = 0)
  /\ cs' = [cs EXCEPT ![c] = [@ EXCEPT !.pc = "idle", !.ok = ok, !.got = got]]
  /\ running' = NoFiber

\* invoke_rpc refuses at once when the stream is NULL
InvokeRpc(c) ==
  /\ CanRun(c) /\ ~Fatal /\ cs[c].pc = "idle" /\ calls < MaxCalls
  /\ calls' = calls + 1
  /\ UNCHANGED <<stream, sockUp, wire, unflushed, server, writerQueue,
                 freePackets, created, acquired, active, activeCnt, rpStopEvent,
                 writerStopEvent, readerQueue, rl, wr, failedAsserts,
                 socketFailures>>
  /\ IF stream
     THEN CallerGoto(c, [CallerIdle EXCEPT !.pc = "rp_acq", !.call = calls + 1])
     ELSE /\ cs' = [cs EXCEPT ![c] = [CallerIdle EXCEPT !.call = calls + 1]]
          /\ running' = NoFiber

\* acquire_request_processor: ff_pool_acquire_entry (waits while all are
\* acquired), then the active slot, the count, and the stop event reset
AcquireProcessor(c) ==
  /\ CanRun(c) /\ ~Fatal /\ cs[c].pc = "rp_acq" /\ ProcessorAvailable
  /\ UNCHANGED <<stream, sockUp, wire, unflushed, server, writerQueue,
                 freePackets, writerStopEvent, readerQueue, rl, wr, calls,
                 socketFailures>>
  /\ \E id \in PoolChoices :
       /\ created' = created \cup {id}
       /\ acquired' = acquired \cup {id}
       /\ Check(id \notin active /\ activeCnt < MaxProcessors, "acquire_slot")
       /\ active' = active \cup {id}
       /\ activeCnt' = activeCnt + 1
       /\ rpStopEvent' = (activeCnt # 0 /\ rpStopEvent)
       /\ CallerGoto(c, [cs[c] EXCEPT !.pc = "req_acq", !.id = id])

\* the request processor takes a packet for its request
RequestAcquire(c) ==
  /\ CanRun(c) /\ ~Fatal /\ cs[c].pc = "req_acq" /\ freePackets > 0
  /\ freePackets' = freePackets - 1
  /\ UNCHANGED <<stream, sockUp, wire, unflushed, server, writerQueue, created,
                 acquired, active, activeCnt, rpStopEvent, writerStopEvent,
                 readerQueue, rl, wr, failedAsserts, calls, socketFailures>>
  /\ CallerGoto(c, [cs[c] EXCEPT !.pc = "req_put"])

\* and puts it on the writer queue, with a timeout
RequestPut(c) ==
  /\ CanRun(c) /\ ~Fatal /\ cs[c].pc = "req_put"
  /\ Len(writerQueue) < WriterQueueSize
  /\ writerQueue' = Append(writerQueue, Packet(cs[c].id, cs[c].call))
  /\ UNCHANGED <<stream, sockUp, wire, unflushed, server, freePackets, created,
                 acquired, active, activeCnt, rpStopEvent, writerStopEvent,
                 readerQueue, rl, wr, failedAsserts, calls, socketFailures>>
  /\ CallerGoto(c, [cs[c] EXCEPT !.pc = "resp_get"])

\* defect variant of RequestPutTimeout: the packet that was not put leaks
RequestPutTimeoutLeak(c) ==
  /\ running = NoFiber /\ ~Fatal /\ cs[c].pc = "req_put"
  /\ Len(writerQueue) >= WriterQueueSize
  /\ UNCHANGED <<stream, sockUp, wire, unflushed, server, writerQueue,
                 freePackets, created, writerStopEvent, readerQueue, wr,
                 calls, socketFailures>>
  /\ Release(c, FALSE, 0)

RequestPutTimeout(c) ==
  /\ running = NoFiber /\ ~Fatal /\ cs[c].pc = "req_put"
  /\ Len(writerQueue) >= WriterQueueSize
  /\ freePackets' = freePackets + 1
  /\ UNCHANGED <<stream, sockUp, wire, unflushed, server, writerQueue, created,
                 writerStopEvent, readerQueue, wr, calls, socketFailures>>
  /\ Release(c, FALSE, 0)

\* defect variant of ResponseGet: the packet is released twice
ResponseGetDoubleRelease(c) ==
  LET p == Head(readerQueue[cs[c].id]) IN
  /\ CanRun(c) /\ ~Fatal /\ cs[c].pc = "resp_get"
  /\ readerQueue[cs[c].id] # <<>>
  /\ readerQueue' = [readerQueue EXCEPT ![cs[c].id] = Tail(@)]
  /\ freePackets' = freePackets + 2
  /\ UNCHANGED <<stream, sockUp, wire, unflushed, server, writerQueue, created,
                 writerStopEvent, wr, calls, socketFailures>>
  /\ Release(c, p.call # 0, p.call)

\* defect variant of ResponseGet: the END packet of a stop counts as a response
ResponseGetAnyPacket(c) ==
  LET p == Head(readerQueue[cs[c].id]) IN
  /\ CanRun(c) /\ ~Fatal /\ cs[c].pc = "resp_get"
  /\ readerQueue[cs[c].id] # <<>>
  /\ readerQueue' = [readerQueue EXCEPT ![cs[c].id] = Tail(@)]
  /\ freePackets' = freePackets + 1
  /\ UNCHANGED <<stream, sockUp, wire, unflushed, server, writerQueue, created,
                 writerStopEvent, wr, calls, socketFailures>>
  /\ Release(c, TRUE, p.call)

\* the response, or the END packet of a stop, arrives on the reader queue
ResponseGet(c) ==
  LET p == Head(readerQueue[cs[c].id]) IN
  /\ CanRun(c) /\ ~Fatal /\ cs[c].pc = "resp_get"
  /\ readerQueue[cs[c].id] # <<>>
  /\ readerQueue' = [readerQueue EXCEPT ![cs[c].id] = Tail(@)]
  /\ freePackets' = freePackets + 1
  /\ UNCHANGED <<stream, sockUp, wire, unflushed, server, writerQueue, created,
                 writerStopEvent, wr, calls, socketFailures>>
  /\ Release(c, p.call # 0, p.call)

\* the request or its response is still on its way to the caller
OnItsWay(c) ==
  LET p == Packet(cs[c].id, cs[c].call) IN
  \/ rl.pc = "push" /\ rl.pk = p
  \/ sockUp /\ p \in Range(writerQueue) \cup Range(unflushed) \cup server \cup Range(wire)

ResponseTimeout(c) ==
  /\ ResponseTimeouts \/ ~OnItsWay(c)
  /\ running = NoFiber /\ ~Fatal /\ cs[c].pc = "resp_get"
  /\ readerQueue[cs[c].id] = <<>>
  /\ UNCHANGED <<stream, sockUp, wire, unflushed, server, writerQueue,
                 freePackets, created, writerStopEvent, readerQueue, wr,
                 calls, socketFailures>>
  /\ Release(c, FALSE, 0)

-----------------------------------------------------------------------------
(* The reader loop of mrpc_client_stream_processor_process_stream, and     *)
(* what it does when the loop ends.                                         *)

RlVars == <<sockUp, unflushed, server, writerQueue, created, acquired, active,
            activeCnt, cs, wr, calls, socketFailures>>

\* ff_pool_acquire_entry of a packet for the next read
RlAcquire ==
  /\ CanRun(Reader) /\ ~Fatal /\ rl.pc = "acq" /\ freePackets > 0
  /\ freePackets' = freePackets - 1
  /\ UNCHANGED <<stream, wire, rpStopEvent, writerStopEvent, readerQueue,
                 failedAsserts>> /\ UNCHANGED RlVars
  /\ RlGoto([rl EXCEPT !.pc = "read"])

\* mrpc_packet_read_from_stream returns a packet; it goes to the request
\* processor in its id's active slot, or the loop ends when the slot is NULL
RlRead ==
  LET p == Head(wire) IN
  /\ CanRun(Reader) /\ ~Fatal /\ rl.pc = "read" /\ sockUp /\ wire # <<>>
  /\ wire' = Tail(wire)
  /\ UNCHANGED <<stream, rpStopEvent, writerStopEvent, readerQueue,
                 failedAsserts>> /\ UNCHANGED RlVars
  /\ IF p.rid \in active
     THEN /\ UNCHANGED freePackets
          /\ RlGoto([rl EXCEPT !.pc = "push", !.pk = p])
     ELSE /\ freePackets' = freePackets + 1
          /\ RlGoto([rl EXCEPT !.pc = "stop"])

\* the read fails on a disconnected or failed socket: the loop ends
RlReadFail ==
  /\ CanRun(Reader) /\ ~Fatal /\ rl.pc = "read" /\ ~sockUp
  /\ freePackets' = freePackets + 1
  /\ UNCHANGED <<stream, wire, rpStopEvent, writerStopEvent, readerQueue,
                 failedAsserts>> /\ UNCHANGED RlVars
  /\ RlGoto([rl EXCEPT !.pc = "stop"])

\* mrpc_client_request_processor_push_packet: a blocking put, no timeout
RlPush ==
  LET id == rl.pk.rid IN
  /\ CanRun(Reader) /\ ~Fatal /\ rl.pc = "push"
  /\ Len(readerQueue[id]) < ReaderQueueSize
  /\ readerQueue' = [readerQueue EXCEPT ![id] = Append(@, rl.pk)]
  /\ UNCHANGED <<stream, wire, freePackets, rpStopEvent, writerStopEvent,
                 failedAsserts>> /\ UNCHANGED RlVars
  /\ RlGoto([rl EXCEPT !.pc = "acq"])

\* mrpc_client_stream_processor_stop_async: ff_stream_disconnect and NULL,
\* unless the stream is NULL already
StopAsync ==
  /\ stream' = FALSE
  /\ sockUp' = (sockUp /\ ~stream)

\* the loop has ended: stop_async, then ff_pool_for_each_entry of
\* stop_all_request_processors starts over the entries the pool has
RlStop ==
  /\ CanRun(Reader) /\ ~Fatal /\ rl.pc = "stop"
  /\ StopAsync
  /\ UNCHANGED <<wire, unflushed, server, writerQueue, freePackets, created,
                 acquired, active, activeCnt, rpStopEvent, writerStopEvent,
                 readerQueue, cs, wr, failedAsserts, calls, socketFailures>>
  /\ RlGoto([rl EXCEPT !.pc = "foreach", !.todo = created])

\* stop_request_processor visits the next entry; an acquired one is stopped
\* (mrpc_client_request_processor_stop_async)
RlVisit ==
  LET id == Min(rl.todo) IN
  /\ CanRun(Reader) /\ ~Fatal /\ rl.pc = "foreach" /\ rl.todo # {}
  /\ UNCHANGED <<stream, wire, freePackets, rpStopEvent, writerStopEvent,
                 readerQueue, failedAsserts>> /\ UNCHANGED RlVars
  /\ IF id \in acquired
     THEN RlGoto([rl EXCEPT !.pc = "stop_acq", !.pk = EndPacket(id),
                            !.todo = @ \ {id}])
     ELSE RlGoto([rl EXCEPT !.todo = @ \ {id}])

\* the stopped processor's packet stream disconnects: it takes a packet for
\* the END it pushes ...
RlStopAcquire ==
  /\ CanRun(Reader) /\ ~Fatal /\ rl.pc = "stop_acq" /\ freePackets > 0
  /\ freePackets' = freePackets - 1
  /\ UNCHANGED <<stream, wire, rpStopEvent, writerStopEvent, readerQueue,
                 failedAsserts>> /\ UNCHANGED RlVars
  /\ RlGoto([rl EXCEPT !.pc = "stop_put"])

\* ... and puts it on its reader queue, with no timeout
RlStopPut ==
  LET id == rl.pk.rid IN
  /\ CanRun(Reader) /\ ~Fatal /\ rl.pc = "stop_put"
  /\ Len(readerQueue[id]) < ReaderQueueSize
  /\ readerQueue' = [readerQueue EXCEPT ![id] = Append(@, rl.pk)]
  /\ UNCHANGED <<stream, wire, freePackets, rpStopEvent, writerStopEvent,
                 failedAsserts>> /\ UNCHANGED RlVars
  /\ RlGoto([rl EXCEPT !.pc = "foreach"])

\* for_each is over: ff_event_wait on the request processors stop event
RlForEachDone ==
  /\ CanRun(Reader) /\ ~Fatal /\ rl.pc = "foreach" /\ rl.todo = {}
  /\ UNCHANGED <<stream, wire, freePackets, rpStopEvent, writerStopEvent,
                 readerQueue, failedAsserts>> /\ UNCHANGED RlVars
  /\ RlGoto([rl EXCEPT !.pc = "wait_rp"])

\* defect variant of RlWaitProcessors: the loop does not wait for the event
RlWaitProcessorsNoWait ==
  /\ CanRun(Reader) /\ ~Fatal /\ rl.pc = "wait_rp"
  /\ UNCHANGED <<stream, wire, freePackets, rpStopEvent, writerStopEvent,
                 readerQueue, failedAsserts>> /\ UNCHANGED RlVars
  /\ RlGoto([rl EXCEPT !.pc = "stop_writer"])

\* the auto-reset event wakes the loop; it asserts no processor is active
\* (lines 255 and 343), then stop_stream_writer puts the NULL packet
RlWaitProcessors ==
  /\ CanRun(Reader) /\ ~Fatal
  /\ \/ rl.pc = "wait_rp" /\ rpStopEvent /\ rpStopEvent' = FALSE
     \/ rl.pc = "rp_woken" /\ UNCHANGED rpStopEvent
  /\ Check(activeCnt = 0, "stop_all_drained")
  /\ UNCHANGED <<stream, wire, freePackets, writerStopEvent, readerQueue>>
  /\ UNCHANGED RlVars
  /\ RlGoto([rl EXCEPT !.pc = "stop_writer"])

RlStopWriter ==
  /\ CanRun(Reader) /\ ~Fatal /\ rl.pc = "stop_writer"
  /\ Len(writerQueue) < WriterQueueSize
  /\ writerQueue' = Append(writerQueue, Stop)
  /\ UNCHANGED <<stream, sockUp, wire, unflushed, server, freePackets, created,
                 acquired, active, activeCnt, rpStopEvent, writerStopEvent,
                 readerQueue, cs, wr, failedAsserts, calls, socketFailures>>
  /\ RlGoto([rl EXCEPT !.pc = "wait_writer"])

\* ff_event_wait on the writer stop event; process_stream returns
RlWaitWriter ==
  /\ CanRun(Reader) /\ ~Fatal /\ rl.pc = "wait_writer" /\ writerStopEvent
  /\ writerStopEvent' = FALSE
  /\ UNCHANGED <<stream, wire, freePackets, rpStopEvent, readerQueue,
                 failedAsserts>> /\ UNCHANGED RlVars
  /\ RlGoto([rl EXCEPT !.pc = "done"])

-----------------------------------------------------------------------------
(* stream_writer_func, the writer fiber.                                    *)

WrVars == <<wire, created, acquired, active, activeCnt, rpStopEvent,
            readerQueue, cs, rl, calls, socketFailures>>

\* defect variant of WrStopped: the writer stop event is not set
WrStoppedNoEvent ==
  /\ writerQueue' = Tail(writerQueue)
  /\ Check(Tail(writerQueue) = <<>>, "writer_queue_empty")
  /\ UNCHANGED writerStopEvent
  /\ wr' = "done"
  /\ running' = NoFiber

\* the NULL packet ends the loop: assert the queue is empty, set the event
WrStopped ==
  /\ writerQueue' = Tail(writerQueue)
  /\ Check(Tail(writerQueue) = <<>>, "writer_queue_empty")
  /\ writerStopEvent' = TRUE
  /\ wr' = "done"
  /\ running' = NoFiber

\* a packet is written to stream_processor->stream and released; the stream
\* is flushed when the queue is then empty; a failure stops the connection
\* and the fiber goes on to skip_writer_queue_packets
WriterGet ==
  LET p == Head(writerQueue)
      written == Append(unflushed, p)
      flush == Tail(writerQueue) = <<>>
  IN
  /\ CanRun(Writer) /\ ~Fatal /\ wr = "get" /\ writerQueue # <<>>
  /\ UNCHANGED WrVars
  /\ IF p = Stop
     THEN /\ WrStopped
          /\ UNCHANGED <<stream, sockUp, unflushed, server, freePackets>>
     ELSE /\ writerQueue' = Tail(writerQueue)
          /\ freePackets' = freePackets + 1
          /\ UNCHANGED writerStopEvent
          /\ CASE ~stream ->
                    \* the stream field was set to NULL by stop_async
                    /\ failedAsserts' = failedAsserts \cup {"null_deref"}
                    /\ UNCHANGED <<stream, sockUp, unflushed, server, wr>>
                    /\ running' = NoFiber
               [] ~sockUp ->
                    /\ StopAsync
                    /\ UNCHANGED <<unflushed, server, failedAsserts>>
                    /\ WrGoto("skip")
               [] OTHER ->
                    /\ unflushed' = IF flush THEN <<>> ELSE written
                    /\ server' = IF flush THEN server \cup Range(written) ELSE server
                    /\ UNCHANGED <<stream, sockUp, failedAsserts>>
                    /\ WrGoto("get")

\* skip_writer_queue_packets: release every packet up to the NULL one
WriterSkip ==
  /\ CanRun(Writer) /\ ~Fatal /\ wr = "skip" /\ writerQueue # <<>>
  /\ UNCHANGED WrVars /\ UNCHANGED <<stream, sockUp, unflushed, server>>
  /\ IF Head(writerQueue) = Stop
     THEN /\ WrStopped
          /\ UNCHANGED freePackets
     ELSE /\ writerQueue' = Tail(writerQueue)
          /\ freePackets' = freePackets + 1
          /\ UNCHANGED <<writerStopEvent, failedAsserts>>
          /\ WrGoto("skip")

-----------------------------------------------------------------------------
(* The server and the socket.                                              *)

\* the server answers one of the requests it received, in any order
ServerAnswer ==
  /\ running = NoFiber /\ ~Fatal /\ sockUp
  /\ \E r \in server :
       /\ server' = server \ {r}
       /\ wire' = Append(wire, r)
  /\ UNCHANGED <<stream, sockUp, unflushed, writerQueue, freePackets, created,
                 acquired, active, activeCnt, rpStopEvent, writerStopEvent,
                 readerQueue, cs, rl, wr, running, failedAsserts, calls,
                 socketFailures>>

\* the connection breaks: every later socket read or write fails
SocketFail ==
  /\ SocketMayFail /\ socketFailures = 0
  /\ running = NoFiber /\ ~Fatal /\ sockUp
  /\ sockUp' = FALSE
  /\ socketFailures' = 1
  /\ UNCHANGED <<stream, wire, unflushed, server, writerQueue, freePackets,
                 created, acquired, active, activeCnt, rpStopEvent,
                 writerStopEvent, readerQueue, cs, rl, wr, running,
                 failedAsserts, calls>>

-----------------------------------------------------------------------------
(* process_stream has set the stream, started the writer and set the       *)
(* request processors stop event (lines 312-314).                           *)

Init ==
  /\ stream = TRUE
  /\ sockUp = TRUE
  /\ wire = <<>>
  /\ unflushed = <<>>
  /\ server = {}
  /\ writerQueue = <<>>
  /\ freePackets = PacketsCnt
  /\ created = {}
  /\ acquired = {}
  /\ active = {}
  /\ activeCnt = 0
  /\ rpStopEvent = TRUE
  /\ writerStopEvent = FALSE
  /\ readerQueue = [id \in Ids |-> <<>>]
  /\ cs = [c \in Callers |-> CallerIdle]
  /\ rl = [pc |-> "acq", pk |-> Packet(0, 0), todo |-> {}]
  /\ wr = "get"
  /\ running = NoFiber
  /\ failedAsserts = {}
  /\ calls = 0
  /\ socketFailures = 0

\* no call is left to make and the connection idles, or everything stopped
Quiescent ==
  /\ \A c \in Callers : cs[c].pc = "idle"
  /\ \/ /\ calls = MaxCalls /\ rl.pc = "read" /\ sockUp /\ wire = <<>>
        /\ server = {} /\ writerQueue = <<>>
        /\ ~(SocketMayFail /\ socketFailures = 0)
     \/ rl.pc = "done" /\ wr = "done"

\* the steps of a call after invoke_rpc has begun; the timeouts are the
\* timers of the request processor's queue operations
CallerStep(c) ==
  \/ AcquireProcessor(c)
  \/ RequestAcquire(c) \/ RequestPut(c) \/ RequestPutTimeout(c)
  \/ ResponseGet(c) \/ ResponseTimeout(c)

ReaderStep ==
  \/ RlAcquire \/ RlRead \/ RlReadFail \/ RlPush \/ RlStop
  \/ RlVisit \/ RlStopAcquire \/ RlStopPut \/ RlForEachDone
  \/ RlWaitProcessors \/ RlStopWriter \/ RlWaitWriter

WriterStep == WriterGet \/ WriterSkip

Next ==
  \/ \E c \in Callers : InvokeRpc(c) \/ CallerStep(c)
  \/ ReaderStep \/ WriterStep
  \/ ServerAnswer \/ SocketFail
  \/ (Quiescent \/ Fatal) /\ UNCHANGED vars

Spec == Init /\ [][Next]_vars

(* The ff core resumes every fiber whose wait is over and fires every      *)
(* expired timer, so each fiber that can step eventually does; the server  *)
(* answers every request it has received. Making a call, and the socket    *)
(* failing, are left free.                                                  *)
Fairness ==
  /\ \A c \in Callers : WF_vars(CallerStep(c))
  /\ WF_vars(ReaderStep) /\ WF_vars(WriterStep) /\ WF_vars(ServerAnswer)

FairSpec == Spec /\ Fairness

-----------------------------------------------------------------------------
(* Properties.                                                             *)

Packets == [rid : Ids, call : 0..MaxCalls]
Steps == {"idle", "rp_acq", "req_acq", "req_put", "resp_get"}
RlSteps == {"acq", "read", "push", "stop", "foreach", "stop_acq", "stop_put",
            "wait_rp", "rp_woken", "stop_writer", "wait_writer", "done"}

TypeOK ==
  /\ stream \in BOOLEAN /\ sockUp \in BOOLEAN
  /\ wire \in Seq(Packets) /\ unflushed \in Seq(Packets) /\ server \subseteq Packets
  /\ writerQueue \in Seq(Packets \cup {Stop})
  /\ freePackets \in 0..PacketsCnt
  /\ acquired \subseteq created /\ created \subseteq Ids /\ active \subseteq Ids
  /\ activeCnt \in 0..MaxProcessors
  /\ readerQueue \in [Ids -> Seq(Packets)]
  /\ \A c \in Callers : cs[c].pc \in Steps /\ cs[c].id \in Ids
  /\ rl.pc \in RlSteps /\ rl.todo \subseteq Ids /\ rl.pk \in Packets
  /\ wr \in {"get", "skip", "done"}
  /\ running \in Fibers \cup {NoFiber}

\* packets held by a fiber between taking them from the pool and handing
\* them on
Held ==
  Cardinality({c \in Callers : cs[c].pc = "req_put"})
  + (IF rl.pc \in {"read", "push", "stop_put"} THEN 1 ELSE 0)

InQueues ==
  Len(SelectSeq(writerQueue, LAMBDA p : p # Stop))
  + FoldFunction(LAMBDA q, acc : Len(q) + acc, 0, readerQueue)

(* Every packet of the packets pool is free, queued once, or held by one   *)
(* fiber: the reader loop's pre-acquired packet, a request on its way to   *)
(* the writer queue, a stop's END packet. A packet the writer, a timed-out *)
(* put, a response read or skip_writer_queue_packets fails to release, or  *)
(* releases twice, breaks the count.                                       *)
PacketsConserved == freePackets + InQueues + Held = PacketsCnt

(* A call that invoke_rpc reports successful got the response to its own   *)
(* request: the reader loop dispatches by the request id alone, and the    *)
(* request processor holding that id may by then serve a later call.       *)
ResponseToOwnCall ==
  \A c \in Callers : cs[c].pc = "idle" /\ cs[c].ok => cs[c].got = cs[c].call

(* When process_stream returns, no request processor is active and the    *)
(* writer queue is empty: the count is 0 as process_stream and delete      *)
(* assert (lines 295, 310), and no request is left behind the writer that  *)
(* has stopped. A caller that passed invoke_rpc's stream check before the  *)
(* stop and waited in the request processors pool can break this.         *)
ProcessStreamReturnsDrained ==
  rl.pc = "done" => activeCnt = 0 /\ writerQueue = <<>>

(* The writer fiber never writes to stream_processor->stream after         *)
(* stop_async has set it to NULL.                                           *)
NoNullDereference == "null_deref" \notin failedAsserts

(* Once stop_async has set the stream to NULL (the reader loop ended, or    *)
(* the writer failed), process_stream eventually returns: every acquired   *)
(* request processor is stopped and released, the stop event wakes the     *)
(* loop, and the writer fiber takes the NULL packet and sets its event;    *)
(* unless a NULL dereference has ended the process.                         *)
StopReturns == ~stream ~> (rl.pc = "done" \/ Fatal)

(* Every invoke_rpc that has begun eventually returns: no wait without a   *)
(* timeout, in the request processors pool or the packets pool, lasts     *)
(* forever.                                                                 *)
EveryCallReturns ==
  \A c \in Callers : cs[c].pc # "idle" ~> (cs[c].pc = "idle" \/ Fatal)

(* No assertion of the connection processor fails.                          *)
AssertionsHold == failedAsserts = {}
=============================================================================
