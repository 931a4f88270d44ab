---------------------------- MODULE PacketStream ----------------------------
(***************************************************************************)
(* The per-call fragmentation/reassembly engine of src/src/                *)
(* mrpc_packet_stream.c, driven by the fibers that use it:                 *)
(*   - Caller(s): the request processor that owns stream s and calls       *)
(*     initialize, read, write, flush and shutdown on it;                  *)
(*   - Stopper(s): the stop path that calls disconnect on s;               *)
(*   - Reader: the connection's reader loop, which acquires a packet     *)
(*     from the pool, receives it and hands it to push_packet;             *)
(*   - Writer: the connection's writer fiber, which takes packets off    *)
(*     the shared writer queue, writes them and returns them to the pool.  *)
(*                                                                         *)
(* Scheduling is cooperative (spec section 5): a fiber runs until it       *)
(* blocks on a queue or on the pool. `running` is the fiber that holds the *)
(* processor between two suspension points; it is NoFiber when every fiber *)
(* is suspended or between calls.                                          *)
(*                                                                         *)
(* Payload bytes are abstract: byte i of the peer's k-th message to a      *)
(* stream is <<k, i>>, byte i written by the caller is <<0, i>>.           *)
(***************************************************************************)
EXTENDS Naturals, Sequences, FiniteSets, SequencesExt

CONSTANTS
  Streams,          \* the packet streams (one per request processor)
  Handles,          \* the entries of the packets pool
  Capacity,         \* payload capacity of one packet
  ReaderQueueSize,  \* MAX_READER_QUEUE_SIZE
  WriterQueueSize,  \* MAX_WRITER_QUEUE_SIZE
  Ids,              \* request ids a caller may bind a stream to
  MsgLens,          \* lengths of the messages the peer sends
  MaxMsgs,          \* bound: messages the peer sends to one stream
  ChunkLens,        \* lengths passed to one read or write call
  MaxWritten,       \* bound: bytes the caller writes per call
  MaxCalls,         \* bound: initialize calls per stream
  MaxDisconnects,   \* bound: disconnect calls per stream
  DebugBuild,       \* TRUE: a failed ff_assert aborts the program
  DisconnectAnytime,\* TRUE: the stop path may disconnect a stream at any time
  NoPacket,         \* the NULL packet pointer
  NoFiber           \* no fiber holds the processor

ASSUME /\ Capacity \in Nat \ {0}
       /\ ReaderQueueSize \in Nat \ {0} /\ WriterQueueSize \in Nat \ {0}
       /\ NoPacket \notin Handles
       /\ DebugBuild \in BOOLEAN /\ DisconnectAnytime \in BOOLEAN

START == "START"
MIDDLE == "MIDDLE"
END == "END"
SINGLE == "SINGLE"
PacketTypes == {START, MIDDLE, END, SINGLE}

Caller(s)  == <<"caller", s>>
Stopper(s) == <<"stopper", s>>
Reader == <<"reader", "connection">>
Writer == <<"writer", "connection">>
Fibers == {Caller(s) : s \in Streams} \cup {Stopper(s) : s \in Streams}
            \cup {Reader, Writer}
StreamOf(f) == f[2]

VARIABLES
  pool,          \* free entries of the packets pool
  packet,        \* contents of every packet: request id, type, data, read position
  readerQueue,   \* per stream: reader_queue
  writerQueue,   \* the connection's writer_queue, shared by all streams
  curRead,       \* per stream: current_read_packet
  curWrite,      \* per stream: current_write_packet
  requestId,     \* per stream: request_id (0 is also the "unbound" value)
  fs,            \* per fiber: the call in progress and where it is suspended
  rl,            \* the reader loop: the packet it holds and for which stream
  peer,          \* per stream: packets of the peer's current message not yet received
  running,       \* the fiber between two suspension points, or NoFiber
  failedAsserts, \* ff_assert sites whose condition was found false
  \* history variables, read only by the properties
  msgs,          \* per stream: messages the peer has started
  calls,         \* per stream: initialize calls made
  callId,        \* per stream: the request id of the current call
  callMsg,       \* per stream: the message whose first packet initialize accepted
  got,           \* per stream: bytes returned by read calls since initialize
  readFailed,    \* per stream: a read failed since initialize
  written,       \* per stream: bytes copied into write packets since initialize
  writeFailed,   \* per stream: a write or flush failed since initialize
  sent,          \* per stream: packets put on the writer queue since initialize
  flushed,       \* per stream: a flush put its last packet since initialize
  discs          \* per stream: disconnect calls made

vars == <<pool, packet, readerQueue, writerQueue, curRead, curWrite, requestId,
          fs, rl, peer, running, failedAsserts, msgs, calls, callId, callMsg,
          got, readFailed, written, writeFailed, sent, flushed, discs>>

Bytes == (0..MaxMsgs) \X (1..(MaxWritten * MaxCalls + Max(MsgLens)))
EmptyPacket == [rid |-> 0, type |-> START, data |-> <<>>, pos |-> 0, msg |-> 0]
Idle == [op |-> "none", step |-> "none", n |-> 0, h |-> NoPacket, ok |-> FALSE]

-----------------------------------------------------------------------------
(* Reference fragmentation: a message of length L is one SINGLE packet if  *)
(* L =< Capacity, else START, MIDDLE*, END with every packet but the last  *)
(* full.                                                                   *)
RECURSIVE Chunks(_)
Chunks(b) == IF Len(b) =< Capacity THEN <<b>>
             ELSE <<SubSeq(b, 1, Capacity)>> \o Chunks(SubSeq(b, Capacity + 1, Len(b)))

Fragment(b, rid) ==
  LET cs == Chunks(b)
      TypeAt(i) == IF Len(cs) = 1 THEN SINGLE
                   ELSE IF i = 1 THEN START
                   ELSE IF i = Len(cs) THEN END ELSE MIDDLE
  IN [i \in 1..Len(cs) |-> [rid |-> rid, type |-> TypeAt(i), data |-> cs[i]]]

Msg(k, L) == [i \in 1..L |-> <<k, i>>]

-----------------------------------------------------------------------------
(* Scheduling and assertion helpers.                                       *)

\* fiber f may take a step: nobody else is between two suspension points
CanRun(f) == running \in {NoFiber, f}

\* a failed assertion aborts a debug build; dereferencing NULL aborts any build
Fatal == IF DebugBuild THEN failedAsserts # {} ELSE "null_deref" \in failedAsserts
Check(cond, site) ==
  failedAsserts' = IF cond THEN failedAsserts ELSE failedAsserts \cup {site}

\* would fiber f, suspended at `step`, be woken at once in the next state?
Ready(f, step) ==
  CASE step \in {"read_get", "init_get"} -> readerQueue'[StreamOf(f)] # <<>>
    [] step \in {"write_put", "flush_put"} -> Len(writerQueue') < WriterQueueSize
    [] step = "disc_push" -> Len(readerQueue'[StreamOf(f)]) < ReaderQueueSize
    [] OTHER -> pool' # {}

\* f continues at `step`; it keeps the processor unless it has to block there
Goto(f, rec) ==
  /\ fs' = [fs EXCEPT ![f] = rec]
  /\ running' = IF Ready(f, rec.step) THEN f ELSE NoFiber

\* f returns from its call with result ok and yields
Return(f, ok) ==
  /\ fs' = [fs EXCEPT ![f] = [Idle EXCEPT !.ok = ok]]
  /\ running' = NoFiber

\* the windows in which the stop path may disconnect a stream: it is bound
\* and its caller is between calls or blocked reading; a caller then waits
\* for the disconnect to finish before it writes, flushes or shuts down
DisconnectSafe(s) ==
  curWrite[s] # NoPacket /\ fs[Caller(s)].op \in {"none", "read"}
CallerMayWrite(s) == DisconnectAnytime \/ fs[Stopper(s)].op = "none"

\* stop_request_processor disconnects every acquired request processor,
\* whatever its caller is doing: with DisconnectAnytime, at any suspension
\* point inside one of the caller's calls on the stream
DisconnectWindow(s) ==
  IF DisconnectAnytime THEN fs[Caller(s)].op # "none" ELSE DisconnectSafe(s)

\* release_packet: mrpc_packet_reset and back to the pool
Released(pk, hs) == [h \in DOMAIN pk |-> IF h \in hs THEN EmptyPacket ELSE pk[h]]

\* acquire_packet(stream, type): a pool entry tagged with the stream's id and type
Tagged(pk, h, s, type) ==
  [pk EXCEPT ![h] = [EmptyPacket EXCEPT !.rid = requestId[s], !.type = type]]

\* mrpc_packet_write_data: as many of n bytes as fit; returns the new packet
\* and the number of bytes copied
WriteData(p, s, n) ==
  LET k == IF n =< Capacity - Len(p.data) THEN n ELSE Capacity - Len(p.data)
  IN <<[p EXCEPT !.data = @ \o [i \in 1..k |-> <<0, Len(written[s]) + i>>]], k>>

\* mrpc_packet_read_data: as many of n bytes as are left
ReadData(p, n) ==
  LET k == IF n =< Len(p.data) - p.pos THEN n ELSE Len(p.data) - p.pos
  IN SubSeq(p.data, p.pos + 1, p.pos + k)


-----------------------------------------------------------------------------
(* mrpc_packet_stream_initialize: bind the stream to request id `id`, then *)
(* prefetch_current_read_packet: wait for the first packet of the call.    *)
Initialize(s, id) ==
  LET f == Caller(s) IN
  /\ CanRun(f) /\ ~Fatal
  /\ fs[f].op = "none" /\ curRead[s] = NoPacket /\ calls[s] < MaxCalls
  /\ Check(curWrite[s] = NoPacket /\ requestId[s] = 0, "initialize_unbound")
  /\ requestId' = [requestId EXCEPT ![s] = id]
  /\ calls' = [calls EXCEPT ![s] = @ + 1]
  /\ callId' = [callId EXCEPT ![s] = id]
  /\ callMsg' = [callMsg EXCEPT ![s] = 0]
  /\ got' = [got EXCEPT ![s] = <<>>]
  /\ written' = [written EXCEPT ![s] = <<>>]
  /\ sent' = [sent EXCEPT ![s] = <<>>]
  /\ readFailed' = [readFailed EXCEPT ![s] = FALSE]
  /\ writeFailed' = [writeFailed EXCEPT ![s] = FALSE]
  /\ flushed' = [flushed EXCEPT ![s] = FALSE]
  /\ UNCHANGED <<pool, packet, readerQueue, writerQueue, curRead, curWrite, rl,
                 peer, msgs, discs>>
  /\ Goto(f, [Idle EXCEPT !.op = "init", !.step = "init_get"])

\* the first packet starts a message: keep it, then acquire_current_write_packet
InitAccept(s) ==
  LET f == Caller(s)  h == Head(readerQueue[s]) IN
  /\ CanRun(f) /\ ~Fatal /\ fs[f].step = "init_get"
  /\ readerQueue[s] # <<>> /\ packet[h].type \in {START, SINGLE}
  /\ readerQueue' = [readerQueue EXCEPT ![s] = Tail(@)]
  /\ curRead' = [curRead EXCEPT ![s] = h]
  /\ callMsg' = [callMsg EXCEPT ![s] = packet[h].msg]
  /\ UNCHANGED <<pool, packet, writerQueue, curWrite, requestId, rl, peer,
                 failedAsserts, msgs, calls, callId, got, readFailed, written,
                 writeFailed, sent, flushed, discs>>
  /\ Goto(f, [fs[f] EXCEPT !.step = "init_acq"])

\* the first packet continues some other message: release it and fail
InitReject(s) ==
  LET f == Caller(s)  h == Head(readerQueue[s]) IN
  /\ CanRun(f) /\ ~Fatal /\ fs[f].step = "init_get"
  /\ readerQueue[s] # <<>> /\ packet[h].type \notin {START, SINGLE}
  /\ readerQueue' = [readerQueue EXCEPT ![s] = Tail(@)]
  /\ pool' = pool \cup {h}
  /\ packet' = Released(packet, {h})
  /\ UNCHANGED <<writerQueue, curRead, curWrite, requestId, rl, peer,
                 failedAsserts, msgs, calls, callId, callMsg, got, readFailed,
                 written, writeFailed, sent, flushed, discs>>
  /\ Return(f, FALSE)

\* READ_TIMEOUT expires with no packet
InitTimeout(s) ==
  LET f == Caller(s) IN
  /\ running = NoFiber /\ ~Fatal /\ fs[f].step = "init_get"
  /\ readerQueue[s] = <<>>
  /\ UNCHANGED <<pool, packet, readerQueue, writerQueue, curRead, curWrite,
                 requestId, rl, peer, failedAsserts, msgs, calls, callId,
                 callMsg, got, readFailed, written, writeFailed, sent, flushed,
                 discs>>
  /\ Return(f, FALSE)

\* acquire_current_write_packet: a START packet from the pool
InitAcquire(s) ==
  LET f == Caller(s) IN \E h \in pool :
  /\ CanRun(f) /\ ~Fatal /\ fs[f].step = "init_acq" /\ pool # {}
  /\ pool' = pool \ {h}
  /\ packet' = Tagged(packet, h, s, START)
  /\ curWrite' = [curWrite EXCEPT ![s] = h]
  /\ UNCHANGED <<readerQueue, writerQueue, curRead, requestId, rl, peer,
                 failedAsserts, msgs, calls, callId, callMsg, got, readFailed,
                 written, writeFailed, sent, flushed, discs>>
  /\ Return(f, TRUE)

-----------------------------------------------------------------------------
(* mrpc_packet_stream_read: copy n bytes, moving on to the next packet of  *)
(* the message whenever the current one is used up.                        *)

\* defect variant of ReadFrom: the read position advances by the bytes
\* requested instead of the bytes copied
ReadFromOverrun(f, s, pk, h, n) ==
  LET bytes == ReadData(pk[h], n)
      left == n - Len(bytes)
      last == pk[h].type \in {SINGLE, END}
  IN
  /\ packet' = [pk EXCEPT ![h].pos = @ + n]
  /\ got' = [got EXCEPT ![s] = @ \o bytes]
  /\ readFailed' = [readFailed EXCEPT ![s] = @ \/ (left > 0 /\ last)]
  /\ IF left = 0 THEN Return(f, TRUE)
     ELSE IF last THEN Return(f, FALSE)
     ELSE Goto(f, [Idle EXCEPT !.op = "read", !.step = "read_get", !.n = left])

\* the loop body of read on packet h of the packet function pk
ReadFrom(f, s, pk, h, n) ==
  LET bytes == ReadData(pk[h], n)
      left == n - Len(bytes)
      last == pk[h].type \in {SINGLE, END}
  IN
  /\ packet' = [pk EXCEPT ![h].pos = @ + Len(bytes)]
  /\ got' = [got EXCEPT ![s] = @ \o bytes]
  /\ readFailed' = [readFailed EXCEPT ![s] = @ \/ (left > 0 /\ last)]
  /\ IF left = 0 THEN Return(f, TRUE)
     ELSE IF last THEN Return(f, FALSE)
     ELSE Goto(f, [Idle EXCEPT !.op = "read", !.step = "read_get", !.n = left])

Read(s, n) ==
  LET f == Caller(s) IN
  /\ CanRun(f) /\ ~Fatal /\ fs[f].op = "none" /\ curRead[s] # NoPacket
  /\ UNCHANGED <<pool, readerQueue, writerQueue, curRead, curWrite, requestId,
                 rl, peer, failedAsserts, msgs, calls, callId, callMsg, written,
                 writeFailed, sent, flushed, discs>>
  /\ ReadFrom(f, s, packet, curRead[s], n)

\* defect variant of ReadAccept: the type of the next packet is not checked
ReadAcceptAnyType(s) ==
  LET f == Caller(s)  h == Head(readerQueue[s])  old == curRead[s] IN
  /\ CanRun(f) /\ ~Fatal /\ fs[f].step = "read_get"
  /\ readerQueue[s] # <<>>
  /\ readerQueue' = [readerQueue EXCEPT ![s] = Tail(@)]
  /\ pool' = pool \cup {old}
  /\ curRead' = [curRead EXCEPT ![s] = h]
  /\ UNCHANGED <<writerQueue, curWrite, requestId, rl, peer, failedAsserts,
                 msgs, calls, callId, callMsg, written, writeFailed, sent,
                 flushed, discs>>
  /\ ReadFrom(f, s, Released(packet, {old}), h, fs[f].n)

\* the next packet continues the message: it replaces the current one
ReadAccept(s) ==
  LET f == Caller(s)  h == Head(readerQueue[s])  old == curRead[s] IN
  /\ CanRun(f) /\ ~Fatal /\ fs[f].step = "read_get"
  /\ readerQueue[s] # <<>> /\ packet[h].type \notin {START, SINGLE}
  /\ readerQueue' = [readerQueue EXCEPT ![s] = Tail(@)]
  /\ pool' = pool \cup {old}
  /\ curRead' = [curRead EXCEPT ![s] = h]
  /\ UNCHANGED <<writerQueue, curWrite, requestId, rl, peer, failedAsserts,
                 msgs, calls, callId, callMsg, written, writeFailed, sent,
                 flushed, discs>>
  /\ ReadFrom(f, s, Released(packet, {old}), h, fs[f].n)

\* the next packet starts a new message: release it and fail
ReadReject(s) ==
  LET f == Caller(s)  h == Head(readerQueue[s]) IN
  /\ CanRun(f) /\ ~Fatal /\ fs[f].step = "read_get"
  /\ readerQueue[s] # <<>> /\ packet[h].type \in {START, SINGLE}
  /\ readerQueue' = [readerQueue EXCEPT ![s] = Tail(@)]
  /\ pool' = pool \cup {h}
  /\ packet' = Released(packet, {h})
  /\ readFailed' = [readFailed EXCEPT ![s] = TRUE]
  /\ UNCHANGED <<writerQueue, curRead, curWrite, requestId, rl, peer,
                 failedAsserts, msgs, calls, callId, callMsg, got, written,
                 writeFailed, sent, flushed, discs>>
  /\ Return(f, FALSE)

ReadTimeout(s) ==
  LET f == Caller(s) IN
  /\ running = NoFiber /\ ~Fatal /\ fs[f].step = "read_get"
  /\ readerQueue[s] = <<>>
  /\ readFailed' = [readFailed EXCEPT ![s] = TRUE]
  /\ UNCHANGED <<pool, packet, readerQueue, writerQueue, curRead, curWrite,
                 requestId, rl, peer, failedAsserts, msgs, calls, callId,
                 callMsg, got, written, writeFailed, sent, flushed, discs>>
  /\ Return(f, FALSE)

-----------------------------------------------------------------------------
(* mrpc_packet_stream_write: fill the current write packet; when bytes are *)
(* left over, put it on the writer queue and go on in a new MIDDLE packet. *)
(* The packet to put is fixed when the put starts (step h).                *)

\* the loop body of write on packet h of the packet function pk
WriteInto(f, s, pk, h, n) ==
  LET r == WriteData(pk[h], s, n)
      left == n - r[2]
  IN
  /\ packet' = [pk EXCEPT ![h] = r[1]]
  /\ written' = [written EXCEPT ![s] = @ \o SubSeq(r[1].data, Len(pk[h].data) + 1, Len(r[1].data))]
  /\ IF left = 0 THEN Return(f, TRUE)
     ELSE Goto(f, [Idle EXCEPT !.op = "write", !.step = "write_put", !.n = left, !.h = h])

Write(s, n) ==
  LET f == Caller(s)  h == curWrite[s] IN
  /\ CanRun(f) /\ ~Fatal /\ fs[f].op = "none" /\ curRead[s] # NoPacket
  /\ CallerMayWrite(s)
  /\ Len(written[s]) + n =< MaxWritten
  /\ UNCHANGED <<pool, readerQueue, writerQueue, curRead, curWrite, requestId,
                 rl, peer, msgs, calls, callId, callMsg, got, readFailed, sent,
                 flushed, discs>>
  /\ IF packet[h].type = END
     THEN /\ writeFailed' = [writeFailed EXCEPT ![s] = TRUE]
          /\ UNCHANGED <<packet, written, failedAsserts>>
          /\ Return(f, FALSE)
     ELSE /\ UNCHANGED writeFailed
          /\ Check(packet[h].type \in {START, MIDDLE}, "write_type")
          /\ WriteInto(f, s, packet, h, n)

\* ff_blocking_queue_put_with_timeout succeeds
WritePut(s) ==
  LET f == Caller(s)  h == fs[f].h IN
  /\ CanRun(f) /\ ~Fatal /\ fs[f].step = "write_put"
  /\ Len(writerQueue) < WriterQueueSize
  /\ writerQueue' = Append(writerQueue, h)
  /\ sent' = [sent EXCEPT ![s] = Append(@, [rid |-> packet[h].rid,
                                         type |-> packet[h].type,
                                         data |-> packet[h].data])]
  /\ UNCHANGED <<pool, packet, readerQueue, curRead, curWrite, requestId, rl,
                 peer, failedAsserts, msgs, calls, callId, callMsg, got,
                 readFailed, written, writeFailed, flushed, discs>>
  /\ Goto(f, [fs[f] EXCEPT !.step = "write_acq"])

\* WRITE_TIMEOUT expires on a full writer queue: the packet stays current
WriteTimeout(s) ==
  LET f == Caller(s) IN
  /\ running = NoFiber /\ ~Fatal /\ fs[f].step = "write_put"
  /\ Len(writerQueue) >= WriterQueueSize
  /\ writeFailed' = [writeFailed EXCEPT ![s] = TRUE]
  /\ UNCHANGED <<pool, packet, readerQueue, writerQueue, curRead, curWrite,
                 requestId, rl, peer, failedAsserts, msgs, calls, callId,
                 callMsg, got, readFailed, written, sent, flushed, discs>>
  /\ Return(f, FALSE)

\* acquire_packet(stream, MIDDLE) becomes the current write packet
WriteAcquire(s) ==
  LET f == Caller(s) IN \E h \in pool :
  /\ CanRun(f) /\ ~Fatal /\ fs[f].step = "write_acq" /\ pool # {}
  /\ pool' = pool \ {h}
  /\ curWrite' = [curWrite EXCEPT ![s] = h]
  /\ UNCHANGED <<readerQueue, writerQueue, curRead, requestId, rl, peer,
                 failedAsserts, msgs, calls, callId, callMsg, got, readFailed,
                 writeFailed, sent, flushed, discs>>
  /\ WriteInto(f, s, Tagged(packet, h, s, MIDDLE), h, fs[f].n)

-----------------------------------------------------------------------------
(* mrpc_packet_stream_flush, run by the caller's flush and shutdown and by *)
(* the stopper's disconnect: retype the current write packet SINGLE (no    *)
(* packet was put yet) or END, put it, then acquire_packet(stream, END) as *)
(* the new current write packet. A current packet of type END means the    *)
(* message was already flushed: nothing is put and flush returns failure.  *)

\* defect variant of FlushStart: the last packet is always retyped END
FlushStartAlwaysEnd(f, s, op) ==
  LET h == curWrite[s] IN
  /\ Check(packet[h].type \in {START, MIDDLE}, "flush_type")
  /\ packet' = [packet EXCEPT ![h].type = END]
  /\ Goto(f, [Idle EXCEPT !.op = op, !.step = "flush_put", !.h = h])

\* the part of flush before the put, for a current packet that is not END
FlushStart(f, s, op) ==
  LET h == curWrite[s] IN
  /\ Check(packet[h].type \in {START, MIDDLE}, "flush_type")
  /\ packet' = [packet EXCEPT ![h].type = IF @ = START THEN SINGLE ELSE END]
  /\ Goto(f, [Idle EXCEPT !.op = op, !.step = "flush_put", !.h = h])

Flush(s) ==
  LET f == Caller(s) IN
  /\ CanRun(f) /\ ~Fatal /\ fs[f].op = "none" /\ curRead[s] # NoPacket
  /\ CallerMayWrite(s)
  /\ UNCHANGED <<pool, readerQueue, writerQueue, curRead, curWrite, requestId,
                 rl, peer, msgs, calls, callId, callMsg, got, readFailed,
                 written, writeFailed, sent, flushed, discs>>
  /\ IF packet[curWrite[s]].type = END
     THEN /\ UNCHANGED <<packet, failedAsserts>>
          /\ Return(f, FALSE)
     ELSE FlushStart(f, s, "flush")

FlushPut(f) ==
  LET s == StreamOf(f)  h == fs[f].h IN
  /\ CanRun(f) /\ ~Fatal /\ fs[f].step = "flush_put"
  /\ Len(writerQueue) < WriterQueueSize
  /\ writerQueue' = Append(writerQueue, h)
  /\ sent' = [sent EXCEPT ![s] = Append(@, [rid |-> packet[h].rid,
                                         type |-> packet[h].type,
                                         data |-> packet[h].data])]
  /\ flushed' = [flushed EXCEPT ![s] = TRUE]
  /\ UNCHANGED <<pool, packet, readerQueue, curRead, curWrite, requestId, rl,
                 peer, failedAsserts, msgs, calls, callId, callMsg, got,
                 readFailed, written, writeFailed, discs>>
  /\ Goto(f, [fs[f] EXCEPT !.step = "flush_acq", !.ok = TRUE])

\* defect variant of FlushTimeout: the packet that was not put is not released
FlushTimeoutKeep(f) ==
  LET s == StreamOf(f)  h == fs[f].h IN
  /\ running = NoFiber /\ ~Fatal /\ fs[f].step = "flush_put"
  /\ Len(writerQueue) >= WriterQueueSize
  /\ writeFailed' = [writeFailed EXCEPT ![s] = TRUE]
  /\ UNCHANGED <<pool, packet, readerQueue, writerQueue, curRead, curWrite,
                 requestId, rl, peer, failedAsserts, msgs, calls, callId,
                 callMsg, got, readFailed, written, sent, flushed, discs>>
  /\ Goto(f, [fs[f] EXCEPT !.step = "flush_acq", !.ok = FALSE])

\* the put times out: the packet goes back to the pool, but stays current
FlushTimeout(f) ==
  LET s == StreamOf(f)  h == fs[f].h IN
  /\ running = NoFiber /\ ~Fatal /\ fs[f].step = "flush_put"
  /\ Len(writerQueue) >= WriterQueueSize
  /\ pool' = pool \cup {h}
  /\ packet' = Released(packet, {h})
  /\ writeFailed' = [writeFailed EXCEPT ![s] = TRUE]
  /\ UNCHANGED <<readerQueue, writerQueue, curRead, curWrite, requestId, rl,
                 peer, failedAsserts, msgs, calls, callId, callMsg, got,
                 readFailed, written, sent, flushed, discs>>
  /\ Goto(f, [fs[f] EXCEPT !.step = "flush_acq", !.ok = FALSE])

\* acquire_packet(stream, END), whose ff_assert admits only START and MIDDLE
FlushAcquired(s, h) ==
  /\ pool' = pool \ {h}
  /\ Check(FALSE, "acquire_packet_type")

\* end of the caller's flush
FlushDone(s) ==
  LET f == Caller(s) IN \E h \in pool :
  /\ CanRun(f) /\ ~Fatal /\ fs[f].step = "flush_acq" /\ fs[f].op = "flush"
  /\ pool # {}
  /\ FlushAcquired(s, h)
  /\ packet' = Tagged(packet, h, s, END)
  /\ curWrite' = [curWrite EXCEPT ![s] = h]
  /\ UNCHANGED <<readerQueue, writerQueue, curRead, requestId, rl, peer, msgs,
                 calls, callId, callMsg, got, readFailed, written, writeFailed,
                 sent, flushed, discs>>
  /\ Return(f, fs[f].ok)

-----------------------------------------------------------------------------
(* mrpc_packet_stream_shutdown: unbind the request id, flush, then release *)
(* the current write packet (asserted END) and the current read packet.    *)
Shutdown(s) ==
  LET f == Caller(s) IN
  /\ CanRun(f) /\ ~Fatal /\ fs[f].op = "none" /\ curRead[s] # NoPacket
  /\ CallerMayWrite(s)
  /\ requestId' = [requestId EXCEPT ![s] = 0]
  /\ UNCHANGED <<readerQueue, writerQueue, rl, peer, msgs, calls, callId,
                 callMsg, got, readFailed, written, writeFailed, sent, flushed,
                 discs>>
  /\ IF packet[curWrite[s]].type = END
     THEN /\ pool' = pool \cup {curRead[s], curWrite[s]}
          /\ packet' = Released(packet, {curRead[s], curWrite[s]})
          /\ curRead' = [curRead EXCEPT ![s] = NoPacket]
          /\ curWrite' = [curWrite EXCEPT ![s] = NoPacket]
          /\ UNCHANGED failedAsserts
          /\ Return(f, FALSE)
     ELSE /\ UNCHANGED <<pool, curRead, curWrite>>
          /\ FlushStart(f, s, "shutdown")

\* the flush inside shutdown has put its packet: acquire the END packet and
\* release it at once, with the current read packet
ShutdownDone(s) ==
  LET f == Caller(s) IN \E h \in pool :
  /\ CanRun(f) /\ ~Fatal /\ fs[f].step = "flush_acq" /\ fs[f].op = "shutdown"
  /\ pool # {}
  /\ Check(FALSE, "acquire_packet_type")
  /\ pool' = pool \cup {curRead[s]}
  /\ packet' = Released(packet, {curRead[s]})
  /\ curRead' = [curRead EXCEPT ![s] = NoPacket]
  /\ curWrite' = [curWrite EXCEPT ![s] = NoPacket]
  /\ UNCHANGED <<readerQueue, writerQueue, requestId, rl, peer, msgs, calls,
                 callId, callMsg, got, readFailed, written, writeFailed, sent,
                 flushed, discs>>
  /\ Return(f, fs[f].ok)

(* mrpc_packet_stream_clear_reader_queue: release every queued packet. Its *)
(* use is the forced shutdown of a call (spec 4.1), so the caller calls it *)
(* on an unbound stream, between calls.                                    *)
ClearReaderQueue(s) ==
  LET f == Caller(s) IN
  /\ CanRun(f) /\ ~Fatal /\ fs[f].op = "none" /\ curRead[s] = NoPacket
  /\ readerQueue[s] # <<>>
  /\ pool' = pool \cup Range(readerQueue[s])
  /\ packet' = Released(packet, Range(readerQueue[s]))
  /\ readerQueue' = [readerQueue EXCEPT ![s] = <<>>]
  /\ UNCHANGED <<writerQueue, curRead, curWrite, requestId, fs, rl, peer,
                 running, failedAsserts, msgs, calls, callId, callMsg, got,
                 readFailed, written, writeFailed, sent, flushed, discs>>

-----------------------------------------------------------------------------
(* mrpc_packet_stream_disconnect, called by the stop path: flush, then put *)
(* an END packet on the reader queue so that a blocked read fails.         *)

Disconnect(s) ==
  LET f == Stopper(s) IN
  /\ CanRun(f) /\ ~Fatal /\ fs[f].op = "none" /\ discs[s] < MaxDisconnects
  /\ DisconnectWindow(s)
  /\ discs' = [discs EXCEPT ![s] = @ + 1]
  /\ UNCHANGED <<pool, readerQueue, writerQueue, curRead, curWrite, requestId,
                 rl, peer, msgs, calls, callId, callMsg, got, readFailed,
                 written, writeFailed, sent, flushed>>
  /\ CASE curWrite[s] = NoPacket ->
            \* flush on a stream with no current write packet dereferences NULL
            /\ failedAsserts' = failedAsserts \cup {"null_deref"}
            /\ UNCHANGED <<packet, fs, running>>
       [] packet[curWrite[s]].type = END ->
            /\ UNCHANGED <<packet, failedAsserts>>
            /\ Goto(f, [Idle EXCEPT !.op = "disc", !.step = "disc_acq"])
       [] OTHER -> FlushStart(f, s, "disc")

\* the flush inside disconnect acquires its END packet
DisconnectFlushed(s) ==
  LET f == Stopper(s) IN \E h \in pool :
  /\ CanRun(f) /\ ~Fatal /\ fs[f].step = "flush_acq" /\ fs[f].op = "disc"
  /\ pool # {}
  /\ FlushAcquired(s, h)
  /\ packet' = Tagged(packet, h, s, END)
  /\ curWrite' = [curWrite EXCEPT ![s] = h]
  /\ UNCHANGED <<readerQueue, writerQueue, curRead, requestId, rl, peer, msgs,
                 calls, callId, callMsg, got, readFailed, written, writeFailed,
                 sent, flushed, discs>>
  /\ Goto(f, [fs[f] EXCEPT !.step = "disc_acq"])

\* acquire_packet(stream, END) for the reader queue
DisconnectAcquire(s) ==
  LET f == Stopper(s) IN \E h \in pool :
  /\ CanRun(f) /\ ~Fatal /\ fs[f].step = "disc_acq" /\ pool # {}
  /\ FlushAcquired(s, h)
  /\ packet' = Tagged(packet, h, s, END)
  /\ UNCHANGED <<readerQueue, writerQueue, curRead, curWrite, requestId, rl,
                 peer, msgs, calls, callId, callMsg, got, readFailed, written,
                 writeFailed, sent, flushed, discs>>
  /\ Goto(f, [fs[f] EXCEPT !.step = "disc_push", !.h = h])

\* ff_blocking_queue_put, with no timeout
DisconnectPush(s) ==
  LET f == Stopper(s) IN
  /\ CanRun(f) /\ ~Fatal /\ fs[f].step = "disc_push"
  /\ Len(readerQueue[s]) < ReaderQueueSize
  /\ readerQueue' = [readerQueue EXCEPT ![s] = Append(@, fs[f].h)]
  /\ UNCHANGED <<pool, packet, writerQueue, curRead, curWrite, requestId, rl,
                 peer, failedAsserts, msgs, calls, callId, callMsg, got,
                 readFailed, written, writeFailed, sent, flushed, discs>>
  /\ Return(f, TRUE)

-----------------------------------------------------------------------------
(* The connection side of the stream: the peer's messages, the reader loop *)
(* that receives them into pool packets and hands them to                  *)
(* mrpc_packet_stream_push_packet, and the writer fiber that drains the    *)
(* writer queue.                                                           *)

\* the peer (another packet stream) starts its next message to stream s;
\* a message of several packets may lack its last one: the peer's flush
\* timed out and released it (mrpc_packet_stream_flush, lines 297-301)
PeerSend(s, L, truncated) ==
  LET k == msgs[s] + 1
      whole == Fragment(Msg(k, L), 0)
      fr == IF truncated THEN Front(whole) ELSE whole
  IN
  /\ truncated => Len(whole) > 1
  /\ running = NoFiber /\ ~Fatal /\ peer[s] = <<>> /\ msgs[s] < MaxMsgs
  /\ peer' = [peer EXCEPT ![s] = [i \in DOMAIN fr |-> [fr[i] EXCEPT !.rid = 0] @@ [pos |-> 0, msg |-> k]]]
  /\ msgs' = [msgs EXCEPT ![s] = k]
  /\ UNCHANGED <<pool, packet, readerQueue, writerQueue, curRead, curWrite,
                 requestId, fs, rl, running, failedAsserts, calls, callId,
                 callMsg, got, readFailed, written, writeFailed, sent, flushed,
                 discs>>

\* the reader loop takes a packet from the pool before reading the socket
ReaderAcquire ==
  \E h \in pool :
  /\ CanRun(Reader) /\ ~Fatal /\ rl.step = "acquire" /\ pool # {}
  /\ pool' = pool \ {h}
  /\ rl' = [rl EXCEPT !.step = "recv", !.h = h]
  /\ running' = NoFiber
  /\ UNCHANGED <<packet, readerQueue, writerQueue, curRead, curWrite,
                 requestId, fs, peer, failedAsserts, msgs, calls, callId,
                 callMsg, got, readFailed, written, writeFailed, sent, flushed,
                 discs>>

\* a packet of stream s arrives; push_packet puts it on s's reader queue
ReaderReceive(s) ==
  /\ running = NoFiber /\ ~Fatal /\ rl.step = "recv" /\ peer[s] # <<>>
  /\ packet' = [packet EXCEPT ![rl.h] = Head(peer[s])]
  /\ peer' = [peer EXCEPT ![s] = Tail(@)]
  /\ rl' = [rl EXCEPT !.step = "push", !.s = s]
  /\ running' = IF Len(readerQueue[s]) < ReaderQueueSize THEN Reader ELSE NoFiber
  /\ UNCHANGED <<pool, readerQueue, writerQueue, curRead, curWrite, requestId,
                 fs, failedAsserts, msgs, calls, callId, callMsg, got,
                 readFailed, written, writeFailed, sent, flushed, discs>>

\* mrpc_packet_stream_push_packet: ff_blocking_queue_put, with no timeout
PushPacket ==
  /\ CanRun(Reader) /\ ~Fatal /\ rl.step = "push"
  /\ Len(readerQueue[rl.s]) < ReaderQueueSize
  /\ readerQueue' = [readerQueue EXCEPT ![rl.s] = Append(@, rl.h)]
  /\ rl' = [rl EXCEPT !.step = "acquire", !.h = NoPacket]
  /\ running' = IF pool # {} THEN Reader ELSE NoFiber
  /\ UNCHANGED <<pool, packet, writerQueue, curRead, curWrite, requestId, fs,
                 peer, failedAsserts, msgs, calls, callId, callMsg, got,
                 readFailed, written, writeFailed, sent, flushed, discs>>

\* the writer fiber writes the head packet to the socket and releases it
WriterWrite ==
  LET h == Head(writerQueue) IN
  /\ CanRun(Writer) /\ ~Fatal /\ writerQueue # <<>>
  /\ writerQueue' = Tail(writerQueue)
  /\ pool' = pool \cup {h}
  /\ packet' = Released(packet, {h})
  /\ running' = NoFiber
  /\ UNCHANGED <<readerQueue, curRead, curWrite, requestId, fs, rl, peer,
                 failedAsserts, msgs, calls, callId, callMsg, got, readFailed,
                 written, writeFailed, sent, flushed, discs>>

-----------------------------------------------------------------------------
Init ==
  /\ pool = Handles
  /\ packet = [h \in Handles |-> EmptyPacket]
  /\ readerQueue = [s \in Streams |-> <<>>]
  /\ writerQueue = <<>>
  /\ curRead = [s \in Streams |-> NoPacket]
  /\ curWrite = [s \in Streams |-> NoPacket]
  /\ requestId = [s \in Streams |-> 0]
  /\ fs = [f \in Fibers |-> Idle]
  /\ rl = [step |-> "acquire", h |-> NoPacket, s |-> CHOOSE s \in Streams : TRUE]
  /\ peer = [s \in Streams |-> <<>>]
  /\ running = NoFiber
  /\ failedAsserts = {}
  /\ msgs = [s \in Streams |-> 0]
  /\ calls = [s \in Streams |-> 0]
  /\ callId = [s \in Streams |-> 0]
  /\ callMsg = [s \in Streams |-> 0]
  /\ got = [s \in Streams |-> <<>>]
  /\ readFailed = [s \in Streams |-> FALSE]
  /\ written = [s \in Streams |-> <<>>]
  /\ writeFailed = [s \in Streams |-> FALSE]
  /\ sent = [s \in Streams |-> <<>>]
  /\ flushed = [s \in Streams |-> FALSE]
  /\ discs = [s \in Streams |-> 0]

\* every fiber is between calls and the peer has nothing more in flight:
\* the bounded scenario may end here
Quiescent ==
  /\ \A s \in Streams : fs[Caller(s)].op = "none" /\ fs[Stopper(s)].op = "none"
                        /\ peer[s] = <<>>
  /\ writerQueue = <<>> /\ rl.step # "push"

Next ==
  \/ \E s \in Streams :
       \/ \E id \in Ids : Initialize(s, id)
       \/ InitAccept(s) \/ InitReject(s) \/ InitTimeout(s) \/ InitAcquire(s)
       \/ \E n \in ChunkLens : Read(s, n) \/ Write(s, n)
       \/ ReadAccept(s) \/ ReadReject(s) \/ ReadTimeout(s)
       \/ WritePut(s) \/ WriteTimeout(s) \/ WriteAcquire(s)
       \/ Flush(s) \/ FlushDone(s) \/ Shutdown(s) \/ ShutdownDone(s)
       \/ ClearReaderQueue(s)
       \/ Disconnect(s) \/ DisconnectFlushed(s)
       \/ DisconnectAcquire(s) \/ DisconnectPush(s)
       \/ \E L \in MsgLens, t \in BOOLEAN : PeerSend(s, L, t)
       \/ ReaderReceive(s)
  \/ \E s \in Streams : \E f \in {Caller(s), Stopper(s)} :
       FlushPut(f) \/ FlushTimeout(f)
  \/ ReaderAcquire \/ PushPacket \/ WriterWrite
  \/ (Quiescent \/ Fatal) /\ UNCHANGED vars

Spec == Init /\ [][Next]_vars

-----------------------------------------------------------------------------
(* Properties.                                                             *)

Packets == [rid : Nat, type : PacketTypes, data : Seq(Bytes), pos : Nat, msg : Nat]
FiberStates == [op : {"none", "init", "read", "write", "flush", "shutdown", "disc"},
                step : STRING, n : Nat, h : Handles \cup {NoPacket}, ok : BOOLEAN]

TypeOK ==
  /\ pool \subseteq Handles
  /\ packet \in [Handles -> Packets]
  /\ readerQueue \in [Streams -> Seq(Handles)]
  /\ writerQueue \in Seq(Handles)
  /\ curRead \in [Streams -> Handles \cup {NoPacket}]
  /\ curWrite \in [Streams -> Handles \cup {NoPacket}]
  /\ requestId \in [Streams -> {0} \cup Ids]
  /\ fs \in [Fibers -> FiberStates]
  /\ running \in Fibers \cup {NoFiber}
  /\ got \in [Streams -> Seq(Bytes)] /\ written \in [Streams -> Seq(Bytes)]
  /\ \A h \in Handles : packet[h].pos =< Len(packet[h].data)
                       /\ Len(packet[h].data) =< Capacity

\* curWrite[s] still names a packet that was already put on the writer queue
\* (or released by a timed-out flush): the fiber is about to replace it
Handed(s) ==
  \/ fs[Caller(s)].step \in {"write_acq", "flush_acq"}
  \/ fs[Stopper(s)].step = "flush_acq"

Occurrences(q, h) == Cardinality({i \in DOMAIN q : q[i] = h})

Owners(h) ==
  (IF h \in pool THEN 1 ELSE 0)
  + Occurrences(writerQueue, h)
  + SumFunction([s \in Streams |->
        Occurrences(readerQueue[s], h)
        + (IF curRead[s] = h THEN 1 ELSE 0)
        + (IF curWrite[s] = h /\ ~Handed(s) THEN 1 ELSE 0)
        + (IF fs[Stopper(s)].step = "disc_push" /\ fs[Stopper(s)].h = h THEN 1 ELSE 0)])
  + (IF rl.step \in {"recv", "push"} /\ rl.h = h THEN 1 ELSE 0)

(* Every pool packet has exactly one owner: the pool, one place in a       *)
(* reader queue or the writer queue, a stream's current read or write      *)
(* packet, or a fiber holding it across a blocking put. Two owners means a *)
(* packet is put twice or released while in use (the pool is corrupted);   *)
(* none means it leaked. Exercises flush/write/shutdown/disconnect and the *)
(* reader loop and writer fiber sharing the pool.                          *)
PacketsAccountedFor == \A h \in Handles : Owners(h) = 1

(* Reassembly: until a read fails, the bytes the caller's reads returned   *)
(* since initialize are a prefix of the one message whose first packet     *)
(* initialize accepted: read never skips, repeats or reorders bytes, and   *)
(* never runs from one message into the next, even when leftovers of an    *)
(* earlier call or a disconnect's END packet sit in the reader queue.      *)
ReadsFollowMessage ==
  \A s \in Streams : ~readFailed[s] => got[s] = Msg(callMsg[s], Len(got[s]))

(* Fragmentation: once a flush has put the last packet of a call, and no   *)
(* write or flush of the call failed, the packets the stream put on the    *)
(* writer queue are exactly the reference fragmentation of the bytes       *)
(* written, tagged with the call's request id: one SINGLE packet for a     *)
(* message that fits in one packet, else START, MIDDLE*, END with all but  *)
(* the last full (spec section 8).                                         *)
FlushedIsFragmentation ==
  \A s \in Streams :
    flushed[s] /\ ~writeFailed[s] => sent[s] = Fragment(written[s], callId[s])

(* No ff_assert of the packet stream ever fails.                           *)
AssertionsHold == failedAsserts = {}
====
