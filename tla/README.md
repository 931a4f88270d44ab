# TLA+ models of multiplexing-rpc

This directory holds TLA+ models of the multiplexed RPC core in `src/`. The
models are checked with TLC. Each run is listed in `PROJECT.json` with its
module, its configuration and the properties it checks.

## The system

One connection (an `ff_stream`) carries up to 256 concurrent calls. Every
packet carries a request id, a type and up to a packet's capacity of data.

- **Packet stream** (`src/src/mrpc_packet_stream.c`). Each call reads and
  writes through its packet stream, which is bound to a request id.
  - `initialize(id)` waits for the first inbound packet, which must be START
    or SINGLE. It then opens a START packet for writing.
  - `read` copies bytes out of the current inbound packet and pulls the next
    one (which must be MIDDLE or END) from the stream's *reader queue*.
  - `write` fills the current outbound packet. Whenever bytes remain, it puts
    the packet on the connection's shared *writer queue* and opens a MIDDLE
    packet.
  - `flush` retypes the current packet SINGLE or END and puts it.
  - `shutdown` flushes and releases both current packets.
  - `disconnect` (the stop path) flushes and pushes an END packet onto the
    reader queue, so that a blocked read wakes up.
  - `push_packet` is how the reader loop delivers a packet.
  - Gets and puts on the queues have timeouts, except the reader-queue put of
    `push_packet` and `disconnect`.
- **Client stream processor** (`src/src/mrpc_client_stream_processor.c`).
  - The reader loop, in `process_stream`, does three things in turn: it
    acquires a packet from the packets pool, reads it from the socket, and
    pushes it to the request processor registered for its id.
  - The writer fiber takes packets from the writer queue, writes them to the
    socket and releases them.
  - `invoke_rpc` acquires a request processor (and with it a request id) from
    a pool, runs the call and releases it.
  - `stop_async` disconnects the socket.
  - After its loop ends, `process_stream` stops every acquired request
    processor, waits until none is active, and stops the writer.
- **Request processor, pools, bitmap, packet.** Their code is not in this
  repository's `src/`. Where the models need them, they are modelled from
  `spec.md`.
- **rpc data** (`mrpc_data.c`) orders the marshalling of one call over a
  stream: the client writes the method id, the request parameters and a
  flush, then reads the response; the service reads the id and the
  parameters, runs the method's callback, writes the response, flushes and
  deletes its data. **Blob** (`mrpc_blob.c`) is a ref-counted large payload with read
  and write streams.

All of it runs as cooperative fibers (spec section 5). A fiber runs without
interruption between suspension points: queue gets and puts, pool acquires,
event waits and socket I/O.

## Modules

### PacketStream.tla

Models a set of streams (`Streams`) sharing one writer queue and one packets
pool of `Handles`. It also models the connection side that drives them:

- a **peer** that sends messages;
- the **reader loop**: acquire, receive, `push_packet`;
- the **writer fiber**.

Each stream has a **caller** fiber, which makes the call, and a **stopper**
fiber, which is the stop path calling `disconnect`.

State:

- `pool` is the set of free pool entries.
- `packet[h]` holds the contents of each entry: request id, type, data and
  read position.
- `readerQueue`, `writerQueue`, `curRead`, `curWrite` and `requestId` are the
  code's fields.
- `fs[f]` records the call each fiber is in and the suspension point it is
  waiting at.
- `rl` is the reader loop's state.
- `running` is the fiber currently between two suspension points. While it
  is set, no other fiber steps. A blocking step becomes enabled when its
  queue or pool allows it. Its timeout step is enabled only when the wait
  condition is false and no fiber is running.

Actions:

- Each public function is one action up to its first suspension point.
- Each blocking operation is a further action: get or put, success or
  timeout, and pool acquire.
- Example: `Write` copies bytes into the current packet. `WritePut` and
  `WriteTimeout` are the two outcomes of the put with timeout.
  `WriteAcquire` takes the MIDDLE packet and continues the loop.
- The flush code is shared by the caller's `flush` and `shutdown` and by the
  stopper's `disconnect`. It is modelled once: `FlushStart`, `FlushPut` and
  `FlushTimeout`.

Assertions:

- A failed `ff_assert` adds its site to `failedAsserts`.
- With `DebugBuild` set, a failed assertion stops every fiber (it aborts).
- In a release build, only a NULL dereference stops every fiber.

Data abstraction:

- Byte `i` of the peer's `k`-th message is the pair `<<k, i>>`.
- Byte `i` written by the caller is `<<0, i>>`.
- `Fragment` (recursive `Chunks`) is the reference fragmentation of spec
  section 8, against which the sent packets are compared.

Environment:

- The peer may drop the last packet of a message. This is what a peer
  running this code sends when its flush's put times out (lines 297-301).
- Without `DisconnectAnytime`, the stopper disconnects only a bound stream
  whose caller is idle or reading, and the caller does not write, flush or
  shut down until the disconnect has returned.
- With `DisconnectAnytime` (`DisconnectWindow`), the stopper disconnects
  whenever the caller is suspended inside one of its calls on the stream.
  That includes initialize's prefetch and the puts of write, flush and
  shutdown. It is what `stop_request_processor` does to every acquired
  request processor (client stream processor, lines 245-247). An idle
  stream belongs to no acquired processor and is never disconnected.

Compile errors in the source are modelled by their evident intent:

- `bytes_to_write` for `len` (line 256);
- `acqiure_packet` for `acquire_packet` (line 302).

### ClientStreamProcessor.tla

Models one `process_stream` over one connection, with `Callers` caller
fibers calling `invoke_rpc`. The packet stream inside each request processor
is abstracted to what the stream processor sees. A call puts one request
packet and gets one response packet. A stop pushes one END packet.

State:

- `stream` is `stream_processor->stream` (TRUE while non-NULL).
- `sockUp` is the state of the socket. `wire`, `unflushed` and `server` are
  the bytes in flight: read side, written but not flushed, and at the server.
- `writerQueue` holds request packets and the NULL sentinel `Stop`.
- `freePackets` counts free entries of the packets pool.
- `created` and `acquired` are the request processors pool, by request id.
  A new processor takes the lowest free id, like the bitmap.
- `active`, `activeCnt` and `rpStopEvent` are the active table, its count
  and the auto-reset event. `SetStopEvent` is `ff_event_set`. If the reader
  loop waits on the event, the set wakes it (`rl.pc` becomes `rp_woken`) and
  the event stays reset. A later `ff_event_reset` in
  `acquire_request_processor` cannot take back a wake already handed over.
- `readerQueue[id]` is each request processor's reader queue.
- `cs[c]`, `rl` and `wr` are the program counters of the callers, the reader
  loop and the writer fiber. `running` gives cooperative scheduling as in
  PacketStream.

Actions:

- Callers: `InvokeRpc` (line 360), `AcquireProcessor` (lines 182-203), then
  the request processor's `RequestAcquire`, `RequestPut` or
  `RequestPutTimeout`, and `ResponseGet` or `ResponseTimeout`. The last two
  end in `Release` (lines 205-222). The request processor steps are from
  the spec.
- Reader loop: `RlAcquire`, `RlRead` or `RlReadFail`, `RlPush`. When the loop
  ends: `RlStop` (`stop_async`), `RlVisit` over the pool's entries, with
  `RlStopAcquire` and `RlStopPut` for the END packet of each acquired
  processor's disconnect. Then `RlForEachDone`, `RlWaitProcessors`,
  `RlStopWriter` and `RlWaitWriter`.
- Writer: `WriterGet` (write, release, flush when the queue is empty; on a
  failure `stop_async` then `WriterSkip`, which is
  `skip_writer_queue_packets`). `WrStopped` handles the sentinel.
- Environment: `ServerAnswer` answers any received request, in any order.
  `SocketFail` breaks the socket once.

Environment assumption `ResponseTimeouts`:

- When FALSE, a caller's read times out only when its response can no
  longer come.
- When TRUE, the timeout may fire while the response is still in flight.
  This is what the code's 2-second timeouts allow.

### Blob.tla

Models one blob of `src/src/mrpc_blob.c` and the `Holders`, the fibers that
own references to it. `Creator` calls `mrpc_blob_create`. `Writers` may open
the blob for writing.

State:

- `alive`, `refCnt`, `size`, `state` and `path` are the struct's fields
  (`alive` is FALSE once `delete_blob` has freed it).
- `disk[p]` holds the file at each path. `onDisk` is the set of paths where
  a file exists. A byte is the id of the stream that wrote it, or `Hole`.
  Only two paths are modelled: the temporary path from
  `create_temporary_file_path`, and one move target.
- `refs[h]` counts the references holder `h` owns. `strm[sid]` is each
  stream's `blob_stream_data`: status, owner, mode and `curr_pos`.
- `opening[h]` is the mode of an open that is waiting in `ff_file_open`.

Actions:

- `IncRef` hands a new reference to another holder. `DecRef` calls
  `DecRefBlob`, which calls `DeleteBlob` when the count reaches 0.
- `OpenStream` asserts the state for the mode. `OpenFile` is
  `ff_file_open` returning: on success the stream is created and takes a
  reference, and a write open makes the blob INCOMPLETE.
- `ReadStream`, `WriteStream`, `FlushStream` and `DeleteStream` are the
  stream's vtable.
- `Move` is `mrpc_blob_move`. It is taken at most once.

Suspension points:

- The `ff_file` calls are file I/O. The model takes `ff_file_open` as a
  suspension point, as spec section 5 does for stream I/O.
- The other file calls take effect in one step. No other holder can touch
  what they change in between: reads and writes are on the caller's own
  stream, erase runs when no one holds a reference, and move requires the
  only reference.

Fault model: with `FileMayFail`, opens, writes, erases and moves may fail.

Assertions: blob_safe runs a debug build, so a failed `ff_assert` aborts.
The assertions are the callers' contract. A behaviour in which a caller
breaks them ends there.

Compile errors in the source are modelled by their evident intent:

- `=` for `==` at line 79, which on a write stream changes nothing;
- the undeclared `bytes_left` at line 83;
- `ff_stream_get_cts` at line 101;
- `dst_filename` for `new_file_path` at lines 272-273.

### DataCall.tla and CallChannel.tla

`DataCall` models one remote call as `src/src/mrpc_data.c` marshals it.
The client runs `mrpc_data_invoke_remote_call` and the service runs
`mrpc_data_process_remote_call`, each on the packet stream of its end of
the call.

State:

- The client has `cpc` (its position in the call), `cmethod` (the data's
  method id) and `cresult`.
- The service has `spc`, `smethod` (the id it read), `sresult`, `sdata`
  (its data is allocated) and `callbacks` (calls of the method's callback).
- `chan[d]` is each direction of the stream. `pend` holds the bytes of the
  writer's current packet. `wire` holds the bytes queued towards the reader.
- Stream bytes are method ids or placeholders for parameter bytes.
- `respQueued` records that a packet of the response has been queued. The
  client's packet stream reads from a current packet taken off its reader
  queue (the prefetch), so even an empty response is read only once its
  SINGLE packet has come.
- `broken` and `faults` record the environment.

Actions. There is one per `ff_stream` call, because each call blocks:

- Client: `CWriteId`, `CWriteParams` and `CFlush` are `write_request`.
  `CReadResponse` is `read_response`. A failure returns 0 at once.
- Service: `SReadId` reads the id and looks up the method. An unknown id
  returns 0 with no answer.
- `SReadParams` reads the parameters. If that fails, it deletes the data.
- `SInvoke` is the callback.
- `SWriteResponse` and `SFlush` are `write_response`. Both end with
  `mrpc_data_delete` on every outcome.
- `PutBytes` and `FlushBytes` are `mrpc_packet_stream_write` and `_flush`.
  A packet is queued only when bytes remain to be written after it, or at
  the flush.
- `Break` is the connection stopping. Queued bytes past some point are lost,
  and the current packets are never sent.

Fault model:

- After a break, reads past the surviving bytes fail. Writes are refused,
  or accepted into a queue nobody sends.
- Without a break, a write may time out (the writer queue is full).
- A read times out when the peer can send nothing more.
- A read may also time out early, before a slow peer's bytes arrive.

`CallChannel` is the abstract promise of a call:

- `Serve` runs the method at most once, and only if the service knows it.
- `Succeed` requires that `Serve` has run.
- `Fail` is always possible, and a pending call eventually returns.

DataCall maps to it as follows: `call` comes from `cpc` and `cresult`,
`method` is `cmethod`, and `served` is `callbacks`.

Line 86 assigns the undeclared `is_succes`, a compile error. The model takes
the evident intent and assigns `is_success`.

## Runs

| run | cfg | expect | shows |
|-----|-----|--------|-------|
| ps_safe | MCPacketStream.cfg | pass | no packet lost or owned twice; reads reassemble one message; a flushed call sends exactly the reference fragmentation |
| ps_debug | MCPacketStreamDebug.cfg | violation | a stop that disconnects a stream still waiting in initialize's prefetch dereferences its NULL current write packet (line 283); every flush also fails `acquire_packet`'s assertion (line 302 vs 27) |
| ps_race | MCPacketStreamRace.cfg | violation | a disconnect during a write, flush or shutdown puts a packet twice |
| csp_safe | MCClientStreamProcessor.cfg | pass | packets are conserved through reads, writes, failures and the stop; `process_stream` returns drained; under fairness every call returns and a stopped `process_stream` returns |
| csp_null | MCClientStreamProcessorNull.cfg | violation | the writer writes to the NULL stream after `stop_async` (line 91) |
| csp_late | MCClientStreamProcessorLate.cfg | violation | a late response reaches the next call on the same request id (line 332) |
| csp_poolwait | MCClientStreamProcessorPoolWait.cfg | violation | a caller waiting in the pool acquires a processor after the stop drained (line 364); `process_stream` returns with it active |
| csp_exhaust | MCClientStreamProcessorExhaust.cfg | violation | with 2 packets for 2 processors, the stop's END packets use up the pool and `process_stream` never returns |
| blob_safe | MCBlob.cfg | pass | the count matches the owners; the temporary file goes with the blob; a COMPLETE blob holds exactly what was written |
| blob_writefail | MCBlobWriteFail.cfg | violation | a failed file write still advances the position and completes the blob (line 87) |
| blob_move | MCBlobMove.cfg | violation | releasing a moved blob erases the file at its destination (lines 168, 272) |
| data_safe | MCDataCall.cfg | pass | every path of `process_remote_call` deletes its data; the call refines `CallChannel` (run at most once, success only if run, always returns); with no fault a call of a known method succeeds |

Bounds of ps_safe:

| bound | value | why |
|-------|-------|-------|
| streams | 1 | the stream's caller and stopper interleave |
| pool handles | 5 | symmetric |
| capacity | 2 | |
| reader queue | 1 | |
| writer queue | 1 | |
| message lengths | {1, 3} | SINGLE, and START then END; a truncated message is a lone START |
| chunk lengths | {1, 3} | a 3-byte write crosses a packet boundary |
| bytes written per call | at most 3 | |
| calls | 2 | the second call reuses the stream |
| peer messages | 2 | |
| disconnects | 1 | |

Why these bounds are enough:

- Full queues of size 1 make every put timeout and every blocking path
  reachable.
- Five handles are one more than the most the stream and the connection can
  hold at once. A pool of four deadlocks (see hazards) and is left to the
  composed model.

ClientStreamProcessor bounds (csp_safe):

| bound | value | why |
|-------|-------|-----|
| callers | 2 | two calls in flight, or one waiting in the pool |
| request processors | 2 | two ids; a third caller never exists |
| packets | 4 | a request and a response per caller, and the reader loop's |
| writer and reader queues | 1 | every put blocks or times out |
| calls | 3 | the third call reuses a processor and its id |
| socket failures | 1 | the read and write failure paths |

csp_poolwait uses one request processor, so that the second caller waits in
the pool. TLC's trace has that caller acquire after `process_stream` has
returned. The model also reaches the case where it runs between the last
release's pool release (line 215) and the reader loop's wake by the event
(line 220). There the assertion at line 255 fails as well. An invariant on
that assertion site alone finds the second case, but no run keeps it.

Blob bounds (blob_safe):

| bound | value | why |
|-------|-------|-----|
| holders | 2 | one writer, one reader sharing a reference |
| sizes | {0, 1, 2} | the empty blob, and writes that fill it in one or two steps |
| chunk lengths | {0, 1, 2} | a zero-length write, and writes past the end |
| streams | 3 | a write stream and two read streams, or reopens |
| inc_ref calls | 1 | a second holder |

Blob properties:

- `RefCntIsOwners`: while the blob lives, `ref_cnt` is the holders'
  references plus the open streams. Once it is freed, no one holds one.
- `TempFileErased`: once the blob is freed, no temporary file is left.
- `CompleteMeansWritten`: a COMPLETE blob's file is `size` bytes long and
  every byte was written.
- `MovedFileKept` (blob_move only) is the property the code breaks.
- A third defect has no run of its own: `flush_blob_stream` asserts the
  blob INCOMPLETE (line 104), but the write of the last byte makes it
  COMPLETE (line 91). In a debug build, writing a blob to the end and then
  flushing aborts. In the model, this is `"flush_state" \in failedAsserts`
  after `WriteStream` and then `FlushStream`.

DataCall bounds (data_safe):

| bound | value | why |
|-------|-------|-----|
| client methods | {1, 2, 3, 4} | 2 is unknown to the service |
| service methods | {1, 3, 4} | |
| request bytes | 1: 3, 2: 0, 3: 1, 4: 1 | method 1's request crosses a packet; method 2 has none; method 4's, with its id, exactly fills one packet |
| response bytes | 1: 2, 2: 1, 3: 0, 4: 3 | method 1's answer fills exactly one packet, which stays current until the flush; method 3's is an empty SINGLE packet; method 4's crosses a packet, so the client reads a first packet queued before the flush |
| packet capacity | 2 | |
| breaks | 1 | a stop is final |

DataCall properties:

- `ServerDataFreed`: once `process_remote_call` has returned, its data is
  deleted.
- `CallChannelRefined`: `CallChannel`'s `Spec` under the mapping in the
  module.
- `ServedCallSucceeds`: with no break and no early timeout, a call of a
  method the service knows returns success.

ClientStreamProcessor properties:

- `PacketsConserved`: free, queued, in-flight and held packets add up to the
  pool size.
- `ResponseToOwnCall` (csp_late only): a call that returns success got its
  own response. It needs response timeouts: without them no response
  outlives its call, so csp_safe does not check it.
- `ProcessStreamReturnsDrained`: when `process_stream` returns, no request
  processor is active and the writer queue is empty.
- `NoNullDereference` (csp_null only): nothing writes to a NULL stream.

PacketStream properties:

- `TypeOK`.
- `PacketsAccountedFor`: every pool packet has exactly one owner.
- `ReadsFollowMessage`: the bytes read since initialize are a prefix of one
  peer message.
- `FlushedIsFragmentation`: after a successful flush, the packets put equal
  `Fragment(written, id)`.

Each property of the pass runs (ps_safe, csp_safe, blob_safe, data_safe) has a mutant in `PROJECT.json`: a plausible defect
that TLC must detect.

## Fairness

The PacketStream and Blob runs, and csp_null, csp_late and csp_poolwait,
check safety only and assume no fairness. The runs csp_safe and csp_exhaust use `FairSpec`, which
adds weak fairness of:

- each caller's steps after `invoke_rpc` has begun (`CallerStep(c)`);
- the reader loop's steps (`ReaderStep`);
- the writer fiber's steps (`WriterStep`);
- `ServerAnswer`.

Why the code justifies it:

- The ff core resumes every fiber whose wait is over. A fiber that stays
  able to run is therefore run.
- The timeouts of the request processor's queue operations are timers that
  fire.
- The server is assumed to answer what it received.

data_safe uses DataCall's `FairSpec`: weak fairness of the client's step
and of the service's step. The two are threads of different processes.
A read that waits for bytes the peer can no longer send times out, which
is a step too. A read may also time out before a slow peer's bytes
arrive. That early timeout is a fault, like a break, and is not fair.

Starting a call and the socket failing are not fair: neither has to happen.

A NULL dereference ends the process, so both liveness properties are stated
"or Fatal".

## Plan

1. **Blocking push.** The blocking `push_packet` (line 319) can hang the
   reader loop only on the full reader queue of an *active* request
   processor whose caller is not reading. A caller that timed out has
   released its processor. A late answer for that id finds a NULL slot and
   ends the loop (client stream processor, lines 333-337), so the loop does
   not block. An active caller is either reading or putting its request.
   With single-packet responses, the queue of a putting caller holds at
   most one stale packet. The hang therefore needs multi-packet responses
   in ClientStreamProcessor, and a run of its own.
2. **Liveness of the packet stream.** "Every call on the stream returns"
   under weak fairness of each fiber and timer ran for more than 10
   minutes on ps_safe's instance without symmetry. Liveness needs symmetry
   removed, because symmetry is unsound for liveness. The property needs a
   smaller instance in a run of its own.
3. **Call channel below DataCall.** Refine DataCall's byte stream by
   PacketStream plus the reader and writer loops, through a mapping that
   reassembles queued packets.
4. **Parameter marshalling.** The param accessors and hashing of
   `mrpc_data.c` (lines 141-167) change only parameter values. They wait
   for a model of `mrpc_param`, which is not in `src/`.

The project keeps twelve runs, one per question it asks. Items 1 and 2
each need a run of their own, so a run would have to be merged or retired
first.

## Not modelled

- Socket I/O contents, marshalling formats and packet serialisation: the
  models keep only which bytes belong to which message.
- Allocation in the create and delete functions (`mrpc_packet_stream_create`
  and `_delete`, `mrpc_client_stream_processor_create` and `_delete`,
  `create_packet`, `delete_packet`, `acquire_packet`, `release_packet` of
  the client stream processor). Each `Init` is the state that create leaves
  behind. Delete's assertions say that the stream has been unbound. One way to break
  them is a failed initialize, which leaves the stream bound. `Initialize`
  checks the same condition (line 125) in a debug build (hazard ps:131).
  ps_debug's trace ends at a shorter failure, so no run shows this case.
- The parameter value accessors and the request hash of `mrpc_data.c`
  (lines 141-167). They forward to `mrpc_method`, which is not in the
  source, and change no state of the call.
- `mrpc_interface.h`. It holds declarations only. The interfaces of a call
  appear in DataCall as the constants `ClientMethods` and `ServerMethods`.
- `src/tests/tests.c`. It was read for the intended behaviour.
