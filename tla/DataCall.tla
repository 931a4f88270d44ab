------------------------------ MODULE DataCall ------------------------------
(***************************************************************************)
(* One remote call marshalled by mrpc_data.c: the client side runs         *)
(* mrpc_data_invoke_remote_call (write_request, then read_response) and   *)
(* the service side runs mrpc_data_process_remote_call (read_request, the *)
(* method's callback, write_response, mrpc_data_delete), each over the    *)
(* ff_stream of its end of the call, a packet stream                      *)
(* (mrpc_packet_stream.c).  Every ff_stream call blocks, so each is one   *)
(* step.  A stream direction holds the bytes of the writer's current      *)
(* packet (pend) and the bytes queued towards the reader (wire).  The     *)
(* connection may break at any time: queued bytes past some point are     *)
(* lost, reads past them fail, and writes either fail or are taken into a *)
(* queue nobody sends.  A queue operation may also time out.              *)
(***************************************************************************)
EXTENDS Integers, Sequences, FiniteSets, TLC

CONSTANTS ClientMethods,  \* method ids of the client's interface
          ServerMethods,  \* method ids of the service's interface
          ReqLen,         \* bytes of a method's request parameters
          RespLen,        \* bytes of a method's response parameters
          PacketCap       \* payload bytes of one packet

Methods == ClientMethods \cup ServerMethods

ASSUME /\ Methods \subseteq 0..255
       /\ ReqLen \in [Methods -> Nat] /\ RespLen \in [Methods -> Nat]
       /\ PacketCap \in Nat \ {0}

\* The bytes a stream carries: a method id, or a byte of the request or of
\* the response parameters.
ParamByte == -1
RespByte == -2
Bytes == Methods \cup {ParamByte, RespByte}
Dirs == {"c2s", "s2c"}

VARIABLES cpc,        \* where the client is in mrpc_data_invoke_remote_call
          cmethod,    \* data->method_id of the client's mrpc_data
          cresult,    \* what mrpc_data_invoke_remote_call returned
          spc,        \* where the service is in mrpc_data_process_remote_call
          smethod,    \* the method id read_request read
          sresult,    \* what mrpc_data_process_remote_call returned
          sdata,      \* the service's mrpc_data is allocated
          callbacks,  \* calls of mrpc_method_invoke_callback
          chan,       \* per direction: [pend, wire]
          broken,     \* the connection under both streams is stopped
          faults,     \* environment faults so far: "break", "timeout"
          respQueued  \* a packet of the response has been queued to the client

vars == <<cpc, cmethod, cresult, spc, smethod, sresult, sdata, callbacks,
          chan, broken, faults, respQueued>>

-----------------------------------------------------------------------------
(* The packet stream under ff_stream.                                      *)

\* mrpc_packet_stream_write fills the current packet and queues it only
\* when bytes remain to be written, so a full packet stays current.
Shipped(p) == IF Len(p) = 0 THEN 0 ELSE ((Len(p) - 1) \div PacketCap) * PacketCap

PutBytes(ch, bs) ==
    LET p == ch.pend \o bs
    IN  [pend |-> SubSeq(p, Shipped(p) + 1, Len(p)),
         wire |-> ch.wire \o SubSeq(p, 1, Shipped(p))]

\* mrpc_packet_stream_flush queues the current packet, full or not.
FlushBytes(ch) == [pend |-> <<>>, wire |-> ch.wire \o ch.pend]

\* A write or flush on a working connection succeeds or times out; on a
\* stopped one it is refused or its packets are drained unsent.
WriteResults(newchan) ==
    IF broken THEN {[ok |-> TRUE, ch |-> chan], [ok |-> FALSE, ch |-> chan]}
              ELSE {[ok |-> TRUE, ch |-> newchan], [ok |-> FALSE, ch |-> chan]}

WriteFaults(r) == IF r.ok \/ broken THEN faults ELSE faults \cup {"timeout"}

Readable(d, n) == Len(chan[d].wire) >= n

Consume(d, n) == [chan EXCEPT ![d].wire = SubSeq(@, n + 1, Len(@))]

\* A read that lacks bytes fails once the connection is stopped or the
\* peer can send nothing more; before that, its timeout is a fault.
ReadFaults(peerStalled) ==
    IF broken \/ peerStalled THEN faults ELSE faults \cup {"timeout"}

RequestBytes(m) == [i \in 1..ReqLen[m] |-> ParamByte]
ResponseBytes(m) == [i \in 1..RespLen[m] |-> RespByte]

\* The client's packet stream reads from a current packet, which its
\* prefetch takes off the reader queue: even a response with no bytes is
\* read only once its SINGLE packet has come.
RespReadable == respQueued /\ Readable("s2c", RespLen[cmethod])

ClientWaiting == cpc = "read_resp" /\ ~RespReadable
ServerWaiting == \/ spc = "read_id" /\ ~Readable("c2s", 1)
                 \/ spc = "read_params" /\ ~Readable("c2s", ReqLen[smethod])
ClientStalled == cpc = "done" \/ ClientWaiting
ServerStalled == spc = "done" \/ ServerWaiting

-----------------------------------------------------------------------------
(* Client: mrpc_data_invoke_remote_call.                                   *)

\* A step of write_request: on failure the call returns 0.
ClientWrite(from, to, newchan) ==
    /\ cpc = from
    /\ \E r \in WriteResults(newchan) :
         /\ chan' = r.ch
         /\ faults' = WriteFaults(r)
         /\ cpc' = IF r.ok THEN to ELSE "done"
         /\ cresult' = IF r.ok THEN cresult ELSE "fail"
    /\ UNCHANGED <<cmethod, spc, smethod, sresult, sdata, callbacks, broken, respQueued>>

CWriteId == ClientWrite("write_id", "write_params", [chan EXCEPT !["c2s"] = PutBytes(@, <<cmethod>>)])

CWriteParams == ClientWrite("write_params", "flush", [chan EXCEPT !["c2s"] = PutBytes(@, RequestBytes(cmethod))])

CFlush == ClientWrite("flush", "read_resp", [chan EXCEPT !["c2s"] = FlushBytes(@)])

CReadResponse ==
    /\ cpc = "read_resp"
    /\ cpc' = "done"
    /\ \/ /\ RespReadable
          /\ chan' = Consume("s2c", RespLen[cmethod])
          /\ cresult' = "ok"
          /\ UNCHANGED faults
       \/ /\ ~RespReadable
          /\ faults' = ReadFaults(ServerStalled)
          /\ cresult' = "fail"
          /\ UNCHANGED chan
    /\ UNCHANGED <<cmethod, spc, smethod, sresult, sdata, callbacks, broken, respQueued>>

-----------------------------------------------------------------------------
(* Service: mrpc_data_process_remote_call.                                 *)

\* read_request reads the method id; an id the interface does not know
\* leaves data NULL and the call returns 0 without an answer.
SReadId ==
    /\ spc = "read_id"
    /\ \/ /\ Readable("c2s", 1)
          /\ LET id == Head(chan["c2s"].wire)
             IN  /\ chan' = Consume("c2s", 1)
                 /\ smethod' = id
                 /\ spc' = IF id \in ServerMethods THEN "read_params" ELSE "done"
                 /\ sdata' = (id \in ServerMethods)
          /\ UNCHANGED faults
       \/ /\ ~Readable("c2s", 1)
          /\ faults' = ReadFaults(ClientStalled)
          /\ spc' = "done"
          /\ UNCHANGED <<chan, smethod, sdata>>
    /\ UNCHANGED <<cpc, cmethod, cresult, sresult, callbacks, broken, respQueued>>

\* Mutant: a failed parameter read returns NULL without mrpc_data_delete.
SReadParamsKeepData ==
    /\ spc = "read_params"
    /\ \/ /\ Readable("c2s", ReqLen[smethod])
          /\ chan' = Consume("c2s", ReqLen[smethod])
          /\ spc' = "invoke"
          /\ UNCHANGED faults
       \/ /\ ~Readable("c2s", ReqLen[smethod])
          /\ faults' = ReadFaults(ClientStalled)
          /\ spc' = "done"
          /\ UNCHANGED chan
    /\ UNCHANGED <<cpc, cmethod, cresult, smethod, sresult, sdata, callbacks, broken, respQueued>>

\* Mutant: process_remote_call writes the response without calling the
\* method's callback.
SReadParamsNoCallback ==
    /\ spc = "read_params"
    /\ \/ /\ Readable("c2s", ReqLen[smethod])
          /\ chan' = Consume("c2s", ReqLen[smethod])
          /\ spc' = "write_resp"
          /\ UNCHANGED <<faults, sdata>>
       \/ /\ ~Readable("c2s", ReqLen[smethod])
          /\ faults' = ReadFaults(ClientStalled)
          /\ spc' = "done"
          /\ sdata' = FALSE
          /\ UNCHANGED chan
    /\ UNCHANGED <<cpc, cmethod, cresult, smethod, sresult, callbacks, broken, respQueued>>

\* read_request reads the parameters and deletes the data if that fails.
SReadParams ==
    /\ spc = "read_params"
    /\ \/ /\ Readable("c2s", ReqLen[smethod])
          /\ chan' = Consume("c2s", ReqLen[smethod])
          /\ spc' = "invoke"
          /\ UNCHANGED <<faults, sdata>>
       \/ /\ ~Readable("c2s", ReqLen[smethod])
          /\ faults' = ReadFaults(ClientStalled)
          /\ spc' = "done"
          /\ sdata' = FALSE
          /\ UNCHANGED chan
    /\ UNCHANGED <<cpc, cmethod, cresult, smethod, sresult, callbacks, broken, respQueued>>

SInvoke ==
    /\ spc = "invoke"
    /\ callbacks' = callbacks + 1
    /\ spc' = "write_resp"
    /\ UNCHANGED <<cpc, cmethod, cresult, smethod, sresult, sdata, chan, broken, faults, respQueued>>

\* A step of write_response, which queues a packet when it succeeds and
\* queues is TRUE; whatever it returns, the data is deleted and its result
\* is the call's.
ServerWrite(from, to, newchan, queues) ==
    /\ spc = from
    /\ \E r \in WriteResults(newchan) :
         /\ chan' = r.ch
         /\ faults' = WriteFaults(r)
         /\ respQueued' = (respQueued \/ (r.ok /\ ~broken /\ queues))
         /\ spc' = IF r.ok THEN to ELSE "done"
         /\ sdata' = (r.ok /\ to # "done")
         /\ sresult' = (r.ok /\ to = "done")
    /\ UNCHANGED <<cpc, cmethod, cresult, smethod, callbacks, broken>>

\* Mutant: write_response returns after writing, without ff_stream_flush.
SWriteResponseNoFlush == ServerWrite("write_resp", "done", [chan EXCEPT !["s2c"] = PutBytes(@, ResponseBytes(smethod))],
                                    Shipped(chan["s2c"].pend \o ResponseBytes(smethod)) > 0)

SWriteResponse == ServerWrite("write_resp", "flush", [chan EXCEPT !["s2c"] = PutBytes(@, ResponseBytes(smethod))],
                             Shipped(chan["s2c"].pend \o ResponseBytes(smethod)) > 0)

\* Mutant: a response whose flush fails is answered again, callback and all.
SFlushRetry ==
    /\ spc = "flush"
    /\ \E r \in WriteResults([chan EXCEPT !["s2c"] = FlushBytes(@)]) :
         /\ chan' = r.ch
         /\ faults' = WriteFaults(r)
         /\ spc' = IF r.ok THEN "done" ELSE "invoke"
         /\ respQueued' = (respQueued \/ (r.ok /\ ~broken))
         /\ sdata' = ~r.ok
         /\ sresult' = r.ok
    /\ UNCHANGED <<cpc, cmethod, cresult, smethod, callbacks, broken>>

SFlush == ServerWrite("flush", "done", [chan EXCEPT !["s2c"] = FlushBytes(@)], TRUE)

-----------------------------------------------------------------------------
(* The connection stops: packets not yet delivered from some point on are *)
(* lost, and the current packets are never sent.                           *)

Break ==
    /\ ~broken
    /\ cpc # "done" \/ spc # "done"
    /\ broken' = TRUE
    /\ faults' = faults \cup {"break"}
    /\ \E keep \in [Dirs -> 0..Len(chan["c2s"].wire) + Len(chan["s2c"].wire)] :
         /\ \A d \in Dirs : keep[d] <= Len(chan[d].wire)
         /\ chan' = [d \in Dirs |-> [pend |-> <<>>, wire |-> SubSeq(chan[d].wire, 1, keep[d])]]
         /\ respQueued' \in IF keep["s2c"] > 0 THEN {respQueued} ELSE {respQueued, FALSE}
    /\ UNCHANGED <<cpc, cmethod, cresult, spc, smethod, sresult, sdata, callbacks>>

-----------------------------------------------------------------------------
\* mrpc_data_create asserts the id is one of the client's interface.
Init ==
    /\ cpc = "write_id"
    /\ cmethod \in ClientMethods
    /\ cresult = "none"
    /\ spc = "read_id"
    /\ smethod = cmethod
    /\ sresult = FALSE
    /\ sdata = FALSE
    /\ callbacks = 0
    /\ chan = [d \in Dirs |-> [pend |-> <<>>, wire |-> <<>>]]
    /\ broken = FALSE
    /\ faults = {}
    /\ respQueued = FALSE

ClientStep == CWriteId \/ CWriteParams \/ CFlush \/ CReadResponse
ServerStep == SReadId \/ SReadParams \/ SInvoke \/ SWriteResponse \/ SFlush

Next == ClientStep \/ ServerStep \/ Break

Spec == Init /\ [][Next]_vars

\* Client and service are threads of two processes, each scheduled on its
\* own; nothing forces the connection to break.
Fairness == WF_vars(ClientStep) /\ WF_vars(ServerStep)

FairSpec == Spec /\ Fairness

-----------------------------------------------------------------------------
TypeOK ==
    /\ cpc \in {"write_id", "write_params", "flush", "read_resp", "done"}
    /\ cmethod \in ClientMethods
    /\ cresult \in {"none", "ok", "fail"}
    /\ spc \in {"read_id", "read_params", "invoke", "write_resp", "flush", "done"}
    /\ smethod \in Methods
    /\ sresult \in BOOLEAN /\ sdata \in BOOLEAN
    /\ callbacks \in 0..1
    /\ chan \in [Dirs -> [pend : Seq(Bytes), wire : Seq(Bytes)]]
    /\ broken \in BOOLEAN
    /\ faults \subseteq {"break", "timeout"}
    /\ respQueued \in BOOLEAN

\* Every way out of mrpc_data_process_remote_call, the failed parameter
\* read and the failed response write included, has deleted the mrpc_data
\* that read_request created.
ServerDataFreed == spc = "done" => ~sdata

\* The marshalled call keeps the promise of CallChannel: the service runs
\* the method at most once and only for the id the client sent, a call
\* that returns success was run, and every call returns.
CC == INSTANCE CallChannel
        WITH call <- IF cpc # "done" THEN "pending"
                     ELSE IF cresult = "ok" THEN "ok" ELSE "failed",
             method <- cmethod,
             served <- callbacks

CallChannelRefined == CC!Spec

\* With no break and no timeout racing a late answer, a call of a method
\* the service knows succeeds: both write_request and write_response flush
\* what they wrote, so neither side waits for bytes left in the other's
\* current packet.
ServedCallSucceeds == <>(cresult = "ok" \/ faults # {} \/ cmethod \notin ServerMethods)

====
