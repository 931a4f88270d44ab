--------------------------- MODULE MCPacketStream ---------------------------
(* One packet stream with a 2-byte packet capacity, so that a 5-byte       *)
(* message is START+MIDDLE+END; queues of one packet, so that puts block   *)
(* and time out. Pool entries are interchangeable (ff_pool hands out any   *)
(* free one), so the handles are a symmetry set.                           *)
EXTENDS PacketStream

CONSTANTS s1, h1, h2, h3, h4, h5

MCStreams == {s1}
MCHandles == {h1, h2, h3, h4, h5}
MCSymmetry == Permutations(MCHandles)
====
