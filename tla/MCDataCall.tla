----------------------------- MODULE MCDataCall -----------------------------
EXTENDS DataCall

\* Method 1 has a request longer than one packet and an answer that fits in
\* one; method 2 has no request parameters and is unknown to the service;
\* method 3 has an empty answer, sent as an empty SINGLE packet by the flush;
\* method 4 has a request that exactly fills one packet, kept current until
\* the flush, and an answer longer than one packet.
MCReqLen == (1 :> 3) @@ (2 :> 0) @@ (3 :> 1) @@ (4 :> 1)
MCRespLen == (1 :> 2) @@ (2 :> 1) @@ (3 :> 0) @@ (4 :> 3)

====
