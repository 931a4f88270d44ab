---------------------------- MODULE CallChannel ----------------------------
(***************************************************************************)
(* What one remote call promises its caller, whatever the stream under it *)
(* does: the call is to a method of the client's interface; the service   *)
(* runs the method at most once; a call that returns success was run by   *)
(* the service; and a pending call eventually returns, with success or    *)
(* with failure.  The service may run the method after the caller has     *)
(* already seen a failure (the answer was lost or came too late).         *)
(***************************************************************************)
CONSTANTS ClientMethods,   \* ids the caller's interface declares
          ServerMethods    \* ids the service's interface declares

VARIABLES call,     \* "pending", "ok" or "failed"
          method,   \* the id of the called method
          served    \* how many times the service ran it

ccvars == <<call, method, served>>

Init == /\ call = "pending"
        /\ method \in ClientMethods
        /\ served = 0

\* The service runs the method, once, if it knows the id.
Serve == /\ served = 0
         /\ method \in ServerMethods
         /\ served' = 1
         /\ UNCHANGED <<call, method>>

Succeed == /\ call = "pending"
           /\ served = 1
           /\ call' = "ok"
           /\ UNCHANGED <<method, served>>

Fail == /\ call = "pending"
        /\ call' = "failed"
        /\ UNCHANGED <<method, served>>

Next == Serve \/ Succeed \/ Fail

Spec == Init /\ [][Next]_ccvars /\ WF_ccvars(Succeed \/ Fail)

====
