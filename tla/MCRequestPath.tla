------------------------ MODULE MCRequestPath ------------------------
(***********************************************************************)
(* What a request meets on its way, on small instances: the gateway    *)
(* and the user service behind it, the auth service, and the trace     *)
(* context that goes along.  The three share no state and each         *)
(* property speaks of one of them, so a behaviour takes the steps of   *)
(* one while the others stay as they started: the run has the sum of   *)
(* their states, not the product.                                      *)
(***********************************************************************)
EXTENDS UserService, AuthService, Tracing, TLC

VARIABLE subject  \* the part whose steps the behaviour takes

Symmetry == Permutations(Requests)

RequestPathInit ==
    /\ UserInit
    /\ AuthInit
    /\ TracingInit
    /\ subject \in {"users", "auth", "tracing"}

RequestPathNext ==
    /\ UNCHANGED subject
    /\ \/ subject = "users" /\ UserNext /\ UNCHANGED <<authVars, traceVars>>
       \/ subject = "auth" /\ AuthNext /\ UNCHANGED <<gatewayVars, userVars, traceVars>>
       \/ subject = "tracing" /\ TracingNext /\ UNCHANGED <<gatewayVars, userVars, authVars>>

RequestPathSpec ==
    RequestPathInit /\ [][RequestPathNext]_<<gatewayVars, userVars, authVars, traceVars, subject>>
======================================================================
