----------------------------- MODULE MCDataPath -----------------------------
(***************************************************************************)
(* The three specifications of the agent's data path in one run: what the  *)
(* maps in place make of packets (PacketPath), how one policy is written   *)
(* over another (PolicyApply), and one token bucket of a limiter           *)
(* (TokenBucket).  They share no variable, so nothing is learnt from their *)
(* interleavings: a behaviour is one of one of them, chosen at the start,  *)
(* with the other two at rest in an initial state of theirs.  A packet     *)
(* changes `last' alone, which no action reads: what could follow it       *)
(* follows the state before it just as well and is looked at there.        *)
(***************************************************************************)
EXTENDS MCPacketPath, MCPolicyApply, TokenBucket

VARIABLE part

DataPathInit ==
  /\ Init /\ ApplyInit /\ BucketInit
  /\ part \in {"packets", "writes", "bucket"}
  /\ part # "writes" => wanted = Empty
  /\ part # "bucket" => block = 0

DataPathNext ==
  /\ UNCHANGED part
  /\ \/ part = "packets" /\ UNCHANGED <<applyVars, bucketVars>> /\ last = Quiet /\ Next
     \/ part = "writes" /\ UNCHANGED <<vars, bucketVars>> /\ ApplyNext
     \/ part = "bucket" /\ UNCHANGED <<vars, applyVars>> /\ BucketNext

DataPathSpec == DataPathInit /\ [][DataPathNext]_<<part, vars, applyVars, bucketVars>>
=============================================================================
