---------------------------- MODULE MCRpcClient ----------------------------
(* One call, of every method, over two endpoints. *)
EXTENDS RpcClient, TLC

CONSTANTS f1, e1, e2

TwoEndpoints == <<e1, e2>>
EachMethod == [Flows -> SubmissionKinds \cup ReadKinds]
=============================================================================
