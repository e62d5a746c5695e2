------------------------- MODULE MCDepletionLogger -------------------------
(***************************************************************************)
(* DepletionLogger for TLC with threads of both pool classes; MCPools has  *)
(* the instance with one class.                                            *)
(***************************************************************************)
EXTENDS DepletionLogger

BothClasses ==
    [t \in Threads |-> IF t = CHOOSE u \in Threads : TRUE THEN "SeqPool"
                                                    ELSE "LockFreeSeqPool"]

=============================================================================
