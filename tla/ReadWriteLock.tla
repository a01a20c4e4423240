---------------------------- MODULE ReadWriteLock ----------------------------
(***************************************************************************)
(* What ReadWriteMutex promises to the callers of withReadLock and         *)
(* withWriteLock: blocks run under the lock, many readers or one writer.   *)
(***************************************************************************)
CONSTANT Process

VARIABLE block  \* which block each process runs

Blocks == {"none", "read", "write"}

Init == block = [p \in Process |-> "none"]

EnterRead(p) ==
    /\ block[p] = "none"
    /\ \A q \in Process : block[q] # "write"
    /\ block' = [block EXCEPT ![p] = "read"]

EnterWrite(p) ==
    /\ \A q \in Process : block[q] = "none"
    /\ block' = [block EXCEPT ![p] = "write"]

Exit(p) ==
    /\ block[p] # "none"
    /\ block' = [block EXCEPT ![p] = "none"]

Next == \E p \in Process : EnterRead(p) \/ EnterWrite(p) \/ Exit(p)

Spec == Init /\ [][Next]_block

TypeOK == block \in [Process -> Blocks]

\* A writer is alone.
WritersAlone ==
    \A p, q \in Process : p # q /\ block[p] = "write" => block[q] = "none"
=============================================================================
