--------------------------- MODULE MCReadWriteMutex ---------------------------
(* Instances of ReadWriteMutex for TLC. *)
EXTENDS ReadWriteMutex, TLC

Symmetry == Permutations(Process)

WaitingWriters == {"waitAllowWrite", "waitReaders"}
WaitingReaders == {"waitAllowReads", "waitState"}
CountedReaders == {"entering", "reading", "waitStateAgain"}

AfterCounting == WaitingWriters \cup CountedReaders
=============================================================================
