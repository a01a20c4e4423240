--------------------------- MODULE MCCrypStorageV2 ---------------------------
(* Instances of CrypStorageV2 for TLC. *)
EXTENDS CrypStorageV2

Symmetry == Permutations(Infos) \cup Permutations(Passws)
SymmetricStorages == Symmetry \cup Permutations(Storages)

\* none, the first group a storage has, and ColorGroup.otpNotes(), which the
\* screens offer beside the groups of the storage
GroupIds == {0, 11, -203}

NotesNext ==
    \/ SessionStep
    \/ \E s \in Storages : NoteStep(s)
    \/ \E s \in Storages, id \in AnyId : RemoveHist(s, id)
    \/ Tick
NotesSpec == Init /\ [][NotesNext]_vars

MoveNext ==
    \/ SessionStep
    \/ \E s \in Storages : NoteStep(s) \/ OtpStep(s)
    \/ Tick
MoveSpec == Init /\ [][MoveNext]_vars
=============================================================================
