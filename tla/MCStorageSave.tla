---------------------------- MODULE MCStorageSave ----------------------------
(* Instances of StorageSave for TLC: every storage of at most two notes,   *)
(* one of which may be an otp note.                                        *)
EXTENDS StorageSave

CONSTANTS n1, n2, o1

MCItems == {n1, n2, o1}

Symmetry == Permutations({n1, n2})

MCDocuments ==
    {d \in [colorGroups : {<<>>}, notes : BoundedSeq({n1, n2}, 2),
            generatedPassws : {<<>>}, otpNotes : {<<>>, <<o1>>}] :
        Len(d.notes) + Len(d.otpNotes) <= 2}
=============================================================================
