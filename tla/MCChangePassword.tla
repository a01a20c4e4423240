-------------------------- MODULE MCChangePassword --------------------------
(* An instance of ChangePassword for TLC. *)
EXTENDS ChangePassword

\* Ids are numbered from 10: with two texts a storage has no others.  One
\* strategy for all of them, or a default one for some and one for the others.
StrategiesFor(part, default) ==
    [currentPassword : Passwords, newPassw : Passwords,
     noteIds : {part}, otpNoteIds : {{10, 11}}, isDefault : {default}]

ListsOfStrategies ==
    {<<s>> : s \in StrategiesFor({10, 11}, TRUE)}
    \cup {<<s, t>> : s \in StrategiesFor({10}, TRUE), t \in StrategiesFor({11}, FALSE)}

Symmetry == Permutations(Texts) \cup Permutations(Passwords)
=============================================================================
