-------------------------- MODULE MCSharedStorage --------------------------
(* Instances of SharedStorage for TLC. *)
EXTENDS SharedStorage

CONSTANTS info, p1

\* A note with one replaced password, with ids 10 and 11, and either one HOTP
\* note and a generated password or two HOTP notes.
Generated(n) ==
    [i \in 1 .. n |-> [id |-> 12 + i, passw |-> p1, genTime |-> 0]]

Hotps(n) ==
    [i \in 1 .. n |->
        [id |-> 11 + i, info |-> info, secret |-> p1,
         method |-> "HOTP", counter |-> 0, colorGroupId |-> 0]]

Storage(hotps, generated) ==
    [idCounter |-> 12 + hotps + generated, colorGroupIdCounter |-> 11,
     colorGroups |-> <<>>,
     notes |-> <<[id |-> 10, info |-> info, passw |-> p1, genTime |-> 0,
                  colorGroupId |-> 0,
                  history |-> <<[id |-> 11, passw |-> p1, genTime |-> 0]>>]>>,
     otpNotes |-> Hotps(hotps), generatedPassws |-> Generated(generated)]

Storages == {Storage(1, 1), Storage(2, 0)}
=============================================================================
