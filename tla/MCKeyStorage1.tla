---------------------------- MODULE MCKeyStorage1 ----------------------------
(* Instances of KeyStorage1 for TLC: passwords on both sides of the limits  *)
(* of the salted text.                                                      *)
EXTENDS KeyStorage1

MCPassws ==
    {[word |-> "a", len |-> 16], [word |-> "b", len |-> 27],
     [word |-> "long", len |-> 28], [word |-> "ring", len |-> 36]}
=============================================================================
