------------------------------ MODULE MCAccess ------------------------------
(* Small instances of Access for TLC. *)
EXTENDS Access, TLC

CONSTANTS h1, h2, h3, s1, s2, u1, u2, u3, n1, n2

TwoHandlers == {h1, h2}
ThreeHandlers == {h1, h2, h3}
OneStorage == {s1}
TwoStorages == {s1, s2}
OneUser == {u1}
TwoUsers == {u1, u2}
ThreeUsers == {u1, u2, u3}
OneName == {n1}
TwoNames == {n1, n2}
Symmetry ==
    Permutations(Handlers) \cup Permutations(Storages) \cup Permutations(Users)
        \cup Permutations(Names)
=============================================================================
