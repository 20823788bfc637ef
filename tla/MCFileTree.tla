----------------------------- MODULE MCFileTree -----------------------------
(* Small instances of FileTree for TLC: the folders a, a/b and g, a file f   *)
(* with copies and a file g.                                                *)
EXTENDS FileTree, TLC

CONSTANTS r1, r2, r3, s1, s2, a, b, f, g

TwoRequests == {r1, r2}
ThreeRequests == {r1, r2, r3}
TwoSeeds == {s1, s2}
AllNames == {a, b, f, g}

C(n) == <<n, 0>>
File(d, n, k) == [dir |-> d, leaf |-> <<n, k>>]
A == << C(a) >>
B == << C(b) >>
AB == << C(a), C(b) >>
G == << C(g) >>

Nested == {A, AB}
Beside == {A, B}
SomeUploads == {File(A, f, 0), File(AB, f, 0)}
SomeDeletes == {FolderPath(A), FolderPath(AB), FolderPath(G), File(A, f, 0), File(A, g, 0), File(AB, f, 0)}
SomePaths == {FolderPath(A), File(A, f, 0), File(A, g, 0), File(AB, f, 0), File(G, f, 0)}
None_ == {}

\* As a pattern: a has the sign _ in its name and b is like it, as a_b and axb are.
In(d) == {FolderPath(d)} \cup {File(d, n, k) : n \in {f, g}, k \in 0 .. 3}
UnderscoreA == {A} \X In(B)
BesideFiles == {File(A, f, 0), File(B, f, 0)}
DeleteA == {FolderPath(A)}

\* Or: g is _ and a backslash, so that its folder matches what is in every folder with
\* a name of one sign, and not what is in itself; of the paths that can occur.
OnlyG == {G}
InFolders == {FolderPath(A), FolderPath(AB), FolderPath(G), File(A, g, 0), File(G, f, 0)}
    \cup {File(d, f, k) : d \in {A, AB}, k \in 0 .. 3}
UnderscoreAndBackslash == {<<G, p>> : p \in InFolders}

\* A name that is not ASCII: of the inner folder, or of a file with a copy.
OnlyB == {b}
OnlyF == {f}
OneUpload == {File(A, f, 0)}
TwoCopies == {File(A, f, 0), File(A, f, 1)}

RequestSymmetry == Permutations(Requests) \cup Permutations(Seeds)
=============================================================================
