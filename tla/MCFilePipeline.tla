--------------------------- MODULE MCFilePipeline ---------------------------
(* Small instances of FilePipeline for TLC: two paths, deletes of one file  *)
(* or of the folder that holds both.                                        *)
EXTENDS FilePipeline, TLC

CONSTANTS r1, r2, r3, p1, p2

TwoRequests == {r1, r2}
ThreeRequests == {r1, r2, r3}
OnePath == {p1}
TwoPaths == {p1, p2}
FileScopes == {{p1}}
FileAndFolderScopes == {{p1}, {p1, p2}}
AllFaults == {"telegram", "database", "fallback", "client"}
AllButFallback == AllFaults \ {"fallback"}
NoFaults == {}
RequestSymmetry == Permutations(Requests)
=============================================================================
