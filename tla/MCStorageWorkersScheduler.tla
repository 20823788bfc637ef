--------------------- MODULE MCStorageWorkersScheduler ---------------------
(* Small instances of StorageWorkersScheduler for TLC. *)
EXTENDS StorageWorkersScheduler, TLC

CONSTANTS c1, c2, c3, w1, w2

TwoCalls == {c1, c2}
ThreeCalls == {c1, c2, c3}
OneWorker == {w1}
TwoWorkers == {w1, w2}

SixIds == 1 .. 6
CallAndWorkerSymmetry == Permutations(Calls) \cup Permutations(Workers)
=============================================================================
