------------------------------ MODULE MCSession ------------------------------
(* Two explicit transactions and two worker jobs on one session.            *)
EXTENDS StorageSession, TLC

CONSTANTS h1, h2, j1, j2

MCHandles == {h1, h2}
MCJobs == {j1, j2}
Callers == Permutations(MCHandles) \cup Permutations(MCJobs)
=============================================================================
