---------------------------- MODULE MCDurableJobs ----------------------------
(* The job runtime for TLC: which rows are provisioning rows, and the symmetry
   of the workers (sound for the safety runs only).                           *)
EXTENDS DurableJobs, TLC

CONSTANTS w1, w2, mail, prov, p1, p2

BothKinds == {mail, prov}
ProvisioningRow == {prov}
TwoWorkers == {w1, w2}
TwoPayloads == {p1, p2}
OnePayload == {p1}

WorkerSymmetry == Permutations(TwoWorkers) \cup Permutations(TwoPayloads)
=============================================================================
