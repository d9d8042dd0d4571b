----------------------------- MODULE MCAttackSim -----------------------------
(* Values for TLC: the other clients share a subject and a device.         *)
EXTENDS AttackSim, TLC

CONSTANTS u, d

MCHandles  == Others \cup Own
MCSubjects == {u} \cup Own
MCDevices  == {d} \cup Own

Symmetry == Permutations(Others)
=============================================================================
