------------------------------ MODULE MCWorker ------------------------------
(* Worker on small instances for TLC. *)
EXTENDS Worker, TLC

\* Request ids are interchangeable wherever no liveness is checked.
Symmetry == Permutations(Requests)
=============================================================================
