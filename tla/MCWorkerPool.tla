---------------------------- MODULE MCWorkerPool ----------------------------
(* Instances of WorkerPool for TLC: threads are model values and           *)
(* interchangeable within their role, which the safety runs use.           *)
EXTENDS WorkerPool, TLC

Symmetry == Permutations(Workers) \cup Permutations(Submitters)
                \cup Permutations(Poppers) \cup Permutations(Stoppers)

=============================================================================
