--------------------------- MODULE MCDomainRecords ---------------------------
(* A small account: who may act, what there is, which wordings.            *)
EXTENDS DomainRecords, TLC

CONSTANTS r1, r2, e1, e2, i1, i2, t1, t2
Symmetry == Permutations({r1, r2}) \cup Permutations({e1, e2})
            \cup Permutations({i1, i2}) \cup Permutations({t1, t2})
=============================================================================
