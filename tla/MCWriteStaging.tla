---------------------------- MODULE MCWriteStaging ----------------------------
(* Instances of WriteStaging for TLC: a few competing requests.                *)
EXTENDS WriteStaging, TLC

CONSTANTS k1, k2, t1, t2, v0, v1, c1, c2

Swap(k, old, new) == [key |-> k, path |-> t1, content |-> new, pre |-> old]

\* k1 takes the file from v0 to v1 and k2 back again; k1 is also misused for
\* another request.
BackAndForth == {Swap(k1, v0, v1), Swap(k2, v1, v0), Swap(k1, None, v1)}

Symmetry == Permutations(Clients)
=============================================================================
