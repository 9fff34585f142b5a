--------------------------- MODULE MCTaskLifecycle ---------------------------
(* Three requests: two repeat one key for one source, the third has no key  *)
(* (MCPlainSource: same source) or reuses the key for another source        *)
(* (MCConflictSource, MCConflictKey).                                       *)
EXTENDS TaskLifecycle, TLC

CONSTANTS r1, r2, r3, s1, s2, k1, w1, w2

MCPlainSource == [r \in Requests |-> s1]
MCPlainKey == [r \in Requests |-> IF r = r3 THEN None ELSE k1]

MCConflictSource == [r \in Requests |-> IF r = r3 THEN s2 ELSE s1]
MCConflictKey == [r \in Requests |-> IF r = r2 THEN None ELSE k1]

(* The two requests that carry k1 for s1 can be exchanged. *)
MCPlainSymmetry == Permutations({r1, r2})

(* One task, for the runs about a single job. *)
MCOneSource == [r \in Requests |-> s1]
MCOneKey == [r \in Requests |-> None]
=============================================================================
