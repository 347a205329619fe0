--------------------------- MODULE MCTieredMemory ---------------------------
(***************************************************************************)
(* Small instances of TieredMemory: a scope with two keys and one with one *)
(* key.                                                                    *)
(***************************************************************************)
EXTENDS TieredMemory

CONSTANTS a1, a2, b1, sa, sb

KeyScopes == [id \in {a1, a2, b1} |-> IF id = b1 THEN sb ELSE sa]

\* localeCompare: not the order in which the ids are written.
KeyOrder == [id \in {a1, a2, b1} |-> IF id = a1 THEN 2 ELSE IF id = a2 THEN 1 ELSE 3]

=============================================================================
