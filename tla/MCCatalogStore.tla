--------------------------- MODULE MCCatalogStore ---------------------------
(***************************************************************************)
(* Lists of up to two rows over one model, two benchmarks and two tasks:   *)
(* the shortest in which a later row conflicts with an earlier one; one    *)
(* source to be extracted, and one report that may or may not have a row.  *)
(***************************************************************************)
EXTENDS CatalogStore, TLC

CONSTANT k1
MCScanner == <<k1>>

RowLists == {<<r>> : r \in Row} \cup {<<r1, r2>> : r1, r2 \in Row}
WriterSymmetry == Permutations(Writer)

=============================================================================
