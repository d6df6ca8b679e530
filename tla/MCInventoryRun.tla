--------------------------- MODULE MCInventoryRun ---------------------------
(* Instances of InventoryRun for TLC.                                       *)
EXTENDS InventoryRun, TLC

CONSTANTS e1, e2, k1, k2, k3, k4

\* What the scans may find: nothing (every collector failed), an entity with
\* one, two or four records, a changed record, and two entities, which make two
\* chunks.  A round of enforceBudget brings two records within a budget of one,
\* and not four.
Device == {
    [e \in {} |-> NoRecords],
    [e \in {e1} |-> (k1 :> 1)],
    [e \in {e1} |-> (k1 :> 2)],
    [e \in {e1} |-> (k1 :> 1 @@ k2 :> 1)],
    [e \in {e1} |-> [k \in Keys |-> 1]],
    [e \in {e1, e2} |-> IF e = e1 THEN k2 :> 1 ELSE NoRecords]}
=============================================================================
