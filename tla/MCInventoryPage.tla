---------------------------- MODULE MCInventoryPage ----------------------------
(* Model checking of InventoryPage: one collector at a time; the page shows   *)
(* the run of one of them.                                                    *)
EXTENDS InventoryPage

OneByOne(collectors) == {{collectors[i].name} : i \in DOMAIN collectors}
WatchedParts == {<<"linux", {"host"}>>}
=============================================================================
