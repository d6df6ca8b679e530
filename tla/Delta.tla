-------------------------------- MODULE Delta --------------------------------
(***************************************************************************)
(* The pure part of an inventory run: collections, the delta of two scans  *)
(* (internal/state/state.go) and what a receiver makes of it.              *)
(*                                                                         *)
(* A collection is a function from the keys of its records to their        *)
(* fingerprints; an inventory is a function from entity names to           *)
(* collections.                                                            *)
(***************************************************************************)
EXTENDS Naturals, FiniteSets

CONSTANTS
    Entities,      \* the entity names of the collectors
    Keys,          \* the record keys
    Fingerprints   \* what the fingerprints tell apart

Collections == UNION {[K -> Fingerprints] : K \in SUBSET Keys}
Inventories == UNION {[E -> Collections] : E \in SUBSET Entities}

NoRecords == [k \in {} |-> 0]

\* The collection of entity e in an inventory or a state file: prev[name] of
\* an absent name is the empty map.
Of(inv, e) == IF e \in DOMAIN inv THEN inv[e] ELSE NoRecords

NewKeys(cur, old) == DOMAIN cur \ DOMAIN old
ChangedKeys(cur, old) == {k \in DOMAIN cur \cap DOMAIN old : cur[k] # old[k]}

\* Mutant: a record that is gone is not noticed.
DeltaWithoutRemoved(cur, old) ==
    [records |-> [k \in NewKeys(cur, old) \cup ChangedKeys(cur, old) |-> cur[k]],
     removed |-> {}]

\* One EntityDelta: the records added or changed, and the keys of the removed.
DeltaOf(cur, old) ==
    [records |-> [k \in NewKeys(cur, old) \cup ChangedKeys(cur, old) |-> cur[k]],
     removed |-> DOMAIN old \ DOMAIN cur]

\* BuildDelta visits the entities of this scan.
BuildDelta(entities, prev) == [e \in DOMAIN entities |-> DeltaOf(entities[e], Of(prev, e))]

\* A snapshot is its own set of records.
AsRecords(entities) == [e \in DOMAIN entities |-> [records |-> entities[e], removed |-> {}]]

\* What a receiver that holds `old` makes of one entity's part of a message.
Applied(old, part) ==
    [k \in (DOMAIN old \ part.removed) \cup DOMAIN part.records |->
        IF k \in DOMAIN part.records THEN part.records[k] ELSE old[k]]
=============================================================================
