---------------------------- MODULE InventoryRun ----------------------------
(***************************************************************************)
(* Inventory mode: scan after scan of one device (internal/app/run.go),    *)
(* each collected, trimmed to the payload budget, sent as a snapshot or as *)
(* a delta of the saved baseline in one or more chunks, spooled where a    *)
(* chunk is not answered (internal/ingest/ingest.go), and saved as the     *)
(* next baseline (internal/state/state.go).  A run may be killed at any    *)
(* step; the spool and the state file outlive it.                          *)
(*                                                                         *)
(* The ingest server is external.  A receiver knows a scan when it has all *)
(* of its chunks, and those of the scans it builds on.                     *)
(***************************************************************************)
EXTENDS Delta, Sequences, SequencesExt, FiniteSetsExt

CONSTANTS
    Scans,        \* what the device's collectors may find, scan by scan
    MaxScans,     \* bound: how many envelopes are built
    MaxRecords,   \* MaxPayloadBytes, in records
    MaxRounds,    \* enforceBudget's rounds at most (40)
    DryRuns,      \* TRUE: some runs are dry
    NoBaseline    \* there is no state file

ASSUME InventoryAssumption ==
    /\ IsFiniteSet(Entities) /\ Entities # {}
    /\ Scans \subseteq Inventories
    /\ MaxScans \in Nat \ {0}
    /\ MaxRecords \in Nat
    /\ MaxRounds \in Nat
    /\ DryRuns \in BOOLEAN

VARIABLES
    pc,         \* where the run is
    cur,        \* its entities
    dry,        \* cfg.DryRun
    trimmed,    \* enforceBudget summarized a collection
    guard,      \* its rounds so far
    todo,       \* spool files drain has still to visit
    next,       \* the chunk Send is at
    failed,     \* Send: something was not answered
    baseline,   \* the state file
    files,      \* the chunks in the spool directory
    torn,       \* those that were not written completely
    received,   \* the chunks the server has
    \* --- history
    sent,       \* the envelopes, by scan
    seen,       \* what was collected for each of them
    finished    \* scans whose run returned without error and was not dry

run     == <<pc, cur, dry, trimmed, guard>>
sending == <<todo, next, failed>>
durable == <<baseline, files, torn>>
history == <<sent, seen, finished>>
vars    == <<run, sending, durable, received, history>>

Scan == Len(sent)

\* The chunks of an envelope: its groups of entities, by index.
Chunks(n) == {[scan |-> n, index |-> i] : i \in DOMAIN sent[n].groups}

TypeOK ==
    /\ pc \in {"idle", "budget", "build", "drain", "send", "save"}
    /\ cur \in Inventories
    /\ {dry, trimmed, failed} \subseteq BOOLEAN
    /\ guard \in 0 .. MaxRounds
    /\ \A f \in files \cup todo \cup received :
          f.scan \in 1 .. Scan /\ f \in Chunks(f.scan)
    /\ torn \subseteq files
    /\ next \in 1 .. Cardinality(Entities) + 1
    /\ baseline = NoBaseline \/ (baseline.scan \in 1 .. Scan /\ baseline.maps \in Inventories)
    /\ finished \subseteq 1 .. Scan
    /\ Scan <= MaxScans
    /\ Len(seen) = IF pc = "build" \/ (pc = "budget" /\ trimmed) THEN Scan + 1 ELSE Scan

Init ==
    /\ pc = "idle"
    /\ cur = [e \in {} |-> NoRecords]
    /\ dry = FALSE
    /\ trimmed = FALSE
    /\ guard = 0
    /\ todo = {}
    /\ next = 1
    /\ failed = FALSE
    /\ baseline = NoBaseline
    /\ files = {}
    /\ torn = {}
    /\ received = {}
    /\ sent = <<>>
    /\ seen = <<>>
    /\ finished = {}

-----------------------------------------------------------------------------
\* A run ends: its memory goes.
EndRun ==
    /\ pc' = "idle"
    /\ cur' = [e \in {} |-> NoRecords]
    /\ dry' = FALSE
    /\ trimmed' = FALSE
    /\ guard' = 0
    /\ todo' = {}
    /\ next' = 1
    /\ failed' = FALSE

\* collect.Run: an entity whose collector fails is absent.
Collect ==
    /\ pc = "idle" /\ Scan < MaxScans
    /\ cur' \in Scans
    /\ dry' \in {FALSE, DryRuns}
    /\ pc' = "budget"
    /\ UNCHANGED <<trimmed, guard, sending, durable, received, history>>

-----------------------------------------------------------------------------
(* enforceBudget.  The trimmed records are unknown to the rest of the run;  *)
(* `seen` keeps what was collected.                                         *)

Records(e)  == Cardinality(DOMAIN cur[e])
Largest     == {e \in DOMAIN cur : \A d \in DOMAIN cur : Records(d) <= Records(e)}
OverBudget  == /\ MapThenSumSet(Records, DOMAIN cur) > MaxRecords
               /\ \E e \in Largest : Records(e) > 1
               /\ guard < MaxRounds

\* One round: a largest collection keeps the first half of its records.
Trim ==
    /\ pc = "budget" /\ OverBudget
    /\ \E e \in Largest : \E K \in kSubset(Records(e) \div 2, DOMAIN cur[e]) :
          cur' = [cur EXCEPT ![e] = [k \in K |-> @[k]]]
    /\ trimmed' = TRUE
    /\ guard' = guard + 1
    /\ seen' = IF trimmed THEN seen ELSE Append(seen, cur)
    /\ UNCHANGED <<pc, dry, sending, durable, received, sent, finished>>

\* The rest fits, or cannot be trimmed further, or the rounds are used up.
WithinBudget ==
    /\ pc = "budget" /\ ~OverBudget
    /\ pc' = "build"
    /\ guard' = 0
    /\ seen' = IF trimmed THEN seen ELSE Append(seen, cur)
    /\ UNCHANGED <<cur, dry, trimmed, sending, durable, received, sent, finished>>

-----------------------------------------------------------------------------
(* The envelope.                                                            *)

\* One chunk, or one for each entity when the envelope is too large.
Groupings == {<<DOMAIN cur>>, [i \in 1 .. Cardinality(DOMAIN cur) |-> {SetToSeq(DOMAIN cur)[i]}]}

Snapshot == [base |-> 0, parts |-> AsRecords(cur)]
DeltaMsg == [base |-> baseline.scan, parts |-> BuildDelta(cur, baseline.maps)]

\* Without -delta, without a state file or with an empty one: a snapshot.  A
\* spool directory that cannot be listed has, for drain, no files in it.
Build ==
    /\ pc = "build"
    /\ \E groups \in Groupings :
          \E msg \in {Snapshot} \cup
                (IF baseline # NoBaseline /\ DOMAIN baseline.maps # {} THEN {DeltaMsg} ELSE {}) :
             sent' = Append(sent, [base |-> msg.base, parts |-> msg.parts, groups |-> groups,
                                   dry |-> dry])
    /\ IF dry THEN pc' = "save" /\ UNCHANGED todo
       ELSE pc' = "drain" /\ todo' \in {files, {}}
    /\ UNCHANGED <<cur, dry, trimmed, guard, next, failed, durable, received, seen, finished>>

-----------------------------------------------------------------------------
(* Send.                                                                    *)

\* drain: a 2xx removes the file, if it can be removed.
DrainAnswered ==
    /\ pc = "drain"
    /\ \E f \in todo \ torn :
          /\ received' = received \cup {f}
          /\ files' \in {files \ {f}, files}
          /\ todo' = todo \ {f}
    /\ UNCHANGED <<run, next, failed, baseline, torn, history>>

\* Mutant: the file is removed whatever the answer.
DrainForgets ==
    /\ pc = "drain"
    /\ \E f \in todo :
          /\ files' = files \ {f}
          /\ torn' = torn \ {f}
          /\ todo' = todo \ {f}
    /\ failed' = TRUE
    /\ UNCHANGED <<run, next, baseline, received, history>>

\* Unreadable, refused or unanswered, perhaps after the server took it; a half
\* written file is refused.  The drain goes on.
DrainFailed ==
    /\ pc = "drain"
    /\ \E f \in todo :
          /\ received' \in {received, received \cup ({f} \ torn)}
          /\ todo' = todo \ {f}
    /\ failed' = TRUE
    /\ UNCHANGED <<run, next, durable, history>>

DrainEnds ==
    /\ pc = "drain" /\ todo = {}
    /\ pc' = "send"
    /\ UNCHANGED <<cur, dry, trimmed, guard, sending, durable, received, history>>

Chunk == [scan |-> Scan, index |-> next]

\* Mutant: one chunk more than there are.
ChunksAndOne == next \in 1 .. Len(sent[Scan].groups) + 1

MoreChunks == next \in DOMAIN sent[Scan].groups

ChunkAnswered ==
    /\ pc = "send" /\ MoreChunks
    /\ received' = received \cup {Chunk}
    /\ next' = next + 1
    /\ UNCHANGED <<run, todo, failed, durable, history>>

\* Mutant: a spooled chunk counts as delivered.
SpooledIsDelivered ==
    /\ pc = "send" /\ MoreChunks
    /\ files' = files \cup {Chunk}
    /\ next' = next + 1
    /\ UNCHANGED <<run, todo, failed, baseline, torn, received, history>>

\* Not answered within the retries: the chunk is spooled.
ChunkSpooled ==
    /\ pc = "send" /\ MoreChunks
    /\ received' \in {received, received \cup {Chunk}}
    /\ files' = files \cup {Chunk}
    /\ next' = next + 1
    /\ failed' = TRUE
    /\ UNCHANGED <<run, todo, baseline, torn, history>>

\* What os.WriteFile can leave of a chunk's file when it does not finish.
HalfFile ==
    \/ UNCHANGED <<files, torn>>
    \/ /\ files' = files \cup {Chunk}
       /\ torn' = torn \cup {Chunk}

\* The spool cannot be written: Send, and Run, return the error; the chunks
\* behind this one are neither sent nor spooled.
SpoolFails ==
    /\ pc = "send" /\ MoreChunks
    /\ received' \in {received, received \cup {Chunk}}
    /\ HalfFile
    /\ EndRun
    /\ UNCHANGED <<baseline, history>>

SendEnds ==
    /\ pc = "send" /\ ~MoreChunks
    /\ pc' = "save"
    /\ UNCHANGED <<cur, dry, trimmed, guard, sending, durable, received, history>>

-----------------------------------------------------------------------------
\* Mutant: the trimmed entities become the baseline.
SaveTrimmed ==
    /\ pc = "save"
    /\ baseline' = IF failed THEN baseline ELSE [scan |-> Scan, maps |-> cur]
    /\ finished' = IF dry THEN finished ELSE finished \cup {Scan}
    /\ EndRun
    /\ UNCHANGED <<files, torn, received, sent, seen>>

\* Delivered and not summarized: the scan is the new baseline, atomically.
Save ==
    /\ pc = "save"
    /\ baseline' = IF failed \/ trimmed THEN baseline ELSE [scan |-> Scan, maps |-> cur]
    /\ finished' = IF dry THEN finished ELSE finished \cup {Scan}
    /\ EndRun
    /\ UNCHANGED <<files, torn, received, sent, seen>>

\* The run is killed, or returns an error outside Send: nothing more is
\* written.  An envelope that was never built is forgotten.
Die ==
    /\ pc # "idle"
    /\ IF pc = "send" /\ MoreChunks THEN HalfFile ELSE UNCHANGED <<files, torn>>
    /\ seen' = SubSeq(seen, 1, Scan)
    /\ EndRun
    /\ UNCHANGED <<baseline, received, sent, finished>>

Next ==
    \/ Collect \/ Trim \/ WithinBudget \/ Build
    \/ DrainAnswered \/ DrainFailed \/ DrainEnds
    \/ ChunkAnswered \/ ChunkSpooled \/ SpoolFails \/ SendEnds
    \/ Save \/ Die

Spec == Init /\ [][Next]_vars

-----------------------------------------------------------------------------
(* Safety.                                                                  *)

\* What a receiver makes of scan n once it has everything n builds on.
Rebuilt ==
    LET r[n \in 0 .. Scan] ==
          IF n = 0 THEN [e \in {} |-> NoRecords]
          ELSE [e \in DOMAIN sent[n].parts |->
                   Applied(Of(r[sent[n].base], e), sent[n].parts[e])]
    IN  r

\* The server has all of scan n and of the scans it builds on.
Known ==
    LET k[n \in 0 .. Scan] ==
          n = 0 \/ (Chunks(n) \subseteq received /\ k[sent[n].base])
    IN  k

\* The state file names a scan the server can rebuild, through all its bases,
\* to exactly what was collected: so the next delta loses nothing, whatever
\* chunks failed, were spooled, replayed or written by halves before.  (A dry
\* run moves the baseline past what the server has: DeltasFollowBaseline.)
BaselineRebuildable ==
    baseline # NoBaseline /\ (\A n \in 1 .. Scan : ~sent[n].dry) =>
        /\ Known[baseline.scan]
        /\ Rebuilt[baseline.scan] = seen[baseline.scan]
        /\ baseline.maps = seen[baseline.scan]

\* A run that ended without an error has left no chunk behind: the server has
\* it, or a complete file that a later run replays.
ChunksKept ==
    \A n \in finished : Chunks(n) \subseteq received \cup (files \ torn)

-----------------------------------------------------------------------------
(* What the documentation says and the code does not do.                    *)

\* README: -delta sends "only changes after a baseline snapshot": a delta the
\* server receives builds on a scan it can rebuild.
DeltasFollowBaseline ==
    \A c \in received : Known[sent[c.scan].base]

\* README: a delta lists what was "added/changed/removed after a baseline":
\* what it lists as removed is gone from the device.
RemovedIsGone ==
    \A n \in 1 .. Scan : \A e \in DOMAIN sent[n].parts :
        sent[n].parts[e].removed \cap DOMAIN seen[n][e] = {}
=============================================================================
