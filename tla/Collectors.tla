------------------------------ MODULE Collectors ------------------------------
(***************************************************************************)
(* The shape of a collector (internal/collect): it reads its sources, the  *)
(* commands, files, registry keys and WMI classes of the device, one after *)
(* another, and answers records, an error, or both.  What a source says is *)
(* abstracted to whether its rows came; a collector is then the list of    *)
(* its reads, with what each does to the answer when the rows are there,   *)
(* when there are none, when the source is absent and when it fails.       *)
(*                                                                         *)
(* A record is known by its key and by the sources its fields come from;   *)
(* one record stands for all the rows of a source.                         *)
(***************************************************************************)
EXTENDS Naturals, Sequences, SequencesExt, FiniteSets

\* What reading a source may come to; `cut`: rows, and then an error.
Outcomes == {"rows", "empty", "absent", "failed", "cut"}

\* Levels.
Minimal == 0
Quick   == 1
Full    == 2

-----------------------------------------------------------------------------
(* Reads.                                                                   *)

\* What happens to the answer after a read:
\*   go       the collector goes on
\*   note     an error is kept, and the collector goes on
\*   end      the records so far, no error
\*   stop     the records so far and the error
\*   nothing  no records, no error
\*   abort    no records, the error
\*   only     the records of this read alone, no error
Read(source, into, empty, absent, failed) ==
    [source |-> source, key |-> source, into |-> into, scanned |-> FALSE,
     rows |-> "go", empty |-> empty, absent |-> absent, failed |-> failed, cut |-> "note"]

Must(source)      == Read(source, "records", "go", "abort", "abort")
Partly(source)    == Read(source, "records", "go", "stop", "stop")
Noted(source)     == Read(source, "records", "go", "note", "note")
Maybe(source)     == Read(source, "records", "go", "go", "go")
OrNothing(source) == Read(source, "records", "go", "nothing", "nothing")
OrSoFar(source)   == Read(source, "records", "go", "end", "end")

\* The rows go into the fields of the records there are, or, `either`, make a
\* record if there is none.
Fields(read)  == [read EXCEPT !.into = "fields"]
Either(read)  == [read EXCEPT !.into = "either"]
IfThere(read) == [read EXCEPT !.absent = "go"]
NotEmpty(read) == [read EXCEPT !.empty = read.failed]
\* The first source with rows makes the answer.
Enough(read) == [read EXCEPT !.rows = "end"]
Keyed(read, key) == [read EXCEPT !.key = key]

\* Read line by line: the scanner may fail midway.
Scanned(read) == [read EXCEPT !.scanned = TRUE]

\* Rows for what no source before it has named.
Unlisted(read) == [read EXCEPT !.into = "unlisted"]

\* Keys that count the numbered records before them.
Numbered(read, key) == [read EXCEPT !.key = key, !.into = "numbered"]

\* Mutant: a file that cannot be read is an empty one, too.
AttributeUnreported(file) == Fields(Maybe(file))

\* readOptionalTrim: a missing file is an empty one.
Attribute(file) == Fields(IfThere(Noted(file)))

-----------------------------------------------------------------------------
(* Collectors.                                                              *)

Records(name, level, reads) ==
    [name |-> name, level |-> level, reads |-> reads, shuffled |-> {}, record |-> "by rows"]

\* One record, whatever the sources say.
OneRecord(name, level, reads) == [Records(name, level, reads) EXCEPT !.record = "always"]

\* One record, if a source has a field for it.
SomeFields(name, level, reads) == [Records(name, level, reads) EXCEPT !.record = "if filled"]

\* The reads at I are made in the order of a map's iteration.
Shuffled(c, I) == [c EXCEPT !.shuffled = I]

Sources(c) == {c.reads[i].source : i \in DOMAIN c.reads}

\* The orders in which a run may make the reads of c.
ReadOrders(c) ==
    {[i \in DOMAIN c.reads |-> c.reads[IF i \in c.shuffled THEN p[i] ELSE i]] :
        p \in Permutations(c.shuffled)}

-----------------------------------------------------------------------------
Fresh(read, number) == [key |-> read.key, number |-> number, from |-> {read.source}]

WithRows(recs, read) ==
    CASE read.into = "records" \/ (read.into \in {"either", "unlisted"} /\ recs = <<>>) ->
            Append(recs, Fresh(read, 0))
      [] read.into = "unlisted" -> recs
      [] read.into = "numbered" ->
            Append(recs, Fresh(read, 1 + Len(SelectSeq(recs, LAMBDA r : r.number > 0))))
      [] OTHER ->
            [i \in DOMAIN recs |-> [recs[i] EXCEPT !.from = @ \cup {read.source}]]

After(reaction, answer, read) ==
    CASE reaction = "go"      -> answer
      [] reaction = "note"    -> [answer EXCEPT !.err = TRUE]
      [] reaction = "end"     -> [answer EXCEPT !.over = TRUE]
      [] reaction = "stop"    -> [answer EXCEPT !.err = TRUE, !.over = TRUE]
      [] reaction = "nothing" -> [recs |-> <<>>, err |-> FALSE, over |-> TRUE]
      [] reaction = "abort"   -> [recs |-> <<>>, err |-> TRUE, over |-> TRUE]
      [] reaction = "only"    -> [recs |-> <<Fresh(read, 0)>>, err |-> FALSE, over |-> TRUE]

\* Collect of collector c, with its reads in this order, where the sources
\* come to `outcome`.
Collect(c, reads, outcome) ==
    LET start == [recs |-> IF c.record = "by rows" THEN <<>>
                           ELSE <<[key |-> c.name, number |-> 0, from |-> {}]>>,
                  err |-> FALSE, over |-> FALSE]
        Visit(answer, read) ==
            LET o == outcome[read.source] IN
            IF answer.over THEN answer
            ELSE After(read[o], IF o \in {"rows", "cut"}
                                THEN [answer EXCEPT !.recs = WithRows(@, read)]
                                ELSE answer, read)
        end == FoldLeft(Visit, start, reads)
        bare == c.record = "if filled" /\ \A i \in DOMAIN end.recs : end.recs[i].from = {}
    IN  [err |-> end.err, recs |-> IF bare THEN <<>> ELSE end.recs]
=============================================================================
