------------------------------- MODULE CaLog -------------------------------
(***************************************************************************)
(* The certificate authority's log: records in memory, one database row    *)
(* per record, and an index from a record's bytes to the rows that hold    *)
(* it.  A change is made in memory first; what the rows lack and what they *)
(* have too much is worked out from the index and written in one           *)
(* transaction, which takes effect whole or not at all (SQLite, external). *)
(* Equal records are common (the same revocation signed twice within a     *)
(* second), so rows are counted, not just compared.                        *)
(*                                                                         *)
(* An authority that ran on a JSON snapshot imports it on its first start  *)
(* and moves the file aside.  The process can die between the two, and the *)
(* rename can fail.                                                        *)
(***************************************************************************)
EXTENDS Naturals, FiniteSets, Sequences, Functions

CONSTANTS
    Body,        \* encoded records
    NoBody,
    Snapshots,   \* what the JSON file of an older build can hold
    MaxCopies,   \* bound: equal records in the log
    MaxRows      \* bound: rows ever inserted

ASSUME DbAssumption ==
    /\ MaxRows \in Nat /\ NoBody \notin Body
    /\ \A s \in Snapshots : s \in Seq(Body) /\ Len(s) <= MaxRows

VARIABLES
    phase,         \* "closed", "importing", "open", "changing", "refused"
    view,          \* how many of each record are in memory
    before,        \* the same, before the change under way
    index,         \* the rows of each record, oldest first
    rows,          \* database: the record in each row
    last_row,      \* database: the last row id given out
    initialized,   \* database: something was ever committed
    imported,      \* database: digest of the snapshot it was imported from
    json,          \* the snapshot still in place, or NoBody
    records        \* ghost: the log as the answers given so far make it

dbVars == <<phase, view, before, index, rows, last_row, initialized, imported,
            json, records>>

RowId == 1 .. MaxRows

Empty == [b \in Body |-> 0]

Places(s, b) == {k \in 1 .. Len(s) : s[k] = b}

Count(s) == [b \in Body |-> Cardinality(Places(s, b))]

RowsOf(b) == {r \in RowId : rows[r] = b}

Stored == [b \in Body |-> Cardinality(RowsOf(b))]

\* remember, row by row: a set of rows in the order of their ids.
Listed(ids) ==
    {list \in [1 .. Cardinality(ids) -> ids] :
        \A i, j \in 1 .. Cardinality(ids) : i < j => list[i] < list[j]}

\* The indexes that list, for each record, the rows `held` gives it.
Indexes(held) ==
    {lists \in [Body -> UNION {Listed(held[b]) : b \in Body}] :
        \A b \in Body : lists[b] \in Listed(held[b])}

----------------------------------------------------------------------------
(* Opening.                                                                *)

\* with_store on a database never written: the snapshot, if there is one, is
\* written in the transaction that marks the database initialized.
Import ==
    LET state == IF json = NoBody THEN <<>> ELSE json
    IN  /\ phase = "closed"
        /\ ~initialized
        /\ rows' = [r \in RowId |->
                      IF r <= Len(state) THEN state[r] ELSE rows[r]]
        /\ index' \in Indexes([b \in Body |-> Places(state, b)])
        /\ last_row' = Len(state)
        /\ view' = Count(state)
        /\ records' = Count(state)
        /\ initialized' = TRUE
        /\ imported' = json
        /\ phase' = "importing"
        /\ UNCHANGED <<before, json>>

\* The snapshot this database was made from, whatever changed since.
IsLeftover == imported = json \/ Count(json) = Stored

\* with_store on a database in use.
Load ==
    /\ phase = "closed"
    /\ initialized
    /\ view' = Stored
    /\ index' \in Indexes([b \in Body |-> RowsOf(b)])
    /\ phase' = IF json = NoBody THEN "open"
                ELSE IF IsLeftover THEN "importing" ELSE "refused"
    /\ UNCHANGED <<before, rows, last_row, initialized, imported, json,
                   records>>

\* move_aside: a rename that fails is left for the next start.
MoveAside ==
    /\ phase = "importing"
    /\ json' \in {json, NoBody}
    /\ phase' = "open"
    /\ UNCHANGED <<view, before, index, rows, last_row, initialized, imported,
                   records>>

----------------------------------------------------------------------------
(* Changing.                                                               *)

\* What a request does to the records: one more, one less, one replaced.
Changed(held) ==
    {v \in [Body -> 0 .. MaxCopies] :
        \/ \E b \in Body : v = [held EXCEPT ![b] = @ + 1]
        \/ \E b \in Body : held[b] > 0 /\ v = [held EXCEPT ![b] = @ - 1]
        \/ \E b, c \in Body :
            /\ b # c /\ held[b] > 0
            /\ v = [held EXCEPT ![b] = @ - 1, ![c] = @ + 1]}

\* mutate: the change is made in memory before it is written.
mutate(v) ==
    /\ phase = "open"
    /\ last_row < MaxRows
    /\ before' = view
    /\ view' = v
    /\ phase' = "changing"
    /\ UNCHANGED <<index, rows, last_row, initialized, imported, json, records>>

\* The rows of a record that stay: no more than are wanted, the oldest.
Kept(b) ==
    SubSeq(index[b], 1,
           IF view[b] < Len(index[b]) THEN view[b] ELSE Len(index[b]))

Surplus(b) == Range(index[b]) \ Range(Kept(b))

Missing == {b \in Body : view[b] > Len(index[b])}

\* Mutant: the index keeps the rows that were deleted.
Reindexed ==
    [b \in Body |-> IF b \in Missing THEN Append(index[b], last_row + 1)
                                     ELSE index[b]]

Reindex ==
    [b \in Body |-> IF b \in Missing THEN Append(index[b], last_row + 1)
                                     ELSE Kept(b)]

\* Backing::commit when the transaction succeeds: each delete has found its
\* row, and the index follows the rows.
commit ==
    /\ phase = "changing"
    /\ \A b \in Body : \A r \in Surplus(b) : rows[r] = b
    /\ rows' = [r \in RowId |->
                    IF r = last_row + 1 /\ Missing # {}
                    THEN CHOOSE b \in Missing : TRUE
                    ELSE IF \E b \in Body : r \in Surplus(b) THEN NoBody
                    ELSE rows[r]]
    /\ last_row' = IF Missing = {} THEN last_row ELSE last_row + 1
    /\ index' = Reindex
    /\ records' = view
    /\ phase' = "open"
    /\ UNCHANGED <<view, before, initialized, imported, json>>

\* When it fails, the change is taken back and the request refused.
Rollback ==
    /\ phase = "changing"
    /\ view' = before
    /\ phase' = "open"
    /\ UNCHANGED <<before, index, rows, last_row, initialized, imported, json,
                   records>>

\* The process dies; memory goes.
Die ==
    /\ phase \in {"importing", "open", "changing"}
    /\ phase' = "closed"
    /\ view' = Empty
    /\ before' = Empty
    /\ index' = [b \in Body |-> <<>>]
    /\ UNCHANGED <<rows, last_row, initialized, imported, json, records>>

DbInit ==
    /\ phase = "closed"
    /\ view = Empty
    /\ before = Empty
    /\ index = [b \in Body |-> <<>>]
    /\ rows = [r \in RowId |-> NoBody]
    /\ last_row = 0
    /\ initialized = FALSE
    /\ imported = NoBody
    /\ json \in Snapshots \cup {NoBody}
    /\ records = Empty

DbNext ==
    \/ Import \/ Load \/ MoveAside \/ Die
    \/ \E v \in Changed(view) : mutate(v)
    \/ commit \/ Rollback

DbSpec == DbInit /\ [][DbNext]_dbVars

----------------------------------------------------------------------------
(* Properties.                                                             *)

DbTypeOK ==
    /\ phase \in {"closed", "importing", "open", "changing", "refused"}
    /\ view \in [Body -> 0 .. MaxCopies] /\ before \in [Body -> 0 .. MaxCopies]
    /\ rows \in [RowId -> Body \cup {NoBody}]
    /\ last_row \in 0 .. MaxRows

\* The database holds exactly the records every answer given so far speaks
\* of, each as often as it was recorded; memory holds the same; and the
\* index names every row once.  A change that was refused is in neither, a
\* change that was acknowledged survives the process (`CaLog::mutate`,
\* `Backing::commit`).  An authority whose files nobody touches always starts
\* again: a snapshot left in place by a crash or a failed rename is
\* recognised, however much the log has changed since (`CaLog::open`).
StoredIsAnswered ==
    /\ phase # "refused"
    /\ initialized => Stored = records
    /\ phase \in {"importing", "open"} =>
        /\ view = records
        /\ \A b \in Body :
            /\ Range(index[b]) = RowsOf(b)
            /\ Len(index[b]) = view[b]

=============================================================================
