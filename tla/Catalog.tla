------------------------------ MODULE Catalog -------------------------------
(***************************************************************************)
(* How the names of a 3.x store are read (internal/v3meta, LoadCatalog):   *)
(* the newest checkpoint plus every log file above its sequence number,    *)
(* replayed in order.  The table's series key, its tags in the order they  *)
(* first appeared, decides how its Parquet files are merged, so it must be *)
(* exact.  The catalog has had three layouts: v1 (3.0-3.3), v2 (3.4-3.9),  *)
(* both JSON, and v3 (3.10+), binary, whose checkpoint is a history of     *)
(* records instead of a state; a server that migrates leaves the old tree  *)
(* behind.  The server, which writes all this, is external.                *)
(*                                                                         *)
(* One database.  Column c of any table is called Names[c].                *)
(***************************************************************************)
EXTENDS Integers, FiniteSets, SequencesExt

CONSTANTS
  Names,       \* the names of a table's columns
  MaxTables,   \* bound on the tables
  MaxBatches,  \* bound on the catalog's batches, that is on its log files
  MaxSteps     \* bound on the server's steps while the catalog is read

VARIABLES
  history,  \* the batches; batch n is the content of log file n
  states,   \* the server's catalog after each batch
  trees,    \* for each layout that exists, [point, logs]: the sequence number
            \* of its checkpoint, 0 if there is none, and its log files
  load      \* the reading of the catalog, see Idle

vars == <<history, states, trees, load>>

Eras == <<"v1", "v2", "v3">>
Kinds == {"tag", "field"}

Empty == [db |-> "none", tables |-> <<>>]   \* tables: a sequence, by table id

Idle == [pc |-> "idle", tree |-> "", stale |-> FALSE,
         seq |-> 0, db |-> "none", tables |-> [t \in {} |-> 0], unknown |-> FALSE,
         todo |-> {},       \* the log files listed and not yet replayed
         whole |-> TRUE,    \* the checkpoint was read, or there was none
         swept |-> FALSE,   \* a log file was removed meanwhile
         damaged |-> FALSE, \* a file was corrupt
         begun |-> 0, steps |-> 0]

Init == /\ history = <<>> /\ states = <<>>
        /\ trees = [e \in {"v1"} |-> [point |-> 0, logs |-> {}]]
        /\ load = Idle

-----------------------------------------------------------------------------
(* The server (external).                                                  *)

StateAt(n) == IF n = 0 THEN Empty ELSE states[n]
server == StateAt(Len(history))
era    == Eras[Cardinality(DOMAIN trees)]   \* the layout it writes

Reading == load.pc \notin {"idle", "done", "failed"}
MayAct  == load.pc = "idle" \/ (Reading /\ load.steps < MaxSteps)
Counted(l) == IF Reading THEN [l EXCEPT !.steps = @ + 1] ELSE l

Batch(op, after) ==
  /\ Len(history) < MaxBatches /\ MayAct
  /\ history' = Append(history, op) /\ states' = Append(states, after)
  /\ trees' = [trees EXCEPT ![era].logs = @ \cup {Len(history) + 1}]
  /\ load' = Counted(load)

CreateDatabase == /\ server.db = "none"
                  /\ Batch([name |-> "CreateDatabase"], [server EXCEPT !.db = "live"])

\* v1 may list columns with the table; later layouts add them afterwards.
CreateTable ==
  \E kinds \in {<<>>} \cup (IF era = "v1" THEN {<<"tag">>, <<"field", "tag">>} ELSE {}) :
    /\ server.db = "live" /\ Len(server.tables) < MaxTables /\ Len(kinds) <= Len(Names)
    /\ Batch([name |-> "CreateTable", table |-> Len(server.tables) + 1, kinds |-> kinds],
             [server EXCEPT !.tables = Append(@, [columns |-> kinds, deleted |-> FALSE, renamed |-> FALSE])])

AddColumns ==
  \E t \in DOMAIN server.tables, kinds \in {<<"tag">>, <<"field">>, <<"field", "tag">>} :
    LET old == server.tables[t].columns IN
    /\ Len(old) + Len(kinds) <= Len(Names)
    /\ Batch([name |-> "AddColumns", table |-> t, from |-> Len(old), kinds |-> kinds],
             [server EXCEPT !.tables[t].columns = @ \o kinds])

DeleteTable ==
  \E t \in DOMAIN server.tables :
    /\ ~server.tables[t].deleted
    /\ Batch([name |-> "DeleteTable", table |-> t], [server EXCEPT !.tables[t].deleted = TRUE])

DeleteDatabase == /\ server.db = "live"
                  /\ Batch([name |-> "DeleteDatabase"], [server EXCEPT !.db = "deleted"])

\* A renaming is one of the operations the tool does not know.
Rename ==
  \E t \in DOMAIN server.tables :
    /\ ~server.tables[t].renamed
    /\ Batch([name |-> "Rename"], [server EXCEPT !.tables[t].renamed = TRUE])

\* A batch about nodes or tokens.
OtherBatch == Batch([name |-> "Other"], server)

\* The checkpoint is written now and then, so it lags behind the log.
Checkpoint ==
  /\ MayAct /\ trees[era].point < Len(history)
  /\ trees' = [trees EXCEPT ![era].point = Len(history)]
  /\ load' = Counted(load)
  /\ UNCHANGED <<history, states>>

\* Log files the checkpoint has folded in may go, the oldest first.
RemoveLog ==
  \E n \in trees[era].logs :
    /\ MayAct /\ n <= trees[era].point /\ \A m \in trees[era].logs : n <= m
    /\ trees' = [trees EXCEPT ![era].logs = @ \ {n}]
    /\ load' = Counted([load EXCEPT !.swept = Reading])
    /\ UNCHANGED <<history, states>>

\* A migration writes the whole catalog in the next layout and goes on there.
Migrate ==
  /\ MayAct /\ history # <<>> /\ Cardinality(DOMAIN trees) < Len(Eras)
  /\ LET next == Eras[Cardinality(DOMAIN trees) + 1]
     IN  trees' = [e \in DOMAIN trees \cup {next} |->
                     IF e = next THEN [point |-> Len(history), logs |-> {}] ELSE trees[e]]
  /\ load' = Counted(load)
  /\ UNCHANGED <<history, states>>

Server == \/ CreateDatabase \/ CreateTable \/ AddColumns \/ DeleteTable \/ DeleteDatabase
          \/ Rename \/ OtherBatch \/ Checkpoint \/ RemoveLog \/ Migrate

\* The numbers of the tags among columns, in order.
TagsOf(columns) ==
  LET tags[n \in 0 .. Len(columns)] ==
        IF n = 0 THEN <<>>
        ELSE IF columns[n] = "tag" THEN Append(tags[n-1], n) ELSE tags[n-1]
  IN  tags[Len(columns)]

\* A table as a JSON checkpoint has it.  In v1 the key lists column ids, in
\* v2 tag ids, which count the tags.
StoredTable(table, e) ==
  LET tags == TagsOf(table.columns) IN
  [columns |-> [c \in DOMAIN table.columns |->
                  [id |-> c, tag |-> Cardinality({n \in DOMAIN tags : tags[n] <= c}),
                   name |-> Names[c], kind |-> table.columns[c]]],
   key     |-> IF e = "v1" THEN tags ELSE [n \in DOMAIN tags |-> n],
   deleted |-> table.deleted, renamed |-> table.renamed]
-----------------------------------------------------------------------------
(* Applying one batch.                                                     *)

Known(l, t) == t \in DOMAIN l.tables

\* What a batch refers to must be there.
Applicable(l, op) == /\ op.name \in {"CreateTable", "AddColumns"} => l.db # "none"
                     /\ op.name = "AddColumns" => Known(l, op.table)

NewTable == [columns |-> <<>>, key |-> <<>>, deleted |-> FALSE, renamed |-> FALSE]

TagNames(from, kinds) == LET tags == TagsOf(kinds) IN [n \in DOMAIN tags |-> Names[from + tags[n]]]

\* setColumn for each column of an operation.
Columns(old, from, kinds) ==
  [c \in DOMAIN old \cup (from + 1 .. from + Len(kinds)) |->
     IF c > from THEN [name |-> Names[c], kind |-> kinds[c - from]] ELSE old[c]]

AppendSeriesKey(key, name) == IF Contains(key, name) THEN key ELSE Append(key, name)

\* key with the names added, one by one.
KeyWith(key, names) ==
  LET with[n \in 0 .. Len(names)] ==
        IF n = 0 THEN key ELSE AppendSeriesKey(with[n-1], names[n])
  IN  with[Len(names)]

\* A table's creation lists its whole key; later tags are added one by one.
Created(table, kinds) ==
  [table EXCEPT !.columns = Columns(@, 0, kinds), !.key = @ \o TagNames(0, kinds)]
Extended(table, from, kinds) ==
  [table EXCEPT !.columns = Columns(@, from, kinds),
                !.key = KeyWith(@, TagNames(from, kinds))]

With(l, t, table) ==
  [l EXCEPT !.tables = [u \in DOMAIN @ \cup {t} |-> IF u = t THEN table ELSE @[u]]]

\* Deletions only set a flag; an operation that is not known is reported.
Applied(l, op) ==
  CASE op.name = "CreateDatabase" -> IF l.db = "none" THEN [l EXCEPT !.db = "live"] ELSE l
    [] op.name = "CreateTable" ->
         With(l, op.table, Created(IF Known(l, op.table) THEN l.tables[op.table] ELSE NewTable, op.kinds))
    [] op.name = "AddColumns" ->
         With(l, op.table, Extended(l.tables[op.table], op.from, op.kinds))
    [] op.name = "DeleteTable" ->
         IF Known(l, op.table) THEN [l EXCEPT !.tables[op.table].deleted = TRUE] ELSE l
    [] op.name = "DeleteDatabase" -> IF l.db = "none" THEN l ELSE [l EXCEPT !.db = "deleted"]
    [] op.name = "Rename" -> [l EXCEPT !.unknown = TRUE]
    [] op.name = "Other" -> l

-----------------------------------------------------------------------------
(* LoadCatalog.                                                            *)

\* A binary catalog that cannot be read falls back on the v2 tree, known to
\* be stale.
Failed(l) == IF l.tree = "v3"
             THEN [l EXCEPT !.pc = "checkpoint", !.tree = "v2", !.stale = TRUE, !.seq = 0,
                            !.db = "none", !.tables = Idle.tables, !.unknown = FALSE]
             ELSE [l EXCEPT !.pc = "failed"]

Damaged == Failed([load EXCEPT !.damaged = TRUE])

Becomes(next) == load' = next /\ UNCHANGED <<history, states, trees>>

LoadCatalog ==
  /\ load.pc = "idle"
  /\ IF history = <<>> THEN Becomes([load EXCEPT !.pc = "failed"])   \* no catalog
     ELSE Becomes([load EXCEPT !.pc = "checkpoint", !.tree = era, !.begun = Len(history)])

\* The ids a checkpoint's key refers to, and the tags they name.
KeyIDs(table, e) ==
  LET tags  == {table.columns[c] : c \in {c \in DOMAIN table.columns : table.columns[c].kind = "tag"}}
      id(c) == IF e = "v1" THEN c.id ELSE c.tag
  IN  [i \in {id(c) : c \in tags} |-> (CHOOSE c \in tags : id(c) = i).name]

\* The parser knows the layout by the shape of the columns.
SeriesKeyResolves(table, e) == ToSet(table.key) \subseteq DOMAIN KeyIDs(table, e)

Parsed(table, e) ==
  [columns |-> [c \in DOMAIN table.columns |-> [name |-> table.columns[c].name, kind |-> table.columns[c].kind]],
   key     |-> [n \in DOMAIN table.key |-> KeyIDs(table, e)[table.key[n]]],
   deleted |-> table.deleted, renamed |-> table.renamed]

\* A binary checkpoint is replayed, one of JSON is the state.
Replayed(point) ==
  LET replay[n \in 0 .. point] ==
        IF n = 0 THEN [load EXCEPT !.seq = point] ELSE Applied(replay[n-1], history[n])
  IN  replay[point]

Checkpointed(e, point) ==
  IF e = "v3" THEN Replayed(point)
  ELSE [load EXCEPT !.seq = point, !.db = StateAt(point).db,
                    !.tables = [t \in DOMAIN StateAt(point).tables |->
                                  Parsed(StoredTable(StateAt(point).tables[t], e), e)]]

\* A checkpoint that cannot be read counts as none; one that is damaged fails.
ReadCheckpoint ==
  LET point == trees[load.tree].point
      tables == StateAt(point).tables
  IN  /\ load.pc = "checkpoint"
      /\ \/ point = 0 /\ Becomes([load EXCEPT !.pc = "list"])
         \/ point > 0 /\ Becomes([load EXCEPT !.pc = "list", !.whole = FALSE])
         \/ point > 0 /\ Becomes(Damaged)
         \/ /\ point > 0
            /\ IF load.tree = "v3" \/ \A t \in DOMAIN tables :
                     SeriesKeyResolves(StoredTable(tables[t], load.tree), load.tree)
               THEN Becomes([Checkpointed(load.tree, point) EXCEPT !.pc = "list"])
               ELSE Becomes(Failed(load))

ListLogs ==
  /\ load.pc = "list"
  /\ Becomes([load EXCEPT !.pc = "replay", !.todo = trees[load.tree].logs])

FoldedInEarlier(l, n) == n < l.seq   \* Slip: the checkpoint's last batch again
FoldedIn(l, n) == n <= l.seq

\* The next log file: gone or damaged, folded into the checkpoint, or applied.
ReplayLog == \E n \in load.todo :
  /\ load.pc = "replay" /\ \A m \in load.todo : n <= m
  /\ \/ Becomes(Damaged)
     \/ n \notin trees[load.tree].logs /\ Becomes(Failed(load))
     \/ /\ n \in trees[load.tree].logs
        /\ IF FoldedIn(load, n) THEN Becomes([load EXCEPT !.todo = @ \ {n}])
           ELSE IF ~Applicable(load, history[n]) THEN Becomes(Failed(load))
           ELSE Becomes([Applied(load, history[n]) EXCEPT !.todo = @ \ {n}, !.seq = n])

Finish == load.pc = "replay" /\ load.todo = {} /\ Becomes([load EXCEPT !.pc = "done"])

Tool == LoadCatalog \/ ReadCheckpoint \/ ListLogs \/ ReplayLog \/ Finish

Next == Server \/ Tool

Spec == Init /\ [][Next]_vars

-----------------------------------------------------------------------------
(* Properties.                                                             *)

\* The table as the server had it when it wrote the last batch that was read.
Same(table, real) ==
  /\ table.columns = [c \in DOMAIN real.columns |-> [name |-> Names[c], kind |-> real.columns[c]]]
  /\ table.key = [n \in DOMAIN TagsOf(real.columns) |-> Names[TagsOf(real.columns)[n]]]
  /\ table.deleted = real.deleted
  /\ load.unknown \/ table.renamed = real.renamed

\* However far the checkpoint lags, whichever layout is read, and whether or
\* not the checkpoint could be read: every table the tool knows has exactly
\* its columns and its tags in the order they appeared, as of the last batch
\* read; no table is missing from a catalog read with its checkpoint, nor, if
\* it is not stale, any batch written before it was looked for; and what can
\* be read is never refused.
CatalogExact ==
  LET real == StateAt(load.seq) IN
  /\ load.pc = "done" /\ ~load.swept =>
       /\ \A t \in DOMAIN load.tables : t \in DOMAIN real.tables /\ Same(load.tables[t], real.tables[t])
       /\ load.whole => /\ DOMAIN load.tables = DOMAIN real.tables
                        /\ load.db = real.db
                        /\ load.stale \/ load.seq >= load.begun
  /\ load.pc = "failed" /\ load.begun > 0 => load.damaged \/ load.swept \/ ~load.whole
  /\ load.stale => load.damaged \/ load.swept \/ ~load.whole
=============================================================================
