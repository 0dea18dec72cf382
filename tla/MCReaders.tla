------------------------------ MODULE MCReaders ------------------------------
(***************************************************************************)
(* The four readers of what InfluxDB left behind, checked in one run: the  *)
(* catalog of a 3.x store, its nodes and tables, the directories of a 1.x  *)
(* or 2.x one, and the text of keys and lines.  They share nothing; a      *)
(* behaviour is one of them at work, with the variables of the others at   *)
(* rest.                                                                   *)
(***************************************************************************)
EXTENDS V3Catalog, FiniteSets, TLC

VARIABLES
  source, pc, dataDir, version, walDir, shards,   \* Discovery
  store, step, why, node, cluster, known, routed, \* StoreTables
  stage, point, parsed, line                      \* LineFormat

-----------------------------------------------------------------------------
(* The cases of Discovery.                                                 *)

\* What one shard has; locked, its directory cannot be read, nolog, its log's.
ShardKinds == {"absent", "locked", "bare", "tsm", "wal", "emptywal", "both", "nolog"}

\* A database: absent, locked, or with one retention policy of one shard.
Databases(rps) ==
  {[kind |-> "absent"], [kind |-> "locked"]}
  \cup [kind : {"dir"}, rp : rps, locked : {FALSE}, shard : ShardKinds]
  \cup [kind : {"dir"}, rp : rps, locked : {TRUE}, shard : {"absent"}]

Tree(paths, kind) == [p \in paths |-> kind]

DataTree(root, db, d) ==
  LET at == Append(root, db)
      rp == Append(at, d.rp)
      id == Append(rp, "1")
  IN  CASE d.kind = "absent" -> <<>>
        [] d.kind = "locked" -> Tree({at}, "locked")
        [] OTHER ->
             Tree({at, Append(at, "_series"), at \o <<"_series", "00">>}, "dir")
             @@ Tree({rp}, IF d.locked THEN "locked" ELSE "dir")
             @@ (IF d.shard = "absent" THEN <<>>
                 ELSE Tree({id}, IF d.shard = "locked" THEN "locked" ELSE "dir"))
             @@ (IF d.shard \in {"tsm", "both", "nolog", "locked"} THEN Tree({Append(id, "x.tsm")}, "file") ELSE <<>>)

LogTree(root, db, d) ==
  LET id == root \o <<db, d.rp, "1">> IN
  IF d.kind # "dir" \/ d.shard \notin {"wal", "emptywal", "both", "nolog"} THEN <<>>
  ELSE Tree({id}, IF d.shard = "nolog" THEN "locked" ELSE "dir")
       @@ Tree({SubSeq(id, 1, n) : n \in Len(root) + 1 .. Len(id) - 1}, "dir")
       @@ Tree({Append(id, "x.wal")}, IF d.shard = "emptywal" THEN "empty" ELSE "file")

Bolt == [b \in {"b1", "b2"} |-> IF b = "b1" THEN [name |-> "metrics", system |-> FALSE]
                                ELSE [name |-> "_tasks", system |-> TRUE]]

\* <root>/data, <root>/wal and <root>/meta of 1.x.  A database may have a
\* name that reads like the ID of a bucket.
Sources1 ==
  {[fs |-> Tree({<<"r">>, <<"r", "data">>, <<"r", "wal">>, <<"r", "meta">>}, "dir")
           @@ DataTree(<<"r", "data">>, "_internal", i) @@ DataTree(<<"r", "data">>, db, m)
           @@ LogTree(<<"r", "wal">>, "_internal", i) @@ LogTree(<<"r", "wal">>, db, m),
    datadir |-> at, waldir |-> w, filter |-> f, internal |-> n, bolt |-> <<>>,
    version |-> "1.x", root |-> <<"r", "data">>] :
     i \in Databases({"autogen"}), m \in Databases({"autogen", "7"}), db \in {"metrics", "b1"},
     at \in {<<"r">>, <<"r", "data">>}, w \in {<<>>, << <<"r", "wal">> >>},
     f \in {{}, {"metrics"}}, n \in BOOLEAN}

\* <root>/engine/data and <root>/engine/wal of 2.x.
Sources2 ==
  {[fs |-> Tree({<<"r">>, <<"r", "engine">>, <<"r", "engine", "data">>, <<"r", "engine", "wal">>}, "dir")
           @@ DataTree(<<"r", "engine", "data">>, "b1", i) @@ DataTree(<<"r", "engine", "data">>, "b2", m)
           @@ LogTree(<<"r", "engine", "wal">>, "b1", i) @@ LogTree(<<"r", "engine", "wal">>, "b2", m),
    datadir |-> at, waldir |-> <<>>, filter |-> f, internal |-> FALSE, bolt |-> b,
    version |-> "2.x", root |-> <<"r", "engine", "data">>] :
     i \in Databases({"autogen"}), m \in Databases({"autogen"}),
     at \in {<<"r">>, <<"r", "engine">>, <<"r", "engine", "data">>},
     f \in {{}, {"metrics"}, {"b1"}}, b \in {<<>>, Bolt}}

\* A 3.x store, from its root and from a node prefix.
Sources3 ==
  {[fs |-> Tree({<<"r">>, <<"r", "n">>, <<"r", "n", "wal">>, <<"r", "n", "dbs">>,
                 <<"r", "n", "dbs", "1">>}, "dir"),
    datadir |-> at, waldir |-> <<>>, filter |-> {}, internal |-> FALSE, bolt |-> <<>>,
    version |-> "3.x", root |-> at] : at \in {<<"r">>, <<"r", "n">>}}

MCSources == Sources1 \cup Sources2 \cup Sources3

-----------------------------------------------------------------------------
(* The cases of LineFormat.                                                *)

Chars == {"a", ",", " ", "=", "\\", "\""}
Texts(n) == UNION {[1 .. m -> Chars] : m \in 1 .. n}

\* A name cannot end in a backslash: line protocol has no way to write it.
Tokens(n) == {t \in Texts(n) : Last(t) # "\\"}

Digits == [name |-> <<"n">>, type |-> "integer", text |-> <<"1">>]
Plain  == [measurement |-> <<"m">>, tags |-> << <<<<"k">>, <<"v">>>> >>,
           fields |-> <<[name |-> <<"s">>, type |-> "string", text |-> <<"x">>]>>]

\* Two texts vary at a time, and one that is longer; one point for each type.
MCPoints ==
  LET Row(m, k, v, f, s) ==
        [measurement |-> m, tags |-> << <<k, v>>, <<<<"z">>, v>> >>,
         fields |-> <<[name |-> f, type |-> "string", text |-> s], Digits>>]
      a == <<"a">>
  IN  {Row(m, a, v, a, a) : m \in Tokens(2), v \in Tokens(2)}
      \cup {Row(a, k, v, a, a) : k \in Tokens(2), v \in Tokens(2)}
      \cup {Row(a, a, v, f, a) : v \in Tokens(2), f \in Tokens(2)}
      \cup {Row(a, a, a, f, s) : f \in Tokens(2), s \in Texts(2) \cup {<<>>}}
      \cup {Row(t, a, a, a, a) : t \in Tokens(3)} \cup {Row(a, a, t, a, a) : t \in Tokens(3)}
      \cup {Row(a, a, a, t, a) : t \in Tokens(3)} \cup {Row(a, a, a, a, t) : t \in Texts(3)}
      \cup {[Plain EXCEPT !.tags = <<>>, !.fields = <<[name |-> <<"f">>, type |-> y, text |-> <<"1">>]>>] :
              y \in {"integer", "unsigned", "number"}}

-----------------------------------------------------------------------------
(* The cases of StoreTables.                                               *)

Dir(kind, markers) == [kind |-> kind, markers |-> markers]

\* Two nodes that may be there: of Core, of Enterprise, one that has a log
\* only, one of the Pacha engine; a cluster, upgraded or not; and whatever.
NodeDirs == {Dir("node", {"wal", "snapshots", "dbs", "catalog"}), Dir("node", {"wal", "snapshots", "dbs"}),
             Dir("node", {"wal"}), Dir("pacha", {"cv2"}), Dir("pacha", {"pt_snapshots", "cv2"}), Dir("other", {})}
ClusterDirs == {Dir("cluster", {"catalog"}), Dir("cluster", {"catalogs"}), Dir("cluster", {"catalogs", "catalog"}),
                Dir("cluster", {"catalog", "cv2"}), Dir("other", {})}

Cpu == [name |-> "cpu", series |-> <<"host", "region">>]
Mem == [name |-> "mem", series |-> <<>>]
MemGiven == [name |-> "memory", series |-> <<"host">>]

\* All names; those from before an upgrade, without the newest tables.
Full == [kind |-> "read", dbs |-> 1 :> "app" @@ 2 :> "_internal",
         tables |-> <<1, 1>> :> Cpu @@ <<1, 2>> :> Mem @@ <<2, 1>> :> Mem]
Early == [kind |-> "stale", dbs |-> 1 :> "app", tables |-> <<1, 1>> :> Cpu]
MCCatalogs == {Full, Early, [Early EXCEPT !.kind = "read"], [kind |-> "binary"], [kind |-> "none"]}

\* The catalog is where there is a directory for it: in the cluster, if there
\* is one, or in the node.
CatalogsOf(d, cat) ==
  LET Holds(p) == d[p].markers \cap {"catalog", "catalogs"} # {}
      home == IF Holds("c") THEN "c" ELSE IF Holds("n1") THEN "n1" ELSE "n2"
  IN  [p \in DOMAIN d |-> IF p = home /\ Holds(p) THEN cat ELSE [kind |-> "none"]]

MCStores ==
  LET Case(d, at, cat, live, logged, flags, filter, internal, root) ==
        [dirs |-> d, at |-> at, bucketRoot |-> root, catalogs |-> CatalogsOf(d, cat), live |-> live,
         logged |-> logged, dbFlags |-> flags.dbs, tableFlags |-> flags.tables,
         filter |-> filter, internal |-> internal]
      Layouts == {("n1" :> a) @@ ("n2" :> b) @@ ("c" :> c) : a \in NodeDirs, b \in NodeDirs, c \in ClusterDirs}
      Flags == {[dbs |-> <<>>, tables |-> <<>>],
                [dbs |-> 1 :> "shop", tables |-> <<1, 2>> :> MemGiven],
                [dbs |-> 2 :> "audit", tables |-> <<2, 1>> :> MemGiven @@ <<1, 1>> :> Mem]}
      NoFlags == [dbs |-> <<>>, tables |-> <<>>]
      Usual == ("n1" :> Dir("node", {"wal", "snapshots", "dbs"})) @@ ("n2" :> Dir("other", {}))
                 @@ ("c" :> Dir("cluster", {"catalog"}))
      All == {<<1, 1>>, <<1, 2>>, <<2, 1>>}
  IN  {Case(d, at, cat, {<<1, 1>>}, {<<1, 2>>}, NoFlags, {}, FALSE, root) :
         d \in Layouts, at \in {"", "n1"}, cat \in MCCatalogs, root \in BOOLEAN}
      \cup {Case(Usual, "", cat, live, logged, flags, filter, internal, FALSE) :
              cat \in MCCatalogs, live \in SUBSET All, logged \in SUBSET All, flags \in Flags,
              filter \in {{}, {"app"}, {"audit"}}, internal \in BOOLEAN}

-----------------------------------------------------------------------------

MCNames == <<"host", "usage", "region">>

Directories == INSTANCE Discovery WITH
  Sources <- MCSources, Numeric <- {"1", "7"}, BucketIDs <- {"b1", "b2"},
  TSMFiles <- {"x.tsm"}, WALFiles <- {"x.wal"}

Text == INSTANCE LineFormat WITH Points <- MCPoints

Stored == INSTANCE StoreTables WITH Stores <- MCStores

DirectoriesIdle == /\ pc = "idle" /\ source = <<>> /\ dataDir = <<>> /\ version = ""
                   /\ walDir = <<>> /\ shards = {}
TextIdle == stage = "idle" /\ point = <<>> /\ parsed = <<>> /\ line = <<>>
StoredIdle == /\ store = <<>> /\ step = "idle" /\ why = "" /\ node = "" /\ cluster = ""
              /\ known = <<>> /\ routed = {}
CatalogIdle == /\ load = [Cat!Idle EXCEPT !.pc = "failed"]
               /\ history = <<>> /\ states = <<>>
               /\ trees = [e \in {"v1"} |-> [point |-> 0, logs |-> {}]]

ReadersInit == \/ Cat!Init /\ DirectoriesIdle /\ StoredIdle /\ TextIdle
               \/ CatalogIdle /\ Directories!Init /\ StoredIdle /\ TextIdle
               \/ CatalogIdle /\ DirectoriesIdle /\ Stored!Init /\ TextIdle
               \/ CatalogIdle /\ DirectoriesIdle /\ StoredIdle /\ Text!Init

catalog     == <<history, states, trees, load>>
directories == <<source, pc, dataDir, version, walDir, shards>>
text        == <<stage, point, parsed, line>>
stored      == <<store, step, why, node, cluster, known, routed>>

CatalogAlone     == UNCHANGED <<directories, stored, text>>
DirectoriesAlone == UNCHANGED <<catalog, stored, text>>
StoredAlone      == UNCHANGED <<catalog, directories, text>>
TextAlone        == UNCHANGED <<catalog, directories, stored>>

ReadersNext ==
  \/ Cat!CreateDatabase /\ CatalogAlone
  \/ Cat!CreateTable /\ CatalogAlone
  \/ Cat!AddColumns /\ CatalogAlone
  \/ Cat!DeleteTable /\ CatalogAlone
  \/ Cat!DeleteDatabase /\ CatalogAlone
  \/ Cat!Rename /\ CatalogAlone
  \/ Cat!OtherBatch /\ CatalogAlone
  \/ Cat!Checkpoint /\ CatalogAlone
  \/ Cat!RemoveLog /\ CatalogAlone
  \/ Cat!Migrate /\ CatalogAlone
  \/ Cat!LoadCatalog /\ CatalogAlone
  \/ Cat!ReadCheckpoint /\ CatalogAlone
  \/ Cat!ListLogs /\ CatalogAlone
  \/ Cat!ReplayLog /\ CatalogAlone
  \/ Cat!Finish /\ CatalogAlone
  \/ Directories!DetectLayout /\ DirectoriesAlone
  \/ Directories!Walk /\ DirectoriesAlone
  \/ Directories!ResolveNames /\ DirectoriesAlone
  \/ Stored!LocateNamed /\ StoredAlone
  \/ Stored!LocateNowhere /\ StoredAlone
  \/ Stored!LocateNode /\ StoredAlone
  \/ Stored!LoadNames /\ StoredAlone
  \/ Stored!RouteTables /\ StoredAlone
  \/ Text!Parse /\ TextAlone
  \/ Text!Write /\ TextAlone

ReadersVars == <<catalog, directories, stored, text>>
ReadersSpec == ReadersInit /\ [][ReadersNext]_ReadersVars

\* The text alone.
TextSpec == /\ CatalogIdle /\ DirectoriesIdle /\ StoredIdle /\ Text!Init
            /\ [][ReadersNext]_ReadersVars

-----------------------------------------------------------------------------
(* The properties of the instances.                                        *)

\* Walk finds all there is to migrate: see Discovery.
NothingOverlooked == Directories!NothingOverlooked

\* Only a permission that is needed stops a run: see Discovery.
FailsForCause == Directories!FailsForCause

\* The importer reads the point that was stored: see LineFormat.
LineReadsBack == Text!LineReadsBack

\* The tables of the one node go under their names: see StoreTables.
TablesRouted == step = "idle" \/ Stored!TablesRouted

\* Only the comma with a backslash before it is ignored: see LineFormat.
SplitsAsDocumented == Text!SplitsAsDocumented
=============================================================================
