---------------------------- MODULE StoreTables -----------------------------
(***************************************************************************)
(* Which tables of a 3.x store are migrated, and under which names: the    *)
(* beginning and the end of setupV3 (cmd/tsm2arc/v3.go).  The node prefix  *)
(* is told by the directories in it; the names come from the catalog of    *)
(* the node or, on Enterprise, of the cluster next to it, with what the    *)
(* operator gives by flags on top.  What is read in between, the live set  *)
(* and the log, is in V3Source, how a catalog is read in Catalog.          *)
(***************************************************************************)
EXTENDS Integers, FiniteSets, SequencesExt, TLC

CONSTANTS
  Stores   \* the cases, of the form
           \* [dirs : prefixes -> [kind, markers], at : prefix or AtRoot,
           \*  bucketRoot : BOOLEAN, catalogs : prefixes -> catalog,
           \*  live, logged : SUBSET keys, dbFlags, tableFlags, filter,
           \*  internal], where a key is <<database id, table id>>

VARIABLES
  store,    \* the case at hand
  step,     \* "locate", "catalog", "route", "routed" or "refused"
  why,      \* the reason of a refusal
  node, cluster,   \* the prefixes found, or ""
  known,    \* the names read and given: v3nameSet
  routed    \* the shards made: [key, db, table, series]

vars == <<store, step, why, node, cluster, known, routed>>

AtRoot == ""    \* the operator names the store, not a node in it
NoPrefix == ""

\* What LoadCatalog returns: no catalog tree, a binary catalog that nothing
\* can stand in for, or the names and series keys, from what stands in for a
\* binary one ("stale") or not ("read").
NoCatalog == [kind |-> "none"]
Binary == [kind |-> "binary"]
Nothing == [kind |-> "read", dbs |-> <<>>, tables |-> <<>>]

Init == /\ store \in Stores /\ step = "locate" /\ why = ""
        /\ node = NoPrefix /\ cluster = NoPrefix
        /\ known = Nothing /\ routed = {}

Refuse(reason) == /\ step' = "refused" /\ why' = reason
                  /\ UNCHANGED <<store, node, cluster, known, routed>>

-----------------------------------------------------------------------------
(* v3NodePrefix, and v3NodeOnS3.                                           *)

Markers == {"wal", "snapshots", "dbs", "catalog", "catalogs"}
Has(p, m) == m \in store.dirs[p].markers

Marks(p) == Cardinality(Markers \cap store.dirs[p].markers) >= 2

Nodes == {p \in DOMAIN store.dirs : Marks(p)}
Pacha == {p \in DOMAIN store.dirs \ Nodes : Has(p, "cv2") \/ Has(p, "pt_snapshots")}
Clusters == {p \in DOMAIN store.dirs \ (Nodes \cup Pacha) : Has(p, "catalog") \/ Has(p, "catalogs")}

Found(n, c) == /\ step' = "catalog" /\ node' = n /\ cluster' = c
               /\ UNCHANGED <<store, why, known, routed>>

\* The store root is the parent of a node the operator named; a bucket has none.
LocateNamed ==
  /\ step = "locate" /\ store.at # AtRoot /\ Marks(store.at)
  /\ IF store.bucketRoot THEN Refuse("bucket root") ELSE Found(store.at, NoPrefix)

\* A directory without the marks of a node has no node in it either.
LocateNowhere == /\ step = "locate" /\ store.at # AtRoot /\ ~Marks(store.at)
                 /\ Refuse("no node")

\* Of several clusters the last in listing order is taken: any of them here.
LocateNode ==
  /\ step = "locate" /\ store.at = AtRoot
  /\ \/ /\ Cardinality(Nodes) = 1
        /\ \E n \in Nodes, c \in IF Clusters = {} THEN {NoPrefix} ELSE Clusters : Found(n, c)
     \/ Nodes = {} /\ Pacha # {} /\ Refuse("pacha")
     \/ Nodes = {} /\ Pacha = {} /\ Refuse("no node")
     \/ Cardinality(Nodes) > 1 /\ Refuse("nodes")

-----------------------------------------------------------------------------
(* Names.                                                                  *)

CatalogAt == IF store.catalogs[node] = NoCatalog /\ cluster # NoPrefix
             THEN store.catalogs[cluster] ELSE store.catalogs[node]

\* Flags win over the catalog, of which there may be none.
MergedNamesCatalogWins(cat) == [cat EXCEPT !.dbs = @ @@ store.dbFlags, !.tables = @ @@ store.tableFlags]   \* Slip
MergedNames(cat) == [cat EXCEPT !.dbs = store.dbFlags @@ @, !.tables = store.tableFlags @@ @]

\* The log's rows name their columns by id, which only the catalog resolves.
LoadNames ==
  /\ step = "catalog"
  /\ IF CatalogAt = NoCatalog THEN Refuse("no catalog")
     ELSE IF CatalogAt.kind \in {"binary", "stale"} /\ store.logged # {} THEN Refuse("log")
     ELSE /\ known' = MergedNames(IF CatalogAt = Binary THEN Nothing ELSE CatalogAt)
          /\ step' = "route"
          /\ UNCHANGED <<store, why, node, cluster, routed>>

Resolves(k) == k[1] \in DOMAIN known.dbs /\ k \in DOMAIN known.tables

Included(db) == /\ db = "_internal" => store.internal
                /\ store.filter = {} \/ db \in store.filter

Shard(k) == [key |-> k, db |-> known.dbs[k[1]], table |-> known.tables[k].name,
             series |-> known.tables[k].series]

\* A table with files, or with rows in the log alone.
Tables == store.live \cup store.logged

RouteTables ==
  /\ step = "route"
  /\ IF \E k \in Tables : ~Resolves(k) THEN Refuse("names")
     ELSE /\ routed' = {Shard(k) : k \in {k \in Tables : Included(known.dbs[k[1]])}}
          /\ step' = "routed"
          /\ UNCHANGED <<store, why, node, cluster, known>>

Next == LocateNamed \/ LocateNowhere \/ LocateNode \/ LoadNames \/ RouteTables

Spec == Init /\ [][Next]_vars

-----------------------------------------------------------------------------
(* Properties.  dirs[p].kind is what prefix p really is: "node" (it holds  *)
(* Parquet data or a log), "pacha", "cluster" or "other".                  *)

Real(kind) == {p \in DOMAIN store.dirs : store.dirs[p].kind = kind}

\* Directories that deceive: a node with a log and nothing else yet does not
\* look like one; a cluster upgraded from 3.3 has the trees of two catalogs,
\* like a node; one upgraded to Pacha counts as that and as nothing else.
Deceptive(p) == \/ p \in Real("node") /\ store.dirs[p].markers = {"wal"}
                \/ /\ p \in Real("cluster")
                   /\ Has(p, "cv2") \/ {"catalog", "catalogs"} \subseteq store.dirs[p].markers

TheCatalog ==
  LET at == {p \in DOMAIN store.dirs : store.catalogs[p] # NoCatalog}
  IN  IF at = {} THEN NoCatalog ELSE store.catalogs[CHOOSE p \in at : TRUE]

Named(k) ==
  LET cat == IF TheCatalog.kind \in {"read", "stale"} THEN TheCatalog ELSE Nothing
  IN  /\ k[1] \in DOMAIN store.dbFlags \cup DOMAIN cat.dbs
      /\ k \in DOMAIN store.tableFlags \cup DOMAIN cat.tables

\* A table as the operator expects it: as given, or as in the catalog.
Expected(k) ==
  LET db == IF k[1] \in DOMAIN store.dbFlags THEN store.dbFlags[k[1]] ELSE TheCatalog.dbs[k[1]]
      table == IF k \in DOMAIN store.tableFlags THEN store.tableFlags[k] ELSE TheCatalog.tables[k]
  IN  [key |-> k, db |-> db, table |-> table.name, series |-> table.series]

Honest == \A p \in DOMAIN store.dirs : ~Deceptive(p)

\* Unless its directories deceive: the tables of a store's one node are
\* migrated, all that hold data in files or in the log and are asked for,
\* each under the name and with the series key that it has or was given; a
\* store of several nodes is not migrated at all; and a store is refused only
\* for what the tool does not support or has no names for.
TablesRouted ==
  Honest =>
    /\ step = "routed" =>
         /\ node \in Real("node")
         /\ store.at = AtRoot => Cardinality(Real("node")) = 1
         /\ routed = {s \in {Expected(k) : k \in Tables} : Included(s.db)}
    /\ why = "nodes" => Cardinality(Real("node")) > 1
    /\ why \in {"no node", "pacha"} =>
         (IF store.at = AtRoot THEN Real("node") = {} ELSE store.at \notin Real("node"))
    /\ why = "no catalog" => store.at # AtRoot \/ TheCatalog = NoCatalog
    /\ why = "log" => store.logged # {} /\ TheCatalog.kind \in {"binary", "stale"}
    /\ why = "names" => \E k \in Tables : ~Named(k)
=============================================================================
