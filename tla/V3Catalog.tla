------------------------------ MODULE V3Catalog ------------------------------
(***************************************************************************)
(* The reading of a catalog (module Catalog) under a name of its own, so   *)
(* that it can stand beside other systems: the other readers (MCReaders)   *)
(* and V3Source, whose catalog is a count of columns (V3SourceProofs).     *)
(***************************************************************************)
EXTENDS Integers, SequencesExt

CONSTANTS
  Names,           \* the names of a table's columns
  MaxTables,       \* bound on the tables
  MaxBatches,      \* bound on the catalog's batches
  MaxCatalogSteps  \* bound on the server's steps while the catalog is read

\* A catalog refuses a second column of a name.
ASSUME CatalogAssumption == /\ Names \in Seq(STRING) /\ IsInjective(Names)
                            /\ {MaxTables, MaxBatches, MaxCatalogSteps} \subseteq Nat

VARIABLES history, states, trees, load

Cat == INSTANCE Catalog WITH MaxSteps <- MaxCatalogSteps

\* What was read is the server's catalog as of the last batch read: see
\* Catalog.
CatalogExact == Cat!CatalogExact
=============================================================================
