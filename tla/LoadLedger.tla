----------------------------- MODULE LoadLedger -----------------------------
(***************************************************************************)
(* What the load of one shard promises, whatever the concurrency of its    *)
(* sender and however often its process dies.  The shard is a fixed        *)
(* sequence of N chunks.  Arc holds a set of them that only grows, the     *)
(* checkpoint acknowledges a prefix of the sequence, every acknowledged    *)
(* chunk is in Arc, and Arc never holds more than Window chunks past that  *)
(* prefix: those are the ones a rerun sends again.                         *)
(***************************************************************************)
EXTENDS Integers

CONSTANTS N,        \* number of chunks the shard is cut into
          Window    \* chunks Arc may hold past the acknowledged prefix

VARIABLES stored,   \* the chunks Arc holds at least one copy of
          acked,    \* length of the acknowledged prefix
          done      \* is the shard marked done?

lvars == <<stored, acked, done>>

Chunks == 0 .. N-1

(***************************************************************************)
(* A load may start from a checkpoint that an earlier version left behind: *)
(* a prefix is acknowledged, and the chunk after it may already be in Arc. *)
(***************************************************************************)
LInit ==
  /\ acked \in 0 .. N
  /\ stored \in {Chunks \cap (0 .. acked-1), Chunks \cap (0 .. acked)}
  /\ done = FALSE

Store(c) ==
  /\ c < acked + Window
  /\ stored' = stored \cup {c}
  /\ UNCHANGED <<acked, done>>

Acknowledge ==
  /\ acked \in stored
  /\ acked' = acked + 1
  /\ UNCHANGED <<stored, done>>

MarkDone ==
  /\ acked = N
  /\ done' = TRUE
  /\ UNCHANGED <<stored, acked>>

LNext == (\E c \in Chunks : Store(c)) \/ Acknowledge \/ MarkDone

LSpec == LInit /\ [][LNext]_lvars
=============================================================================
