-------------------------- MODULE MCSemanticStore ---------------------------
(* Chunk counts and configurations for model checking SemanticStore. *)
EXTENDS SemanticStore, TLC

CONSTANTS p1, p2

\* Equal counts for different settings, different counts for equal ones, and
\* a corpus that has no chunk.
MCCount == [minilm |-> <<1, 2>>, bge |-> <<0, 1>>]

Embed(s, b, reindex) ==
  [embed |-> TRUE, settings |-> s, backend |-> b, reindex |-> reindex, build |-> TRUE]
Server(s, b, reindex, build) ==
  [embed |-> FALSE, settings |-> s, backend |-> b, reindex |-> reindex, build |-> build]

\* Every kind of process, with equal and with different settings and backends.
MCConfigs ==
  {Embed("minilm", "m16", TRUE), Embed("minilm", "m16", FALSE),
   Embed("bge", "flat", FALSE), Embed("bge", "m16", FALSE),
   Server("minilm", "m16", FALSE, FALSE), Server("minilm", "flat", FALSE, TRUE),
   Server("bge", "m16", FALSE, TRUE), Server("bge", "flat", FALSE, FALSE),
   Server("bge", "m16", TRUE, FALSE)}

Interchangeable == Permutations(Procs)
=============================================================================
