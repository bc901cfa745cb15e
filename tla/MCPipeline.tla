----------------------------- MODULE MCPipeline -----------------------------
(* Small instances of Pipeline: the dumps.                                  *)
EXTENDS Pipeline

Chunk      == [type |-> "chunk"]
Version    == [type |-> "version", ok |-> TRUE]
BadVersion == [type |-> "version", ok |-> FALSE]
Create(t)  == [type |-> "table", table |-> t]
Start(t)   == [type |-> "start", table |-> t]
Good       == [type |-> "rows", bad |-> FALSE]
Bad        == [type |-> "rows", bad |-> TRUE]
End(t)     == [type |-> "end", table |-> t]

(* "a" and "b" are loaded, "skip" is filtered out, "hist" is reserved.      *)
TableNames == {"a", "b", "skip", "hist"}
WantedNames == {"a", "b"}
ReservedNames == {"hist"}

OneTable(row) == <<Version, Create("a"), Start("a"), Good, row, Good, End("a"), Chunk>>

SmallDumps ==
  { <<Version, Create("a"), Create("b"), Chunk, Start("a"), Good, Good, Chunk, Good, Good, End("a"),
      Start("b"), Good, Good, End("b"), Chunk>>,
    <<Version, Create("a"), Create("b"), Start("a"), Good, Bad, End("a"),
      Start("b"), Good, End("b"), Chunk>>,
    <<Version, Create("skip"), Create("a"), Start("skip"), Good, End("skip"),
      Start("a"), Good, End("a"), Chunk>>,
    <<Version, Create("a"), Start("a"), Good, Chunk, Good, Chunk>>,
    <<Version, Start("skip"), Good, Chunk>>,
    <<Version, Start("a"), Good, End("a"), Chunk>>,
    <<Version, Create("hist"), Start("hist"), End("hist"), Chunk>>,
    <<Create("a"), Start("a"), Good, End("a"), Chunk>>,
    <<BadVersion, Create("a"), Chunk>>,
    <<Version, Create("a"), Start("a"), Good, End("a"), Start("a"), Good, Good, End("a"), Chunk>> }

(* One block, with a row that does not decode.                              *)
BadDumps == { OneTable(Bad) }
=============================================================================
