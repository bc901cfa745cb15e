---------------------------- MODULE MCDeltaLoad ----------------------------
(* Small instances of DeltaLoad: the dumps.                                *)
EXTENDS DeltaLoad

Block(t, s, r) == [table |-> t, schema |-> s, rows |-> r, wanted |-> TRUE]
Filtered(t, s) == [table |-> t, schema |-> s, rows |-> TRUE, wanted |-> FALSE]

TableNames == {"a", "b"}

Field(n, t) == [name |-> n, type |-> t]
Schema1 == <<Field("x", "Int32"), Field("y", "Utf8")>>
Reordered == <<Field("y", "Utf8"), Field("x", "Int32")>>
Schema2 == <<Field("x", "Utf8"), Field("z", "Utf8")>>

(* Dumps with one COPY block per table; "b" may be empty, "a" may drift,   *)
(* be filtered or absent.                                                  *)
PlainPlans == { <<Block("a", Schema1, TRUE), Block("b", Schema1, TRUE)>>,
                <<Block("a", Schema2, TRUE), Block("b", Schema1, FALSE)>> }
PartialPlans == { <<Filtered("a", Schema1), Block("b", Reordered, TRUE)>>,
                  <<Block("b", Schema1, TRUE)>> }

(* Two COPY blocks feed one table (pg_dump --load-via-partition-root), as  *)
(* the columns of each partition come.                                     *)
PartitionedPlans == { <<Block("a", Schema1, TRUE), Block("a", Reordered, TRUE)>> }

(* One table, one COPY block.                                              *)
OneTablePlans == { <<Block("a", Schema1, TRUE)>> }

AllPlans == PlainPlans \cup PartialPlans \cup PartitionedPlans
=============================================================================
