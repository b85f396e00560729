--------------------------- MODULE MCSilverWriter ---------------------------
(* Instances of SilverWriter for TLC: cvd and liq write through            *)
(* write_to_clickhouse, oi inserts directly.                               *)
EXTENDS SilverWriter

CONSTANTS cvd, liq, oi

\* The second batch of cvd has no rows.
MCEmpty == {<<cvd, 2>>}
MCNoPairs == {}

\* ClickHouse refuses the first batch of cvd, or the second of oi, or nothing.
MCRefusals == {{<<cvd, 1>>}, {<<oi, 2>>}}
MCNoRefusal == {{}}

\* An exception of Spark, a lost connection, and an unknown text.
MCExceptions == {{"spark", "connection"}, {"connection", "schema"}, {}}
MCTimeout == {{"timeout"}}
MCPoisonException == {"schema", "duplicate"}
MCAllTypes == {"*"}
=============================================================================
