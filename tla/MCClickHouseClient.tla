------------------------- MODULE MCClickHouseClient -------------------------
(* Instances of ClickHouseClient for TLC: two queries that go through      *)
(* write_to_clickhouse and one that inserts directly.                      *)
EXTENDS ClickHouseClient

CONSTANTS cvd, liq, oi

MCWriters == {cvd, liq, oi}
MCDirect == {oi}
=============================================================================
