-------------------------- MODULE MCPeriodSettlement --------------------------
(***************************************************************************)
(* Instances of PeriodSettlement for TLC.                                  *)
(***************************************************************************)
EXTENDS PeriodSettlement

\* The ids of the transactions, in the order they are given out.
MCTxnIds == 1..2

\* Both databases, or one of them.
BothBackends   == {"postgresql", "sqlite"}
PostgreSQLOnly == {"postgresql"}
SQLiteOnly     == {"sqlite"}
=============================================================================
