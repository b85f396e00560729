---------------------------- MODULE MCCvdStream -----------------------------
(* Instances of CvdStream for TLC.                                         *)
EXTENDS CvdStream

CONSTANTS btc, eth

MCHotTopics == {"binance-trade", "spot-trade"}
MCRoutingSymbols == <<btc, eth>>
MCActiveLanes == [k \in {<<"*", eth>>} |-> 1]

\* Trades of either market on time, a late one, one stamped ahead of its
\* time as far as the gate lets it, and one stamped still further ahead.
MCArrivals == {<<"futures", btc, 0>>, <<"futures", eth, -2>>, <<"futures", eth, -3>>, <<"spot", btc, 1>>}
MCMaxOffsets == [m \in Markets |-> IF m = "spot" THEN 1 ELSE 2]
MCLagSteps == {<<1, 2>>, <<2, 3>>}
=============================================================================
