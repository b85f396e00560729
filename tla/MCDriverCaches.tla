--------------------------- MODULE MCDriverCaches ---------------------------
(* Instances of DriverCaches for TLC.                                      *)
EXTENDS DriverCaches

\* Whole quotes, those of the spot market stamped ahead of the clock, and one
\* without a bid.
MCQuotes ==
  {[m |-> "futures", skew |-> 0, has |-> Columns], [m |-> "futures", skew |-> 0, has |-> {"ask", "time"}],
   [m |-> "spot", skew |-> 1, has |-> Columns]}
=============================================================================
