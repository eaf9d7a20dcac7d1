--------------------------- MODULE MCBacktestQueue ---------------------------
(* Small instances of BacktestQueue for TLC.                               *)
EXTENDS BacktestQueue

CONSTANTS j1

OneJob == {j1}
=============================================================================
