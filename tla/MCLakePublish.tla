---------------------------- MODULE MCLakePublish ----------------------------
(* Small instances of LakePublish for TLC.                                 *)
EXTENDS LakePublish, TLC

CONSTANTS e1, e2, cl, rc, mA, mB, ev

OneExporter  == {e1}
TwoExporters == {e1, e2}
OneCleaner == {cl}
OneReconciler == {rc}
OneMarket  == {mA}
TwoMarkets == {mA, mB}
OneEvent == {ev}
None == {}

LastVersionDirty == {MaxSource}

ExportersAlike == Permutations(Exporters)
=============================================================================
