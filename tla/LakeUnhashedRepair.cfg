\* The settlement of an exported day changes, then the day is reconciled.
CONSTANTS
    e1 = e1
    e2 = e2
    cl = cl
    rc = rc
    mA = mA
    mB = mB
    ev = ev
    Markets <- OneMarket
    Conditions <- None
    Exporters <- OneExporter
    Cleaners <- None
    Reconcilers <- OneReconciler
    MaxRuns = 1
    MaxSource = 0
    MaxExtras = 1
    Dirty <- None
    SerialWriters = TRUE
SPECIFICATION Spec
PROPERTY ReconcileSeesEveryRepair
