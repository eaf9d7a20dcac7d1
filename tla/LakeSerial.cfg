\* The directory's writers take turns; the source, a reconciler and operators do not wait.
CONSTANTS
    e1 = e1
    e2 = e2
    cl = cl
    rc = rc
    mA = mA
    mB = mB
    ev = ev
    Markets <- TwoMarkets
    Conditions <- None
    Exporters <- OneExporter
    Cleaners <- OneCleaner
    Reconcilers <- OneReconciler
    MaxRuns = 2
    MaxSource = 1
    MaxExtras = 0
    Dirty <- None
    SerialWriters = TRUE
SPECIFICATION Spec
INVARIANTS TypeOK NoDanglingPath
PROPERTIES CleanupCompletes ReconcileMissesNothing ImplementsPublishedLake
