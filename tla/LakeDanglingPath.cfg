\* A cleanup request runs beside an export.
CONSTANTS
    e1 = e1
    e2 = e2
    cl = cl
    rc = rc
    mA = mA
    mB = mB
    ev = ev
    Markets <- OneMarket
    Conditions <- None
    Exporters <- OneExporter
    Cleaners <- OneCleaner
    Reconcilers <- None
    MaxRuns = 1
    MaxSource = 0
    MaxExtras = 0
    Dirty <- None
    SerialWriters = FALSE
SPECIFICATION Spec
INVARIANT NoDanglingPath
