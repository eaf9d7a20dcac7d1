\* Two exports of the same partition overlap.
CONSTANTS
    e1 = e1
    e2 = e2
    cl = cl
    rc = rc
    mA = mA
    mB = mB
    ev = ev
    Markets <- OneMarket
    Conditions <- OneEvent
    Exporters <- TwoExporters
    Cleaners <- None
    Reconcilers <- None
    MaxRuns = 2
    MaxSource = 1
    MaxExtras = 1
    Dirty <- LastVersionDirty
    SerialWriters = FALSE
SYMMETRY ExportersAlike
SPECIFICATION Spec
INVARIANTS RowDescribesFile ExclusionsReflected
