\* An event is excluded while its day is exported.
CONSTANTS
    e1 = e1
    e2 = e2
    cl = cl
    rc = rc
    mA = mA
    mB = mB
    ev = ev
    Markets <- OneMarket
    Conditions <- OneEvent
    Exporters <- OneExporter
    Cleaners <- None
    Reconcilers <- None
    MaxRuns = 1
    MaxSource = 0
    MaxExtras = 0
    Dirty <- None
    SerialWriters = TRUE
SPECIFICATION Spec
INVARIANT ExcludedNeverServed
