SPECIFICATION Spec
CONSTANTS
    siteA = siteA
    siteB = siteB
    api = api
    bad = bad
    gone = gone
    wasmA = wasmA
    wasmB = wasmB
    wasmC = wasmC
    man = man
    p1 = p1
    p2 = p2
    Direct = Direct
    Nil = Nil
    Proc = {p1, p2}
    Config = {siteA, siteB, api, bad, gone, Direct}
    Kind <- Kinds
    Output <- Outs
    Manifest <- Shared
    Command <- Commands
    Overlap = FALSE
INVARIANTS
    TypeOK
    UnfinishedHasCulprit
    TmpHasCulprit
PROPERTIES
    ReportedIsFinished
CHECK_DEADLOCK FALSE
