CONSTANTS
    t1 = t1
    t2 = t2
    NoThread = NoThread
    NoParser = NoParser
    Threads <- MCThreads
    Libs <- MCLibs
    Others <- MCOthers
SPECIFICATION Spec
INVARIANT TypeOK
INVARIANT CallResultCorrect
PROPERTY CallsComplete
PROPERTY AtomicRegistrySpec
