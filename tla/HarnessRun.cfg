\* Both adapters, every call; pipes of one line or write each, so that the child
\* meets them full.
CONSTANTS
    OutCap = 1
    ErrCap = 1
    MaxOut = 3
    MaxErr = 2
SPECIFICATION Spec
INVARIANTS TypeOK DoneIsComplete NothingLeft StderrWhole
PROPERTIES Ends
