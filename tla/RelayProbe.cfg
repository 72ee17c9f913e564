CONSTANTS
    p1 = p1
    p2 = p2
    Probe = {p1, p2}
    PathSegments <- MCPathSegments
    Decoded <- MCDecoded
    MaxSegments = 2
    RawUrls <- MCRawUrls
    Proxied <- MCProxied
    Documents <- MCDocuments
SPECIFICATION Spec
SYMMETRY Symmetric
INVARIANTS
    OneUrlPerRelay
    StderrRestored
    ClientsReleased
    DialsAllowed
    VerdictSound
CHECK_DEADLOCK FALSE
