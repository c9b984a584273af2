CONSTANTS
    daemon = daemon
    app = app
    s1 = s1
    s2 = s2
    s3 = s3
    m1 = m1
    m2 = m2
    Nobody = Nobody
    Process = {daemon, app}
    Session = {s1, s2}
    Module = {m1}
    NoData = {}
    UsedDs = {"startup", "candidate"}
    ProcOf <- MCProcOf
    Rank <- MCRank
    Denied <- MCDenied
SPECIFICATION Spec
INVARIANTS
    LocksBacked
    DsLockOwned
    CommitCovered
    NothingLeftLocked
