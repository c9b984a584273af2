CONSTANTS
    daemon = daemon
    app = app
    s1 = s1
    s2 = s2
    s3 = s3
    m1 = m1
    m2 = m2
    Nobody = Nobody
    Process = {daemon, app}
    Session = {s1, s2}
    Module = {m1, m2}
    NoData = {}
    UsedDs = {"running"}
    ProcOf <- MCProcOf
    Rank <- MCRank
    Denied <- MCDenied
SPECIFICATION DocSpec
INVARIANT LockKept
