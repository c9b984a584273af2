SPECIFICATION FairSpec
CONSTANTS
    sub1 = sub1
    sub2 = sub2
    sub3 = sub3
    xp1 = xp1
    xp2 = xp2
    Sub = {sub1, sub2, sub3}
    Verifier = {sub1, sub2}
    NoAbort = {sub1}
    Xpath = {sub1, sub2, sub3}
    XpathOf <- MCOwnXpath
    WriteFails = FALSE
    MayStop = FALSE
INVARIANTS
    OkMeansWritten
CHECK_DEADLOCK FALSE
