SPECIFICATION FairSpec
CONSTANTS
    sub1 = sub1
    sub2 = sub2
    sub3 = sub3
    xp1 = xp1
    xp2 = xp2
    Sub = {sub1, sub2, sub3}
    Verifier = {sub1, sub2}
    NoAbort = {sub1}
    Xpath = {xp1, xp2}
    XpathOf <- MCSharedXpath
    WriteFails = TRUE
    MayStop = TRUE
INVARIANTS
    TypeOK
    WriteOnlyIfAccepted
    AbortIsFinal
    ResumedOnce
    NoUseAfterFree
    WriteUnderLocks
PROPERTIES
    ImplementsCommitService
    Answered
    Released
CHECK_DEADLOCK FALSE
