SPECIFICATION FairSpec
CONSTANTS
    sub1 = sub1
    sub2 = sub2
    sub3 = sub3
    xp1 = xp1
    xp2 = xp2
    Sub = {sub1, sub2, sub3}
    Verifier = {}
    NoAbort = {}
    Xpath = {sub1, sub2, sub3}
    XpathOf <- MCOwnXpath
    WriteFails = TRUE
    MayStop = FALSE
PROPERTIES
    Released
CHECK_DEADLOCK FALSE
