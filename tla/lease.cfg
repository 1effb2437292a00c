CONSTANTS
    pageA = pageA
    pageB = pageB
    browserA = browserA
    browserB = browserB
    Tabs <- TwoPages
    Browsers <- TwoBrowsers
    BrowserOf <- BrowserOfPage
    Tokens = {k1, k2, k3, k4, k5}
    Slots = {s1}
    Operations = {"mutate", "halt", "reset"}
    Restarts = TRUE
    None = None
SPECIFICATION FairSpec
INVARIANTS TypeOK 
PROPERTY StaleLeaseHeals
