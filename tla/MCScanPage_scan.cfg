SPECIFICATION Spec
CONSTANTS
    d1 = d1  d2 = d2  page = page  tab = tab  tool = tool  t1 = t1  t2 = t2
    MaxTargets = 3
    Limit = 2
    MaxConcurrent = 2
    Dev = {d1, d2}
    Answers <- Reports
    Caller = {page, tab, tool}
    ThisPage = page
    Ticks = {t1, t2}
    Plans <- SmallPlans
INVARIANTS TypeOK NothingSkipped CountsAgree StopWaits PollsWhileRunning CancelSticks ShowsAll GoesOnByItself
PROPERTIES ListStable EndedIsFrozen
SYMMETRY TickSymmetry
CHECK_DEADLOCK FALSE
