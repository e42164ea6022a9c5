SPECIFICATION Spec
CONSTANTS
    Producers = {p1, p2, p3}
    Genesis = p1
    Schedules = {{p1}, {p2}, {p1, p2}, {p2, p3}, {p1, p2, p3}}
    Lazy = TRUE
    MaxTracked = 4
    MaxNum = 9
    MaxVersion = 2
INVARIANTS Window ProposedConfirmed ProposalFits BlockBecomesHead
CHECK_DEADLOCK FALSE
