SPECIFICATION Spec
CONSTANTS
    Producers = {p1, p2, p3, p4, g}
    Genesis = g
    Schedules = {{p1, p2, p3, p4}, {p1, p2}}
    Lazy = FALSE
    MaxTracked = 1024
    MaxNum = 11
    MaxVersion = 2
INVARIANT BlockBecomesHead
CHECK_DEADLOCK FALSE
