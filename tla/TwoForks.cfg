SPECIFICATION TwoForksSpec
CONSTANTS
    Genesis = g
    p1 = p1
    p2 = p2
    p3 = p3
    p4 = p4
    p5 = p5
    p6 = p6
    First = {p1, p2, p3, p4}
    Second = {p5, p6}
    Nodes = {{p1}, {p2}, {p3}, {p4}, {p5}, {p6}}
    MaxTracked = 1024
    MaxBlocks = 19
    MaxRestarts = 1
INVARIANT ConfirmsOnce
CHECK_DEADLOCK FALSE
