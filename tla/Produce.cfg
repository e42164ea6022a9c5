SPECIFICATION Spec
CONSTANTS
    Genesis = g
    First = {p1, p2}
    Second = {p1}
    Nodes = {{p1}, {p2}}
    MaxTracked = 1024
    MaxBlocks = 11
    MaxRestarts = 1
INVARIANTS ConfirmsOnce HeadersAccepted
CHECK_DEADLOCK FALSE
