---------------------------- MODULE MCWatermarks ----------------------------
(***************************************************************************)
(* Two behaviours of BlockProduction that are too long for a search: six   *)
(* nodes with a producer each, the first schedule of four handing over to  *)
(* the other two on two forks.  Every step is one of BlockProduction's; the*)
(* scripts say which one comes next.  Blocks 1 to 5 are the first blocks.  *)
(***************************************************************************)
EXTENDS BlockProduction

CONSTANTS p1, p2, p3, p4, p5, p6

VARIABLE step            \* the steps of the script taken so far

Make(p, q) == [op |-> "make", by |-> p, next |-> q]      \* q owns the slot after it
Get(p, b)  == [op |-> "get", by |-> p, block |-> b]
Stop(p)    == [op |-> "restart", by |-> p]

(* Slots go round the schedule, several in a row to each producer: the one *)
(* after a block is its producer's or the next one's in the schedule.      *)
Turns(p) == {p} \cup (CASE p = p1 -> {p2} [] p = p2 -> {p3} [] p = p3 -> {p4}
                        [] p = p4 -> {p1} [] p = p5 -> {p6} [] p = p6 -> {p5})

(* p5 becomes a producer on the fork 8 9 10, makes 11 and 12 there, and    *)
(* then learns of the fork 13 14 15 16 17, on which it becomes one later.  *)
TwoForks == <<
    Make(p2, p2), Get(p4, 6), Make(p4, p1), Get(p1, 7), Get(p3, 7),
    Make(p1, p1), Get(p2, 8), Make(p2, p2), Get(p4, 9), Make(p4, p4),
    Get(p5, 10), Make(p5, p5), Make(p5, p5),
    Make(p3, p3), Make(p3, p3), Make(p3, p3), Get(p1, 15), Make(p1, p2),
    Get(p2, 16), Make(p2, p2), Get(p5, 17), Make(p5, p5)>>

(* p5 gets the watermark 9 from a fork on which it is about to become a    *)
(* producer, and becomes one on another fork in a block that was not made  *)
(* in the slot after the block below.                                      *)
MissedSlot == <<
    Make(p2, p2), Stop(p3), Get(p4, 6), Make(p4, p1), Get(p1, 7), Get(p3, 6),
    Make(p1, p2), Get(p2, 8), Make(p2, p3), Get(p5, 9),
    Make(p3, p3), Make(p3, p3), Make(p3, p3), Make(p3, p3), Get(p2, 13),
    Make(p2, p2), Get(p1, 14), Make(p1, p1), Get(p3, 15), Make(p3, p3),
    Get(p2, 16), Make(p2, p3), Get(p1, 17), Make(p1, p1), Get(p5, 18), Make(p5, p5)>>

Take(e) ==
    \/ /\ e.op = "make"
       /\ ProduceBlock({e.by}, e.by)
       /\ e.next \in Turns(e.by) /\ blocks'[Len(blocks')].next = e.next
    \/ e.op = "get" /\ ReceiveBlocks({e.by}, e.block)
    \/ e.op = "restart" /\ RestartNode({e.by})

ScriptInit == Init /\ step = 0
Follow(script) == step < Len(script) /\ Take(script[step + 1]) /\ step' = step + 1

TwoForksSpec   == ScriptInit /\ [][Follow(TwoForks)]_<<vars, step>>
MissedSlotSpec == ScriptInit /\ [][Follow(MissedSlot)]_<<vars, step>>
=============================================================================
