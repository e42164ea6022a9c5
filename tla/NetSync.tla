------------------------------ MODULE NetSync ------------------------------
(***************************************************************************)
(* How nodes that are behind catch up (net_plugin.cpp, sync_manager and    *)
(* the message handlers): handshakes and notices, requests for a range of  *)
(* blocks from one source with a timeout, the catch-up of the last         *)
(* reversible blocks, broadcast of new blocks, and connections that close  *)
(* and are made again.  Both ends of every connection run the same code.   *)
(***************************************************************************)
EXTENDS NetConnection, FiniteSets

CONSTANTS Nodes,
          Order,         \* the nodes in the order of their connections' addresses
          Links,         \* pairs <<n, p>>: n has p in its list of peers and dials it
          Heads,         \* the head of every node at the start
          Span,          \* sync_req_span
          NoConn, Gone,  \* source: a null pointer; an erased connection
          MaxFaults      \* bound: connections lost, timeouts that overtake the answer,
                         \* blocks refused because the clock is behind

ASSUME NetSyncAssumption ==
    /\ Links \subseteq Nodes \X Nodes
    /\ \A n, p \in Nodes : <<n, p>> \in Links => <<p, n>> \notin Links /\ n # p
    /\ Heads \in [Nodes -> 1..MaxBlock]
    /\ Span \in Nat \ {0} /\ MaxFaults \in Nat

VARIABLES node,   \* a node: head, the members of sync_manager (sync_known_lib_num,
                  \* sync_last_requested_num, sync_next_expected_num, source, state)
                  \* and conn, its connections
          faults  \* how many of the bounded events happened, and whether a
                  \* connection closed while a write was in progress

vars == <<node, faults>>

Peers(n) == {p \in Nodes : <<n, p>> \in Links \/ <<p, n>> \in Links}

Init == /\ node = [n \in Nodes |->
                     [head |-> Heads[n], known |-> 0, last |-> 0, next |-> 1,
                      source |-> NoConn, state |-> "in_sync",
                      conn |-> [p \in Peers(n) |->
                                  [NewConnection EXCEPT !.listed = <<n, p>> \in Links]]]]
        /\ faults = [torn |-> FALSE, drops |-> 0, early |-> 0, future |-> 0]

-----------------------------------------------------------------------------
(* Operators on the record s of one node.                                  *)

Listed(s) == {p \in DOMAIN s.conn : s.conn[p].listed}

OnConn(s, p, c) == [s EXCEPT !.conn[p] = c]

SendHandshakes(s) ==
    [s EXCEPT !.conn = [p \in DOMAIN s.conn |->
        IF Current(s.conn[p]) THEN SendHandshake(s.conn[p], s.head) ELSE s.conn[p]]]

(* request_next_chunk: the first connection after the source, in a ring,   *)
(* that can be used; the source itself comes last.                         *)
NextSource(s) ==
    LET list == SelectSeq(Order, LAMBDA p : p \in Listed(s))
        at   == CHOOSE i \in 1..Len(list) : list[i] = s.source
        ring == IF s.source \in Listed(s)
                THEN SubSeq(list, at + 1, Len(list)) \o SubSeq(list, 1, at)
                ELSE list
        able == SelectSeq(ring, LAMBDA p : Current(s.conn[p]))
    IN IF Len(list) = 1 THEN IF s.source = NoConn THEN list[1] ELSE s.source
       ELSE IF able # <<>> THEN able[1]
       ELSE IF s.source \in Listed(s) THEN s.source ELSE NoConn

IsCurrent(s, p) == p \in DOMAIN s.conn /\ Current(s.conn[p])

(* Mutant: a range of one block is not requested.                          *)
RequestNextChunkOverOne(s, wanted) ==
    LET source == IF IsCurrent(s, wanted) THEN wanted ELSE NextSource(s)
        t      == [s EXCEPT !.source = source]
        end    == Lower(s.next + Span - 1, s.known)
    IN IF s.head < s.last /\ IsCurrent(s, s.source) THEN s
       ELSE IF ~IsCurrent(s, source)
       THEN [t EXCEPT !.known = Lib(s.head), !.last = 0, !.state = "in_sync"]
       ELSE IF s.last # s.known /\ end > s.next
       THEN [t EXCEPT !.last = end,
                      !.conn[source] = [Enqueue(@, SyncRequest(s.next, end))
                                        EXCEPT !.armed = TRUE]]
       ELSE t

RequestNextChunk(s, wanted) ==
    LET source == IF IsCurrent(s, wanted) THEN wanted ELSE NextSource(s)
        t      == [s EXCEPT !.source = source]
        end    == Lower(s.next + Span - 1, s.known)
    IN IF s.head < s.last /\ IsCurrent(s, s.source) THEN s
       ELSE IF ~IsCurrent(s, source)
       THEN [t EXCEPT !.known = Lib(s.head), !.last = 0, !.state = "in_sync"]
       ELSE IF s.last # s.known /\ end > 0 /\ end >= s.next
       THEN [t EXCEPT !.last = end,
                      !.conn[source] = [Enqueue(@, SyncRequest(s.next, end))
                                        EXCEPT !.armed = TRUE]]
       ELSE t

(* Mutant: a source that was closed is kept.                               *)
ResetLibNumKept(s, p) ==
    LET t == IF s.state = "in_sync" THEN [s EXCEPT !.source = NoConn] ELSE s
    IN IF Current(s.conn[p]) THEN [t EXCEPT !.known = Higher(@, s.conn[p].lib)] ELSE t

ResetLibNum(s, p) ==
    LET t == IF s.state = "in_sync" THEN [s EXCEPT !.source = NoConn] ELSE s
    IN IF Current(s.conn[p]) THEN [t EXCEPT !.known = Higher(@, s.conn[p].lib)]
       ELSE IF p = t.source THEN RequestNextChunk([t EXCEPT !.last = 0], NoConn)
       ELSE t

(* net_plugin_impl::close.                                                 *)
Close(s, p) == ResetLibNum(OnConn(s, p, Closed(s.conn[p])), p)

StartSync(s, p, target) ==
    LET t == [s EXCEPT !.known = Higher(@, target)]
        required == t.last < t.known \/ t.head < t.last
        u == IF t.state = "in_sync"
             THEN [t EXCEPT !.state = "lib_catchup", !.next = Lib(t.head) + 1] ELSE t
    IN IF required THEN RequestNextChunk(u, p) ELSE t

VerifyCatchup(s, p, num) ==
    LET c == s.conn[p]
    IN IF \E q \in Listed(s) : s.conn[q].forkHead >= num
       THEN OnConn(s, p, Enqueue([c EXCEPT !.forkHead = 0], Request("none")))
       ELSE IF s.state = "lib_catchup" THEN OnConn(s, p, [c EXCEPT !.forkHead = num])
       ELSE [OnConn(s, p, Enqueue([c EXCEPT !.forkHead = num], Request("catch_up")))
             EXCEPT !.state = "head_catchup"]

(* sync_manager::recv_handshake with the five states its comment counts.   *)
RecvHandshake(s, p, m) ==
    LET t == LET r == ResetLibNum(s, p) IN OnConn(r, p, [r.conn[p] EXCEPT !.syncing = FALSE])
        tell(note) == OnConn(t, p, Enqueue([t.conn[p] EXCEPT !.syncing = TRUE], note))
    IN IF t.head = m.head THEN OnConn(t, p, Enqueue(t.conn[p], Notice("none", 0)))
       ELSE IF t.head < m.lib THEN t
       ELSE IF Lib(t.head) > m.head THEN tell(Notice("last_irr_catch_up", Lib(t.head)))
       ELSE IF t.head < m.head THEN VerifyCatchup(t, p, m.head)
       ELSE tell(Notice("catch_up", t.head))

(* handle_message of a handshake_message on the same chain.                *)
HandleHandshake(s, p, m) ==
    LET c == [s.conn[p] EXCEPT !.connecting = FALSE]
        d == IF m.first /\ ~c.greeted THEN SendHandshake(c, s.head) ELSE c
    IN RecvHandshake(OnConn(s, p, [d EXCEPT !.lib = m.lib, !.libId = m.lib]), p, m)

(* handle_message of a notice_message and sync_manager::recv_notice.       *)
HandleNotice(s, p, m) ==
    LET t == OnConn(s, p, [s.conn[p] EXCEPT !.connecting = FALSE])
        told == OnConn(t, p, [t.conn[p] EXCEPT !.lib = m.num])
    IN CASE m.mode = "none" -> t
         [] m.mode = "catch_up" -> VerifyCatchup(t, p, m.num)
         [] m.mode = "last_irr_catch_up" -> StartSync(ResetLibNum(told, p), p, m.num)

(* The loop of recv_block over the connections: an announced head that is  *)
(* not above the block clears fork_head of connection p, whichever         *)
(* connection announced it.                                                *)
Reached(s, num) == {q \in Listed(s) : s.conn[q].forkHead \in 1..num}

Before(p, q) == \E i, j \in DOMAIN Order : Order[i] = p /\ Order[j] = q /\ i < j

RecvBlockAtHead(s, p, num) ==
    LET above == {q \in Listed(s) : s.conn[q].forkHead > num}
        ahead == IF \E q \in Reached(s, num) : Before(q, p) THEN above \ {p} ELSE above
        t == [s EXCEPT !.source = NoConn,
                       !.state = IF ahead = {} THEN "in_sync" ELSE "head_catchup",
                       !.conn[p].forkHead = IF Reached(s, num) = {} THEN @ ELSE 0]
    IN IF ahead = {} THEN SendHandshakes(t) ELSE t

(* Mutant: no timer for the rest of the range.                             *)
RecvBlockUntimed(s, p, num) ==
    LET t == [s EXCEPT !.next = num + 1]
    IN IF s.state = "in_sync" THEN s
       ELSE IF s.state = "head_catchup" THEN RecvBlockAtHead(s, p, num)
       ELSE IF num # s.next THEN Close(s, p)
       ELSE IF num = s.known THEN SendHandshakes([t EXCEPT !.state = "in_sync"])
       ELSE IF num = s.last THEN RequestNextChunk(t, NoConn)
       ELSE t

(* sync_manager::recv_block.                                               *)
RecvBlock(s, p, num) ==
    LET t == [s EXCEPT !.next = num + 1]
    IN IF s.state = "in_sync" THEN s
       ELSE IF s.state = "head_catchup" THEN RecvBlockAtHead(s, p, num)
       ELSE IF num # s.next THEN Close(s, p)
       ELSE IF num = s.known THEN SendHandshakes([t EXCEPT !.state = "in_sync"])
       ELSE IF num = s.last THEN RequestNextChunk(t, NoConn)
       ELSE [t EXCEPT !.conn[p].armed = TRUE]

(* accepted_block and dispatch_manager::bcast_block.                       *)
BcastBlock(s, num) ==
    [s EXCEPT !.conn = [p \in DOMAIN s.conn |->
        LET c == s.conn[p]
            d == [c EXCEPT !.got = @ \ {num}]
        IN IF num \notin c.got /\ Current(c) /\ c.lib < num
           THEN Enqueue(d, Block(num)) ELSE d]]

(* process_next_message with a block, handle_message of a signed_block and *)
(* producer_plugin's on_incoming_block, which drops a block that does not  *)
(* link without telling its caller.                                        *)
HandleBlock(s, p, num) ==
    LET t == [s EXCEPT !.conn[p].armed = FALSE, !.conn[p].got = @ \cup {num}]
    IN IF num <= s.head THEN RecvBlock(s, p, num)
       ELSE IF num = s.head + 1
       THEN RecvBlock(BcastBlock([t EXCEPT !.head = num], num), p, num)
       ELSE RecvBlock(t, p, num)

(* Mutant: a refused block counts as received.                             *)
RefuseBlockCounted(s, p) == RecvBlock([s EXCEPT !.conn[p].armed = FALSE], p, s.head + 1)

(* The same for a block that seems to be from the future.                  *)
RefuseBlock(s, p) ==
    LET t == [s EXCEPT !.conn[p].armed = FALSE]
    IN IF s.state = "in_sync" THEN t
       ELSE SendHandshakes([Close([t EXCEPT !.last = 0, !.source = NoConn], p)
                            EXCEPT !.state = "in_sync"])

(* sync_timeout and reassign_fetch: cancel_sync writes an empty request; a *)
(* socket that is not open is closed by the attempt to write to it.        *)
ReassignFetch(s, p) ==
    LET c == FlushQueues([s.conn[p] EXCEPT !.armed = FALSE])
        t == IF c.open \/ c.out THEN OnConn(s, p, Enqueue(c, SyncRequest(0, 0)))
             ELSE Close(OnConn(s, p, c), p)
    IN IF p # s.source THEN s ELSE RequestNextChunk([t EXCEPT !.last = 0], NoConn)

-----------------------------------------------------------------------------
(* What was sent to an end that is closed is lost.                         *)
Discard(nodes) ==
    [n \in Nodes |-> [nodes[n] EXCEPT !.conn = [p \in DOMAIN @ |->
        IF nodes[p].conn[n].open THEN @[p] ELSE [@[p] EXCEPT !.wire = <<>>]]]]

Faults == faults.drops + faults.early + faults.future

(* A step to those nodes with those faults; it may tear connections.       *)
Becomes(nodes, count) ==
    LET torn == \E n \in Nodes : \E p \in Peers(n) :
                    nodes[n].conn[p].writing /\ ~nodes[n].conn[p].open
    IN node' = Discard(nodes) /\ faults' = [count EXCEPT !.torn = @ \/ torn]

Set(n, s) == [node EXCEPT ![n] = s]

(* The dialling end keeps its connection object; the other end makes one.  *)
Connect(n, p) ==
    LET c == node[n].conn[p]
        d == node[p].conn[n]
    IN /\ <<n, p>> \in Links /\ ~c.open /\ ~d.open 
       /\ ~c.writing /\ ~d.writing /\ ~c.fired /\ ~d.fired
       /\ Becomes([node EXCEPT
            ![n].conn[p] = SendHandshake([c EXCEPT !.open = TRUE, !.connecting = TRUE],
                                         node[n].head),
            ![p].conn[n] = [NewConnection EXCEPT !.listed = TRUE, !.open = TRUE,
                                                 !.connecting = TRUE],
            ![p].source = IF @ = n THEN Gone ELSE @], faults)

(* connection_monitor drops a closed connection that was not dialled.      *)
EraseClosed(n, p) ==
    LET c == node[n].conn[p]
    IN /\ <<p, n>> \in Links /\ c.listed /\ ~c.open /\ ~c.writing /\ ~c.fired
       /\ node' = [node EXCEPT ![n].conn[p] = [NewConnection EXCEPT !.wire = c.wire],
                               ![n].source = IF @ = p THEN Gone ELSE @]
       /\ UNCHANGED faults

Handled(s, p, m) ==
    CASE m.type = "handshake"    -> HandleHandshake(s, p, m)
      [] m.type = "notice"       -> HandleNotice(s, p, m)
      [] m.type = "request"      -> OnConn(s, p, HandleRequest(s.conn[p], m, s.head))
      [] m.type = "sync_request" -> OnConn(s, p, HandleSyncRequest(s.conn[p], m, s.head))
      [] m.type = "block"        -> HandleBlock(s, p, m.num)
      [] m.type = "eof"          -> Close(s, p)

(* Node n reads the next message of p.                                     *)
Receive(n, p) ==
    LET wire == node[p].conn[n].wire
    IN /\ node[n].conn[p].open /\ wire # <<>>
       /\ Becomes([node EXCEPT ![p].conn[n].wire = Tail(wire),
                               ![n] = Handled(node[n], p, Head(wire))], faults)

ReceiveFuture(n, p) ==
    LET wire == node[p].conn[n].wire
    IN /\ node[n].conn[p].open /\ wire # <<>> /\ Faults < MaxFaults
       /\ Head(wire).type = "block" /\ Head(wire).num = node[n].head + 1
       /\ Becomes([node EXCEPT ![p].conn[n].wire = Tail(wire),
                               ![n] = RefuseBlock(node[n], p)],
                  [faults EXCEPT !.future = @ + 1])

(* The callback of async_write.  After an error _out_queue is left as it   *)
(* is.                                                                     *)
WriteDone(n, p) ==
    LET s == node[n]
    IN /\ s.conn[p].writing
       /\ Becomes(Set(n, IF s.conn[p].open
                         THEN OnConn(s, p, Written(s.conn[p], s.head))
                         ELSE Close(OnConn(s, p, [s.conn[p] EXCEPT !.writing = FALSE]), p)),
                  faults)

(* Nothing that n waits for from p is on its way.                          *)
Quiet(n, p) ==
    LET d == node[p].conn[n]
    IN d.wire = <<>> /\ node[n].conn[p].wire = <<>> /\ ~d.writing /\ ~node[n].conn[p].writing

Expire(n, p) ==
    /\ node[n].conn[p].armed /\ ~node[n].conn[p].fired
    /\ node' = [node EXCEPT ![n].conn[p].armed = FALSE, ![n].conn[p].fired = TRUE]

ExpireLate(n, p) == Quiet(n, p) /\ Expire(n, p) /\ UNCHANGED faults

ExpireEarly(n, p) ==
    /\ ~Quiet(n, p) /\ Faults < MaxFaults /\ Expire(n, p)
    /\ faults' = [faults EXCEPT !.early = @ + 1]

SyncTimeout(n, p) ==
    /\ node[n].conn[p].fired
    /\ Becomes(Set(n, ReassignFetch([node[n] EXCEPT !.conn[p].fired = FALSE], p)), faults)

(* The connection breaks; what was on its way is lost.                     *)
Drop(n, p) ==
    /\ <<n, p>> \in Links /\ Faults < MaxFaults
    /\ node[n].conn[p].open /\ node[p].conn[n].open
    /\ node' = [node EXCEPT ![n].conn[p].wire = <<Eof>>, ![p].conn[n].wire = <<Eof>>]
    /\ faults' = [faults EXCEPT !.drops = @ + 1]

(* A node that has the newest block makes the next one.                    *)
Produce(n) ==
    LET num == node[n].head + 1
    IN /\ num <= MaxBlock /\ \A m \in Nodes : node[m].head < num
       /\ node' = Set(n, BcastBlock([node[n] EXCEPT !.head = num], num))
       /\ UNCHANGED faults

(* What the event loop of the nodes does by itself.                        *)
Work == \E n \in Nodes : \E p \in Peers(n) :
           \/ Connect(n, p) \/ EraseClosed(n, p) \/ Receive(n, p)
           \/ WriteDone(n, p) \/ ExpireLate(n, p) \/ SyncTimeout(n, p)

Next == \/ Work
        \/ \E n \in Nodes :
              \/ Produce(n)
              \/ \E p \in Peers(n) :
                    Drop(n, p) \/ ReceiveFuture(n, p) \/ ExpireEarly(n, p)

(* The nodes do not stop while there is work: the event loop runs every    *)
(* posted callback, TCP delivers while the connection lasts, timers run    *)
(* out, and connection_monitor dials again.  No order between the nodes'   *)
(* steps is assumed, and nothing of faults and of new blocks.              *)
Fairness == WF_vars(Work)

Spec == Init /\ [][Next]_vars

FairSpec == Spec /\ Fairness
-----------------------------------------------------------------------------
(* recv_block counts a block of a requested range as received although     *)
(* on_incoming_block may have dropped it without a word, because it does   *)
(* not link.  Every block so counted is held: however handshakes,          *)
(* broadcasts, timeouts and reconnects mix, the next number expected is at *)
(* most one above the head.                                                *)
CountedBlocksHeld ==
    \A n \in Nodes : node[n].state = "lib_catchup" => node[n].next <= node[n].head + 1

(* source is a pointer that close, reset_lib_num, connection_monitor and   *)
(* rejected_block change or leave behind.  A node that waits for           *)
(* irreversible blocks waits for a connection that is still open: closing  *)
(* the source, on whatever path, chooses another one or ends the wait.     *)
SourceOpen ==
    \A n \in Nodes : node[n].state = "lib_catchup" =>
        node[n].source \in Peers(n) /\ node[n].conn[node[n].source].open

Timed(n) == \E p \in Peers(n) :
    p = node[n].source /\ (node[n].conn[p].armed \/ node[n].conn[p].fired)

(* No step loses the timer of a wait for irreversible blocks: when the     *)
(* source's response_expected runs, or ran out and sync_timeout is posted, *)
(* it is so after the step, as long as the node lacks blocks and did not   *)
(* request them all, however blocks, notices, timeouts and closed          *)
(* connections of several peers mix.  (A wait may begin without a timer,   *)
(* and one for the last range may lose it: README, section 3.)             *)
TimerKept ==
    [][\A n \in Nodes :
          /\ node[n].state = "lib_catchup" /\ Timed(n)
          /\ node'[n].state = "lib_catchup"
          /\ node'[n].head < node'[n].known /\ node'[n].last < node'[n].known
          => Timed(n)']_vars

(* The comment on queued_buffer says "if out_queue is not empty then       *)
(* async_write is in progress".  A connection of which that is not true is *)
(* mute for ever.  It is true of every open one, unless the connection     *)
(* closed once during a write, and then of the end that did not dial: the  *)
(* end that dialled uses the object again, the other one makes a new one.  *)
MuteEndDialled ==
    \A n \in Nodes : \A p \in Peers(n) :
        LET c == node[n].conn[p]
        IN c.open /\ c.out /\ ~c.writing => <<n, p>> \in Links /\ faults.torn

NoNewBlock == \A n \in Nodes : \E m \in Nodes : node[n].head <= Heads[m]

(* While no connection breaks, no timeout comes early and no clock is      *)
(* behind, every node comes to hold every block that some node knew to be  *)
(* irreversible at the start, while new blocks are made and broadcast.     *)
IrreversibleSpreads ==
    [](Faults = 0 /\ ~faults.torn) =>
        <>[](\A n, m \in Nodes : node[n].head >= Lib(Heads[m]))

(* While no new block is made and no timeout comes early, every node comes *)
(* to hold every block, whatever is lost or refused on the way, unless a   *)
(* connection closes during a write.                                       *)
HeadSpreads ==
    [](NoNewBlock /\ faults.early = 0 /\ ~faults.torn) =>
        <>[](\A n, m \in Nodes : node[n].head = node[m].head)
=============================================================================
