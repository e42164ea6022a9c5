--------------------------- MODULE NetSyncProofs ---------------------------
(***************************************************************************)
(* Proofs about catching up, for any number of nodes, any topology, any    *)
(* heads, spans and lags, and any number of lost connections, early        *)
(* timeouts and refused blocks.                                            *)
(*                                                                         *)
(* Each handler is a composition of operators on a connection and on a     *)
(* node, so the proofs go by relations that compose: Tame and Still for    *)
(* what an operator may do to one end of a connection, Sane for what a     *)
(* handler may do to a node, Aside and Fine for what it may do to a wait   *)
(* for irreversible blocks.                                                *)
(*                                                                         *)
(* The first inductive invariant, NetInv, has the types, CountedBlocksHeld *)
(* node by node, and how an end can be mute: Mute(c) only after a socket   *)
(* was closed during a write.  The second, WaitInv, adds that the source   *)
(* of a wait is open and that next is at least 1: without the former a     *)
(* reconnect could replace the end on which the timer runs, without the    *)
(* latter request_next_chunk could request nothing while blocks lack.      *)
(***************************************************************************)
EXTENDS NetSync, TLAPS

(* The messages and the ends of connections.  Numbers are integers.        *)
Messages == [type : {"handshake"}, first : BOOLEAN, head : Int, lib : Int]
            \cup [type : {"notice"}, mode : {"none", "catch_up", "last_irr_catch_up"}, num : Int]
            \cup [type : {"request"}, mode : {"none", "catch_up"}]
            \cup [type : {"sync_request"}, start : Int, end : Int]
            \cup [type : {"block"}, num : Int]
            \cup [type : {"eof"}]

Requests == [start : Int, end : Int, last : Int]

Ends == [listed : BOOLEAN, open : BOOLEAN, connecting : BOOLEAN, syncing : BOOLEAN,
         forkHead : Int, greeted : BOOLEAN, lib : Int, libId : Int, got : SUBSET Int,
         req : Requests, armed : BOOLEAN, fired : BOOLEAN, wq : Seq(Messages), sq : Seq(Messages),
         out : BOOLEAN, writing : BOOLEAN, wire : Seq(Messages)]

(* _out_queue is not empty and no write is in progress.                    *)
Mute(c) == c.out /\ ~c.writing

(* A change of an end that neither opens it nor makes it mute.             *)
Tame(c, d) == d \in Ends /\ (d.open => c.open) /\ (Mute(d) => Mute(c))

(* A change of an end that also leaves it open and its timer running.      *)
Still(c, d) ==
    Tame(c, d) /\ (c.open => d.open) /\ (c.armed => d.armed) /\ (c.fired => d.fired)

-----------------------------------------------------------------------------
(* The constants.                                                          *)
LEMMA Numbers == Lag \in Int /\ MaxBlock \in Int /\ Span \in Int /\ \A h \in Int : Lib(h) \in Int
BY NetConnectionAssumption, NetSyncAssumption DEF Lib

(* The lower and the higher one of two numbers is a number.                *)
LEMMA OneOfTwo == \A a, b \in Int : Lower(a, b) \in Int /\ Higher(a, b) \in Int
BY DEF Lower, Higher

(* What the handlers send are messages.                                    *)
LEMMA MessageTypes ==
    /\ \A f \in BOOLEAN, h \in Int : Handshake(f, h) \in Messages
    /\ \A mode \in {"none", "catch_up", "last_irr_catch_up"}, i \in Int : Notice(mode, i) \in Messages
    /\ \A mode \in {"none", "catch_up"} : Request(mode) \in Messages
    /\ \A i, j \in Int : SyncRequest(i, j) \in Messages
    /\ \A i \in Int : Block(i) \in Messages
    /\ Eof \in Messages
BY Numbers DEF Handshake, Notice, Request, SyncRequest, Block, Eof, Messages

(* Tame changes add up.                                                    *)
LEMMA TameTwice == ASSUME NEW c, NEW d, NEW e, Tame(c, d), Tame(d, e) PROVE Tame(c, e)
BY DEF Tame

(* Doing nothing is tame.                                                  *)
LEMMA TameNone == ASSUME NEW c \in Ends PROVE Tame(c, c)
BY DEF Tame

(* Changes of single fields.                                               *)
LEMMA TameFields ==
    ASSUME NEW c \in Ends
    PROVE  /\ \A b \in BOOLEAN : Tame(c, [c EXCEPT !.syncing = b])
           /\ \A b \in BOOLEAN : Tame(c, [c EXCEPT !.connecting = b])
           /\ \A b \in BOOLEAN : Tame(c, [c EXCEPT !.armed = b])
           /\ \A b \in BOOLEAN : Tame(c, [c EXCEPT !.greeted = b])
           /\ \A b \in BOOLEAN : Tame(c, [c EXCEPT !.fired = b])
           /\ \A i \in Int : Tame(c, [c EXCEPT !.forkHead = i])
           /\ \A i \in Int : Tame(c, [c EXCEPT !.lib = i])
           /\ \A i \in Int : Tame(c, [c EXCEPT !.lib = i, !.libId = i])
           /\ \A g \in SUBSET Int : Tame(c, [c EXCEPT !.got = g])
           /\ \A r \in Requests : Tame(c, [c EXCEPT !.req = r])
           /\ \A q \in Seq(Messages) : Tame(c, [c EXCEPT !.wq = q])
           /\ \A q \in Seq(Messages) : Tame(c, [c EXCEPT !.sq = q])
           /\ \A q \in Seq(Messages) : Tame(c, [c EXCEPT !.wire = q])
<1>1. \A b \in BOOLEAN : Tame(c, [c EXCEPT !.syncing = b])
  BY DEF Ends, Tame, Mute
<1>2. \A b \in BOOLEAN : Tame(c, [c EXCEPT !.connecting = b])
  BY DEF Ends, Tame, Mute
<1>3. \A b \in BOOLEAN : Tame(c, [c EXCEPT !.armed = b])
  BY DEF Ends, Tame, Mute
<1>4. \A b \in BOOLEAN : Tame(c, [c EXCEPT !.greeted = b])
  BY DEF Ends, Tame, Mute
<1>5. \A b \in BOOLEAN : Tame(c, [c EXCEPT !.fired = b])
  BY DEF Ends, Tame, Mute
<1>6. \A i \in Int : Tame(c, [c EXCEPT !.forkHead = i])
  BY DEF Ends, Tame, Mute
<1>7. \A i \in Int : Tame(c, [c EXCEPT !.lib = i])
  BY DEF Ends, Tame, Mute
<1>8. \A i \in Int : Tame(c, [c EXCEPT !.lib = i, !.libId = i])
  BY DEF Ends, Tame, Mute
<1>9. \A g \in SUBSET Int : Tame(c, [c EXCEPT !.got = g])
  BY DEF Ends, Tame, Mute
<1>10. \A r \in Requests : Tame(c, [c EXCEPT !.req = r])
  BY DEF Ends, Tame, Mute
<1>11. \A q \in Seq(Messages) : Tame(c, [c EXCEPT !.wq = q])
  BY DEF Ends, Tame, Mute
<1>12. \A q \in Seq(Messages) : Tame(c, [c EXCEPT !.sq = q])
  BY DEF Ends, Tame, Mute
<1>13. \A q \in Seq(Messages) : Tame(c, [c EXCEPT !.wire = q])
  BY DEF Ends, Tame, Mute
<1> QED BY <1>1, <1>2, <1>3, <1>4, <1>5, <1>6, <1>7, <1>8, <1>9, <1>10, <1>11, <1>12, <1>13

(* Still changes add up.                                                   *)
LEMMA StillTwice == ASSUME NEW c, NEW d, NEW e, Still(c, d), Still(d, e) PROVE Still(c, e)
BY TameTwice DEF Still

(* Doing nothing leaves an end still.                                      *)
LEMMA StillNone == ASSUME NEW c \in Ends PROVE Still(c, c)
BY TameNone DEF Still

(* Changes of single fields that an end stays still under.                 *)
LEMMA StillFields ==
    ASSUME NEW c \in Ends
    PROVE  /\ \A b \in BOOLEAN : Still(c, [c EXCEPT !.syncing = b])
           /\ \A b \in BOOLEAN : Still(c, [c EXCEPT !.connecting = b])
           /\ Still(c, [c EXCEPT !.armed = TRUE])
           /\ \A b \in BOOLEAN : Still(c, [c EXCEPT !.greeted = b])
           /\ \A i \in Int : Still(c, [c EXCEPT !.forkHead = i])
           /\ \A i \in Int : Still(c, [c EXCEPT !.lib = i])
           /\ \A i \in Int : Still(c, [c EXCEPT !.lib = i, !.libId = i])
           /\ \A g \in SUBSET Int : Still(c, [c EXCEPT !.got = g])
           /\ \A r \in Requests : Still(c, [c EXCEPT !.req = r])
           /\ \A q \in Seq(Messages) : Still(c, [c EXCEPT !.wq = q])
           /\ \A q \in Seq(Messages) : Still(c, [c EXCEPT !.sq = q])
           /\ \A q \in Seq(Messages) : Still(c, [c EXCEPT !.wire = q])
<1>1. \A b \in BOOLEAN : Still(c, [c EXCEPT !.syncing = b])
  BY DEF Ends, Still, Tame, Mute
<1>2. \A b \in BOOLEAN : Still(c, [c EXCEPT !.connecting = b])
  BY DEF Ends, Still, Tame, Mute
<1>3. Still(c, [c EXCEPT !.armed = TRUE])
  BY DEF Ends, Still, Tame, Mute
<1>4. \A b \in BOOLEAN : Still(c, [c EXCEPT !.greeted = b])
  BY DEF Ends, Still, Tame, Mute
<1>6. \A i \in Int : Still(c, [c EXCEPT !.forkHead = i])
  BY DEF Ends, Still, Tame, Mute
<1>7. \A i \in Int : Still(c, [c EXCEPT !.lib = i])
  BY DEF Ends, Still, Tame, Mute
<1>8. \A i \in Int : Still(c, [c EXCEPT !.lib = i, !.libId = i])
  BY DEF Ends, Still, Tame, Mute
<1>9. \A g \in SUBSET Int : Still(c, [c EXCEPT !.got = g])
  BY DEF Ends, Still, Tame, Mute
<1>10. \A r \in Requests : Still(c, [c EXCEPT !.req = r])
  BY DEF Ends, Still, Tame, Mute
<1>11. \A q \in Seq(Messages) : Still(c, [c EXCEPT !.wq = q])
  BY DEF Ends, Still, Tame, Mute
<1>12. \A q \in Seq(Messages) : Still(c, [c EXCEPT !.sq = q])
  BY DEF Ends, Still, Tame, Mute
<1>13. \A q \in Seq(Messages) : Still(c, [c EXCEPT !.wire = q])
  BY DEF Ends, Still, Tame, Mute
<1> QED BY <1>1, <1>2, <1>3, <1>4, <1>6, <1>7, <1>8, <1>9, <1>10, <1>11, <1>12, <1>13

(* A write that starts is in progress.                                     *)
LEMMA DoQueueWriteStill == ASSUME NEW c \in Ends PROVE Still(c, DoQueueWrite(c))
<1>1. CASE c.out \/ (c.sq = <<>> /\ c.wq = <<>>)
  BY <1>1, StillNone DEF DoQueueWrite
<1>2. ASSUME NEW q \in Seq(Messages)
      PROVE  /\ Still(c, [c EXCEPT !.wire = @ \o q, !.sq = <<>>, !.out = TRUE, !.writing = TRUE])
             /\ Still(c, [c EXCEPT !.wire = @ \o q, !.wq = <<>>, !.out = TRUE, !.writing = TRUE])
  <2>1. c.wire \in Seq(Messages)
    BY DEF Ends
  <2>2. c.wire \o q \in Seq(Messages) /\ <<>> \in Seq(Messages)
    BY <2>1
  <2> DEFINE w == c.wire \o q
             e == <<>>
  <2> HIDE DEF w, e
  <2>3. /\ Still(c, [c EXCEPT !.wire = w, !.sq = e, !.out = TRUE, !.writing = TRUE])
        /\ Still(c, [c EXCEPT !.wire = w, !.wq = e, !.out = TRUE, !.writing = TRUE])
    <3>1. w \in Seq(Messages) /\ e \in Seq(Messages)
      BY <2>2 DEF w, e
    <3> QED BY <3>1 DEF Ends, Still, Tame, Mute
  <2> QED BY <2>3 DEF w, e
<1>3. c.sq \in Seq(Messages) /\ c.wq \in Seq(Messages)
  BY DEF Ends
<1> QED BY <1>1, <1>2, <1>3 DEF DoQueueWrite

(* A message is queued and may start a write.                              *)
LEMMA EnqueueStill == ASSUME NEW c \in Ends, NEW m \in Messages PROVE Still(c, Enqueue(c, m))
<1> DEFINE d == [c EXCEPT !.wq = Append(@, m)]
<1>1. c.wq \in Seq(Messages)
  BY DEF Ends
<1>2. Append(c.wq, m) \in Seq(Messages)
  BY <1>1
<1>3. Still(c, d)
  BY <1>2, StillFields
<1>4. Still(d, DoQueueWrite(d))
  <2>1. d \in Ends
    BY <1>3 DEF Still, Tame
  <2> HIDE DEF d
  <2> QED BY <2>1, DoQueueWriteStill
<1> HIDE DEF d
<1> QED BY <1>3, <1>4, StillTwice DEF Enqueue, d

(* Both queues are emptied.                                                *)
LEMMA FlushStill == ASSUME NEW c \in Ends PROVE Still(c, FlushQueues(c))
<1>1. <<>> \in Seq(Messages)
  OBVIOUS
<1> DEFINE e == <<>>
<1> HIDE DEF e
<1>2. e \in Seq(Messages) /\ FlushQueues(c) = [c EXCEPT !.wq = e, !.sq = e]
  BY <1>1 DEF e, FlushQueues
<1> QED BY <1>2 DEF Ends, Still, Tame, Mute

(* A handshake is sent.                                                    *)
LEMMA SendHandshakeStill == ASSUME NEW c \in Ends, NEW h \in Int PROVE Still(c, SendHandshake(c, h))
<1> DEFINE d == [c EXCEPT !.greeted = TRUE]
           m == Handshake(~c.greeted, h)
<1>1. Still(c, d)
  BY StillFields
<1>2. d \in Ends /\ m \in Messages
  <2>1. c.greeted \in BOOLEAN
    BY DEF Ends
  <2>2. (~c.greeted) \in BOOLEAN
    BY <2>1
  <2> QED BY <2>2, <1>1, MessageTypes DEF Still, Tame
<1> HIDE DEF d, m
<1>3. Still(d, Enqueue(d, m))
  BY <1>2, EnqueueStill
<1> QED BY <1>1, <1>3, StillTwice DEF SendHandshake, d, m

(* What a peer asked for is a request.                                     *)
LEMMA RequestTypes ==
    /\ NoRequest \in Requests
    /\ \A i, j, k \in Int : [start |-> i, end |-> j, last |-> k] \in Requests
    /\ \A r \in Requests, i \in Int : [r EXCEPT !.last = i] \in Requests
BY DEF NoRequest, Requests

(* The members of an end have their types.                                 *)
LEMMA EndFields ==
    ASSUME NEW c \in Ends
    PROVE  /\ c.req \in Requests /\ c.req.start \in Int /\ c.req.end \in Int /\ c.req.last \in Int
           /\ c.lib \in Int /\ c.libId \in Int /\ c.forkHead \in Int /\ c.got \in SUBSET Int
           /\ c.open \in BOOLEAN /\ c.out \in BOOLEAN /\ c.writing \in BOOLEAN
           /\ c.sq \in Seq(Messages) /\ c.wq \in Seq(Messages) /\ c.wire \in Seq(Messages)
BY DEF Ends, Requests

(* The next block of a request is queued.                                  *)
LEMMA EnqueueSyncBlockStill ==
    ASSUME NEW c \in Ends, NEW h \in Int
    PROVE  Still(c, EnqueueSyncBlock(c, h))
<1> DEFINE num == Lower(c.req.last + 1, MaxBlock + 1)
           r == IF num = c.req.end THEN NoRequest ELSE [c.req EXCEPT !.last = num]
           next == [c EXCEPT !.req = r]
           sq == Append(next.sq, Block(num))
           queued == [next EXCEPT !.sq = sq]
<1>1. num \in Int
  <2>1. c.req.last + 1 \in Int /\ MaxBlock + 1 \in Int
    BY EndFields, Numbers
  <2> QED BY <2>1, OneOfTwo
<1>2. r \in Requests
  BY <1>1, EndFields, RequestTypes
<1>3. Still(c, next)
  <2> HIDE DEF r
  <2> QED BY <1>2, StillFields
<1>4. next \in Ends
  BY <1>3 DEF Still, Tame
<1>5. sq \in Seq(Messages)
  <2>1. next.sq \in Seq(Messages) /\ Block(num) \in Messages
    <3> HIDE DEF next, num
    <3> QED BY <1>1, <1>4, EndFields, MessageTypes
  <2> HIDE DEF next, num
  <2> QED BY <2>1
<1>6. Still(next, queued)
  <2> HIDE DEF next, sq
  <2> QED BY <1>4, <1>5, StillFields
<1>7. queued \in Ends
  BY <1>6 DEF Still, Tame
<1>8. Still(queued, DoQueueWrite(queued))
  <2> HIDE DEF queued
  <2> QED BY <1>7, DoQueueWriteStill
<1>9. Still(c, queued) /\ Still(c, DoQueueWrite(queued))
  <2> HIDE DEF queued, next
  <2> QED BY <1>3, <1>6, <1>8, StillTwice
<1>10. \/ EnqueueSyncBlock(c, h) = c
       \/ EnqueueSyncBlock(c, h) = next
       \/ EnqueueSyncBlock(c, h) = queued
       \/ EnqueueSyncBlock(c, h) = DoQueueWrite(queued)
  BY Zenon DEF EnqueueSyncBlock
<1> HIDE DEF queued, next
<1> QED BY <1>3, <1>9, <1>10, StillNone

(* The peer asks for something and the first block of it is queued.        *)
LEMMA WithRequest ==
    ASSUME NEW c \in Ends, NEW h \in Int, NEW r \in Requests
    PROVE  Still(c, EnqueueSyncBlock([c EXCEPT !.req = r], h))
<1> DEFINE d == [c EXCEPT !.req = r]
<1>1. Still(c, d)
  BY StillFields
<1>2. d \in Ends
  BY <1>1 DEF Still, Tame
<1> HIDE DEF d
<1>3. Still(d, EnqueueSyncBlock(d, h))
  BY <1>2, EnqueueSyncBlockStill
<1> QED BY <1>1, <1>3, StillTwice DEF d

(* The branch above the irreversible block of the peer is sent.            *)
LEMMA BlkSendBranchStill ==
    ASSUME NEW c \in Ends, NEW h \in Int
    PROVE  Still(c, BlkSendBranch(c, h))
<1> DEFINE first == c.libId + 1
           start == IF c.req = NoRequest THEN first ELSE Lower(c.req.last + 1, first)
           end   == IF c.req = NoRequest THEN h ELSE Higher(c.req.end, h)
           r == [start |-> start, end |-> end, last |-> start - 1]
           d == EnqueueSyncBlock([c EXCEPT !.req = r], h)
<1>1. start \in Int /\ end \in Int
  <2>1. c.req.last + 1 \in Int /\ first \in Int /\ c.req.end \in Int
    BY EndFields
  <2> HIDE DEF first
  <2> QED BY <2>1, OneOfTwo
<1>2. r \in Requests
  <2> HIDE DEF start, end
  <2>1. start - 1 \in Int
    BY <1>1
  <2> QED BY <1>1, <2>1, RequestTypes
<1>3. Still(c, d)
  <2> HIDE DEF r
  <2> QED BY <1>2, WithRequest
<1>4. d \in Ends
  BY <1>3 DEF Still, Tame
<1>5. BlkSendBranch(c, h) = [d EXCEPT !.syncing = FALSE]
  BY Zenon DEF BlkSendBranch
<1> HIDE DEF d
<1>6. Still(d, [d EXCEPT !.syncing = FALSE])
  BY <1>4, StillFields
<1> QED BY <1>3, <1>5, <1>6, StillTwice

(* A request_message is handled.                                           *)
LEMMA HandleRequestStill ==
    ASSUME NEW c \in Ends, NEW h \in Int, NEW m
    PROVE  Still(c, HandleRequest(c, m, h))
<1>1. Still(c, [c EXCEPT !.syncing = FALSE])
  BY StillFields
<1> QED BY <1>1, BlkSendBranchStill DEF HandleRequest

(* A sync_request_message is handled.                                      *)
LEMMA HandleSyncRequestStill ==
    ASSUME NEW c \in Ends, NEW h \in Int, NEW m, m.start \in Int, m.end \in Int
    PROVE  Still(c, HandleSyncRequest(c, m, h))
<1> DEFINE d == [c EXCEPT !.req = NoRequest]
           r == [start |-> m.start, end |-> m.end, last |-> m.start - 1]
<1>1. Still(c, d)
  BY StillFields, RequestTypes
<1>2. Still(d, FlushQueues(d))
  <2>1. d \in Ends
    BY <1>1 DEF Still, Tame
  <2> HIDE DEF d
  <2> QED BY <2>1, FlushStill
<1>3. Still(c, FlushQueues(d))
  <2> HIDE DEF d
  <2> QED BY <1>1, <1>2, StillTwice
<1>4. r \in Requests
  BY RequestTypes
<1>5. Still(c, EnqueueSyncBlock([c EXCEPT !.req = r], h))
  <2> HIDE DEF r
  <2> QED BY <1>4, WithRequest
<1>6. \/ HandleSyncRequest(c, m, h) = FlushQueues(d)
      \/ HandleSyncRequest(c, m, h) = EnqueueSyncBlock([c EXCEPT !.req = r], h)
  BY Zenon DEF HandleSyncRequest
<1> HIDE DEF d, r
<1> QED BY <1>3, <1>5, <1>6

(* A write ends without an error.                                          *)
LEMMA WrittenStill ==
    ASSUME NEW c \in Ends, NEW h \in Int
    PROVE  Still(c, Written(c, h))
<1> DEFINE d == [c EXCEPT !.out = FALSE, !.writing = FALSE]
           e == EnqueueSyncBlock(d, h)
<1>1. Still(c, d)
  BY DEF Still, Tame, Ends, Mute
<1>2. d \in Ends
  BY <1>1 DEF Still, Tame
<1> HIDE DEF d
<1>3. Still(d, e)
  BY <1>2, EnqueueSyncBlockStill
<1>4. e \in Ends
  BY <1>3 DEF Still, Tame
<1> HIDE DEF e
<1>5. Still(e, DoQueueWrite(e))
  BY <1>4, DoQueueWriteStill
<1>6. Still(c, e)
  BY <1>1, <1>3, StillTwice
<1>7. Still(c, DoQueueWrite(e))
  BY <1>6, <1>5, StillTwice
<1> QED BY <1>7 DEF Written, d, e

(* They are tame in particular.                                            *)
LEMMA EnqueueTame ==
    ASSUME NEW c \in Ends, NEW m \in Messages
    PROVE  Tame(c, Enqueue(c, m))
BY EnqueueStill DEF Still

(* Emptying the queues is tame.                                            *)
LEMMA FlushTame ==
    ASSUME NEW c \in Ends
    PROVE  Tame(c, FlushQueues(c))
BY FlushStill DEF Still

(* Sending a handshake is tame.                                            *)
LEMMA SendHandshakeTame ==
    ASSUME NEW c \in Ends, NEW h \in Int
    PROVE  Tame(c, SendHandshake(c, h))
BY SendHandshakeStill DEF Still

(* Handling a request_message is tame.                                     *)
LEMMA HandleRequestTame ==
    ASSUME NEW c \in Ends, NEW h \in Int, NEW m
    PROVE  Tame(c, HandleRequest(c, m, h))
BY HandleRequestStill DEF Still

(* Handling a sync_request_message is tame.                                *)
LEMMA HandleSyncRequestTame ==
    ASSUME NEW c \in Ends, NEW h \in Int, NEW m, m.start \in Int, m.end \in Int
    PROVE  Tame(c, HandleSyncRequest(c, m, h))
BY HandleSyncRequestStill DEF Still

(* The end of a write is tame.                                             *)
LEMMA WrittenTame ==
    ASSUME NEW c \in Ends, NEW h \in Int
    PROVE  Tame(c, Written(c, h))
BY WrittenStill DEF Still

(* close leaves a socket that is not open, and a write in progress.        *)
LEMMA ClosedTame ==
    ASSUME NEW c \in Ends
    PROVE  Tame(c, Closed(c)) /\ ~Closed(c).open /\ Closed(c).writing = c.writing
<1> DEFINE w == IF c.open THEN Append(c.wire, Eof) ELSE c.wire
           e == <<>>
<1>1. w \in Seq(Messages) /\ e \in Seq(Messages)
  <2>1. c.wire \in Seq(Messages) /\ Eof \in Messages
    BY EndFields, MessageTypes
  <2> QED BY <2>1
<1>2. Closed(c) = [c EXCEPT !.wq = e, !.sq = e, !.open = FALSE, !.connecting = FALSE,
                            !.syncing = FALSE, !.req = NoRequest, !.greeted = FALSE,
                            !.lib = 0, !.libId = 0, !.armed = FALSE, !.wire = w]
  BY DEF Closed, FlushQueues, Ends
<1>3. NoRequest \in Requests /\ 0 \in Int
  BY RequestTypes
<1> HIDE DEF w, e
<1> QED BY <1>1, <1>2, <1>3 DEF Tame, Ends, Mute

-----------------------------------------------------------------------------
States == {"in_sync", "lib_catchup", "head_catchup"}

(* A node with connections to P.  The blocks of a requested range that     *)
(* were counted are held.                                                  *)
NodeShape(P, s) ==
    s \in [head : Nat, known : Int, last : Int, next : Int, source : {s.source},
           state : States, conn : [P -> Ends]]

Counted(s) == s.state = "lib_catchup" => s.next <= s.head + 1

NodeOK(P, s) == NodeShape(P, s) /\ Counted(s)

(* What a handler may do to a node.                                        *)
Sane(P, s, t) == NodeOK(P, t) /\ \A p \in P : Tame(s.conn[p], t.conn[p])

(* The members of a node have their types.                                 *)
LEMMA NodeFields ==
    ASSUME NEW P, NEW s, NodeOK(P, s)
    PROVE  /\ s.head \in Nat /\ s.head \in Int /\ s.known \in Int /\ s.last \in Int /\ s.next \in Int
           /\ s.state \in States /\ s.conn \in [P -> Ends] /\ DOMAIN s.conn = P
           /\ \A p \in P : s.conn[p] \in Ends
BY DEF NodeOK, NodeShape

(* Doing nothing is sane.                                                  *)
LEMMA SaneNone == ASSUME NEW P, NEW s, NodeOK(P, s) PROVE Sane(P, s, s)
BY NodeFields, TameNone DEF Sane

(* Sane changes add up.                                                    *)
LEMMA SaneTwice ==
    ASSUME NEW P, NEW s, NEW t, NEW u, Sane(P, s, t), Sane(P, t, u)
    PROVE  Sane(P, s, u)
BY TameTwice DEF Sane

(* A sane change leaves a node with its types and its blocks counted       *)
(* right.                                                                  *)
LEMMA SaneOK == ASSUME NEW P, NEW s, NEW t, Sane(P, s, t) PROVE NodeOK(P, t)
BY DEF Sane

(* Changes of the node's own members.                                      *)
LEMMA SaneMembers ==
    ASSUME NEW P, NEW s, NodeOK(P, s)
    PROVE  /\ \A x : Sane(P, s, [s EXCEPT !.source = x])
           /\ \A i \in Int : Sane(P, s, [s EXCEPT !.known = i])
           /\ \A i \in Int : Sane(P, s, [s EXCEPT !.last = i])
           /\ Sane(P, s, [s EXCEPT !.state = "in_sync"])
           /\ Sane(P, s, [s EXCEPT !.state = "head_catchup"])
           /\ \A i \in Int : i <= s.head + 1 => Sane(P, s, [s EXCEPT !.next = i])
           /\ \A i \in Nat : i >= s.head => Sane(P, s, [s EXCEPT !.head = i])
           /\ \A i \in Int : i <= s.head + 1
                => Sane(P, s, [s EXCEPT !.state = "lib_catchup", !.next = i])
           /\ \A i \in Int : Sane(P, s, [s EXCEPT !.known = i, !.last = 0, !.state = "in_sync"])
<1>0. \A p \in P : Tame(s.conn[p], s.conn[p])
  BY NodeFields, TameNone
<1>1. ASSUME NEW x PROVE Sane(P, s, [s EXCEPT !.source = x])
  BY <1>0 DEF Sane, NodeOK, NodeShape, Counted
<1>2. ASSUME NEW i \in Int PROVE Sane(P, s, [s EXCEPT !.known = i])
  BY <1>0 DEF Sane, NodeOK, NodeShape, Counted
<1>3. ASSUME NEW i \in Int PROVE Sane(P, s, [s EXCEPT !.last = i])
  BY <1>0 DEF Sane, NodeOK, NodeShape, Counted
<1>4. Sane(P, s, [s EXCEPT !.state = "in_sync"])
  BY <1>0 DEF Sane, NodeOK, NodeShape, Counted, States
<1>5. Sane(P, s, [s EXCEPT !.state = "head_catchup"])
  BY <1>0 DEF Sane, NodeOK, NodeShape, Counted, States
<1>6. ASSUME NEW i \in Int, i <= s.head + 1 PROVE Sane(P, s, [s EXCEPT !.next = i])
  BY <1>0, <1>6 DEF Sane, NodeOK, NodeShape, Counted
<1>7. ASSUME NEW i \in Nat, i >= s.head PROVE Sane(P, s, [s EXCEPT !.head = i])
  BY <1>0, <1>7 DEF Sane, NodeOK, NodeShape, Counted
<1>8. ASSUME NEW i \in Int, i <= s.head + 1
      PROVE  Sane(P, s, [s EXCEPT !.state = "lib_catchup", !.next = i])
  BY <1>0, <1>8 DEF Sane, NodeOK, NodeShape, Counted, States
<1>9. ASSUME NEW i \in Int
      PROVE  Sane(P, s, [s EXCEPT !.known = i, !.last = 0, !.state = "in_sync"])
  <2>1. ASSUME NEW j \in Int, NEW x \in States, x # "lib_catchup"
        PROVE  Sane(P, s, [s EXCEPT !.known = i, !.last = j, !.state = x])
    <3> DEFINE t == [s EXCEPT !.known = i, !.last = j, !.state = x]
    <3>1. NodeShape(P, t)
      BY DEF NodeOK, NodeShape
    <3>2. t.state = x /\ t.conn = s.conn
      BY DEF NodeOK, NodeShape
    <3> HIDE DEF t
    <3>3. Sane(P, s, t)
      BY <1>0, <2>1, <3>1, <3>2 DEF Sane, NodeOK, Counted
    <3> QED BY <3>3 DEF t
  <2>2. 0 \in Int /\ "in_sync" \in States /\ "in_sync" # "lib_catchup"
    BY DEF States
  <2> QED BY <2>1, <2>2
<1> QED BY <1>1, <1>2, <1>3, <1>4, <1>5, <1>6, <1>7, <1>8, <1>9

(* Changes of connections.                                                 *)
LEMMA SaneConns ==
    ASSUME NEW P, NEW s, NodeOK(P, s), NEW f, f = [p \in P |-> f[p]],
           \A p \in P : Tame(s.conn[p], f[p])
    PROVE  Sane(P, s, [s EXCEPT !.conn = f])
<1>1. f \in [P -> Ends]
  BY DEF Tame
<1> QED BY <1>1 DEF Sane, NodeOK, NodeShape, Counted

(* One connection changes.                                                 *)
LEMMA SaneConn ==
    ASSUME NEW P, NEW s, NodeOK(P, s), NEW p \in P, NEW c, Tame(s.conn[p], c)
    PROVE  Sane(P, s, OnConn(s, p, c)) /\ OnConn(s, p, c).conn[p] = c
<1> DEFINE f == [s.conn EXCEPT ![p] = c]
<1>1. s.conn \in [P -> Ends]
  BY NodeFields
<1>2. f = [q \in P |-> f[q]] /\ f[p] = c /\ \A q \in P : q # p => f[q] = s.conn[q]
  BY <1>1
<1>3. \A q \in P : Tame(s.conn[q], f[q])
  BY <1>2, <1>1, TameNone
<1> HIDE DEF f
<1>4. Sane(P, s, [s EXCEPT !.conn = f])
  BY <1>2, <1>3, SaneConns
<1>5. OnConn(s, p, c) = [s EXCEPT !.conn = f]
  BY DEF OnConn, f, NodeOK, NodeShape
<1>6. [s EXCEPT !.conn = f].conn = f
  BY DEF NodeOK, NodeShape
<1> QED BY <1>2, <1>4, <1>5, <1>6

(* send_handshakes.                                                        *)
LEMMA SendHandshakesSane ==
    ASSUME NEW P, NEW s, NodeOK(P, s)
    PROVE  Sane(P, s, SendHandshakes(s))
<1> DEFINE f == [p \in P |-> IF Current(s.conn[p]) THEN SendHandshake(s.conn[p], s.head)
                             ELSE s.conn[p]]
<1>1. \A p \in P : Tame(s.conn[p], f[p])
  BY NodeFields, TameNone, SendHandshakeTame
<1>2. f = [p \in P |-> f[p]]
  OBVIOUS
<1>3. SendHandshakes(s) = [s EXCEPT !.conn = f]
  BY NodeFields DEF SendHandshakes
<1> HIDE DEF f
<1> QED BY <1>1, <1>2, <1>3, SaneConns

(* bcast_block.                                                            *)
LEMMA BcastBlockSane ==
    ASSUME NEW P, NEW s, NodeOK(P, s), NEW num \in Int
    PROVE  Sane(P, s, BcastBlock(s, num))
<1> DEFINE got(c) == [c EXCEPT !.got = @ \ {num}]
           one(c) == IF num \notin c.got /\ Current(c) /\ c.lib < num
                     THEN Enqueue(got(c), Block(num)) ELSE got(c)
           f == [p \in P |-> one(s.conn[p])]
<1>1. ASSUME NEW c \in Ends PROVE Tame(c, one(c))
  <2>1. c.got \ {num} \in SUBSET Int
    BY EndFields
  <2>2. Tame(c, got(c))
    BY <2>1, TameFields
  <2>3. got(c) \in Ends /\ Block(num) \in Messages
    BY <2>2, MessageTypes DEF Tame
  <2> HIDE DEF got
  <2>4. Tame(got(c), Enqueue(got(c), Block(num)))
    BY <2>3, EnqueueTame
  <2> QED BY <2>2, <2>4, TameTwice
<1>2. BcastBlock(s, num) = [s EXCEPT !.conn = f]
  BY NodeFields DEF BcastBlock
<1> HIDE DEF one
<1>3. \A p \in P : Tame(s.conn[p], f[p])
  BY <1>1, NodeFields
<1>4. f = [p \in P |-> f[p]]
  OBVIOUS
<1> HIDE DEF f
<1> QED BY <1>2, <1>3, <1>4, SaneConns

(* Nothing counts as requested any more.                                   *)
LEMMA SaneLast ==
    ASSUME NEW P, NEW s, NodeOK(P, s)
    PROVE  Sane(P, s, [s EXCEPT !.last = 0])
<1>1. \A i \in Int : Sane(P, s, [s EXCEPT !.last = i])
  BY SaneMembers
<1>2. 0 \in Int
  OBVIOUS
<1> QED BY <1>1, <1>2

(* A request for the next range.                                           *)
LEMMA RequestNextChunkSane ==
    ASSUME NEW P, NEW s, NodeOK(P, s), NEW wanted
    PROVE  Sane(P, s, RequestNextChunk(s, wanted))
<1> DEFINE source == IF IsCurrent(s, wanted) THEN wanted ELSE NextSource(s)
           t      == [s EXCEPT !.source = source]
           end    == Lower(s.next + Span - 1, s.known)
           none   == [t EXCEPT !.known = Lib(s.head), !.last = 0, !.state = "in_sync"]
           asked  == [t EXCEPT !.last = end,
                               !.conn[source] = [Enqueue(@, SyncRequest(s.next, end))
                                                 EXCEPT !.armed = TRUE]]
<1>1. end \in Int /\ Lib(s.head) \in Int /\ s.next \in Int
  <2>1. s.next + Span - 1 \in Int /\ s.known \in Int /\ s.head \in Int /\ s.next \in Int
    BY NodeFields, Numbers
  <2> QED BY <2>1, OneOfTwo, Numbers
<1> HIDE DEF source, end
<1>2. Sane(P, s, t)
  BY SaneMembers
<1>3. NodeOK(P, t)
  BY <1>2, SaneOK
<1>4. t.conn = s.conn
  BY DEF NodeOK, NodeShape
<1>5. Sane(P, s, none)
  <2> HIDE DEF t
  <2>1. Sane(P, t, none)
    BY <1>1, <1>3, SaneMembers
  <2> QED BY <1>2, <2>1, SaneTwice
<1>6. ASSUME IsCurrent(s, source)
      PROVE  Sane(P, s, asked)
  <2> DEFINE u == [t EXCEPT !.last = end]
             c == t.conn[source]
             e == Enqueue(c, SyncRequest(s.next, end))
             d == [e EXCEPT !.armed = TRUE]
  <2>1. source \in P
    BY <1>6, NodeFields DEF IsCurrent
  <2>2. Sane(P, t, u) /\ u.conn = t.conn
    <3>1. u.conn = t.conn
      BY <1>3 DEF NodeOK, NodeShape
    <3> HIDE DEF t
    <3> QED BY <1>1, <1>3, <3>1, SaneMembers
  <2>3. NodeOK(P, u) /\ c \in Ends
    <3> HIDE DEF t, u
    <3> QED BY <2>1, <2>2, <1>3, SaneOK, NodeFields
  <2>4. asked = OnConn(u, source, d)
    <3> HIDE DEF t
    <3> QED BY Zenon DEF OnConn
  <2> HIDE DEF t, u, c
  <2>5. Tame(c, e)
    BY <1>1, <2>3, MessageTypes, EnqueueTame
  <2>6. e \in Ends
    BY <2>5 DEF Tame
  <2> HIDE DEF e
  <2>7. Tame(e, d)
    BY <2>6, TameFields
  <2>8. Tame(u.conn[source], d)
    BY <2>2, <2>5, <2>7, TameTwice DEF c
  <2> HIDE DEF d, asked
  <2>9. Sane(P, u, asked)
    BY <2>1, <2>3, <2>4, <2>8, SaneConn
  <2>10. Sane(P, t, asked)
    BY <2>2, <2>9, SaneTwice
  <2> QED BY <1>2, <2>10, SaneTwice
<1>7. Sane(P, s, s)
  BY SaneNone
<1>8. \/ RequestNextChunk(s, wanted) = s
      \/ RequestNextChunk(s, wanted) = none
      \/ RequestNextChunk(s, wanted) = asked /\ IsCurrent(s, source)
      \/ RequestNextChunk(s, wanted) = t
  BY Zenon DEF RequestNextChunk, source, end
<1> HIDE DEF t, none, asked
<1> QED BY <1>2, <1>5, <1>6, <1>7, <1>8

(* reset_lib_num.                                                          *)
LEMMA ResetLibNumSane ==
    ASSUME NEW P, NEW s, NodeOK(P, s), NEW p \in P
    PROVE  Sane(P, s, ResetLibNum(s, p))
<1> DEFINE t == IF s.state = "in_sync" THEN [s EXCEPT !.source = NoConn] ELSE s
           k == Higher(t.known, s.conn[p].lib)
           u == [t EXCEPT !.last = 0]
<1>1. Sane(P, s, t)
  BY SaneMembers, SaneNone
<1>2. NodeOK(P, t)
  BY <1>1, SaneOK
<1> HIDE DEF t
<1>3. k \in Int
  BY <1>2, NodeFields, EndFields, OneOfTwo
<1> HIDE DEF k
<1>4. Sane(P, t, [t EXCEPT !.known = k])
  BY <1>2, <1>3, SaneMembers
<1>5. Sane(P, t, u)
  BY <1>2, SaneLast
<1>6. NodeOK(P, u)
  BY <1>5, SaneOK
<1> HIDE DEF u
<1>7. Sane(P, u, RequestNextChunk(u, NoConn))
  BY <1>6, RequestNextChunkSane
<1>8. \/ ResetLibNum(s, p) = [t EXCEPT !.known = k]
      \/ ResetLibNum(s, p) = RequestNextChunk(u, NoConn)
      \/ ResetLibNum(s, p) = t
  BY Zenon DEF ResetLibNum, t, k, u
<1>9. Sane(P, s, u)
  BY <1>1, <1>5, SaneTwice
<1>10. Sane(P, s, RequestNextChunk(u, NoConn)) /\ Sane(P, s, [t EXCEPT !.known = k])
  BY <1>1, <1>4, <1>9, <1>7, SaneTwice
<1> QED BY <1>1, <1>8, <1>10

(* close.                                                                  *)
LEMMA CloseSane ==
    ASSUME NEW P, NEW s, NodeOK(P, s), NEW p \in P
    PROVE  Sane(P, s, Close(s, p)) /\ ~Close(s, p).conn[p].open
<1> DEFINE t == OnConn(s, p, Closed(s.conn[p]))
<1>1. s.conn[p] \in Ends
  BY NodeFields
<1>2. Tame(s.conn[p], Closed(s.conn[p])) /\ ~Closed(s.conn[p]).open
  BY <1>1, ClosedTame
<1>3. Sane(P, s, t) /\ ~t.conn[p].open
  BY <1>2, SaneConn
<1>4. NodeOK(P, t)
  BY <1>3, SaneOK
<1> HIDE DEF t
<1>5. Sane(P, t, ResetLibNum(t, p))
  BY <1>4, ResetLibNumSane
<1>6. ~ResetLibNum(t, p).conn[p].open
  BY <1>3, <1>5 DEF Sane, Tame
<1>7. Sane(P, s, ResetLibNum(t, p))
  BY <1>3, <1>5, SaneTwice
<1> QED BY <1>6, <1>7 DEF Close, t

(* start_sync: the next number expected is above the irreversible block,   *)
(* which is not above the head.                                            *)
LEMMA StartSyncSane ==
    ASSUME NEW P, NEW s, NodeOK(P, s), NEW p, NEW target \in Int
    PROVE  Sane(P, s, StartSync(s, p, target))
<1> DEFINE k == Higher(s.known, target)
           t == [s EXCEPT !.known = k]
           u == IF t.state = "in_sync"
                THEN [t EXCEPT !.state = "lib_catchup", !.next = Lib(t.head) + 1] ELSE t
<1>1. k \in Int
  BY NodeFields, OneOfTwo
<1> HIDE DEF k
<1>2. Sane(P, s, t)
  BY <1>1, SaneMembers
<1>3. NodeOK(P, t)
  BY <1>2, SaneOK
<1> HIDE DEF t
<1>4. Sane(P, t, u)
  <2>1. t.head \in Nat
    BY <1>3, NodeFields
  <2>2. Lib(t.head) + 1 \in Int /\ Lib(t.head) + 1 <= t.head + 1
    BY <2>1, NetConnectionAssumption DEF Lib
  <2> DEFINE i == Lib(t.head) + 1
  <2> HIDE DEF i
  <2>3. i \in Int /\ i <= t.head + 1
    BY <2>2 DEF i
  <2>4. Sane(P, t, [t EXCEPT !.state = "lib_catchup", !.next = i])
    BY <1>3, <2>3, SaneMembers
  <2> QED BY <1>3, <2>4, SaneNone DEF i
<1>5. NodeOK(P, u)
  BY <1>4, SaneOK
<1>6. \/ StartSync(s, p, target) = RequestNextChunk(u, p)
      \/ StartSync(s, p, target) = t
  BY Zenon DEF StartSync, t, k
<1> HIDE DEF u
<1>7. Sane(P, u, RequestNextChunk(u, p))
  BY <1>5, RequestNextChunkSane
<1>8. Sane(P, s, u)
  BY <1>2, <1>4, SaneTwice
<1>9. Sane(P, s, RequestNextChunk(u, p))
  BY <1>7, <1>8, SaneTwice
<1> QED BY <1>2, <1>6, <1>9

(* A message is put on a connection after a change of it.                  *)
LEMMA SendSane ==
    ASSUME NEW P, NEW s, NodeOK(P, s), NEW p \in P, NEW c, Tame(s.conn[p], c),
           NEW m \in Messages
    PROVE  Sane(P, s, OnConn(s, p, Enqueue(c, m)))
<1>1. c \in Ends
  BY DEF Tame
<1>2. Tame(s.conn[p], Enqueue(c, m))
  BY <1>1, EnqueueTame, TameTwice
<1> QED BY <1>2, SaneConn

(* verify_catchup.                                                         *)
LEMMA VerifyCatchupSane ==
    ASSUME NEW P, NEW s, NodeOK(P, s), NEW p \in P, NEW num \in Int
    PROVE  Sane(P, s, VerifyCatchup(s, p, num))
<1> DEFINE c == s.conn[p]
           c0 == [c EXCEPT !.forkHead = 0]
           cn == [c EXCEPT !.forkHead = num]
           a == OnConn(s, p, Enqueue(c0, Request("none")))
           b == OnConn(s, p, cn)
           d == OnConn(s, p, Enqueue(cn, Request("catch_up")))
<1>1. c \in Ends
  BY NodeFields
<1>2. Tame(c, c0) /\ Tame(c, cn)
  <2>1. \A i \in Int : Tame(c, [c EXCEPT !.forkHead = i])
    BY <1>1, TameFields
  <2>2. 0 \in Int
    OBVIOUS
  <2> QED BY <2>1, <2>2
<1>3. Request("none") \in Messages /\ Request("catch_up") \in Messages
  BY MessageTypes
<1> HIDE DEF c0, cn
<1>4. Sane(P, s, a)
  BY <1>2, <1>3, SendSane
<1>5. Sane(P, s, b)
  BY <1>2, SaneConn
<1>6. Sane(P, s, d)
  BY <1>2, <1>3, SendSane
<1>7. NodeOK(P, d)
  BY <1>6, SaneOK
<1>8. \/ VerifyCatchup(s, p, num) = a
      \/ VerifyCatchup(s, p, num) = b
      \/ VerifyCatchup(s, p, num) = [d EXCEPT !.state = "head_catchup"]
  BY Zenon DEF VerifyCatchup, c0, cn
<1> HIDE DEF a, b, d
<1>9. Sane(P, d, [d EXCEPT !.state = "head_catchup"])
  BY <1>7, SaneMembers
<1>10. Sane(P, s, [d EXCEPT !.state = "head_catchup"])
  BY <1>6, <1>9, SaneTwice
<1> QED BY <1>4, <1>5, <1>8, <1>10

(* recv_handshake.                                                         *)
LEMMA RecvHandshakeSane ==
    ASSUME NEW P, NEW s, NodeOK(P, s), NEW p \in P, NEW m, m.head \in Int
    PROVE  Sane(P, s, RecvHandshake(s, p, m))
<1> DEFINE r == ResetLibNum(s, p)
           t == OnConn(r, p, [r.conn[p] EXCEPT !.syncing = FALSE])
           c == [t.conn[p] EXCEPT !.syncing = TRUE]
           tell(note) == OnConn(t, p, Enqueue(c, note))
<1>1. Sane(P, s, r)
  BY ResetLibNumSane
<1>2. NodeOK(P, r)
  BY <1>1, SaneOK
<1> HIDE DEF r
<1>3. r.conn[p] \in Ends
  BY <1>2, NodeFields
<1>4. Tame(r.conn[p], [r.conn[p] EXCEPT !.syncing = FALSE])
  BY <1>3, TameFields
<1>5. Sane(P, r, t)
  BY <1>2, <1>4, SaneConn
<1>6. NodeOK(P, t) /\ Sane(P, s, t)
  BY <1>1, <1>5, SaneOK, SaneTwice
<1> HIDE DEF t
<1>7. t.conn[p] \in Ends /\ t.head \in Int /\ Lib(t.head) \in Int
  BY <1>6, NodeFields, Numbers
<1>8. Tame(t.conn[p], c) /\ Tame(t.conn[p], t.conn[p])
  BY <1>7, TameFields, TameNone
<1> HIDE DEF c
<1>9. /\ Notice("none", 0) \in Messages /\ Notice("last_irr_catch_up", Lib(t.head)) \in Messages
      /\ Notice("catch_up", t.head) \in Messages
  <2>1. 0 \in Int
    OBVIOUS
  <2> QED BY <1>7, <2>1, MessageTypes
<1>10. /\ Sane(P, t, OnConn(t, p, Enqueue(t.conn[p], Notice("none", 0))))
       /\ Sane(P, t, tell(Notice("last_irr_catch_up", Lib(t.head))))
       /\ Sane(P, t, tell(Notice("catch_up", t.head)))
       /\ Sane(P, t, VerifyCatchup(t, p, m.head))
       /\ Sane(P, t, t)
  BY <1>6, <1>8, <1>9, SendSane, VerifyCatchupSane, SaneNone
<1>11. \/ RecvHandshake(s, p, m) = OnConn(t, p, Enqueue(t.conn[p], Notice("none", 0)))
       \/ RecvHandshake(s, p, m) = t
       \/ RecvHandshake(s, p, m) = tell(Notice("last_irr_catch_up", Lib(t.head)))
       \/ RecvHandshake(s, p, m) = VerifyCatchup(t, p, m.head)
       \/ RecvHandshake(s, p, m) = tell(Notice("catch_up", t.head))
  BY Zenon DEF RecvHandshake, t, r, c
<1>12. Sane(P, t, RecvHandshake(s, p, m))
  <2> HIDE DEF tell
  <2> QED BY <1>10, <1>11
<1> QED BY <1>6, <1>12, SaneTwice

(* A handshake_message is handled.                                         *)
LEMMA HandleHandshakeSane ==
    ASSUME NEW P, NEW s, NodeOK(P, s), NEW p \in P, NEW m, m.head \in Int, m.lib \in Int
    PROVE  Sane(P, s, HandleHandshake(s, p, m))
<1> DEFINE b == s.conn[p]
           c == [b EXCEPT !.connecting = FALSE]
           d == IF m.first /\ ~c.greeted THEN SendHandshake(c, s.head) ELSE c
           e == [d EXCEPT !.lib = m.lib, !.libId = m.lib]
           t == OnConn(s, p, e)
<1>1. b \in Ends /\ s.head \in Int
  BY NodeFields
<1>2. Tame(b, c)
  BY <1>1, TameFields
<1>3. c \in Ends
  BY <1>2 DEF Tame
<1> HIDE DEF c
<1>4. Tame(c, d)
  BY <1>1, <1>3, TameNone, SendHandshakeTame
<1>5. d \in Ends
  BY <1>4 DEF Tame
<1> HIDE DEF d
<1>6. Tame(d, e)
  BY <1>5, TameFields
<1> HIDE DEF e
<1>7. Tame(b, e)
  BY <1>2, <1>4, <1>6, TameTwice
<1>8. Sane(P, s, t)
  BY <1>7, SaneConn
<1>9. NodeOK(P, t)
  BY <1>8, SaneOK
<1>10. HandleHandshake(s, p, m) = RecvHandshake(t, p, m)
  BY Zenon DEF HandleHandshake, t, e, d, c
<1> HIDE DEF t
<1>11. Sane(P, t, RecvHandshake(t, p, m))
  BY <1>9, RecvHandshakeSane
<1> QED BY <1>8, <1>10, <1>11, SaneTwice

(* A notice_message is handled.                                            *)
LEMMA HandleNoticeSane ==
    ASSUME NEW P, NEW s, NodeOK(P, s), NEW p \in P, NEW m, m.num \in Int,
           m.mode \in {"none", "catch_up", "last_irr_catch_up"}
    PROVE  Sane(P, s, HandleNotice(s, p, m))
<1> DEFINE c == [s.conn[p] EXCEPT !.connecting = FALSE]
           t == OnConn(s, p, c)
           d == [t.conn[p] EXCEPT !.lib = m.num]
           told == OnConn(t, p, d)
           r == ResetLibNum(told, p)
<1>1. Tame(s.conn[p], c)
  BY NodeFields, TameFields
<1> HIDE DEF c
<1>2. Sane(P, s, t)
  BY <1>1, SaneConn
<1>3. NodeOK(P, t)
  BY <1>2, SaneOK
<1> HIDE DEF t
<1>4. Tame(t.conn[p], d)
  BY <1>3, NodeFields, TameFields
<1> HIDE DEF d
<1>5. Sane(P, t, told)
  BY <1>3, <1>4, SaneConn
<1>6. NodeOK(P, told)
  BY <1>5, SaneOK
<1> HIDE DEF told
<1>7. Sane(P, told, r)
  BY <1>6, ResetLibNumSane
<1>8. NodeOK(P, r)
  BY <1>7, SaneOK
<1> HIDE DEF r
<1>9. Sane(P, r, StartSync(r, p, m.num)) /\ Sane(P, t, VerifyCatchup(t, p, m.num))
  BY <1>3, <1>8, StartSyncSane, VerifyCatchupSane
<1>10. Sane(P, s, told)
  BY <1>2, <1>5, SaneTwice
<1>11. Sane(P, s, r)
  BY <1>10, <1>7, SaneTwice
<1>12. Sane(P, s, StartSync(r, p, m.num)) /\ Sane(P, s, VerifyCatchup(t, p, m.num))
  BY <1>2, <1>9, <1>11, SaneTwice
<1>13. CASE m.mode = "none"
  <2>1. HandleNotice(s, p, m) = t
    BY <1>13 DEF HandleNotice, t, c
  <2> QED BY <2>1, <1>2
<1>14. CASE m.mode = "catch_up"
  <2>1. HandleNotice(s, p, m) = VerifyCatchup(t, p, m.num)
    BY <1>14 DEF HandleNotice, t, c
  <2> QED BY <2>1, <1>12
<1>15. CASE m.mode = "last_irr_catch_up"
  <2>1. HandleNotice(s, p, m) = StartSync(r, p, m.num)
    BY <1>15 DEF HandleNotice, t, c, d, told, r
  <2> QED BY <2>1, <1>12
<1> QED BY <1>13, <1>14, <1>15

(* recv_block in the state head_catchup.                                   *)
LEMMA RecvBlockAtHeadSane ==
    ASSUME NEW P, NEW s, NodeOK(P, s), NEW p \in P, NEW num \in Int
    PROVE  Sane(P, s, RecvBlockAtHead(s, p, num))
<1> DEFINE above == {q \in Listed(s) : s.conn[q].forkHead > num}
           ahead == IF \E q \in Reached(s, num) : Before(q, p) THEN above \ {p} ELSE above
           x == IF ahead = {} THEN "in_sync" ELSE "head_catchup"
           i == IF Reached(s, num) = {} THEN s.conn[p].forkHead ELSE 0
           u == [s EXCEPT !.source = NoConn]
           v == [u EXCEPT !.state = x]
           c == [s.conn[p] EXCEPT !.forkHead = i]
           t == OnConn(v, p, c)
<1>1. x = "in_sync" \/ x = "head_catchup"
  OBVIOUS
<1>2. i \in Int /\ s.conn[p] \in Ends
  BY NodeFields, EndFields
<1>3. RecvBlockAtHead(s, p, num) = SendHandshakes(t) \/ RecvBlockAtHead(s, p, num) = t
  <2> DEFINE w == [s EXCEPT !.source = NoConn, !.state = x,
                            !.conn[p].forkHead = IF Reached(s, num) = {} THEN @ ELSE 0]
  <2>1. RecvBlockAtHead(s, p, num) = SendHandshakes(w) \/ RecvBlockAtHead(s, p, num) = w
    BY Zenon DEF RecvBlockAtHead
  <2>2. w = t
    <3> HIDE DEF x
    <3> QED BY DEF OnConn, NodeOK, NodeShape
  <2> HIDE DEF w, t
  <2> QED BY <2>1, <2>2
<1> HIDE DEF x, i
<1>4. Sane(P, s, u) /\ u.conn = s.conn
  <2>1. u.conn = s.conn
    BY DEF NodeOK, NodeShape
  <2> QED BY <2>1, SaneMembers
<1>5. NodeOK(P, u)
  BY <1>4, SaneOK
<1> HIDE DEF u
<1>6. Sane(P, u, v) /\ v.conn = u.conn
  <2>1. v.conn = u.conn
    BY <1>5 DEF NodeOK, NodeShape
  <2> QED BY <1>1, <1>5, <2>1, SaneMembers
<1>7. NodeOK(P, v)
  BY <1>6, SaneOK
<1>8. Tame(s.conn[p], c)
  BY <1>2, TameFields
<1> HIDE DEF v, c
<1>9. Tame(v.conn[p], c)
  BY <1>4, <1>6, <1>8
<1>10. Sane(P, v, t)
  BY <1>7, <1>9, SaneConn
<1>11. NodeOK(P, t)
  BY <1>10, SaneOK
<1> HIDE DEF t
<1>12. Sane(P, t, SendHandshakes(t))
  BY <1>11, SendHandshakesSane
<1>13. Sane(P, s, v)
  BY <1>4, <1>6, SaneTwice
<1>14. Sane(P, s, t)
  BY <1>13, <1>10, SaneTwice
<1>15. Sane(P, s, SendHandshakes(t))
  BY <1>14, <1>12, SaneTwice
<1> QED BY <1>3, <1>14, <1>15

(* recv_block, if the next block expected is held when it is counted.      *)
LEMMA RecvBlockSane ==
    ASSUME NEW P, NEW s, NodeOK(P, s), NEW p \in P, NEW num \in Int,
           s.state = "lib_catchup" /\ num = s.next => num <= s.head
    PROVE  Sane(P, s, RecvBlock(s, p, num))
<1> DEFINE t == [s EXCEPT !.next = num + 1]
           u == [t EXCEPT !.state = "in_sync"]
           v == [t EXCEPT !.conn[p].armed = TRUE]
<1>1. CASE s.state = "in_sync"
  BY <1>1, SaneNone DEF RecvBlock
<1>2. CASE s.state = "head_catchup"
  BY <1>2, RecvBlockAtHeadSane DEF RecvBlock
<1>3. CASE s.state = "lib_catchup" /\ num # s.next
  BY <1>3, CloseSane DEF RecvBlock
<1>4. CASE s.state = "lib_catchup" /\ num = s.next
  <2>1. num + 1 \in Int /\ num + 1 <= s.head + 1
    BY <1>4, NodeFields
  <2>2. Sane(P, s, t)
    <3> DEFINE i == num + 1
    <3> HIDE DEF i
    <3>1. i \in Int /\ i <= s.head + 1
      BY <2>1 DEF i
    <3>2. Sane(P, s, [s EXCEPT !.next = i])
      BY <3>1, SaneMembers
    <3> QED BY <3>2 DEF i
  <2>3. NodeOK(P, t)
    BY <2>2, SaneOK
  <2>4. \/ RecvBlock(s, p, num) = SendHandshakes(u)
        \/ RecvBlock(s, p, num) = RequestNextChunk(t, NoConn)
        \/ RecvBlock(s, p, num) = v
    BY <1>4 DEF RecvBlock
  <2> HIDE DEF t
  <2>5. Sane(P, t, u)
    BY <2>3, SaneMembers
  <2>6. NodeOK(P, u)
    BY <2>5, SaneOK
  <2> HIDE DEF u
  <2>7. Sane(P, u, SendHandshakes(u)) /\ Sane(P, t, RequestNextChunk(t, NoConn))
    BY <2>3, <2>6, SendHandshakesSane, RequestNextChunkSane
  <2>8. Sane(P, t, v)
    <3> DEFINE c == [t.conn[p] EXCEPT !.armed = TRUE]
    <3>1. Tame(t.conn[p], c)
      BY <2>3, NodeFields, TameFields
    <3>2. v = OnConn(t, p, c)
      BY Zenon DEF OnConn
    <3> HIDE DEF c, v
    <3> QED BY <3>1, <3>2, <2>3, SaneConn
  <2> HIDE DEF v
  <2>9. Sane(P, t, SendHandshakes(u))
    BY <2>5, <2>7, SaneTwice
  <2> QED BY <2>2, <2>4, <2>7, <2>8, <2>9, SaneTwice
<1> QED BY <1>1, <1>2, <1>3, <1>4, NodeFields DEF States

(* A block is handled: one that does not link is not the next one          *)
(* expected.                                                               *)
LEMMA HandleBlockSane ==
    ASSUME NEW P, NEW s, NodeOK(P, s), NEW p \in P, NEW num \in Int
    PROVE  Sane(P, s, HandleBlock(s, p, num))
<1> DEFINE c == [s.conn[p] EXCEPT !.armed = FALSE]
           d == [c EXCEPT !.got = @ \cup {num}]
           t == OnConn(s, p, d)
           u == [t EXCEPT !.head = num]
           b == BcastBlock(u, num)
<1>1. s.conn[p] \in Ends
  BY NodeFields
<1>2. Tame(s.conn[p], c)
  BY <1>1, TameFields
<1>3. c \in Ends
  BY <1>2 DEF Tame
<1> HIDE DEF c
<1>4. Tame(c, d)
  <2>1. c.got \cup {num} \in SUBSET Int
    BY <1>3, EndFields
  <2> QED BY <1>3, <2>1, TameFields
<1> HIDE DEF d
<1>5. Sane(P, s, t)
  BY <1>2, <1>4, TameTwice, SaneConn
<1>6. NodeOK(P, t) /\ t.head = s.head /\ t.state = s.state /\ t.next = s.next
  <2>1. t.head = s.head /\ t.state = s.state /\ t.next = s.next
    BY DEF OnConn, NodeOK, NodeShape
  <2> HIDE DEF t
  <2> QED BY <1>5, <2>1, SaneOK
<1>7. [s EXCEPT !.conn[p].armed = FALSE, !.conn[p].got = @ \cup {num}] = t
  BY <1>1 DEF OnConn, NodeOK, NodeShape, c, d, Ends
<1> HIDE DEF t
<1>8. s.head \in Nat /\ (s.state = "lib_catchup" => s.next <= s.head + 1) /\ s.next \in Int
  BY NodeFields DEF NodeOK, Counted
<1>9. CASE num <= s.head
  <2>1. Sane(P, s, RecvBlock(s, p, num))
    BY <1>9, RecvBlockSane
  <2> QED BY <1>9, <2>1 DEF HandleBlock
<1>10. CASE num = s.head + 1
  <2>1. num \in Nat /\ num >= t.head
    BY <1>6, <1>8, <1>10
  <2>2. Sane(P, t, u) /\ u.head = num
    <3>1. u.head = num
      BY <1>6 DEF NodeOK, NodeShape
    <3> QED BY <1>6, <2>1, <3>1, SaneMembers
  <2>3. NodeOK(P, u)
    BY <2>2, SaneOK
  <2> HIDE DEF u
  <2>4. Sane(P, u, b) /\ b.head = u.head
    <3>1. b.head = u.head
      BY <2>3 DEF BcastBlock, NodeOK, NodeShape
    <3> HIDE DEF b
    <3>2. Sane(P, u, b)
      BY <2>3, BcastBlockSane DEF b
    <3> QED BY <3>1, <3>2
  <2>5. NodeOK(P, b)
    BY <2>4, SaneOK
  <2> HIDE DEF b
  <2>6. num <= b.head
    BY <2>1, <2>2, <2>4
  <2>7. Sane(P, b, RecvBlock(b, p, num))
    BY <2>5, <2>6, RecvBlockSane
  <2>8. ~(num <= s.head)
    BY <1>8, <1>10
  <2>9. HandleBlock(s, p, num) = RecvBlock(b, p, num)
    BY <1>7, <1>10, <2>8, Zenon DEF HandleBlock, b, u
  <2>10. Sane(P, s, u)
    BY <1>5, <2>2, SaneTwice
  <2>11. Sane(P, s, b)
    BY <2>10, <2>4, SaneTwice
  <2> QED BY <2>7, <2>9, <2>11, SaneTwice
<1>11. CASE ~(num <= s.head) /\ num # s.head + 1
  <2>1. ~(t.state = "lib_catchup" /\ num = t.next)
    BY <1>6, <1>8, <1>11
  <2>2. Sane(P, t, RecvBlock(t, p, num))
    BY <2>1, <1>6, RecvBlockSane
  <2>3. HandleBlock(s, p, num) = RecvBlock(t, p, num)
    BY <1>7, <1>11, Zenon DEF HandleBlock
  <2> QED BY <1>5, <2>2, <2>3, SaneTwice
<1> QED BY <1>9, <1>10, <1>11

(* A block from the future is refused.                                     *)
LEMMA RefuseBlockSane ==
    ASSUME NEW P, NEW s, NodeOK(P, s), NEW p \in P
    PROVE  Sane(P, s, RefuseBlock(s, p))
<1> DEFINE t == [s EXCEPT !.conn[p].armed = FALSE]
           c == [s.conn[p] EXCEPT !.armed = FALSE]
           l == [t EXCEPT !.last = 0]
           u == [l EXCEPT !.source = NoConn]
           v == Close(u, p)
           w == [v EXCEPT !.state = "in_sync"]
<1>1. Tame(s.conn[p], c)
  BY NodeFields, TameFields
<1>2. t = OnConn(s, p, c)
  BY Zenon DEF OnConn
<1> HIDE DEF t, c
<1>3. Sane(P, s, t)
  BY <1>1, <1>2, SaneConn
<1>4. NodeOK(P, t)
  BY <1>3, SaneOK
<1>5. Sane(P, t, l)
  BY <1>4, SaneLast
<1>6. NodeOK(P, l)
  BY <1>5, SaneOK
<1>7. u = [t EXCEPT !.last = 0, !.source = NoConn]
  BY Zenon
<1> HIDE DEF l
<1>8. Sane(P, l, u)
  BY <1>6, SaneMembers
<1>9. NodeOK(P, u)
  BY <1>8, SaneOK
<1> HIDE DEF u
<1>10. Sane(P, u, v)
  BY <1>9, CloseSane
<1>11. NodeOK(P, v)
  BY <1>10, SaneOK
<1> HIDE DEF v
<1>12. Sane(P, v, w)
  BY <1>11, SaneMembers
<1>13. NodeOK(P, w)
  BY <1>12, SaneOK
<1> HIDE DEF w
<1>14. Sane(P, w, SendHandshakes(w))
  BY <1>13, SendHandshakesSane
<1>15. Sane(P, s, SendHandshakes(w))
  <2>1. Sane(P, s, l)
    BY <1>3, <1>5, SaneTwice
  <2>2. Sane(P, s, u)
    BY <2>1, <1>8, SaneTwice
  <2>3. Sane(P, s, v)
    BY <2>2, <1>10, SaneTwice
  <2>4. Sane(P, s, w)
    BY <2>3, <1>12, SaneTwice
  <2> QED BY <2>4, <1>14, SaneTwice
<1>16. RefuseBlock(s, p) = t \/ RefuseBlock(s, p) = SendHandshakes(w)
  BY <1>7, Zenon DEF RefuseBlock, t, v, w
<1> QED BY <1>3, <1>15, <1>16

(* reassign_fetch.                                                         *)
LEMMA ReassignFetchSane ==
    ASSUME NEW P, NEW s, NodeOK(P, s), NEW p \in P
    PROVE  Sane(P, s, ReassignFetch(s, p))
<1> DEFINE b == [s.conn[p] EXCEPT !.armed = FALSE]
           c == FlushQueues(b)
           o == OnConn(s, p, c)
           t == IF c.open \/ c.out THEN OnConn(s, p, Enqueue(c, SyncRequest(0, 0)))
                ELSE Close(o, p)
           u == [t EXCEPT !.last = 0]
<1>1. Tame(s.conn[p], b)
  BY NodeFields, TameFields
<1>2. b \in Ends
  BY <1>1 DEF Tame
<1> HIDE DEF b
<1>3. Tame(b, c)
  BY <1>2, FlushTame
<1> HIDE DEF c
<1>4. Tame(s.conn[p], c)
  BY <1>1, <1>3, TameTwice
<1>5. SyncRequest(0, 0) \in Messages
  <2>1. 0 \in Int
    OBVIOUS
  <2> QED BY <2>1, MessageTypes
<1>6. Sane(P, s, t)
  <2>1. Sane(P, s, OnConn(s, p, Enqueue(c, SyncRequest(0, 0))))
    BY <1>4, <1>5, SendSane
  <2>2. Sane(P, s, o)
    BY <1>4, SaneConn
  <2>3. NodeOK(P, o)
    BY <2>2, SaneOK
  <2> HIDE DEF o
  <2>4. Sane(P, o, Close(o, p))
    BY <2>3, CloseSane
  <2>5. Sane(P, s, Close(o, p))
    BY <2>2, <2>4, SaneTwice
  <2> QED BY <2>1, <2>5
<1>7. NodeOK(P, t)
  BY <1>6, SaneOK
<1>8. ReassignFetch(s, p) = s \/ ReassignFetch(s, p) = RequestNextChunk(u, NoConn)
  BY Zenon DEF ReassignFetch, c, b
<1> HIDE DEF t
<1>9. Sane(P, t, u)
  BY <1>7, SaneLast
<1>10. NodeOK(P, u)
  BY <1>9, SaneOK
<1> HIDE DEF u
<1>11. Sane(P, u, RequestNextChunk(u, NoConn))
  BY <1>10, RequestNextChunkSane
<1>12. Sane(P, s, u)
  BY <1>6, <1>9, SaneTwice
<1>13. Sane(P, s, RequestNextChunk(u, NoConn))
  BY <1>12, <1>11, SaneTwice
<1> QED BY <1>8, <1>13, SaneNone

(* Any message is handled.                                                 *)
LEMMA HandledSane ==
    ASSUME NEW P, NEW s, NodeOK(P, s), NEW p \in P, NEW m \in Messages
    PROVE  Sane(P, s, Handled(s, p, m))
<1>0. s.head \in Int /\ s.conn[p] \in Ends
  BY NodeFields
<1>1. CASE m \in [type : {"handshake"}, first : BOOLEAN, head : Int, lib : Int]
  <2>1. m.type = "handshake" /\ m.head \in Int /\ m.lib \in Int
    BY <1>1
  <2>2. Handled(s, p, m) = HandleHandshake(s, p, m)
    BY <2>1 DEF Handled
  <2> QED BY <2>1, <2>2, HandleHandshakeSane
<1>2. CASE m \in [type : {"notice"}, mode : {"none", "catch_up", "last_irr_catch_up"}, num : Int]
  <2>1. m.type = "notice" /\ m.num \in Int /\ m.mode \in {"none", "catch_up", "last_irr_catch_up"}
    BY <1>2
  <2>2. Handled(s, p, m) = HandleNotice(s, p, m)
    BY <2>1 DEF Handled
  <2> QED BY <2>1, <2>2, HandleNoticeSane
<1>3. CASE m \in [type : {"request"}, mode : {"none", "catch_up"}]
  <2>1. m.type = "request"
    BY <1>3
  <2>2. Handled(s, p, m) = OnConn(s, p, HandleRequest(s.conn[p], m, s.head))
    BY <2>1 DEF Handled
  <2>3. Tame(s.conn[p], HandleRequest(s.conn[p], m, s.head))
    BY <1>0, HandleRequestTame
  <2> QED BY <2>2, <2>3, SaneConn
<1>4. CASE m \in [type : {"sync_request"}, start : Int, end : Int]
  <2>1. m.type = "sync_request" /\ m.start \in Int /\ m.end \in Int
    BY <1>4
  <2>2. Handled(s, p, m) = OnConn(s, p, HandleSyncRequest(s.conn[p], m, s.head))
    BY <2>1 DEF Handled
  <2>3. Tame(s.conn[p], HandleSyncRequest(s.conn[p], m, s.head))
    BY <1>0, <2>1, HandleSyncRequestTame
  <2> QED BY <2>2, <2>3, SaneConn
<1>5. CASE m \in [type : {"block"}, num : Int]
  <2>1. m.type = "block" /\ m.num \in Int
    BY <1>5
  <2>2. Handled(s, p, m) = HandleBlock(s, p, m.num)
    BY <2>1 DEF Handled
  <2> QED BY <2>1, <2>2, HandleBlockSane
<1>6. CASE m \in [type : {"eof"}]
  <2>1. m.type = "eof"
    BY <1>6
  <2>2. Handled(s, p, m) = Close(s, p)
    BY <2>1 DEF Handled
  <2> QED BY <2>2, CloseSane
<1> QED BY <1>1, <1>2, <1>3, <1>4, <1>5, <1>6, Zenon DEF Messages

-----------------------------------------------------------------------------
(* A mute end was closed during a write, and an open one is of a node that *)
(* dialled.                                                                *)
MuteOK(n, p, c, torn) == Mute(c) => torn /\ (c.open => <<n, p>> \in Links)

NetOK(nodes, torn) ==
    /\ nodes = [n \in Nodes |-> nodes[n]]
    /\ \A n \in Nodes : NodeOK(Peers(n), nodes[n])
    /\ \A n \in Nodes : \A p \in Peers(n) : MuteOK(n, p, nodes[n].conn[p], torn)

(* A write goes on after the socket was closed only if faults say so.      *)
TornOK(nodes, torn) ==
    \A n \in Nodes : \A p \in Peers(n) :
        nodes[n].conn[p].writing /\ ~nodes[n].conn[p].open => torn

Counts == [torn : BOOLEAN, drops : Nat, early : Nat, future : Nat]

NetInv == faults \in Counts /\ NetOK(node, faults.torn) /\ TornOK(node, faults.torn)

(* Peers are nodes, and each other's peers.                                *)
LEMMA PeersFacts ==
    \A n \in Nodes : \A p \in Peers(n) : p \in Nodes /\ n \in Peers(p) /\ n # p
BY NetSyncAssumption DEF Peers

(* One end is replaced.                                                    *)
LEMMA ReplacedNode ==
    ASSUME NEW P, NEW s, NodeOK(P, s), NEW p \in P, NEW c \in Ends
    PROVE  /\ NodeOK(P, OnConn(s, p, c)) /\ OnConn(s, p, c).conn[p] = c
           /\ \A q \in P : q # p => OnConn(s, p, c).conn[q] = s.conn[q]
           /\ OnConn(s, p, c).head = s.head
<1> DEFINE f == [s.conn EXCEPT ![p] = c]
<1>1. f \in [P -> Ends] /\ f[p] = c /\ \A q \in P : q # p => f[q] = s.conn[q]
  BY NodeFields
<1>2. OnConn(s, p, c) = [s EXCEPT !.conn = f]
  BY DEF OnConn, NodeOK, NodeShape
<1> HIDE DEF f
<1> QED BY <1>1, <1>2 DEF NodeOK, NodeShape, Counted

(* One node is replaced.                                                   *)
LEMMA ReplaceNode ==
    ASSUME NEW nodes, NEW torn, NetOK(nodes, torn), NEW n \in Nodes, NEW s,
           NodeOK(Peers(n), s), \A p \in Peers(n) : MuteOK(n, p, s.conn[p], torn)
    PROVE  /\ NetOK([nodes EXCEPT ![n] = s], torn) /\ [nodes EXCEPT ![n] = s][n] = s
           /\ \A m \in Nodes : m # n => [nodes EXCEPT ![n] = s][m] = nodes[m]
<1> DEFINE f == [nodes EXCEPT ![n] = s]
<1>1. nodes = [m \in Nodes |-> nodes[m]]
  BY DEF NetOK
<1>2. f = [m \in Nodes |-> f[m]] /\ f[n] = s /\ \A m \in Nodes : m # n => f[m] = nodes[m]
  BY <1>1
<1> HIDE DEF f
<1>3. ASSUME NEW m \in Nodes
      PROVE  NodeOK(Peers(m), f[m]) /\ \A p \in Peers(m) : MuteOK(m, p, f[m].conn[p], torn)
  BY <1>2 DEF NetOK
<1>4. NetOK(f, torn)
  BY <1>2, <1>3 DEF NetOK
<1> QED BY <1>2, <1>4 DEF f

(* One node changes sanely.                                                *)
LEMMA SaneNode ==
    ASSUME NEW nodes, NEW torn, NetOK(nodes, torn), NEW n \in Nodes, NEW s,
           Sane(Peers(n), nodes[n], s)
    PROVE  NetOK([nodes EXCEPT ![n] = s], torn)
<1>1. ASSUME NEW p \in Peers(n)
      PROVE  MuteOK(n, p, s.conn[p], torn)
  BY DEF NetOK, Sane, Tame, MuteOK
<1> QED BY <1>1, ReplaceNode, SaneOK

PutEnd(nodes, n, p, c) == [nodes EXCEPT ![n].conn[p] = c]

(* One end is replaced in the nodes.                                       *)
LEMMA ReplaceEnd ==
    ASSUME NEW nodes, NEW torn, NetOK(nodes, torn), NEW n \in Nodes, NEW p \in Peers(n),
           NEW c \in Ends, MuteOK(n, p, c, torn)
    PROVE  /\ PutEnd(nodes, n, p, c) = [nodes EXCEPT ![n] = OnConn(nodes[n], p, c)]
           /\ NetOK(PutEnd(nodes, n, p, c), torn)
           /\ PutEnd(nodes, n, p, c)[n] = OnConn(nodes[n], p, c)
           /\ \A m \in Nodes : m # n => PutEnd(nodes, n, p, c)[m] = nodes[m]
<1> DEFINE s == OnConn(nodes[n], p, c)
<1>1. PutEnd(nodes, n, p, c) = [nodes EXCEPT ![n] = s]
  BY DEF OnConn, PutEnd
<1>2. NodeOK(Peers(n), nodes[n])
  BY DEF NetOK
<1>3. /\ NodeOK(Peers(n), s) /\ s.conn[p] = c
      /\ \A q \in Peers(n) : q # p => s.conn[q] = nodes[n].conn[q]
  BY <1>2, ReplacedNode
<1> HIDE DEF s
<1>4. ASSUME NEW q \in Peers(n)
      PROVE  MuteOK(n, q, s.conn[q], torn)
  BY <1>3 DEF NetOK
<1>5. /\ NetOK([nodes EXCEPT ![n] = s], torn) /\ [nodes EXCEPT ![n] = s][n] = s
      /\ \A m \in Nodes : m # n => [nodes EXCEPT ![n] = s][m] = nodes[m]
  BY <1>3, <1>4, ReplaceNode
<1> QED BY <1>1, <1>5 DEF s

(* One end is replaced by one that is not written to while it is closed.   *)
LEMMA ReplaceEndTorn ==
    ASSUME NEW nodes, NEW torn, NetOK(nodes, torn), TornOK(nodes, torn),
           NEW n \in Nodes, NEW p \in Peers(n), NEW c \in Ends, MuteOK(n, p, c, torn),
           c.writing /\ ~c.open => torn
    PROVE  TornOK(PutEnd(nodes, n, p, c), torn)
<1> DEFINE f == PutEnd(nodes, n, p, c)
           s == OnConn(nodes[n], p, c)
<1>1. f[n] = s /\ \A m \in Nodes : m # n => f[m] = nodes[m]
  BY ReplaceEnd
<1>2. s.conn[p] = c /\ \A q \in Peers(n) : q # p => s.conn[q] = nodes[n].conn[q]
  BY ReplacedNode DEF NetOK
<1> HIDE DEF f, s
<1>3. TornOK(f, torn)
  BY <1>1, <1>2 DEF TornOK
<1> QED BY <1>3 DEF f

(* What is sent to an end that is closed is lost.                          *)
LEMMA DiscardOK ==
    ASSUME NEW nodes, NEW torn, NetOK(nodes, torn)
    PROVE  /\ NetOK(Discard(nodes), torn)
           /\ \A n \in Nodes : \A p \in Peers(n) :
                 /\ Discard(nodes)[n].conn[p].writing = nodes[n].conn[p].writing
                 /\ Discard(nodes)[n].conn[p].open = nodes[n].conn[p].open
<1> DEFINE end(n, p) == IF nodes[p].conn[n].open THEN nodes[n].conn[p]
                        ELSE [nodes[n].conn[p] EXCEPT !.wire = <<>>]
           f(n) == [p \in Peers(n) |-> end(n, p)]
           g == Discard(nodes)
<1>1. ASSUME NEW n \in Nodes
      PROVE  g[n] = [nodes[n] EXCEPT !.conn = f(n)]
  <2>1. DOMAIN nodes[n].conn = Peers(n)
    BY NodeFields DEF NetOK
  <2>2. g[n] = [nodes[n] EXCEPT !.conn = [p \in DOMAIN nodes[n].conn |->
                  IF nodes[p].conn[n].open THEN nodes[n].conn[p]
                  ELSE [nodes[n].conn[p] EXCEPT !.wire = <<>>]]]
    BY DEF Discard
  <2> QED BY <2>1, <2>2
<1>2. g = [n \in Nodes |-> g[n]]
  BY DEF Discard
<1>3. ASSUME NEW n \in Nodes, NEW p \in Peers(n)
      PROVE  /\ Tame(nodes[n].conn[p], end(n, p)) /\ end(n, p).writing = nodes[n].conn[p].writing
             /\ end(n, p).open = nodes[n].conn[p].open
  <2> DEFINE c == nodes[n].conn[p]
             e == <<>>
             d == [c EXCEPT !.wire = e]
  <2>1. c \in Ends
    BY NodeFields DEF NetOK
  <2>2. e \in Seq(Messages)
    OBVIOUS
  <2> HIDE DEF c, e
  <2>3. Tame(c, d) /\ Tame(c, c)
    BY <2>1, <2>2, TameFields, TameNone
  <2>4. d.writing = c.writing /\ d.open = c.open
    BY <2>1 DEF Ends
  <2>5. end(n, p) = c \/ end(n, p) = d
    BY DEF c, d, e
  <2> HIDE DEF d
  <2>6. /\ Tame(c, end(n, p)) /\ end(n, p).writing = c.writing /\ end(n, p).open = c.open
    BY <2>3, <2>4, <2>5
  <2> QED BY <2>6 DEF c
<1> HIDE DEF end, g
<1>4. ASSUME NEW n \in Nodes
      PROVE  /\ Sane(Peers(n), nodes[n], g[n])
             /\ \A p \in Peers(n) : g[n].conn[p] = end(n, p)
  <2> DEFINE h == f(n)
  <2>1. NodeOK(Peers(n), nodes[n])
    BY DEF NetOK
  <2>2. \A p \in Peers(n) : h[p] = end(n, p)
    OBVIOUS
  <2>3. h = [p \in Peers(n) |-> h[p]]
    OBVIOUS
  <2>4. g[n] = [nodes[n] EXCEPT !.conn = h]
    BY <1>1
  <2> HIDE DEF h
  <2>5. \A p \in Peers(n) : Tame(nodes[n].conn[p], h[p])
    BY <1>3, <2>2
  <2>6. Sane(Peers(n), nodes[n], g[n])
    BY <2>1, <2>3, <2>4, <2>5, SaneConns
  <2>7. g[n].conn = h
    BY <2>1, <2>4 DEF NodeOK, NodeShape
  <2> QED BY <2>2, <2>6, <2>7
<1>5. ASSUME NEW n \in Nodes
      PROVE  NodeOK(Peers(n), g[n]) /\ \A p \in Peers(n) : MuteOK(n, p, g[n].conn[p], torn)
  <2>1. NodeOK(Peers(n), g[n])
    BY <1>4, SaneOK
  <2>2. ASSUME NEW p \in Peers(n)
        PROVE  MuteOK(n, p, g[n].conn[p], torn)
    <3>1. Tame(nodes[n].conn[p], g[n].conn[p]) /\ MuteOK(n, p, nodes[n].conn[p], torn)
      BY <1>4 DEF Sane, NetOK
    <3> QED BY <3>1 DEF Tame, MuteOK
  <2> QED BY <2>1, <2>2
<1>6. NetOK(g, torn)
  BY <1>2, <1>5 DEF NetOK
<1> QED BY <1>3, <1>4, <1>6 DEF g

(* A step that may tear connections.                                       *)
LEMMA BecomesInv ==
    ASSUME NetInv, NEW nodes, NEW count \in Counts, count.torn = faults.torn,
           NetOK(nodes, faults.torn), Becomes(nodes, count)
    PROVE  NetInv'
<1> DEFINE torn == \E n \in Nodes : \E p \in Peers(n) :
                       nodes[n].conn[p].writing /\ ~nodes[n].conn[p].open
           b == count.torn \/ torn
<1>1. node' = Discard(nodes) /\ faults' = [count EXCEPT !.torn = b]
  BY DEF Becomes
<1>2. count.torn \in BOOLEAN /\ b \in BOOLEAN
  BY DEF Counts
<1>3. faults' \in Counts /\ faults'.torn = b
  <2> HIDE DEF b
  <2> QED BY <1>1, <1>2 DEF Counts
<1>4. faults.torn => faults'.torn
  BY <1>3
<1>5. NetOK(node', faults.torn)
  BY <1>1, DiscardOK
<1>6. NetOK(node', faults'.torn)
  BY <1>4, <1>5 DEF NetOK, MuteOK
<1>7. TornOK(node', faults'.torn)
  <2> SUFFICES ASSUME NEW n \in Nodes, NEW p \in Peers(n),
                      node'[n].conn[p].writing, ~node'[n].conn[p].open
               PROVE  faults'.torn
    BY DEF TornOK
  <2>1. nodes[n].conn[p].writing /\ ~nodes[n].conn[p].open
    BY <1>1, DiscardOK
  <2>2. torn
    BY <2>1
  <2> QED BY <2>2, <1>3
<1> QED BY <1>3, <1>6, <1>7 DEF NetInv, NetOK, TornOK

(* What the invariant says of the two ends of a connection.                *)
LEMMA EndsFacts ==
    ASSUME NetInv, NEW n \in Nodes, NEW p \in Peers(n)
    PROVE  /\ p \in Nodes /\ n \in Peers(p) /\ n # p
           /\ NetOK(node, faults.torn) /\ TornOK(node, faults.torn)
           /\ faults \in Counts /\ faults.torn \in BOOLEAN
           /\ NodeOK(Peers(n), node[n]) /\ NodeOK(Peers(p), node[p])
           /\ node[n].conn[p] \in Ends /\ node[p].conn[n] \in Ends
           /\ MuteOK(n, p, node[n].conn[p], faults.torn)
           /\ MuteOK(p, n, node[p].conn[n], faults.torn)
           /\ (node[n].conn[p].writing /\ ~node[n].conn[p].open => faults.torn)
           /\ (node[p].conn[n].writing /\ ~node[p].conn[n].open => faults.torn)
<1>1. p \in Nodes /\ n \in Peers(p) /\ n # p
  BY PeersFacts
<1>2. faults \in Counts /\ NetOK(node, faults.torn) /\ TornOK(node, faults.torn)
  BY DEF NetInv
<1>3. faults.torn \in BOOLEAN
  BY <1>2 DEF Counts
<1>4. /\ NodeOK(Peers(n), node[n]) /\ NodeOK(Peers(p), node[p])
      /\ MuteOK(n, p, node[n].conn[p], faults.torn)
      /\ MuteOK(p, n, node[p].conn[n], faults.torn)
  BY <1>1, <1>2 DEF NetOK
<1>5. node[n].conn[p] \in Ends /\ node[p].conn[n] \in Ends
  BY <1>1, <1>4, NodeFields
<1> QED BY <1>1, <1>2, <1>3, <1>4, <1>5 DEF TornOK

(* A change that keeps an end tame keeps what is said of mute ends.        *)
LEMMA TameMute ==
    ASSUME NEW n, NEW p, NEW c, NEW d, NEW torn, MuteOK(n, p, c, torn), Tame(c, d)
    PROVE  MuteOK(n, p, d, torn)
BY DEF MuteOK, Tame

(* A new connection object is an end and is not written to.                *)
LEMMA NewEnd == NewConnection \in Ends /\ ~NewConnection.out /\ ~NewConnection.writing
<1> DEFINE e == <<>>
           g == {}
           z == 0
<1>1. e \in Seq(Messages) /\ NoRequest \in Requests /\ z \in Int /\ g \in SUBSET Int
  BY RequestTypes
<1>2. NewConnection
        = [listed |-> FALSE, open |-> FALSE, connecting |-> FALSE, syncing |-> FALSE,
           forkHead |-> z, greeted |-> FALSE, lib |-> z, libId |-> z, got |-> g,
           req |-> NoRequest, armed |-> FALSE, fired |-> FALSE,
           wq |-> e, sq |-> e, out |-> FALSE, writing |-> FALSE, wire |-> e]
  BY Zenon DEF NewConnection
<1> HIDE DEF e, g, z
<1> QED BY <1>1, <1>2 DEF Ends

(* The new connection objects that Init, Connect and EraseClosed make.     *)
LEMMA NewEnds ==
    /\ \A l \in BOOLEAN : LET d == [NewConnection EXCEPT !.listed = l]
                          IN  d \in Ends /\ ~Mute(d) /\ ~d.writing
    /\ \A w \in Seq(Messages) : LET d == [NewConnection EXCEPT !.wire = w]
                                IN  d \in Ends /\ ~Mute(d) /\ ~d.writing
    /\ LET d == [NewConnection EXCEPT !.listed = TRUE, !.open = TRUE, !.connecting = TRUE]
       IN  d \in Ends /\ ~Mute(d) /\ ~d.writing
<1>1. ASSUME NEW c \in Ends, ~c.out, ~c.writing, NEW l \in BOOLEAN, NEW w \in Seq(Messages)
      PROVE  /\ LET d == [c EXCEPT !.listed = l] IN d \in Ends /\ ~Mute(d) /\ ~d.writing
             /\ LET d == [c EXCEPT !.wire = w] IN d \in Ends /\ ~Mute(d) /\ ~d.writing
             /\ LET d == [c EXCEPT !.listed = l, !.open = l, !.connecting = l]
                IN  d \in Ends /\ ~Mute(d) /\ ~d.writing
  <2>1. LET d == [c EXCEPT !.listed = l] IN d \in Ends /\ ~Mute(d) /\ ~d.writing
    BY <1>1 DEF Ends, Mute
  <2>2. LET d == [c EXCEPT !.wire = w] IN d \in Ends /\ ~Mute(d) /\ ~d.writing
    BY <1>1 DEF Ends, Mute
  <2>3. LET d == [c EXCEPT !.listed = l, !.open = l, !.connecting = l]
        IN  d \in Ends /\ ~Mute(d) /\ ~d.writing
    BY <1>1 DEF Ends, Mute
  <2> QED BY <2>1, <2>2, <2>3
<1>2. <<>> \in Seq(Messages) /\ TRUE \in BOOLEAN
  OBVIOUS
<1> QED BY <1>1, <1>2, NewEnd

(* The invariant holds at the start.                                       *)
LEMMA InitInv == Init => NetInv
<1> SUFFICES ASSUME Init PROVE NetInv
  OBVIOUS
<1>1. faults \in Counts /\ faults.torn = FALSE
  BY DEF Init, Counts
<1>2. node = [n \in Nodes |-> node[n]]
  BY DEF Init
<1>3. ASSUME NEW n \in Nodes
      PROVE  /\ NodeOK(Peers(n), node[n])
             /\ \A p \in Peers(n) : ~Mute(node[n].conn[p]) /\ ~node[n].conn[p].writing
  <2> DEFINE f == [p \in Peers(n) |-> [NewConnection EXCEPT !.listed = <<n, p>> \in Links]]
  <2>1. node[n] = [head |-> Heads[n], known |-> 0, last |-> 0, next |-> 1,
                   source |-> NoConn, state |-> "in_sync", conn |-> f]
    BY DEF Init
  <2>2. ASSUME NEW p \in Peers(n)
        PROVE  f[p] \in Ends /\ ~Mute(f[p]) /\ ~f[p].writing
    <3>1. (<<n, p>> \in Links) \in BOOLEAN
      OBVIOUS
    <3> QED BY <3>1, NewEnds
  <2>3. f \in [Peers(n) -> Ends]
    BY <2>2
  <2>4. Heads[n] \in Nat
    BY NetSyncAssumption, NetConnectionAssumption
  <2> HIDE DEF f
  <2>5. NodeShape(Peers(n), node[n])
    BY <2>1, <2>3, <2>4 DEF NodeShape, States
  <2>6. Counted(node[n])
    BY <2>1 DEF Counted
  <2>7. node[n].conn = f
    BY <2>1
  <2> QED BY <2>2, <2>5, <2>6, <2>7 DEF NodeOK
<1>4. NetOK(node, faults.torn)
  BY <1>2, <1>3 DEF NetOK, MuteOK
<1>5. TornOK(node, faults.torn)
  BY <1>3 DEF TornOK
<1> QED BY <1>1, <1>4, <1>5 DEF NetInv

(* A step that changes neither the faults' torn nor what tears.            *)
LEMMA PlainInv ==
    ASSUME NetInv, NEW nodes, node' = nodes, faults' \in Counts, faults'.torn = faults.torn,
           NetOK(nodes, faults.torn), TornOK(nodes, faults.torn)
    PROVE  NetInv'
BY DEF NetInv, NetOK, TornOK

(* A message is taken off the wire and its receiver changes sanely.        *)
LEMMA ReceiveInv ==
    ASSUME NetInv, NEW n \in Nodes, NEW p \in Peers(n), NEW s, NEW w \in Seq(Messages),
           NEW count \in Counts, count.torn = faults.torn, Sane(Peers(n), node[n], s),
           Becomes([node EXCEPT ![p].conn[n].wire = w, ![n] = s], count)
    PROVE  NetInv'
<1> DEFINE d == [node[p].conn[n] EXCEPT !.wire = w]
           a == PutEnd(node, p, n, d)
           b == [a EXCEPT ![n] = s]
           torn == faults.torn
<1>0. Becomes(b, count)
  BY Zenon DEF PutEnd
<1>1. Tame(node[p].conn[n], d)
  BY EndsFacts, TameFields
<1> HIDE DEF d
<1>2. d \in Ends
  BY <1>1 DEF Tame
<1>3. MuteOK(p, n, d, torn)
  BY <1>1, EndsFacts, TameMute
<1>4. p \in Nodes /\ n \in Peers(p) /\ n # p /\ NetOK(node, torn)
  BY EndsFacts
<1>5. NetOK(a, torn) /\ a[n] = node[n]
  BY <1>2, <1>3, <1>4, ReplaceEnd
<1> HIDE DEF a
<1>6. NetOK(b, torn)
  BY <1>5, SaneNode
<1> HIDE DEF b
<1> QED BY <1>0, <1>6, BecomesInv

(* Connect keeps the invariant: the end that dials may be mute, the other  *)
(* end is new.                                                             *)
LEMMA StepConnect ==
    ASSUME NetInv, NEW n \in Nodes, NEW p \in Peers(n), Connect(n, p)
    PROVE  NetInv'
<1> DEFINE c == node[n].conn[p]
           o == [c EXCEPT !.open = TRUE, !.connecting = TRUE]
           d == SendHandshake(o, node[n].head)
           e == [NewConnection EXCEPT !.listed = TRUE, !.open = TRUE, !.connecting = TRUE]
           x == IF node[p].source = n THEN Gone ELSE node[p].source
           a == PutEnd(node, n, p, d)
           b == PutEnd(a, p, n, e)
           s == [b[p] EXCEPT !.source = x]
           torn == faults.torn
<1>1. /\ p \in Nodes /\ n \in Peers(p) /\ n # p /\ NetOK(node, torn) /\ c \in Ends
      /\ MuteOK(n, p, c, torn) /\ NodeOK(Peers(n), node[n]) /\ faults \in Counts
  BY EndsFacts
<1>2. <<n, p>> \in Links
  BY DEF Connect
<1>3. node[n].head \in Int
  BY <1>1, NodeFields
<1>4. o \in Ends /\ (Mute(o) => Mute(c))
  <2> HIDE DEF c
  <2> QED BY <1>1 DEF Ends, Mute
<1>5. Tame(o, d)
  <2> HIDE DEF o
  <2> QED BY <1>3, <1>4, SendHandshakeTame
<1> HIDE DEF o, c
<1>6. d \in Ends /\ (Mute(d) => Mute(c))
  BY <1>4, <1>5 DEF Tame
<1>7. MuteOK(n, p, d, torn)
  BY <1>1, <1>2, <1>6 DEF MuteOK
<1>8. e \in Ends /\ MuteOK(p, n, e, torn)
  BY NewEnds DEF MuteOK
<1> HIDE DEF d, e
<1>9. NetOK(a, torn) /\ a[p] = node[p]
  BY <1>1, <1>6, <1>7, ReplaceEnd
<1> HIDE DEF a
<1>10. NetOK(b, torn)
  BY <1>1, <1>8, <1>9, ReplaceEnd
<1>11. b[p].source = node[p].source
  <2>0. NodeOK(Peers(p), a[p])
    BY <1>1, <1>9 DEF NetOK
  <2>1. b[p] = OnConn(a[p], n, e) /\ NodeOK(Peers(p), a[p])
    BY <1>1, <1>8, <1>9, <2>0, ReplaceEnd
  <2> QED BY <2>1, <1>9 DEF OnConn, NodeOK, NodeShape
<1>12. Becomes([b EXCEPT ![p].source = IF @ = n THEN Gone ELSE @], faults)
  BY Zenon DEF Connect, a, b, c, d, e, o, PutEnd
<1> HIDE DEF b
<1>13. [b EXCEPT ![p].source = IF @ = n THEN Gone ELSE @] = [b EXCEPT ![p] = s]
  BY <1>11
<1>14. NodeOK(Peers(p), b[p])
  BY <1>1, <1>10 DEF NetOK
<1>15. Sane(Peers(p), b[p], s)
  BY <1>14, SaneMembers
<1> HIDE DEF s
<1>16. NetOK([b EXCEPT ![p] = s], torn)
  BY <1>1, <1>10, <1>15, SaneNode
<1>17. Becomes([b EXCEPT ![p] = s], faults)
  BY <1>12, <1>13
<1> DEFINE z == [b EXCEPT ![p] = s]
<1> HIDE DEF z
<1>18. Becomes(z, faults) /\ NetOK(z, torn)
  BY <1>16, <1>17 DEF z
<1> QED BY <1>1, <1>18, BecomesInv

(* EraseClosed keeps the invariant.                                        *)
LEMMA StepErase ==
    ASSUME NetInv, NEW n \in Nodes, NEW p \in Peers(n), EraseClosed(n, p)
    PROVE  NetInv'
<1> DEFINE c == node[n].conn[p]
           e == [NewConnection EXCEPT !.wire = c.wire]
           a == PutEnd(node, n, p, e)
           x == IF a[n].source = p THEN Gone ELSE a[n].source
           s == [a[n] EXCEPT !.source = x]
           b == [a EXCEPT ![n] = s]
           torn == faults.torn
<1>1. NetOK(node, torn) /\ TornOK(node, torn) /\ c \in Ends /\ faults \in Counts
  BY EndsFacts
<1>2. e \in Ends /\ MuteOK(n, p, e, torn) /\ ~e.writing
  BY <1>1, EndFields, NewEnds DEF MuteOK
<1>3. node' = [a EXCEPT ![n].source = IF @ = p THEN Gone ELSE @] /\ faults' = faults
  BY Zenon DEF EraseClosed, PutEnd
<1> HIDE DEF e, c
<1>4. NetOK(a, torn) /\ TornOK(a, torn)
  BY <1>1, <1>2, ReplaceEnd, ReplaceEndTorn
<1> HIDE DEF a
<1>5. node' = b
  BY <1>3
<1>6. NodeOK(Peers(n), a[n])
  BY <1>4 DEF NetOK
<1>7. Sane(Peers(n), a[n], s) /\ s.conn = a[n].conn
  <2>1. s.conn = a[n].conn
    BY <1>6 DEF NodeOK, NodeShape
  <2> QED BY <1>6, <2>1, SaneMembers
<1> HIDE DEF s
<1>8. NetOK(b, torn)
  BY <1>4, <1>7, SaneNode
<1>9. a = [m \in Nodes |-> a[m]]
  BY <1>4 DEF NetOK
<1>10. b[n] = s /\ \A m \in Nodes : m # n => b[m] = a[m]
  BY <1>9
<1> HIDE DEF b
<1>11. TornOK(b, torn)
  BY <1>4, <1>7, <1>10 DEF TornOK
<1> QED BY <1>1, <1>3, <1>5, <1>8, <1>11, PlainInv

(* What is on the wire are messages.                                       *)
LEMMA WireFacts ==
    ASSUME NetInv, NEW n \in Nodes, NEW p \in Peers(n), node[p].conn[n].wire # <<>>
    PROVE  /\ Head(node[p].conn[n].wire) \in Messages
           /\ Tail(node[p].conn[n].wire) \in Seq(Messages)
<1>1. node[p].conn[n].wire \in Seq(Messages)
  BY EndsFacts, EndFields
<1> DEFINE w == node[p].conn[n].wire
<1> HIDE DEF w
<1>2. ASSUME w \in Seq(Messages), w # <<>> PROVE Head(w) \in Messages /\ Tail(w) \in Seq(Messages)
  BY <1>2
<1> QED BY <1>1, <1>2 DEF w

(* Receive keeps the invariant.                                            *)
LEMMA StepReceive ==
    ASSUME NetInv, NEW n \in Nodes, NEW p \in Peers(n), Receive(n, p)
    PROVE  NetInv'
<1> DEFINE wire == node[p].conn[n].wire
           s == Handled(node[n], p, Head(wire))
<1>1. wire # <<>> /\ Becomes([node EXCEPT ![p].conn[n].wire = Tail(wire), ![n] = s], faults)
  BY Zenon DEF Receive
<1>2. Head(wire) \in Messages /\ Tail(wire) \in Seq(Messages)
  BY <1>1, WireFacts
<1>3. NodeOK(Peers(n), node[n]) /\ faults \in Counts
  BY EndsFacts
<1>4. Sane(Peers(n), node[n], s)
  BY <1>2, <1>3, HandledSane
<1> HIDE DEF s
<1> QED BY <1>1, <1>2, <1>3, <1>4, ReceiveInv

(* ReceiveFuture keeps the invariant.                                      *)
LEMMA StepReceiveFuture ==
    ASSUME NetInv, NEW n \in Nodes, NEW p \in Peers(n), ReceiveFuture(n, p)
    PROVE  NetInv'
<1> DEFINE wire == node[p].conn[n].wire
           s == RefuseBlock(node[n], p)
           count == [faults EXCEPT !.future = @ + 1]
<1>1. wire # <<>> /\ Becomes([node EXCEPT ![p].conn[n].wire = Tail(wire), ![n] = s], count)
  BY Zenon DEF ReceiveFuture
<1>2. Tail(wire) \in Seq(Messages)
  BY <1>1, WireFacts
<1>3. NodeOK(Peers(n), node[n]) /\ faults \in Counts
  BY EndsFacts
<1>4. Sane(Peers(n), node[n], s)
  BY <1>3, RefuseBlockSane
<1>5. count \in Counts /\ count.torn = faults.torn
  BY <1>3 DEF Counts
<1> HIDE DEF s, count
<1> QED BY <1>1, <1>2, <1>4, <1>5, ReceiveInv

(* A step of one node that is sane keeps the invariant.                    *)
LEMMA StepSet ==
    ASSUME NetInv, NEW n \in Nodes, NEW s, Sane(Peers(n), node[n], s), Becomes(Set(n, s), faults)
    PROVE  NetInv'
<1> DEFINE z == [node EXCEPT ![n] = s]
<1>1. NetOK(node, faults.torn) /\ faults \in Counts
  BY DEF NetInv
<1>2. NetOK(z, faults.torn)
  BY <1>1, SaneNode
<1>3. Becomes(z, faults)
  BY DEF Set
<1> HIDE DEF z
<1> QED BY <1>1, <1>2, <1>3, BecomesInv

(* WriteDone keeps the invariant: only a write that fails on a closed      *)
(* socket leaves a mute end.                                               *)
LEMMA StepWriteDone ==
    ASSUME NetInv, NEW n \in Nodes, NEW p \in Peers(n), WriteDone(n, p)
    PROVE  NetInv'
<1> DEFINE s == node[n]
           torn == faults.torn
<1>1. /\ NodeOK(Peers(n), s) /\ s.conn[p] \in Ends /\ s.head \in Int /\ faults \in Counts
      /\ NetOK(node, torn) /\ (s.conn[p].writing /\ ~s.conn[p].open => torn)
  BY EndsFacts, NodeFields
<1>2. CASE s.conn[p].open
  <2> DEFINE t == OnConn(s, p, Written(s.conn[p], s.head))
  <2>1. Becomes(Set(n, t), faults)
    BY <1>2, Zenon DEF WriteDone
  <2>2. Tame(s.conn[p], Written(s.conn[p], s.head))
    BY <1>1, WrittenTame
  <2>3. Sane(Peers(n), s, t)
    BY <1>1, <2>2, SaneConn
  <2> HIDE DEF t
  <2> QED BY <2>1, <2>3, StepSet
<1>3. CASE ~s.conn[p].open
  <2> DEFINE d == [s.conn[p] EXCEPT !.writing = FALSE]
             u == OnConn(s, p, d)
             t == Close(u, p)
             a == PutEnd(node, n, p, d)
             z == [a EXCEPT ![n] = t]
  <2>1. Becomes(Set(n, t), faults) /\ s.conn[p].writing
    BY <1>3, Zenon DEF WriteDone
  <2>2. torn
    BY <1>1, <1>3, <2>1
  <2>3. d \in Ends /\ ~d.open
    <3> DEFINE c == s.conn[p]
    <3>1. c \in Ends /\ ~c.open
      BY <1>1, <1>3
    <3> HIDE DEF c
    <3>2. LET f == [c EXCEPT !.writing = FALSE] IN f \in Ends /\ ~f.open
      BY <3>1 DEF Ends
    <3> QED BY <3>2 DEF c
  <2> HIDE DEF d
  <2>4. MuteOK(n, p, d, torn)
    BY <2>2, <2>3 DEF MuteOK
  <2>5. NetOK(a, torn) /\ a[n] = u /\ a = [node EXCEPT ![n] = u]
    BY <1>1, <2>3, <2>4, ReplaceEnd
  <2>6. NodeOK(Peers(n), u)
    BY <2>5 DEF NetOK
  <2>7. node = [m \in Nodes |-> node[m]]
    BY <1>1 DEF NetOK
  <2> HIDE DEF a, u
  <2>8. Sane(Peers(n), u, t)
    BY <2>6, CloseSane
  <2> HIDE DEF t
  <2>9. NetOK(z, torn)
    BY <2>5, <2>8, SaneNode
  <2>10. z = Set(n, t)
    BY <2>5, <2>7 DEF Set
  <2> HIDE DEF z
  <2> QED BY <1>1, <2>1, <2>9, <2>10, BecomesInv
<1> QED BY <1>2, <1>3

(* SyncTimeout keeps the invariant.                                        *)
LEMMA StepTimeout ==
    ASSUME NetInv, NEW n \in Nodes, NEW p \in Peers(n), SyncTimeout(n, p)
    PROVE  NetInv'
<1> DEFINE s == node[n]
           c == [s.conn[p] EXCEPT !.fired = FALSE]
           u == OnConn(s, p, c)
           t == ReassignFetch(u, p)
<1>1. NodeOK(Peers(n), s) /\ s.conn[p] \in Ends
  BY EndsFacts
<1>2. Tame(s.conn[p], c)
  BY <1>1, TameFields
<1>3. Becomes(Set(n, t), faults)
  BY Zenon DEF SyncTimeout, OnConn
<1> HIDE DEF c
<1>4. Sane(Peers(n), s, u)
  BY <1>1, <1>2, SaneConn
<1>5. NodeOK(Peers(n), u)
  BY <1>4, SaneOK
<1> HIDE DEF u
<1>6. Sane(Peers(n), u, t)
  BY <1>5, ReassignFetchSane
<1>7. Sane(Peers(n), s, t)
  BY <1>4, <1>6, SaneTwice
<1> HIDE DEF t
<1> QED BY <1>3, <1>7, StepSet

(* A timer that runs out keeps the invariant.                              *)
LEMMA StepExpire ==
    ASSUME NetInv, NEW n \in Nodes, NEW p \in Peers(n), Expire(n, p),
           faults' \in Counts, faults'.torn = faults.torn
    PROVE  NetInv'
<1> DEFINE c == node[n].conn[p]
           b == [c EXCEPT !.armed = FALSE]
           d == [b EXCEPT !.fired = TRUE]
           a == PutEnd(node, n, p, d)
           torn == faults.torn
<1>1. /\ NetOK(node, torn) /\ TornOK(node, torn) /\ c \in Ends /\ MuteOK(n, p, c, torn)
      /\ (c.writing /\ ~c.open => torn)
  BY EndsFacts
<1>2. node = [m \in Nodes |-> node[m]] /\ NodeOK(Peers(n), node[n])
  BY <1>1 DEF NetOK
<1>3. node' = a
  <2>1. node' = [node EXCEPT ![n].conn[p].armed = FALSE, ![n].conn[p].fired = TRUE]
    BY DEF Expire
  <2>2. node[n].conn \in [Peers(n) -> Ends]
    BY <1>2, NodeFields
  <2> QED BY <1>2, <2>1, <2>2 DEF PutEnd, NodeOK, NodeShape
<1> HIDE DEF c
<1>4. d \in Ends /\ (Mute(d) => Mute(c)) /\ d.open = c.open /\ d.writing = c.writing
  BY <1>1 DEF Ends, Mute
<1> HIDE DEF d
<1>5. MuteOK(n, p, d, torn) /\ (d.writing /\ ~d.open => torn)
  BY <1>1, <1>4 DEF MuteOK
<1>6. NetOK(a, torn) /\ TornOK(a, torn)
  BY <1>1, <1>4, <1>5, ReplaceEnd, ReplaceEndTorn
<1> HIDE DEF a
<1> QED BY <1>3, <1>6, PlainInv

(* Drop keeps the invariant.                                               *)
LEMMA StepDrop ==
    ASSUME NetInv, NEW n \in Nodes, NEW p \in Peers(n), Drop(n, p)
    PROVE  NetInv'
<1> DEFINE w == <<Eof>>
           c == node[n].conn[p]
           d == node[p].conn[n]
           c2 == [c EXCEPT !.wire = w]
           d2 == [d EXCEPT !.wire = w]
           a == PutEnd(node, n, p, c2)
           b == PutEnd(a, p, n, d2)
           torn == faults.torn
<1>0. w \in Seq(Messages)
  BY MessageTypes
<1>1. /\ p \in Nodes /\ n \in Peers(p) /\ n # p /\ NetOK(node, torn) /\ TornOK(node, torn)
      /\ c \in Ends /\ MuteOK(n, p, c, torn) /\ (c.writing /\ ~c.open => torn)
      /\ d \in Ends /\ MuteOK(p, n, d, torn) /\ (d.writing /\ ~d.open => torn)
      /\ faults \in Counts
  BY EndsFacts
<1>2. faults' \in Counts /\ faults'.torn = torn
  BY <1>1 DEF Drop, Counts
<1>3. ASSUME NEW e \in Ends
      PROVE  LET f == [e EXCEPT !.wire = w]
             IN  f \in Ends /\ (Mute(f) => Mute(e)) /\ f.open = e.open /\ f.writing = e.writing
  <2> HIDE DEF w
  <2> QED BY <1>0 DEF Ends, Mute
<1>4. node' = [node EXCEPT ![n].conn[p].wire = w, ![p].conn[n].wire = w]
  BY Zenon DEF Drop
<1> HIDE DEF w
<1>5. /\ c2 \in Ends /\ MuteOK(n, p, c2, torn) /\ (c2.writing /\ ~c2.open => torn)
      /\ d2 \in Ends /\ MuteOK(p, n, d2, torn) /\ (d2.writing /\ ~d2.open => torn)
  <2> HIDE DEF c, d
  <2> QED BY <1>1, <1>3 DEF MuteOK
<1>6. a[p] = node[p]
  <2> HIDE DEF c2
  <2> QED BY <1>1, <1>5, ReplaceEnd
<1>7. node' = b
  <2>1. a = [node EXCEPT ![n].conn[p].wire = w]
    BY Zenon DEF PutEnd
  <2>2. node' = [a EXCEPT ![p].conn[n].wire = w]
    BY <1>4, <2>1
  <2> HIDE DEF a
  <2> QED BY <1>6, <2>2 DEF PutEnd
<1> HIDE DEF c2, d2, c, d
<1>8. NetOK(a, torn) /\ TornOK(a, torn)
  BY <1>1, <1>5, ReplaceEnd, ReplaceEndTorn
<1> HIDE DEF a
<1>9. NetOK(b, torn) /\ TornOK(b, torn)
  BY <1>1, <1>5, <1>8, ReplaceEnd, ReplaceEndTorn
<1> HIDE DEF b
<1> QED BY <1>2, <1>7, <1>9, PlainInv

(* bcast_block starts no write on a closed socket.                         *)
LEMMA BcastBlockWrites ==
    ASSUME NEW P, NEW s, NodeOK(P, s), NEW num \in Int, NEW p \in P
    PROVE  LET d == BcastBlock(s, num).conn[p]
           IN  d.writing /\ ~d.open => s.conn[p].writing /\ ~s.conn[p].open
<1> DEFINE c == s.conn[p]
           g == [c EXCEPT !.got = @ \ {num}]
           d == BcastBlock(s, num).conn[p]
<1>1. c \in Ends
  BY NodeFields
<1>2. \/ d = g
      \/ d = Enqueue(g, Block(num)) /\ Current(c)
  <2>1. d = IF num \notin c.got /\ Current(c) /\ c.lib < num
            THEN Enqueue(g, Block(num)) ELSE g
    BY NodeFields DEF BcastBlock, NodeOK, NodeShape
  <2> HIDE DEF d, g, c
  <2> QED BY <2>1
<1>3. g \in Ends /\ g.writing = c.writing /\ g.open = c.open
  <2>1. c.got \ {num} \in SUBSET Int
    BY <1>1, EndFields
  <2> HIDE DEF c
  <2> QED BY <1>1, <2>1 DEF Ends
<1> HIDE DEF g, d, c
<1>4. Enqueue(g, Block(num)).open = g.open
  <2> DEFINE m == Block(num)
             q == Append(g.wq, m)
  <2> HIDE DEF m
  <2>1. g.wq \in Seq(Messages) /\ m \in Messages
    BY <1>3, EndFields, MessageTypes DEF m
  <2>2. q \in Seq(Messages)
    BY <2>1
  <2> DEFINE h == [g EXCEPT !.wq = q]
  <2>3. Enqueue(g, m) = DoQueueWrite(h)
    BY DEF Enqueue
  <2> HIDE DEF q
  <2>4. h \in Ends /\ h.open = g.open
    BY <1>3, <2>2 DEF Ends
  <2> HIDE DEF h
  <2>5. DoQueueWrite(h).open = h.open
    <3> DEFINE w1 == h.wire \o h.sq
               w2 == h.wire \o h.wq
               e == <<>>
    <3>1. \/ DoQueueWrite(h) = h
          \/ DoQueueWrite(h) = [h EXCEPT !.wire = w1, !.sq = e, !.out = TRUE, !.writing = TRUE]
          \/ DoQueueWrite(h) = [h EXCEPT !.wire = w2, !.wq = e, !.out = TRUE, !.writing = TRUE]
      BY Zenon DEF DoQueueWrite
    <3> HIDE DEF w1, w2, e
    <3> QED BY <2>4, <3>1 DEF Ends
  <2> QED BY <2>3, <2>4, <2>5 DEF m
<1>5. Current(c) => c.open
  BY DEF Current
<1>6. d.writing /\ ~d.open => c.writing /\ ~c.open
  BY <1>2, <1>3, <1>4, <1>5
<1> QED BY <1>6 DEF d, c

(* Produce keeps the invariant.                                            *)
LEMMA StepProduce ==
    ASSUME NetInv, NEW n \in Nodes, Produce(n)
    PROVE  NetInv'
<1> DEFINE num == node[n].head + 1
           s == [node[n] EXCEPT !.head = num]
           t == BcastBlock(s, num)
           z == [node EXCEPT ![n] = t]
           torn == faults.torn
<1>1. node' = z /\ faults' = faults
  BY Zenon DEF Produce, Set
<1>2. NetOK(node, torn) /\ TornOK(node, torn) /\ faults \in Counts
  BY DEF NetInv
<1>3. NodeOK(Peers(n), node[n]) /\ node = [m \in Nodes |-> node[m]]
  BY <1>2 DEF NetOK
<1>4. num \in Nat /\ num \in Int /\ num >= node[n].head
  BY <1>3, NodeFields
<1> HIDE DEF num
<1>5. Sane(Peers(n), node[n], s) /\ s.conn = node[n].conn
  <2>1. s.conn = node[n].conn
    BY <1>3 DEF NodeOK, NodeShape
  <2> QED BY <1>3, <1>4, <2>1, SaneMembers
<1>6. NodeOK(Peers(n), s)
  BY <1>5, SaneOK
<1> HIDE DEF s
<1>7. Sane(Peers(n), s, t)
  BY <1>4, <1>6, BcastBlockSane
<1>8. Sane(Peers(n), node[n], t)
  BY <1>5, <1>7, SaneTwice
<1>9. NetOK(z, torn)
  BY <1>2, <1>8, SaneNode
<1>10. z[n] = t /\ \A m \in Nodes : m # n => z[m] = node[m]
  BY <1>3
<1>11. \A p \in Peers(n) : t.conn[p].writing /\ ~t.conn[p].open
                            => node[n].conn[p].writing /\ ~node[n].conn[p].open
  BY <1>4, <1>5, <1>6, BcastBlockWrites
<1> HIDE DEF z, t
<1>12. TornOK(z, torn)
  BY <1>2, <1>10, <1>11 DEF TornOK
<1> QED BY <1>1, <1>2, <1>9, <1>12, PlainInv

(* Every step keeps the invariant.                                         *)
LEMMA StepInv == NetInv /\ [Next]_vars => NetInv'
<1> SUFFICES ASSUME NetInv, [Next]_vars PROVE NetInv'
  OBVIOUS
<1>1. ASSUME NEW n \in Nodes, NEW p \in Peers(n), ExpireLate(n, p) PROVE NetInv'
  <2>1. Expire(n, p) /\ faults' = faults /\ faults \in Counts
    BY <1>1 DEF ExpireLate, NetInv
  <2> QED BY <2>1, StepExpire
<1>2. ASSUME NEW n \in Nodes, NEW p \in Peers(n), ExpireEarly(n, p) PROVE NetInv'
  <2>1. Expire(n, p) /\ faults' = [faults EXCEPT !.early = @ + 1] /\ faults \in Counts
    BY <1>2 DEF ExpireEarly, NetInv
  <2>2. faults' \in Counts /\ faults'.torn = faults.torn
    BY <2>1 DEF Counts
  <2> QED BY <2>1, <2>2, StepExpire
<1>3. CASE Work
  <2>0. PICK n \in Nodes : \E p \in Peers(n) :
          \/ Connect(n, p) \/ EraseClosed(n, p) \/ Receive(n, p)
          \/ WriteDone(n, p) \/ ExpireLate(n, p) \/ SyncTimeout(n, p)
    BY <1>3, Zenon DEF Work
  <2>1. PICK p \in Peers(n) :
          \/ Connect(n, p) \/ EraseClosed(n, p) \/ Receive(n, p)
          \/ WriteDone(n, p) \/ ExpireLate(n, p) \/ SyncTimeout(n, p)
    BY <2>0
  <2> QED BY <2>1, <1>1, StepConnect, StepErase, StepReceive, StepWriteDone, StepTimeout
<1>4. ASSUME NEW n \in Nodes, NEW p \in Peers(n),
             Drop(n, p) \/ ReceiveFuture(n, p) \/ ExpireEarly(n, p)
      PROVE  NetInv'
  BY <1>2, <1>4, StepDrop, StepReceiveFuture
<1>5. CASE UNCHANGED vars
  BY <1>5 DEF NetInv, NetOK, TornOK, vars
<1> QED BY <1>3, <1>4, <1>5, StepProduce DEF Next

(* The inductive invariant: the types, every counted block held, and an    *)
(* end is mute only if its socket was once closed during a write, an open  *)
(* one only at the node that dialled.                                      *)
THEOREM NetInvariant == Spec => []NetInv
<1>1. Init => NetInv
  BY InitInv
<1>2. NetInv /\ [Next]_vars => NetInv'
  BY StepInv
<1> QED BY <1>1, <1>2, PTL DEF Spec

(* recv_block counts only blocks that the node holds, although             *)
(* on_incoming_block may drop a block without a word: for any number of    *)
(* nodes, any topology and any span.                                       *)
THEOREM CountedHeld == Spec => []CountedBlocksHeld
<1>1. NetInv => CountedBlocksHeld
  BY DEF NetInv, NetOK, NodeOK, Counted, CountedBlocksHeld
<1> QED BY <1>1, NetInvariant, PTL

(* The comment on queued_buffer holds of every open connection, unless a   *)
(* connection closed during a write, and then of the ends that did not     *)
(* dial.                                                                   *)
THEOREM MuteOnlyTorn == Spec => []MuteEndDialled
<1>1. NetInv => MuteEndDialled
  BY DEF NetInv, NetOK, MuteOK, Mute, MuteEndDialled
<1> QED BY <1>1, NetInvariant, PTL

-----------------------------------------------------------------------------
(* The source of a node that waits for irreversible blocks is open, the    *)
(* timer of the source runs, and what the node lacks is not yet requested. *)
SourceOK(P, s) == s.state = "lib_catchup" => s.source \in P /\ s.conn[s.source].open

TimedAt(P, s) == \E p \in P : p = s.source /\ (s.conn[p].armed \/ s.conn[p].fired)

Owed(s) == s.state = "lib_catchup" /\ s.head < s.known /\ s.last < s.known

Firm(P, s) == NodeOK(P, s) /\ SourceOK(P, s) /\ s.next >= 1

(* What a handler may do to a wait.                                        *)
Fine(P, s, t) ==
    Firm(P, t) /\ (s.state = "lib_catchup" /\ TimedAt(P, s) /\ Owed(t) => TimedAt(P, t))

(* A change that leaves a wait alone.                                      *)
Aside(P, s, t) ==
    /\ NodeOK(P, t)
    /\ t.source = s.source /\ t.known = s.known /\ t.last = s.last /\ t.next = s.next
    /\ t.head >= s.head
    /\ t.state = "lib_catchup" <=> s.state = "lib_catchup"
    /\ \A p \in P : Still(s.conn[p], t.conn[p])

(* A change that leaves a wait alone keeps the types.                      *)
LEMMA AsideOK == ASSUME NEW P, NEW s, NEW t, Aside(P, s, t) PROVE NodeOK(P, t)
BY DEF Aside

(* Doing nothing leaves a wait alone.                                      *)
LEMMA AsideNone == ASSUME NEW P, NEW s, NodeOK(P, s) PROVE Aside(P, s, s)
BY NodeFields, StillNone DEF Aside

(* Two changes leave a wait alone.                                         *)
LEMMA AsideTwice ==
    ASSUME NEW P, NEW s, NEW t, NEW u, NodeOK(P, s), Aside(P, s, t), Aside(P, t, u)
    PROVE  Aside(P, s, u)
<1>1. s.head \in Int /\ t.head \in Int /\ u.head \in Int
  BY NodeFields DEF Aside
<1>2. u.head >= s.head
  BY <1>1 DEF Aside
<1>3. \A p \in P : Still(s.conn[p], u.conn[p])
  BY StillTwice DEF Aside
<1> QED BY <1>2, <1>3 DEF Aside

(* The timer goes on.                                                      *)
LEMMA AsideTimed ==
    ASSUME NEW P, NEW s, NEW t, Aside(P, s, t), TimedAt(P, s)
    PROVE  TimedAt(P, t)
<1>1. PICK p \in P : p = s.source /\ (s.conn[p].armed \/ s.conn[p].fired)
  BY DEF TimedAt
<1>2. t.source = s.source /\ Still(s.conn[p], t.conn[p])
  BY DEF Aside
<1>3. p = t.source /\ (t.conn[p].armed \/ t.conn[p].fired)
  BY <1>1, <1>2 DEF Still
<1> QED BY <1>3 DEF TimedAt

(* Blocks that are owed afterwards were owed before.                       *)
LEMMA AsideOwed ==
    ASSUME NEW P, NEW s, NEW t, NodeOK(P, s), Aside(P, s, t), Owed(t)
    PROVE  Owed(s)
<1>1. s.head \in Int /\ t.head \in Int /\ s.known \in Int
  BY NodeFields DEF Aside
<1> QED BY <1>1 DEF Aside, Owed

(* The source stays open.                                                  *)
LEMMA AsideFirm ==
    ASSUME NEW P, NEW s, NEW t, Firm(P, s), Aside(P, s, t)
    PROVE  Firm(P, t)
<1>1. ASSUME t.state = "lib_catchup" PROVE t.source \in P /\ t.conn[t.source].open
  <2>1. s.source \in P /\ s.conn[s.source].open /\ t.source = s.source
    BY <1>1 DEF Firm, SourceOK, Aside
  <2>2. Still(s.conn[s.source], t.conn[s.source])
    BY <2>1 DEF Aside
  <2> QED BY <2>1, <2>2 DEF Still
<1> QED BY <1>1 DEF Firm, SourceOK, Aside

(* A change that leaves the wait alone is fine.                            *)
LEMMA AsideFine ==
    ASSUME NEW P, NEW s, NEW t, Firm(P, s), Aside(P, s, t)
    PROVE  Fine(P, s, t)
BY AsideFirm, AsideTimed DEF Fine

(* A change that leaves the wait alone may follow.                         *)
LEMMA FineAside ==
    ASSUME NEW P, NEW s, NEW t, NEW u, Fine(P, s, t), Aside(P, t, u)
    PROVE  Fine(P, s, u)
<1>1. NodeOK(P, t) /\ Firm(P, t)
  BY DEF Fine, Firm
<1>2. Firm(P, u)
  BY <1>1, AsideFirm
<1>3. Owed(u) => Owed(t)
  BY <1>1, AsideOwed
<1>4. TimedAt(P, t) => TimedAt(P, u)
  BY AsideTimed
<1> QED BY <1>2, <1>3, <1>4 DEF Fine

(* A change that leaves the wait alone may come first.                     *)
LEMMA AsideThenFine ==
    ASSUME NEW P, NEW s, NEW t, NEW u, Aside(P, s, t), Fine(P, t, u)
    PROVE  Fine(P, s, u)
<1>1. TimedAt(P, s) => TimedAt(P, t)
  BY AsideTimed
<1>2. s.state = "lib_catchup" => t.state = "lib_catchup"
  BY DEF Aside
<1> QED BY <1>1, <1>2 DEF Fine

(* A step after which the node does not wait.                              *)
LEMMA FineIdle ==
    ASSUME NEW P, NEW s, NEW t, NodeOK(P, t), t.next >= 1, t.state # "lib_catchup"
    PROVE  Fine(P, s, t)
BY DEF Fine, Firm, SourceOK, Owed

(* Changes of connections.                                                 *)
LEMMA AsideConns ==
    ASSUME NEW P, NEW s, NodeOK(P, s), NEW f, f = [p \in P |-> f[p]],
           \A p \in P : Still(s.conn[p], f[p])
    PROVE  Aside(P, s, [s EXCEPT !.conn = f])
<1> DEFINE t == [s EXCEPT !.conn = f]
<1>1. \A p \in P : Tame(s.conn[p], f[p])
  BY DEF Still
<1>2. NodeOK(P, t)
  BY <1>1, SaneConns, SaneOK
<1>3. /\ t.source = s.source /\ t.known = s.known /\ t.last = s.last /\ t.next = s.next
      /\ t.head = s.head /\ t.state = s.state /\ t.conn = f
  BY DEF NodeOK, NodeShape
<1>4. s.head \in Int
  BY NodeFields
<1> HIDE DEF t
<1>5. Aside(P, s, t)
  BY <1>2, <1>3, <1>4 DEF Aside
<1> QED BY <1>5 DEF t

(* One connection changes and stays still.                                 *)
LEMMA AsideConn ==
    ASSUME NEW P, NEW s, NodeOK(P, s), NEW p \in P, NEW c, Still(s.conn[p], c)
    PROVE  Aside(P, s, OnConn(s, p, c))
<1> DEFINE f == [s.conn EXCEPT ![p] = c]
<1>1. s.conn \in [P -> Ends]
  BY NodeFields
<1>2. f = [q \in P |-> f[q]] /\ f[p] = c /\ \A q \in P : q # p => f[q] = s.conn[q]
  BY <1>1
<1>3. \A q \in P : Still(s.conn[q], f[q])
  BY <1>2, <1>1, StillNone
<1> HIDE DEF f
<1>4. Aside(P, s, [s EXCEPT !.conn = f])
  BY <1>2, <1>3, AsideConns
<1>5. OnConn(s, p, c) = [s EXCEPT !.conn = f]
  BY DEF OnConn, f, NodeOK, NodeShape
<1> QED BY <1>4, <1>5

(* send_handshakes leaves a wait alone.                                    *)
LEMMA SendHandshakesAside ==
    ASSUME NEW P, NEW s, NodeOK(P, s)
    PROVE  Aside(P, s, SendHandshakes(s))
<1> DEFINE f == [p \in P |-> IF Current(s.conn[p]) THEN SendHandshake(s.conn[p], s.head)
                             ELSE s.conn[p]]
<1>1. \A p \in P : Still(s.conn[p], f[p])
  BY NodeFields, StillNone, SendHandshakeStill
<1>2. f = [p \in P |-> f[p]]
  OBVIOUS
<1>3. SendHandshakes(s) = [s EXCEPT !.conn = f]
  BY NodeFields DEF SendHandshakes
<1> HIDE DEF f
<1> QED BY <1>1, <1>2, <1>3, AsideConns

(* bcast_block leaves a wait alone.                                        *)
LEMMA BcastBlockAside ==
    ASSUME NEW P, NEW s, NodeOK(P, s), NEW num \in Int
    PROVE  Aside(P, s, BcastBlock(s, num))
<1> DEFINE got(c) == [c EXCEPT !.got = @ \ {num}]
           one(c) == IF num \notin c.got /\ Current(c) /\ c.lib < num
                     THEN Enqueue(got(c), Block(num)) ELSE got(c)
           f == [p \in P |-> one(s.conn[p])]
<1>1. ASSUME NEW c \in Ends PROVE Still(c, one(c))
  <2>1. c.got \ {num} \in SUBSET Int
    BY EndFields
  <2>2. Still(c, got(c))
    BY <2>1, StillFields
  <2>3. got(c) \in Ends /\ Block(num) \in Messages
    BY <2>2, MessageTypes DEF Still, Tame
  <2> HIDE DEF got
  <2>4. Still(got(c), Enqueue(got(c), Block(num)))
    BY <2>3, EnqueueStill
  <2> QED BY <2>2, <2>4, StillTwice
<1>2. BcastBlock(s, num) = [s EXCEPT !.conn = f]
  BY NodeFields DEF BcastBlock
<1> HIDE DEF one
<1>3. \A p \in P : Still(s.conn[p], f[p])
  BY <1>1, NodeFields
<1>4. f = [p \in P |-> f[p]]
  OBVIOUS
<1> HIDE DEF f
<1> QED BY <1>2, <1>3, <1>4, AsideConns

(* The head grows.                                                         *)
LEMMA AsideHead ==
    ASSUME NEW P, NEW s, NodeOK(P, s), NEW i \in Nat, i >= s.head
    PROVE  Aside(P, s, [s EXCEPT !.head = i])
<1> DEFINE t == [s EXCEPT !.head = i]
<1>1. NodeOK(P, t)
  BY SaneMembers, SaneOK
<1>2. /\ t.source = s.source /\ t.known = s.known /\ t.last = s.last /\ t.next = s.next
      /\ t.head = i /\ t.state = s.state /\ t.conn = s.conn
  BY DEF NodeOK, NodeShape
<1>3. \A p \in P : Still(s.conn[p], s.conn[p])
  BY NodeFields, StillNone
<1> HIDE DEF t
<1>4. Aside(P, s, t)
  BY <1>1, <1>2, <1>3 DEF Aside
<1> QED BY <1>4 DEF t

(* The members after the changes of request_next_chunk.                    *)
LEMMA NoneFields ==
    ASSUME NEW P, NEW s, NodeOK(P, s), NEW k
    PROVE  LET u == [s EXCEPT !.known = k, !.last = 0, !.state = "in_sync"]
           IN  u.state = "in_sync" /\ u.last = 0 /\ u.next = s.next
BY DEF NodeOK, NodeShape

(* A range was requested.                                                  *)
LEMMA AskedFields ==
    ASSUME NEW P, NEW s, NodeOK(P, s), NEW i, NEW x \in P, NEW c
    PROVE  LET u == [s EXCEPT !.last = i, !.conn[x] = c]
           IN  u.source = s.source /\ u.state = s.state /\ u.next = s.next /\ u.conn[x] = c
BY DEF NodeOK, NodeShape

(* One member of a node changes.                                           *)
LEMMA MemberFields ==
    ASSUME NEW P, NEW s, NodeOK(P, s), NEW i
    PROVE  /\ LET t == [s EXCEPT !.source = i]
              IN  /\ t.source = i /\ t.state = s.state /\ t.head = s.head /\ t.known = s.known
                  /\ t.last = s.last /\ t.next = s.next /\ t.conn = s.conn
           /\ LET t == [s EXCEPT !.last = i]
              IN  /\ t.source = s.source /\ t.state = s.state /\ t.head = s.head
                  /\ t.known = s.known /\ t.last = i /\ t.next = s.next /\ t.conn = s.conn
           /\ LET t == [s EXCEPT !.known = i]
              IN  /\ t.source = s.source /\ t.state = s.state /\ t.head = s.head
                  /\ t.known = i /\ t.last = s.last /\ t.next = s.next /\ t.conn = s.conn
           /\ LET t == [s EXCEPT !.state = i]
              IN  /\ t.source = s.source /\ t.state = i /\ t.head = s.head
                  /\ t.known = s.known /\ t.last = s.last /\ t.next = s.next /\ t.conn = s.conn
           /\ LET t == [s EXCEPT !.next = i]
              IN  /\ t.source = s.source /\ t.state = s.state /\ t.head = s.head
                  /\ t.known = s.known /\ t.last = s.last /\ t.next = i /\ t.conn = s.conn
BY DEF NodeOK, NodeShape

(* After a request the source is open, and the timer runs if blocks are    *)
(* lacking that were not requested, unless nothing was done.               *)
Chunked(P, s, r) ==
    /\ Firm(P, r)
    /\ Owed(r) => TimedAt(P, r) \/ (r = s /\ s.head < s.last)
    /\ r.last = 0 \/ (r.state = s.state /\ (TimedAt(P, r) \/ r.last = s.last))

(* request_next_chunk: whatever the source was before, a node that waits   *)
(* afterwards has one that is open.                                        *)
LEMMA RequestNextChunkFirm ==
    ASSUME NEW P, NEW s, NodeOK(P, s), s.next >= 1, NEW wanted
    PROVE  Chunked(P, s, RequestNextChunk(s, wanted))
<1> DEFINE source == IF IsCurrent(s, wanted) THEN wanted ELSE NextSource(s)
           t      == [s EXCEPT !.source = source]
           end    == Lower(s.next + Span - 1, s.known)
           req    == [Enqueue(t.conn[source], SyncRequest(s.next, end)) EXCEPT !.armed = TRUE]
           none   == [t EXCEPT !.known = Lib(s.head), !.last = 0, !.state = "in_sync"]
           asked  == [t EXCEPT !.last = end, !.conn[source] = req]
           r      == RequestNextChunk(s, wanted)
           do     == s.last # s.known /\ end > 0 /\ end >= s.next
<1>1. \/ r = s /\ s.head < s.last /\ IsCurrent(s, s.source)
      \/ r = none
      \/ r = asked /\ IsCurrent(s, source)
      \/ r = t /\ IsCurrent(s, source) /\ ~do
  BY Zenon DEF RequestNextChunk
<1>2. NodeOK(P, r)
  BY RequestNextChunkSane, SaneOK
<1>3. \A x : IsCurrent(s, x) => x \in P /\ s.conn[x].open
  BY NodeFields DEF IsCurrent, Current
<1>4. s.next \in Int /\ s.known \in Int /\ s.head \in Nat /\ s.last \in Int /\ Counted(s)
  BY NodeFields DEF NodeOK
<1> HIDE DEF source, r, do
<1>5. /\ t.source = source /\ t.state = s.state /\ t.head = s.head /\ t.known = s.known
      /\ t.last = s.last /\ t.next = s.next /\ t.conn = s.conn
  BY MemberFields
<1>0. NodeOK(P, t)
  BY SaneMembers, SaneOK
<1> HIDE DEF t
<1>6. none.state = "in_sync" /\ none.last = 0 /\ none.next = s.next
  BY <1>0, <1>5, NoneFields
<1>7. source \in P => /\ asked.source = source /\ asked.state = s.state /\ asked.next = s.next
                      /\ asked.conn[source] = req
  <2> HIDE DEF req, end
  <2> QED BY <1>0, <1>5, AskedFields
<1>8. source \in P /\ IsCurrent(s, source) => req.armed /\ req.open
  <2> SUFFICES ASSUME source \in P, IsCurrent(s, source) PROVE req.armed /\ req.open
    OBVIOUS
  <2> DEFINE c == t.conn[source]
             m == SyncRequest(s.next, end)
  <2>1. c \in Ends /\ c.open
    BY <1>3, <1>5, NodeFields
  <2>2. end \in Int
    <3>1. s.next + Span - 1 \in Int
      BY <1>4, Numbers
    <3> QED BY <1>4, <3>1, OneOfTwo
  <2>3. m \in Messages
    <3> HIDE DEF end
    <3> QED BY <1>4, <2>2, MessageTypes
  <2> HIDE DEF c, m
  <2>4. Still(c, Enqueue(c, m))
    BY <2>1, <2>3, EnqueueStill
  <2> DEFINE e == Enqueue(c, m)
  <2>5. e \in Ends /\ e.open
    BY <2>1, <2>4 DEF Still, Tame
  <2> HIDE DEF e
  <2>6. [e EXCEPT !.armed = TRUE].armed /\ [e EXCEPT !.armed = TRUE].open
    BY <2>5 DEF Ends
  <2> QED BY <2>6 DEF e, c, m
<1>9. ~do /\ s.state = "lib_catchup" /\ s.head < s.known => ~(s.last < s.known)
  BY <1>4, NetSyncAssumption DEF do, Counted, Lower
<1> HIDE DEF none, asked, req
<1>10. ASSUME r = s /\ s.head < s.last /\ IsCurrent(s, s.source)
       PROVE  Chunked(P, s, r)
  BY <1>2, <1>3, <1>10 DEF Chunked, Firm, SourceOK
<1>11. ASSUME r = none
       PROVE  Chunked(P, s, r)
  BY <1>2, <1>6, <1>11 DEF Chunked, Firm, SourceOK, Owed
<1>12. ASSUME r = asked /\ IsCurrent(s, source)
       PROVE  Chunked(P, s, r)
  <2>1. source \in P /\ r.source = source /\ r.state = s.state /\ r.next = s.next
        /\ r.conn[source].armed /\ r.conn[source].open
    BY <1>3, <1>7, <1>8, <1>12
  <2> QED BY <1>2, <2>1 DEF Chunked, Firm, SourceOK, TimedAt
<1>13. ASSUME r = t /\ IsCurrent(s, source) /\ ~do
       PROVE  Chunked(P, s, r)
  <2>1. source \in P /\ r.source = source /\ r.conn[source].open /\ ~Owed(r)
    BY <1>3, <1>5, <1>9, <1>13 DEF Owed
  <2> QED BY <1>2, <1>5, <1>13, <2>1 DEF Chunked, Firm, SourceOK
<1>14. Chunked(P, s, r)
  BY <1>1, <1>10, <1>11, <1>12, <1>13
<1> QED BY <1>14 DEF r

(* A request from a clean slate.                                           *)
LEMMA RequestAfresh ==
    ASSUME NEW P, NEW s, NodeOK(P, s), s.next >= 1, s.last = 0, NEW wanted
    PROVE  LET r == RequestNextChunk(s, wanted)
           IN  /\ Firm(P, r) /\ (Owed(r) => TimedAt(P, r))
               /\ r.last = 0 \/ (r.state = s.state /\ TimedAt(P, r))
<1>1. s.head \in Nat
  BY NodeFields
<1>2. ~(s.head < s.last)
  BY <1>1
<1> QED BY <1>2, RequestNextChunkFirm DEF Chunked

(* The timer of the source runs, or the next request starts afresh.        *)
Timely(P, s) == s.last = 0 \/ (s.state = "lib_catchup" /\ TimedAt(P, s))

(* reset_lib_num, called for p, whose end may have been closed before.     *)
LEMMA ResetLibNumFirm ==
    ASSUME NEW P, NEW s, NodeOK(P, s), s.next >= 1, NEW p \in P,
           s.state = "lib_catchup" => s.source \in P /\ (s.conn[s.source].open \/ s.source = p)
    PROVE  LET r == ResetLibNum(s, p)
           IN  /\ Firm(P, r)
               /\ s.state = "lib_catchup"
                  /\ (TimedAt(P, s) \/ (s.source = p /\ ~Current(s.conn[p])))
                  => Timely(P, r) /\ (Owed(r) => TimedAt(P, r))
<1> DEFINE t == IF s.state = "in_sync" THEN [s EXCEPT !.source = NoConn] ELSE s
           k == Higher(t.known, s.conn[p].lib)
           u == [t EXCEPT !.last = 0]
           v == [t EXCEPT !.known = k]
           r == ResetLibNum(s, p)
<1>1. NodeOK(P, t) /\ t.next = s.next /\ t.state = s.state /\ t.conn = s.conn
      /\ (s.state = "lib_catchup" => t = s)
  <2>1. NodeOK(P, [s EXCEPT !.source = NoConn])
    BY SaneMembers, SaneOK
  <2> QED BY <2>1, MemberFields
<1>2. \/ r = v /\ Current(s.conn[p])
      \/ r = RequestNextChunk(u, NoConn) /\ p = t.source
      \/ r = t /\ ~Current(s.conn[p]) /\ p # t.source
  BY Zenon DEF ResetLibNum
<1>3. NodeOK(P, r)
  BY ResetLibNumSane, SaneOK
<1> HIDE DEF t, r
<1>4. /\ v.source = t.source /\ v.state = t.state /\ v.next = t.next /\ v.conn = t.conn
      /\ v.last = t.last
  <2> HIDE DEF k
  <2> QED BY <1>1, MemberFields
<1>5. NodeOK(P, u) /\ u.last = 0 /\ u.next = t.next /\ u.state = t.state
  BY <1>1, SaneLast, SaneOK, MemberFields
<1> HIDE DEF u, v
<1>6. /\ Firm(P, RequestNextChunk(u, NoConn))
      /\ Owed(RequestNextChunk(u, NoConn)) => TimedAt(P, RequestNextChunk(u, NoConn))
      /\ \/ RequestNextChunk(u, NoConn).last = 0
         \/ /\ RequestNextChunk(u, NoConn).state = u.state
            /\ TimedAt(P, RequestNextChunk(u, NoConn))
  BY <1>1, <1>5, RequestAfresh
<1>7. CASE r = v /\ Current(s.conn[p])
  <2>1. r.source = t.source /\ r.state = s.state /\ r.next = s.next /\ r.conn = s.conn
    BY <1>1, <1>4, <1>7
  <2>2. s.conn[p].open
    BY <1>7 DEF Current
  <2>3. Firm(P, r)
    BY <1>1, <1>3, <2>1, <2>2 DEF Firm, SourceOK
  <2>4. s.state = "lib_catchup" /\ TimedAt(P, s) => TimedAt(P, r)
    BY <1>1, <2>1 DEF TimedAt
  <2> QED BY <1>7, <2>1, <2>3, <2>4 DEF Timely, r
<1>8. CASE r = RequestNextChunk(u, NoConn) /\ p = t.source
  BY <1>1, <1>5, <1>6, <1>8 DEF Timely, r
<1>9. CASE r = t /\ ~Current(s.conn[p]) /\ p # t.source
  <2>1. Firm(P, r)
    BY <1>1, <1>3, <1>9 DEF Firm, SourceOK
  <2>2. s.state = "lib_catchup" => r = s /\ s.source # p
    BY <1>1, <1>9
  <2> QED BY <2>1, <2>2 DEF Timely, r
<1> QED BY <1>2, <1>7, <1>8, <1>9

(* One connection is replaced.                                             *)
LEMMA OnConnFields ==
    ASSUME NEW P, NEW s, NodeOK(P, s), NEW p \in P, NEW c
    PROVE  LET t == OnConn(s, p, c)
           IN  /\ t.source = s.source /\ t.state = s.state /\ t.head = s.head
               /\ t.known = s.known /\ t.last = s.last /\ t.next = s.next
               /\ t.conn[p] = c /\ \A q \in P : q # p => t.conn[q] = s.conn[q]
BY DEF OnConn, NodeOK, NodeShape

(* reset_lib_num for a connection that was not closed.                     *)
LEMMA ResetLibNumFine ==
    ASSUME NEW P, NEW s, Firm(P, s), NEW p \in P
    PROVE  Fine(P, s, ResetLibNum(s, p))
<1>1. NodeOK(P, s) /\ s.next >= 1
  BY DEF Firm
<1>2. s.state = "lib_catchup" => s.source \in P /\ (s.conn[s.source].open \/ s.source = p)
  BY DEF Firm, SourceOK
<1> QED BY <1>1, <1>2, ResetLibNumFirm DEF Fine

(* Closing the connection with p, whose timer may just have been stopped.  *)
LEMMA CloseFirm ==
    ASSUME NEW P, NEW s, Firm(P, s), NEW p \in P
    PROVE  LET r == Close(s, p)
           IN  /\ Firm(P, r)
               /\ s.state = "lib_catchup" /\ (s.source # p => TimedAt(P, s)) /\ Owed(r)
                  => TimedAt(P, r)
<1> DEFINE t == OnConn(s, p, Closed(s.conn[p]))
           r == ResetLibNum(t, p)
<1>1. NodeOK(P, s) /\ s.next >= 1 /\ SourceOK(P, s)
  BY DEF Firm
<1>2. s.conn[p] \in Ends
  BY <1>1, NodeFields
<1>3. Tame(s.conn[p], Closed(s.conn[p])) /\ ~Closed(s.conn[p]).open
  BY <1>2, ClosedTame
<1>4. NodeOK(P, t)
  BY <1>1, <1>3, SaneConn, SaneOK
<1>5. /\ t.source = s.source /\ t.state = s.state /\ t.next = s.next
      /\ ~t.conn[p].open /\ \A q \in P : q # p => t.conn[q] = s.conn[q]
  BY <1>1, <1>3, OnConnFields
<1> HIDE DEF t
<1>6. t.state = "lib_catchup" => t.source \in P /\ (t.conn[t.source].open \/ t.source = p)
  BY <1>1, <1>5 DEF SourceOK
<1>7. ~Current(t.conn[p])
  BY <1>5 DEF Current
<1>8. s.source # p /\ TimedAt(P, s) => TimedAt(P, t)
  BY <1>5 DEF TimedAt
<1>9. /\ Firm(P, r)
      /\ t.state = "lib_catchup" /\ (TimedAt(P, t) \/ (t.source = p /\ ~Current(t.conn[p])))
         => Timely(P, r) /\ (Owed(r) => TimedAt(P, r))
  BY <1>1, <1>4, <1>5, <1>6, ResetLibNumFirm
<1>10. Close(s, p) = r
  BY DEF Close, t
<1> HIDE DEF r
<1> QED BY <1>5, <1>7, <1>8, <1>9, <1>10

(* Closing a connection is fine for the wait.                              *)
LEMMA CloseFine ==
    ASSUME NEW P, NEW s, Firm(P, s), NEW p \in P
    PROVE  Fine(P, s, Close(s, p))
BY CloseFirm DEF Fine

(* start_sync: a request that goes on has its timer.                       *)
LEMMA StartSyncFirm ==
    ASSUME NEW P, NEW s, Firm(P, s), NEW p, NEW target \in Int
    PROVE  LET r == StartSync(s, p, target)
           IN  /\ Firm(P, r)
               /\ Timely(P, s) /\ Owed(r) => TimedAt(P, r)
<1> DEFINE k == Higher(s.known, target)
           t == [s EXCEPT !.known = k]
           i == Lib(t.head) + 1
           u == IF t.state = "in_sync"
                THEN [t EXCEPT !.state = "lib_catchup", !.next = i] ELSE t
           required == t.last < t.known \/ t.head < t.last
           r == StartSync(s, p, target)
           c == RequestNextChunk(u, p)
<1>1. NodeOK(P, s) /\ s.next >= 1 /\ SourceOK(P, s) /\ s.head \in Nat /\ s.last \in Int
  BY NodeFields DEF Firm
<1>2. k \in Int
  BY <1>1, NodeFields, OneOfTwo
<1>3. \/ r = c /\ required
      \/ r = t /\ ~required
  BY Zenon DEF StartSync
<1> HIDE DEF k
<1>4. NodeOK(P, t)
  BY <1>1, <1>2, SaneMembers, SaneOK
<1>5. /\ t.source = s.source /\ t.state = s.state /\ t.head = s.head /\ t.known = k
      /\ t.last = s.last /\ t.next = s.next /\ t.conn = s.conn
  BY <1>1, MemberFields
<1> HIDE DEF t
<1>6. i \in Int /\ i >= 1 /\ i <= t.head + 1
  BY <1>1, <1>5, NetConnectionAssumption DEF Lib
<1> HIDE DEF i
<1>7. /\ NodeOK(P, u) /\ u.next >= 1 /\ u.source = s.source /\ u.conn = s.conn
      /\ u.last = s.last /\ u.head = s.head
  <2> DEFINE v == [t EXCEPT !.state = "lib_catchup", !.next = i]
  <2>1. NodeOK(P, v)
    BY <1>4, <1>6, SaneMembers, SaneOK
  <2>2. v.next = i /\ v.source = t.source /\ v.conn = t.conn /\ v.last = t.last /\ v.head = t.head
    BY <1>4 DEF NodeOK, NodeShape
  <2>3. u = v \/ u = t
    OBVIOUS
  <2> HIDE DEF v, u
  <2> QED BY <1>1, <1>4, <1>5, <1>6, <2>1, <2>2, <2>3
<1> HIDE DEF u
<1>8. Chunked(P, u, c)
  BY <1>7, RequestNextChunkFirm
<1> HIDE DEF r, c
<1>9. CASE r = c /\ required
  <2>1. Firm(P, r) /\ (Owed(r) => TimedAt(P, r) \/ (r = u /\ u.head < u.last))
    BY <1>8, <1>9 DEF Chunked
  <2>2. ASSUME r = u, u.head < u.last, Timely(P, s) PROVE TimedAt(P, r)
    <3>1. s.last # 0
      BY <1>1, <1>7, <2>2
    <3>2. TimedAt(P, s)
      BY <2>2, <3>1 DEF Timely
    <3> QED BY <1>7, <2>2, <3>2 DEF TimedAt
  <2> QED BY <2>1, <2>2 DEF r
<1>10. CASE r = t /\ ~required
  <2>1. Firm(P, r)
    BY <1>1, <1>4, <1>5, <1>10 DEF Firm, SourceOK
  <2>2. ~Owed(r)
    BY <1>10 DEF Owed
  <2> QED BY <2>1, <2>2 DEF r
<1> QED BY <1>3, <1>9, <1>10

(* A message is put on a connection after a change that leaves it still.   *)
LEMMA SendAside ==
    ASSUME NEW P, NEW s, NodeOK(P, s), NEW p \in P, NEW c, Still(s.conn[p], c),
           NEW m \in Messages
    PROVE  Aside(P, s, OnConn(s, p, Enqueue(c, m)))
<1>1. c \in Ends
  BY DEF Still, Tame
<1>2. Still(s.conn[p], Enqueue(c, m))
  BY <1>1, EnqueueStill, StillTwice
<1> QED BY <1>2, AsideConn

(* verify_catchup leaves a wait alone: it enters head_catchup only when    *)
(* there is none.                                                          *)
LEMMA VerifyCatchupAside ==
    ASSUME NEW P, NEW s, NodeOK(P, s), NEW p \in P, NEW num \in Int
    PROVE  Aside(P, s, VerifyCatchup(s, p, num))
<1> DEFINE c == s.conn[p]
           c0 == [c EXCEPT !.forkHead = 0]
           cn == [c EXCEPT !.forkHead = num]
           a == OnConn(s, p, Enqueue(c0, Request("none")))
           b == OnConn(s, p, cn)
           d == OnConn(s, p, Enqueue(cn, Request("catch_up")))
           e == [d EXCEPT !.state = "head_catchup"]
<1>1. c \in Ends
  BY NodeFields
<1>2. Still(c, c0) /\ Still(c, cn)
  <2>1. \A i \in Int : Still(c, [c EXCEPT !.forkHead = i])
    BY <1>1, StillFields
  <2>2. 0 \in Int
    OBVIOUS
  <2> QED BY <2>1, <2>2
<1>3. Request("none") \in Messages /\ Request("catch_up") \in Messages
  BY MessageTypes
<1> HIDE DEF c0, cn
<1>4. Aside(P, s, a)
  BY <1>2, <1>3, SendAside
<1>5. Aside(P, s, b)
  BY <1>2, AsideConn
<1>6. Aside(P, s, d)
  BY <1>2, <1>3, SendAside
<1>7. NodeOK(P, d)
  BY <1>6, AsideOK
<1>8. \/ VerifyCatchup(s, p, num) = a
      \/ VerifyCatchup(s, p, num) = b
      \/ VerifyCatchup(s, p, num) = e /\ s.state # "lib_catchup"
  BY Zenon DEF VerifyCatchup, c0, cn
<1> HIDE DEF a, b, d
<1>9. s.state # "lib_catchup" => Aside(P, s, e)
  <2>1. NodeOK(P, e)
    BY <1>7, SaneMembers, SaneOK
  <2>2. /\ e.source = d.source /\ e.state = "head_catchup" /\ e.head = d.head
        /\ e.known = d.known /\ e.last = d.last /\ e.next = d.next /\ e.conn = d.conn
    BY <1>7, MemberFields
  <2> HIDE DEF e
  <2> QED BY <1>6, <2>1, <2>2 DEF Aside
<1> QED BY <1>4, <1>5, <1>8, <1>9

(* recv_handshake.                                                         *)
LEMMA RecvHandshakeFine ==
    ASSUME NEW P, NEW s, Firm(P, s), NEW p \in P, NEW m, m.head \in Int
    PROVE  Fine(P, s, RecvHandshake(s, p, m))
<1> DEFINE r == ResetLibNum(s, p)
           t == OnConn(r, p, [r.conn[p] EXCEPT !.syncing = FALSE])
           c == [t.conn[p] EXCEPT !.syncing = TRUE]
           tell(note) == OnConn(t, p, Enqueue(c, note))
<1>1. Fine(P, s, r)
  BY ResetLibNumFine
<1>2. NodeOK(P, r)
  BY <1>1 DEF Fine, Firm
<1> HIDE DEF r
<1>3. r.conn[p] \in Ends
  BY <1>2, NodeFields
<1>4. Still(r.conn[p], [r.conn[p] EXCEPT !.syncing = FALSE])
  BY <1>3, StillFields
<1>5. Aside(P, r, t)
  BY <1>2, <1>4, AsideConn
<1>6. NodeOK(P, t) /\ Fine(P, s, t)
  BY <1>1, <1>5, AsideOK, FineAside
<1> HIDE DEF t
<1>7. t.conn[p] \in Ends /\ t.head \in Int /\ Lib(t.head) \in Int
  BY <1>6, NodeFields, Numbers
<1>8. Still(t.conn[p], c) /\ Still(t.conn[p], t.conn[p])
  BY <1>7, StillFields, StillNone
<1> HIDE DEF c
<1>9. /\ Notice("none", 0) \in Messages /\ Notice("last_irr_catch_up", Lib(t.head)) \in Messages
      /\ Notice("catch_up", t.head) \in Messages
  <2>1. 0 \in Int
    OBVIOUS
  <2> QED BY <1>7, <2>1, MessageTypes
<1>10. /\ Aside(P, t, OnConn(t, p, Enqueue(t.conn[p], Notice("none", 0))))
       /\ Aside(P, t, tell(Notice("last_irr_catch_up", Lib(t.head))))
       /\ Aside(P, t, tell(Notice("catch_up", t.head)))
       /\ Aside(P, t, VerifyCatchup(t, p, m.head))
       /\ Aside(P, t, t)
  BY <1>6, <1>8, <1>9, SendAside, VerifyCatchupAside, AsideNone
<1>11. \/ RecvHandshake(s, p, m) = OnConn(t, p, Enqueue(t.conn[p], Notice("none", 0)))
       \/ RecvHandshake(s, p, m) = t
       \/ RecvHandshake(s, p, m) = tell(Notice("last_irr_catch_up", Lib(t.head)))
       \/ RecvHandshake(s, p, m) = VerifyCatchup(t, p, m.head)
       \/ RecvHandshake(s, p, m) = tell(Notice("catch_up", t.head))
  BY Zenon DEF RecvHandshake, t, r, c
<1>12. Aside(P, t, RecvHandshake(s, p, m))
  <2> HIDE DEF tell
  <2> QED BY <1>10, <1>11
<1> QED BY <1>6, <1>12, FineAside

(* A handshake_message is handled.                                         *)
LEMMA HandleHandshakeFine ==
    ASSUME NEW P, NEW s, Firm(P, s), NEW p \in P, NEW m, m.head \in Int, m.lib \in Int
    PROVE  Fine(P, s, HandleHandshake(s, p, m))
<1> DEFINE b == s.conn[p]
           c == [b EXCEPT !.connecting = FALSE]
           d == IF m.first /\ ~c.greeted THEN SendHandshake(c, s.head) ELSE c
           e == [d EXCEPT !.lib = m.lib, !.libId = m.lib]
           t == OnConn(s, p, e)
<1>0. NodeOK(P, s)
  BY DEF Firm
<1>1. b \in Ends /\ s.head \in Int
  BY <1>0, NodeFields
<1>2. Still(b, c)
  BY <1>1, StillFields
<1>3. c \in Ends
  BY <1>2 DEF Still, Tame
<1> HIDE DEF c
<1>4. Still(c, d)
  BY <1>1, <1>3, StillNone, SendHandshakeStill
<1>5. d \in Ends
  BY <1>4 DEF Still, Tame
<1> HIDE DEF d
<1>6. Still(d, e)
  BY <1>5, StillFields
<1> HIDE DEF e
<1>7. Still(b, e)
  BY <1>2, <1>4, <1>6, StillTwice
<1>8. Aside(P, s, t)
  BY <1>0, <1>7, AsideConn
<1>9. Firm(P, t)
  BY <1>8, AsideFirm
<1>10. HandleHandshake(s, p, m) = RecvHandshake(t, p, m)
  BY Zenon DEF HandleHandshake, t, e, d, c
<1> HIDE DEF t
<1>11. Fine(P, t, RecvHandshake(t, p, m))
  BY <1>9, RecvHandshakeFine
<1> QED BY <1>8, <1>10, <1>11, AsideThenFine

(* A notice_message is handled.                                            *)
LEMMA HandleNoticeFine ==
    ASSUME NEW P, NEW s, Firm(P, s), NEW p \in P, NEW m, m.num \in Int,
           m.mode \in {"none", "catch_up", "last_irr_catch_up"}
    PROVE  Fine(P, s, HandleNotice(s, p, m))
<1> DEFINE c == [s.conn[p] EXCEPT !.connecting = FALSE]
           t == OnConn(s, p, c)
           d == [t.conn[p] EXCEPT !.lib = m.num]
           told == OnConn(t, p, d)
           r == ResetLibNum(told, p)
           z == StartSync(r, p, m.num)
<1>0. NodeOK(P, s)
  BY DEF Firm
<1>1. Still(s.conn[p], c)
  BY <1>0, NodeFields, StillFields
<1> HIDE DEF c
<1>2. Aside(P, s, t)
  BY <1>0, <1>1, AsideConn
<1>3. NodeOK(P, t) /\ Firm(P, t)
  BY <1>2, AsideOK, AsideFirm
<1> HIDE DEF t
<1>4. Still(t.conn[p], d)
  BY <1>3, NodeFields, StillFields
<1> HIDE DEF d
<1>5. Aside(P, t, told)
  BY <1>3, <1>4, AsideConn
<1>6. Aside(P, s, told) /\ Firm(P, told)
  BY <1>0, <1>2, <1>3, <1>5, AsideTwice, AsideFirm
<1> HIDE DEF told
<1>7. /\ Firm(P, r)
      /\ told.state = "lib_catchup" /\ TimedAt(P, told) => Timely(P, r)
  <2>1. told.state = "lib_catchup"
        => told.source \in P /\ (told.conn[told.source].open \/ told.source = p)
    BY <1>6 DEF Firm, SourceOK
  <2>2. NodeOK(P, told) /\ told.next >= 1
    BY <1>6 DEF Firm
  <2> QED BY <2>1, <2>2, ResetLibNumFirm
<1> HIDE DEF r
<1>8. Firm(P, z) /\ (Timely(P, r) /\ Owed(z) => TimedAt(P, z))
  BY <1>7, StartSyncFirm
<1> HIDE DEF z
<1>9. Fine(P, told, z)
  BY <1>7, <1>8 DEF Fine
<1>10. Fine(P, s, z)
  BY <1>6, <1>9, AsideThenFine
<1>11. Aside(P, t, VerifyCatchup(t, p, m.num))
  BY <1>3, VerifyCatchupAside
<1>12. Fine(P, s, t) /\ Fine(P, s, VerifyCatchup(t, p, m.num))
  BY <1>2, <1>11, AsideFine, FineAside
<1>13. CASE m.mode = "none"
  <2>1. HandleNotice(s, p, m) = t
    BY <1>13 DEF HandleNotice, t, c
  <2> QED BY <1>12, <2>1
<1>14. CASE m.mode = "catch_up"
  <2>1. HandleNotice(s, p, m) = VerifyCatchup(t, p, m.num)
    BY <1>14 DEF HandleNotice, t, c
  <2> QED BY <1>12, <2>1
<1>15. CASE m.mode = "last_irr_catch_up"
  <2>1. HandleNotice(s, p, m) = z
    BY <1>15 DEF HandleNotice, t, c, d, told, r, z
  <2> QED BY <1>10, <2>1
<1> QED BY <1>13, <1>14, <1>15

(* reset_lib_num and close never lower the next number expected to 0.      *)
LEMMA CloseNext ==
    ASSUME NEW P, NEW s, NodeOK(P, s), s.next >= 1, NEW p \in P
    PROVE  Close(s, p).next >= 1
<1> DEFINE c == OnConn(s, p, Closed(s.conn[p]))
           t == IF c.state = "in_sync" THEN [c EXCEPT !.source = NoConn] ELSE c
           k == Higher(t.known, c.conn[p].lib)
           u == [t EXCEPT !.last = 0]
           v == [t EXCEPT !.known = k]
<1>1. \/ Close(s, p) = v
      \/ Close(s, p) = RequestNextChunk(u, NoConn)
      \/ Close(s, p) = t
  BY Zenon DEF Close, ResetLibNum
<1>2. NodeOK(P, c) /\ c.next >= 1
  <2>1. s.conn[p] \in Ends
    BY NodeFields
  <2>2. Tame(s.conn[p], Closed(s.conn[p]))
    BY <2>1, ClosedTame
  <2>3. NodeOK(P, c)
    BY <2>2, SaneConn, SaneOK
  <2>4. c.next = s.next
    BY OnConnFields
  <2> QED BY <2>3, <2>4
<1> HIDE DEF c
<1>3. NodeOK(P, t) /\ t.next >= 1
  <2>1. NodeOK(P, [c EXCEPT !.source = NoConn])
    BY <1>2, SaneMembers, SaneOK
  <2>2. [c EXCEPT !.source = NoConn].next = c.next
    BY <1>2, MemberFields
  <2> QED BY <1>2, <2>1, <2>2
<1> HIDE DEF t, k
<1>4. v.next = t.next
  BY <1>3, MemberFields
<1>5. NodeOK(P, u) /\ u.next = t.next
  BY <1>3, SaneLast, SaneOK, MemberFields
<1> HIDE DEF u, v
<1>6. RequestNextChunk(u, NoConn).next >= 1
  BY <1>3, <1>5, RequestNextChunkFirm DEF Chunked, Firm
<1> QED BY <1>1, <1>3, <1>4, <1>6

(* recv_block in the state head_catchup.                                   *)
LEMMA RecvBlockAtHeadFine ==
    ASSUME NEW P, NEW s, Firm(P, s), NEW p \in P, NEW num \in Int
    PROVE  Fine(P, s, RecvBlockAtHead(s, p, num))
<1> DEFINE above == {q \in Listed(s) : s.conn[q].forkHead > num}
           ahead == IF \E q \in Reached(s, num) : Before(q, p) THEN above \ {p} ELSE above
           x == IF ahead = {} THEN "in_sync" ELSE "head_catchup"
           f == [s.conn EXCEPT ![p].forkHead = IF Reached(s, num) = {} THEN @ ELSE 0]
           t == [s EXCEPT !.source = NoConn, !.state = x, !.conn = f]
           r == RecvBlockAtHead(s, p, num)
<1>1. NodeOK(P, s) /\ s.next >= 1
  BY DEF Firm
<1>2. NodeOK(P, r)
  BY <1>1, RecvBlockAtHeadSane, SaneOK
<1>3. x # "lib_catchup"
  OBVIOUS
<1>4. r = t \/ r = SendHandshakes(t)
  <2>1. t = [s EXCEPT !.source = NoConn, !.state = x,
                      !.conn[p].forkHead = IF Reached(s, num) = {} THEN @ ELSE 0]
    BY Zenon
  <2> QED BY <2>1, Zenon DEF RecvBlockAtHead
<1> HIDE DEF x, f
<1>5. t.next = s.next /\ t.state = x
  BY <1>1 DEF NodeOK, NodeShape
<1>6. SendHandshakes(t).next = t.next /\ SendHandshakes(t).state = t.state
  BY <1>1 DEF NodeOK, NodeShape, SendHandshakes
<1> HIDE DEF t
<1>7. r.next >= 1 /\ r.state # "lib_catchup"
  BY <1>1, <1>3, <1>4, <1>5, <1>6
<1> HIDE DEF r
<1>8. Fine(P, s, r)
  BY <1>2, <1>7, FineIdle
<1> QED BY <1>8 DEF r

(* A block arrives from p, whose timer may have been stopped for it.       *)
LEMMA RecvBlockFirm ==
    ASSUME NEW P, NEW s, Firm(P, s), NEW p \in P, NEW num \in Int,
           s.state = "lib_catchup" /\ num = s.next => num <= s.head
    PROVE  LET r == RecvBlock(s, p, num)
           IN  /\ Firm(P, r)
               /\ s.state = "lib_catchup" /\ (s.source # p => TimedAt(P, s)) /\ Owed(r)
                  => TimedAt(P, r)
<1> DEFINE t == [s EXCEPT !.next = num + 1]
           u == [t EXCEPT !.state = "in_sync"]
           c == [t.conn[p] EXCEPT !.armed = TRUE]
           v == OnConn(t, p, c)
           r == RecvBlock(s, p, num)
<1>0. NodeOK(P, s) /\ s.next >= 1 /\ s.next \in Int /\ s.state \in States /\ SourceOK(P, s)
      /\ s.head \in Nat
  BY NodeFields DEF Firm
<1>1. CASE s.state = "in_sync"
  <2>1. r = s
    BY <1>1 DEF RecvBlock
  <2> QED BY <1>1, <2>1
<1>2. CASE s.state = "head_catchup"
  <2>1. r = RecvBlockAtHead(s, p, num)
    BY <1>2 DEF RecvBlock
  <2>2. Firm(P, r)
    BY <2>1, RecvBlockAtHeadFine DEF Fine
  <2> QED BY <1>2, <2>2
<1>3. CASE s.state = "lib_catchup" /\ num # s.next
  <2>1. r = Close(s, p)
    BY <1>3 DEF RecvBlock
  <2> QED BY <2>1, CloseFirm
<1>4. CASE s.state = "lib_catchup" /\ num = s.next
  <2>1. NodeOK(P, t) /\ t.next >= 1
    <3> DEFINE i == num + 1
    <3>1. i \in Int /\ i <= s.head + 1 /\ i >= 1
      BY <1>0, <1>4
    <3> HIDE DEF i
    <3>2. NodeOK(P, [s EXCEPT !.next = i])
      BY <1>0, <3>1, SaneMembers, SaneOK
    <3>4. [s EXCEPT !.next = i].next = i
      BY <1>0, MemberFields
    <3>3. t = [s EXCEPT !.next = i]
      BY DEF i
    <3> HIDE DEF t
    <3> QED BY <3>1, <3>2, <3>3, <3>4
  <2>2. /\ t.source = s.source /\ t.state = s.state /\ t.conn = s.conn /\ t.head = s.head
        /\ t.last = s.last
    <3> DEFINE i == num + 1
    <3> HIDE DEF i
    <3>1. LET w == [s EXCEPT !.next = i]
          IN  /\ w.source = s.source /\ w.state = s.state /\ w.conn = s.conn /\ w.head = s.head
              /\ w.last = s.last
      BY <1>0, MemberFields
    <3> QED BY <3>1 DEF i
  <2>3. \/ r = SendHandshakes(u)
        \/ r = RequestNextChunk(t, NoConn) /\ num = s.last
        \/ r = v
    <3>1. v = [t EXCEPT !.conn[p].armed = TRUE]
      BY Zenon DEF OnConn
    <3> HIDE DEF v
    <3> QED BY <1>4, <3>1 DEF RecvBlock
  <2> HIDE DEF t
  <2>4. Firm(P, t)
    BY <1>0, <2>1, <2>2 DEF Firm, SourceOK
  <2>5. CASE r = SendHandshakes(u)
    <3>0. NodeOK(P, u)
      BY <2>1, SaneMembers, SaneOK
    <3>1. NodeOK(P, u) /\ u.state = "in_sync" /\ u.next = t.next
      BY <2>1, <3>0, MemberFields
    <3> HIDE DEF u
    <3>2. Aside(P, u, r)
      BY <3>1, <2>5, SendHandshakesAside
    <3>3. Firm(P, u) /\ ~Owed(u)
      BY <2>1, <3>1 DEF Firm, SourceOK, Owed
    <3>4. Firm(P, r) /\ ~Owed(r)
      BY <3>1, <3>2, <3>3, AsideFirm, AsideOwed
    <3> QED BY <3>4
  <2>6. CASE r = RequestNextChunk(t, NoConn) /\ num = s.last
    <3>1. ~(t.head < t.last)
      BY <1>0, <1>4, <2>2, <2>6
    <3>2. Chunked(P, t, RequestNextChunk(t, NoConn))
      BY <2>1, RequestNextChunkFirm
    <3> QED BY <3>1, <3>2, <2>6 DEF Chunked
  <2>7. CASE r = v
    <3>0. t.conn[p] \in Ends
      BY <2>1, NodeFields
    <3>1. Still(t.conn[p], c) /\ c.armed
      <4> DEFINE b == t.conn[p]
      <4> HIDE DEF b
      <4>1. b \in Ends
        BY <3>0 DEF b
      <4>2. [b EXCEPT !.armed = TRUE].armed
        BY <4>1 DEF Ends
      <4>3. Still(b, [b EXCEPT !.armed = TRUE])
        BY <4>1, StillFields
      <4> QED BY <4>2, <4>3 DEF b
    <3> HIDE DEF c
    <3>2. Aside(P, t, v) /\ v.source = t.source /\ v.conn[p] = c
      BY <2>1, <3>1, AsideConn, OnConnFields
    <3>3. Firm(P, v)
      BY <2>4, <3>2, AsideFirm
    <3>4. s.source = p => TimedAt(P, v)
      BY <2>2, <3>1, <3>2 DEF TimedAt
    <3>5. TimedAt(P, s) => TimedAt(P, t)
      BY <2>2 DEF TimedAt
    <3>6. TimedAt(P, t) => TimedAt(P, v)
      BY <3>2, AsideTimed
    <3> HIDE DEF v
    <3> QED BY <2>7, <3>3, <3>4, <3>5, <3>6
  <2> QED BY <2>3, <2>5, <2>6, <2>7
<1> QED BY <1>0, <1>1, <1>2, <1>3, <1>4 DEF States

(* A block is handled: the timer that it stops is started again, or its    *)
(* source is replaced.                                                     *)
LEMMA HandleBlockFine ==
    ASSUME NEW P, NEW s, Firm(P, s), NEW p \in P, NEW num \in Int
    PROVE  Fine(P, s, HandleBlock(s, p, num))
<1> DEFINE c == [s.conn[p] EXCEPT !.armed = FALSE]
           d == [c EXCEPT !.got = @ \cup {num}]
           t == OnConn(s, p, d)
           u == [t EXCEPT !.head = num]
           b == BcastBlock(u, num)
<1>0. NodeOK(P, s)
  BY DEF Firm
<1>1. s.conn[p] \in Ends
  BY <1>0, NodeFields
<1>2. Tame(s.conn[p], c) /\ (s.conn[p].open => c.open)
  <2> DEFINE e == s.conn[p]
  <2> HIDE DEF e
  <2>1. e \in Ends
    BY <1>1 DEF e
  <2>2. Tame(e, [e EXCEPT !.armed = FALSE])
    BY <2>1, TameFields
  <2>3. [e EXCEPT !.armed = FALSE].open = e.open
    BY <2>1 DEF Ends
  <2> QED BY <2>2, <2>3 DEF e
<1>3. c \in Ends
  BY <1>2 DEF Tame
<1> HIDE DEF c
<1>4. Still(c, d)
  <2>1. c.got \cup {num} \in SUBSET Int
    BY <1>3, EndFields
  <2> QED BY <1>3, <2>1, StillFields
<1> HIDE DEF d
<1>5. Tame(s.conn[p], d) /\ (s.conn[p].open => d.open)
  BY <1>2, <1>4, TameTwice DEF Still
<1>6. NodeOK(P, t)
  BY <1>0, <1>5, SaneConn, SaneOK
<1>7. /\ t.head = s.head /\ t.state = s.state /\ t.next = s.next /\ t.source = s.source
      /\ t.conn[p] = d /\ \A q \in P : q # p => t.conn[q] = s.conn[q]
  BY <1>0, OnConnFields
<1>8. [s EXCEPT !.conn[p].armed = FALSE, !.conn[p].got = @ \cup {num}] = t
  BY <1>0, <1>1 DEF OnConn, NodeOK, NodeShape, c, d, Ends
<1> HIDE DEF t
<1>9. s.head \in Nat /\ (s.state = "lib_catchup" => s.next <= s.head + 1) /\ s.next \in Int
  BY <1>0, NodeFields DEF NodeOK, Counted
<1>10. Firm(P, t)
  BY <1>5, <1>6, <1>7 DEF Firm, SourceOK
<1>11. TimedAt(P, s) => (t.source # p => TimedAt(P, t))
  BY <1>7 DEF TimedAt
<1>12. CASE num <= s.head
  <2>1. HandleBlock(s, p, num) = RecvBlock(s, p, num)
    BY <1>12 DEF HandleBlock
  <2> QED BY <1>12, <2>1, RecvBlockFirm DEF Fine
<1>13. CASE num = s.head + 1
  <2>1. num \in Nat /\ num >= t.head
    BY <1>7, <1>9, <1>13
  <2>2. Aside(P, t, u) /\ u.head = num
    <3>1. u.head = num
      BY <1>6 DEF NodeOK, NodeShape
    <3> QED BY <1>6, <2>1, <3>1, AsideHead
  <2>3. NodeOK(P, u)
    BY <2>2, AsideOK
  <2> HIDE DEF u
  <2>4. Aside(P, u, b)
    BY <2>3, BcastBlockAside
  <2>5. Aside(P, t, b) /\ NodeOK(P, b)
    BY <1>6, <2>2, <2>4, AsideTwice, AsideOK
  <2>6. ~(num <= s.head)
    BY <1>9, <1>13
  <2>7. HandleBlock(s, p, num) = RecvBlock(b, p, num)
    BY <1>8, <1>13, <2>6, Zenon DEF HandleBlock, b, u
  <2>8. num <= b.head
    <3>1. b.head \in Int /\ b.head >= u.head
      BY <2>4, <2>5, NodeFields DEF Aside
    <3> QED BY <2>2, <3>1
  <2> HIDE DEF b
  <2>9. Firm(P, b)
    BY <1>10, <2>5, AsideFirm
  <2>10. b.source = s.source /\ (b.state = "lib_catchup" <=> s.state = "lib_catchup")
    BY <1>7, <2>5 DEF Aside
  <2>11. TimedAt(P, s) => (b.source # p => TimedAt(P, b))
    BY <1>7, <1>11, <2>5, <2>10, AsideTimed
  <2> DEFINE r == RecvBlock(b, p, num)
  <2>12. /\ Firm(P, r)
         /\ b.state = "lib_catchup" /\ (b.source # p => TimedAt(P, b)) /\ Owed(r)
            => TimedAt(P, r)
    BY <2>8, <2>9, RecvBlockFirm
  <2> HIDE DEF r
  <2>13. Fine(P, s, r)
    BY <2>10, <2>11, <2>12 DEF Fine
  <2> QED BY <2>7, <2>13 DEF r
<1>14. CASE ~(num <= s.head) /\ num # s.head + 1
  <2>1. ~(t.state = "lib_catchup" /\ num = t.next)
    BY <1>7, <1>9, <1>14
  <2> DEFINE r == RecvBlock(t, p, num)
  <2>2. /\ Firm(P, r)
        /\ t.state = "lib_catchup" /\ (t.source # p => TimedAt(P, t)) /\ Owed(r)
           => TimedAt(P, r)
    BY <2>1, <1>10, RecvBlockFirm
  <2>3. HandleBlock(s, p, num) = r
    BY <1>8, <1>14, Zenon DEF HandleBlock
  <2> HIDE DEF r
  <2> QED BY <1>7, <1>11, <2>2, <2>3 DEF Fine
<1> QED BY <1>12, <1>13, <1>14

(* A block from the future ends the wait.                                  *)
LEMMA RefuseBlockFine ==
    ASSUME NEW P, NEW s, Firm(P, s), NEW p \in P
    PROVE  Fine(P, s, RefuseBlock(s, p))
<1> DEFINE t == [s EXCEPT !.conn[p].armed = FALSE]
           c == [s.conn[p] EXCEPT !.armed = FALSE]
           l == [t EXCEPT !.last = 0]
           u == [l EXCEPT !.source = NoConn]
           v == Close(u, p)
           w == [v EXCEPT !.state = "in_sync"]
           r == RefuseBlock(s, p)
<1>0. NodeOK(P, s) /\ s.next >= 1
  BY DEF Firm
<1>1. Tame(s.conn[p], c)
  BY <1>0, NodeFields, TameFields
<1>2. t = OnConn(s, p, c)
  BY Zenon DEF OnConn
<1>3. u = [t EXCEPT !.last = 0, !.source = NoConn]
  BY Zenon
<1>4. \/ r = t /\ s.state = "in_sync"
      \/ r = SendHandshakes(w)
  BY <1>3, Zenon DEF RefuseBlock
<1> HIDE DEF t, c
<1>5. NodeOK(P, t)
  BY <1>0, <1>1, <1>2, SaneConn, SaneOK
<1>6. t.next = s.next /\ t.state = s.state
  BY <1>0, <1>2, OnConnFields
<1>7. NodeOK(P, l)
  BY <1>5, SaneLast, SaneOK
<1>8. l.next = t.next
  BY <1>5, MemberFields
<1> HIDE DEF l
<1>9. NodeOK(P, u)
  BY <1>7, SaneMembers, SaneOK
<1>10. u.next = l.next
  BY <1>7, MemberFields
<1> HIDE DEF u
<1>11. NodeOK(P, v) /\ v.next >= 1
  BY <1>0, <1>6, <1>8, <1>9, <1>10, CloseSane, SaneOK, CloseNext
<1> HIDE DEF v
<1>12. NodeOK(P, w)
  BY <1>11, SaneMembers, SaneOK
<1>13. w.next = v.next /\ w.state = "in_sync"
  BY <1>11, MemberFields
<1> HIDE DEF w
<1>14. Aside(P, w, SendHandshakes(w))
  BY <1>12, SendHandshakesAside
<1>15. NodeOK(P, r) /\ r.next >= 1 /\ r.state # "lib_catchup"
  BY <1>0, <1>4, <1>5, <1>6, <1>11, <1>13, <1>14 DEF Aside
<1> HIDE DEF r
<1>16. Fine(P, s, r)
  BY <1>15, FineIdle
<1> QED BY <1>16 DEF r

(* reassign_fetch: the timeout of the source makes a new request, that of  *)
(* another connection is ignored.                                          *)
LEMMA ReassignFetchFirm ==
    ASSUME NEW P, NEW s, Firm(P, s), NEW p \in P
    PROVE  LET r == ReassignFetch(s, p)
           IN  /\ Firm(P, r)
               /\ s.source = p /\ Owed(r) => TimedAt(P, r)
               /\ s.source # p => r = s
<1> DEFINE b == [s.conn[p] EXCEPT !.armed = FALSE]
           c == FlushQueues(b)
           o == OnConn(s, p, c)
           e == OnConn(s, p, Enqueue(c, SyncRequest(0, 0)))
           t == IF c.open \/ c.out THEN e ELSE Close(o, p)
           u == [t EXCEPT !.last = 0]
           r == ReassignFetch(s, p)
           z == RequestNextChunk(u, NoConn)
<1>0. NodeOK(P, s) /\ s.next >= 1
  BY DEF Firm
<1>1. \/ r = s /\ p # s.source
      \/ r = z /\ p = s.source
  BY Zenon DEF ReassignFetch
<1>2. Tame(s.conn[p], b)
  BY <1>0, NodeFields, TameFields
<1>3. b \in Ends
  BY <1>2 DEF Tame
<1> HIDE DEF b
<1>4. Tame(b, c)
  BY <1>3, FlushTame
<1> HIDE DEF c
<1>5. Tame(s.conn[p], c)
  BY <1>2, <1>4, TameTwice
<1>6. SyncRequest(0, 0) \in Messages
  <2>1. 0 \in Int
    OBVIOUS
  <2> QED BY <2>1, MessageTypes
<1>7. NodeOK(P, e)
  BY <1>0, <1>5, <1>6, SendSane, SaneOK
<1>8. e.next = s.next /\ o.next = s.next
  BY <1>0, OnConnFields
<1>9. NodeOK(P, o)
  BY <1>0, <1>5, SaneConn, SaneOK
<1> HIDE DEF e, o
<1>10. NodeOK(P, Close(o, p)) /\ Close(o, p).next >= 1
  BY <1>0, <1>8, <1>9, CloseSane, SaneOK, CloseNext
<1>11. NodeOK(P, t) /\ t.next >= 1
  BY <1>0, <1>7, <1>8, <1>10
<1> HIDE DEF t
<1>12. NodeOK(P, u)
  BY <1>11, SaneLast, SaneOK
<1>13. u.next = t.next /\ u.last = 0
  BY <1>11, MemberFields
<1> HIDE DEF u
<1>14. Firm(P, z) /\ (Owed(z) => TimedAt(P, z))
  BY <1>11, <1>12, <1>13, RequestAfresh
<1> HIDE DEF z, r
<1> QED BY <1>1, <1>14 DEF r

(* Any message is handled.                                                 *)
LEMMA HandledFine ==
    ASSUME NEW P, NEW s, Firm(P, s), NEW p \in P, NEW m \in Messages
    PROVE  Fine(P, s, Handled(s, p, m))
<1>0. NodeOK(P, s) /\ s.head \in Int /\ s.conn[p] \in Ends
  BY NodeFields DEF Firm
<1>1. CASE m \in [type : {"handshake"}, first : BOOLEAN, head : Int, lib : Int]
  <2>1. m.type = "handshake" /\ m.head \in Int /\ m.lib \in Int
    BY <1>1
  <2>2. Handled(s, p, m) = HandleHandshake(s, p, m)
    BY <2>1 DEF Handled
  <2> QED BY <2>1, <2>2, HandleHandshakeFine
<1>2. CASE m \in [type : {"notice"}, mode : {"none", "catch_up", "last_irr_catch_up"}, num : Int]
  <2>1. m.type = "notice" /\ m.num \in Int /\ m.mode \in {"none", "catch_up", "last_irr_catch_up"}
    BY <1>2
  <2>2. Handled(s, p, m) = HandleNotice(s, p, m)
    BY <2>1 DEF Handled
  <2> QED BY <2>1, <2>2, HandleNoticeFine
<1>3. CASE m \in [type : {"request"}, mode : {"none", "catch_up"}]
  <2>1. m.type = "request"
    BY <1>3
  <2>2. Handled(s, p, m) = OnConn(s, p, HandleRequest(s.conn[p], m, s.head))
    BY <2>1 DEF Handled
  <2>3. Still(s.conn[p], HandleRequest(s.conn[p], m, s.head))
    BY <1>0, HandleRequestStill
  <2> QED BY <1>0, <2>2, <2>3, AsideConn, AsideFine
<1>4. CASE m \in [type : {"sync_request"}, start : Int, end : Int]
  <2>1. m.type = "sync_request" /\ m.start \in Int /\ m.end \in Int
    BY <1>4
  <2>2. Handled(s, p, m) = OnConn(s, p, HandleSyncRequest(s.conn[p], m, s.head))
    BY <2>1 DEF Handled
  <2>3. Still(s.conn[p], HandleSyncRequest(s.conn[p], m, s.head))
    BY <1>0, <2>1, HandleSyncRequestStill
  <2> QED BY <1>0, <2>2, <2>3, AsideConn, AsideFine
<1>5. CASE m \in [type : {"block"}, num : Int]
  <2>1. m.type = "block" /\ m.num \in Int
    BY <1>5
  <2>2. Handled(s, p, m) = HandleBlock(s, p, m.num)
    BY <2>1 DEF Handled
  <2> QED BY <2>1, <2>2, HandleBlockFine
<1>6. CASE m \in [type : {"eof"}]
  <2>1. m.type = "eof"
    BY <1>6
  <2>2. Handled(s, p, m) = Close(s, p)
    BY <2>1 DEF Handled
  <2> QED BY <2>2, CloseFine
<1> QED BY <1>1, <1>2, <1>3, <1>4, <1>5, <1>6, Zenon DEF Messages

(* An end that is not open, so not the source of a wait, is replaced.      *)
LEMMA ClosedEndFine ==
    ASSUME NEW P, NEW s, Firm(P, s), NEW p \in P, ~s.conn[p].open, NEW d \in Ends
    PROVE  /\ Fine(P, s, OnConn(s, p, d))
           /\ Fine(P, s, [OnConn(s, p, d) EXCEPT !.source = IF @ = p THEN Gone ELSE @])
<1> DEFINE t == OnConn(s, p, d)
           u == [t EXCEPT !.source = IF @ = p THEN Gone ELSE @]
<1>0. NodeOK(P, s) /\ s.next >= 1 /\ SourceOK(P, s)
  BY DEF Firm
<1>1. NodeOK(P, t)
  BY <1>0, ReplacedNode
<1>2. /\ t.source = s.source /\ t.state = s.state /\ t.next = s.next
      /\ \A q \in P : q # p => t.conn[q] = s.conn[q]
  BY <1>0, OnConnFields
<1> HIDE DEF t
<1> DEFINE x == IF t.source = p THEN Gone ELSE t.source
<1>3. NodeOK(P, u) /\ u.source = x /\ u.state = t.state /\ u.next = t.next /\ u.conn = t.conn
  <2>1. u = [t EXCEPT !.source = x]
    BY Zenon
  <2> HIDE DEF x, u
  <2>2. NodeOK(P, u)
    BY <1>1, <2>1, SaneMembers, SaneOK
  <2>3. u.source = x /\ u.state = t.state /\ u.next = t.next /\ u.conn = t.conn
    BY <1>1, <2>1, MemberFields
  <2> QED BY <2>2, <2>3
<1> HIDE DEF u
<1>4. s.state = "lib_catchup" => s.source \in P /\ s.source # p /\ s.conn[s.source].open
  BY <1>0 DEF SourceOK
<1>5. Firm(P, t) /\ Firm(P, u)
  BY <1>0, <1>1, <1>2, <1>3, <1>4 DEF Firm, SourceOK
<1>6. s.state = "lib_catchup" /\ TimedAt(P, s) => TimedAt(P, t) /\ TimedAt(P, u)
  BY <1>2, <1>3, <1>4 DEF TimedAt
<1>7. Fine(P, s, t) /\ Fine(P, s, u)
  BY <1>5, <1>6 DEF Fine
<1> QED BY <1>7 DEF t, u

(* The timer runs out.                                                     *)
LEMMA ExpireFine ==
    ASSUME NEW P, NEW s, Firm(P, s), NEW p \in P
    PROVE  Fine(P, s, OnConn(s, p, [s.conn[p] EXCEPT !.armed = FALSE, !.fired = TRUE]))
<1> DEFINE c == s.conn[p]
           d == [c EXCEPT !.armed = FALSE, !.fired = TRUE]
           t == OnConn(s, p, d)
<1>0. NodeOK(P, s) /\ s.next >= 1 /\ SourceOK(P, s) /\ c \in Ends
  BY NodeFields DEF Firm
<1>1. d \in Ends /\ d.open = c.open /\ d.fired
  <2> HIDE DEF c
  <2> QED BY <1>0 DEF Ends
<1> HIDE DEF d
<1>2. NodeOK(P, t)
  BY <1>0, <1>1, ReplacedNode
<1>3. /\ t.source = s.source /\ t.state = s.state /\ t.next = s.next
      /\ t.conn[p] = d /\ \A q \in P : q # p => t.conn[q] = s.conn[q]
  BY <1>0, OnConnFields
<1> HIDE DEF t
<1>4. Firm(P, t)
  BY <1>0, <1>1, <1>2, <1>3 DEF Firm, SourceOK
<1>5. TimedAt(P, s) => TimedAt(P, t)
  BY <1>1, <1>3 DEF TimedAt
<1>6. Fine(P, s, t)
  BY <1>4, <1>5 DEF Fine
<1> QED BY <1>6 DEF t, d

-----------------------------------------------------------------------------
(* What a step may do to the waits of all nodes.                           *)
AllFirm(nodes) == \A n \in Nodes : Firm(Peers(n), nodes[n])

AllFine(nodes, after) == \A n \in Nodes : Fine(Peers(n), nodes[n], after[n])

(* Doing nothing is fine.                                                  *)
LEMMA FirmFine == ASSUME NEW P, NEW s, Firm(P, s) PROVE Fine(P, s, s)
BY DEF Fine

(* What is lost on the wire leaves a wait alone.                           *)
LEMMA DiscardAside ==
    ASSUME NEW nodes, NEW n \in Nodes, NodeOK(Peers(n), nodes[n])
    PROVE  Aside(Peers(n), nodes[n], Discard(nodes)[n])
<1> DEFINE s == nodes[n]
           e == <<>>
           f == [p \in Peers(n) |-> IF nodes[p].conn[n].open THEN s.conn[p]
                                    ELSE [s.conn[p] EXCEPT !.wire = e]]
<1>1. Discard(nodes)[n] = [s EXCEPT !.conn = f]
  <2>1. DOMAIN s.conn = Peers(n)
    BY NodeFields
  <2>2. Discard(nodes)[n] = [s EXCEPT !.conn = [p \in DOMAIN s.conn |->
                  IF nodes[p].conn[n].open THEN s.conn[p]
                  ELSE [s.conn[p] EXCEPT !.wire = <<>>]]]
    BY DEF Discard
  <2> QED BY <2>1, <2>2
<1>2. e \in Seq(Messages)
  OBVIOUS
<1> HIDE DEF e, s
<1>3. NodeOK(Peers(n), s)
  BY DEF s
<1>4. \A p \in Peers(n) : Still(s.conn[p], f[p])
  BY <1>2, <1>3, NodeFields, StillFields, StillNone
<1>5. f = [p \in Peers(n) |-> f[p]]
  OBVIOUS
<1> HIDE DEF f
<1>6. Aside(Peers(n), s, [s EXCEPT !.conn = f])
  BY <1>3, <1>4, <1>5, AsideConns
<1> QED BY <1>1, <1>6 DEF s

(* A step that may tear connections.                                       *)
LEMMA BecomesFine ==
    ASSUME NEW nodes, NEW count, AllFine(node, nodes), Becomes(nodes, count)
    PROVE  AllFine(node, node')
<1> SUFFICES ASSUME NEW n \in Nodes PROVE Fine(Peers(n), node[n], node'[n])
  BY DEF AllFine
<1>1. Fine(Peers(n), node[n], nodes[n])
  BY DEF AllFine
<1>2. NodeOK(Peers(n), nodes[n])
  BY <1>1 DEF Fine, Firm
<1>3. node' = Discard(nodes)
  BY DEF Becomes
<1> QED BY <1>1, <1>2, <1>3, DiscardAside, FineAside

(* One node, or two, are changed.                                          *)
LEMMA OneFine ==
    ASSUME NEW nodes, nodes = [n \in Nodes |-> nodes[n]], AllFirm(nodes), NEW n \in Nodes, NEW s,
           Fine(Peers(n), nodes[n], s)
    PROVE  AllFine(nodes, [nodes EXCEPT ![n] = s])
BY FirmFine DEF AllFine, AllFirm

(* Two nodes are changed.                                                  *)
LEMMA TwoFine ==
    ASSUME NEW nodes, nodes = [n \in Nodes |-> nodes[n]], AllFirm(nodes),
           NEW n \in Nodes, NEW s, Fine(Peers(n), nodes[n], s),
           NEW p \in Nodes, NEW t, Fine(Peers(p), nodes[p], t), n # p,
           NEW after, after[n] = s, after[p] = t, \A m \in Nodes : m \notin {n, p} => after[m] = nodes[m]
    PROVE  AllFine(nodes, after)
BY FirmFine DEF AllFine, AllFirm

(* Both ends of a connection and their nodes.                              *)
LEMMA FirmFacts ==
    ASSUME NetInv, AllFirm(node), NEW n \in Nodes, NEW p \in Peers(n)
    PROVE  /\ p \in Nodes /\ n \in Peers(p) /\ n # p
           /\ node = [m \in Nodes |-> node[m]]
           /\ Firm(Peers(n), node[n]) /\ Firm(Peers(p), node[p])
           /\ NodeOK(Peers(n), node[n]) /\ NodeOK(Peers(p), node[p])
           /\ node[n].conn[p] \in Ends /\ node[p].conn[n] \in Ends
           /\ node[n].head \in Int
<1>1. p \in Nodes /\ n \in Peers(p) /\ n # p /\ NetOK(node, faults.torn)
      /\ node[n].conn[p] \in Ends /\ node[p].conn[n] \in Ends
      /\ NodeOK(Peers(n), node[n]) /\ NodeOK(Peers(p), node[p])
  BY EndsFacts
<1>2. node = [m \in Nodes |-> node[m]]
  BY <1>1 DEF NetOK
<1> QED BY <1>1, <1>2, NodeFields DEF AllFirm

(* A step of one node that is fine.                                        *)
LEMMA SetFine ==
    ASSUME NetInv, AllFirm(node), NEW n \in Nodes, NEW s, Fine(Peers(n), node[n], s),
           NEW count, Becomes(Set(n, s), count)
    PROVE  AllFine(node, node')
<1>1. node = [m \in Nodes |-> node[m]]
  BY DEF NetInv, NetOK
<1>2. AllFine(node, Set(n, s))
  BY <1>1, OneFine DEF Set
<1> QED BY <1>2, BecomesFine

(* A message is taken off the wire and its receiver changes.               *)
LEMMA ReceivedFine ==
    ASSUME NetInv, AllFirm(node), NEW n \in Nodes, NEW p \in Peers(n), NEW s,
           NEW w \in Seq(Messages), Fine(Peers(n), node[n], s), NEW count,
           Becomes([node EXCEPT ![p].conn[n].wire = w, ![n] = s], count)
    PROVE  AllFine(node, node')
<1> DEFINE d == [node[p].conn[n] EXCEPT !.wire = w]
           t == OnConn(node[p], n, d)
           z == [node EXCEPT ![p].conn[n].wire = w, ![n] = s]
<1>1. p \in Nodes /\ n \in Peers(p) /\ n # p /\ node = [m \in Nodes |-> node[m]]
      /\ Firm(Peers(p), node[p]) /\ NodeOK(Peers(p), node[p]) /\ node[p].conn[n] \in Ends
  BY FirmFacts
<1>2. Still(node[p].conn[n], d)
  BY <1>1, StillFields
<1>3. Fine(Peers(p), node[p], t)
  <2> HIDE DEF d
  <2> QED BY <1>1, <1>2, AsideConn, AsideFine
<1>4. z[n] = s /\ z[p] = t /\ \A m \in Nodes : m \notin {n, p} => z[m] = node[m]
  <2>1. t = [node[p] EXCEPT !.conn[n].wire = w]
    BY Zenon DEF OnConn
  <2> HIDE DEF t
  <2> QED BY <1>1, <2>1
<1> HIDE DEF z, t
<1>5. AllFine(node, z)
  <2>1. AllFirm(node) /\ Fine(Peers(n), node[n], s)
    OBVIOUS
  <2> QED BY <1>1, <1>3, <1>4, <2>1, FirmFine DEF AllFine, AllFirm
<1>6. Becomes(z, count)
  BY DEF z
<1> QED BY <1>5, <1>6, BecomesFine

(* Connect: neither end was open, so neither was the source of a wait.     *)
LEMMA ConnectFine ==
    ASSUME NetInv, AllFirm(node), NEW n \in Nodes, NEW p \in Peers(n), Connect(n, p)
    PROVE  AllFine(node, node')
<1> DEFINE c == node[n].conn[p]
           o == [c EXCEPT !.open = TRUE, !.connecting = TRUE]
           d == SendHandshake(o, node[n].head)
           e == [NewConnection EXCEPT !.listed = TRUE, !.open = TRUE, !.connecting = TRUE]
           s == OnConn(node[n], p, d)
           t == [OnConn(node[p], n, e) EXCEPT !.source = IF @ = n THEN Gone ELSE @]
           z == [node EXCEPT ![n].conn[p] = d, ![p].conn[n] = e,
                             ![p].source = IF @ = n THEN Gone ELSE @]
<1>1. p \in Nodes /\ n \in Peers(p) /\ n # p /\ node = [m \in Nodes |-> node[m]]
      /\ Firm(Peers(n), node[n]) /\ Firm(Peers(p), node[p]) /\ c \in Ends
      /\ node[n].head \in Int
  BY FirmFacts
<1>2. ~node[n].conn[p].open /\ ~node[p].conn[n].open /\ Becomes(z, faults)
  BY Zenon DEF Connect
<1>3. d \in Ends
  <2>1. o \in Ends
    <3> HIDE DEF c
    <3> QED BY <1>1 DEF Ends
  <2> HIDE DEF o
  <2> QED BY <1>1, <2>1, SendHandshakeTame DEF Tame
<1>4. e \in Ends
  BY NewEnds
<1> HIDE DEF d, e
<1>5. Fine(Peers(n), node[n], s) /\ Fine(Peers(p), node[p], t)
  BY <1>1, <1>2, <1>3, <1>4, ClosedEndFine
<1>6. z[n] = s /\ z[p] = t /\ \A m \in Nodes : m \notin {n, p} => z[m] = node[m]
  BY <1>1 DEF OnConn
<1> HIDE DEF z, s, t
<1>7. AllFine(node, z)
  BY <1>1, <1>5, <1>6, TwoFine
<1> QED BY <1>2, <1>7, BecomesFine

(* EraseClosed: the end was not open, so not the source of a wait.         *)
LEMMA EraseFine ==
    ASSUME NetInv, AllFirm(node), NEW n \in Nodes, NEW p \in Peers(n), EraseClosed(n, p)
    PROVE  AllFine(node, node')
<1> DEFINE c == node[n].conn[p]
           e == [NewConnection EXCEPT !.wire = c.wire]
           t == [OnConn(node[n], p, e) EXCEPT !.source = IF @ = p THEN Gone ELSE @]
<1>1. Firm(Peers(n), node[n]) /\ c \in Ends /\ node = [m \in Nodes |-> node[m]]
  BY FirmFacts
<1>2. /\ ~node[n].conn[p].open
      /\ node' = [node EXCEPT ![n].conn[p] = e, ![n].source = IF @ = p THEN Gone ELSE @]
  BY Zenon DEF EraseClosed
<1>3. e \in Ends
  BY <1>1, EndFields, NewEnds
<1> HIDE DEF e
<1>4. Fine(Peers(n), node[n], t)
  BY <1>1, <1>2, <1>3, ClosedEndFine
<1>5. node' = [node EXCEPT ![n] = t]
  BY <1>1, <1>2 DEF OnConn
<1> HIDE DEF t
<1> QED BY <1>1, <1>4, <1>5, OneFine

(* Receive.                                                                *)
LEMMA ReceiveFine ==
    ASSUME NetInv, AllFirm(node), NEW n \in Nodes, NEW p \in Peers(n), Receive(n, p)
    PROVE  AllFine(node, node')
<1> DEFINE wire == node[p].conn[n].wire
           s == Handled(node[n], p, Head(wire))
<1>1. wire # <<>> /\ Becomes([node EXCEPT ![p].conn[n].wire = Tail(wire), ![n] = s], faults)
  BY Zenon DEF Receive
<1>2. Head(wire) \in Messages /\ Tail(wire) \in Seq(Messages)
  BY <1>1, WireFacts
<1>3. Firm(Peers(n), node[n])
  BY FirmFacts
<1>4. Fine(Peers(n), node[n], s)
  BY <1>2, <1>3, HandledFine
<1> HIDE DEF s
<1> QED BY <1>1, <1>2, <1>4, ReceivedFine

(* ReceiveFuture.                                                          *)
LEMMA ReceiveFutureFine ==
    ASSUME NetInv, AllFirm(node), NEW n \in Nodes, NEW p \in Peers(n), ReceiveFuture(n, p)
    PROVE  AllFine(node, node')
<1> DEFINE wire == node[p].conn[n].wire
           s == RefuseBlock(node[n], p)
           count == [faults EXCEPT !.future = @ + 1]
<1>1. wire # <<>> /\ Becomes([node EXCEPT ![p].conn[n].wire = Tail(wire), ![n] = s], count)
  BY Zenon DEF ReceiveFuture
<1>2. Tail(wire) \in Seq(Messages)
  BY <1>1, WireFacts
<1>3. Fine(Peers(n), node[n], s)
  BY FirmFacts, RefuseBlockFine
<1> HIDE DEF s, count
<1> QED BY <1>1, <1>2, <1>3, ReceivedFine

(* WriteDone.                                                              *)
LEMMA WriteDoneFine ==
    ASSUME NetInv, AllFirm(node), NEW n \in Nodes, NEW p \in Peers(n), WriteDone(n, p)
    PROVE  AllFine(node, node')
<1> DEFINE s == node[n]
<1>1. Firm(Peers(n), s) /\ NodeOK(Peers(n), s) /\ s.conn[p] \in Ends /\ s.head \in Int
  BY FirmFacts
<1>2. CASE s.conn[p].open
  <2> DEFINE t == OnConn(s, p, Written(s.conn[p], s.head))
  <2>1. Becomes(Set(n, t), faults)
    BY <1>2, Zenon DEF WriteDone
  <2>2. Still(s.conn[p], Written(s.conn[p], s.head))
    BY <1>1, WrittenStill
  <2>3. Fine(Peers(n), s, t)
    BY <1>1, <2>2, AsideConn, AsideFine
  <2> HIDE DEF t
  <2> QED BY <2>1, <2>3, SetFine
<1>3. CASE ~s.conn[p].open
  <2> DEFINE d == [s.conn[p] EXCEPT !.writing = FALSE]
             u == OnConn(s, p, d)
             t == Close(u, p)
  <2>1. Becomes(Set(n, t), faults)
    BY <1>3, Zenon DEF WriteDone
  <2>2. d \in Ends
    <3> DEFINE c == s.conn[p]
    <3> HIDE DEF c
    <3>1. c \in Ends
      BY <1>1 DEF c
    <3>2. [c EXCEPT !.writing = FALSE] \in Ends
      BY <3>1 DEF Ends
    <3> QED BY <3>2 DEF c
  <2> HIDE DEF d
  <2>3. Fine(Peers(n), s, u)
    BY <1>1, <1>3, <2>2, ClosedEndFine
  <2>4. Firm(Peers(n), u)
    BY <2>3 DEF Fine
  <2>5. s.state = "lib_catchup" /\ TimedAt(Peers(n), s)
        => u.state = "lib_catchup" /\ TimedAt(Peers(n), u)
    <3>1. s.state = "lib_catchup" => s.source # p
      BY <1>1, <1>3 DEF Firm, SourceOK
    <3>2. u.source = s.source /\ u.state = s.state
          /\ \A q \in Peers(n) : q # p => u.conn[q] = s.conn[q]
      BY <1>1, OnConnFields
    <3> HIDE DEF u
    <3> QED BY <3>1, <3>2 DEF TimedAt
  <2> HIDE DEF u
  <2>6. Fine(Peers(n), u, t)
    BY <2>4, CloseFine
  <2>7. Fine(Peers(n), s, t)
    BY <2>5, <2>6 DEF Fine
  <2> HIDE DEF t
  <2> QED BY <2>1, <2>7, SetFine
<1> QED BY <1>2, <1>3

(* SyncTimeout.                                                            *)
LEMMA TimeoutFine ==
    ASSUME NetInv, AllFirm(node), NEW n \in Nodes, NEW p \in Peers(n), SyncTimeout(n, p)
    PROVE  AllFine(node, node')
<1> DEFINE s == node[n]
           c == [s.conn[p] EXCEPT !.fired = FALSE]
           u == OnConn(s, p, c)
           t == ReassignFetch(u, p)
           P == Peers(n)
<1>1. Firm(P, s) /\ NodeOK(P, s) /\ s.conn[p] \in Ends
  BY FirmFacts
<1>2. c \in Ends /\ c.open = s.conn[p].open
  <2> DEFINE b == s.conn[p]
  <2> HIDE DEF b
  <2>1. b \in Ends
    BY <1>1 DEF b
  <2>2. LET d == [b EXCEPT !.fired = FALSE] IN d \in Ends /\ d.open = b.open
    BY <2>1 DEF Ends
  <2> QED BY <2>2 DEF b
<1>3. Becomes(Set(n, t), faults)
  BY Zenon DEF SyncTimeout, OnConn
<1> HIDE DEF c
<1>4. NodeOK(P, u)
  BY <1>1, <1>2, ReplacedNode
<1>5. /\ u.source = s.source /\ u.state = s.state /\ u.next = s.next
      /\ u.conn[p] = c /\ \A q \in P : q # p => u.conn[q] = s.conn[q]
  BY <1>1, OnConnFields
<1> HIDE DEF u
<1>6. Firm(P, u)
  BY <1>1, <1>2, <1>4, <1>5 DEF Firm, SourceOK
<1>7. s.source # p /\ TimedAt(P, s) => TimedAt(P, u)
  BY <1>5 DEF TimedAt
<1>8. /\ Firm(P, t)
      /\ u.source = p /\ Owed(t) => TimedAt(P, t)
      /\ u.source # p => t = u
  BY <1>6, ReassignFetchFirm
<1> HIDE DEF t
<1>9. Fine(P, s, t)
  BY <1>5, <1>7, <1>8 DEF Fine
<1> QED BY <1>3, <1>9, SetFine

(* A timer runs out.                                                       *)
LEMMA ExpiredFine ==
    ASSUME NetInv, AllFirm(node), NEW n \in Nodes, NEW p \in Peers(n), Expire(n, p)
    PROVE  AllFine(node, node')
<1> DEFINE d == [node[n].conn[p] EXCEPT !.armed = FALSE, !.fired = TRUE]
           t == OnConn(node[n], p, d)
<1>1. Firm(Peers(n), node[n]) /\ NodeOK(Peers(n), node[n]) /\ node = [m \in Nodes |-> node[m]]
  BY FirmFacts
<1>2. Fine(Peers(n), node[n], t)
  BY <1>1, ExpireFine
<1>3. node' = [node EXCEPT ![n] = t]
  <2>1. node' = [node EXCEPT ![n].conn[p].armed = FALSE, ![n].conn[p].fired = TRUE]
    BY DEF Expire
  <2>2. node[n].conn \in [Peers(n) -> Ends]
    BY <1>1, NodeFields
  <2> QED BY <1>1, <2>1, <2>2 DEF OnConn, NodeOK, NodeShape
<1> HIDE DEF t
<1> QED BY <1>1, <1>2, <1>3, OneFine

(* Drop.                                                                   *)
LEMMA DropFine ==
    ASSUME NetInv, AllFirm(node), NEW n \in Nodes, NEW p \in Peers(n), Drop(n, p)
    PROVE  AllFine(node, node')
<1> DEFINE w == <<Eof>>
           c == [node[n].conn[p] EXCEPT !.wire = w]
           d == [node[p].conn[n] EXCEPT !.wire = w]
           s == OnConn(node[n], p, c)
           t == OnConn(node[p], n, d)
<1>1. p \in Nodes /\ n \in Peers(p) /\ n # p /\ node = [m \in Nodes |-> node[m]]
      /\ Firm(Peers(n), node[n]) /\ Firm(Peers(p), node[p])
      /\ NodeOK(Peers(n), node[n]) /\ NodeOK(Peers(p), node[p])
      /\ node[n].conn[p] \in Ends /\ node[p].conn[n] \in Ends
  BY FirmFacts
<1>2. w \in Seq(Messages)
  BY MessageTypes
<1>3. node' = [node EXCEPT ![n].conn[p].wire = w, ![p].conn[n].wire = w]
  BY Zenon DEF Drop
<1> HIDE DEF w
<1>4. Still(node[n].conn[p], c) /\ Still(node[p].conn[n], d)
  BY <1>1, <1>2, StillFields
<1>5. s = [node[n] EXCEPT !.conn[p].wire = w] /\ t = [node[p] EXCEPT !.conn[n].wire = w]
  BY Zenon DEF OnConn
<1> HIDE DEF c, d
<1>6. Fine(Peers(n), node[n], s) /\ Fine(Peers(p), node[p], t)
  BY <1>1, <1>4, AsideConn, AsideFine
<1> HIDE DEF s, t
<1>7. node'[n] = s /\ node'[p] = t /\ \A m \in Nodes : m \notin {n, p} => node'[m] = node[m]
  BY <1>1, <1>3, <1>5
<1> QED BY <1>1, <1>6, <1>7, TwoFine

(* Produce.                                                                *)
LEMMA ProduceFine ==
    ASSUME NetInv, AllFirm(node), NEW n \in Nodes, Produce(n)
    PROVE  AllFine(node, node')
<1> DEFINE num == node[n].head + 1
           s == [node[n] EXCEPT !.head = num]
           t == BcastBlock(s, num)
<1>1. node' = [node EXCEPT ![n] = t]
  BY Zenon DEF Produce, Set
<1>2. Firm(Peers(n), node[n]) /\ NodeOK(Peers(n), node[n]) /\ node = [m \in Nodes |-> node[m]]
  BY DEF AllFirm, NetInv, NetOK, Firm
<1>3. num \in Nat /\ num \in Int /\ num >= node[n].head
  BY <1>2, NodeFields
<1> HIDE DEF num
<1>4. Aside(Peers(n), node[n], s)
  BY <1>2, <1>3, AsideHead
<1>5. NodeOK(Peers(n), s)
  BY <1>4, AsideOK
<1> HIDE DEF s
<1>6. Aside(Peers(n), s, t)
  BY <1>3, <1>5, BcastBlockAside
<1> HIDE DEF t
<1>7. Fine(Peers(n), node[n], t)
  BY <1>2, <1>4, <1>6, AsideFine, FineAside
<1> QED BY <1>1, <1>2, <1>7, OneFine

(* Every step is fine for every wait.                                      *)
LEMMA NextFine ==
    ASSUME NetInv, AllFirm(node), [Next]_vars
    PROVE  AllFine(node, node')
<1>1. ASSUME NEW n \in Nodes, NEW p \in Peers(n), ExpireLate(n, p) \/ ExpireEarly(n, p)
      PROVE  AllFine(node, node')
  <2>1. Expire(n, p)
    BY <1>1 DEF ExpireLate, ExpireEarly
  <2> QED BY <2>1, ExpiredFine
<1>2. CASE Work
  <2>0. PICK n \in Nodes : \E p \in Peers(n) :
          \/ Connect(n, p) \/ EraseClosed(n, p) \/ Receive(n, p)
          \/ WriteDone(n, p) \/ ExpireLate(n, p) \/ SyncTimeout(n, p)
    BY <1>2, Zenon DEF Work
  <2>1. PICK p \in Peers(n) :
          \/ Connect(n, p) \/ EraseClosed(n, p) \/ Receive(n, p)
          \/ WriteDone(n, p) \/ ExpireLate(n, p) \/ SyncTimeout(n, p)
    BY <2>0
  <2> QED BY <2>1, <1>1, ConnectFine, EraseFine, ReceiveFine, WriteDoneFine, TimeoutFine
<1>3. ASSUME NEW n \in Nodes, NEW p \in Peers(n),
             Drop(n, p) \/ ReceiveFuture(n, p) \/ ExpireEarly(n, p)
      PROVE  AllFine(node, node')
  BY <1>1, <1>3, DropFine, ReceiveFutureFine
<1>4. CASE UNCHANGED vars
  <2>1. node' = node
    BY <1>4 DEF vars
  <2> QED BY <2>1, FirmFine DEF AllFine, AllFirm
<1> QED BY <1>2, <1>3, <1>4, ProduceFine DEF Next

(* The invariant: the connections and the counted blocks, and the waits.   *)
WaitInv == NetInv /\ AllFirm(node)

(* The inductive invariant of the waits: the source of every node that     *)
(* waits is open, and the next number expected is at least 1.              *)
THEOREM WaitInvariant == Spec => []WaitInv
<1>1. Init => WaitInv
  <2> SUFFICES ASSUME Init PROVE WaitInv
    OBVIOUS
  <2>1. NetInv
    BY InitInv
  <2>2. ASSUME NEW n \in Nodes PROVE Firm(Peers(n), node[n])
    <3>1. NodeOK(Peers(n), node[n])
      BY <2>1 DEF NetInv, NetOK
    <3>2. node[n].state = "in_sync" /\ node[n].next = 1
      BY DEF Init
    <3> QED BY <3>1, <3>2 DEF Firm, SourceOK
  <2> QED BY <2>1, <2>2 DEF WaitInv, AllFirm
<1>2. WaitInv /\ [Next]_vars => WaitInv'
  <2> SUFFICES ASSUME NetInv, AllFirm(node), [Next]_vars PROVE NetInv' /\ AllFirm(node')
    BY DEF WaitInv, AllFirm
  <2>1. AllFine(node, node')
    BY NextFine
  <2> QED BY <2>1, StepInv DEF AllFine, AllFirm, Fine
<1> QED BY <1>1, <1>2, PTL DEF Spec

(* A node that waits for irreversible blocks waits for a connection that   *)
(* is open: the pointer source that close, connection_monitor and          *)
(* rejected_block change or leave behind is never stale.                   *)
THEOREM SourceStaysOpen == Spec => []SourceOpen
<1>1. WaitInv => SourceOpen
  BY DEF WaitInv, AllFirm, Firm, SourceOK, SourceOpen
<1> QED BY <1>1, WaitInvariant, PTL

(* No step of any node loses the timer of a wait for blocks that were not  *)
(* all requested, for any number of peers and any order of blocks,         *)
(* notices, timeouts and closed connections.                               *)
THEOREM TimerStays == Spec => TimerKept
<1>1. WaitInv /\ [Next]_vars =>
        [\A n \in Nodes :
          /\ node[n].state = "lib_catchup" /\ Timed(n)
          /\ node'[n].state = "lib_catchup"
          /\ node'[n].head < node'[n].known /\ node'[n].last < node'[n].known
          => Timed(n)']_vars
  <2> SUFFICES ASSUME WaitInv, [Next]_vars, NEW n \in Nodes,
                      node[n].state = "lib_catchup", Timed(n), node'[n].state = "lib_catchup",
                      node'[n].head < node'[n].known, node'[n].last < node'[n].known
               PROVE  Timed(n)'
    OBVIOUS
  <2>1. AllFine(node, node')
    BY NextFine DEF WaitInv
  <2>2. Fine(Peers(n), node[n], node'[n])
    BY <2>1 DEF AllFine
  <2>3. TimedAt(Peers(n), node[n]) /\ Owed(node'[n])
    BY DEF Timed, TimedAt, Owed
  <2>4. TimedAt(Peers(n), node'[n])
    BY <2>2, <2>3 DEF Fine
  <2> QED BY <2>4 DEF Timed, TimedAt
<1> QED BY <1>1, WaitInvariant, PTL DEF Spec, TimerKept
=============================================================================
