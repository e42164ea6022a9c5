--------------------------- MODULE NetConnection ---------------------------
(***************************************************************************)
(* One end of a connection between two nodes (net_plugin.cpp, classes      *)
(* connection and queued_buffer): what is waiting to be written, what the  *)
(* write in progress holds, and what the peer asked for.  Operators on a   *)
(* record c, one per method.  The chain has no forks here, so a block's id *)
(* is its number and 0 is the empty id.                                    *)
(***************************************************************************)
EXTENDS Integers, Sequences

CONSTANTS Lag,        \* a block is irreversible when it has that many above it
          MaxBlock    \* bound: highest block number

ASSUME NetConnectionAssumption == Lag \in Nat /\ MaxBlock \in Nat \ {0}

(* last_irreversible_block_num of a node with that head.                   *)
Lib(head) == IF head > Lag THEN head - Lag ELSE 0

Lower(a, b) == IF a < b THEN a ELSE b

Higher(a, b) == IF a < b THEN b ELSE a

(* The messages, with the fields that some handler reads.  first: whether  *)
(* generation is 1.  A notice is named for known_blocks.mode.              *)
Handshake(first, head) ==
    [type |-> "handshake", first |-> first, head |-> head, lib |-> Lib(head)]
Notice(mode, num) == [type |-> "notice", mode |-> mode, num |-> num]
Request(mode) == [type |-> "request", mode |-> mode]
SyncRequest(start, end) == [type |-> "sync_request", start |-> start, end |-> end]
Block(num) == [type |-> "block", num |-> num]
Eof == [type |-> "eof"]

(* peer_requested without a value.                                         *)
NoRequest == [start |-> 0, end |-> 0, last |-> 0]

(* The members of class connection:                                        *)
(*   listed      it is in net_plugin_impl::connections                     *)
(*   open        the socket is                                             *)
(*   connecting, syncing, forkHead (fork_head and fork_head_num)           *)
(*   greeted     sent_handshake_count > 0                                  *)
(*   lib, libId  last_handshake_recv.last_irreversible_block_num and _id   *)
(*   got         the entries of dispatch_manager::received_blocks for it   *)
(*   req         peer_requested                                            *)
(*   armed       response_expected runs                                    *)
(*   fired       it ran out and the posted sync_timeout was not yet called *)
(*   wq, sq      _write_queue and _sync_write_queue                        *)
(*   out         _out_queue is not empty                                   *)
(*   writing     an async_write is in progress                             *)
(*   wire        sent and not yet read by the peer                         *)
NewConnection ==
    [listed |-> FALSE, open |-> FALSE, connecting |-> FALSE, syncing |-> FALSE,
     forkHead |-> 0, greeted |-> FALSE, lib |-> 0, libId |-> 0, got |-> {},
     req |-> NoRequest, armed |-> FALSE, fired |-> FALSE,
     wq |-> <<>>, sq |-> <<>>, out |-> FALSE, writing |-> FALSE, wire |-> <<>>]

Current(c) == c.open /\ ~c.connecting /\ ~c.syncing

(* do_queue_write on an open socket: everything in the sync queue, or, if  *)
(* that is empty, everything in the other one.                             *)
DoQueueWrite(c) ==
    IF c.out \/ (c.sq = <<>> /\ c.wq = <<>>) THEN c
    ELSE IF c.sq # <<>>
    THEN [c EXCEPT !.wire = @ \o c.sq, !.sq = <<>>, !.out = TRUE, !.writing = TRUE]
    ELSE [c EXCEPT !.wire = @ \o c.wq, !.wq = <<>>, !.out = TRUE, !.writing = TRUE]

Enqueue(c, m) == DoQueueWrite([c EXCEPT !.wq = Append(@, m)])

FlushQueues(c) == [c EXCEPT !.wq = <<>>, !.sq = <<>>]

SendHandshake(c, head) == Enqueue([c EXCEPT !.greeted = TRUE], Handshake(~c.greeted, head))

(* The next block that the peer asked for; nothing is written when there   *)
(* is none with that number.  Only the first one starts a write by itself. *)
EnqueueSyncBlock(c, head) ==
    LET num == Lower(c.req.last + 1, MaxBlock + 1)
        next == [c EXCEPT !.req = IF num = c.req.end THEN NoRequest
                                  ELSE [@ EXCEPT !.last = num]]
        queued == [next EXCEPT !.sq = Append(@, Block(num))]
    IN IF c.req = NoRequest THEN c
       ELSE IF num > head THEN next
       ELSE IF num = c.req.start THEN DoQueueWrite(queued) ELSE queued

(* Mutant: the branch starts above the peer's head instead of above its    *)
(* irreversible block and a request in progress is forgotten.              *)
BlkSendBranchTail(c, head) ==
    EnqueueSyncBlock([c EXCEPT !.req = [start |-> head, end |-> head, last |-> head - 1],
                               !.syncing = FALSE], head)

(* The branch from the peer's irreversible block to our head.              *)
BlkSendBranch(c, head) ==
    LET first == c.libId + 1
        start == IF c.req = NoRequest THEN first ELSE Lower(c.req.last + 1, first)
        end   == IF c.req = NoRequest THEN head ELSE Higher(c.req.end, head)
    IN [EnqueueSyncBlock([c EXCEPT !.req = [start |-> start, end |-> end, last |-> start - 1]],
                         head)
        EXCEPT !.syncing = FALSE]

(* handle_message of a request_message.                                    *)
HandleRequest(c, m, head) ==
    IF m.mode = "catch_up" THEN BlkSendBranch(c, head) ELSE [c EXCEPT !.syncing = FALSE]

(* handle_message of a sync_request_message.                               *)
HandleSyncRequest(c, m, head) ==
    IF m.end = 0 THEN FlushQueues([c EXCEPT !.req = NoRequest])
    ELSE EnqueueSyncBlock([c EXCEPT !.req = [start |-> m.start, end |-> m.end,
                                             last |-> m.start - 1]], head)

(* Mutant: the buffers that were written are not cleared.                  *)
WrittenKept(c, head) == DoQueueWrite(EnqueueSyncBlock([c EXCEPT !.writing = FALSE], head))

(* The callback of an async_write that succeeded.                          *)
Written(c, head) ==
    DoQueueWrite(EnqueueSyncBlock([c EXCEPT !.out = FALSE, !.writing = FALSE], head))

(* connection::close without its call of reset_lib_num.                    *)
Closed(c) ==
    [FlushQueues(c) EXCEPT !.open = FALSE, !.connecting = FALSE, !.syncing = FALSE,
                           !.req = NoRequest, !.greeted = FALSE, !.lib = 0, !.libId = 0,
                           !.armed = FALSE,
                           !.wire = IF c.open THEN Append(@, Eof) ELSE @]
=============================================================================
