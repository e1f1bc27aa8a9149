----------------------------- MODULE MsgManager -----------------------------
(***************************************************************************)
(* ext/lib/actions/framework/msg_manager.c: the queue between every thread *)
(* and callback of an application and its main loop.                       *)
(*                                                                         *)
(* A message travels in a net_buf of one of two pools: the async pool for  *)
(* senders that may not wait (K_NO_WAIT), the sync pool for senders that   *)
(* wait K_MSEC(100).  The net_buf and k_fifo primitives are external; each *)
(* of them is atomic here, and between two of them any other thread runs.  *)
(***************************************************************************)
EXTENDS Naturals, Sequences, FiniteSets

CONSTANTS Senders,     \* the threads and callbacks that call send_msg
          Main,        \* the thread of the main loop, which sends as well
          Msg,         \* contents of a struct app_msg
          AsyncPool,   \* msg_buffer_pool_async: its net_bufs (8 in the code)
          SyncPool     \* msg_buffer_pool_sync: its net_bufs (8 in the code)

ASSUME MainAssumption == Main \in Senders
ASSUME PoolAssumption ==
    /\ IsFiniteSet(AsyncPool) /\ IsFiniteSet(SyncPool)
    /\ AsyncPool \cap SyncPool = {}
    /\ 0 \notin AsyncPool \cup SyncPool
ASSUME MsgAssumption == 0 \notin Msg

VARIABLES
    free,     \* the net_bufs on the free lists of the pools
    data,     \* data[b]: the message stored in net_buf b (0: never used)
    fifo,     \* msg_queue: the net_bufs that were put and not yet got
    pc,       \* pc[s]: where s is in send_msg
    arg,      \* arg[s]: the message and the pool of the call of s
    sbuf,     \* sbuf[s]: the net_buf s holds at "copy" and "put"
    ret,      \* ret[s]: what the last send_msg of s returned
    rpc,      \* where the main loop is in receive_msg
    rbuf,     \* the net_buf it holds at "copy" and "unref"
    rmsg      \* the caller's struct app_msg

vars == <<free, data, fifo, pc, arg, sbuf, ret, rpc, rbuf, rmsg>>

Buf == AsyncPool \cup SyncPool

\* The pool msg_buf_get picks: by whether the caller may wait.
PoolOf(wait) == IF wait THEN SyncPool ELSE AsyncPool

\* No call of send_msg is under way.
NoArg == [msg |-> 0, wait |-> FALSE]

TypeOK ==
    /\ free \in SUBSET Buf
    /\ data \in [Buf -> Msg \cup {0}]
    /\ fifo \in Seq(Buf)
    /\ pc \in [Senders -> {"idle", "waiting", "copy", "put"}]
    /\ arg \in [Senders -> [msg : Msg \cup {0}, wait : BOOLEAN]]
    /\ sbuf \in [Senders -> Buf \cup {0}]
    /\ ret \in [Senders -> BOOLEAN]
    /\ rpc \in {"idle", "copy", "unref"}
    /\ rbuf \in Buf \cup {0}
    /\ rmsg \in Msg \cup {0}

Init ==
    /\ free = Buf
    /\ data = [b \in Buf |-> 0]
    /\ fifo = <<>>
    /\ pc = [s \in Senders |-> "idle"]
    /\ arg = [s \in Senders |-> NoArg]
    /\ sbuf = [s \in Senders |-> 0]
    /\ ret = [s \in Senders |-> TRUE]
    /\ rpc = "idle"
    /\ rbuf = 0
    /\ rmsg = 0

(***************************************************************************)
(* send_msg                                                                *)
(***************************************************************************)
\* The main loop is one thread: it sends between two calls of receive_msg.
MaySend(s) == pc[s] = "idle" /\ (s = Main => rpc = "idle")

\* net_buf_alloc found a free net_buf.
AllocNow(s, m, wait) ==
    /\ MaySend(s)
    /\ \E b \in free \cap PoolOf(wait) :
          /\ free' = free \ {b}
          /\ sbuf' = [sbuf EXCEPT ![s] = b]
    /\ pc' = [pc EXCEPT ![s] = "copy"]
    /\ arg' = [arg EXCEPT ![s] = [msg |-> m, wait |-> wait]]
    /\ UNCHANGED <<data, fifo, ret, rpc, rbuf, rmsg>>

\* The pool is empty and the caller may wait: it pends on the pool.
AllocWait(s, m) ==
    /\ MaySend(s)
    /\ free \cap PoolOf(TRUE) = {}
    /\ pc' = [pc EXCEPT ![s] = "waiting"]
    /\ arg' = [arg EXCEPT ![s] = [msg |-> m, wait |-> TRUE]]
    /\ UNCHANGED <<free, data, fifo, sbuf, ret, rpc, rbuf, rmsg>>

\* The pool is empty and the caller may not wait: send_msg returns false.
AllocFail(s) ==
    /\ MaySend(s)
    /\ free \cap PoolOf(FALSE) = {}
    /\ ret' = [ret EXCEPT ![s] = FALSE]
    /\ UNCHANGED <<free, data, fifo, pc, arg, sbuf, rpc, rbuf, rmsg>>

\* The wait is bounded by K_MSEC(100) (mutant: by K_FOREVER).
NeverExpires(s) == FALSE
Expires(s) == pc[s] = "waiting"

\* K_MSEC(100) passed without a net_buf: send_msg returns false.
Timeout(s) ==
    /\ Expires(s)
    /\ pc' = [pc EXCEPT ![s] = "idle"]
    /\ arg' = [arg EXCEPT ![s] = NoArg]
    /\ ret' = [ret EXCEPT ![s] = FALSE]
    /\ UNCHANGED <<free, data, fifo, sbuf, rpc, rbuf, rmsg>>

\* memcpy into the net_buf.
CopyIn(s) ==
    /\ pc[s] = "copy"
    /\ data' = [data EXCEPT ![sbuf[s]] = arg[s].msg]
    /\ pc' = [pc EXCEPT ![s] = "put"]
    /\ UNCHANGED <<free, fifo, arg, sbuf, ret, rpc, rbuf, rmsg>>

\* net_buf_put appends to msg_queue (mutant: it goes to the front).
EnqueueFront(b) == <<b>> \o fifo
Enqueue(b) == Append(fifo, b)

\* net_buf_put, then send_msg returns true.
Put(s) ==
    /\ pc[s] = "put"
    /\ fifo' = Enqueue(sbuf[s])
    /\ pc' = [pc EXCEPT ![s] = "idle"]
    /\ arg' = [arg EXCEPT ![s] = NoArg]
    /\ sbuf' = [sbuf EXCEPT ![s] = 0]
    /\ ret' = [ret EXCEPT ![s] = TRUE]
    /\ UNCHANGED <<free, data, rpc, rbuf, rmsg>>

(***************************************************************************)
(* receive_msg                                                             *)
(***************************************************************************)
\* Only the main loop receives (mutant: some other thread does).
AnyoneReceives == rpc = "idle"
MayReceive == rpc = "idle" /\ pc[Main] = "idle"

\* net_buf_get(&msg_queue, K_FOREVER) returns the oldest net_buf.
Get ==
    /\ MayReceive
    /\ fifo # <<>>
    /\ rbuf' = Head(fifo)
    /\ fifo' = Tail(fifo)
    /\ rpc' = "copy"
    /\ UNCHANGED <<free, data, pc, arg, sbuf, ret, rmsg>>

\* memcpy out of the net_buf.
CopyOut ==
    /\ rpc = "copy"
    /\ rmsg' = data[rbuf]
    /\ rpc' = "unref"
    /\ UNCHANGED <<free, data, fifo, pc, arg, sbuf, ret, rbuf>>

\* The senders that pend on the pool of b.
Waiters(b) == {s \in Senders : pc[s] = "waiting" /\ b \in PoolOf(arg[s].wait)}

\* The free lists once b is returned: a thread that pends on the pool gets b
\* at once (mutant: b is listed as free as well).
ReturnAlways(b) == free \cup {b}
Return(b) == IF Waiters(b) = {} THEN free \cup {b} ELSE free

\* net_buf_unref drops the last reference.
Unref ==
    /\ rpc = "unref"
    /\ free' = Return(rbuf)
    /\ \/ /\ Waiters(rbuf) = {}
          /\ UNCHANGED <<pc, sbuf>>
       \/ \E s \in Waiters(rbuf) :
             /\ pc' = [pc EXCEPT ![s] = "copy"]
             /\ sbuf' = [sbuf EXCEPT ![s] = rbuf]
    /\ rbuf' = 0
    /\ rpc' = "idle"
    /\ UNCHANGED <<data, fifo, arg, ret, rmsg>>

SendStep(s) == Timeout(s) \/ CopyIn(s) \/ Put(s)

ReceiveStep == Get \/ CopyOut \/ Unref

Next ==
    \/ \E s \in Senders, m \in Msg, wait \in BOOLEAN : AllocNow(s, m, wait)
    \/ \E s \in Senders, m \in Msg : AllocWait(s, m)
    \/ \E s \in Senders : AllocFail(s)
    \/ \E s \in Senders : SendStep(s)
    \/ ReceiveStep

\* Every thread is scheduled, a wait ends after 100 ms at the latest, and
\* a handler of the main loop sends finitely many messages before the loop
\* comes back to receive_msg (hence strong fairness of Get).
Fairness == SF_vars(Get) /\ WF_vars(ReceiveStep) /\ \A s \in Senders : WF_vars(SendStep(s))

Safe == Init /\ [][Next]_vars
Spec == Safe /\ Fairness

(***************************************************************************)
(* Properties                                                              *)
(***************************************************************************)
\* s holds a net_buf between alloc and put; b is in msg_queue.
Holds(s) == pc[s] \in {"copy", "put"}
Queued(b) == \E i \in 1..Len(fifo) : fifo[i] = b

FifoOwns ==
    /\ \A i, j \in 1..Len(fifo) : fifo[i] = fifo[j] => i = j
    /\ \A i \in 1..Len(fifo) : fifo[i] \notin free

SendersOwn ==
    \A s \in Senders : Holds(s) =>
        /\ sbuf[s] \in Buf
        /\ sbuf[s] \notin free
        /\ \A i \in 1..Len(fifo) : fifo[i] # sbuf[s]
        /\ \A t \in Senders : Holds(t) /\ sbuf[t] = sbuf[s] => t = s

MainOwns ==
    /\ rbuf = 0 <=> rpc = "idle"
    /\ rbuf \notin free
    /\ \A i \in 1..Len(fifo) : fifo[i] # rbuf
    /\ \A s \in Senders : Holds(s) => sbuf[s] # rbuf

NoLeak ==
    \A b \in Buf : \/ b \in free
                   \/ Queued(b)
                   \/ rbuf = b
                   \/ \E s \in Senders : Holds(s) /\ sbuf[s] = b

\* Every net_buf is in exactly one place: on a free list, with one sender
\* between alloc and put, in msg_queue once, or with the main loop between
\* get and unref.  None leaks and none has two owners.
OneOwner == FifoOwns /\ SendersOwn /\ MainOwns /\ NoLeak

\* A sender that pends on the sync pool pends on an empty pool: no net_buf
\* is free while someone waits for one.
NoFreeBufWhileWaiting ==
    \A s \in Senders : pc[s] = "waiting" => free \cap SyncPool = {}

\* The main loop is the only one that returns net_bufs, so when it waits in
\* send_msg itself nothing can ever end the wait but its timeout: the 100 ms
\* are lost and so is the message.
MainWaitIsFutile ==
    [][pc[Main] = "waiting" => pc'[Main] \in {"waiting", "idle"}]_vars

\* A caller of send_msg is never blocked for good.
SendReturns == \A s \in Senders : pc[s] # "idle" ~> pc[s] = "idle"

(***************************************************************************)
(* MsgManager implements the bounded first-in first-out queue of MsgQueue. *)
(* A message is received when net_buf_get takes its net_buf: the caller's  *)
(* copy is what the net_buf holds until the memcpy.                        *)
(***************************************************************************)
Contents == [i \in 1..Len(fifo) |-> data[fifo[i]]]
Received == IF rpc = "copy" THEN data[rbuf] ELSE rmsg

Q == INSTANCE MsgQueue WITH queue <- Contents, last <- Received,
                            Capacity <- Cardinality(Buf)

\* Accepted messages reach the main loop once, unchanged and in order, and
\* the main loop never stops receiving while messages are queued.
ImplementsMsgQueue == Q!QSpec
=============================================================================
