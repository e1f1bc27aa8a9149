-------------------------- MODULE MsgManagerProofs --------------------------
(***************************************************************************)
(* MsgManager implements MsgQueue, for every number of senders, messages   *)
(* and net_bufs.                                                           *)
(***************************************************************************)
EXTENDS MsgManager, TLAPS, SequenceTheorems, FiniteSetTheorems

(***************************************************************************)
(* The inductive invariant.  Beside one owner per net_buf it says what the *)
(* net_bufs on their way hold (a message, so that queueing one is an       *)
(* Accept of the queue), that only calls that may wait wait, and that the  *)
(* main loop never sends and receives at once.                             *)
(***************************************************************************)
Filled ==
    /\ \A s \in Senders : pc[s] # "idle" => arg[s].msg \in Msg
    /\ \A s \in Senders : pc[s] = "put" => data[sbuf[s]] \in Msg
    /\ \A s \in Senders : pc[s] = "waiting" => arg[s].wait = TRUE

MainSequential == rpc # "idle" => pc[Main] = "idle"

IInv == TypeOK /\ OneOwner /\ Filled /\ NoFreeBufWhileWaiting /\ MainSequential

LEMMA InvInit == Init => IInv
  <1> SUFFICES ASSUME Init PROVE IInv
    OBVIOUS
  <1>1. TypeOK
    BY DEF Init, TypeOK, NoArg, Buf
  <1>2. OneOwner
    BY PoolAssumption
       DEF Init, OneOwner, FifoOwns, SendersOwn, MainOwns, NoLeak, Holds, Buf
  <1>3. Filled /\ NoFreeBufWhileWaiting /\ MainSequential
    BY DEF Init, Filled, NoFreeBufWhileWaiting, MainSequential
  <1> QED
    BY <1>1, <1>2, <1>3 DEF IInv

(***************************************************************************)
(* Every step keeps the invariant: one step per action, and under it one   *)
(* per conjunct.                                                           *)
(***************************************************************************)
LEMMA InvStep == IInv /\ [Next]_vars => IInv'
  <1> SUFFICES ASSUME IInv, [Next]_vars PROVE IInv'
    OBVIOUS
  <1> USE MainAssumption, PoolAssumption DEF IInv, OneOwner
  <1>1. ASSUME NEW s \in Senders, NEW m \in Msg, NEW wait \in BOOLEAN,
               AllocNow(s, m, wait)
        PROVE  IInv'
    <2>1. TypeOK'
      BY <1>1
         DEF AllocNow, PoolOf, TypeOK, SendersOwn, MainOwns, Holds,
             Buf
    <2>2. FifoOwns'
      BY <1>1
         DEF AllocNow, PoolOf, FifoOwns, SendersOwn, MainOwns, Holds,
             Buf, TypeOK
    <2>3. SendersOwn'
      BY <1>1
         DEF AllocNow, PoolOf, SendersOwn, FifoOwns, MainOwns, Holds,
             Buf, TypeOK
    <2>4. MainOwns'
      BY <1>1
         DEF AllocNow, PoolOf, MainOwns, FifoOwns, SendersOwn, Holds,
             Buf, TypeOK
    <2>5. NoLeak'
      BY <1>1
         DEF AllocNow, PoolOf, MaySend, NoLeak, Queued, Holds,
             MainOwns, TypeOK
    <2>6. Filled'
      BY <1>1
         DEF AllocNow, PoolOf, Filled, SendersOwn, Holds, TypeOK
    <2>7. NoFreeBufWhileWaiting'
      BY <1>1
         DEF AllocNow, PoolOf, NoFreeBufWhileWaiting, TypeOK, Filled,
             Buf
    <2>8. MainSequential'
      BY <1>1
         DEF AllocNow, PoolOf, MaySend, MainSequential, TypeOK
    <2> QED
      BY <2>1, <2>2, <2>3, <2>4, <2>5, <2>6, <2>7, <2>8
  <1>2. ASSUME NEW s \in Senders, NEW m \in Msg, AllocWait(s, m)
        PROVE  IInv'
    <2>1. TypeOK'
      BY <1>2
         DEF AllocWait, TypeOK, SendersOwn, MainOwns, Holds, Buf
    <2>2. FifoOwns'
      BY <1>2
         DEF AllocWait, FifoOwns, SendersOwn, MainOwns, Holds, Buf,
             TypeOK
    <2>3. SendersOwn'
      BY <1>2
         DEF AllocWait, SendersOwn, FifoOwns, MainOwns, Holds, Buf,
             TypeOK
    <2>4. MainOwns'
      BY <1>2
         DEF AllocWait, MainOwns, FifoOwns, SendersOwn, Holds, Buf,
             TypeOK
    <2>5. NoLeak'
      BY <1>2
         DEF AllocWait, MaySend, NoLeak, Queued, Holds, MainOwns,
             TypeOK
    <2>6. Filled'
      BY <1>2
         DEF AllocWait, Filled, SendersOwn, Holds, TypeOK
    <2>7. NoFreeBufWhileWaiting'
      BY <1>2
         DEF AllocWait, NoFreeBufWhileWaiting, TypeOK, Filled, PoolOf,
             Buf
    <2>8. MainSequential'
      BY <1>2
         DEF AllocWait, MaySend, MainSequential, TypeOK
    <2> QED
      BY <2>1, <2>2, <2>3, <2>4, <2>5, <2>6, <2>7, <2>8
  <1>3. ASSUME NEW s \in Senders, AllocFail(s)
        PROVE  IInv'
    <2>1. TypeOK'
      BY <1>3
         DEF AllocFail, TypeOK, SendersOwn, MainOwns, Holds, Buf
    <2>2. FifoOwns'
      BY <1>3
         DEF AllocFail, FifoOwns, SendersOwn, MainOwns, Holds, Buf,
             TypeOK
    <2>3. SendersOwn'
      BY <1>3
         DEF AllocFail, SendersOwn, FifoOwns, MainOwns, Holds, Buf,
             TypeOK
    <2>4. MainOwns'
      BY <1>3
         DEF AllocFail, MainOwns, FifoOwns, SendersOwn, Holds, Buf,
             TypeOK
    <2>5. NoLeak'
      BY <1>3
         DEF AllocFail, MaySend, NoLeak, Queued, Holds, MainOwns,
             TypeOK
    <2>6. Filled'
      BY <1>3
         DEF AllocFail, Filled, SendersOwn, Holds, TypeOK
    <2>7. NoFreeBufWhileWaiting'
      BY <1>3
         DEF AllocFail, NoFreeBufWhileWaiting, TypeOK, Filled, PoolOf,
             Buf
    <2>8. MainSequential'
      BY <1>3
         DEF AllocFail, MaySend, MainSequential, TypeOK
    <2> QED
      BY <2>1, <2>2, <2>3, <2>4, <2>5, <2>6, <2>7, <2>8
  <1>4. ASSUME NEW s \in Senders, Timeout(s)
        PROVE  IInv'
    <2>1. TypeOK'
      BY <1>4
         DEF Timeout, Expires, NoArg, TypeOK, SendersOwn, MainOwns, Holds, Buf
    <2>2. FifoOwns'
      BY <1>4
         DEF Timeout, Expires, NoArg, FifoOwns, SendersOwn, MainOwns, Holds,
             Buf, TypeOK
    <2>3. SendersOwn'
      BY <1>4
         DEF Timeout, Expires, NoArg, SendersOwn, FifoOwns, MainOwns, Holds,
             Buf, TypeOK
    <2>4. MainOwns'
      BY <1>4
         DEF Timeout, Expires, NoArg, MainOwns, FifoOwns, SendersOwn, Holds,
             Buf, TypeOK
    <2>5. NoLeak'
      BY <1>4
         DEF Timeout, Expires, NoArg, NoLeak, Queued, Holds, MainOwns, TypeOK
    <2>6. Filled'
      BY <1>4
         DEF Timeout, Expires, NoArg, Filled, SendersOwn, Holds, TypeOK
    <2>7. NoFreeBufWhileWaiting'
      BY <1>4
         DEF Timeout, Expires, NoArg, NoFreeBufWhileWaiting, TypeOK, Filled,
             PoolOf, Buf
    <2>8. MainSequential'
      BY <1>4
         DEF Timeout, Expires, NoArg, MainSequential, TypeOK
    <2> QED
      BY <2>1, <2>2, <2>3, <2>4, <2>5, <2>6, <2>7, <2>8
  <1>5. ASSUME NEW s \in Senders, CopyIn(s)
        PROVE  IInv'
    <2>1. TypeOK'
      BY <1>5
         DEF CopyIn, TypeOK, SendersOwn, MainOwns, Holds, Buf
    <2>2. FifoOwns'
      BY <1>5
         DEF CopyIn, FifoOwns, SendersOwn, MainOwns, Holds, Buf,
             TypeOK
    <2>3. SendersOwn'
      BY <1>5
         DEF CopyIn, SendersOwn, FifoOwns, MainOwns, Holds, Buf,
             TypeOK
    <2>4. MainOwns'
      BY <1>5
         DEF CopyIn, MainOwns, FifoOwns, SendersOwn, Holds, Buf,
             TypeOK
    <2>5. NoLeak'
      BY <1>5
         DEF CopyIn, NoLeak, Queued, Holds, MainOwns, TypeOK
    <2>6. Filled'
      BY <1>5
         DEF CopyIn, Filled, SendersOwn, Holds, TypeOK
    <2>7. NoFreeBufWhileWaiting'
      BY <1>5
         DEF CopyIn, NoFreeBufWhileWaiting, TypeOK, Filled, PoolOf,
             Buf
    <2>8. MainSequential'
      BY <1>5
         DEF CopyIn, MainSequential, TypeOK
    <2> QED
      BY <2>1, <2>2, <2>3, <2>4, <2>5, <2>6, <2>7, <2>8
  <1>6. ASSUME NEW s \in Senders, Put(s)
        PROVE  IInv'
    <2>1. TypeOK'
      BY <1>6
         DEF Put, Enqueue, NoArg, TypeOK, SendersOwn, MainOwns, Holds, Buf
    <2>2. FifoOwns'
      BY <1>6
         DEF Put, Enqueue, NoArg, FifoOwns, SendersOwn, MainOwns, Holds, Buf,
             TypeOK
    <2>3. SendersOwn'
      BY <1>6
         DEF Put, Enqueue, NoArg, SendersOwn, FifoOwns, MainOwns, Holds, Buf,
             TypeOK
    <2>4. MainOwns'
      BY <1>6
         DEF Put, Enqueue, NoArg, MainOwns, FifoOwns, SendersOwn, Holds, Buf,
             TypeOK
    <2>5. NoLeak'
      BY <1>6
         DEF Put, Enqueue, NoArg, NoLeak, Queued, Holds, MainOwns, TypeOK
    <2>6. Filled'
      BY <1>6
         DEF Put, Enqueue, NoArg, Filled, SendersOwn, Holds, TypeOK
    <2>7. NoFreeBufWhileWaiting'
      BY <1>6
         DEF Put, Enqueue, NoArg, NoFreeBufWhileWaiting, TypeOK, Filled,
             PoolOf, Buf
    <2>8. MainSequential'
      BY <1>6
         DEF Put, Enqueue, NoArg, MainSequential, TypeOK
    <2> QED
      BY <2>1, <2>2, <2>3, <2>4, <2>5, <2>6, <2>7, <2>8
  <1>7. ASSUME Get
        PROVE  IInv'
    <2>1. TypeOK'
      BY <1>7
         DEF Get, MayReceive, TypeOK, SendersOwn, MainOwns, Holds, Buf
    <2>2. FifoOwns'
      BY <1>7
         DEF Get, MayReceive, FifoOwns, SendersOwn, MainOwns, Holds, Buf, TypeOK
    <2>3. SendersOwn'
      BY <1>7
         DEF Get, MayReceive, SendersOwn, FifoOwns, MainOwns, Holds, Buf, TypeOK
    <2>4. MainOwns'
      BY <1>7
         DEF Get, MayReceive, MainOwns, FifoOwns, SendersOwn, Holds, Buf, TypeOK
    <2>5. NoLeak'
      <3> SUFFICES ASSUME NEW b \in Buf,
                          b \notin free, rbuf' # b,
                          ~ \E s \in Senders : Holds(s)' /\ sbuf'[s] = b
                   PROVE  Queued(b)'
        BY <1>7 DEF NoLeak, Get
      <3>1. \A s \in Senders : Holds(s)' <=> Holds(s)
        BY <1>7 DEF Get, MayReceive, Holds
      <3>2. PICK i \in 1..Len(fifo) : fifo[i] = b
        BY <1>7, <3>1, PoolAssumption DEF Get, MayReceive, NoLeak, Queued, MainOwns, TypeOK, Buf
      <3>3. i # 1
        BY <1>7, <3>2 DEF Get, MayReceive, TypeOK
      <3>4. i - 1 \in 1..Len(fifo') /\ fifo'[i - 1] = b
        BY <1>7, <3>2, <3>3, HeadTailProperties DEF Get, MayReceive, TypeOK
      <3> QED
        BY <3>4 DEF Queued
    <2>6. Filled'
      BY <1>7
         DEF Get, MayReceive, Filled, SendersOwn, Holds, TypeOK
    <2>7. NoFreeBufWhileWaiting'
      BY <1>7
         DEF Get, MayReceive, NoFreeBufWhileWaiting, TypeOK, Filled, PoolOf, Buf
    <2>8. MainSequential'
      BY <1>7
         DEF Get, MayReceive, MainSequential, TypeOK
    <2> QED
      BY <2>1, <2>2, <2>3, <2>4, <2>5, <2>6, <2>7, <2>8
  <1>8. ASSUME CopyOut
        PROVE  IInv'
    <2>1. TypeOK'
      BY <1>8
         DEF CopyOut, TypeOK, SendersOwn, MainOwns, Holds, Buf
    <2>2. FifoOwns'
      BY <1>8
         DEF CopyOut, FifoOwns, SendersOwn, MainOwns, Holds, Buf,
             TypeOK
    <2>3. SendersOwn'
      BY <1>8
         DEF CopyOut, SendersOwn, FifoOwns, MainOwns, Holds, Buf,
             TypeOK
    <2>4. MainOwns'
      BY <1>8
         DEF CopyOut, MainOwns, FifoOwns, SendersOwn, Holds, Buf,
             TypeOK
    <2>5. NoLeak'
      BY <1>8
         DEF CopyOut, NoLeak, Queued, Holds, MainOwns, TypeOK
    <2>6. Filled'
      BY <1>8
         DEF CopyOut, Filled, SendersOwn, Holds, TypeOK
    <2>7. NoFreeBufWhileWaiting'
      BY <1>8
         DEF CopyOut, NoFreeBufWhileWaiting, TypeOK, Filled, PoolOf,
             Buf
    <2>8. MainSequential'
      BY <1>8
         DEF CopyOut, MainSequential, TypeOK
    <2> QED
      BY <2>1, <2>2, <2>3, <2>4, <2>5, <2>6, <2>7, <2>8
  <1>9. ASSUME Unref
        PROVE  IInv'
    <2>1. TypeOK'
      <3>1. rbuf \in Buf
        BY <1>9 DEF Unref, MainOwns, TypeOK
      <3>2. free' \in SUBSET Buf
        BY <1>9, <3>1 DEF Unref, Return, TypeOK
      <3>3. (pc \in [Senders -> {"idle", "waiting", "copy", "put"}]
               /\ sbuf \in [Senders -> Buf \cup {0}])'
        BY ZenonT(60), <1>9, <3>1 DEF Unref, Waiters, TypeOK, Buf
      <3> QED
        BY <1>9, <3>2, <3>3 DEF Unref, TypeOK, Buf
    <2>2. FifoOwns'
      BY <1>9
         DEF Unref, Return, Waiters, FifoOwns, SendersOwn, MainOwns, Holds,
             Buf, TypeOK
    <2>3. SendersOwn'
      BY <1>9
         DEF Unref, Return, Waiters, SendersOwn, FifoOwns, MainOwns, Holds,
             Buf, TypeOK
    <2>4. MainOwns'
      <3>1. rbuf' = 0 /\ rpc' = "idle"
        BY <1>9 DEF Unref
      <3>2. 0 \notin free'
        BY <2>1 DEF TypeOK, Buf
      <3>3. \A i \in 1..Len(fifo') : fifo'[i] # 0
        BY <2>1 DEF TypeOK, Buf
      <3>4. \A s \in Senders : Holds(s)' => sbuf'[s] # 0
        BY <2>3 DEF SendersOwn, Buf
      <3> QED
        BY <3>1, <3>2, <3>3, <3>4 DEF MainOwns
    <2>5. NoLeak'
      BY <1>9
         DEF Unref, Return, Waiters, NoLeak, Queued, Holds, MainOwns, TypeOK
    <2>6. Filled'
      BY <1>9
         DEF Unref, Return, Waiters, Filled, SendersOwn, Holds, TypeOK
    <2>7. NoFreeBufWhileWaiting'
      BY <1>9
         DEF Unref, Return, Waiters, NoFreeBufWhileWaiting, TypeOK, Filled,
             PoolOf, Buf
    <2>8. MainSequential'
      BY <1>9
         DEF Unref, Return, Waiters, MainSequential, TypeOK
    <2> QED
      BY <2>1, <2>2, <2>3, <2>4, <2>5, <2>6, <2>7, <2>8
  <1>10. CASE UNCHANGED vars
    BY <1>10 DEF vars, TypeOK, FifoOwns, SendersOwn, MainOwns, NoLeak, Filled,
                 NoFreeBufWhileWaiting, MainSequential, Queued, Holds
  <1> QED
    BY <1>1, <1>2, <1>3, <1>4, <1>5, <1>6, <1>7, <1>8, <1>9, <1>10
       DEF Next, SendStep, ReceiveStep

\* Every net_buf has one owner, none is free while a sender waits for one,
\* and the state has its type: for any number of senders and net_bufs.
THEOREM MsgManagerInvariants ==
  Safe => [](TypeOK /\ OneOwner /\ NoFreeBufWhileWaiting)
  <1>1. IInv => TypeOK /\ OneOwner /\ NoFreeBufWhileWaiting
    BY DEF IInv
  <1> QED
    BY <1>1, InvInit, InvStep, PTL DEF Safe

(***************************************************************************)
(* The main loop's own wait for a net_buf only ever ends by its timeout.   *)
(***************************************************************************)
LEMMA FutileStep ==
  ASSUME IInv, [Next]_vars
  PROVE  pc[Main] = "waiting" => pc'[Main] \in {"waiting", "idle"}
  <1> SUFFICES ASSUME pc[Main] = "waiting"
               PROVE  pc'[Main] \in {"waiting", "idle"}
    OBVIOUS
  <1> USE MainAssumption DEF IInv, TypeOK
  <1>1. ASSUME NEW s \in Senders, NEW m \in Msg, NEW wait \in BOOLEAN,
               AllocNow(s, m, wait)
        PROVE  pc'[Main] = "waiting"
    BY <1>1 DEF AllocNow, MaySend
  <1>2. ASSUME NEW s \in Senders, NEW m \in Msg, AllocWait(s, m)
        PROVE  pc'[Main] = "waiting"
    BY <1>2 DEF AllocWait
  <1>3. ASSUME NEW s \in Senders, AllocFail(s)
        PROVE  pc'[Main] = "waiting"
    BY <1>3 DEF AllocFail
  <1>4. ASSUME NEW s \in Senders, SendStep(s)
        PROVE  pc'[Main] \in {"waiting", "idle"}
    BY <1>4 DEF SendStep, Timeout, Expires, CopyIn, Put
  <1>5. CASE Get \/ CopyOut
    BY <1>5 DEF Get, MayReceive, CopyOut
  \* The main loop waits in send_msg, so it is not inside receive_msg.
  <1>6. CASE Unref
    BY <1>6 DEF Unref, Return, MainSequential
  <1>7. CASE UNCHANGED vars
    BY <1>7 DEF vars
  <1> QED
    BY <1>1, <1>2, <1>3, <1>4, <1>5, <1>6, <1>7 DEF Next, ReceiveStep

\* When the main loop waits in send_msg the message is lost for certain.
THEOREM MainWaitFutile == Safe => MainWaitIsFutile
  <1>1. IInv /\ [Next]_vars
          => [pc[Main] = "waiting" => pc'[Main] \in {"waiting", "idle"}]_vars
    BY FutileStep
  <1> QED
    BY <1>1, InvInit, InvStep, PTL DEF Safe, MainWaitIsFutile

(***************************************************************************)
(* The refinement.                                                         *)
(***************************************************************************)
\* As many net_bufs can be queued as there are: msg_queue holds no net_buf
\* twice.
LEMMA FifoFits ==
  ASSUME TypeOK, FifoOwns
  PROVE  Len(fifo) <= Cardinality(Buf) /\ Cardinality(Buf) \in Nat
  <1>1. IsFiniteSet(Buf)
    BY PoolAssumption, FS_Union DEF Buf
  <1>2. fifo \in Injection(1..Len(fifo), Buf)
    BY DEF TypeOK, FifoOwns, Injection, IsInjective
  <1>3. Cardinality(1..Len(fifo)) = Len(fifo)
    <2>1. Len(fifo) \in Nat
      BY DEF TypeOK
    <2> QED
      BY SMTT(30), <2>1, FS_Interval
  <1> QED
    BY <1>1, <1>2, <1>3, FS_Injection, FS_CardinalityType

LEMMA RefinementInit == Init => Q!QInit
  BY DEF Init, Q!QInit, Contents, Received

LEMMA RefinementStep ==
  ASSUME IInv, IInv', [Next]_vars
  PROVE  [Q!QNext]_(Q!qvars)
  <1> USE MainAssumption, PoolAssumption DEF IInv, OneOwner
  <1> DEFINE Same == UNCHANGED <<Contents, Received>>
  <1>1. ASSUME UNCHANGED <<fifo, data, rpc, rbuf, rmsg>>
        PROVE  Same
    BY <1>1 DEF Contents, Received
  <1>2. ASSUME NEW s \in Senders, NEW m \in Msg, NEW wait \in BOOLEAN,
               AllocNow(s, m, wait)
        PROVE  Same
    BY <1>1, <1>2 DEF AllocNow
  <1>3. ASSUME NEW s \in Senders, NEW m \in Msg, AllocWait(s, m)
        PROVE  Same
    BY <1>1, <1>3 DEF AllocWait
  <1>4. ASSUME NEW s \in Senders, AllocFail(s) \/ Timeout(s)
        PROVE  Same
    BY <1>1, <1>4 DEF AllocFail, Timeout
  \* The net_buf a sender fills is neither queued nor being received.
  <1>5. ASSUME NEW s \in Senders, CopyIn(s)
        PROVE  Same
    <2>1. Holds(s) /\ sbuf[s] \in Buf
      BY <1>5 DEF CopyIn, Holds, SendersOwn
    <2>2. Contents' = Contents
      BY <1>5, <2>1 DEF CopyIn, Contents, SendersOwn, TypeOK
    <2>3. Received' = Received
      BY <1>5, <2>1 DEF CopyIn, Received, MainOwns, TypeOK
    <2> QED
      BY <2>2, <2>3
  <1>6. ASSUME NEW s \in Senders, Put(s)
        PROVE  \E m \in Msg : Q!Accept(m)
    <2>1. Holds(s) /\ sbuf[s] \in Buf /\ data[sbuf[s]] \in Msg
      BY <1>6 DEF Put, Enqueue, Holds, SendersOwn, Filled
    <2>2. Contents' = Append(Contents, data[sbuf[s]])
      BY <1>6, <2>1 DEF Put, Enqueue, Contents, TypeOK
    <2>3. Len(Contents) = Len(fifo) /\ Len(fifo') = Len(fifo) + 1
      BY <1>6, <2>1 DEF Put, Enqueue, Contents, TypeOK
    <2>4. Len(fifo') <= Cardinality(Buf) /\ Cardinality(Buf) \in Nat
      <3>1. (Len(fifo) <= Cardinality(Buf) /\ Cardinality(Buf) \in Nat)'
        BY FifoFits, PTL
      <3> QED
        BY <3>1 DEF Buf
    <2>5. Received' = Received
      BY <1>6 DEF Put, Enqueue, Received
    <2> QED
      BY <2>1, <2>2, <2>3, <2>4, <2>5 DEF Q!Accept, TypeOK
  <1>7. ASSUME Get
        PROVE  Q!Take
    <2>1. Len(fifo) > 0 /\ Len(Contents) = Len(fifo) /\ Contents # <<>>
      <3>1. Len(fifo) \in Nat /\ Len(fifo) # 0
        BY <1>7, EmptySeq DEF Get, MayReceive, TypeOK
      <3>2. Contents \in Seq(Msg \cup {0}) /\ Len(Contents) = Len(fifo)
        BY <3>1 DEF Contents, TypeOK
      <3> QED
        BY <3>1, <3>2
    <2>2. Contents' = Tail(Contents)
      BY <1>7, <2>1, HeadTailProperties DEF Get, MayReceive, Contents, TypeOK
    <2>3. Received' = Head(Contents)
      BY <1>7, <2>1 DEF Get, MayReceive, Received, Contents, TypeOK
    <2> QED
      BY <2>1, <2>2, <2>3 DEF Q!Take
  <1>8. ASSUME CopyOut \/ Unref
        PROVE  Same
    BY <1>8 DEF CopyOut, Unref, Return, Contents, Received
  <1>9. CASE UNCHANGED vars
    BY <1>1, <1>9 DEF vars, Q!qvars
  <1> HIDE DEF Same
  <1>10. Same => UNCHANGED Q!qvars
    BY DEF Same, Q!qvars
  <1> QED
    BY <1>2, <1>3, <1>4, <1>5, <1>6, <1>7, <1>8, <1>9, <1>10
       DEF Next, SendStep, ReceiveStep, Q!QNext

\* Whatever the number of senders and net_bufs: a message send_msg accepted
\* is received once, unchanged and in its turn (safety part of
\* ImplementsMsgQueue; its fairness is checked by TLC).
THEOREM MsgManagerRefinesQueue == Safe => Q!QSafe
  <1>1. IInv /\ IInv' /\ [Next]_vars => [Q!QNext]_(Q!qvars)
    BY RefinementStep
  <1> QED
    BY <1>1, RefinementInit, InvInit, InvStep, PTL DEF Safe, Q!QSafe
=============================================================================
