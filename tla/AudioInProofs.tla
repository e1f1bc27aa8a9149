--------------------------- MODULE AudioInProofs ----------------------------
(***************************************************************************)
(* Voice capture, for every number of buffers, messages and recordings.    *)
(***************************************************************************)
EXTENDS AudioIn, TLAPS, SequenceTheorems, FiniteSetTheorems, FunctionTheorems

Messages == {Pcm(b) : b \in Bufs} \cup {KeyMsg("UP"), KeyMsg("DOWN")}
MaybeBuf == Bufs \cup {NoBuf}
Pools == [ref : [Bufs -> 0 .. RefWidth - 1], free : Seq(Bufs)]
Steps == {"loop", "start", "started", "drop", "dropping", "stop", "stopped"}

\* How often x is in the sequence s.
Count(s, x) == Cardinality({i \in DOMAIN s : s[i] = x})

-----------------------------------------------------------------------------
(***************************************************************************)
(* Counting in the free list and in the queue.                             *)
(***************************************************************************)
LEMMA CountFinite ==
  ASSUME NEW S, NEW s \in Seq(S), NEW x
  PROVE  IsFiniteSet({i \in DOMAIN s : s[i] = x}) /\ Count(s, x) \in Nat
  <1> DEFINE I == {i \in DOMAIN s : s[i] = x}
  <1>1. I \in SUBSET (1 .. Len(s)) /\ Len(s) \in Nat
    OBVIOUS
  <1>2. IsFiniteSet(1 .. Len(s))
    BY <1>1, FS_Interval
  <1> HIDE DEF I
  <1>3. IsFiniteSet(I)
    BY <1>1, <1>2, FS_Subset
  <1> QED
    BY <1>3, FS_CardinalityType DEF I, Count

LEMMA CountAppend ==
  ASSUME NEW S, NEW s \in Seq(S), NEW y \in S, NEW x
  PROVE  Count(Append(s, y), x) = Count(s, x) + (IF y = x THEN 1 ELSE 0)
  <1> DEFINE I == {i \in DOMAIN s : s[i] = x}
             J == {i \in DOMAIN Append(s, y) : Append(s, y)[i] = x}
             n == Len(s) + 1
  <1>1. /\ Len(Append(s, y)) = Len(s) + 1 /\ Append(s, y) \in Seq(S)
        /\ \A i \in 1 .. Len(s) : Append(s, y)[i] = s[i]
        /\ Append(s, y)[Len(s) + 1] = y
    BY AppendProperties
  <1>2. Len(s) \in Nat /\ DOMAIN s = 1 .. Len(s) /\ DOMAIN Append(s, y) = 1 .. n
    BY <1>1
  <1>3. n \notin I /\ J = I \cup (IF y = x THEN {n} ELSE {})
    BY <1>1, <1>2
  <1>4. IsFiniteSet(I) /\ Cardinality(I) \in Nat
    BY CountFinite DEF Count
  <1>5. Count(s, x) = Cardinality(I) /\ Count(Append(s, y), x) = Cardinality(J)
    BY DEF Count
  <1> HIDE DEF I, J, n
  <1>6. CASE y = x
    <2>1. J = I \cup {n}
      BY <1>3, <1>6
    <2>2. Cardinality(J) = Cardinality(I) + 1
      BY <1>3, <1>4, <2>1, FS_AddElement
    <2> QED
      BY <1>5, <1>6, <2>2
  <1>7. CASE y # x
    <2>1. J = I
      BY <1>3, <1>7
    <2> QED
      BY <1>4, <1>5, <1>7, <2>1
  <1> QED
    BY <1>6, <1>7

LEMMA CountTail ==
  ASSUME NEW S, NEW s \in Seq(S), s # <<>>, NEW x
  PROVE  Count(s, x) = Count(Tail(s), x) + (IF Head(s) = x THEN 1 ELSE 0)
  <1> DEFINE I == {i \in DOMAIN s : s[i] = x}
             J == {i \in DOMAIN Tail(s) : Tail(s)[i] = x}
             f == [j \in J |-> j + 1]
  <1>1. /\ Tail(s) \in Seq(S) /\ Len(Tail(s)) = Len(s) - 1
        /\ \A i \in 1 .. Len(Tail(s)) : Tail(s)[i] = s[i + 1]
    BY HeadTailProperties
  <1>2. Len(s) \in Nat \ {0} /\ DOMAIN s = 1 .. Len(s) /\ Head(s) = s[1]
    OBVIOUS
  <1>3. DOMAIN Tail(s) = 1 .. Len(s) - 1
    BY <1>1, <1>2
  <1>4. \A j \in J : j \in Nat /\ j + 1 \in I \ {1}
    BY <1>1, <1>2, <1>3
  <1>5. \A i \in I \ {1} : i - 1 \in J /\ (i - 1) + 1 = i
    BY <1>1, <1>2, <1>3
  <1>6. 1 \in I <=> Head(s) = x
    BY <1>2
  <1>7. IsFiniteSet(I) /\ Cardinality(I) \in Nat
    BY CountFinite DEF Count
  <1>8. IsFiniteSet(J) /\ Cardinality(J) \in Nat
    BY <1>1, CountFinite DEF Count
  <1>9. Count(s, x) = Cardinality(I) /\ Count(Tail(s), x) = Cardinality(J)
    BY DEF Count
  <1> HIDE DEF I, J
  <1>10. f \in [J -> I \ {1}] /\ (\A a, b \in J : f[a] = f[b] => a = b)
    BY <1>4
  <1>11. \A i \in I \ {1} : \E j \in J : f[j] = i
    BY <1>5
  <1>12. ExistsBijection(J, I \ {1})
    <2> HIDE DEF f
    <2>1. f \in Bijection(J, I \ {1})
      BY <1>10, <1>11, Fun_IsBij
    <2> QED
      BY <2>1 DEF ExistsBijection
  <1>13. Cardinality(I \ {1}) = Cardinality(J)
    BY <1>8, <1>12, FS_Bijection
  <1>14. Cardinality(I \ {1}) = IF 1 \in I THEN Cardinality(I) - 1 ELSE Cardinality(I)
    BY <1>7, FS_RemoveElement
  <1>15. Cardinality(I) = Cardinality(J) + (IF Head(s) = x THEN 1 ELSE 0)
    BY <1>6, <1>7, <1>8, <1>13, <1>14
  <1> QED
    BY <1>9, <1>15

LEMMA CountPush ==
  ASSUME NEW S, NEW s \in Seq(S), NEW y \in S, NEW x
  PROVE  /\ <<y>> \o s \in Seq(S)
         /\ Count(<<y>> \o s, x) = Count(s, x) + (IF y = x THEN 1 ELSE 0)
  <1> DEFINE t == <<y>> \o s
  <1>1. t \in Seq(S) /\ t # <<>> /\ Head(t) = y /\ Tail(t) = s
    <2>1. t \in Seq(S) /\ t # <<>> /\ Head(t) = y
      OBVIOUS
    <2>2. Tail(t) \in Seq(S) /\ Len(Tail(t)) = Len(s) /\ \A i \in 1 .. Len(s) : Tail(t)[i] = s[i]
      OBVIOUS
    <2>3. Tail(t) = s
      BY <2>2, SeqEqual
    <2> QED
      BY <2>1, <2>3
  <1> HIDE DEF t
  <1>2. Count(t, x) = Count(s, x) + (IF y = x THEN 1 ELSE 0)
    BY <1>1, CountTail
  <1> QED
    BY <1>1, <1>2 DEF t

-----------------------------------------------------------------------------
(***************************************************************************)
(* The pool.                                                               *)
(***************************************************************************)
LEMMA PoolAllocated ==
  ASSUME NEW p \in Pools, p.free # <<>>
  PROVE  /\ Alloc(p) \in Pools /\ Head(p.free) \in Bufs
         /\ \A b \in Bufs : /\ Alloc(p).ref[b] = IF b = Head(p.free) THEN 1 ELSE p.ref[b]
                            /\ Count(p.free, b) = Count(Alloc(p).free, b) +
                                                  (IF b = Head(p.free) THEN 1 ELSE 0)
  <1>1. p.free \in Seq(Bufs) /\ p.ref \in [Bufs -> 0 .. RefWidth - 1]
    BY DEF Pools
  <1>2. Head(p.free) \in Bufs /\ Tail(p.free) \in Seq(Bufs)
    BY <1>1
  <1>3. 1 \in 0 .. RefWidth - 1
    BY DEF RefWidth
  <1>4. [p.ref EXCEPT ![Head(p.free)] = 1] \in [Bufs -> 0 .. RefWidth - 1]
    BY <1>1, <1>2, <1>3
  <1>5. Alloc(p) \in Pools
    BY <1>2, <1>4 DEF Alloc, Pools
  <1>6. \A b \in Bufs : Alloc(p).ref[b] = IF b = Head(p.free) THEN 1 ELSE p.ref[b]
    BY <1>1, <1>2 DEF Alloc
  <1>7. Alloc(p).free = Tail(p.free)
    BY DEF Alloc
  <1>8. \A b \in Bufs : Count(p.free, b) = Count(Alloc(p).free, b) +
                                           (IF b = Head(p.free) THEN 1 ELSE 0)
    BY <1>1, <1>7, CountTail
  <1> QED
    BY <1>2, <1>5, <1>6, <1>8

LEMMA Wrapped == \A n \in 0 .. RefWidth - 1 : (n - 1) % RefWidth \in 0 .. RefWidth - 1
  BY DEF RefWidth

LEMMA PoolTyped ==
  ASSUME NEW p \in Pools, NEW b \in Bufs
  PROVE  Unref(p, b) \in Pools
  <1> DEFINE r == (p.ref[b] - 1) % RefWidth
  <1>1. p.free \in Seq(Bufs) /\ p.ref \in [Bufs -> 0 .. RefWidth - 1]
    BY DEF Pools
  <1>2. r \in 0 .. RefWidth - 1
    BY <1>1, Wrapped
  <1>3. <<b>> \o p.free \in Seq(Bufs)
    BY <1>1
  <1>4. Unref(p, b) = [ref |-> [p.ref EXCEPT ![b] = r],
                       free |-> IF r = 0 THEN <<b>> \o p.free ELSE p.free]
    BY DEF Unref
  <1> HIDE DEF r
  <1> QED
    BY <1>1, <1>2, <1>3, <1>4 DEF Pools

\* The last reference is given up: the buffer is free.
LEMMA PoolFreed ==
  ASSUME NEW p \in Pools, NEW b \in Bufs, p.ref[b] = 1
  PROVE  /\ Unref(p, b) \in Pools
         /\ \A x \in Bufs : /\ Unref(p, b).ref[x] = IF x = b THEN 0 ELSE p.ref[x]
                            /\ Count(Unref(p, b).free, x) = Count(p.free, x) +
                                                            (IF x = b THEN 1 ELSE 0)
  <1>1. p.free \in Seq(Bufs) /\ p.ref \in [Bufs -> 0 .. RefWidth - 1]
    BY DEF Pools
  <1>2. (p.ref[b] - 1) % RefWidth = 0
    BY DEF RefWidth
  <1>3. Unref(p, b).ref = [p.ref EXCEPT ![b] = 0] /\ Unref(p, b).free = <<b>> \o p.free
    BY <1>2 DEF Unref
  <1>4. \A x \in Bufs : Unref(p, b).ref[x] = IF x = b THEN 0 ELSE p.ref[x]
    BY <1>1, <1>3
  <1>5. \A x \in Bufs : Count(Unref(p, b).free, x) = Count(p.free, x) + (IF x = b THEN 1 ELSE 0)
    BY <1>1, <1>3, CountPush
  <1> QED
    BY <1>4, <1>5, PoolTyped

\* At first every buffer is once in the free list.
LEMMA PoolAtFirst ==
  ASSUME NEW p, p = [ref |-> [b \in Bufs |-> 0], free |-> SetToSeq(Bufs)]
  PROVE  p \in Pools /\ \A b \in Bufs : p.ref[b] = 0 /\ Count(p.free, b) = 1
  <1> DEFINE n == Cardinality(Bufs)
             f == SetToSeq(Bufs)
  <1>1. n \in Nat /\ ExistsBijection(1 .. n, Bufs)
    BY AudioAssumption, FS_CardinalityType
  <1>2. PICK g : g \in Bijection(1 .. n, Bufs)
    BY <1>1 DEF ExistsBijection
  <1>3. g \in [1 .. n -> Bufs] /\ IsInjective(g)
    BY <1>2 DEF Bijection, Injection
  <1>4. f \in [1 .. n -> Bufs] /\ IsInjective(f)
    BY <1>3 DEF SetToSeq
  <1> HIDE DEF f, n
  <1>5. f \in Injection(1 .. n, Bufs)
    BY <1>4 DEF Injection
  <1>6. IsFiniteSet(1 .. n) /\ Cardinality(1 .. n) = n
    BY <1>1, FS_Interval
  <1>7. f \in Surjection(1 .. n, Bufs)
    BY <1>5, <1>6, AudioAssumption, FS_Injection DEF n
  <1>8. f \in Seq(Bufs) /\ DOMAIN f = 1 .. n
    BY <1>1, <1>4, IsASeq
  <1>9. ASSUME NEW b \in Bufs PROVE Count(f, b) = 1
    <2>1. PICK i \in 1 .. n : f[i] = b
      BY <1>7 DEF Surjection
    <2>2. \A j \in 1 .. n : f[j] = b => j = i
      BY <1>4, <2>1 DEF IsInjective
    <2>3. {j \in DOMAIN f : f[j] = b} = {i}
      BY <1>8, <2>1, <2>2
    <2> QED
      BY <2>3, FS_Singleton DEF Count
  <1>10. 0 \in 0 .. RefWidth - 1
    BY DEF RefWidth
  <1>11. p.ref = [b \in Bufs |-> 0] /\ p.free = f
    BY DEF f
  <1>12. p \in Pools
    BY <1>8, <1>10 DEF Pools, f
  <1> QED
    BY <1>9, <1>11, <1>12

-----------------------------------------------------------------------------
(***************************************************************************)
(* The types.                                                              *)
(***************************************************************************)
PoolTypes == pcm_buffer_pool \in Pools
HardwareTypes ==
    /\ audioin \in [running : BOOLEAN, held : BOOLEAN, working : MaybeBuf, completed : MaybeBuf]
    /\ phase \in {"HF", "FU"} /\ fault \in {"none", "stale", "late"}
QueueTypes == msg_queue \in Seq(Messages)
LoopTypes ==
    /\ loop \in [pc : Steps, msg : Messages, count : Int]
    /\ loop.pc \in {"drop", "dropping"} => loop.msg.type = "PCM"
FlagTypes ==
    audio_cb \in [encoder_init : BOOLEAN, send_start : BOOLEAN, send_stop : BOOLEAN, drop : Int]

AudioTypes == PoolTypes /\ HardwareTypes /\ QueueTypes /\ LoopTypes /\ FlagTypes

LEMMA MessageFacts ==
  /\ \A b \in Bufs : Pcm(b) \in Messages
  /\ \A b : Pcm(b).type = "PCM" /\ Pcm(b).buf = b
  /\ \A d \in {"UP", "DOWN"} : KeyMsg(d) \in Messages /\ KeyMsg(d).type = d
  /\ \A m \in Messages : m.type = "PCM" => m.buf \in Bufs /\ m = Pcm(m.buf)
  /\ \A m \in Messages : m.type # "PCM" => m.type \in {"UP", "DOWN"}
  BY DEF Messages, Pcm, KeyMsg

LEMMA QueueHead ==
  ASSUME QueueTypes, msg_queue # <<>>
  PROVE  Head(msg_queue) \in Messages /\ Tail(msg_queue) \in Seq(Messages)
  BY DEF QueueTypes

LEMMA PoolTypesStep == AudioTypes /\ [AudioNext]_audioVars => PoolTypes'
  <1> SUFFICES ASSUME AudioTypes, [AudioNext]_audioVars PROVE PoolTypes'
    OBVIOUS
  <1> USE DEF AudioTypes, PoolTypes
  <1>f. \A p \in Pools, b \in MaybeBuf : pcm_buffer_free(p, b) \in Pools
    BY PoolTyped DEF pcm_buffer_free, MaybeBuf
  <1>1. CASE Press
    BY <1>1, PoolAllocated DEF Press
  <1>2. CASE Release
    <2>1. pcm_buffer_pool' =
             pcm_buffer_free(pcm_buffer_free(pcm_buffer_pool, audioin.working), audioin.completed)
      BY <1>2 DEF Release, Released
    <2>2. audioin.working \in MaybeBuf /\ audioin.completed \in MaybeBuf
      BY DEF HardwareTypes
    <2> QED
      BY <1>f, <2>1, <2>2
  <1>3. CASE HalfFull
    BY <1>3, PoolAllocated DEF HalfFull
  <1>4. CASE Full
    <2>1. \/ pcm_buffer_pool' = pcm_buffer_pool
          \/ audioin.completed # NoBuf /\ pcm_buffer_pool' = Unref(pcm_buffer_pool, audioin.completed)
      BY <1>4 DEF Full
    <2>2. audioin.completed \in Bufs \cup {NoBuf}
      BY DEF HardwareTypes, MaybeBuf
    <2> QED
      BY <2>1, <2>2, PoolTyped
  <1>5. CASE ReceivePcm
    <2>1. Head(msg_queue).buf \in MaybeBuf
      BY <1>5, QueueHead, MessageFacts DEF ReceivePcm, MaybeBuf
    <2> QED
      BY <1>5, <1>f, <2>1 DEF ReceivePcm
  <1>6. CASE DropBuffer \/ Encode
    <2>1. loop.msg.type = "PCM" /\ loop.msg \in Messages
      BY <1>6 DEF DropBuffer, Encode, At, LoopTypes
    <2>2. loop.msg.buf \in MaybeBuf
      BY <2>1, MessageFacts DEF MaybeBuf
    <2> QED
      BY <1>6, <1>f, <2>2 DEF DropBuffer, Encode
  <1>7. CASE ReceiveKey \/ SendStart \/ ClearStart \/ LoadCount \/ SendStop \/ ClearStop \/
             LinkChanges \/ UNCHANGED audioVars
    BY <1>7 DEF ReceiveKey, SendStart, ClearStart, LoadCount, SendStop, ClearStop, LinkChanges,
       audioVars
  <1> QED
    BY <1>1, <1>2, <1>3, <1>4, <1>5, <1>6, <1>7 DEF AudioNext

LEMMA HardwareTypesStep == AudioTypes /\ [AudioNext]_audioVars => HardwareTypes'
  <1> SUFFICES ASSUME AudioTypes, [AudioNext]_audioVars PROVE HardwareTypes'
    OBVIOUS
  <1> USE DEF AudioTypes, HardwareTypes
  <1>1. CASE Press
    <2>1. phase' \in {"HF", "FU"} /\ fault' \in {"none", "stale", "late"}
      BY <1>1 DEF Press
    <2>2. CASE pcm_buffer_pool.free = <<>>
      BY <1>1, <2>1, <2>2 DEF Press
    <2>3. CASE pcm_buffer_pool.free # <<>>
      <3>1. audioin' = [running |-> TRUE, held |-> TRUE, working |-> Head(pcm_buffer_pool.free),
                        completed |-> NoBuf]
        BY <1>1, <2>3 DEF Press
      <3>2. Head(pcm_buffer_pool.free) \in MaybeBuf /\ NoBuf \in MaybeBuf
        BY <2>3, PoolAllocated DEF PoolTypes, MaybeBuf
      <3> QED
        BY <2>1, <3>1, <3>2
    <2> QED
      BY <2>2, <2>3
  <1>2. CASE Release
    <2>1. phase' \in {"HF", "FU"} /\ fault' \in {"none", "stale", "late"}
      BY <1>2 DEF Release
    <2>2. audioin' = [running |-> FALSE, held |-> FALSE, working |-> NoBuf, completed |-> NoBuf]
      BY <1>2 DEF Release
    <2> QED
      BY <2>1, <2>2 DEF MaybeBuf
  <1>3. CASE HalfFull
    <2>1. phase' \in {"HF", "FU"} /\ fault' \in {"none", "stale", "late"}
      BY <1>3 DEF HalfFull
    <2>2. CASE pcm_buffer_pool.free = <<>>
      <3>1. audioin' = [audioin EXCEPT !.completed = NoBuf]
        BY <1>3, <2>2 DEF HalfFull
      <3> QED
        BY <2>1, <3>1 DEF MaybeBuf
    <2>3. CASE pcm_buffer_pool.free # <<>>
      <3>1. audioin' = [audioin EXCEPT !.completed = audioin.working,
                                       !.working = Head(pcm_buffer_pool.free)]
        BY <1>3, <2>3 DEF HalfFull
      <3>2. Head(pcm_buffer_pool.free) \in MaybeBuf
        BY <2>3, PoolAllocated DEF PoolTypes, MaybeBuf
      <3> QED
        BY <2>1, <3>1, <3>2
    <2> QED
      BY <2>2, <2>3
  <1>4. CASE Full
    BY <1>4 DEF Full
  <1>5. CASE ReceiveKey \/ ReceivePcm \/ SendStart \/ ClearStart \/ LoadCount \/ DropBuffer \/
             Encode \/ SendStop \/ ClearStop \/ LinkChanges \/ UNCHANGED audioVars
    BY <1>5 DEF ReceiveKey, ReceivePcm, SendStart, ClearStart, LoadCount, DropBuffer, Encode,
       SendStop, ClearStop, LinkChanges, NotPool, audioVars
  <1> QED
    BY <1>1, <1>2, <1>3, <1>4, <1>5 DEF AudioNext

LEMMA QueueTypesStep == AudioTypes /\ [AudioNext]_audioVars => QueueTypes'
  <1> SUFFICES ASSUME AudioTypes, [AudioNext]_audioVars PROVE QueueTypes'
    OBVIOUS
  <1> USE DEF AudioTypes, QueueTypes
  <1>1. CASE Press \/ Release
    <2>1. \E d \in {"UP", "DOWN"} :
             msg_queue' = msg_queue \/ msg_queue' = Append(msg_queue, KeyMsg(d))
      BY <1>1 DEF Press, Release, SendKey
    <2> QED
      BY <2>1, MessageFacts, AppendProperties
  <1>2. CASE Full
    <2>1. \/ msg_queue' = msg_queue
          \/ audioin.completed # NoBuf /\ msg_queue' = Append(msg_queue, Pcm(audioin.completed))
      BY <1>2 DEF Full
    <2>2. audioin.completed \in Bufs \cup {NoBuf}
      BY DEF HardwareTypes, MaybeBuf
    <2> QED
      BY <2>1, <2>2, MessageFacts, AppendProperties
  <1>3. CASE ReceiveKey \/ ReceivePcm
    BY <1>3, QueueHead DEF ReceiveKey, ReceivePcm
  <1>4. CASE HalfFull \/ SendStart \/ ClearStart \/ LoadCount \/ DropBuffer \/ Encode \/ SendStop \/
             ClearStop \/ LinkChanges \/ UNCHANGED audioVars
    BY <1>4 DEF HalfFull, SendStart, ClearStart, LoadCount, DropBuffer, Encode, SendStop, ClearStop,
       LinkChanges, audioVars
  <1> QED
    BY <1>1, <1>2, <1>3, <1>4 DEF AudioNext

LEMMA LoopTypesStep == AudioTypes /\ [AudioNext]_audioVars => LoopTypes'
  <1> SUFFICES ASSUME AudioTypes, [AudioNext]_audioVars PROVE LoopTypes'
    OBVIOUS
  <1> USE DEF AudioTypes, LoopTypes
  <1>n. NextMsg \in [pc : Steps, msg : Messages, count : Int] /\ NextMsg.pc = "loop"
    BY MessageFacts DEF NextMsg, Steps
  <1>h. ASSUME NEW s \in {"start", "started", "stop", "stopped"}, NEW m \in Messages
        PROVE  /\ [NextMsg EXCEPT !.pc = s, !.msg = m] \in [pc : Steps, msg : Messages, count : Int]
               /\ [NextMsg EXCEPT !.pc = s, !.msg = m].pc = s
    BY <1>n DEF Steps
  <1>1. CASE ReceiveKey
    <2>1. \/ loop' = NextMsg
          \/ \E s \in {"start", "stop"} : loop' = [NextMsg EXCEPT !.pc = s, !.msg = Head(msg_queue)]
      BY <1>1 DEF ReceiveKey
    <2>2. Head(msg_queue) \in Messages
      BY <1>1, QueueHead DEF ReceiveKey
    <2> QED
      BY ZenonT(60), <1>n, <1>h, <2>1, <2>2
  <1>2. CASE ReceivePcm
    <2>1. loop' = NextMsg \/ loop' = [NextMsg EXCEPT !.pc = "start", !.msg = Head(msg_queue)]
      BY <1>2 DEF ReceivePcm
    <2>2. Head(msg_queue) \in Messages
      BY <1>2, QueueHead DEF ReceivePcm
    <2> QED
      BY <1>n, <1>h, <2>1, <2>2
  <1>3. CASE SendStart \/ ClearStart
    <2>1. \/ loop' = [loop EXCEPT !.pc = "started"]
          \/ loop' = [loop EXCEPT !.pc = "drop"] /\ loop.msg.type = "PCM"
          \/ loop' = NextMsg
      BY <1>3 DEF SendStart, ClearStart, AfterStart, Goto
    <2> QED
      BY <1>n, <2>1 DEF Steps
  <1>4. CASE LoadCount
    BY <1>4 DEF LoadCount, At, FlagTypes, Steps
  <1>5. CASE DropBuffer \/ ClearStop
    <2>1. loop' = NextMsg
      BY <1>5 DEF DropBuffer, ClearStop
    <2> QED
      BY <1>n, <2>1
  <1>6. CASE Encode
    BY <1>6 DEF Encode, Goto, Steps
  <1>7. CASE SendStop
    <2>1. loop' = NextMsg \/ loop' = [loop EXCEPT !.pc = "stopped"]
      BY <1>7 DEF SendStop, Goto
    <2> QED
      BY <1>n, <2>1 DEF Steps
  <1>8. CASE Press \/ Release \/ HalfFull \/ Full \/ LinkChanges \/ UNCHANGED audioVars
    BY <1>8 DEF Press, Release, HalfFull, Full, LinkChanges, audioVars
  <1> QED
    BY <1>1, <1>2, <1>3, <1>4, <1>5, <1>6, <1>7, <1>8 DEF AudioNext

LEMMA FlagTypesStep == AudioTypes /\ [AudioNext]_audioVars => FlagTypes'
  <1> SUFFICES ASSUME AudioTypes, [AudioNext]_audioVars PROVE FlagTypes'
    OBVIOUS
  <1> USE DEF AudioTypes, FlagTypes
  <1>1. CASE Press
    BY <1>1, AudioAssumption DEF Press, StartFlags
  <1>2. CASE Release
    BY <1>2 DEF Release, StopFlags
  <1>3. CASE DropBuffer
    <2>1. loop.count - 1 \in Int
      BY DEF LoopTypes
    <2>2. audio_cb' = [audio_cb EXCEPT !.drop = loop.count - 1]
      BY <1>3 DEF DropBuffer
    <2> QED
      BY <2>1, <2>2
  <1>4. CASE SendStart \/ ClearStart \/ ClearStop
    BY <1>4 DEF SendStart, ClearStart, ClearStop
  <1>5. CASE HalfFull \/ Full \/ ReceiveKey \/ ReceivePcm \/ LoadCount \/ Encode \/ SendStop \/
             LinkChanges \/ UNCHANGED audioVars
    BY <1>5 DEF HalfFull, Full, ReceiveKey, ReceivePcm, LoadCount, Encode, SendStop, LinkChanges,
       audioVars
  <1> QED
    BY <1>1, <1>2, <1>3, <1>4, <1>5 DEF AudioNext

-----------------------------------------------------------------------------
(***************************************************************************)
(* The host is told that the voice ends.                                   *)
(***************************************************************************)
\* The event of the released key is on its way.
UpWaits == \E i \in DOMAIN msg_queue : msg_queue[i].type = "UP"

\* Where the stop flag and the event of the released key are, while the host
\* takes more voice to come.
VoiceToldToEnd ==
    /\ voice # "none" => rmc_link = "ready"
    /\ loop.pc = "stopped" => voice # "started"
    /\ audio_cb.send_start => audioin.held
    /\ voice = "started" /\ ~audioin.held => audio_cb.send_stop
    /\ voice = "started" /\ ~audioin.held /\ ~dropped => loop.pc = "stop" \/ UpWaits

LEMMA UpAppended ==
  ASSUME QueueTypes, NEW m \in Messages, msg_queue' = Append(msg_queue, m), UpWaits \/ m.type = "UP"
  PROVE  UpWaits'
  <1>1. /\ msg_queue \in Seq(Messages) /\ Len(msg_queue) \in Nat
        /\ DOMAIN msg_queue = 1 .. Len(msg_queue)
    BY DEF QueueTypes
  <1>2. /\ msg_queue' \in Seq(Messages) /\ Len(msg_queue') = Len(msg_queue) + 1
        /\ \A i \in 1 .. Len(msg_queue) : msg_queue'[i] = msg_queue[i]
        /\ msg_queue'[Len(msg_queue) + 1] = m
    BY <1>1, AppendProperties
  <1>3. DOMAIN msg_queue' = 1 .. Len(msg_queue) + 1
    BY <1>2
  <1>4. CASE m.type = "UP"
    <2>1. Len(msg_queue) + 1 \in DOMAIN msg_queue'
      BY <1>1, <1>3
    <2> QED
      BY <1>2, <1>4, <2>1 DEF UpWaits
  <1>5. CASE UpWaits
    <2>1. PICK i \in DOMAIN msg_queue : msg_queue[i].type = "UP"
      BY <1>5 DEF UpWaits
    <2>2. i \in DOMAIN msg_queue' /\ msg_queue'[i] = msg_queue[i]
      BY <1>1, <1>2, <1>3, <2>1
    <2> QED
      BY <2>1, <2>2 DEF UpWaits
  <1> QED
    BY <1>4, <1>5

LEMMA UpBehind ==
  ASSUME QueueTypes, msg_queue # <<>>, Head(msg_queue).type # "UP", msg_queue' = Tail(msg_queue),
         UpWaits
  PROVE  UpWaits'
  <1>1. /\ msg_queue \in Seq(Messages) /\ Len(msg_queue) \in Nat
        /\ DOMAIN msg_queue = 1 .. Len(msg_queue) /\ Head(msg_queue) = msg_queue[1]
    BY DEF QueueTypes
  <1>2. /\ msg_queue' \in Seq(Messages) /\ Len(msg_queue') = Len(msg_queue) - 1
        /\ \A i \in 1 .. Len(msg_queue') : msg_queue'[i] = msg_queue[i + 1]
    BY <1>1, HeadTailProperties
  <1>3. DOMAIN msg_queue' = 1 .. Len(msg_queue')
    BY <1>2
  <1>4. PICK i \in DOMAIN msg_queue : msg_queue[i].type = "UP"
    BY DEF UpWaits
  <1>5. i \in Nat /\ i # 1 /\ i - 1 \in 1 .. Len(msg_queue') /\ (i - 1) + 1 = i
    BY <1>1, <1>2, <1>4
  <1>6. msg_queue'[i - 1].type = "UP"
    BY <1>2, <1>4, <1>5
  <1> QED
    BY <1>3, <1>5, <1>6 DEF UpWaits

LEMMA VoiceToldToEndStep ==
  AudioTypes /\ VoiceToldToEnd /\ [AudioNext]_audioVars => VoiceToldToEnd'
  <1> SUFFICES ASSUME AudioTypes, VoiceToldToEnd, [AudioNext]_audioVars PROVE VoiceToldToEnd'
    OBVIOUS
  <1>t. /\ QueueTypes
        /\ audioin \in [running : BOOLEAN, held : BOOLEAN, working : MaybeBuf, completed : MaybeBuf]
        /\ loop \in [pc : Steps, msg : Messages, count : Int]
        /\ audio_cb \in [encoder_init : BOOLEAN, send_start : BOOLEAN, send_stop : BOOLEAN,
                         drop : Int]
    BY DEF AudioTypes, HardwareTypes, LoopTypes, FlagTypes
  <1>n. NextMsg.pc = "loop"
    BY DEF NextMsg
  <1>q. UNCHANGED msg_queue => UpWaits' = UpWaits
    BY DEF UpWaits
  <1>1. CASE Press
    <2>1. audioin'.held /\ UNCHANGED <<rmc_link, voice, loop>>
      BY <1>1, <1>t DEF Press
    <2> QED
      BY <2>1 DEF VoiceToldToEnd
  <1>2. CASE Release
    <2>1. /\ UNCHANGED <<rmc_link, voice, loop>>
          /\ audio_cb' = [audio_cb EXCEPT !.send_stop = TRUE, !.send_start = FALSE]
          /\ SendKey("UP")
      BY <1>2 DEF Release, StopFlags
    <2>2. audio_cb'.send_stop = TRUE /\ audio_cb'.send_start = FALSE
      BY <1>t, <2>1
    <2>3. ~dropped' => UpWaits'
      <3>1. ASSUME ~dropped' PROVE msg_queue' = Append(msg_queue, KeyMsg("UP"))
        BY <2>1, <3>1 DEF SendKey
      <3>2. KeyMsg("UP") \in Messages /\ KeyMsg("UP").type = "UP"
        BY MessageFacts
      <3> QED
        BY <1>t, <3>1, <3>2, UpAppended
    <2> QED
      BY <2>1, <2>2, <2>3 DEF VoiceToldToEnd
  <1>3. CASE HalfFull
    <2>1. UNCHANGED <<audio_cb, msg_queue, loop, rmc_link, voice, dropped>>
      BY <1>3 DEF HalfFull
    <2>2. audioin'.held = audioin.held
      BY <1>3, <1>t DEF HalfFull
    <2> QED
      BY <1>q, <2>1, <2>2 DEF VoiceToldToEnd
  <1>4. CASE Full
    <2>1. UNCHANGED <<audioin, audio_cb, loop, rmc_link, voice, dropped>>
      BY <1>4 DEF Full
    <2>2. UpWaits => UpWaits'
      <3>1. \/ msg_queue' = msg_queue
            \/ audioin.completed # NoBuf /\ msg_queue' = Append(msg_queue, Pcm(audioin.completed))
        BY <1>4 DEF Full
      <3>2. audioin.completed # NoBuf => Pcm(audioin.completed) \in Messages
        BY <1>t, MessageFacts DEF MaybeBuf
      <3> QED
        BY <1>q, <1>t, <3>1, <3>2, UpAppended
    <2> QED
      BY <2>1, <2>2 DEF VoiceToldToEnd
  <1>5. CASE ReceiveKey
    <2>1. /\ loop.pc = "loop" /\ msg_queue # <<>> /\ msg_queue' = Tail(msg_queue)
          /\ UNCHANGED <<audioin, audio_cb, rmc_link, voice, dropped>>
      BY <1>5 DEF ReceiveKey, At, NotPool
    <2>2. loop'.pc # "stopped" /\ (rmc_link = "ready" /\ Head(msg_queue).type = "UP" => loop'.pc = "stop")
      BY <1>5, <1>n DEF ReceiveKey, NextMsg
    <2>3. UpWaits /\ Head(msg_queue).type # "UP" => UpWaits'
      BY <1>t, <2>1, UpBehind
    <2> QED
      BY <2>1, <2>2, <2>3 DEF VoiceToldToEnd
  <1>6. CASE ReceivePcm
    <2>1. /\ loop.pc = "loop" /\ msg_queue # <<>> /\ msg_queue' = Tail(msg_queue)
          /\ Head(msg_queue).type = "PCM"
          /\ UNCHANGED <<audioin, audio_cb, rmc_link, voice, dropped>>
      BY <1>6 DEF ReceivePcm, At, NotPool
    <2>2. loop'.pc # "stopped"
      BY <1>6, <1>n DEF ReceivePcm, NextMsg
    <2>3. UpWaits => UpWaits'
      BY <1>t, <2>1, UpBehind
    <2> QED
      BY <2>1, <2>2, <2>3 DEF VoiceToldToEnd
  <1>7. CASE SendStart
    <2>1. /\ loop.pc = "start" /\ UNCHANGED <<audioin, rmc_link, dropped, msg_queue>>
          /\ audio_cb'.send_start = audio_cb.send_start /\ audio_cb'.send_stop = audio_cb.send_stop
      BY <1>7, <1>t DEF SendStart, At, NotPool
    <2>2. loop'.pc # "stopped"
      BY <1>7, <1>n, <1>t DEF SendStart, Goto, AfterStart
    <2>3. voice' = voice \/ (audio_cb.send_start /\ rmc_link = "ready")
      BY <1>7 DEF SendStart
    <2> QED
      BY <1>q, <2>1, <2>2, <2>3 DEF VoiceToldToEnd
  <1>8. CASE ClearStart
    <2>1. /\ loop.pc = "started" /\ UNCHANGED <<audioin, rmc_link, voice, dropped, msg_queue>>
          /\ audio_cb'.send_start = FALSE /\ audio_cb'.send_stop = audio_cb.send_stop
      BY <1>8, <1>t DEF ClearStart, At, NotPool
    <2>2. loop'.pc # "stopped"
      BY <1>8, <1>n, <1>t DEF ClearStart, AfterStart
    <2> QED
      BY <1>q, <2>1, <2>2 DEF VoiceToldToEnd
  <1>9. CASE LoadCount \/ DropBuffer \/ Encode
    <2>1. /\ loop.pc \in {"drop", "dropping"}
          /\ UNCHANGED <<audioin, rmc_link, voice, dropped, msg_queue>>
          /\ audio_cb'.send_start = audio_cb.send_start /\ audio_cb'.send_stop = audio_cb.send_stop
      BY <1>9, <1>t DEF LoadCount, DropBuffer, Encode, At, NotPool
    <2>2. loop'.pc # "stopped"
      BY <1>9, <1>n, <1>t DEF LoadCount, DropBuffer, Encode, Goto
    <2> QED
      BY <1>q, <2>1, <2>2 DEF VoiceToldToEnd
  <1>10. CASE SendStop
    <2>1. loop.pc = "stop" /\ UNCHANGED <<audioin, audio_cb, rmc_link, dropped, msg_queue>>
      BY <1>10 DEF SendStop, At, NotPool
    <2>2. \/ voice' = "ended" /\ rmc_link = "ready"
          \/ /\ voice' = voice /\ loop' = NextMsg
             /\ ~(audio_cb.send_stop /\ rmc_link = "ready")
      BY <1>10 DEF SendStop
    <2> QED
      BY <1>n, <2>1, <2>2 DEF VoiceToldToEnd
  <1>11. CASE ClearStop
    <2>1. /\ loop.pc = "stopped" /\ UNCHANGED <<audioin, rmc_link, voice, dropped, msg_queue>>
          /\ audio_cb'.send_start = audio_cb.send_start
      BY <1>11, <1>t DEF ClearStop, At, NotPool
    <2>2. loop'.pc = "loop"
      BY <1>11, <1>n DEF ClearStop
    <2> QED
      BY <2>1, <2>2 DEF VoiceToldToEnd
  <1>12. CASE LinkChanges
    <2>1. UNCHANGED <<audioin, audio_cb, loop, dropped, msg_queue>>
      BY <1>12 DEF LinkChanges, NotPool
    <2>2. voice' = "none"
      BY <1>12 DEF LinkChanges, VoiceToldToEnd
    <2> QED
      BY <2>1, <2>2 DEF VoiceToldToEnd
  <1>13. CASE UNCHANGED audioVars
    BY <1>13, <1>q DEF audioVars, VoiceToldToEnd
  <1> QED
    BY <1>1, <1>2, <1>3, <1>4, <1>5, <1>6, <1>7, <1>8, <1>9, <1>10, <1>11, <1>12, <1>13
    DEF AudioNext

-----------------------------------------------------------------------------
(***************************************************************************)
(* The two buffers of the hardware.                                        *)
(***************************************************************************)
HardwareBuffers ==
    /\ ~audioin.held => audioin.working = NoBuf /\ audioin.completed = NoBuf /\ ~audioin.running
    /\ phase = "FU" => ~handed
    /\ fault = "none" /\ phase = "HF" => audioin.completed = NoBuf \/ handed

LEMMA HardwareBuffersStep ==
  AudioTypes /\ HardwareBuffers /\ [AudioNext]_audioVars => HardwareBuffers'
  <1> SUFFICES ASSUME AudioTypes, HardwareBuffers, [AudioNext]_audioVars PROVE HardwareBuffers'
    OBVIOUS
  <1>t. audioin \in [running : BOOLEAN, held : BOOLEAN, working : MaybeBuf, completed : MaybeBuf]
    BY DEF AudioTypes, HardwareTypes
  <1>1. CASE Press
    <2>1. ~audioin.held /\ fault' = fault
      BY <1>1 DEF Press
    <2>2. audioin'.held
      BY <1>1, <1>t DEF Press
    <2>3. \/ audioin'.completed = audioin.completed /\ phase' = phase /\ handed' = handed
          \/ audioin'.completed = NoBuf /\ phase' = "HF"
      BY <1>1, <1>t DEF Press
    <2> QED
      BY <2>1, <2>2, <2>3 DEF HardwareBuffers
  <1>2. CASE Release
    <2>1. /\ audioin'.working = NoBuf /\ audioin'.completed = NoBuf /\ audioin'.running = FALSE
          /\ phase' = phase /\ handed' = handed
      BY <1>2 DEF Release
    <2> QED
      BY <2>1 DEF HardwareBuffers
  <1>3. CASE HalfFull
    <2>1. phase' = "FU" /\ handed' = FALSE /\ audioin.running
      BY <1>3 DEF HalfFull
    <2>2. audioin'.held = audioin.held
      BY <1>3, <1>t DEF HalfFull
    <2> QED
      BY <2>1, <2>2 DEF HardwareBuffers
  <1>4. CASE Full
    BY <1>4 DEF Full, HardwareBuffers
  <1>5. CASE ReceiveKey \/ ReceivePcm \/ SendStart \/ ClearStart \/ LoadCount \/ DropBuffer \/
             Encode \/ SendStop \/ ClearStop \/ LinkChanges \/ UNCHANGED audioVars
    <2>1. UNCHANGED <<audioin, phase, handed, fault>>
      BY <1>5 DEF ReceiveKey, ReceivePcm, SendStart, ClearStart, LoadCount, DropBuffer, Encode,
         SendStop, ClearStop, LinkChanges, NotPool, audioVars
    <2> QED
      BY <2>1 DEF HardwareBuffers
  <1> QED
    BY <1>1, <1>2, <1>3, <1>4, <1>5 DEF AudioNext

-----------------------------------------------------------------------------
(***************************************************************************)
(* Every buffer has one owner.  Owners is taken apart into its terms, and  *)
(* the reference count of a buffer says whether it is free.                *)
(***************************************************************************)
One(P) == IF P THEN 1 ELSE 0

Free(b) == Count(pcm_buffer_pool.free, b)
Working(b) == One(audioin.working = b)
Completed(b) == One(audioin.completed = b /\ ~handed)
Queued(b) == Count(msg_queue, Pcm(b))
Held(b) == One(b \in InHand)
Ref(b) == pcm_buffer_pool.ref[b]

Accounted ==
    fault = "none" =>
        \A b \in Bufs : /\ Free(b) + Working(b) + Completed(b) + Queued(b) + Held(b) = 1
                        /\ Ref(b) + Free(b) = 1

LEMMA OwnersSum ==
  \A b : Owners(b) = Free(b) + Working(b) + Completed(b) + Queued(b) + Held(b)
  BY DEF Owners, Free, Working, Completed, Queued, Held, One, Count

LEMMA Naturals ==
  ASSUME AudioTypes, NEW b \in Bufs
  PROVE  /\ Free(b) \in Nat /\ Working(b) \in 0 .. 1 /\ Completed(b) \in 0 .. 1
         /\ Queued(b) \in Nat /\ Held(b) \in 0 .. 1 /\ Ref(b) \in Nat
  <1>1. pcm_buffer_pool.free \in Seq(Bufs) /\ pcm_buffer_pool.ref[b] \in Nat
    <2>1. pcm_buffer_pool.ref \in [Bufs -> 0 .. RefWidth - 1] /\ pcm_buffer_pool.free \in Seq(Bufs)
      BY DEF AudioTypes, PoolTypes, Pools
    <2>2. 0 .. RefWidth - 1 \subseteq Nat
      BY DEF RefWidth
    <2> QED
      BY <2>1, <2>2
  <1>2. msg_queue \in Seq(Messages)
    BY DEF AudioTypes, QueueTypes
  <1>3. Free(b) \in Nat /\ Queued(b) \in Nat
    BY <1>1, <1>2, CountFinite DEF Free, Queued
  <1> QED
    BY <1>1, <1>3 DEF Working, Completed, Held, Ref, One

\* A buffer somebody else owns is not free, and has one reference.
LEMMA OwnedOnce ==
  ASSUME AudioTypes, Accounted, fault = "none", NEW b \in Bufs
  PROVE  /\ Working(b) = 1 => Ref(b) = 1 /\ Completed(b) = 0
         /\ Completed(b) = 1 => Ref(b) = 1
         /\ Queued(b) # 0 => Ref(b) = 1
         /\ Held(b) = 1 => Ref(b) = 1
  <1> DEFINE f == Free(b)  w == Working(b)  c == Completed(b)  q == Queued(b)  h == Held(b)
             r == Ref(b)
  <1>1. f + w + c + q + h = 1 /\ r + f = 1
    BY DEF Accounted
  <1>2. f \in Nat /\ w \in Nat /\ c \in Nat /\ q \in Nat /\ h \in Nat /\ r \in Nat
    BY Naturals
  <1> HIDE DEF f, w, c, q, h, r
  <1>3. /\ w = 1 => r = 1 /\ c = 0
        /\ c = 1 => r = 1
        /\ q # 0 => r = 1
        /\ h = 1 => r = 1
    BY <1>1, <1>2
  <1> QED
    BY <1>3 DEF f, w, c, q, h, r

LEMMA MaybeFreed ==
  ASSUME NEW p \in Pools, NEW b \in MaybeBuf, b # NoBuf => p.ref[b] = 1
  PROVE  /\ pcm_buffer_free(p, b) \in Pools
         /\ \A x \in Bufs :
               /\ pcm_buffer_free(p, b).ref[x] = IF x = b THEN 0 ELSE p.ref[x]
               /\ Count(pcm_buffer_free(p, b).free, x) = Count(p.free, x) + One(x = b)
  <1>1. CASE b = NoBuf
    <2>1. pcm_buffer_free(p, b) = p /\ \A x \in Bufs : x # b
      BY <1>1, AudioAssumption DEF pcm_buffer_free
    <2>2. \A x \in Bufs : Count(p.free, x) \in Nat
      BY CountFinite DEF Pools
    <2> QED
      BY <2>1, <2>2 DEF One
  <1>2. CASE b # NoBuf
    <2>1. pcm_buffer_free(p, b) = Unref(p, b) /\ b \in Bufs
      BY <1>2 DEF pcm_buffer_free, MaybeBuf
    <2> QED
      BY <1>2, <2>1, PoolFreed DEF One
  <1> QED
    BY <1>1, <1>2

LEMMA QueuedAppended ==
  ASSUME QueueTypes, NEW m \in Messages, msg_queue' = Append(msg_queue, m), NEW b \in Bufs
  PROVE  Queued(b)' = Queued(b) + One(m = Pcm(b))
  BY CountAppend DEF Queued, QueueTypes, One

LEMMA QueuedTaken ==
  ASSUME QueueTypes, msg_queue # <<>>, msg_queue' = Tail(msg_queue), NEW b \in Bufs
  PROVE  Queued(b) = Queued(b)' + One(Head(msg_queue) = Pcm(b))
  BY CountTail DEF Queued, QueueTypes, One

LEMMA KeyNotQueued ==
  ASSUME AudioTypes, NEW d \in {"UP", "DOWN"}, SendKey(d), NEW b \in Bufs
  PROVE  Queued(b)' = Queued(b)
  <1>1. KeyMsg(d) \in Messages /\ KeyMsg(d) # Pcm(b)
    BY MessageFacts
  <1>2. msg_queue' = msg_queue \/ msg_queue' = Append(msg_queue, KeyMsg(d))
    BY DEF SendKey
  <1>3. CASE msg_queue' = msg_queue
    BY <1>3 DEF Queued
  <1>4. CASE msg_queue' = Append(msg_queue, KeyMsg(d))
    <2>1. Queued(b)' = Queued(b) + One(KeyMsg(d) = Pcm(b))
      BY <1>1, <1>4, QueuedAppended DEF AudioTypes
    <2>2. One(KeyMsg(d) = Pcm(b)) = 0
      BY <1>1 DEF One
    <2> QED
      BY <2>1, <2>2, Naturals
  <1> QED
    BY <1>2, <1>3, <1>4

\* What one step may do to the owners of a buffer, as numbers.
LEMMA Moved ==
  ASSUME NEW f \in Nat, NEW w \in Nat, NEW c \in Nat, NEW q \in Nat, NEW h \in Nat, NEW r \in Nat,
         f + w + c + q + h = 1, r + f = 1,
         NEW f2, NEW w2, NEW c2, NEW q2, NEW h2, NEW r2, NEW x \in 0 .. 1,
         \/ f = f2 + x /\ f2 \in Nat /\ r2 = (IF x = 1 THEN 1 ELSE r) /\ w2 + c2 = w + c + x /\
            q2 = q /\ h2 = h /\ w2 \in Nat /\ c2 \in Nat
         \/ f2 = f + x /\ r2 = (IF x = 1 THEN 0 ELSE r) /\ w2 + c2 + q2 + h2 + x = w + c + q + h /\
            w2 \in Nat /\ c2 \in Nat /\ q2 \in Nat /\ h2 \in Nat
  PROVE  f2 + w2 + c2 + q2 + h2 = 1 /\ r2 + f2 = 1
  OBVIOUS

\* The head of the free list goes to the hardware.
Takes(b, x) ==
    /\ x \in 0 .. 1 /\ Free(b) = Free(b)' + x /\ Free(b)' \in Nat
    /\ Ref(b)' = IF x = 1 THEN 1 ELSE Ref(b)
    /\ Working(b)' + Completed(b)' = Working(b) + Completed(b) + x
    /\ Queued(b)' = Queued(b) /\ Held(b)' = Held(b)

\* A buffer moves on, or goes back to the free list.
Passes(b, x) ==
    /\ x \in 0 .. 1 /\ Free(b)' = Free(b) + x
    /\ Ref(b)' = IF x = 1 THEN 0 ELSE Ref(b)
    /\ Working(b)' + Completed(b)' + Queued(b)' + Held(b)' + x =
          Working(b) + Completed(b) + Queued(b) + Held(b)

LEMMA StillAccounted ==
  ASSUME AudioTypes, AudioTypes', Accounted, fault = "none",
         NEW b \in Bufs, NEW x, Takes(b, x) \/ Passes(b, x)
  PROVE  /\ Free(b)' + Working(b)' + Completed(b)' + Queued(b)' + Held(b)' = 1
         /\ Ref(b)' + Free(b)' = 1
  <1> DEFINE f == Free(b)  w == Working(b)  c == Completed(b)  q == Queued(b)  h == Held(b)
             r == Ref(b)
             f2 == Free(b)'  w2 == Working(b)'  c2 == Completed(b)'  q2 == Queued(b)'  h2 == Held(b)'
             r2 == Ref(b)'
  <1>1. f + w + c + q + h = 1 /\ r + f = 1
    BY DEF Accounted
  <1>2. f \in Nat /\ w \in Nat /\ c \in Nat /\ q \in Nat /\ h \in Nat /\ r \in Nat
    BY Naturals
  <1>3. w2 \in Nat /\ c2 \in Nat /\ q2 \in Nat /\ h2 \in Nat
    <2>1. msg_queue' \in Seq(Messages)
      BY DEF AudioTypes, QueueTypes
    <2>2. q2 \in Nat
      BY <2>1, CountFinite DEF Queued
    <2> QED
      BY <2>2 DEF Working, Completed, Held, One
  <1>4. /\ x \in 0 .. 1
        /\ \/ f = f2 + x /\ f2 \in Nat /\ r2 = (IF x = 1 THEN 1 ELSE r) /\ w2 + c2 = w + c + x /\
              q2 = q /\ h2 = h
           \/ f2 = f + x /\ r2 = (IF x = 1 THEN 0 ELSE r) /\ w2 + c2 + q2 + h2 + x = w + c + q + h
    BY DEF Takes, Passes
  <1> HIDE DEF f, w, c, q, h, r, f2, w2, c2, q2, h2, r2
  <1>5. f2 + w2 + c2 + q2 + h2 = 1 /\ r2 + f2 = 1
    BY <1>1, <1>2, <1>3, <1>4, Moved
  <1> QED
    BY <1>5 DEF f2, w2, c2, q2, h2, r2

\* A step that leaves the pool and the terms of the sum alone.
LEMMA NothingMoves ==
  ASSUME AudioTypes, NEW b \in Bufs, UNCHANGED pcm_buffer_pool,
         Working(b)' = Working(b), Completed(b)' = Completed(b), Queued(b)' = Queued(b),
         Held(b)' = Held(b)
  PROVE  Passes(b, 0)
  <1>1. Free(b)' = Free(b) /\ Ref(b)' = Ref(b)
    BY DEF Free, Ref
  <1> QED
    BY <1>1, Naturals DEF Passes

LEMMA PressTakes ==
  ASSUME AudioTypes, HardwareBuffers, Press, NEW b \in Bufs
  PROVE  Passes(b, 0) \/ \E x : Takes(b, x)
  <1> DEFINE first == Head(pcm_buffer_pool.free)
  <1>1. audioin.working = NoBuf /\ audioin.completed = NoBuf /\ b # NoBuf
    BY AudioAssumption DEF Press, HardwareBuffers
  <1>2. Working(b) = 0 /\ Completed(b) = 0
    BY <1>1 DEF Working, Completed, One
  <1>3. Queued(b)' = Queued(b) /\ Held(b)' = Held(b)
    <2>1. SendKey("DOWN") /\ loop' = loop
      BY DEF Press
    <2> QED
      BY <2>1, KeyNotQueued DEF Held, InHand
  <1>4. audioin \in [running : BOOLEAN, held : BOOLEAN, working : MaybeBuf, completed : MaybeBuf]
    BY DEF AudioTypes, HardwareTypes
  <1>5. CASE pcm_buffer_pool.free = <<>>
    <2>1. audioin' = [audioin EXCEPT !.held = TRUE] /\ UNCHANGED <<pcm_buffer_pool, handed>>
      BY <1>5 DEF Press
    <2>2. Working(b)' = Working(b) /\ Completed(b)' = Completed(b)
      BY <1>4, <2>1 DEF Working, Completed
    <2> QED
      BY <1>3, <2>1, <2>2, NothingMoves
  <1>6. CASE pcm_buffer_pool.free # <<>>
    <2>1. /\ pcm_buffer_pool' = Alloc(pcm_buffer_pool)
          /\ audioin'.working = first /\ audioin'.completed = NoBuf
      BY <1>6 DEF Press
    <2> DEFINE x == One(b = first)
    <2>2. x \in 0 .. 1 /\ Working(b)' = x /\ Completed(b)' = 0
      BY <1>1, <2>1 DEF Working, Completed, One
    <2>3. /\ Alloc(pcm_buffer_pool) \in Pools
          /\ Alloc(pcm_buffer_pool).ref[b] = IF b = first THEN 1 ELSE pcm_buffer_pool.ref[b]
          /\ Count(pcm_buffer_pool.free, b) = Count(Alloc(pcm_buffer_pool).free, b) +
                                              (IF b = first THEN 1 ELSE 0)
      BY <1>6, PoolAllocated DEF AudioTypes, PoolTypes
    <2>4. Free(b) = Free(b)' + x /\ Ref(b)' = IF x = 1 THEN 1 ELSE Ref(b)
      BY <2>1, <2>3 DEF Free, Ref, One
    <2>5. Free(b)' \in Nat
      BY <2>1, <2>3, CountFinite DEF Free, Pools
    <2> HIDE DEF x
    <2>6. Takes(b, x)
      BY <1>2, <1>3, <2>2, <2>4, <2>5, Naturals DEF Takes
    <2> QED
      BY <2>6
  <1> QED
    BY <1>5, <1>6

LEMMA HalfFullTakes ==
  ASSUME AudioTypes, HardwareBuffers, HalfFull, fault = "none", fault' = "none", NEW b \in Bufs
  PROVE  Passes(b, 0) \/ \E x : Takes(b, x)
  <1> DEFINE first == Head(pcm_buffer_pool.free)
  <1>1. audioin \in [running : BOOLEAN, held : BOOLEAN, working : MaybeBuf, completed : MaybeBuf]
    BY DEF AudioTypes, HardwareTypes
  <1>2. audioin.completed = NoBuf \/ handed
    BY DEF HalfFull, HardwareBuffers, AudioTypes, HardwareTypes
  <1>3. Completed(b) = 0 /\ b # NoBuf
    BY <1>2, AudioAssumption DEF Completed, One
  <1>4. Queued(b)' = Queued(b) /\ Held(b)' = Held(b) /\ handed' = FALSE
    BY DEF HalfFull, Queued, Held, InHand
  <1>5. CASE pcm_buffer_pool.free = <<>>
    <2>1. audioin' = [audioin EXCEPT !.completed = NoBuf] /\ UNCHANGED pcm_buffer_pool
      BY <1>5 DEF HalfFull
    <2>2. audioin'.working = audioin.working /\ audioin'.completed = NoBuf
      BY <1>1, <2>1
    <2>3. Working(b)' = Working(b) /\ Completed(b)' = Completed(b)
      BY <1>3, <2>2 DEF Working, Completed, One
    <2> QED
      BY <1>4, <2>1, <2>3, NothingMoves
  <1>6. CASE pcm_buffer_pool.free # <<>>
    <2>1. /\ pcm_buffer_pool' = Alloc(pcm_buffer_pool)
          /\ audioin' = [audioin EXCEPT !.completed = audioin.working, !.working = first]
      BY <1>6 DEF HalfFull
    <2>2. audioin'.working = first /\ audioin'.completed = audioin.working
      BY <1>1, <2>1
    <2> DEFINE x == One(b = first)
    <2>3. x \in 0 .. 1 /\ Working(b)' = x /\ Completed(b)' = Working(b)
      BY <1>4, <2>2 DEF Working, Completed, One
    <2>4. /\ Alloc(pcm_buffer_pool) \in Pools
          /\ Alloc(pcm_buffer_pool).ref[b] = IF b = first THEN 1 ELSE pcm_buffer_pool.ref[b]
          /\ Count(pcm_buffer_pool.free, b) = Count(Alloc(pcm_buffer_pool).free, b) +
                                              (IF b = first THEN 1 ELSE 0)
      BY <1>6, PoolAllocated DEF AudioTypes, PoolTypes
    <2>5. Free(b) = Free(b)' + x /\ Ref(b)' = IF x = 1 THEN 1 ELSE Ref(b)
      BY <2>1, <2>4 DEF Free, Ref, One
    <2>6. Free(b)' \in Nat
      BY <2>1, <2>4, CountFinite DEF Free, Pools
    <2> HIDE DEF x
    <2>7. Takes(b, x)
      BY <1>3, <1>4, <2>3, <2>5, <2>6, Naturals DEF Takes
    <2> QED
      BY <2>7
  <1> QED
    BY <1>5, <1>6

LEMMA FullPasses ==
  ASSUME AudioTypes, HardwareBuffers, Accounted, Full, fault = "none", NEW b \in Bufs
  PROVE  \E x : Passes(b, x)
  <1> DEFINE done == audioin.completed
  <1>1. ~handed /\ done \in MaybeBuf /\ b # NoBuf
    BY AudioAssumption DEF Full, HardwareBuffers, AudioTypes, HardwareTypes
  <1>2. Working(b)' = Working(b) /\ Held(b)' = Held(b) /\ audioin' = audioin
    BY DEF Full, Working, Held, InHand
  <1>3. CASE done = NoBuf
    <2>1. UNCHANGED <<msg_queue, pcm_buffer_pool, handed>>
      BY <1>3 DEF Full
    <2>2. Completed(b)' = Completed(b) /\ Queued(b)' = Queued(b)
      BY <1>2, <2>1 DEF Completed, Queued
    <2>3. Passes(b, 0)
      BY <1>2, <2>1, <2>2, NothingMoves
    <2> QED
      BY <2>3
  <1>4. CASE done # NoBuf /\ Room
    <2>1. msg_queue' = Append(msg_queue, Pcm(done)) /\ handed' = TRUE /\ UNCHANGED pcm_buffer_pool
      BY <1>4 DEF Full
    <2>2. done \in Bufs /\ Pcm(done) \in Messages /\ (Pcm(done) = Pcm(b) <=> done = b)
      BY <1>1, <1>4, MessageFacts DEF MaybeBuf
    <2> DEFINE y == One(done = b)
    <2>3. Completed(b) = y /\ Completed(b)' = 0 /\ y \in 0 .. 1
      BY <1>1, <1>2, <2>1 DEF Completed, One
    <2>4. Queued(b)' = Queued(b) + One(Pcm(done) = Pcm(b))
      BY <2>1, <2>2, QueuedAppended DEF AudioTypes
    <2>5. One(Pcm(done) = Pcm(b)) = y
      BY <2>2 DEF One
    <2>6. Free(b)' = Free(b) /\ Ref(b)' = Ref(b)
      BY <2>1 DEF Free, Ref
    <2> HIDE DEF y
    <2>7. Passes(b, 0)
      BY <1>2, <2>3, <2>4, <2>5, <2>6, Naturals DEF Passes
    <2> QED
      BY <2>7
  <1>5. CASE done # NoBuf /\ ~Room
    <2>1. pcm_buffer_pool' = Unref(pcm_buffer_pool, done) /\ handed' = TRUE /\ UNCHANGED msg_queue
      BY <1>5 DEF Full
    <2>2. done \in Bufs /\ Completed(done) = 1
      BY <1>1, <1>5 DEF MaybeBuf, Completed, One
    <2>3. pcm_buffer_pool.ref[done] = 1
      BY <2>2, OwnedOnce DEF Ref
    <2> DEFINE x == One(b = done)
    <2>4. Completed(b) = x /\ Completed(b)' = 0 /\ x \in 0 .. 1 /\ Queued(b)' = Queued(b)
      BY <1>1, <1>2, <2>1 DEF Completed, One, Queued
    <2>5. /\ Unref(pcm_buffer_pool, done).ref[b] = IF b = done THEN 0 ELSE pcm_buffer_pool.ref[b]
          /\ Count(Unref(pcm_buffer_pool, done).free, b) = Count(pcm_buffer_pool.free, b) +
                                                           (IF b = done THEN 1 ELSE 0)
      BY <2>2, <2>3, PoolFreed DEF AudioTypes, PoolTypes
    <2>6. Free(b)' = Free(b) + x /\ Ref(b)' = IF x = 1 THEN 0 ELSE Ref(b)
      BY <2>1, <2>5 DEF Free, Ref, One
    <2> HIDE DEF x
    <2>7. Passes(b, x)
      BY <1>2, <2>4, <2>6, Naturals DEF Passes
    <2> QED
      BY <2>7
  <1> QED
    BY <1>3, <1>4, <1>5

\* A stopped recording frees both buffers of the hardware: they are two, and
\* neither was handed on.
LEMMA ReleasePasses ==
  ASSUME AudioTypes, Accounted, Release, fault = "none", fault' = "none", NEW b \in Bufs
  PROVE  \E x : Passes(b, x)
  <1> DEFINE w == audioin.working
             c == audioin.completed
             p == pcm_buffer_pool
             p1 == pcm_buffer_free(p, w)
             p2 == pcm_buffer_free(p1, c)
  <1>1. w \in MaybeBuf /\ c \in MaybeBuf /\ p \in Pools /\ NoBuf \notin Bufs
    BY AudioAssumption DEF AudioTypes, HardwareTypes, PoolTypes
  <1>2. c # NoBuf => ~handed
    BY DEF Release
  <1>3. pcm_buffer_pool' = p2 /\ audioin'.working = NoBuf /\ audioin'.completed = NoBuf
    BY DEF Release, Released
  <1>4. Queued(b)' = Queued(b) /\ Held(b)' = Held(b)
    <2>1. SendKey("UP") /\ loop' = loop
      BY DEF Release
    <2> QED
      BY <2>1, KeyNotQueued DEF Held, InHand
  <1>5. w # NoBuf => p.ref[w] = 1
    <2> SUFFICES ASSUME w # NoBuf PROVE p.ref[w] = 1
      OBVIOUS
    <2>1. w \in Bufs /\ Working(w) = 1
      BY <1>1 DEF MaybeBuf, Working, One
    <2> QED
      BY <2>1, OwnedOnce DEF Ref
  <1>6. c # NoBuf => p.ref[c] = 1 /\ c # w
    <2> SUFFICES ASSUME c # NoBuf PROVE p.ref[c] = 1 /\ c # w
      OBVIOUS
    <2>1. c \in Bufs /\ Completed(c) = 1
      BY <1>1, <1>2 DEF MaybeBuf, Completed, One
    <2>2. Working(c) # 1
      BY <2>1, OwnedOnce
    <2>3. c # w
      BY <2>2 DEF Working, One
    <2> QED
      BY <2>1, <2>3, OwnedOnce DEF Ref
  <1> HIDE DEF p1, p2
  <1>7. /\ p1 \in Pools
        /\ \A x \in Bufs : /\ p1.ref[x] = IF x = w THEN 0 ELSE p.ref[x]
                           /\ Count(p1.free, x) = Count(p.free, x) + One(x = w)
    BY <1>1, <1>5, MaybeFreed DEF p1
  <1>8. c # NoBuf => p1.ref[c] = 1
    BY <1>1, <1>6, <1>7 DEF MaybeBuf
  <1>9. \A x \in Bufs : /\ p2.ref[x] = IF x = c THEN 0 ELSE p1.ref[x]
                        /\ Count(p2.free, x) = Count(p1.free, x) + One(x = c)
    BY <1>1, <1>7, <1>8, MaybeFreed DEF p2
  <1>10. ~(b = w /\ b = c)
    BY <1>1, <1>6
  <1> DEFINE x == One(b = w) + One(b = c)
  <1>11. x \in 0 .. 1 /\ One(b = w) \in Nat /\ One(b = c) \in Nat
    BY <1>10 DEF One
  <1>12. Working(b) = One(b = w) /\ Completed(b) = One(b = c)
    BY <1>1, <1>2 DEF Working, Completed, One
  <1>13. Working(b)' = 0 /\ Completed(b)' = 0
    BY <1>1, <1>3 DEF Working, Completed, One
  <1>14. Ref(b)' = IF x = 1 THEN 0 ELSE Ref(b)
    <2>1. Ref(b)' = p2.ref[b] /\ Ref(b) = p.ref[b]
      BY <1>3 DEF Ref
    <2>2. p2.ref[b] = IF b = c \/ b = w THEN 0 ELSE p.ref[b]
      BY <1>7, <1>9
    <2>3. x = 1 <=> (b = c \/ b = w)
      BY <1>10 DEF One
    <2> QED
      BY <2>1, <2>2, <2>3
  <1>15. Free(b)' = Free(b) + x
    <2> DEFINE f == Count(p.free, b)  f1 == Count(p1.free, b)  f2 == Count(p2.free, b)
               ow == One(b = w)  oc == One(b = c)
    <2>1. f1 = f + ow /\ f2 = f1 + oc /\ ow \in Nat /\ oc \in Nat
      BY <1>7, <1>9, <1>11
    <2>2. Free(b)' = f2 /\ Free(b) = f /\ f \in Nat
      BY <1>3, Naturals DEF Free
    <2> HIDE DEF f, f1, f2, ow, oc
    <2>3. f2 = f + (ow + oc)
      BY <2>1, <2>2
    <2> QED
      BY <2>2, <2>3 DEF ow, oc
  <1>16. Working(b)' + Completed(b)' + Queued(b)' + Held(b)' + x =
            Working(b) + Completed(b) + Queued(b) + Held(b)
    <2> DEFINE q == Queued(b)  h == Held(b)  ow == One(b = w)  oc == One(b = c)
    <2>1. q \in Nat /\ h \in Nat /\ ow \in Nat /\ oc \in Nat
      BY <1>11, Naturals
    <2> HIDE DEF q, h, ow, oc
    <2>2. 0 + 0 + q + h + (ow + oc) = ow + oc + q + h
      BY <2>1
    <2> QED
      BY <1>4, <1>12, <1>13, <2>2 DEF q, h, ow, oc
  <1> HIDE DEF x
  <1>17. Passes(b, x)
    BY <1>11, <1>14, <1>15, <1>16 DEF Passes
  <1> QED
    BY <1>17

LEMMA ReceiveKeyPasses ==
  ASSUME AudioTypes, ReceiveKey, NEW b \in Bufs
  PROVE  Passes(b, 0)
  <1>1. /\ msg_queue # <<>> /\ msg_queue' = Tail(msg_queue) /\ Head(msg_queue).type # "PCM"
        /\ loop.pc = "loop" /\ UNCHANGED <<pcm_buffer_pool, audioin, handed>>
    BY DEF ReceiveKey, At, NotPool
  <1>2. One(Head(msg_queue) = Pcm(b)) = 0
    BY <1>1, MessageFacts DEF One
  <1>3. Queued(b)' = Queued(b)
    <2>1. Queued(b) = Queued(b)' + One(Head(msg_queue) = Pcm(b))
      BY <1>1, QueuedTaken DEF AudioTypes
    <2>2. Queued(b)' \in Nat
      <3>1. msg_queue' \in Seq(Messages)
        BY <1>1, QueueHead DEF AudioTypes
      <3> QED
        BY <3>1, CountFinite DEF Queued
    <2> QED
      BY <1>2, <2>1, <2>2
  <1>4. Held(b) = 0
    BY <1>1 DEF Held, InHand, One
  <1>5. InHand' = {}
    <2>1. loop' = NextMsg \/ loop' = [NextMsg EXCEPT !.pc = "start", !.msg = Head(msg_queue)]
                          \/ loop' = [NextMsg EXCEPT !.pc = "stop", !.msg = Head(msg_queue)]
      BY DEF ReceiveKey
    <2>2. loop'.pc = "loop" \/ loop'.msg = Head(msg_queue)
      <3>1. ASSUME NEW s, NEW m PROVE [NextMsg EXCEPT !.pc = s, !.msg = m].msg = m
        BY DEF NextMsg
      <3>2. NextMsg.pc = "loop"
        BY DEF NextMsg
      <3> QED
        BY <2>1, <3>1, <3>2
    <2>3. loop'.pc = "loop" \/ loop'.msg.type # "PCM"
      BY <1>1, <2>2
    <2> QED
      BY <2>3 DEF InHand
  <1>6. Held(b)' = Held(b)
    BY <1>4, <1>5 DEF Held, One
  <1>7. Working(b)' = Working(b) /\ Completed(b)' = Completed(b)
    BY <1>1 DEF Working, Completed
  <1> QED
    BY <1>1, <1>3, <1>6, <1>7, NothingMoves

LEMMA ReceivePcmPasses ==
  ASSUME AudioTypes, Accounted, ReceivePcm, fault = "none", NEW b \in Bufs
  PROVE  \E x : Passes(b, x)
  <1> DEFINE m == Head(msg_queue)
             y == One(b = m.buf)
             q2 == Queued(b)'
  <1>1. /\ msg_queue # <<>> /\ msg_queue' = Tail(msg_queue) /\ m.type = "PCM"
        /\ loop.pc = "loop" /\ UNCHANGED <<audioin, handed>>
    BY DEF ReceivePcm, At, NotPool
  <1>2. m \in Messages /\ m.buf \in Bufs /\ m = Pcm(m.buf) /\ (m = Pcm(b) <=> b = m.buf)
    <2>1. m \in Messages
      BY <1>1, QueueHead DEF AudioTypes
    <2> QED
      BY <1>1, <2>1, MessageFacts
  <1>3. Queued(b) = q2 + y /\ q2 \in Nat /\ y \in 0 .. 1
    <2>1. Queued(b) = Queued(b)' + One(m = Pcm(b))
      BY <1>1, QueuedTaken DEF AudioTypes
    <2>2. msg_queue' \in Seq(Messages)
      BY <1>1, QueueHead DEF AudioTypes
    <2>3. Queued(b)' \in Nat
      BY <2>2, CountFinite DEF Queued
    <2> QED
      BY <1>2, <2>1, <2>3 DEF One
  <1>4. Held(b) = 0 /\ Working(b)' = Working(b) /\ Completed(b)' = Completed(b)
    BY <1>1 DEF Held, InHand, One, Working, Completed
  <1>5. CASE rmc_link = "none"
    <2>1. loop' = NextMsg /\ pcm_buffer_pool' = Unref(pcm_buffer_pool, m.buf)
      BY <1>2, <1>5, AudioAssumption DEF ReceivePcm, pcm_buffer_free
    <2>2. Held(b)' = 0
      BY <2>1 DEF Held, InHand, NextMsg, One
    <2>3. pcm_buffer_pool.ref[m.buf] = 1
      <3>1. PICK a \in Bufs : a = m.buf
        BY <1>2
      <3>2. Queued(a) = Queued(a)' + One(m = Pcm(a))
        BY <1>1, QueuedTaken DEF AudioTypes
      <3>3. msg_queue' \in Seq(Messages)
        BY <1>1, QueueHead DEF AudioTypes
      <3>4. Queued(a)' \in Nat
        BY <3>3, CountFinite DEF Queued
      <3>5. One(m = Pcm(a)) = 1
        BY <1>2, <3>1 DEF One
      <3>6. Queued(a) # 0
        BY <3>2, <3>4, <3>5
      <3> QED
        BY <3>1, <3>6, OwnedOnce DEF Ref
    <2>4. /\ Unref(pcm_buffer_pool, m.buf).ref[b] = IF b = m.buf THEN 0 ELSE pcm_buffer_pool.ref[b]
          /\ Count(Unref(pcm_buffer_pool, m.buf).free, b) = Count(pcm_buffer_pool.free, b) +
                                                           (IF b = m.buf THEN 1 ELSE 0)
      BY <1>2, <2>3, PoolFreed DEF AudioTypes, PoolTypes
    <2>5. Free(b)' = Free(b) + y /\ Ref(b)' = IF y = 1 THEN 0 ELSE Ref(b)
      BY <2>1, <2>4 DEF Free, Ref, One
    <2> HIDE DEF y
    <2>6. Passes(b, y)
      BY <1>3, <1>4, <2>2, <2>5, Naturals DEF Passes
    <2> QED
      BY <2>6
  <1>6. CASE rmc_link # "none"
    <2>1. loop' = [NextMsg EXCEPT !.pc = "start", !.msg = m] /\ UNCHANGED pcm_buffer_pool
      BY <1>6 DEF ReceivePcm
    <2>2. loop'.pc = "start" /\ loop'.msg = m
      BY <2>1 DEF NextMsg
    <2>3. Held(b)' = y
      BY <1>1, <2>2 DEF Held, InHand, One
    <2>4. Free(b)' = Free(b) /\ Ref(b)' = Ref(b)
      BY <2>1 DEF Free, Ref
    <2> HIDE DEF y
    <2>5. Passes(b, 0)
      BY <1>3, <1>4, <2>3, <2>4, Naturals DEF Passes
    <2> QED
      BY <2>5
  <1> QED
    BY <1>5, <1>6

LEMMA LoopPasses ==
  ASSUME AudioTypes, SendStart \/ ClearStart \/ LoadCount \/ SendStop \/ ClearStop, NEW b \in Bufs
  PROVE  Passes(b, 0)
  <1>1. UNCHANGED <<pcm_buffer_pool, audioin, handed, msg_queue>>
    BY DEF SendStart, ClearStart, LoadCount, SendStop, ClearStop, NotPool
  <1>2. Working(b)' = Working(b) /\ Completed(b)' = Completed(b) /\ Queued(b)' = Queued(b)
    BY <1>1 DEF Working, Completed, Queued
  <1>3. /\ loop \in [pc : Steps, msg : Messages, count : Int]
        /\ loop.pc \in {"drop", "dropping"} => loop.msg.type = "PCM"
    BY DEF AudioTypes, LoopTypes
  <1>4. NextMsg.pc = "loop"
    BY DEF NextMsg
  <1>5. InHand' = InHand
    <2>1. CASE SendStart \/ ClearStart
      <3>1. loop.pc \in {"start", "started"}
        BY <2>1 DEF SendStart, ClearStart, At
      <3>2. \/ loop' = [loop EXCEPT !.pc = "started"]
            \/ loop' = [loop EXCEPT !.pc = "drop"]
            \/ loop' = NextMsg /\ loop.msg.type # "PCM"
        BY <2>1 DEF SendStart, ClearStart, AfterStart, Goto
      <3> QED
        BY <1>3, <1>4, <3>1, <3>2 DEF InHand
    <2>2. CASE LoadCount
      <3>1. loop.pc = "drop" /\ loop'.pc = "dropping" /\ loop'.msg = loop.msg
        BY <1>3, <2>2 DEF LoadCount, At
      <3> QED
        BY <3>1 DEF InHand
    <2>3. CASE SendStop \/ ClearStop
      <3>1. loop.pc \in {"stop", "stopped"} /\ loop'.pc \in {"stopped", "loop"}
        BY <1>3, <1>4, <2>3 DEF SendStop, ClearStop, At, Goto
      <3> QED
        BY <3>1 DEF InHand
    <2> QED
      BY <2>1, <2>2, <2>3
  <1>6. Held(b)' = Held(b)
    BY <1>5 DEF Held
  <1> QED
    BY <1>1, <1>2, <1>6, NothingMoves

LEMMA UsedPasses ==
  ASSUME AudioTypes, Accounted, DropBuffer \/ Encode, fault = "none", NEW b \in Bufs
  PROVE  \E x : Passes(b, x)
  <1> DEFINE x == One(b = loop.msg.buf)
  <1>1. UNCHANGED <<audioin, handed, msg_queue>>
    BY DEF DropBuffer, Encode, NotPool
  <1>2. Working(b)' = Working(b) /\ Completed(b)' = Completed(b) /\ Queued(b)' = Queued(b)
    BY <1>1 DEF Working, Completed, Queued
  <1>3. /\ loop \in [pc : Steps, msg : Messages, count : Int]
        /\ loop.pc \in {"drop", "dropping"} /\ loop.msg.type = "PCM"
    BY DEF AudioTypes, LoopTypes, DropBuffer, Encode, At
  <1>4. loop.msg.buf \in Bufs
    BY <1>3, MessageFacts
  <1>5. pcm_buffer_pool' = Unref(pcm_buffer_pool, loop.msg.buf)
    BY <1>4, AudioAssumption DEF DropBuffer, Encode, pcm_buffer_free
  <1>6. loop'.pc \in {"loop", "stop"}
    BY <1>3 DEF DropBuffer, Encode, Goto, NextMsg
  <1>7. Held(b) = x /\ Held(b)' = 0 /\ x \in 0 .. 1 /\ Held(loop.msg.buf) = 1
    BY <1>3, <1>6 DEF Held, InHand, One
  <1>8. pcm_buffer_pool.ref[loop.msg.buf] = 1
    BY <1>4, <1>7, OwnedOnce DEF Ref
  <1>9. /\ Unref(pcm_buffer_pool, loop.msg.buf).ref[b] =
              IF b = loop.msg.buf THEN 0 ELSE pcm_buffer_pool.ref[b]
        /\ Count(Unref(pcm_buffer_pool, loop.msg.buf).free, b) =
              Count(pcm_buffer_pool.free, b) + (IF b = loop.msg.buf THEN 1 ELSE 0)
    BY <1>4, <1>8, PoolFreed DEF AudioTypes, PoolTypes
  <1>10. Free(b)' = Free(b) + x /\ Ref(b)' = IF x = 1 THEN 0 ELSE Ref(b)
    BY <1>5, <1>9 DEF Free, Ref, One
  <1> HIDE DEF x
  <1>11. Passes(b, x)
    BY <1>2, <1>7, <1>10, Naturals DEF Passes
  <1> QED
    BY <1>11

LEMMA AccountedStep ==
  AudioTypes /\ AudioTypes' /\ HardwareBuffers /\ Accounted /\ [AudioNext]_audioVars => Accounted'
  <1> SUFFICES ASSUME AudioTypes, AudioTypes', HardwareBuffers, Accounted, [AudioNext]_audioVars,
                      fault' = "none", NEW b \in Bufs
               PROVE  /\ Free(b)' + Working(b)' + Completed(b)' + Queued(b)' + Held(b)' = 1
                      /\ Ref(b)' + Free(b)' = 1
    BY DEF Accounted
  <1>1. fault = "none"
    BY DEF AudioNext, Press, Release, HalfFull, Full, ReceiveKey, ReceivePcm, SendStart, ClearStart,
       LoadCount, DropBuffer, Encode, SendStop, ClearStop, LinkChanges, NotPool, audioVars
  <1>2. CASE LinkChanges \/ UNCHANGED audioVars
    <2>1. UNCHANGED <<pcm_buffer_pool, audioin, msg_queue, loop, handed>>
      BY <1>2 DEF LinkChanges, NotPool, audioVars
    <2>2. /\ Working(b)' = Working(b) /\ Completed(b)' = Completed(b) /\ Queued(b)' = Queued(b)
          /\ Held(b)' = Held(b)
      BY <2>1 DEF Working, Completed, Queued, Held, InHand
    <2> QED
      BY <1>1, <2>1, <2>2, NothingMoves, StillAccounted
  <1>3. CASE Press
    BY <1>1, <1>3, PressTakes, StillAccounted
  <1>4. CASE Release
    BY <1>1, <1>4, ReleasePasses, StillAccounted
  <1>5. CASE HalfFull
    BY <1>1, <1>5, HalfFullTakes, StillAccounted
  <1>6. CASE Full
    BY <1>1, <1>6, FullPasses, StillAccounted
  <1>7. CASE ReceiveKey
    BY <1>1, <1>7, ReceiveKeyPasses, StillAccounted
  <1>8. CASE ReceivePcm
    BY <1>1, <1>8, ReceivePcmPasses, StillAccounted
  <1>9. CASE SendStart \/ ClearStart \/ LoadCount \/ SendStop \/ ClearStop
    BY <1>1, <1>9, LoopPasses, StillAccounted
  <1>10. CASE DropBuffer \/ Encode
    BY <1>1, <1>10, UsedPasses, StillAccounted
  <1> QED
    BY <1>2, <1>3, <1>4, <1>5, <1>6, <1>7, <1>8, <1>9, <1>10 DEF AudioNext

-----------------------------------------------------------------------------
(***************************************************************************)
(* The theorems.                                                           *)
(***************************************************************************)
AudioInv == AudioTypes /\ VoiceToldToEnd /\ HardwareBuffers /\ Accounted

LEMMA AudioInvInit == AudioInit => AudioInv
  <1> SUFFICES ASSUME AudioInit PROVE AudioInv
    OBVIOUS
  <1>1. /\ pcm_buffer_pool \in Pools
        /\ \A b \in Bufs : pcm_buffer_pool.ref[b] = 0 /\ Count(pcm_buffer_pool.free, b) = 1
    BY PoolAtFirst DEF AudioInit
  <1>2. /\ audioin = [running |-> FALSE, held |-> FALSE, working |-> NoBuf, completed |-> NoBuf]
        /\ msg_queue = <<>> /\ loop = NextMsg /\ NoBuf \notin Bufs
    BY AudioAssumption DEF AudioInit
  <1>3. NextMsg \in [pc : Steps, msg : Messages, count : Int] /\ NextMsg.pc = "loop"
    BY MessageFacts DEF NextMsg, Steps
  <1>4. AudioTypes
    <2>1. HardwareTypes
      BY <1>2 DEF AudioInit, HardwareTypes, MaybeBuf
    <2>2. LoopTypes /\ QueueTypes /\ PoolTypes
      BY <1>1, <1>2, <1>3 DEF LoopTypes, QueueTypes, PoolTypes
    <2>3. FlagTypes
      BY DEF AudioInit, FlagTypes
    <2> QED
      BY <2>1, <2>2, <2>3 DEF AudioTypes
  <1>5. VoiceToldToEnd
    BY <1>2, <1>3 DEF AudioInit, VoiceToldToEnd
  <1>6. HardwareBuffers
    BY <1>2 DEF AudioInit, HardwareBuffers
  <1>7. Accounted
    <2> SUFFICES ASSUME NEW b \in Bufs
                 PROVE  /\ Free(b) + Working(b) + Completed(b) + Queued(b) + Held(b) = 1
                        /\ Ref(b) + Free(b) = 1
      BY DEF Accounted
    <2>1. Free(b) = 1 /\ Ref(b) = 0
      BY <1>1 DEF Free, Ref
    <2>2. Working(b) = 0 /\ Completed(b) = 0 /\ Held(b) = 0
      BY <1>2, <1>3 DEF Working, Completed, Held, InHand, One
    <2>3. Queued(b) = 0
      <3>1. {i \in DOMAIN msg_queue : msg_queue[i] = Pcm(b)} = {}
        BY <1>2
      <3> QED
        BY <3>1, FS_EmptySet DEF Queued, Count
    <2> QED
      BY <2>1, <2>2, <2>3
  <1> QED
    BY <1>4, <1>5, <1>6, <1>7 DEF AudioInv

LEMMA AudioInvStep == AudioInv /\ [AudioNext]_audioVars => AudioInv'
  <1> SUFFICES ASSUME AudioInv, [AudioNext]_audioVars PROVE AudioInv'
    OBVIOUS
  <1>1. AudioTypes'
    BY PoolTypesStep, HardwareTypesStep, QueueTypesStep, LoopTypesStep, FlagTypesStep
    DEF AudioInv, AudioTypes
  <1>2. VoiceToldToEnd' /\ HardwareBuffers' /\ Accounted'
    BY <1>1, VoiceToldToEndStep, HardwareBuffersStep, AccountedStep DEF AudioInv
  <1> QED
    BY <1>1, <1>2 DEF AudioInv

LEMMA AudioInvariant == AudioSpec => []AudioInv
  BY AudioInvInit, AudioInvStep, PTL DEF AudioSpec

\* Every PCM buffer has exactly one owner: the free list, audioin_hal, the
\* message queue or the main loop.  The recording that frees its two buffers
\* (audioin_stop_record), the one that frees what it could not send
\* (audio_pcm_buf_cbk) and the main loop (pcm_buffer_free) never free a buffer
\* twice and never lose one, for any number of buffers and messages, as long as
\* the two faults of the interrupt did not happen.
THEOREM AudioOneOwner == AudioSpec => []OneOwner
  <1>1. AudioInv => OneOwner
    <2> SUFFICES ASSUME AudioInv, fault = "none", NEW b \in Bufs PROVE Owners(b) = 1
      BY DEF OneOwner
    <2>1. Free(b) + Working(b) + Completed(b) + Queued(b) + Held(b) = 1
      BY DEF AudioInv, Accounted
    <2> QED
      BY <2>1, OwnersSum
  <1> QED
    BY <1>1, AudioInvariant, PTL

\* When the voice key is released and the main loop has handled its queue, the
\* host was told that the voice has ended, unless a key event was dropped: no
\* order of interrupts, messages and changes of the link loses the stop flag
\* (audio_send_stop_flag) for a host that was told of the start.
THEOREM AudioVoiceEnds == AudioSpec => []VoiceEnds
  <1>1. AudioInv => VoiceEnds
    <2> SUFFICES ASSUME AudioInv, ~audioin.held, loop.pc = "loop", msg_queue = <<>>, ~dropped,
                        voice = "started"
                 PROVE  FALSE
      BY DEF VoiceEnds
    <2>1. UpWaits
      BY DEF AudioInv, VoiceToldToEnd
    <2> QED
      BY <2>1 DEF UpWaits
  <1> QED
    BY <1>1, AudioInvariant, PTL

=============================================================================
