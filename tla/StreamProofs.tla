---------------------------- MODULE StreamProofs ----------------------------
(***************************************************************************)
(* Streams of bytes that arrive in pieces: the serial port of the          *)
(* Bluetooth module, for buffers and queues of every size and any number   *)
(* of bytes and links, and the decoder of the ANCS client, for all         *)
(* messages and fragments.                                                 *)
(***************************************************************************)
EXTENDS UartModule, AncsParse, TLAPS, SequenceTheorems, WellFoundedInduction

-----------------------------------------------------------------------------
(***************************************************************************)
(* Induction over numbers, stated with sets, and what FlattenSeq joins.    *)
(***************************************************************************)
\* A set of numbers has a least one.
LEMMA Least ==
  ASSUME NEW T \in SUBSET Nat, T # {}
  PROVE  \E n \in T : \A m \in T : n <= m
  <1> DEFINE R == OpToRel(<, Nat)
  <1>1. IsWellFoundedOn(R, Nat)
    BY NatLessThanWellFounded
  <1>2. R = {ss \in Nat \X Nat : ss[1] < ss[2]}
    BY DEF OpToRel
  <1> HIDE DEF R
  <1>3. PICK n \in T : \A m \in T : ~(<<m, n>> \in R)
    BY <1>1, WFMin
  <1>4. \A m \in T : n <= m
    <2>1. \A m \in T : m \in Nat /\ n \in Nat /\ (m < n => <<m, n>> \in R)
      BY <1>2
    <2>2. \A m \in T : ~(m < n) /\ m \in Nat /\ n \in Nat
      BY <1>3, <2>1
    <2> QED
      BY <2>2
  <1> QED
    BY <1>4

\* What holds of 0 and goes over from one number to the next holds up to n.
LEMMA UpTo ==
  ASSUME NEW n \in Nat, NEW T, 0 \in T, \A i \in 0 .. n : i # n /\ i \in T => i + 1 \in T
  PROVE  \A i \in 0 .. n : i \in T
  <1> DEFINE Out == {i \in 0 .. n : i \notin T}
  <1>1. Out \in SUBSET Nat
    OBVIOUS
  <1>2. ASSUME Out # {} PROVE FALSE
    <2>1. PICK m \in Out : \A i \in Out : m <= i
      <3> HIDE DEF Out
      <3> QED
        BY <1>1, <1>2, Least
    <2>2. m \in 0 .. n /\ m \notin T /\ m # 0
      BY <2>1
    <2>3. m - 1 \in 0 .. n /\ m - 1 # n /\ (m - 1) + 1 = m /\ ~(m <= m - 1)
      BY <2>2
    <2>4. m - 1 \in T
      BY <2>1, <2>3
    <2> QED
      BY <2>2, <2>3, <2>4
  <1> QED
    BY <1>2

-----------------------------------------------------------------------------
\* Sequences are joined.
LEMMA SeqJoined ==
  ASSUME NEW E
  PROVE  /\ <<>> \in Seq(E)
         /\ \A a \in Seq(E) : a \o <<>> = a /\ <<>> \o a = a
         /\ \A a, b \in Seq(E) : a \o b \in Seq(E)
         /\ \A a, b, c \in Seq(E) : (a \o b) \o c = a \o (b \o c)
  <1>1. <<>> \in Seq(E) /\ \A a \in Seq(E) : a \o <<>> = a /\ <<>> \o a = a
    BY ConcatEmptySeq, EmptySeq
  <1>2. \A a, b \in Seq(E) : a \o b \in Seq(E)
    BY ConcatProperties
  <1>3. \A a, b, c \in Seq(E) : (a \o b) \o c = a \o (b \o c)
    BY ConcatAssociative
  <1> QED
    BY <1>1, <1>2, <1>3

\* f has the first parts of q, joined.
Joins(f, q, n) == f[0] = <<>> /\ \A i \in 1 .. n : f[i] = f[i - 1] \o q[i]

\* There is such a function.
LEMMA JoinExists ==
  ASSUME NEW E, NEW q \in Seq(Seq(E))
  PROVE  \E f \in [0 .. Len(q) -> Seq(E)] : Joins(f, q, Len(q))
  <1> DEFINE Can(n) == \E f \in [0 .. n -> Seq(E)] : Joins(f, q, n)
             T == {n \in 0 .. Len(q) : Can(n)}
  <1>1. Len(q) \in Nat /\ \A i \in 1 .. Len(q) : q[i] \in Seq(E)
    OBVIOUS
  <1>2. Can(0)
    <2> DEFINE f == [i \in 0 .. 0 |-> <<>>]
    <2>1. <<>> \in Seq(E)
      BY SeqJoined
    <2>2. f \in [0 .. 0 -> Seq(E)] /\ f[0] = <<>>
      BY <2>1
    <2>3. Joins(f, q, 0)
      BY <2>2 DEF Joins
    <2> QED
      BY <2>2, <2>3
  <1>3. ASSUME NEW n \in 0 .. Len(q), n # Len(q), Can(n) PROVE Can(n + 1)
    <2>1. PICK f \in [0 .. n -> Seq(E)] : Joins(f, q, n)
      BY <1>3
    <2> DEFINE g == [i \in 0 .. n + 1 |-> IF i = n + 1 THEN f[n] \o q[n + 1] ELSE f[i]]
    <2>2. n \in Nat /\ n \in 0 .. n /\ n + 1 \in 1 .. Len(q)
      BY <1>1, <1>3
    <2>3. f[n] \o q[n + 1] \in Seq(E)
      BY <1>1, <2>2, SeqJoined
    <2>4. \A i \in 0 .. n + 1 : i # n + 1 => i \in 0 .. n
      BY <2>2
    <2>5. g \in [0 .. n + 1 -> Seq(E)]
      BY <2>2, <2>3, <2>4
    <2>6. g[n + 1] = f[n] \o q[n + 1] /\ \A i \in 0 .. n : g[i] = f[i]
      <3>1. n + 1 \in 0 .. n + 1 /\ \A i \in 0 .. n : i \in 0 .. n + 1 /\ i # n + 1
        BY <2>2
      <3> QED
        BY <3>1
    <2> HIDE DEF g
    <2>7. g[0] = <<>>
      <3>1. 0 \in 0 .. n /\ f[0] = <<>>
        BY <2>1, <2>2 DEF Joins
      <3> QED
        BY <2>6, <3>1
    <2>8. ASSUME NEW i \in 1 .. n + 1 PROVE g[i] = g[i - 1] \o q[i]
      <3>1. CASE i = n + 1
        <4>1. i - 1 = n
          BY <2>2, <3>1
        <4> QED
          BY <2>2, <2>6, <3>1, <4>1
      <3>2. CASE i # n + 1
        <4>1. i \in 1 .. n /\ i \in 0 .. n /\ i - 1 \in 0 .. n
          BY <2>2, <3>2
        <4> QED
          BY <2>1, <2>6, <4>1 DEF Joins
      <3> QED
        BY <3>1, <3>2
    <2>9. Joins(g, q, n + 1)
      BY <2>7, <2>8 DEF Joins
    <2> QED
      BY <2>5, <2>9
  <1> HIDE DEF Can
  <1>4. 0 \in T /\ \A n \in 0 .. Len(q) : n # Len(q) /\ n \in T => n + 1 \in T
    BY <1>1, <1>2, <1>3
  <1>5. Len(q) \in T
    <2> HIDE DEF T
    <2>1. \A n \in 0 .. Len(q) : n \in T
      BY <1>1, <1>4, UpTo
    <2> QED
      BY <1>1, <2>1
  <1> QED
    BY <1>5 DEF Can

\* FlattenSeq joins the parts.
LEMMA FlattenJoins ==
  ASSUME NEW E, NEW q \in Seq(Seq(E))
  PROVE  \E f \in [0 .. Len(q) -> Seq(E)] : Joins(f, q, Len(q)) /\ FlattenSeq(q) = f[Len(q)]
  <1> DEFINE n == Len(q)
             Step(f) == f = [i \in 1 .. n |-> IF i = 1 THEN q[i] ELSE f[i - 1] \o q[i]]
  <1>1. n \in Nat /\ \A i \in 1 .. n : q[i] \in Seq(E)
    OBVIOUS
  <1>2. PICK f \in [0 .. n -> Seq(E)] : Joins(f, q, n)
    BY JoinExists
  <1>3. CASE n = 0
    <2>1. FlattenSeq(q) = q /\ q = <<>>
      BY <1>3 DEF FlattenSeq
    <2> QED
      BY <1>2, <1>3, <2>1 DEF Joins
  <1>4. CASE n # 0
    <2> DEFINE h == [i \in 1 .. n |-> f[i]]
    <2>1. f[1] = q[1]
      <3>1. 1 \in 1 .. n /\ 1 - 1 = 0
        BY <1>1, <1>4
      <3>2. f[1] = <<>> \o q[1] /\ q[1] \in Seq(E)
        BY <1>1, <1>2, <3>1 DEF Joins
      <3> QED
        BY <3>2, SeqJoined
    <2>2. \A i \in 1 .. n : i # 1 => f[i] = f[i - 1] \o q[i] /\ i - 1 \in 1 .. n
      <3>1. \A i \in 1 .. n : i # 1 => i - 1 \in 1 .. n
        BY <1>1
      <3> QED
        BY <1>2, <3>1 DEF Joins
    <2>3. Step(h)
      <3>1. \A i \in 1 .. n : f[i] = IF i = 1 THEN q[i] ELSE h[i - 1] \o q[i]
        BY <2>1, <2>2
      <3> QED
        BY <3>1
    <2> DEFINE k == CHOOSE x : Step(x)
    <2>4. Step(k)
      <3> HIDE DEF Step, h
      <3> QED
        BY <2>3
    <2>5. FlattenSeq(q) = k[n]
      BY <1>4 DEF FlattenSeq
    <2> HIDE DEF k
    <2>6. \A i \in 1 .. n : k[i] = IF i = 1 THEN q[i] ELSE k[i - 1] \o q[i]
      <3>1. k = [i \in 1 .. n |-> IF i = 1 THEN q[i] ELSE k[i - 1] \o q[i]]
        BY <2>4
      <3> QED
        BY <3>1
    <2> DEFINE T == {i \in 0 .. n : i # 0 => k[i] = f[i]}
    <2>7. \A i \in 0 .. n : i # n /\ i \in T => i + 1 \in T
      <3> SUFFICES ASSUME NEW i \in 0 .. n, i # n, i \in T PROVE i + 1 \in T
        OBVIOUS
      <3>1. i + 1 \in 1 .. n /\ (i + 1) - 1 = i /\ i + 1 \in 0 .. n
        BY <1>1
      <3>2. CASE i = 0
        <4>1. k[1] = q[1]
          BY <2>6, <3>1, <3>2
        <4> QED
          BY <2>1, <3>1, <3>2, <4>1
      <3>3. CASE i # 0
        <4>1. i + 1 # 1 /\ k[i] = f[i]
          BY <3>3
        <4>2. k[i + 1] = k[i] \o q[i + 1]
          BY <2>6, <3>1, <4>1
        <4>3. f[i + 1] = f[i] \o q[i + 1]
          BY <2>2, <3>1, <4>1
        <4> QED
          BY <3>1, <4>1, <4>2, <4>3
      <3> QED
        BY <3>2, <3>3
    <2>8. n \in T
      <3>1. 0 \in T
        BY <1>1
      <3> HIDE DEF T
      <3>2. \A i \in 0 .. n : i \in T
        BY <1>1, <2>7, <3>1, UpTo
      <3> QED
        BY <1>1, <3>2
    <2> QED
      BY <1>2, <1>4, <2>5, <2>8
  <1> QED
    BY <1>3, <1>4

-----------------------------------------------------------------------------
(***************************************************************************)
(* The serial port.                                                        *)
(***************************************************************************)
\* The packets and lines.
Lines == Seq(PortBytes)

PortTypes ==
    /\ irq \in {"cmd", "data"} /\ role \in {"SLAVE", "MASTER"}
    /\ connections \in Nat /\ nbyte \in [cmd : Nat, data : Nat]

\* What the interrupts and the data thread have.
BufferTypes ==
    /\ recv_buf \in Lines /\ Len(recv_buf) < ACT_DATA_MTU
    /\ free \in Nat
    /\ datas \in Seq(Lines)
    /\ packet \in Lines \cup {Nothing}
    /\ free + Len(datas) + One(packet) + 1 = DATA_QUEUED

\* What at_cmd_rx_isr and the command thread have.
CommandTypes ==
    /\ cmd \in [avail : Nat, input : Lines \cup {Nothing}, queue : Seq(Lines),
                busy : Lines \cup {Nothing}]
    /\ cmd.avail + Len(cmd.queue) + One(cmd.input) + One(cmd.busy) = MAX_CMD_QUEUED

\* What the data thread has recognised so far.
MatchTypes ==
    /\ match_cnt \in 0 .. 2
    /\ name \in [getting : BOOLEAN, r : BOOLEAN, buf : Lines, stored : Lines, start : Nat,
                 ended : BOOLEAN]
    /\ Len(name.buf) <= NAME_MAX

LEMMA NotNothing == Nothing \notin Lines
  BY UartAssumption DEF Lines

-----------------------------------------------------------------------------
LEMMA PortTypesStep == PortTypes /\ [UartNext]_uartVars => PortTypes'
  <1> SUFFICES ASSUME PortTypes, [UartNext]_uartVars PROVE PortTypes'
    OBVIOUS
  <1> USE DEF PortTypes
  <1>1. ASSUME NEW c, act_data_rx_isr(c) PROVE PortTypes'
    BY <1>1 DEF act_data_rx_isr, Arrives, portVars
  <1>2. ASSUME NEW c, at_cmd_rx_isr(c) PROVE PortTypes'
    BY <1>2 DEF at_cmd_rx_isr, Arrives, portVars
  <1>3. CASE UartConnected
    BY <1>3 DEF UartConnected
  <1>4. CASE UartDisconnected \/ ClearData
    BY <1>4 DEF UartDisconnected, ClearData
  <1>5. CASE OtaPacket
    BY <1>5 DEF OtaPacket, PortKept, portVars
  <1>6. CASE DropPacket \/ SlavePacket \/ MasterPacket
    BY <1>6 DEF DropPacket, SlavePacket, MasterPacket, PortKept, portVars
  <1>7. CASE send_partial_handler \/ TakePacket \/ TakeLine \/ ExecLine
    BY <1>7 DEF send_partial_handler, TakePacket, TakeLine, ExecLine, portVars
  <1>8. CASE UNCHANGED uartVars
    BY <1>8 DEF uartVars, portVars
  <1> QED
    BY <1>1, <1>2, <1>3, <1>4, <1>5, <1>6, <1>7, <1>8 DEF UartNext, UartThreads

-----------------------------------------------------------------------------
(***************************************************************************)
(* The buffers of act_data.c.                                              *)
(***************************************************************************)
\* The counts of a buffer that moves.
LEMMA Counted ==
  /\ \A x \in Lines : One(x) = 1
  /\ One(Nothing) = 0
  /\ \A x : One(x) \in {0, 1}
  /\ \A q \in Seq(Lines) : Len(q) \in Nat
  /\ \A q \in Seq(Lines), x \in Lines :
        Append(q, x) \in Seq(Lines) /\ Len(Append(q, x)) = Len(q) + 1
  /\ \A q \in Seq(Lines) : q # <<>> =>
        /\ Head(q) \in Lines /\ Tail(q) \in Seq(Lines)
        /\ Len(Tail(q)) + 1 = Len(q) /\ Len(Tail(q)) \in Nat
  <1>1. (\A x \in Lines : One(x) = 1) /\ One(Nothing) = 0 /\ \A x : One(x) \in {0, 1}
    BY NotNothing DEF One
  <1>2. \A q \in Seq(Lines) : Len(q) \in Nat
    OBVIOUS
  <1>3. \A q \in Seq(Lines), x \in Lines :
           Append(q, x) \in Seq(Lines) /\ Len(Append(q, x)) = Len(q) + 1
    BY AppendProperties
  <1>4. ASSUME NEW q \in Seq(Lines), q # <<>>
        PROVE  /\ Head(q) \in Lines /\ Tail(q) \in Seq(Lines)
               /\ Len(Tail(q)) + 1 = Len(q) /\ Len(Tail(q)) \in Nat
    BY <1>4, HeadTailProperties
  <1> QED
    BY <1>1, <1>2, <1>3, <1>4

LEMMA EmptyBuffer == <<>> \in Lines /\ Len(<<>>) = 0 /\ Len(<<>>) < ACT_DATA_MTU
  BY UartAssumption DEF Lines

\* recv_cb keeps the bytes, or queues their buffer and takes a free one, or throws
\* them away.
LEMMA BufferReceived ==
  ASSUME BufferTypes, NEW buf \in Lines, NEW a, recv_cb(buf, a), packet' = packet
  PROVE  BufferTypes'
  <1> USE DEF BufferTypes
  <1>1. CASE Collecting(buf, a)
    <2>1. recv_buf' = buf /\ Len(buf) < ACT_DATA_MTU /\ free' = free /\ datas' = datas
      BY <1>1 DEF recv_cb, Collecting
    <2> QED
      BY <2>1
  <1>2. CASE ~Collecting(buf, a) /\ free > 0
    <2>1. recv_buf' = <<>> /\ free' = free - 1 /\ datas' = Append(datas, buf)
      BY <1>2 DEF recv_cb
    <2>2. datas' \in Seq(Lines) /\ Len(datas') = Len(datas) + 1 /\ Len(datas) \in Nat
      BY <2>1, Counted
    <2>3. One(packet) \in Nat /\ One(packet') = One(packet)
      BY Counted
    <2>4. free' \in Nat /\ free' + 1 = free
      BY <1>2, <2>1
    <2>5. free' + Len(datas') + One(packet') + 1 = DATA_QUEUED
      <3> DEFINE q == Len(datas)
                 b == One(packet)
      <3>1. free' + 1 + q + b + 1 = DATA_QUEUED /\ {q, b, free'} \subseteq Nat
        BY <2>2, <2>3, <2>4
      <3> HIDE DEF q, b
      <3>2. free' + (q + 1) + b + 1 = DATA_QUEUED
        BY <3>1
      <3> QED
        BY <2>2, <2>3, <3>2 DEF q, b
    <2> QED
      BY <2>1, <2>2, <2>4, <2>5, EmptyBuffer
  <1>3. CASE ~Collecting(buf, a) /\ ~(free > 0)
    <2>1. recv_buf' = <<>> /\ free' = free /\ datas' = datas
      BY <1>3 DEF recv_cb
    <2> QED
      BY <2>1, EmptyBuffer
  <1> QED
    BY <1>1, <1>2, <1>3

\* The data thread gives its buffer back.
LEMMA BufferReturned ==
  ASSUME BufferTypes, packet # Nothing, PacketDone, recv_buf' = recv_buf, datas' = datas
  PROVE  BufferTypes'
  <1> USE DEF BufferTypes
  <1>1. packet' = Nothing /\ free' = free + 1
    BY DEF PacketDone
  <1>2. One(packet) = 1 /\ One(packet') = 0 /\ Len(datas) \in Nat
    BY <1>1, Counted
  <1>3. free' + Len(datas') + One(packet') + 1 = DATA_QUEUED
    BY <1>1, <1>2
  <1> QED
    BY <1>1, <1>3

LEMMA ByteTyped == PortTypes => \A c \in Chars : Byte(c) \in PortBytes
  BY DEF PortTypes, Byte, Number, PortBytes

LEMMA BufferTypesStep == PortTypes /\ BufferTypes /\ [UartNext]_uartVars => BufferTypes'
  <1> SUFFICES ASSUME PortTypes, BufferTypes, [UartNext]_uartVars PROVE BufferTypes'
    OBVIOUS
  <1>1. ASSUME NEW c \in Chars, act_data_rx_isr(c) PROVE BufferTypes'
    <2>1. Append(recv_buf, Byte(c)) \in Lines
      <3>1. Byte(c) \in PortBytes /\ recv_buf \in Seq(PortBytes)
        BY <1>1, ByteTyped DEF BufferTypes, Lines
      <3> QED
        BY <3>1, AppendProperties DEF Lines
    <2>2. recv_cb(Append(recv_buf, Byte(c)), FALSE) /\ packet' = packet
      BY <1>1 DEF act_data_rx_isr
    <2> QED
      BY <2>1, <2>2, BufferReceived
  <1>2. CASE send_partial_handler
    <2>1. recv_cb(recv_buf, TRUE) /\ packet' = packet /\ recv_buf \in Lines
      BY <1>2 DEF send_partial_handler, BufferTypes
    <2> QED
      BY <2>1, BufferReceived
  <1>3. CASE TakePacket
    <2>1. /\ packet = Nothing /\ datas # <<>> /\ packet' = Head(datas) /\ datas' = Tail(datas)
          /\ recv_buf' = recv_buf /\ free' = free
      BY <1>3 DEF TakePacket
    <2>2. /\ packet' \in Lines /\ datas' \in Seq(Lines) /\ Len(datas') + 1 = Len(datas)
          /\ Len(datas') \in Nat
      BY <2>1, Counted DEF BufferTypes
    <2>3. One(packet) = 0 /\ One(packet') = 1
      BY <2>1, <2>2, Counted
    <2>4. free' + Len(datas') + One(packet') + 1 = DATA_QUEUED
      BY <2>1, <2>2, <2>3 DEF BufferTypes
    <2> QED
      BY <2>1, <2>2, <2>4 DEF BufferTypes
  <1>4. CASE DropPacket \/ SlavePacket \/ OtaPacket \/ MasterPacket
    <2>1. packet # Nothing /\ PacketDone /\ recv_buf' = recv_buf /\ datas' = datas
      BY <1>4 DEF DropPacket, SlavePacket, OtaPacket, MasterPacket, PortKept
    <2> QED
      BY <2>1, BufferReturned
  <1>5. CASE ClearData
    <2>1. recv_buf' = <<>> /\ free' = free /\ datas' = datas /\ packet' = packet
      BY <1>5 DEF ClearData
    <2> QED
      BY <2>1, EmptyBuffer DEF BufferTypes
  <1>6. CASE (\E c : at_cmd_rx_isr(c)) \/ UartConnected \/ UartDisconnected \/ TakeLine \/ ExecLine
             \/ UNCHANGED uartVars
    <2>1. UNCHANGED <<recv_buf, free, datas, packet>>
      BY <1>6 DEF at_cmd_rx_isr, UartConnected, UartDisconnected, TakeLine, ExecLine, uartVars,
         dataVars
    <2> QED
      BY <2>1 DEF BufferTypes
  <1>7. \A c \in IF role = "SLAVE" THEN {"x", "N", "r", "n"} ELSE {"x", "A", "D", "E", "O"} :
           c \in Chars
    BY DEF Chars
  <1> QED
    BY <1>1, <1>2, <1>3, <1>4, <1>5, <1>6, <1>7 DEF UartNext, UartThreads

-----------------------------------------------------------------------------
(***************************************************************************)
(* The lines of at_cmd.c.                                                  *)
(***************************************************************************)
LEMMA CommandTypesStep == PortTypes /\ CommandTypes /\ [UartNext]_uartVars => CommandTypes'
  <1> SUFFICES ASSUME PortTypes, CommandTypes, [UartNext]_uartVars PROVE CommandTypes'
    OBVIOUS
  <1>t. /\ cmd.avail \in Nat /\ cmd.input \in Lines \cup {Nothing} /\ cmd.queue \in Seq(Lines)
        /\ cmd.busy \in Lines \cup {Nothing}
        /\ cmd.avail + Len(cmd.queue) + One(cmd.input) + One(cmd.busy) = MAX_CMD_QUEUED
        /\ Len(cmd.queue) \in Nat /\ One(cmd.input) \in Nat /\ One(cmd.busy) \in Nat
    BY Counted DEF CommandTypes
  <1>1. ASSUME NEW c \in Chars, at_cmd_rx_isr(c) PROVE CommandTypes'
    <2> DEFINE line == IF cmd.input = Nothing THEN <<>> ELSE cmd.input
               left == IF cmd.input = Nothing THEN cmd.avail - 1 ELSE cmd.avail
    <2>1. /\ line \in Lines
          /\ Append(line, Byte(c)) \in Lines
      BY <1>t, EmptyBuffer, ByteTyped DEF Lines
    <2>2. CASE cmd.input = Nothing /\ cmd.avail = 0
      BY <1>1, <2>2 DEF at_cmd_rx_isr, CommandTypes
    <2>3. CASE ~(cmd.input = Nothing /\ cmd.avail = 0)
      <3>1. left \in Nat /\ left + 1 = cmd.avail + One(cmd.input)
        BY <1>t, <2>3, Counted
      <3> HIDE DEF line, left
      <3>2. CASE c = "n"
        <4>1. cmd' = [cmd EXCEPT !.avail = left, !.input = Nothing, !.queue = Append(@, line)]
          BY <1>1, <2>3, <3>2 DEF at_cmd_rx_isr, line, left
        <4>2. /\ cmd'.avail = left /\ cmd'.input = Nothing /\ cmd'.busy = cmd.busy
              /\ cmd'.queue = Append(cmd.queue, line)
          BY <4>1 DEF CommandTypes
        <4>3. /\ cmd'.queue \in Seq(Lines) /\ Len(cmd'.queue) = Len(cmd.queue) + 1
              /\ One(cmd'.input) = 0
          BY <1>t, <2>1, <4>2, Counted
        <4>4. cmd'.avail + Len(cmd'.queue) + One(cmd'.input) + One(cmd'.busy) = MAX_CMD_QUEUED
          <5> DEFINE a == cmd.avail
                     b == Len(cmd.queue)
                     e == One(cmd.input)
                     d == One(cmd.busy)
          <5>1. /\ a + b + e + d = MAX_CMD_QUEUED /\ left + 1 = a + e
                /\ {a, b, e, d, left} \subseteq Nat
            BY <1>t, <3>1
          <5> HIDE DEF a, b, e, d
          <5>2. left + (b + 1) + 0 + d = MAX_CMD_QUEUED
            BY <5>1
          <5> QED
            BY <4>2, <4>3, <5>2 DEF a, b, e, d
        <4>5. cmd' \in [avail : Nat, input : Lines \cup {Nothing}, queue : Seq(Lines),
                        busy : Lines \cup {Nothing}]
          BY <3>1, <4>1, <4>2, <4>3 DEF CommandTypes
        <4> QED
          BY <4>4, <4>5 DEF CommandTypes
      <3>3. CASE c # "n"
        <4>1. cmd' = [cmd EXCEPT !.avail = left, !.input = Append(line, Byte(c))]
          BY <1>1, <2>3, <3>3 DEF at_cmd_rx_isr, line, left
        <4>2. /\ cmd'.avail = left /\ cmd'.input = Append(line, Byte(c)) /\ cmd'.busy = cmd.busy
              /\ cmd'.queue = cmd.queue
          BY <4>1 DEF CommandTypes
        <4>3. One(cmd'.input) = 1
          BY <2>1, <4>2, Counted
        <4>4. cmd'.avail + Len(cmd'.queue) + One(cmd'.input) + One(cmd'.busy) = MAX_CMD_QUEUED
          <5> DEFINE a == cmd.avail
                     b == Len(cmd.queue)
                     e == One(cmd.input)
                     d == One(cmd.busy)
          <5>1. /\ a + b + e + d = MAX_CMD_QUEUED /\ left + 1 = a + e
                /\ {a, b, e, d, left} \subseteq Nat
            BY <1>t, <3>1
          <5> HIDE DEF a, b, e, d
          <5>2. left + b + 1 + d = MAX_CMD_QUEUED
            BY <5>1
          <5> QED
            BY <4>2, <4>3, <5>2 DEF a, b, e, d
        <4>5. cmd' \in [avail : Nat, input : Lines \cup {Nothing}, queue : Seq(Lines),
                        busy : Lines \cup {Nothing}]
          BY <2>1, <3>1, <4>1 DEF CommandTypes
        <4> QED
          BY <4>4, <4>5 DEF CommandTypes
      <3> QED
        BY <3>2, <3>3
    <2> QED
      BY <2>2, <2>3
  <1>2. CASE TakeLine
    <2>1. /\ cmd.busy = Nothing /\ cmd.queue # <<>>
          /\ cmd' = [cmd EXCEPT !.busy = Head(cmd.queue), !.queue = Tail(@)]
      BY <1>2 DEF TakeLine
    <2>2. /\ cmd'.avail = cmd.avail /\ cmd'.input = cmd.input /\ cmd'.busy = Head(cmd.queue)
          /\ cmd'.queue = Tail(cmd.queue)
      BY <2>1 DEF CommandTypes
    <2>3. /\ Head(cmd.queue) \in Lines /\ Tail(cmd.queue) \in Seq(Lines)
          /\ Len(Tail(cmd.queue)) + 1 = Len(cmd.queue) /\ Len(Tail(cmd.queue)) \in Nat
      BY <1>t, <2>1, Counted
    <2>4. One(cmd.busy) = 0 /\ One(cmd'.busy) = 1
      BY <2>1, <2>2, <2>3, Counted
    <2>5. cmd'.avail + Len(cmd'.queue) + One(cmd'.input) + One(cmd'.busy) = MAX_CMD_QUEUED
      BY <1>t, <2>2, <2>3, <2>4
    <2>6. cmd' \in [avail : Nat, input : Lines \cup {Nothing}, queue : Seq(Lines),
                    busy : Lines \cup {Nothing}]
      BY <2>1, <2>3 DEF CommandTypes
    <2> QED
      BY <2>5, <2>6 DEF CommandTypes
  <1>3. CASE ExecLine
    <2>1. cmd.busy # Nothing /\ cmd' = [cmd EXCEPT !.busy = Nothing, !.avail = @ + 1]
      BY <1>3 DEF ExecLine
    <2>2. /\ cmd'.avail = cmd.avail + 1 /\ cmd'.input = cmd.input /\ cmd'.busy = Nothing
          /\ cmd'.queue = cmd.queue
      BY <2>1 DEF CommandTypes
    <2>3. One(cmd.busy) = 1 /\ One(cmd'.busy) = 0
      BY <1>t, <2>1, <2>2, Counted
    <2>4. cmd'.avail + Len(cmd'.queue) + One(cmd'.input) + One(cmd'.busy) = MAX_CMD_QUEUED
      BY <1>t, <2>2, <2>3
    <2>5. cmd' \in [avail : Nat, input : Lines \cup {Nothing}, queue : Seq(Lines),
                    busy : Lines \cup {Nothing}]
      <3>1. cmd.avail + 1 \in Nat
        BY <1>t
      <3> QED
        BY <2>1, <3>1 DEF CommandTypes
    <2> QED
      BY <2>4, <2>5 DEF CommandTypes
  <1>4. CASE UartDisconnected
    <2>1. CASE cmd.input = Nothing
      BY <1>4, <2>1 DEF UartDisconnected, LineGivenBack, CommandTypes
    <2>2. CASE cmd.input # Nothing
      <3>1. cmd' = [cmd EXCEPT !.input = Nothing, !.queue = Append(@, <<>>)]
        BY <1>4, <2>2 DEF UartDisconnected, LineGivenBack
      <3>2. /\ cmd'.avail = cmd.avail /\ cmd'.input = Nothing /\ cmd'.busy = cmd.busy
            /\ cmd'.queue = Append(cmd.queue, <<>>)
        BY <3>1 DEF CommandTypes
      <3>3. /\ cmd'.queue \in Seq(Lines) /\ Len(cmd'.queue) = Len(cmd.queue) + 1
            /\ One(cmd.input) = 1 /\ One(cmd'.input) = 0
        BY <1>t, <2>2, <3>2, EmptyBuffer, Counted
      <3>4. cmd'.avail + Len(cmd'.queue) + One(cmd'.input) + One(cmd'.busy) = MAX_CMD_QUEUED
        <4> DEFINE a == cmd.avail
                   b == Len(cmd.queue)
                   d == One(cmd.busy)
        <4>1. a + b + 1 + d = MAX_CMD_QUEUED /\ {a, b, d} \subseteq Nat
          BY <1>t, <3>3
        <4> HIDE DEF a, b, d
        <4>2. a + (b + 1) + 0 + d = MAX_CMD_QUEUED
          BY <4>1
        <4> QED
          BY <3>2, <3>3, <4>2 DEF a, b, d
      <3>5. cmd' \in [avail : Nat, input : Lines \cup {Nothing}, queue : Seq(Lines),
                      busy : Lines \cup {Nothing}]
        BY <3>1, <3>2, <3>3 DEF CommandTypes
      <3> QED
        BY <3>4, <3>5 DEF CommandTypes
    <2> QED
      BY <2>1, <2>2
  <1>5. CASE (\E c : act_data_rx_isr(c)) \/ send_partial_handler \/ UartConnected \/ ClearData \/
             TakePacket \/ UNCHANGED uartVars
    BY <1>5 DEF act_data_rx_isr, send_partial_handler, UartConnected, ClearData, TakePacket,
       uartVars, CommandTypes
  <1>6. CASE DropPacket \/ SlavePacket \/ OtaPacket \/ MasterPacket
    BY <1>6 DEF DropPacket, SlavePacket, OtaPacket, MasterPacket, PortKept, CommandTypes
  <1>7. "t" \in Chars /\ "n" \in Chars
    BY DEF Chars
  <1> QED
    BY <1>1, <1>2, <1>3, <1>4, <1>5, <1>6, <1>7 DEF UartNext, UartThreads

-----------------------------------------------------------------------------
(***************************************************************************)
(* What the data thread recognises.                                        *)
(***************************************************************************)
\* at_disconn_match: there is a longest match, as CHOOSE demands, and it matches.
LEMMA LongestMatch ==
  ASSUME NEW p \in Lines
  PROVE  /\ Matched(p) \in 0 .. Len(p)
         /\ \A i \in 1 .. Matched(p) : /\ match_cnt + i <= Len(DisconnectCmd)
                                       /\ p[i].c = DisconnectCmd[match_cnt + i]
  <1> DEFINE fits(k) == \A i \in 1 .. k :
                 match_cnt + i <= Len(DisconnectCmd) /\ p[i].c = DisconnectCmd[match_cnt + i]
             ok == {k \in 0 .. Len(p) : fits(k)}
             missing == {m \in Nat : m <= Len(p) /\ Len(p) - m \in ok}
  <1>1. Len(p) \in Nat
    BY DEF Lines
  <1>2. 0 \in ok
    BY <1>1
  <1> HIDE DEF fits
  <1>3. Len(p) \in missing
    BY <1>1, <1>2
  <1>4. PICK m \in missing : \A j \in missing : m <= j
    <2>1. missing \in SUBSET Nat /\ missing # {}
      BY <1>3
    <2> HIDE DEF missing
    <2> QED
      BY <2>1, Least
  <1>5. \A j \in ok : j \in Nat /\ j <= Len(p) /\ Len(p) - j \in missing
    BY <1>1
  <1>6. \A j \in ok : j <= Len(p) - m
    BY <1>1, <1>4, <1>5
  <1>7. Len(p) - m \in ok
    BY <1>4
  <1>8. \E k \in ok : \A j \in ok : j <= k
    BY <1>6, <1>7
  <1>9. Matched(p) = CHOOSE k \in ok : \A j \in ok : j <= k
    BY DEF Matched, fits
  <1>10. Matched(p) \in ok
    BY <1>8, <1>9
  <1> QED
    BY <1>10 DEF fits

\* The name that is being received has its types and fits into its room.
Names == [getting : BOOLEAN, r : BOOLEAN, buf : Lines, stored : Lines, start : Nat, ended : BOOLEAN]
NameFits(nm) == nm \in Names /\ Len(nm.buf) <= NAME_MAX

\* What at_name_get copies of a packet: its beginning, as far as there is room.
LEMMA CopyParts ==
  ASSUME NEW buf \in Lines, Len(buf) <= NAME_MAX, NEW p \in Lines, NEW len \in 0 .. Len(p)
  PROVE  \E s \in Lines :
            /\ Copied(buf, p, len) = buf \o s
            /\ Len(s) <= len /\ Len(buf) + Len(s) <= NAME_MAX
            /\ Len(s) # len => Len(buf) + Len(s) = NAME_MAX
            /\ \A i \in 1 .. Len(s) : s[i] = p[i] /\ i \in 1 .. Len(p)
  <1> DEFINE room == NAME_MAX - Len(buf)
             k == IF len < room THEN len ELSE room
             s == SubSeq(p, 1, k)
  <1>1. Len(buf) \in Nat /\ NAME_MAX \in Nat /\ Len(p) \in Nat
    BY UartAssumption DEF Lines
  <1>2. room \in Nat /\ Len(buf) + room = NAME_MAX
    BY <1>1
  <1>3. k \in Nat /\ k <= Len(p) /\ k <= len /\ k <= room /\ (k # len => k = room)
    BY <1>1, <1>2
  <1>4. Copied(buf, p, len) = buf \o s
    BY DEF Copied
  <1> HIDE DEF room, k
  <1>5. s \in Lines /\ Len(s) = k /\ \A i \in 1 .. k : s[i] = p[i] /\ i \in 1 .. Len(p)
    <2>1. \A i \in 1 .. k : i \in 1 .. Len(p)
      BY <1>1, <1>3
    <2>2. \A i \in 1 .. k : p[i] \in PortBytes
      BY <2>1 DEF Lines
    <2>3. /\ s \in Seq(PortBytes) /\ Len(s) = IF 1 <= k THEN k - 1 + 1 ELSE 0
          /\ \A i \in 1 .. k - 1 + 1 : s[i] = p[1 + i - 1]
      BY <1>3, <2>2, SubSeqProperties
    <2>4. k - 1 + 1 = k /\ (~(1 <= k) => k = 0) /\ \A i \in 1 .. k : 1 + i - 1 = i
      BY <1>3
    <2> HIDE DEF s
    <2> QED
      BY <2>1, <2>3, <2>4 DEF Lines
  <1> HIDE DEF s
  <1>6. Len(buf) + k <= NAME_MAX /\ (k # len => Len(buf) + k = NAME_MAX)
    BY <1>1, <1>2, <1>3
  <1> QED
    BY <1>3, <1>4, <1>5, <1>6

LEMMA CopyFits ==
  ASSUME NEW buf \in Lines, Len(buf) <= NAME_MAX, NEW p \in Lines, NEW len \in 0 .. Len(p)
  PROVE  Copied(buf, p, len) \in Lines /\ Len(Copied(buf, p, len)) <= NAME_MAX
  <1>1. PICK s \in Lines : Copied(buf, p, len) = buf \o s /\ Len(buf) + Len(s) <= NAME_MAX
    BY CopyParts
  <1>2. buf \o s \in Lines /\ Len(buf \o s) = Len(buf) + Len(s)
    BY ConcatProperties DEF Lines
  <1> QED
    BY <1>1, <1>2

Finished(nm, buf, ended) ==
    [nm EXCEPT !.getting = FALSE, !.buf = buf, !.stored = buf, !.ended = ended]

\* What at_name_get may make of a name: the outcomes of its five cases.
NameOutcome(nm, p, new) ==
    \/ nm.r /\ new = Finished(nm, nm.buf, TRUE)
    \/ ~nm.r /\ new = Finished(nm, nm.buf, FALSE)
    \/ ~nm.r /\ new = [nm EXCEPT !.buf = Copied(nm.buf, p, Len(p))]
    \/ \E len \in 0 .. Len(p) :
          LET buf == Copied(nm.buf, p, len)
          IN  \/ ~nm.r /\ new = [nm EXCEPT !.buf = buf, !.r = TRUE]
              \/ ~nm.r /\ new = [Finished(nm, buf, TRUE) EXCEPT !.r = TRUE]
              \/ (~nm.r \/ len = 0) /\ new = Finished(nm, buf, TRUE)
              \/ new = Finished(nm, buf, FALSE)

LEMMA NameCases ==
  ASSUME NEW nm \in Names, NEW p \in Lines
  PROVE  NameOutcome(nm, p, at_name_get(nm, p).nm)
  <1> DEFINE ends == {i \in DOMAIN p : p[i].c = "n" \/ (p[i].c = "r" /\ ~nm.r)}
             first == CHOOSE j \in ends : \A k \in ends : j <= k
             copied(len) == Copied(nm.buf, p, len)
             new == at_name_get(nm, p).nm
  <1>1. Len(p) \in Nat /\ DOMAIN p = 1 .. Len(p)
    BY DEF Lines
  <1>2. ends # {} => first \in ends
    <2> SUFFICES ASSUME ends # {} PROVE first \in ends
      OBVIOUS
    <2>1. ends \in SUBSET Nat
      BY <1>1
    <2> HIDE DEF ends
    <2>2. \E j \in ends : \A k \in ends : j <= k
      BY <2>1, Least
    <2> QED
      BY <2>2
  <1>3. ends # {} => /\ first \in 1 .. Len(p) /\ first - 1 \in 0 .. Len(p)
                     /\ p[first].c = "r" => ~nm.r
    <2>1. \A i \in ends : i \in 1 .. Len(p) /\ (p[i].c = "r" => ~nm.r)
      BY <1>1
    <2> HIDE DEF ends, first
    <2>2. ends # {} => first \in 1 .. Len(p) /\ (p[first].c = "r" => ~nm.r)
      BY <1>2, <2>1
    <2> QED
      BY <1>1, <2>2
  <1>4. CASE ends = {} /\ nm.r
    <2>1. new = Finished(nm, nm.buf, TRUE)
      BY <1>4 DEF at_name_get, Finished
    <2> QED
      BY <1>4, <2>1 DEF NameOutcome
  <1>5. CASE ends = {} /\ ~nm.r
    <2>1. new = Finished(nm, nm.buf, FALSE) \/ new = [nm EXCEPT !.buf = copied(Len(p))]
      BY <1>5 DEF at_name_get, Finished
    <2> HIDE DEF new
    <2>2. NameOutcome(nm, p, new)
      BY <1>5, <2>1 DEF NameOutcome
    <2> QED
      BY <2>2 DEF new
  <1>6. CASE ends # {} /\ p[first].c = "r" /\ first = Len(p)
    <2>1. ends # {} /\ p[first].c = "r" /\ first = Len(p) /\ ~(first < Len(p))
      <3> HIDE DEF ends, first
      <3> QED
        BY <1>1, <1>6
    <2>2. new = [nm EXCEPT !.buf = copied(first - 1), !.r = TRUE]
      BY <2>1 DEF at_name_get
    <2> HIDE DEF new, ends, first
    <2>3. NameOutcome(nm, p, new)
      BY <1>3, <2>1, <2>2 DEF NameOutcome
    <2> QED
      BY <2>3 DEF new
  <1>7. CASE ends # {} /\ p[first].c = "r" /\ first < Len(p)
    <2>1. new = [Finished(nm, copied(first - 1), TRUE) EXCEPT !.r = TRUE]
      BY <1>7 DEF at_name_get, Finished
    <2> HIDE DEF new, ends, first
    <2>2. NameOutcome(nm, p, new)
      BY <1>3, <1>7, <2>1 DEF NameOutcome
    <2> QED
      BY <2>2 DEF new
  <1>8. CASE ends # {} /\ p[first].c # "r"
    <2>1. new = Finished(nm, copied(first - 1), ~nm.r \/ first = 1)
      BY <1>8 DEF at_name_get, Finished
    <2> HIDE DEF new, ends, first
    <2>2. first = 1 => first - 1 = 0
      OBVIOUS
    <2>3. \/ (~nm.r \/ first - 1 = 0) /\ new = Finished(nm, copied(first - 1), TRUE)
          \/ new = Finished(nm, copied(first - 1), FALSE)
      <3>1. CASE ~nm.r \/ first = 1
        <4>1. (~nm.r \/ first = 1) = TRUE
          BY <3>1
        <4> QED
          BY <2>1, <2>2, <3>1, <4>1
      <3>2. CASE ~(~nm.r \/ first = 1)
        <4>1. (~nm.r \/ first = 1) = FALSE
          BY <3>2
        <4> QED
          BY <2>1, <4>1
      <3> QED
        BY <3>1, <3>2
    <2>4. NameOutcome(nm, p, new)
      BY <1>3, <1>8, <2>3 DEF NameOutcome
    <2> QED
      BY <2>4 DEF new
  <1>9. ends # {} => first = Len(p) \/ first < Len(p)
    BY <1>1, <1>3
  <1> HIDE DEF ends, first, new
  <1> QED
    BY <1>4, <1>5, <1>6, <1>7, <1>8, <1>9 DEF new

\* at_name_get, whatever the packets that a name comes in.
LEMMA NameReceived ==
  ASSUME NEW nm, NameFits(nm), NEW p \in Lines
  PROVE  NameFits(at_name_get(nm, p).nm)
  <1> DEFINE new == at_name_get(nm, p).nm
  <1>1. nm \in Names /\ nm.buf \in Lines /\ Len(nm.buf) <= NAME_MAX
    BY DEF NameFits, Names
  <1>2. Len(p) \in 0 .. Len(p)
    BY DEF Lines
  <1>3. \A len \in 0 .. Len(p) :
           Copied(nm.buf, p, len) \in Lines /\ Len(Copied(nm.buf, p, len)) <= NAME_MAX
    BY <1>1, CopyFits
  <1>4. \A buf \in Lines, ended \in BOOLEAN : Len(buf) <= NAME_MAX =>
           /\ NameFits(Finished(nm, buf, ended))
           /\ NameFits([Finished(nm, buf, ended) EXCEPT !.r = TRUE])
           /\ NameFits([nm EXCEPT !.buf = buf]) /\ NameFits([nm EXCEPT !.buf = buf, !.r = TRUE])
    BY <1>1 DEF NameFits, Names, Finished
  <1>5. NameOutcome(nm, p, new)
    BY <1>1, NameCases
  <1> HIDE DEF new
  <1>6. NameFits(new)
    BY <1>1, <1>2, <1>3, <1>4, <1>5 DEF NameOutcome
  <1> QED
    BY <1>6 DEF new

\* AT+NAME begins a name.
LEMMA FreshName ==
  ASSUME MatchTypes, NEW b \in PortBytes
  PROVE  /\ NameFits(NewName(b)) /\ NewName(b).start = b.n /\ NewName(b).buf = <<>>
         /\ ~NewName(b).ended /\ ~NewName(b).r
  <1>1. <<>> \in Lines /\ Len(<<>>) <= NAME_MAX /\ b.n \in Nat
    BY UartAssumption DEF Lines, PortBytes
  <1>2. NoName \in Names /\ name.stored \in Lines
    BY <1>1 DEF NoName, Names, MatchTypes
  <1>3. /\ NewName(b) \in Names /\ NewName(b).buf = <<>> /\ NewName(b).start = b.n
        /\ ~NewName(b).ended /\ ~NewName(b).r
    BY <1>1, <1>2 DEF NewName, Names, NoName
  <1> QED
    BY <1>1, <1>3 DEF NameFits

LEMMA MatchTypesStep ==
  PortTypes /\ BufferTypes /\ MatchTypes /\ [UartNext]_uartVars => MatchTypes'
  <1> SUFFICES ASSUME PortTypes, BufferTypes, MatchTypes, [UartNext]_uartVars PROVE MatchTypes'
    OBVIOUS
  <1> USE DEF MatchTypes
  <1>1. CASE SlavePacket
    <2> DEFINE found == ~name.getting /\ packet # <<>> /\ packet[1].c = "N"
               new == at_name_get(NewName(packet[1]), Tail(packet)).nm
               more == at_name_get(name, packet).nm
    <2>1. packet \in Lines /\ match_cnt' = match_cnt
      BY <1>1 DEF SlavePacket, BufferTypes
    <2>2. name' \in {name, more} \/ (packet # <<>> /\ name' = new)
      BY <1>1 DEF SlavePacket
    <2>3. NameFits(name) /\ NameFits(more)
      <3>1. NameFits(name)
        BY DEF NameFits, Names
      <3> QED
        BY <2>1, <3>1, NameReceived
    <2>4. packet # <<>> => NameFits(new)
      <3> SUFFICES ASSUME packet # <<>> PROVE NameFits(new)
        OBVIOUS
      <3>1. packet[1] \in PortBytes /\ Tail(packet) \in Lines
        BY <2>1 DEF Lines
      <3>2. NameFits(NewName(packet[1]))
        BY <3>1, FreshName
      <3> QED
        BY <3>1, <3>2, NameReceived
    <2>5. NameFits(name')
      <3> HIDE DEF new, more
      <3> QED
        BY <2>2, <2>3, <2>4
    <2> QED
      BY <2>1, <2>5 DEF NameFits, Names
  <1>2. CASE MasterPacket
    <2>1. packet \in Lines /\ name' = name
      BY <1>2 DEF MasterPacket, BufferTypes
    <2>2. Matched(packet) \in Nat
      BY <2>1, LongestMatch
    <2>3. Len(DisconnectCmd) = 3
      BY DEF DisconnectCmd
    <2>4. match_cnt' = 0 \/ (match_cnt' = match_cnt + Matched(packet) /\ match_cnt' < 3)
      BY <1>2, <2>3 DEF MasterPacket
    <2>5. match_cnt' \in 0 .. 2
      BY <2>2, <2>4
    <2> QED
      BY <2>1, <2>5
  <1>3. CASE DropPacket \/ OtaPacket
    BY <1>3 DEF DropPacket, OtaPacket
  <1>4. CASE (\E c : act_data_rx_isr(c)) \/ (\E c : at_cmd_rx_isr(c)) \/ send_partial_handler \/
             UartConnected \/ ClearData \/ UartDisconnected \/ TakePacket \/ TakeLine \/ ExecLine \/
             UNCHANGED uartVars
    <2>1. match_cnt' = match_cnt /\ name' = name
      BY <1>4 DEF act_data_rx_isr, at_cmd_rx_isr, send_partial_handler, UartConnected, ClearData,
         UartDisconnected, TakePacket, TakeLine, ExecLine, uartVars, dataVars
    <2> QED
      BY <2>1
  <1> QED
    BY <1>1, <1>2, <1>3, <1>4 DEF UartNext, UartThreads

-----------------------------------------------------------------------------
(***************************************************************************)
(* The invariant, and what follows from it.                                *)
(***************************************************************************)
UartInv == PortTypes /\ BufferTypes /\ CommandTypes /\ MatchTypes

LEMMA UartInvariant == UartSpec => []UartInv
  <1>1. UartInit => UartInv
    <2> SUFFICES ASSUME UartInit PROVE UartInv
      OBVIOUS
    <2>1. PortTypes
      BY DEF UartInit, PortTypes
    <2>2. <<>> \in Seq(Lines) /\ Len(<<>>) = 0
      OBVIOUS
    <2>3. DATA_QUEUED \in Nat /\ DATA_QUEUED # 0 /\ MAX_CMD_QUEUED \in Nat
      BY UartAssumption
    <2>4. BufferTypes
      <3>1. recv_buf = <<>> /\ free = DATA_QUEUED - 1 /\ datas = <<>> /\ packet = Nothing
        BY DEF UartInit
      <3>2. One(packet) = 0 /\ free \in Nat /\ free + 0 + 0 + 1 = DATA_QUEUED
        BY <2>3, <3>1, Counted
      <3> QED
        BY <2>2, <3>1, <3>2, EmptyBuffer DEF BufferTypes
    <2>5. CommandTypes
      <3>1. cmd = [avail |-> MAX_CMD_QUEUED, input |-> Nothing, queue |-> <<>>, busy |-> Nothing]
        BY DEF UartInit
      <3>2. MAX_CMD_QUEUED + 0 + 0 + 0 = MAX_CMD_QUEUED /\ One(Nothing) = 0
        BY <2>3, Counted
      <3> QED
        BY <2>2, <2>3, <3>1, <3>2 DEF CommandTypes
    <2>6. MatchTypes
      <3>1. <<>> \in Lines /\ Len(<<>>) <= NAME_MAX
        BY UartAssumption DEF Lines
      <3>2. name = NoName /\ match_cnt = 0
        BY DEF UartInit
      <3> QED
        BY <3>1, <3>2 DEF MatchTypes, NoName
    <2> QED
      BY <2>1, <2>4, <2>5, <2>6 DEF UartInv
  <1>2. UartInv /\ [UartNext]_uartVars => UartInv'
    BY PortTypesStep, BufferTypesStep, CommandTypesStep, MatchTypesStep DEF UartInv
  <1> QED
    BY <1>1, <1>2, PTL DEF UartSpec

\* recv_cb never writes behind its buffer, at_name_get never behind the room for a
\* name, at_disconn_match never reads behind the command, and the pool of buffers does
\* not grow.
THEOREM UartBounds == UartSpec => []UartTypeOK
  <1>1. UartInv => UartTypeOK
    <2> SUFFICES ASSUME UartInv PROVE UartTypeOK
      OBVIOUS
    <2>1. Len(DisconnectCmd) - 1 = 2
      BY DEF DisconnectCmd
    <2>2. free \in 0 .. DATA_QUEUED - 1
      <3> DEFINE a == Len(datas)
                 b == One(packet)
      <3>1. free \in Nat /\ a \in Nat /\ b \in {0, 1} /\ free + a + b + 1 = DATA_QUEUED
        BY Counted DEF UartInv, BufferTypes
      <3> HIDE DEF a, b
      <3> QED
        BY <3>1
    <2> QED
      BY <2>1, <2>2 DEF UartInv, PortTypes, BufferTypes, MatchTypes, UartTypeOK
  <1> QED
    BY UartInvariant, <1>1, PTL

\* recv_cb, data_handler and enter_into_at_cmd_mode: no buffer of either pool is lost
\* or in two places.
THEOREM UartBuffersConserved == UartSpec => []BuffersConserved
  <1>1. UartInv => BuffersConserved
    BY DEF UartInv, BufferTypes, CommandTypes, BuffersConserved
  <1> QED
    BY UartInvariant, <1>1, PTL

\* recv_cb starts the timer with the first byte of a packet, and nothing stops it
\* while bytes wait.
THEOREM UartPartialIsTimed == UartSpec => []PartialIsTimed
  <1>1. UartInit => PartialIsTimed
    BY DEF UartInit, PartialIsTimed
  <1>2. UartInv /\ PartialIsTimed /\ [UartNext]_uartVars => PartialIsTimed'
    <2> SUFFICES ASSUME UartInv, PartialIsTimed, [UartNext]_uartVars PROVE PartialIsTimed'
      OBVIOUS
    <2>1. ASSUME NEW buf \in Lines, NEW a, recv_cb(buf, a) PROVE PartialIsTimed'
      <3>1. CASE Collecting(buf, a)
        <4>1. recv_buf' = buf /\ partial' = (partial \/ Len(buf) > 0)
          BY <2>1, <3>1 DEF recv_cb, TimerRuns
        <4>2. buf # <<>> => Len(buf) > 0
          BY DEF Lines
        <4> QED
          BY <4>1, <4>2 DEF PartialIsTimed
      <3>2. CASE ~Collecting(buf, a)
        BY <2>1, <3>2 DEF recv_cb, PartialIsTimed
      <3> QED
        BY <3>1, <3>2
    <2>2. ASSUME NEW c \in Chars, act_data_rx_isr(c) PROVE PartialIsTimed'
      <3>1. Byte(c) \in PortBytes /\ recv_buf \in Seq(PortBytes)
        BY ByteTyped DEF UartInv, BufferTypes, Lines
      <3>2. Append(recv_buf, Byte(c)) \in Lines
        BY <3>1, AppendProperties DEF Lines
      <3> QED
        BY <2>1, <2>2, <3>2 DEF act_data_rx_isr
    <2>3. CASE send_partial_handler
      BY <2>1, <2>3 DEF send_partial_handler, UartInv, BufferTypes
    <2>4. CASE ClearData
      BY <2>4 DEF ClearData, PartialIsTimed
    <2>5. CASE (\E c : at_cmd_rx_isr(c)) \/ UartConnected \/ UartDisconnected \/ TakePacket \/
               TakeLine \/ ExecLine \/ UNCHANGED uartVars
      BY <2>5 DEF at_cmd_rx_isr, UartConnected, UartDisconnected, TakePacket, TakeLine, ExecLine,
         uartVars, dataVars, PartialIsTimed
    <2>6. CASE DropPacket \/ SlavePacket \/ OtaPacket \/ MasterPacket
      BY <2>6 DEF DropPacket, SlavePacket, OtaPacket, MasterPacket, PortKept, PartialIsTimed
    <2>7. {"x", "N", "r", "n"} \subseteq Chars /\ {"x", "A", "D", "E", "O"} \subseteq Chars
      BY DEF Chars
    <2> QED
      BY <2>2, <2>3, <2>4, <2>5, <2>6, <2>7 DEF UartNext, UartThreads
  <1> QED
    BY UartInvariant, <1>1, <1>2, PTL DEF UartSpec

-----------------------------------------------------------------------------
(***************************************************************************)
(* Packets, joined.                                                        *)
(***************************************************************************)
\* Lines are joined.
LEMMA Joined ==
  /\ <<>> \in Lines
  /\ \A a \in Lines : a \o <<>> = a /\ <<>> \o a = a
  /\ \A a, b \in Lines : a \o b \in Lines
  /\ \A a, b, c \in Lines : (a \o b) \o c = a \o (b \o c)
  BY ConcatProperties, ConcatEmptySeq, ConcatAssociative, EmptySeq DEF Lines

\* The bytes of a line, and of two lines.
LEMMA LineFacts ==
  /\ \A s \in Lines : /\ Len(s) \in Nat /\ DOMAIN s = 1 .. Len(s)
                      /\ \A i \in 1 .. Len(s) : s[i] \in PortBytes /\ s[i].n \in Nat
  /\ \A s, t \in Lines :
        /\ Len(s \o t) = Len(s) + Len(t)
        /\ \A i \in 1 .. Len(s) + Len(t) :
              (s \o t)[i] = IF i <= Len(s) THEN s[i] ELSE t[i - Len(s)]
  <1>1. \A b \in PortBytes : b.n \in Nat
    BY DEF PortBytes
  <1>2. \A s \in Lines : /\ Len(s) \in Nat /\ DOMAIN s = 1 .. Len(s)
                         /\ \A i \in 1 .. Len(s) : s[i] \in PortBytes
    BY DEF Lines
  <1>3. \A s, t \in Lines :
        /\ Len(s \o t) = Len(s) + Len(t)
        /\ \A i \in 1 .. Len(s) + Len(t) :
              (s \o t)[i] = IF i <= Len(s) THEN s[i] ELSE t[i - Len(s)]
    BY ConcatProperties DEF Lines
  <1> QED
    BY <1>1, <1>2, <1>3

\* Behind equal beginnings the same parts follow.
LEMMA JoinFrom ==
  ASSUME NEW n \in Nat, NEW a \in Lines, NEW p \in [1 .. n -> Lines],
         NEW f \in [0 .. n -> Lines], NEW g \in [0 .. n -> Lines], f[0] = a \o g[0],
         \A i \in 1 .. n : f[i] = f[i - 1] \o p[i] /\ g[i] = g[i - 1] \o p[i]
  PROVE  \A i \in 0 .. n : f[i] = a \o g[i]
  <1> DEFINE T == {i \in 0 .. n : f[i] = a \o g[i]}
  <1>1. 0 \in T
    OBVIOUS
  <1>2. ASSUME NEW i \in 0 .. n, i # n, i \in T PROVE i + 1 \in T
    <2>1. i + 1 \in 1 .. n /\ i + 1 \in 0 .. n /\ (i + 1) - 1 = i
      BY <1>2
    <2>2. f[i + 1] = (a \o g[i]) \o p[i + 1] /\ g[i + 1] = g[i] \o p[i + 1]
      BY <1>2, <2>1
    <2>3. g[i] \in Lines /\ p[i + 1] \in Lines
      BY <1>2, <2>1
    <2>4. (a \o g[i]) \o p[i + 1] = a \o (g[i] \o p[i + 1])
      BY <2>3, Joined
    <2> QED
      BY <2>1, <2>2, <2>4
  <1>3. \A i \in 0 .. n : i \in T
    <2> HIDE DEF T
    <2> QED
      BY <1>1, <1>2, UpTo
  <1> QED
    BY <1>3

\* FlattenSeq joins the packets.
LEMMA FlattenLines ==
  ASSUME NEW q \in Seq(Lines)
  PROVE  \E f \in [0 .. Len(q) -> Lines] : Joins(f, q, Len(q)) /\ FlattenSeq(q) = f[Len(q)]
  BY FlattenJoins DEF Lines

\* What is joined from packets of two queues is joined from each and then joined.
LEMMA FlattenConcat ==
  ASSUME NEW p \in Seq(Lines), NEW q \in Seq(Lines)
  PROVE  /\ FlattenSeq(p) \in Lines /\ FlattenSeq(q) \in Lines
         /\ FlattenSeq(p \o q) = FlattenSeq(p) \o FlattenSeq(q)
  <1> DEFINE m == Len(p)
             n == Len(q)
             r == p \o q
  <1>1. /\ m \in Nat /\ n \in Nat /\ r \in Seq(Lines) /\ Len(r) = m + n
        /\ \A i \in 1 .. m + n : r[i] = IF i <= m THEN p[i] ELSE q[i - m]
    BY ConcatProperties
  <1>2. PICK f \in [0 .. m -> Lines] : Joins(f, p, m) /\ FlattenSeq(p) = f[m]
    BY FlattenLines
  <1>3. PICK g \in [0 .. n -> Lines] : Joins(g, q, n) /\ FlattenSeq(q) = g[n]
    BY FlattenLines
  <1>4. PICK h \in [0 .. m + n -> Lines] : Joins(h, r, m + n) /\ FlattenSeq(r) = h[m + n]
    <2> HIDE DEF r
    <2> QED
      BY <1>1, FlattenLines
  <1>p. (\A i \in 1 .. m : p[i] \in Lines) /\ \A i \in 1 .. n : q[i] \in Lines
    OBVIOUS
  <1> HIDE DEF m, n, r
  <1>5. f[m] \in Lines /\ g[n] \in Lines
    BY <1>1, <1>2, <1>3
  <1>6. h[m] = f[m]
    <2> DEFINE front == [i \in 0 .. m |-> h[i]]
               first == [i \in 1 .. m |-> p[i]]
    <2>1. \A i \in 0 .. m : i \in 0 .. m + n
      BY <1>1
    <2>2. front \in [0 .. m -> Lines] /\ first \in [1 .. m -> Lines]
      BY <1>1, <1>p, <2>1
    <2>3. \A i \in 1 .. m : /\ i \in 1 .. m + n /\ r[i] = p[i] /\ i - 1 \in 0 .. m
                            /\ i \in 0 .. m
      BY <1>1
    <2>4. \A i \in 1 .. m : front[i] = front[i - 1] \o first[i] /\ f[i] = f[i - 1] \o first[i]
      BY <1>2, <1>4, <2>3 DEF Joins
    <2>5. front[0] = <<>> \o f[0]
      BY <1>1, <1>2, <1>4, Joined DEF Joins
    <2>6. \A i \in 0 .. m : front[i] = <<>> \o f[i]
      <3>1. <<>> \in Lines
        BY Joined
      <3> HIDE DEF front, first
      <3> QED
        BY <1>1, <2>2, <2>4, <2>5, <3>1, JoinFrom
    <2>7. m \in 0 .. m
      BY <1>1
    <2> QED
      BY <1>5, <2>6, <2>7, Joined
  <1>7. h[m + n] = f[m] \o g[n]
    <2> DEFINE back == [i \in 0 .. n |-> h[m + i]]
               last == [i \in 1 .. n |-> q[i]]
    <2>1. \A i \in 0 .. n : m + i \in 0 .. m + n
      BY <1>1
    <2>2. back \in [0 .. n -> Lines] /\ last \in [1 .. n -> Lines]
      BY <1>1, <1>p, <2>1
    <2>3. ASSUME NEW i \in 1 .. n
          PROVE  /\ m + i \in 1 .. m + n /\ r[m + i] = q[i] /\ i - 1 \in 0 .. n
                 /\ i \in 0 .. n /\ (m + i) - 1 = m + (i - 1)
      <3>1. m + i \in 1 .. m + n /\ ~(m + i <= m) /\ (m + i) - m = i
        BY <1>1
      <3> QED
        BY <1>1, <3>1, SMTT(30)
    <2>4. \A i \in 1 .. n : back[i] = back[i - 1] \o last[i] /\ g[i] = g[i - 1] \o last[i]
      BY <1>3, <1>4, <2>3 DEF Joins
    <2>5. back[0] = f[m] \o g[0]
      <3>1. back[0] = h[m] /\ g[0] = <<>>
        BY <1>1, <1>3 DEF Joins
      <3> QED
        BY <1>5, <1>6, <3>1, Joined
    <2>6. \A i \in 0 .. n : back[i] = f[m] \o g[i]
      <3> HIDE DEF back, last
      <3> QED
        BY <1>1, <1>5, <2>2, <2>4, <2>5, JoinFrom
    <2>7. n \in 0 .. n
      BY <1>1
    <2> QED
      BY <2>6, <2>7
  <1> QED
    BY <1>2, <1>3, <1>4, <1>5, <1>7 DEF r

\* No packet, one packet.
LEMMA FlattenOne == FlattenSeq(<<>>) = <<>> /\ \A x \in Lines : FlattenSeq(<<x>>) = x
  <1>1. FlattenSeq(<<>>) = <<>>
    BY DEF FlattenSeq
  <1>2. ASSUME NEW x \in Lines PROVE FlattenSeq(<<x>>) = x
    <2>1. <<x>> \in Seq(Lines) /\ Len(<<x>>) = 1 /\ <<x>>[1] = x
      OBVIOUS
    <2>2. PICK f \in [0 .. 1 -> Lines] : Joins(f, <<x>>, 1) /\ FlattenSeq(<<x>>) = f[1]
      BY <2>1, FlattenLines
    <2>3. 1 \in 1 .. 1 /\ 1 - 1 = 0
      OBVIOUS
    <2>4. f[0] = <<>> /\ f[1] = f[0] \o x
      BY <2>1, <2>2, <2>3 DEF Joins
    <2> QED
      BY <2>2, <2>4, Joined
  <1> QED
    BY <1>1, <1>2

\* The queue of packets at both of its ends.
LEMMA FlattenQueue ==
  ASSUME NEW q \in Seq(Lines)
  PROVE  /\ FlattenSeq(q) \in Lines
         /\ \A x \in Lines : FlattenSeq(Append(q, x)) = FlattenSeq(q) \o x
         /\ q # <<>> => FlattenSeq(q) = Head(q) \o FlattenSeq(Tail(q))
  <1>1. FlattenSeq(q) \in Lines
    BY FlattenConcat
  <1>2. ASSUME NEW x \in Lines PROVE FlattenSeq(Append(q, x)) = FlattenSeq(q) \o x
    <2>1. <<x>> \in Seq(Lines) /\ Append(q, x) = q \o <<x>>
      BY AppendIsConcat
    <2> QED
      BY <2>1, FlattenConcat, FlattenOne
  <1>3. ASSUME q # <<>> PROVE FlattenSeq(q) = Head(q) \o FlattenSeq(Tail(q))
    <2>1. Head(q) \in Lines /\ Tail(q) \in Seq(Lines)
      BY <1>3, HeadTailProperties
    <2>2. q = <<Head(q)>> \o Tail(q)
      BY <1>3
    <2>3. <<Head(q)>> \in Seq(Lines)
      BY <2>1
    <2> QED
      BY <2>1, <2>2, <2>3, FlattenConcat, FlattenOne
  <1> QED
    BY <1>1, <1>2, <1>3

-----------------------------------------------------------------------------
(***************************************************************************)
(* The data among the bytes.                                               *)
(***************************************************************************)
Part(b) == IF b.c = "x" THEN <<b>> ELSE <<>>
Parts(s) == [i \in DOMAIN s |-> Part(s[i])]

\* A line, with each byte that is no data replaced by nothing.
LEMMA PartsOf ==
  ASSUME NEW s \in Lines
  PROVE  /\ Parts(s) \in Seq(Lines) /\ Len(Parts(s)) = Len(s)
         /\ \A i \in 1 .. Len(s) : Parts(s)[i] = Part(s[i]) /\ Part(s[i]) \in Lines
         /\ Plain(s) = FlattenSeq(Parts(s))
  <1>1. Len(s) \in Nat /\ DOMAIN s = 1 .. Len(s) /\ \A i \in 1 .. Len(s) : s[i] \in PortBytes
    BY DEF Lines
  <1>2. \A b \in PortBytes : Part(b) \in Lines
    BY DEF Part, Lines
  <1>3. Parts(s) = [i \in 1 .. Len(s) |-> Part(s[i])]
    BY <1>1 DEF Parts
  <1>4. Parts(s) \in [1 .. Len(s) -> Lines]
    BY <1>1, <1>2, <1>3
  <1>5. Parts(s) \in Seq(Lines) /\ Len(Parts(s)) = Len(s)
    BY <1>1, <1>4
  <1>6. Plain(s) = FlattenSeq(Parts(s))
    BY DEF Plain, Parts, Part
  <1> QED
    BY <1>1, <1>2, <1>3, <1>5, <1>6

\* The data of two lines are those of the first and then those of the second.
LEMMA PlainConcat ==
  ASSUME NEW s \in Lines, NEW t \in Lines
  PROVE  Plain(s) \in Lines /\ Plain(t) \in Lines /\ Plain(s \o t) = Plain(s) \o Plain(t)
  <1> DEFINE p == Parts(s)
             q == Parts(t)
             m == Len(s)
             n == Len(t)
  <1>1. /\ p \in Seq(Lines) /\ Len(p) = m /\ q \in Seq(Lines) /\ Len(q) = n
        /\ m \in Nat /\ n \in Nat
    BY PartsOf DEF Lines
  <1>2. /\ s \o t \in Lines /\ Len(s \o t) = m + n
        /\ \A i \in 1 .. m + n : (s \o t)[i] = IF i <= m THEN s[i] ELSE t[i - m]
    BY ConcatProperties DEF Lines
  <1>3. /\ Parts(s \o t) \in Seq(Lines) /\ Len(Parts(s \o t)) = m + n
        /\ \A i \in 1 .. m + n : Parts(s \o t)[i] = Part((s \o t)[i])
        /\ Plain(s \o t) = FlattenSeq(Parts(s \o t))
    BY <1>2, PartsOf
  <1>4. /\ p \o q \in Seq(Lines) /\ Len(p \o q) = m + n
        /\ \A i \in 1 .. m + n : (p \o q)[i] = IF i <= m THEN p[i] ELSE q[i - m]
    <2> HIDE DEF p, q, m, n
    <2> QED
      BY <1>1, ConcatProperties
  <1>5. ASSUME NEW i \in 1 .. m + n PROVE Parts(s \o t)[i] = (p \o q)[i]
    <2>1. CASE i <= m
      <3>1. i \in 1 .. m
        BY <1>1, <2>1
      <3> QED
        BY <1>2, <1>3, <1>4, <2>1, <3>1, PartsOf
    <2>2. CASE ~(i <= m)
      <3>1. i - m \in 1 .. n
        BY <1>1, <2>2
      <3> QED
        BY <1>2, <1>3, <1>4, <2>2, <3>1, PartsOf
    <2> QED
      BY <2>1, <2>2
  <1> HIDE DEF p, q, m, n
  <1>6. Parts(s \o t) = p \o q
    BY <1>3, <1>4, <1>5, SeqEqual
  <1>7. Plain(s) = FlattenSeq(p) /\ Plain(t) = FlattenSeq(q)
    BY PartsOf DEF p, q
  <1> QED
    BY <1>1, <1>3, <1>6, <1>7, FlattenConcat

\* Bytes of commands are no data.
LEMMA PlainNone ==
  ASSUME NEW s \in Lines, \A i \in 1 .. Len(s) : s[i].c # "x"
  PROVE  Plain(s) = <<>>
  <1> DEFINE n == Len(s)
             p == Parts(s)
  <1>1. n \in Nat /\ p \in Seq(Lines) /\ Len(p) = n /\ Plain(s) = FlattenSeq(p)
    BY PartsOf DEF Lines
  <1>2. \A i \in 1 .. n : p[i] = <<>>
    BY PartsOf DEF Part
  <1>3. PICK f \in [0 .. n -> Lines] : Joins(f, p, n) /\ FlattenSeq(p) = f[n]
    BY <1>1, FlattenLines
  <1> DEFINE T == {i \in 0 .. n : f[i] = <<>>}
  <1> HIDE DEF n, p
  <1>4. 0 \in T
    BY <1>1, <1>3 DEF Joins
  <1>5. ASSUME NEW i \in 0 .. n, i # n, i \in T PROVE i + 1 \in T
    <2>1. i + 1 \in 1 .. n /\ i + 1 \in 0 .. n /\ (i + 1) - 1 = i
      BY <1>1, <1>5
    <2>2. f[i + 1] = <<>> \o <<>>
      BY <1>2, <1>3, <1>5, <2>1 DEF Joins
    <2> QED
      BY <2>1, <2>2, Joined
  <1>6. \A i \in 0 .. n : i \in T
    <2> HIDE DEF T
    <2> QED
      BY <1>1, <1>4, <1>5, UpTo
  <1>7. n \in 0 .. n
    BY <1>1
  <1> QED
    BY <1>1, <1>3, <1>6, <1>7

-----------------------------------------------------------------------------
(***************************************************************************)
(* The way of the data through the buffers.                                *)
(***************************************************************************)
Taken == IF packet = Nothing THEN <<>> ELSE packet
Queued == FlattenSeq(datas) \o recv_buf

FlightInParts ==
    /\ Taken \in Lines /\ FlattenSeq(datas) \in Lines /\ recv_buf \in Lines
    /\ Queued \in Lines /\ InFlight = Taken \o Queued
    /\ Plain(InFlight) = Plain(Taken) \o Plain(Queued)

\* The bytes in flight: those of the packet and those behind it.
LEMMA FlightParts == BufferTypes => FlightInParts
  <1> SUFFICES ASSUME BufferTypes PROVE FlightInParts
    OBVIOUS
  <1>1. Taken \in Lines /\ recv_buf \in Lines /\ FlattenSeq(datas) \in Lines
    BY Joined, FlattenQueue DEF BufferTypes, Taken
  <1>2. Queued \in Lines /\ InFlight = Taken \o Queued
    BY <1>1, Joined DEF Queued, InFlight, Taken
  <1> QED
    BY <1>1, <1>2, PlainConcat DEF FlightInParts

LEMMA FlightPartsNext == BufferTypes' => FlightInParts'
  BY FlightParts, PTL

\* recv_cb: the bytes it was called with are in flight, unless they are lost.
LEMMA FlightReceived ==
  ASSUME BufferTypes, BufferTypes', NEW buf \in Lines, NEW a, recv_cb(buf, a), packet' = packet,
         "overrun" \notin trouble'
  PROVE  trouble' = trouble /\ InFlight' = Taken \o (FlattenSeq(datas) \o buf)
  <1>1. datas \in Seq(Lines) /\ FlattenSeq(datas) \in Lines
    BY FlattenQueue DEF BufferTypes
  <1>2. Taken' = Taken /\ InFlight' = Taken' \o Queued'
    BY FlightPartsNext DEF Taken, FlightInParts
  <1>3. CASE Collecting(buf, a)
    <2>1. recv_buf' = buf /\ datas' = datas /\ trouble' = trouble \cup {}
      BY <1>3 DEF recv_cb, Excuse
    <2> QED
      BY <1>2, <2>1 DEF Queued
  <1>4. CASE ~Collecting(buf, a)
    <2>1. recv_buf' = <<>> /\ datas' = Append(datas, buf) /\ trouble' = trouble \cup {}
      BY <1>4 DEF recv_cb, Excuse
    <2>2. Queued' = (FlattenSeq(datas) \o buf) \o <<>>
      BY <1>1, <2>1, FlattenQueue DEF Queued
    <2> QED
      BY <1>1, <1>2, <2>1, <2>2, Joined
  <1> QED
    BY <1>3, <1>4

\* act_data_rx_isr: a byte is added at the end.
LEMMA FlightGrows ==
  ASSUME PortTypes, BufferTypes, BufferTypes', NEW c \in Chars, act_data_rx_isr(c),
         "overrun" \notin trouble'
  PROVE  /\ trouble' = trouble /\ <<Byte(c)>> \in Lines /\ InFlight \in Lines
         /\ InFlight' = InFlight \o <<Byte(c)>>
  <1> DEFINE b == Byte(c)
             buf == Append(recv_buf, b)
             q == FlattenSeq(datas)
  <1>1. b \in PortBytes /\ <<b>> \in Lines
    BY ByteTyped DEF Lines
  <1>2. buf = recv_buf \o <<b>> /\ buf \in Lines
    BY <1>1, AppendIsConcat, AppendProperties DEF BufferTypes, Lines
  <1>3. recv_cb(buf, FALSE) /\ packet' = packet
    BY DEF act_data_rx_isr
  <1> HIDE DEF b, buf, q
  <1>4. trouble' = trouble /\ InFlight' = Taken \o (q \o buf)
    BY <1>2, <1>3, FlightReceived DEF q
  <1>5. Taken \in Lines /\ q \in Lines /\ recv_buf \in Lines /\ InFlight = Taken \o (q \o recv_buf)
    BY FlightParts DEF FlightInParts, Queued, q
  <1>6. q \o buf = (q \o recv_buf) \o <<b>> /\ q \o recv_buf \in Lines
    BY <1>1, <1>2, <1>5, Joined, SMTT(30)
  <1>7. Taken \o ((q \o recv_buf) \o <<b>>) = (Taken \o (q \o recv_buf)) \o <<b>>
    BY <1>1, <1>5, <1>6, Joined
  <1>8. InFlight' = InFlight \o <<b>> /\ InFlight \in Lines
    BY <1>4, <1>5, <1>6, <1>7, Joined
  <1> QED
    BY <1>1, <1>4, <1>8 DEF b

\* The steps that lead no byte in or out.
Aside == \/ send_partial_handler \/ TakePacket \/ ClearData \/ (\E c : at_cmd_rx_isr(c))
         \/ UartConnected \/ UartDisconnected \/ TakeLine \/ ExecLine \/ UNCHANGED uartVars

LEMMA FlightKept ==
  ASSUME PortTypes, BufferTypes, BufferTypes', Aside, trouble' \cap {"overrun", "cleared"} = {}
  PROVE  /\ trouble' = trouble /\ InFlight' = InFlight
         /\ UNCHANGED <<role, name>> /\ nbyte'.data = nbyte.data
         /\ trouble = {} => unsent' = unsent
  <1>1. CASE send_partial_handler
    <2>1. recv_cb(recv_buf, TRUE) /\ packet' = packet
      BY <1>1 DEF send_partial_handler
    <2>2. recv_buf \in Lines /\ InFlight = Taken \o (FlattenSeq(datas) \o recv_buf)
      BY FlightParts DEF FlightInParts, Queued
    <2>3. trouble' = trouble /\ InFlight' = InFlight
      BY <2>1, <2>2, FlightReceived
    <2> QED
      BY <1>1, <2>3 DEF send_partial_handler, StillOwed
  <1>2. CASE TakePacket
    <2>1. /\ packet = Nothing /\ datas # <<>> /\ packet' = Head(datas) /\ datas' = Tail(datas)
          /\ recv_buf' = recv_buf
      BY <1>2 DEF TakePacket
    <2>2. packet' \in Lines /\ datas' \in Seq(Lines) /\ FlattenSeq(datas') \in Lines
      BY <2>1, Counted, FlattenQueue DEF BufferTypes
    <2>3. Taken = <<>> /\ Taken' = packet'
      BY <2>1, <2>2, NotNothing DEF Taken
    <2>4. FlattenSeq(datas) = packet' \o FlattenSeq(datas')
      BY <2>1, FlattenQueue DEF BufferTypes
    <2>5. InFlight = Queued /\ InFlight' = packet' \o Queued'
      BY <2>3, FlightParts, FlightPartsNext, Joined DEF FlightInParts
    <2>6. Queued = packet' \o Queued'
      <3>1. recv_buf \in Lines /\ Queued' = FlattenSeq(datas') \o recv_buf
        BY <2>1 DEF BufferTypes, Queued
      <3>2. Queued = (packet' \o FlattenSeq(datas')) \o recv_buf
        BY <2>4 DEF Queued
      <3> QED
        BY <2>2, <3>1, <3>2, Joined
    <2> QED
      BY <1>2, <2>5, <2>6 DEF TakePacket
  <1>3. CASE ClearData
    <2>1. recv_buf = <<>> /\ UNCHANGED <<recv_buf, datas, packet>> /\ trouble' = trouble
      BY <1>3 DEF ClearData, Excuse
    <2> QED
      BY <1>3, <2>1 DEF InFlight, ClearData, StillOwed
  <1>4. ASSUME NEW c, at_cmd_rx_isr(c) PROVE nbyte'.data = nbyte.data
    BY <1>4 DEF at_cmd_rx_isr, Arrives, PortTypes
  <1>5. CASE (\E c : at_cmd_rx_isr(c)) \/ UartConnected \/ UartDisconnected \/ TakeLine \/ ExecLine
             \/ UNCHANGED uartVars
    <2>1. UNCHANGED <<recv_buf, datas, packet, unsent, trouble, role, name>>
      BY <1>5 DEF at_cmd_rx_isr, UartConnected, UartDisconnected, TakeLine, ExecLine, uartVars,
         dataVars
    <2>2. nbyte'.data = nbyte.data
      BY <1>4, <1>5 DEF UartConnected, UartDisconnected, TakeLine, ExecLine, uartVars
    <2> QED
      BY <2>1, <2>2 DEF InFlight
  <1> QED
    BY <1>1, <1>2, <1>3, <1>5 DEF Aside

\* The data thread is done with its packet.
LEMMA FlightDone ==
  ASSUME BufferTypes, BufferTypes', DropPacket \/ SlavePacket \/ OtaPacket \/ MasterPacket
  PROVE  /\ packet \in Lines /\ Queued \in Lines
         /\ InFlight = packet \o Queued /\ InFlight' = Queued /\ nbyte' = nbyte
  <1>1. /\ packet # Nothing /\ packet' = Nothing /\ recv_buf' = recv_buf /\ datas' = datas
        /\ nbyte' = nbyte
    BY DEF DropPacket, SlavePacket, OtaPacket, MasterPacket, PacketDone, PortKept
  <1>2. Taken = packet /\ Taken' = <<>> /\ Queued' = Queued
    BY <1>1 DEF Taken, Queued
  <1>3. packet \in Lines /\ Queued \in Lines /\ InFlight = packet \o Queued
    BY <1>2, FlightParts DEF FlightInParts
  <1>4. InFlight' = <<>> \o Queued
    BY <1>2, FlightPartsNext DEF FlightInParts
  <1> QED
    BY <1>1, <1>3, <1>4, Joined

\* A step leads a byte in, leads a packet out, or leaves the bytes in flight.
LEMMA FlightSteps ==
  [UartNext]_uartVars => \/ \E c \in Chars : act_data_rx_isr(c)
                         \/ DropPacket \/ SlavePacket \/ OtaPacket \/ MasterPacket
                         \/ Aside
  <1>1. \A c \in IF role = "SLAVE" THEN {"x", "N", "r", "n"} ELSE {"x", "A", "D", "E", "O"} :
           c \in Chars
    BY DEF Chars
  <1> QED
    BY <1>1 DEF UartNext, UartThreads, Aside

\* What is behind the first of two sequences is the second.
LEMMA DropFirst ==
  ASSUME NEW S, NEW a \in Seq(S), NEW b \in Seq(S)
  PROVE  SubSeq(a \o b, Len(a) + 1, Len(a \o b)) = b
  <1> DEFINE c == a \o b
             m == Len(a)
             n == Len(b)
             d == SubSeq(c, m + 1, m + n)
  <1>1. m \in Nat /\ n \in Nat
    OBVIOUS
  <1>2. /\ c \in Seq(S) /\ Len(c) = m + n
        /\ \A i \in 1 .. m + n : c[i] = IF i <= m THEN a[i] ELSE b[i - m]
    BY ConcatProperties
  <1> HIDE DEF c, m, n
  <1>3. \A i \in m + 1 .. m + n : c[i] \in S
    <2>1. \A i \in m + 1 .. m + n : i \in 1 .. Len(c)
      BY <1>1, <1>2
    <2> QED
      BY <1>2, <2>1
  <1>4. d \in Seq(S) /\ Len(d) = n /\ \A i \in 1 .. n : d[i] = c[m + i]
    <2> DEFINE k == m + 1
               l == m + n
    <2>1. k \in Int /\ l \in Int
      BY <1>1
    <2>2. \A i \in k .. l : c[i] \in S
      BY <1>3
    <2>3. d = SubSeq(c, k, l)
      OBVIOUS
    <2> HIDE DEF k, l, d
    <2>4. /\ d \in Seq(S) /\ Len(d) = IF k <= l THEN l - k + 1 ELSE 0
          /\ \A i \in 1 .. l - k + 1 : d[i] = c[k + i - 1]
      BY <2>1, <2>2, <2>3, SubSeqProperties
    <2>5. l - k + 1 = n /\ (k <= l <=> n # 0) /\ \A i \in 1 .. n : k + i - 1 = m + i
      BY <1>1 DEF k, l
    <2> QED
      BY <1>1, <2>4, <2>5
  <1> HIDE DEF d
  <1>6. ASSUME NEW i \in 1 .. n PROVE d[i] = b[i]
    <2>1. m + i \in 1 .. m + n /\ ~(m + i <= m) /\ (m + i) - m = i
      BY <1>1
    <2>2. c[m + i] = b[i]
      BY <1>2, <2>1
    <2> QED
      BY <1>4, <2>2
  <1>7. d = b
    BY <1>4, <1>6, SeqEqual DEF n
  <1> QED
    BY <1>2, <1>7 DEF c, d, m, n


\* ble_send_data has taken the data of the packet.
LEMMA FlightSent ==
  ASSUME BufferTypes, NEW a \in Lines, NEW b \in Lines, NEW rest, Plain(rest) = Plain(a),
         Send(rest, {}), trouble' = {}, Transparent, InFlight = a \o b
  PROVE  unsent' = Plain(b)
  <1> DEFINE x == Plain(a)
             y == Plain(b)
  <1>1. x \in Lines /\ y \in Lines /\ Plain(a \o b) = x \o y
    BY PlainConcat
  <1>2. trouble = {} /\ unsent' = SubSeq(unsent, Len(Plain(rest)) + 1, Len(unsent))
    BY DEF Send, Excuse, StillOwed
  <1>3. unsent = x \o y
    BY <1>1, <1>2 DEF Transparent
  <1> HIDE DEF x, y
  <1>4. SubSeq(x \o y, Len(x) + 1, Len(x \o y)) = y
    BY <1>1, DropFirst DEF Lines
  <1> QED
    BY <1>2, <1>3, <1>4 DEF x, y

\* No step loses, repeats or overtakes data without a reason.
LEMMA TransparentStep ==
  ASSUME PortTypes, BufferTypes, BufferTypes', MatchTypes, Transparent, [UartNext]_uartVars
  PROVE  Transparent'
  <1> SUFFICES ASSUME trouble' = {} PROVE Plain(InFlight') = unsent'
    BY DEF Transparent
  <1>1. ASSUME NEW c \in Chars, act_data_rx_isr(c) PROVE Plain(InFlight') = unsent'
    <2> DEFINE b == <<Byte(c)>>
    <2>1. trouble = {} /\ b \in Lines /\ InFlight \in Lines /\ InFlight' = InFlight \o b
      BY <1>1, FlightGrows
    <2>2. unsent' = unsent \o Plain(b)
      BY <1>1 DEF act_data_rx_isr, StillOwed
    <2> HIDE DEF b
    <2>3. Plain(InFlight') = Plain(InFlight) \o Plain(b)
      BY <2>1, PlainConcat
    <2> QED
      BY <2>1, <2>2, <2>3 DEF Transparent
  <1>2. CASE SlavePacket
    <2> DEFINE found == ~name.getting /\ packet # <<>> /\ packet[1].c = "N"
    <2>1. PICK start : /\ Send(Rest(start), IF found \/ name.getting THEN {"command"} ELSE {})
                       /\ ~found /\ ~name.getting => start = 0
      BY <1>2 DEF SlavePacket
    <2> HIDE DEF found
    <2>2. ~found /\ ~name.getting
      BY <2>1 DEF Send, Excuse
    <2>3. packet \in Lines /\ Queued \in Lines /\ InFlight = packet \o Queued /\ InFlight' = Queued
      BY <1>2, FlightDone
    <2>4. Rest(start) = packet
      <3>1. Len(packet) \in Nat /\ SubSeq(packet, 1, Len(packet)) = packet
        BY <2>3, SubSeqFull DEF Lines
      <3> QED
        BY <2>1, <2>2, <3>1 DEF Rest
    <2>5. Send(packet, {})
      BY <2>1, <2>2, <2>4
    <2> QED
      BY <2>3, <2>5, FlightSent
  <1>3. CASE MasterPacket
    <2>1. packet \in Lines /\ Queued \in Lines /\ InFlight = packet \o Queued /\ InFlight' = Queued
      BY <1>3, FlightDone
    <2>2. \/ Send(<<>>, {"command"}) \/ Send(packet, {})
          \/ Matched(packet) = Len(packet) /\ Send(<<>>, {})
      BY <1>3 DEF MasterPacket
    <2>3. ~Send(<<>>, {"command"})
      BY DEF Send, Excuse
    <2>4. Plain(<<>>) = <<>>
      BY Joined, PlainNone
    <2>5. Matched(packet) = Len(packet) => Plain(packet) = <<>>
      <3> SUFFICES ASSUME Matched(packet) = Len(packet), NEW i \in 1 .. Len(packet)
                   PROVE  packet[i].c # "x"
        BY <2>1, PlainNone
      <3>1. match_cnt + i <= 3 /\ packet[i].c = DisconnectCmd[match_cnt + i]
        BY <2>1, LongestMatch DEF DisconnectCmd
      <3>2. match_cnt + i \in {1, 2, 3}
        BY <2>1, <3>1 DEF MatchTypes, Lines
      <3>3. \A j \in {1, 2, 3} : DisconnectCmd[j] # "x"
        BY DEF DisconnectCmd
      <3> QED
        BY <3>1, <3>2, <3>3
    <2>6. PICK rest : Send(rest, {}) /\ Plain(rest) = Plain(packet)
      BY <2>2, <2>3, <2>4, <2>5
    <2> QED
      BY <2>1, <2>6, FlightSent
  <1>4. ~OtaPacket /\ ~DropPacket
    BY DEF OtaPacket, DropPacket, Send, Excuse
  <1>5. CASE Aside
    BY <1>5, FlightKept DEF Transparent
  <1> QED
    BY <1>1, <1>2, <1>3, <1>4, <1>5, FlightSteps

\* recv_cb, send_partial_handler and data_handler: for buffers of every size and
\* any split of the stream into packets, the data that nobody has sent are in the
\* buffers, complete and in order, or one of the named reasons has come up.
THEOREM UartTransparent == UartSpec => []Transparent
  <1>1. UartInit => Transparent
    <2> SUFFICES ASSUME UartInit PROVE Transparent
      OBVIOUS
    <2>1. InFlight = (<<>> \o <<>>) \o <<>> /\ unsent = <<>>
      BY FlattenOne DEF UartInit, InFlight
    <2>2. InFlight = <<>>
      BY <2>1, Joined
    <2>3. Plain(<<>>) = <<>>
      BY Joined, PlainNone
    <2> QED
      BY <2>1, <2>2, <2>3 DEF Transparent
  <1>2. UartInv /\ UartInv' /\ Transparent /\ [UartNext]_uartVars => Transparent'
    BY TransparentStep DEF UartInv
  <1> QED
    BY UartInvariant, <1>1, <1>2, PTL DEF UartSpec

-----------------------------------------------------------------------------
(***************************************************************************)
(* The name that follows AT+NAME.                                          *)
(***************************************************************************)
\* The bytes of s are those that follow the byte with number m.
Counts(s, m) == \A i \in 1 .. Len(s) : s[i].n = m + i

\* The bytes in flight are the last that arrived.
Numbered == \A i \in 1 .. Len(InFlight) : InFlight[i].n + Len(InFlight) = nbyte.data + i

\* A name that is being received goes on with the next byte in flight, until its
\* carriage return or its room is reached.
NameGoesOn ==
    name.getting =>
      /\ role = "SLAVE" /\ ~name.ended /\ Counts(name.buf, name.start)
      /\ ~name.r /\ Len(name.buf) < NAME_MAX =>
            name.start + Len(name.buf) + Len(InFlight) = nbyte.data
NameInv ==
    trouble \subseteq {"command"} =>
      Numbered /\ NameGoesOn /\ (name.ended => Counts(name.stored, name.start))

\* Numbers that go on go on behind the joint.
LEMMA ConcatCounts ==
  ASSUME NEW s \in Lines, NEW t \in Lines, NEW m \in Nat,
         Counts(s, m), Counts(t, m + Len(s))
  PROVE  Counts(s \o t, m)
  <1> DEFINE k == Len(s)
             l == Len(t)
  <1>1. k \in Nat /\ l \in Nat
    BY DEF Lines
  <1>2. /\ Len(s \o t) = k + l
        /\ \A i \in 1 .. k + l : (s \o t)[i] = IF i <= k THEN s[i] ELSE t[i - k]
    BY ConcatProperties DEF Lines
  <1>3. (\A i \in 1 .. k : s[i].n = m + i) /\ \A i \in 1 .. l : t[i].n = m + k + i
    BY DEF Counts
  <1> HIDE DEF k, l
  <1>4. ASSUME NEW i \in 1 .. k + l PROVE (s \o t)[i].n = m + i
    <2>1. CASE i <= k
      <3>1. i \in 1 .. k
        BY <1>1, <2>1
      <3> QED
        BY <1>2, <1>3, <2>1, <3>1
    <2>2. CASE ~(i <= k)
      <3>1. i - k \in 1 .. l /\ m + k + (i - k) = m + i
        BY <1>1, <2>2
      <3> QED
        BY <1>2, <1>3, <2>2, <3>1
    <2> QED
      BY <2>1, <2>2
  <1> QED
    BY <1>2, <1>4 DEF Counts

\* What at_name_get copies goes on where the name was.
LEMMA CopyCounts ==
  ASSUME NEW buf \in Lines, Len(buf) <= NAME_MAX, NEW p \in Lines, NEW len \in 0 .. Len(p),
         NEW m \in Nat, Counts(buf, m),
         len # 0 /\ Len(buf) < NAME_MAX => Counts(p, m + Len(buf))
  PROVE  /\ Counts(Copied(buf, p, len), m)
         /\ Len(Copied(buf, p, len)) < NAME_MAX => Len(Copied(buf, p, len)) = Len(buf) + len
  <1>1. PICK s \in Lines :
           /\ Copied(buf, p, len) = buf \o s
           /\ Len(s) <= len /\ Len(buf) + Len(s) <= NAME_MAX
           /\ Len(s) # len => Len(buf) + Len(s) = NAME_MAX
           /\ \A i \in 1 .. Len(s) : s[i] = p[i] /\ i \in 1 .. Len(p)
    BY CopyParts
  <1>2. Len(buf) \in Nat /\ NAME_MAX \in Nat /\ Len(s) \in Nat /\ Len(buf \o s) = Len(buf) + Len(s)
    BY UartAssumption, LineFacts
  <1>3. Counts(s, m + Len(buf))
    <2> SUFFICES ASSUME NEW i \in 1 .. Len(s) PROVE s[i].n = m + Len(buf) + i
      BY DEF Counts
    <2>1. len # 0 /\ Len(buf) < NAME_MAX
      BY <1>1, <1>2
    <2> QED
      BY <1>1, <2>1 DEF Counts
  <1>4. Counts(buf \o s, m)
    BY <1>3, ConcatCounts
  <1>5. Len(buf \o s) < NAME_MAX => Len(s) = len
    BY <1>1, <1>2
  <1> QED
    BY <1>1, <1>2, <1>4, <1>5

\* at_name_get keeps to the bytes that follow AT+NAME.
LEMMA NameCounts ==
  ASSUME NEW nm, NameFits(nm), NEW p \in Lines, ~nm.ended, Counts(nm.buf, nm.start),
         ~nm.r /\ Len(nm.buf) < NAME_MAX => Counts(p, nm.start + Len(nm.buf)),
         NEW new, NameOutcome(nm, p, new)
  PROVE  /\ new.start = nm.start
         /\ new.ended => Counts(new.stored, nm.start)
         /\ new.getting =>
              /\ ~new.ended /\ Counts(new.buf, nm.start)
              /\ ~new.r /\ Len(new.buf) < NAME_MAX =>
                    ~nm.r /\ Len(nm.buf) < NAME_MAX /\ Len(new.buf) = Len(nm.buf) + Len(p)
  <1> DEFINE Good == /\ new.start = nm.start
                     /\ new.ended => Counts(new.stored, nm.start)
                     /\ new.getting =>
                          /\ ~new.ended /\ Counts(new.buf, nm.start)
                          /\ ~new.r /\ Len(new.buf) < NAME_MAX =>
                                ~nm.r /\ Len(nm.buf) < NAME_MAX /\ Len(new.buf) = Len(nm.buf) + Len(p)
  <1>1. /\ nm \in Names /\ nm.buf \in Lines /\ Len(nm.buf) <= NAME_MAX /\ nm.start \in Nat
        /\ Len(nm.buf) \in Nat /\ NAME_MAX \in Nat /\ Len(p) \in Nat
    BY UartAssumption DEF NameFits, Names, Lines
  <1>2. ASSUME NEW buf, NEW e,
               new = Finished(nm, buf, e) \/ new = [Finished(nm, buf, e) EXCEPT !.r = TRUE],
               e => Counts(buf, nm.start)
        PROVE  Good
    <2>1. new.start = nm.start /\ ~new.getting /\ new.ended = e /\ new.stored = buf
      BY <1>1, <1>2 DEF Finished, Names
    <2> QED
      BY <1>2, <2>1
  <1>3. ASSUME NEW len \in 0 .. Len(p), ~nm.r \/ len = 0
        PROVE  /\ Counts(Copied(nm.buf, p, len), nm.start)
               /\ Len(Copied(nm.buf, p, len)) < NAME_MAX =>
                     Len(Copied(nm.buf, p, len)) = Len(nm.buf) + len
    BY <1>1, <1>3, CopyCounts
  <1>4. ASSUME new = Finished(nm, nm.buf, TRUE) \/ new = Finished(nm, nm.buf, FALSE) PROVE Good
    BY <1>2, <1>4
  <1>5. ASSUME ~nm.r, new = [nm EXCEPT !.buf = Copied(nm.buf, p, Len(p))] PROVE Good
    <2> DEFINE buf == Copied(nm.buf, p, Len(p))
    <2>1. new.start = nm.start /\ new.ended = nm.ended /\ new.buf = buf
      BY <1>1, <1>5 DEF Names
    <2>2. Counts(buf, nm.start) /\ (Len(buf) < NAME_MAX => Len(buf) = Len(nm.buf) + Len(p))
      BY <1>1, <1>3, <1>5
    <2> HIDE DEF buf
    <2> QED
      BY <1>1, <1>5, <2>1, <2>2
  <1>6. ASSUME NEW len \in 0 .. Len(p), ~nm.r,
               new = [nm EXCEPT !.buf = Copied(nm.buf, p, len), !.r = TRUE]
        PROVE  Good
    <2>1. new.start = nm.start /\ new.ended = nm.ended /\ new.buf = Copied(nm.buf, p, len) /\ new.r
      BY <1>1, <1>6 DEF Names
    <2> QED
      BY <1>3, <1>6, <2>1
  <1>7. ASSUME NEW len \in 0 .. Len(p), ~nm.r \/ len = 0,
               LET buf == Copied(nm.buf, p, len)
               IN  \/ new = [Finished(nm, buf, TRUE) EXCEPT !.r = TRUE]
                   \/ new = Finished(nm, buf, TRUE)
        PROVE  Good
    BY <1>2, <1>3, <1>7
  <1>8. ASSUME NEW buf, new = Finished(nm, buf, FALSE) PROVE Good
    BY <1>2, <1>8
  <1> HIDE DEF Good
  <1>9. Good
    BY <1>4, <1>5, <1>6, <1>7, <1>8 DEF NameOutcome
  <1> QED
    BY <1>9 DEF Good

-----------------------------------------------------------------------------
\* Bytes are numbered as they arrive, and leave in that order.
LEMMA NumberedStep ==
  ASSUME PortTypes, BufferTypes, BufferTypes', Numbered, [UartNext]_uartVars,
         trouble' \subseteq {"command"}
  PROVE  Numbered'
  <1>1. ASSUME NEW c \in Chars, act_data_rx_isr(c) PROVE Numbered'
    <2> DEFINE b == <<Byte(c)>>
               k == Len(InFlight)
    <2>1. b \in Lines /\ InFlight \in Lines /\ InFlight' = InFlight \o b
      BY <1>1, FlightGrows
    <2>2. /\ Len(b) = 1 /\ b[1].n = nbyte.data + 1
          /\ nbyte'.data = nbyte.data + 1 /\ nbyte.data \in Nat
      BY <1>1 DEF act_data_rx_isr, Arrives, Byte, Number, PortTypes
    <2>3. k \in Nat /\ \A i \in 1 .. k : InFlight[i].n + k = nbyte.data + i
      BY <2>1 DEF Numbered, Lines
    <2>4. \A i \in 1 .. k : InFlight[i].n \in Nat
      BY <2>1, LineFacts
    <2> HIDE DEF b, k
    <2>5. /\ Len(InFlight') = k + 1
          /\ \A i \in 1 .. k + 1 : InFlight'[i] = IF i <= k THEN InFlight[i] ELSE b[i - k]
      BY <2>1, <2>2, LineFacts DEF k
    <2>6. ASSUME NEW i \in 1 .. k + 1 PROVE InFlight'[i].n + (k + 1) = nbyte'.data + i
      <3>1. CASE i <= k
        <4>1. i \in 1 .. k
          BY <2>3, <3>1
        <4>2. /\ InFlight'[i].n = InFlight[i].n /\ InFlight[i].n \in Nat
              /\ InFlight[i].n + k = nbyte.data + i
          BY <2>3, <2>4, <2>5, <3>1, <4>1
        <4> QED
          BY <2>2, <2>3, <4>2
      <3>2. CASE ~(i <= k)
        <4>1. i = k + 1 /\ i - k = 1
          BY <2>3, <3>2
        <4>2. InFlight'[i].n = nbyte.data + 1
          BY <2>2, <2>5, <3>2, <4>1
        <4> QED
          BY <2>2, <2>3, <4>1, <4>2
      <3> QED
        BY <3>1, <3>2
    <2> QED
      BY <2>5, <2>6 DEF Numbered
  <1>2. CASE DropPacket \/ SlavePacket \/ OtaPacket \/ MasterPacket
    <2> DEFINE k == Len(packet)
               l == Len(Queued)
    <2>1. /\ packet \in Lines /\ Queued \in Lines /\ InFlight = packet \o Queued
          /\ InFlight' = Queued /\ nbyte' = nbyte
      BY <1>2, FlightDone
    <2>2. k \in Nat /\ l \in Nat /\ nbyte.data \in Nat /\ \A i \in 1 .. l : Queued[i].n \in Nat
      BY <2>1, LineFacts DEF PortTypes
    <2>3. /\ Len(InFlight) = k + l
          /\ \A i \in 1 .. k + l : InFlight[i] = IF i <= k THEN packet[i] ELSE Queued[i - k]
      BY <2>1, ConcatProperties DEF Lines
    <2> HIDE DEF k, l
    <2>4. ASSUME NEW i \in 1 .. l PROVE Queued[i].n + l = nbyte.data + i
      <3>1. k + i \in 1 .. k + l /\ ~(k + i <= k) /\ (k + i) - k = i
        BY <2>2
      <3>2. InFlight[k + i] = Queued[i] /\ InFlight[k + i].n + (k + l) = nbyte.data + (k + i)
        BY <2>3, <3>1 DEF Numbered
      <3> QED
        BY <2>2, <3>2
    <2> QED
      BY <2>1, <2>4 DEF Numbered, l
  <1>3. CASE Aside
    <2>1. InFlight' = InFlight /\ nbyte'.data = nbyte.data
      BY <1>3, FlightKept
    <2> QED
      BY <2>1 DEF Numbered
  <1> QED
    BY <1>1, <1>2, <1>3, FlightSteps

\* A sum with the same number on both sides.
LEMMA Shifted ==
  ASSUME NEW x \in Nat, NEW i \in Nat, NEW j \in Nat, NEW m \in Int, x + j = m + j + i
  PROVE  x = m + i
  OBVIOUS

\* What the packet and what is behind it have to do with the numbers.
LEMMA PacketCounts ==
  ASSUME PortTypes, NEW a \in Lines, NEW b \in Lines, InFlight = a \o b, Numbered,
         NEW m \in Int, m + Len(InFlight) = nbyte.data
  PROVE  Counts(a, m)
  <1> DEFINE k == Len(a)
             l == Len(b)
  <1>1. k \in Nat /\ l \in Nat /\ nbyte.data \in Nat /\ \A i \in 1 .. k : a[i].n \in Nat
    BY LineFacts DEF PortTypes
  <1>2. /\ Len(InFlight) = k + l
        /\ \A i \in 1 .. k + l : InFlight[i] = IF i <= k THEN a[i] ELSE b[i - k]
    BY ConcatProperties DEF Lines
  <1> HIDE DEF k, l
  <1>3. ASSUME NEW i \in 1 .. k PROVE a[i].n = m + i
    <2>1. i \in 1 .. k + l /\ i <= k
      BY <1>1
    <2>2. InFlight[i] = a[i] /\ InFlight[i].n + (k + l) = nbyte.data + i
      BY <1>2, <2>1 DEF Numbered
    <2>3. a[i].n \in Nat /\ a[i].n + (k + l) = m + (k + l) + i
      BY <1>1, <1>2, <2>2
    <2> DEFINE x == a[i].n
    <2> HIDE DEF x
    <2>4. x \in Nat /\ x + (k + l) = m + (k + l) + i
      BY <2>3 DEF x
    <2>5. k + l \in Nat /\ i \in Nat
      BY <1>1
    <2>6. x = m + i
      BY <2>4, <2>5, Shifted
    <2> QED
      BY <2>6 DEF x
  <1> QED
    BY <1>3 DEF Counts, k

\* A name is made of the bytes that follow AT+NAME, in whatever packets.
LEMMA NameStep ==
  ASSUME PortTypes, BufferTypes, BufferTypes', MatchTypes, NameInv, [UartNext]_uartVars,
         trouble' \subseteq {"command"}
  PROVE  /\ trouble \subseteq {"command"} /\ NameGoesOn'
         /\ name'.ended => Counts(name'.stored, name'.start)
  <1> DEFINE Goal == /\ trouble \subseteq {"command"} /\ NameGoesOn'
                     /\ name'.ended => Counts(name'.stored, name'.start)
  <1> SUFFICES Goal
    OBVIOUS
  <1>1. ASSUME NEW c \in Chars, act_data_rx_isr(c) PROVE Goal
    <2> DEFINE b == <<Byte(c)>>
    <2>1. trouble' = trouble /\ b \in Lines /\ InFlight \in Lines /\ InFlight' = InFlight \o b
      BY <1>1, FlightGrows
    <2>2. role' = role /\ name' = name /\ nbyte'.data = nbyte.data + 1
      BY <1>1 DEF act_data_rx_isr, Arrives, PortTypes
    <2>3. Len(InFlight') = Len(InFlight) + 1 /\ Len(InFlight) \in Nat
      BY <2>1, ConcatProperties DEF Lines
    <2>4. name.start \in Nat /\ Len(name.buf) \in Nat /\ nbyte.data \in Nat
      BY DEF MatchTypes, PortTypes, Lines
    <2> HIDE DEF b
    <2>5. /\ NameGoesOn /\ trouble \subseteq {"command"}
          /\ name.ended => Counts(name.stored, name.start)
      BY <2>1 DEF NameInv
    <2>6. name.start + Len(name.buf) + Len(InFlight) = nbyte.data =>
             name'.start + Len(name'.buf) + Len(InFlight') = nbyte'.data
      <3> DEFINE x == name.start
                 y == Len(name.buf)
                 z == Len(InFlight)
                 d == nbyte.data
      <3>1. {x, y, z, d} \subseteq Nat
        BY <2>3, <2>4
      <3> HIDE DEF x, y, z, d
      <3>2. x + y + z = d => x + y + (z + 1) = d + 1
        BY <3>1
      <3> QED
        BY <2>2, <2>3, <3>2 DEF x, y, z, d
    <2>7. NameGoesOn'
      BY <2>2, <2>5, <2>6 DEF NameGoesOn
    <2> QED
      BY <2>2, <2>5, <2>7
  <1>2. CASE Aside
    <2>1. /\ trouble' = trouble /\ InFlight' = InFlight /\ UNCHANGED <<role, name>>
          /\ nbyte'.data = nbyte.data
      BY <1>2, FlightKept
    <2> QED
      BY <2>1 DEF NameInv, NameGoesOn
  <1>3. CASE MasterPacket \/ OtaPacket
    <2>1. role = "MASTER" /\ name' = name
      BY <1>3 DEF MasterPacket, OtaPacket
    <2>2. trouble \subseteq trouble'
      BY <1>3 DEF MasterPacket, OtaPacket, Send, Excuse
    <2>3. ~name.getting
      BY <2>1, <2>2 DEF NameInv, NameGoesOn
    <2> QED
      BY <2>1, <2>2, <2>3 DEF NameInv, NameGoesOn
  <1>4. ~DropPacket
    <2>1. DropPacket => "no link" \in trouble'
      BY DEF DropPacket, Excuse
    <2> QED
      BY <2>1
  <1>5. CASE SlavePacket
    <2> DEFINE found == ~name.getting /\ packet # <<>> /\ packet[1].c = "N"
    <2>1. /\ packet \in Lines /\ Queued \in Lines /\ InFlight = packet \o Queued
          /\ InFlight' = Queued /\ nbyte' = nbyte
      BY <1>5, FlightDone
    <2>2. trouble \subseteq trouble' /\ role = "SLAVE" /\ role' = "SLAVE"
      BY <1>5 DEF SlavePacket, Send, Excuse
    <2>3. Numbered /\ NameGoesOn /\ (name.ended => Counts(name.stored, name.start))
      BY <2>2 DEF NameInv
    <2>4. /\ found => name' = at_name_get(NewName(packet[1]), Tail(packet)).nm
          /\ name.getting => name' = at_name_get(name, packet).nm
          /\ ~found /\ ~name.getting => name' = name
      BY <1>5 DEF SlavePacket
    <2>5. Len(InFlight) = Len(packet) + Len(Queued) /\ Len(packet) \in Nat /\ Len(Queued) \in Nat
          /\ nbyte.data \in Nat
      BY <2>1, ConcatProperties DEF Lines, PortTypes
    <2>6. ASSUME NEW old, NameFits(old), ~old.ended, Counts(old.buf, old.start),
                 NEW q \in Lines,
                 ~old.r /\ Len(old.buf) < NAME_MAX => Counts(q, old.start + Len(old.buf)),
                 ~old.r /\ Len(old.buf) < NAME_MAX =>
                    old.start + Len(old.buf) + Len(q) + Len(Queued) = nbyte.data,
                 name' = at_name_get(old, q).nm
          PROVE  Goal
      <3>1. NameOutcome(old, q, name')
        BY <2>6, NameCases DEF NameFits
      <3>2. /\ name'.start = old.start
            /\ name'.ended => Counts(name'.stored, old.start)
            /\ name'.getting =>
                 /\ ~name'.ended /\ Counts(name'.buf, old.start)
                 /\ ~name'.r /\ Len(name'.buf) < NAME_MAX =>
                       ~old.r /\ Len(old.buf) < NAME_MAX /\ Len(name'.buf) = Len(old.buf) + Len(q)
        BY <2>6, <3>1, NameCounts
      <3>3. Len(q) \in Nat /\ Len(old.buf) \in Nat /\ old.start \in Nat
        BY <2>6 DEF Lines, NameFits, Names
      <3>4. ASSUME name'.getting, ~name'.r, Len(name'.buf) < NAME_MAX
            PROVE  name'.start + Len(name'.buf) + Len(Queued) = nbyte.data
        BY <2>5, <2>6, <3>2, <3>3, <3>4
      <3> QED
        BY <2>1, <2>2, <3>2, <3>4 DEF NameGoesOn
    <2>7. CASE found
      <3> DEFINE old == NewName(packet[1])
                 q == Tail(packet)
      <3>1. packet # <<>> /\ packet[1] \in PortBytes /\ packet[1].n \in Nat
        <4>1. packet # <<>> /\ 1 \in 1 .. Len(packet)
          BY <2>1, <2>7 DEF Lines
        <4> QED
          BY <2>1, <4>1, LineFacts
      <3>2. /\ NameFits(old) /\ old.start = packet[1].n /\ old.buf = <<>> /\ ~old.ended /\ ~old.r
        BY <3>1, FreshName
      <3>3. Len(<<>>) = 0 /\ Len(q) + 1 = Len(packet) /\ q \in Lines /\ Len(q) \in Nat
        BY <2>1, <3>1, HeadTailProperties DEF Lines
      <3>4. packet = <<packet[1]>> \o q /\ <<packet[1]>> \in Lines
        BY <2>1, <3>1 DEF Lines
      <3> DEFINE x == packet[1].n
                 k == Len(q)
                 l == Len(Queued)
                 d == nbyte.data
      <3>5. {x, k, l, d} \subseteq Nat /\ Len(InFlight) = (k + 1) + l /\ Len(packet) = k + 1
        BY <2>5, <3>1, <3>3
      <3> HIDE DEF x, k, l, d, q
      <3>6. x + ((k + 1) + l) = d + 1
        <4>1. 1 \in 1 .. (k + 1) + l /\ 1 <= k + 1
          BY <3>5
        <4>2. InFlight[1] = packet[1]
          BY <2>1, <2>5, <3>5, <4>1, LineFacts
        <4> QED
          BY <2>3, <3>5, <4>1, <4>2 DEF Numbered, x, d
      <3>7. x + k + l = d /\ x - 1 \in Int /\ (x - 1) + ((k + 1) + l) = d
        BY <3>5, <3>6, SMTT(30)
      <3>11. Counts(q, x)
        <4>1. \A i \in 1 .. k : /\ q[i] = packet[i + 1] /\ i + 1 \in 1 .. k + 1
                                /\ (x - 1) + (i + 1) = x + i
          <5>1. \A i \in 1 .. k : q[i] = packet[i + 1]
            BY <2>1, <3>1, HeadTailProperties DEF Lines, q, k
          <5> QED
            BY <3>5, <5>1
        <4>2. Counts(packet, x - 1)
          BY <2>1, <2>3, <3>5, <3>7, PacketCounts DEF d
        <4>3. \A i \in 1 .. k + 1 : packet[i].n = (x - 1) + i
          BY <3>5, <4>2 DEF Counts
        <4> QED
          BY <4>1, <4>3 DEF Counts, k
      <3>8. name' = at_name_get(old, q).nm
        BY <2>4, <2>7 DEF q
      <3>9. Counts(old.buf, old.start)
        BY <3>2, <3>3 DEF Counts
      <3> HIDE DEF old
      <3>10. old.start + Len(old.buf) = x
        BY <3>1, <3>2, <3>3 DEF x
      <3> QED
        BY <2>6, <3>2, <3>3, <3>7, <3>8, <3>9, <3>10, <3>11 DEF k, l, d
    <2>8. CASE name.getting
      <3>1. NameFits(name) /\ name.start \in Nat /\ Len(name.buf) \in Nat
        BY DEF NameFits, Names, MatchTypes, Lines
      <3>2. ~name.ended /\ Counts(name.buf, name.start)
        BY <2>3, <2>8 DEF NameGoesOn
      <3>3. ~name.r /\ Len(name.buf) < NAME_MAX =>
               /\ Counts(packet, name.start + Len(name.buf))
               /\ name.start + Len(name.buf) + Len(packet) + Len(Queued) = nbyte.data
        <4> SUFFICES ASSUME ~name.r, Len(name.buf) < NAME_MAX
                     PROVE  /\ Counts(packet, name.start + Len(name.buf))
                            /\ name.start + Len(name.buf) + Len(packet) + Len(Queued) = nbyte.data
          OBVIOUS
        <4>1. name.start + Len(name.buf) + Len(InFlight) = nbyte.data
          BY <2>3, <2>8 DEF NameGoesOn
        <4>2. name.start + Len(name.buf) \in Nat
          BY <3>1
        <4>3. Counts(packet, name.start + Len(name.buf))
          <5> DEFINE m == name.start + Len(name.buf)
          <5>1. m \in Int /\ m + Len(InFlight) = nbyte.data
            BY <4>1, <4>2
          <5> HIDE DEF m
          <5>2. Counts(packet, m)
            BY <2>1, <2>3, <5>1, PacketCounts
          <5> QED
            BY <5>2 DEF m
        <4>4. name.start + Len(name.buf) + Len(packet) + Len(Queued) = nbyte.data
          <5> DEFINE m == name.start + Len(name.buf)
                     k == Len(packet)
                     l == Len(Queued)
          <5>1. {m, k, l} \subseteq Nat /\ m + (k + l) = nbyte.data
            BY <2>5, <4>1, <4>2
          <5> HIDE DEF m, k, l
          <5>2. m + k + l = nbyte.data
            BY <5>1
          <5> QED
            BY <5>2 DEF m, k, l
        <4> QED
          BY <4>3, <4>4
      <3> QED
        BY <2>1, <2>4, <2>6, <2>8, <3>1, <3>2, <3>3
    <2>9. CASE ~found /\ ~name.getting
      BY <2>2, <2>3, <2>4, <2>9 DEF NameGoesOn
    <2> QED
      BY <2>7, <2>8, <2>9
  <1> QED
    BY <1>1, <1>2, <1>3, <1>4, <1>5, FlightSteps

\* at_name_get: a name that a line end has ended is what followed AT+NAME, for
\* every room and however it was split into packets, unless data were lost.
THEOREM UartNameAsTyped == UartSpec => []NameAsTyped
  <1>1. UartInit => NameInv
    <2> SUFFICES ASSUME UartInit PROVE NameInv
      OBVIOUS
    <2>1. InFlight = (<<>> \o <<>>) \o <<>> /\ name = NoName
      BY FlattenOne DEF UartInit, InFlight
    <2>2. InFlight = <<>> /\ ~name.getting /\ ~name.ended
      BY <2>1, Joined DEF NoName
    <2> QED
      BY <2>2 DEF NameInv, Numbered, NameGoesOn
  <1>2. UartInv /\ UartInv' /\ NameInv /\ [UartNext]_uartVars => NameInv'
    <2> SUFFICES ASSUME UartInv, UartInv', NameInv, [UartNext]_uartVars,
                        trouble' \subseteq {"command"}
                 PROVE  /\ Numbered' /\ NameGoesOn'
                        /\ name'.ended => Counts(name'.stored, name'.start)
      BY DEF NameInv, Counts
    <2>1. /\ trouble \subseteq {"command"} /\ NameGoesOn'
          /\ name'.ended => Counts(name'.stored, name'.start)
      BY NameStep DEF UartInv
    <2>2. Numbered'
      BY <2>1, NumberedStep DEF UartInv, NameInv
    <2> QED
      BY <2>1, <2>2
  <1>3. UartInv /\ NameInv => NameAsTyped
    <2> SUFFICES ASSUME UartInv, NameInv, name.ended, trouble = {"command"}
                 PROVE  \A i \in DOMAIN name.stored : name.stored[i].n = name.start + i
      BY DEF NameAsTyped
    <2>1. Counts(name.stored, name.start)
      BY DEF NameInv
    <2>2. DOMAIN name.stored = 1 .. Len(name.stored)
      BY DEF UartInv, MatchTypes, Lines
    <2> QED
      BY <2>1, <2>2 DEF Counts
  <1> QED
    BY UartInvariant, <1>1, <1>2, <1>3, PTL DEF UartSpec

-----------------------------------------------------------------------------
(***************************************************************************)
(* The decoder of the ANCS client, for all messages and all sizes of the   *)
(* notifications: what is displayed is what the phone sent.                *)
(***************************************************************************)
\* Strings of bytes, one and two.
LEMMA OctetsSeq ==
  ASSUME NEW a \in Seq(Octets)
  PROVE  /\ Len(a) \in Nat /\ DOMAIN a = 1 .. Len(a)
         /\ \A i \in 1 .. Len(a) : a[i] \in Octets
  OBVIOUS

LEMMA OctetsJoined ==
  ASSUME NEW a \in Seq(Octets), NEW b \in Seq(Octets)
  PROVE  /\ a \o b \in Seq(Octets) /\ Len(a \o b) = Len(a) + Len(b)
         /\ \A i \in 1 .. Len(a) + Len(b) :
              (a \o b)[i] = IF i <= Len(a) THEN a[i] ELSE b[i - Len(a)]
  BY ConcatProperties

\* The attributes of m begin at s in its bytes, and the message ends at the last
\* of s.
Layout(m, s) ==
    /\ s \in [1 .. Len(m) + 1 -> Nat]
    /\ s[1] = ANCS_DS_HDR_LEN /\ s[Len(m) + 1] = Len(Bytes(m))
    /\ \A i \in 1 .. Len(m) :
          /\ s[i + 1] = s[i] + 3 + Len(m[i].data)
          /\ Bytes(m)[s[i] + 1] = m[i].id
          /\ Bytes(m)[s[i] + 2] = Low(Len(m[i].data))
          /\ Bytes(m)[s[i] + 3] = High(Len(m[i].data))
          /\ \A k \in 1 .. Len(m[i].data) : Bytes(m)[s[i] + 3 + k] = m[i].data[k]
    /\ \A i \in 1 .. Len(m) + 1 : s[i] >= ANCS_DS_HDR_LEN /\ s[i] <= Len(Bytes(m))
    /\ Bytes(m) \in Seq(Octets) /\ Bytes(m)[1] = 0

\* The two bytes of a length.
LEMMA LengthBytes ==
  ASSUME NEW x \in Nat, x < 65536
  PROVE  /\ Low(x) \in Octets /\ High(x) \in Octets
         /\ High(x) * 256 + Low(x) = x /\ Low(x) + 256 * High(x) = x
  <1>1. Low(x) \in 0 .. 255 /\ High(x) \in Nat
    BY DEF Low, High
  <1>2. High(x) < 256
    BY DEF High
  <1>3. ASSUME NEW u \in Nat, NEW v \in Nat, u = High(x), v = Low(x)
        PROVE  u * 256 + v = x /\ v + 256 * u = x
    BY <1>3 DEF High, Low
  <1>4. High(x) \in Octets /\ Low(x) \in Octets /\ High(x) \in Nat /\ Low(x) \in Nat
    BY <1>1, <1>2 DEF Octets
  <1>5. High(x) * 256 + Low(x) = x /\ Low(x) + 256 * High(x) = x
    BY <1>3, <1>4
  <1> QED
    BY <1>4, <1>5

\* The bytes of one attribute.
LEMMA AttrLayout ==
  ASSUME NEW a \in Attributes, Len(a.data) < 65536
  PROVE  /\ AttrBytes(a) \in Seq(Octets) /\ Len(a.data) \in Nat
         /\ Len(AttrBytes(a)) = 3 + Len(a.data)
         /\ AttrBytes(a)[1] = a.id /\ AttrBytes(a)[2] = Low(Len(a.data))
         /\ AttrBytes(a)[3] = High(Len(a.data))
         /\ \A k \in 1 .. Len(a.data) : AttrBytes(a)[3 + k] = a.data[k]
  <1> DEFINE h == <<a.id, Low(Len(a.data)), High(Len(a.data))>>
  <1>1. a.id \in AttributeIds /\ a.data \in Seq(Octets)
    BY DEF Attributes
  <1>2. Len(a.data) \in Nat
    BY <1>1, OctetsSeq
  <1>3. /\ h \in Seq(Octets) /\ Len(h) = 3 /\ h[1] = a.id /\ h[2] = Low(Len(a.data))
        /\ h[3] = High(Len(a.data))
    <2>1. a.id \in Octets
      BY <1>1 DEF AttributeIds, Octets
    <2>2. Low(Len(a.data)) \in Octets /\ High(Len(a.data)) \in Octets
      BY <1>2, LengthBytes
    <2> QED
      BY <2>1, <2>2
  <1>4. AttrBytes(a) = h \o a.data
    BY DEF AttrBytes
  <1> HIDE DEF h
  <1>5. /\ h \o a.data \in Seq(Octets) /\ Len(h \o a.data) = 3 + Len(a.data)
        /\ \A i \in 1 .. 3 + Len(a.data) :
              (h \o a.data)[i] = IF i <= 3 THEN h[i] ELSE a.data[i - 3]
    <2> DEFINE d == a.data
    <2>1. d \in Seq(Octets) /\ h \in Seq(Octets)
      BY <1>1, <1>3
    <2> HIDE DEF d
    <2>2. /\ h \o d \in Seq(Octets) /\ Len(h \o d) = Len(h) + Len(d)
          /\ \A i \in 1 .. Len(h) + Len(d) :
                (h \o d)[i] = IF i <= Len(h) THEN h[i] ELSE d[i - Len(h)]
      BY <2>1, OctetsJoined
    <2> QED
      BY <1>3, <2>2 DEF d
  <1>6. \A k \in 1 .. Len(a.data) : 3 + k \in 1 .. 3 + Len(a.data) /\ ~(3 + k <= 3) /\ (3 + k) - 3 = k
    BY <1>2
  <1>7. \A k \in 1 .. 3 : k \in 1 .. 3 + Len(a.data) /\ k <= 3
    BY <1>2
  <1> QED
    BY <1>2, <1>3, <1>4, <1>5, <1>6, <1>7

\* What is joined first stays at the front.
LEMMA JoinedPrefix ==
  ASSUME NEW n \in Nat, NEW q, NEW f \in [0 .. n -> Seq(Octets)], Joins(f, q, n),
         \A i \in 1 .. n : q[i] \in Seq(Octets), NEW j \in 0 .. n
  PROVE  /\ Len(f[j]) <= Len(f[n])
         /\ \A k \in 1 .. Len(f[j]) : f[n][k] = f[j][k]
  <1> DEFINE OK(i) == i >= j => /\ Len(f[j]) <= Len(f[i])
                                /\ \A k \in 1 .. Len(f[j]) : f[i][k] = f[j][k]
             T == {i \in 0 .. n : OK(i)}
  <1>1. \A i \in 0 .. n : f[i] \in Seq(Octets) /\ Len(f[i]) \in Nat
    OBVIOUS
  <1>2. 0 \in T
    BY <1>1
  <1>3. ASSUME NEW i \in 0 .. n, i # n, OK(i) PROVE OK(i + 1)
    <2>1. i + 1 \in 1 .. n /\ (i + 1) - 1 = i /\ i + 1 \in 0 .. n
      BY <1>3
    <2>2. f[i + 1] = f[i] \o q[i + 1] /\ q[i + 1] \in Seq(Octets)
      BY <2>1 DEF Joins
    <2>3. CASE i >= j
      <3>1. /\ Len(f[i + 1]) = Len(f[i]) + Len(q[i + 1]) /\ Len(q[i + 1]) \in Nat
            /\ \A k \in 1 .. Len(f[i]) + Len(q[i + 1]) : k <= Len(f[i]) => f[i + 1][k] = f[i][k]
        BY <1>1, <2>2, OctetsJoined
      <3>2. Len(f[j]) <= Len(f[i]) /\ \A k \in 1 .. Len(f[j]) : f[i][k] = f[j][k]
        BY <1>3, <2>3
      <3>3. Len(f[j]) <= Len(f[i + 1])
        BY <1>1, <3>1, <3>2
      <3>4. \A k \in 1 .. Len(f[j]) : k \in 1 .. Len(f[i]) + Len(q[i + 1]) /\ k <= Len(f[i])
        BY <1>1, <3>1, <3>2
      <3> QED
        BY <3>1, <3>2, <3>3, <3>4
    <2>4. CASE ~(i >= j)
      <3>1. i + 1 >= j => i + 1 = j
        BY <2>4
      <3> QED
        BY <1>1, <3>1
    <2> QED
      BY <2>3, <2>4
  <1> HIDE DEF OK
  <1>4. \A i \in 0 .. n : i # n /\ i \in T => i + 1 \in T
    BY <1>3
  <1>5. \A i \in 0 .. n : i \in T
    <2> HIDE DEF T
    <2> QED
      BY <1>2, <1>4, UpTo
  <1>6. n \in 0 .. n /\ n >= j
    OBVIOUS
  <1>7. OK(n)
    BY <1>5, <1>6
  <1> QED
    BY <1>6, <1>7 DEF OK

\* Every message has a layout.
LEMMA HasLayout ==
  ASSUME NEW m \in AncsMessages
  PROVE  \E s : Layout(m, s)
  <1> DEFINE n == Len(m)
             q == [i \in DOMAIN m |-> AttrBytes(m[i])]
             h == <<0, 1, 2, 3, 4>>
  <1>0. m \in Seq(Attributes) /\ \A i \in DOMAIN m : Len(m[i].data) < 65536
    BY ParseAssumption
  <1>1. /\ n \in Nat /\ DOMAIN m = 1 .. n
        /\ \A i \in 1 .. n : m[i] \in Attributes /\ Len(m[i].data) < 65536
    BY <1>0
  <1>2. \A i \in 1 .. n : q[i] = AttrBytes(m[i]) /\ q[i] \in Seq(Octets)
    BY <1>1, AttrLayout
  <1>3. q \in Seq(Seq(Octets)) /\ Len(q) = n
    BY <1>1, <1>2
  <1>4. Bytes(m) = h \o FlattenSeq(q)
    BY DEF Bytes
  <1>5. h \in Seq(Octets) /\ Len(h) = 5 /\ h[1] = 0
    BY DEF Octets
  <1> HIDE DEF q, h, n
  <1>6. PICK f \in [0 .. n -> Seq(Octets)] : Joins(f, q, n) /\ FlattenSeq(q) = f[n]
    BY <1>3, FlattenJoins
  <1>7. \A i \in 0 .. n : f[i] \in Seq(Octets) /\ Len(f[i]) \in Nat
    BY <1>6
  <1>8. n \in 0 .. n /\ \A i \in 1 .. n + 1 : i - 1 \in 0 .. n
    BY <1>1
  <1>9. /\ Bytes(m) \in Seq(Octets) /\ Len(Bytes(m)) = 5 + Len(f[n])
        /\ \A k \in 1 .. 5 + Len(f[n]) : Bytes(m)[k] = IF k <= 5 THEN h[k] ELSE f[n][k - 5]
    <2> DEFINE g == f[n]
    <2>1. g \in Seq(Octets) /\ FlattenSeq(q) = g
      BY <1>6, <1>7, <1>8
    <2> HIDE DEF g
    <2>2. /\ h \o g \in Seq(Octets) /\ Len(h \o g) = Len(h) + Len(g)
          /\ \A k \in 1 .. Len(h) + Len(g) :
                (h \o g)[k] = IF k <= Len(h) THEN h[k] ELSE g[k - Len(h)]
      BY <1>5, <2>1, OctetsJoined
    <2>3. Bytes(m) = h \o g
      BY <1>4, <2>1
    <2> QED
      BY <1>5, <2>2, <2>3 DEF g
  <1>10. ASSUME NEW i \in 0 .. n
         PROVE  /\ Len(f[i]) <= Len(f[n])
                /\ \A k \in 1 .. Len(f[i]) : Bytes(m)[5 + k] = f[i][k]
    <2>1. Len(f[i]) <= Len(f[n]) /\ \A k \in 1 .. Len(f[i]) : f[n][k] = f[i][k]
      <3>1. \A k \in 1 .. n : q[k] \in Seq(Octets)
        BY <1>2
      <3>2. n \in Nat /\ f \in [0 .. n -> Seq(Octets)] /\ Joins(f, q, n) /\ i \in 0 .. n
        BY <1>1, <1>6
      <3> QED
        BY <3>1, <3>2, JoinedPrefix
    <2>2. \A k \in 1 .. Len(f[i]) : /\ 5 + k \in 1 .. 5 + Len(f[n]) /\ ~(5 + k <= 5)
                                    /\ (5 + k) - 5 = k
      BY <1>7, <1>8, <2>1
    <2> QED
      BY <1>9, <2>1, <2>2
  <1> DEFINE s == [i \in 1 .. n + 1 |-> 5 + Len(f[i - 1])]
  <1>11. s \in [1 .. n + 1 -> Nat] /\ \A i \in 1 .. n + 1 : s[i] = 5 + Len(f[i - 1])
    BY <1>7, <1>8
  <1> HIDE DEF s
  <1>12. s[1] = 5 /\ s[n + 1] = Len(Bytes(m))
    <2>1. 1 \in 1 .. n + 1 /\ n + 1 \in 1 .. n + 1 /\ 1 - 1 = 0 /\ (n + 1) - 1 = n
      BY <1>1
    <2>2. f[0] = <<>> /\ Len(<<>>) = 0
      BY <1>6 DEF Joins
    <2>3. s[1] = 5 + Len(f[0]) /\ s[n + 1] = 5 + Len(f[n])
      BY <1>11, <2>1
    <2> QED
      BY <1>9, <2>2, <2>3
  <1>13. \A i \in 1 .. n + 1 : s[i] >= 5 /\ s[i] <= Len(Bytes(m))
    BY <1>7, <1>8, <1>9, <1>10, <1>11
  <1>14. ASSUME NEW i \in 1 .. n
         PROVE  /\ s[i + 1] = s[i] + 3 + Len(m[i].data)
                /\ Bytes(m)[s[i] + 1] = m[i].id
                /\ Bytes(m)[s[i] + 2] = Low(Len(m[i].data))
                /\ Bytes(m)[s[i] + 3] = High(Len(m[i].data))
                /\ \A k \in 1 .. Len(m[i].data) : Bytes(m)[s[i] + 3 + k] = m[i].data[k]
    <2> DEFINE d == Len(m[i].data)
               l == Len(f[i - 1])
    <2>1. /\ d \in Nat /\ q[i] \in Seq(Octets) /\ Len(q[i]) = 3 + d
          /\ q[i][1] = m[i].id /\ q[i][2] = Low(d) /\ q[i][3] = High(d)
          /\ \A k \in 1 .. d : q[i][3 + k] = m[i].data[k]
      <3> DEFINE a == m[i]
      <3>1. a \in Attributes /\ Len(a.data) < 65536 /\ q[i] = AttrBytes(a)
        BY <1>1, <1>2
      <3> HIDE DEF a
      <3>2. /\ AttrBytes(a) \in Seq(Octets) /\ Len(a.data) \in Nat
            /\ Len(AttrBytes(a)) = 3 + Len(a.data)
            /\ AttrBytes(a)[1] = a.id /\ AttrBytes(a)[2] = Low(Len(a.data))
            /\ AttrBytes(a)[3] = High(Len(a.data))
            /\ \A k \in 1 .. Len(a.data) : AttrBytes(a)[3 + k] = a.data[k]
        BY <3>1, AttrLayout
      <3> QED
        BY <3>1, <3>2 DEF a
    <2>2. i \in 0 .. n /\ i - 1 \in 0 .. n /\ i + 1 \in 1 .. n + 1 /\ i \in 1 .. n + 1 /\ (i + 1) - 1 = i
      BY <1>1
    <2>3. f[i] = f[i - 1] \o q[i]
      BY <1>6 DEF Joins
    <2>4. /\ l \in Nat /\ Len(f[i]) = l + (3 + d)
          /\ \A k \in 1 .. l + (3 + d) : f[i][k] = IF k <= l THEN f[i - 1][k] ELSE q[i][k - l]
      <3> DEFINE u == f[i - 1]
                 v == q[i]
      <3>1. u \in Seq(Octets) /\ v \in Seq(Octets) /\ Len(u) \in Nat /\ Len(v) = 3 + d /\ f[i] = u \o v
        BY <1>7, <2>1, <2>2, <2>3
      <3> HIDE DEF u, v, d
      <3>2. /\ Len(u \o v) = Len(u) + Len(v)
            /\ \A k \in 1 .. Len(u) + Len(v) :
                  (u \o v)[k] = IF k <= Len(u) THEN u[k] ELSE v[k - Len(u)]
        BY <3>1, OctetsJoined
      <3>3. l = Len(u)
        BY DEF u
      <3> HIDE DEF l
      <3> QED
        BY <3>1, <3>2, <3>3 DEF u, v
    <2>5. s[i] = 5 + l /\ s[i + 1] = 5 + (l + (3 + d))
      BY <1>11, <2>2, <2>4
    <2>6. ASSUME NEW k \in 1 .. 3 + d PROVE Bytes(m)[s[i] + k] = q[i][k]
      <3> HIDE DEF d, l
      <3>1. /\ l + k \in 1 .. l + (3 + d) /\ ~(l + k <= l) /\ (l + k) - l = k
            /\ s[i] + k = 5 + (l + k)
        BY <2>1, <2>4, <2>5
      <3>2. Bytes(m)[5 + (l + k)] = f[i][l + k]
        BY <1>10, <2>2, <2>4, <3>1
      <3> QED
        BY <2>4, <3>1, <3>2
    <2> HIDE DEF d, l
    <2>7. 1 \in 1 .. 3 + d /\ 2 \in 1 .. 3 + d /\ 3 \in 1 .. 3 + d
      BY <2>1
    <2>8. \A k \in 1 .. d : 3 + k \in 1 .. 3 + d /\ s[i] + (3 + k) = s[i] + 3 + k
      BY <2>1, <2>4, <2>5
    <2>9. s[i + 1] = s[i] + 3 + d
      BY <2>1, <2>4, <2>5
    <2>10. /\ Bytes(m)[s[i] + 1] = m[i].id /\ Bytes(m)[s[i] + 2] = Low(d)
           /\ Bytes(m)[s[i] + 3] = High(d)
      BY <2>1, <2>6, <2>7
    <2>11. \A k \in 1 .. d : Bytes(m)[s[i] + 3 + k] = m[i].data[k]
      <3> SUFFICES ASSUME NEW k \in 1 .. d PROVE Bytes(m)[s[i] + 3 + k] = m[i].data[k]
        OBVIOUS
      <3>1. Bytes(m)[s[i] + (3 + k)] = q[i][3 + k]
        BY <2>6, <2>8
      <3> QED
        BY <2>1, <2>8, <3>1
    <2> QED
      BY <2>9, <2>10, <2>11 DEF d
  <1>15. Bytes(m)[1] = 0
    <2>1. 1 \in 1 .. 5 + Len(f[n]) /\ 1 <= 5
      BY <1>7, <1>8
    <2> QED
      BY <1>5, <1>9, <2>1
  <1>16. Layout(m, s)
    BY <1>9, <1>11, <1>12, <1>13, <1>14, <1>15 DEF Layout, n, ANCS_DS_HDR_LEN
  <1> QED
    BY <1>16

Starts(m) == CHOOSE s : Layout(m, s)

LEMMA StartsLayout == \A m \in AncsMessages : Layout(m, Starts(m))
  BY HasLayout DEF Starts

-----------------------------------------------------------------------------
\* k bytes of the message have been decoded.
Decoded(k) == offset + call.count = k + Len(call.p)

\* The first n attributes are displayed, the last of them up to byte c.
Displayed(n) ==
    /\ shown \in Seq(Attributes) /\ Len(shown) = n /\ n \in 0 .. Len(message)
    /\ \A i \in 1 .. n : shown[i] = message[i]

Displaying(n, c) ==
    /\ shown \in Seq(Attributes) /\ Len(shown) = n /\ n \in 1 .. Len(message)
    /\ \A i \in 1 .. n : i # n => shown[i] = message[i]
    /\ shown[n].id = message[n].id
    /\ Len(shown[n].data) = c /\ c <= Len(message[n].data)
    /\ \A k \in 1 .. c : shown[n].data[k] = message[n].data[k]

\* What the decoder does not expect.
NoLength == attribute_data.attr_len = 0 /\ ~attribute_data.pending_len
NoData == attribute_data.pending_attr_data = 0

AtMessage ==
    /\ attribute_data.state = "hdr" \/ (attribute_data.state = "attrid" /\ call = NoCall)
    /\ NoLength /\ NoData
    /\ shown = <<>> /\ call.count = 0 /\ offset = Len(call.p)

AtAttribute ==
    /\ attribute_data.state = "attrid" /\ NoLength /\ NoData
    /\ Displayed(Len(shown))
    /\ Decoded(Starts(message)[Len(shown) + 1])

AtLength ==
    /\ attribute_data.state = "attrlen" /\ attribute_data.attr_len = 0 /\ NoData
    /\ Displaying(Len(shown), 0)
    /\ ~attribute_data.pending_len => Decoded(Starts(message)[Len(shown)] + 1)
    /\ attribute_data.pending_len =>
          /\ Decoded(Starts(message)[Len(shown)] + 2)
          /\ attribute_data.rem_attr_len = Low(Len(message[Len(shown)].data))

AtData ==
    /\ attribute_data.state = "attrdata" /\ ~attribute_data.pending_len /\ NoData
    /\ attribute_data.attr_len = Len(message[Len(shown)].data)
    /\ Displaying(Len(shown), 0)
    /\ Decoded(Starts(message)[Len(shown)] + 3)

InData ==
    /\ attribute_data.state = "attrdata" /\ NoLength
    /\ attribute_data.pending_attr_data \in 1 .. Len(message[Len(shown)].data)
    /\ Displaying(Len(shown), Len(message[Len(shown)].data) - attribute_data.pending_attr_data)
    /\ Decoded(Starts(message)[Len(shown) + 1] - attribute_data.pending_attr_data)

\* What the phone sends.
Sending ==
    /\ message \in AncsMessages /\ fragment \in FragmentSizes /\ emptyEnd \in BOOLEAN
    /\ offset \in 0 .. Len(Bytes(message)) /\ (offset = 0 \/ offset > ANCS_DS_HDR_LEN)

\* What is being decoded is the part of the message that was sent last.
Decoders == [state : {"hdr", "attrid", "attrlen", "attrdata"}, attr_len : Nat,
             pending_len : BOOLEAN, rem_attr_len : Nat, pending_attr_data : Nat]
Calls == [p : Seq(Octets), count : Nat, stop : {FALSE}]

Reading ==
    /\ attribute_data \in Decoders /\ call \in Calls
    /\ call.count <= Len(call.p) /\ Len(call.p) <= offset
    /\ \A k \in 1 .. Len(call.p) : call.p[k] = Bytes(message)[(offset - Len(call.p)) + k]

Decoding == AtMessage \/ AtAttribute \/ AtLength \/ AtData \/ InData

ParseInv == Sending /\ (~emptyEnd => Reading /\ Decoding)

\* What the proofs use of the layout of a message.
LEMMA MessageFacts ==
  ASSUME NEW m \in AncsMessages
  PROVE  /\ m \in Seq(Attributes) /\ Len(m) \in Nat /\ Len(m) # 0 /\ DOMAIN m = 1 .. Len(m)
         /\ Len(Bytes(m)) \in Nat /\ Len(Bytes(m)) > ANCS_DS_HDR_LEN
         /\ Bytes(m) \in Seq(Octets) /\ Bytes(m)[1] = 0
         /\ \A i \in 1 .. Len(m) : /\ m[i] \in Attributes /\ Len(m[i].data) \in Nat
                                   /\ Len(m[i].data) < 65536 /\ (m[i].id = 0 => i = 1)
  <1>1. m \in Seq(Attributes) /\ m # <<>>
    BY ParseAssumption
  <1>2. /\ Len(m) \in Nat /\ Len(m) # 0 /\ DOMAIN m = 1 .. Len(m)
        /\ \A i \in 1 .. Len(m) : m[i] \in Attributes
    BY <1>1
  <1>3. \A i \in 1 .. Len(m) : Len(m[i].data) < 65536 /\ (m[i].id = 0 => i = 1)
    BY <1>2, ParseAssumption
  <1>4. \A i \in 1 .. Len(m) : Len(m[i].data) \in Nat
    <2> SUFFICES ASSUME NEW i \in 1 .. Len(m) PROVE Len(m[i].data) \in Nat
      OBVIOUS
    <2>1. m[i].data \in Seq(Octets)
      BY <1>2 DEF Attributes
    <2> QED
      BY <2>1, OctetsSeq
  <1>5. Layout(m, Starts(m))
    BY StartsLayout
  <1>6. Bytes(m) \in Seq(Octets) /\ Bytes(m)[1] = 0
    BY <1>5 DEF Layout
  <1>7. Len(Bytes(m)) \in Nat
    BY <1>6, OctetsSeq
  <1>8. Len(Bytes(m)) > ANCS_DS_HDR_LEN
    <2>1. /\ Starts(m)[1] = 5 /\ Starts(m)[1 + 1] = Starts(m)[1] + 3 + Len(m[1].data)
          /\ Starts(m)[1 + 1] <= Len(Bytes(m)) /\ Len(m[1].data) \in Nat
      <3>1. 1 \in 1 .. Len(m) /\ 1 + 1 \in 1 .. Len(m) + 1
        BY <1>2
      <3> QED
        BY <1>4, <1>5, <3>1 DEF Layout, ANCS_DS_HDR_LEN
    <2> QED
      BY <1>7, <2>1 DEF ANCS_DS_HDR_LEN
  <1> QED
    BY <1>1, <1>2, <1>3, <1>4, <1>6, <1>7, <1>8

\* Where attribute i begins, and what it consists of.
LEMMA AttributeFacts ==
  ASSUME NEW m \in AncsMessages, NEW i \in 1 .. Len(m)
  PROVE  /\ Starts(m)[i] \in Nat /\ Starts(m)[i + 1] \in Nat
         /\ Starts(m)[i + 1] = Starts(m)[i] + 3 + Len(m[i].data)
         /\ Starts(m)[i] >= ANCS_DS_HDR_LEN
         /\ Starts(m)[i + 1] <= Len(Bytes(m)) /\ Starts(m)[i] < Len(Bytes(m))
         /\ Bytes(m)[Starts(m)[i] + 1] = m[i].id
         /\ Bytes(m)[Starts(m)[i] + 2] = Low(Len(m[i].data))
         /\ Bytes(m)[Starts(m)[i] + 3] = High(Len(m[i].data))
         /\ \A k \in 1 .. Len(m[i].data) : Bytes(m)[Starts(m)[i] + 3 + k] = m[i].data[k]
  <1>1. Layout(m, Starts(m))
    BY StartsLayout
  <1>2. Len(m) \in Nat /\ Len(m[i].data) \in Nat /\ Len(Bytes(m)) \in Nat
    BY MessageFacts
  <1>3. i \in 1 .. Len(m) + 1 /\ i + 1 \in 1 .. Len(m) + 1
    BY <1>2
  <1>4. /\ Starts(m)[i] \in Nat /\ Starts(m)[i + 1] \in Nat
        /\ Starts(m)[i + 1] = Starts(m)[i] + 3 + Len(m[i].data)
        /\ Starts(m)[i] >= ANCS_DS_HDR_LEN /\ Starts(m)[i + 1] <= Len(Bytes(m))
    BY <1>1, <1>3 DEF Layout
  <1>5. Starts(m)[i] < Len(Bytes(m))
    BY <1>2, <1>4
  <1>6. /\ Bytes(m)[Starts(m)[i] + 1] = m[i].id
        /\ Bytes(m)[Starts(m)[i] + 2] = Low(Len(m[i].data))
        /\ Bytes(m)[Starts(m)[i] + 3] = High(Len(m[i].data))
        /\ \A k \in 1 .. Len(m[i].data) : Bytes(m)[Starts(m)[i] + 3 + k] = m[i].data[k]
    BY <1>1 DEF Layout
  <1> QED
    BY <1>4, <1>5, <1>6

\* Where the message ends, and nowhere before.
LEMMA EndFacts ==
  ASSUME NEW m \in AncsMessages, NEW n \in 0 .. Len(m)
  PROVE  /\ Starts(m)[n + 1] \in Nat /\ Starts(m)[1] = ANCS_DS_HDR_LEN
         /\ Starts(m)[n + 1] >= ANCS_DS_HDR_LEN
         /\ Starts(m)[Len(m) + 1] = Len(Bytes(m))
         /\ n # Len(m) => n + 1 \in 1 .. Len(m) /\ Starts(m)[n + 1] < Len(Bytes(m))
  <1>1. Layout(m, Starts(m))
    BY StartsLayout
  <1>2. Len(m) \in Nat /\ n \in Nat /\ n + 1 \in 1 .. Len(m) + 1
    BY MessageFacts
  <1>3. /\ Starts(m)[n + 1] \in Nat /\ Starts(m)[1] = ANCS_DS_HDR_LEN
        /\ Starts(m)[n + 1] >= ANCS_DS_HDR_LEN
        /\ Starts(m)[Len(m) + 1] = Len(Bytes(m))
    BY <1>1, <1>2 DEF Layout
  <1>4. ASSUME n # Len(m) PROVE n + 1 \in 1 .. Len(m) /\ Starts(m)[n + 1] < Len(Bytes(m))
    <2>1. n + 1 \in 1 .. Len(m)
      BY <1>2, <1>4
    <2> QED
      BY <2>1, AttributeFacts
  <1> QED
    BY <1>3, <1>4

\* The bytes that follow in the fragment are those that follow in the message.
LEMMA NextBytes ==
  ASSUME Sending, Reading, NEW k \in Nat, Decoded(k), NEW j \in Nat,
         j # 0, call.count + j <= Len(call.p)
  PROVE  call.p[call.count + j] = Bytes(message)[k + j] /\ k + j <= offset
  <1>1. Len(call.p) \in Nat /\ offset \in Nat /\ call.count \in Nat
    <2>1. call.p \in Seq(Octets) /\ call.count \in Nat
      BY DEF Reading, Calls
    <2>2. offset \in Nat
      BY MessageFacts DEF Sending
    <2> QED
      BY <2>1, <2>2, OctetsSeq
  <1>2. call.count + j \in 1 .. Len(call.p) /\ (offset - Len(call.p)) + (call.count + j) = k + j
    <2>c. PICK c : c = call.count
      OBVIOUS
    <2>l. PICK l : l = Len(call.p)
      OBVIOUS
    <2>1. /\ offset + c = k + l /\ c + j <= l
          /\ offset \in Nat /\ c \in Nat /\ l \in Nat
      BY <1>1, <2>c, <2>l DEF Decoded
    <2>2. c + j \in 1 .. l /\ (offset - l) + (c + j) = k + j
      BY <2>1
    <2> QED
      BY <2>2, <2>c, <2>l
  <1>3. k + j <= offset
    BY <1>1 DEF Decoded
  <1> QED
    BY <1>2, <1>3 DEF Reading

\* The numbers of a call.
LEMMA CallTypes ==
  ASSUME Sending, Reading
  PROVE  /\ Len(call.p) \in Nat /\ offset \in Nat /\ call.count \in Nat /\ ~call.stop
         /\ call.count <= Len(call.p) /\ Len(call.p) <= offset
         /\ message \in AncsMessages /\ attribute_data \in Decoders /\ call.p \in Seq(Octets)
         /\ Len(Bytes(message)) \in Nat /\ offset <= Len(Bytes(message))
  <1>1. /\ call.p \in Seq(Octets) /\ call.count \in Nat /\ call.stop = FALSE
        /\ attribute_data \in Decoders
        /\ call.count <= Len(call.p) /\ Len(call.p) <= offset
    BY DEF Reading, Calls
  <1>2. message \in AncsMessages /\ offset \in 0 .. Len(Bytes(message))
    BY DEF Sending
  <1>3. Len(Bytes(message)) \in Nat
    BY <1>2, MessageFacts
  <1> QED
    BY <1>1, <1>2, <1>3, OctetsSeq

\* A turn of the loop reads j bytes more of the same fragment.
LEMMA ReadOn ==
  ASSUME Sending, Reading, UNCHANGED <<message, offset, fragment, emptyEnd>>,
         NEW j \in Nat, call.count + j <= Len(call.p),
         call' = [call EXCEPT !.count = call.count + j],
         attribute_data' \in Decoders, NEW k \in Nat, Decoded(k)
  PROVE  Sending' /\ Reading' /\ Decoded(k + j)'
  <1>1. call \in Calls /\ call.count + j \in Nat
    BY CallTypes DEF Reading
  <1>2. call' \in Calls /\ call'.p = call.p /\ call'.count = call.count + j
    BY <1>1 DEF Calls
  <1>3. Sending'
    BY DEF Sending
  <1>4. Reading'
    BY <1>2 DEF Reading
  <1>5. offset + (call.count + j) = (k + j) + Len(call.p)
    <2>1. offset + call.count = k + Len(call.p)
      BY DEF Decoded
    <2>2. offset \in Nat /\ call.count \in Nat /\ Len(call.p) \in Nat
      BY CallTypes
    <2> DEFINE c == call.count
               l == Len(call.p)
    <2>3. offset \in Nat /\ c \in Nat /\ l \in Nat /\ offset + c = k + l
      BY <2>1, <2>2
    <2> HIDE DEF c, l
    <2>4. offset + (c + j) = (k + j) + l
      BY <2>3
    <2> QED
      BY <2>4 DEF c, l
  <1>6. Decoded(k + j)'
    BY <1>2, <1>5 DEF Decoded
  <1> QED
    BY <1>3, <1>4, <1>6

-----------------------------------------------------------------------------
\* What is displayed of an attribute is complete.
Completed ==
    \A n \in 1 .. Len(message) : Displaying(n, Len(message[n].data)) => Displayed(n)

LEMMA DisplayedAll == Sending => Completed
  <1> SUFFICES ASSUME message \in AncsMessages, NEW n \in 1 .. Len(message),
                      Displaying(n, Len(message[n].data))
               PROVE  Displayed(n)
    BY DEF Sending, Completed
  <1>1. shown \in Seq(Attributes) /\ Len(shown) = n /\ n \in 1 .. Len(message)
    BY DEF Displaying
  <1>2. shown[n] \in Attributes /\ message[n] \in Attributes
    <2>1. n \in 1 .. Len(shown)
      BY <1>1
    <2> QED
      BY <1>1, <2>1, MessageFacts
  <1> DEFINE a == shown[n]
             b == message[n]
  <1>3. /\ a \in Attributes /\ b \in Attributes /\ a.id = b.id /\ Len(a.data) = Len(b.data)
        /\ \A k \in 1 .. Len(b.data) : a.data[k] = b.data[k]
    BY <1>2 DEF Displaying
  <1> HIDE DEF a, b
  <1>4. a.data = b.data
    <2>1. a.data \in Seq(Octets) /\ b.data \in Seq(Octets)
      BY <1>3 DEF Attributes
    <2> DEFINE u == a.data
               v == b.data
    <2>2. /\ u \in Seq(Octets) /\ v \in Seq(Octets) /\ Len(u) = Len(v)
          /\ \A k \in 1 .. Len(v) : u[k] = v[k]
      BY <1>3, <2>1
    <2> HIDE DEF u, v
    <2>3. u = v
      BY <2>2, SeqEqual
    <2> QED
      BY <2>3 DEF u, v
  <1>5. a = b
    BY <1>3, <1>4 DEF Attributes
  <1>6. \A i \in 1 .. n : shown[i] = message[i]
    BY <1>5 DEF Displaying, a, b
  <1> QED
    BY <1>1, <1>6 DEF Displayed

LEMMA DisplayedAllNext == Sending' => Completed'
  BY DisplayedAll, PTL

\* The header is skipped.
LEMMA HdrStep ==
  ASSUME Sending, Reading, AtMessage, ParseHdr
  PROVE  Sending' /\ Reading' /\ AtAttribute'
  <1>1. /\ call.count < Len(call.p) /\ call.count = 0 /\ offset = Len(call.p)
        /\ shown = <<>> /\ NoLength /\ NoData /\ UNCHANGED <<message, offset, fragment, emptyEnd>>
        /\ shown' = shown
    BY DEF ParseHdr, ParseLoop, AtMessage
  <1>2. call.p[1] = 0
    <2>1. Decoded(0) /\ 0 + 1 = 1
      BY <1>1, CallTypes DEF Decoded
    <2>2. call.p[0 + 1] = Bytes(message)[0 + 1]
      BY <1>1, <2>1, NextBytes, CallTypes
    <2> QED
      BY <2>2, CallTypes, MessageFacts
  <1>3. offset > 5
    BY <1>1, CallTypes DEF Sending, ANCS_DS_HDR_LEN
  <1>4. call' = [call EXCEPT !.count = 5] /\ attribute_data' = [attribute_data EXCEPT !.state = "attrid"]
    <2>1. call \in Calls /\ ~call.stop
      BY DEF Reading, Calls
    <2>2. call' = [call EXCEPT !.count = 5, !.stop = FALSE]
      BY <1>2 DEF ParseHdr, ANCS_DS_HDR_LEN
    <2> QED
      BY <1>2, <2>1, <2>2, ZenonT(60) DEF ParseHdr, Calls
  <1>5. attribute_data' \in Decoders /\ attribute_data'.state = "attrid" /\ NoLength' /\ NoData'
    BY <1>1, <1>4, CallTypes DEF Decoders, NoLength, NoData
  <1>6. Sending' /\ Reading' /\ Decoded(0 + 5)'
    <2>1. 5 \in Nat /\ 0 \in Nat /\ call.count + 5 = 5 /\ call.count + 5 <= Len(call.p)
      BY <1>1, <1>3, CallTypes
    <2>2. Decoded(0)
      BY <1>1, CallTypes DEF Decoded
    <2> QED
      BY <1>1, <1>4, <1>5, <2>1, <2>2, ReadOn
  <1>7. Displayed(Len(shown))' /\ Len(shown') = 0
    <2>1. shown' = <<>> /\ Len(<<>>) = 0 /\ <<>> \in Seq(Attributes)
      BY <1>1
    <2>2. 0 \in 0 .. Len(message)
      BY CallTypes, MessageFacts
    <2> QED
      BY <1>1, <2>1, <2>2 DEF Displayed
  <1>8. Decoded(Starts(message)[Len(shown) + 1])'
    <2>1. Starts(message)[0 + 1] = 5 /\ 0 + 1 = 1
      <3>1. 0 \in 0 .. Len(message)
        BY CallTypes, MessageFacts
      <3> QED
        BY <3>1, CallTypes, EndFacts DEF ANCS_DS_HDR_LEN
    <2>2. Decoded(5)' /\ 0 + 5 = 5
      BY <1>6
    <2> QED
      BY <1>1, <1>7, <2>1, <2>2 DEF Decoded
  <1> QED
    BY <1>5, <1>6, <1>7, <1>8 DEF AtAttribute

\* The identifier of the next attribute.
LEMMA AttrIdStep ==
  ASSUME Sending, Reading, AtAttribute, ParseAttrId
  PROVE  Sending' /\ Reading' /\ AtLength'
  <1>n. PICK n : n = Len(shown)
    OBVIOUS
  <1>k. PICK k : k = Starts(message)[n + 1]
    OBVIOUS
  <1>1. /\ call.count < Len(call.p) /\ Displayed(n) /\ Decoded(k) /\ NoLength /\ NoData
        /\ UNCHANGED <<message, offset, fragment, emptyEnd>>
    BY <1>n, <1>k DEF ParseAttrId, ParseLoop, AtAttribute
  <1>2. n \in 0 .. Len(message) /\ n \in Nat /\ shown \in Seq(Attributes)
    BY <1>1, CallTypes, MessageFacts DEF Displayed
  <1>3. k \in Nat /\ n # Len(message)
    <2>1. k \in Nat /\ Starts(message)[Len(message) + 1] = Len(Bytes(message))
      BY <1>2, <1>k, CallTypes, EndFacts
    <2>2. k < offset
      BY <1>1, <2>1, CallTypes DEF Decoded
    <2> QED
      BY <1>k, <2>1, <2>2, CallTypes
  <1>4. n + 1 \in 1 .. Len(message)
    BY <1>2, <1>3, CallTypes, EndFacts
  <1>5. call.p[call.count + 1] = message[n + 1].id
    <2>1. call.p[call.count + 1] = Bytes(message)[k + 1]
      BY <1>1, <1>3, CallTypes, NextBytes
    <2> QED
      BY <1>4, <1>k, <2>1, CallTypes, AttributeFacts
  <1>b. PICK b : b = message[n + 1].id
    OBVIOUS
  <1> DEFINE new == [id |-> b, data |-> <<>>]
  <1>6. b \in AttributeIds
    BY <1>4, <1>b, CallTypes, MessageFacts DEF Attributes
  <1>7. /\ call' = [call EXCEPT !.count = call.count + 1]
        /\ attribute_data' = [attribute_data EXCEPT !.state = "attrlen"]
        /\ shown' = Append(shown, new)
    <2>1. call \in Calls /\ ~call.stop
      BY DEF Reading, Calls
    <2>2. call' = [call EXCEPT !.count = @ + 1, !.stop = FALSE]
      BY <1>5, <1>6, <1>b DEF ParseAttrId
    <2>3. call' = [call EXCEPT !.count = call.count + 1]
      BY <2>1, <2>2 DEF Calls
    <2> QED
      BY <1>5, <1>6, <1>b, <2>3 DEF ParseAttrId
  <1>8. /\ attribute_data' \in Decoders /\ attribute_data'.state = "attrlen"
        /\ attribute_data'.attr_len = 0 /\ ~attribute_data'.pending_len /\ NoData'
    BY <1>1, <1>7, CallTypes DEF Decoders, NoLength, NoData
  <1>9. Sending' /\ Reading' /\ Decoded(k + 1)'
    <2>1. 1 \in Nat /\ call.count + 1 <= Len(call.p)
      BY <1>1, CallTypes
    <2> QED
      BY <1>1, <1>3, <1>7, <1>8, <2>1, ReadOn
  <1>10. new \in Attributes /\ new.id = b /\ new.data = <<>> /\ Len(<<>>) = 0
    BY <1>6 DEF Attributes
  <1> HIDE DEF new
  <1>11. /\ shown' \in Seq(Attributes) /\ Len(shown') = n + 1 /\ shown'[n + 1] = new
         /\ \A i \in 1 .. n + 1 : i # n + 1 => shown'[i] = shown[i] /\ i \in 1 .. n
    BY <1>2, <1>7, <1>10, <1>n, AppendProperties
  <1>12. Displaying(n + 1, 0)'
    <2>1. \A i \in 1 .. n + 1 : i # n + 1 => shown'[i] = message[i]
      BY <1>1, <1>11 DEF Displayed
    <2>2. 0 <= Len(message[n + 1].data)
      BY <1>4, CallTypes, MessageFacts
    <2> QED
      BY <1>1, <1>4, <1>10, <1>11, <1>b, <2>1, <2>2 DEF Displaying
  <1> QED
    <2>1. Starts(message)'[Len(shown')] = k
      BY <1>1, <1>11, <1>k
    <2>2. Displaying(Len(shown), 0)' /\ Decoded(Starts(message)[Len(shown)] + 1)'
      BY <1>9, <1>11, <1>12, <2>1
    <2> QED
      BY <1>8, <1>9, <2>2 DEF AtLength

\* The length, in one fragment or in two.
LEMMA AttrLenStep ==
  ASSUME Sending, Reading, AtLength, ParseAttrLen
  PROVE  Sending' /\ Reading' /\ (AtLength' \/ AtData')
  <1>n. PICK n : n = Len(shown)
    OBVIOUS
  <1>k. PICK k : k = Starts(message)[n]
    OBVIOUS
  <1>d. PICK d : d = Len(message[n].data)
    OBVIOUS
  <1>1. /\ call.count < Len(call.p) /\ Displaying(n, 0) /\ NoData /\ attribute_data.attr_len = 0
        /\ UNCHANGED <<message, offset, fragment, emptyEnd>> /\ shown' = shown
        /\ ~attribute_data.pending_len => Decoded(k + 1)
        /\ attribute_data.pending_len => Decoded(k + 2) /\ attribute_data.rem_attr_len = Low(d)
    BY <1>n, <1>k, <1>d DEF ParseAttrLen, ParseLoop, AtLength
  <1>2. n \in 1 .. Len(message)
    BY <1>1 DEF Displaying
  <1>3. /\ k \in Nat /\ d \in Nat /\ d < 65536
        /\ Bytes(message)[k + 2] = Low(d) /\ Bytes(message)[k + 3] = High(d)
    <2>1. message \in AncsMessages
      BY CallTypes
    <2>2. d \in Nat /\ d < 65536
      BY <1>2, <1>d, <2>1, MessageFacts
    <2>3. k \in Nat /\ Bytes(message)[k + 2] = Low(d) /\ Bytes(message)[k + 3] = High(d)
      BY <1>2, <1>k, <1>d, <2>1, AttributeFacts
    <2> QED
      BY <2>2, <2>3
  <1>4. /\ Low(d) \in Octets /\ High(d) \in Octets
        /\ High(d) * 256 + Low(d) = d /\ Low(d) + 256 * High(d) = d
    BY <1>3, LengthBytes
  <1>5. Displaying(n, 0)' /\ Len(shown') = n /\ Starts(message)'[n] = k /\ Len(message'[n].data) = d
    BY <1>1, <1>n, <1>k, <1>d DEF Displaying
  <1>c. 1 \in Nat /\ 2 \in Nat /\ call.count + 1 <= Len(call.p)
    <2>1. call.count < Len(call.p) /\ call.count \in Nat /\ Len(call.p) \in Nat
      BY <1>1, CallTypes
    <2> QED
      BY <2>1
  <1>s. /\ k + 1 \in Nat /\ k + 2 \in Nat
        /\ (k + 1) + 1 = k + 2 /\ (k + 1) + 2 = k + 3 /\ (k + 2) + 1 = k + 3
    BY <1>3
  <1>a. attribute_data \in Decoders /\ attribute_data.pending_attr_data = 0 /\ d \in Nat
    BY <1>1, <1>3, CallTypes DEF NoData
  <1>6. CASE /\ attribute_data.pending_len
             /\ attribute_data' = [attribute_data EXCEPT
                   !.attr_len = call.p[call.count + 1] * 256 + attribute_data.rem_attr_len,
                   !.rem_attr_len = 0, !.pending_len = FALSE, !.state = "attrdata"]
             /\ call' = [call EXCEPT !.count = call.count + 1]
    <2>1. call.p[call.count + 1] = High(d)
      <3>1. call.p[call.count + 1] = Bytes(message)[(k + 2) + 1] /\ (k + 2) + 1 = k + 3
        <4>1. Decoded(k + 2)
          BY <1>1, <1>6
        <4> QED
          BY <1>s, <1>c, <4>1, NextBytes
      <3> QED
        BY <1>3, <3>1
    <2>2. attribute_data' = [attribute_data EXCEPT !.attr_len = d,
                   !.rem_attr_len = 0, !.pending_len = FALSE, !.state = "attrdata"]
      BY <1>1, <1>4, <1>6, <2>1, ZenonT(60)
    <2>3. /\ attribute_data' \in Decoders /\ attribute_data'.state = "attrdata"
          /\ attribute_data'.attr_len = d /\ ~attribute_data'.pending_len /\ NoData'
      BY <1>a, <2>2 DEF Decoders, NoData
    <2>4. Sending' /\ Reading' /\ Decoded((k + 2) + 1)'
      <3>1. Decoded(k + 2)
        BY <1>1, <1>6
      <3> QED
        BY <1>1, <1>6, <1>c, <1>s, <2>3, <3>1, ReadOn
    <2>5. (k + 2) + 1 = k + 3
      BY <1>3
    <2> QED
      BY <1>5, <2>3, <2>4, <2>5 DEF AtData
  <1>7. CASE /\ ~attribute_data.pending_len /\ call.count + 1 < Len(call.p)
             /\ attribute_data' = [attribute_data EXCEPT
                   !.attr_len = call.p[call.count + 1] + 256 * call.p[call.count + 2],
                   !.state = "attrdata"]
             /\ call' = [call EXCEPT !.count = call.count + 2]
    <2>0. Decoded(k + 1) /\ call.count + 2 <= Len(call.p)
      <3>1. Decoded(k + 1)
        BY <1>1, <1>7
      <3>2. call.count \in Nat /\ Len(call.p) \in Nat /\ call.count + 1 < Len(call.p)
        BY <1>7, CallTypes
      <3> QED
        BY <3>1, <3>2
    <2>1. call.p[call.count + 1] = Low(d) /\ call.p[call.count + 2] = High(d)
      <3>2. call.p[call.count + 1] = Bytes(message)[(k + 1) + 1]
        BY <1>c, <1>s, <2>0, NextBytes
      <3>3. call.p[call.count + 2] = Bytes(message)[(k + 1) + 2]
        BY <1>c, <1>s, <2>0, NextBytes
      <3> QED
        BY <1>3, <1>s, <3>2, <3>3
    <2>2. attribute_data' = [attribute_data EXCEPT !.attr_len = d, !.state = "attrdata"]
      BY <1>1, <1>4, <1>7, <2>1
    <2>3. /\ attribute_data' \in Decoders /\ attribute_data'.state = "attrdata"
          /\ attribute_data'.attr_len = d /\ ~attribute_data'.pending_len /\ NoData'
      <3>1. ~attribute_data.pending_len
        BY <1>7
      <3> QED
        BY <1>a, <2>2, <3>1 DEF Decoders, NoData
    <2>4. Sending' /\ Reading' /\ Decoded((k + 1) + 2)'
      BY <1>1, <1>7, <1>c, <1>s, <2>0, <2>3, ReadOn
    <2>5. (k + 1) + 2 = k + 3
      BY <1>3
    <2> QED
      BY <1>5, <2>3, <2>4, <2>5 DEF AtData
  <1>8. CASE /\ ~attribute_data.pending_len /\ call.count + 1 >= Len(call.p)
             /\ attribute_data' = [attribute_data EXCEPT
                   !.rem_attr_len = call.p[call.count + 1], !.pending_len = TRUE]
             /\ call' = [call EXCEPT !.count = call.count + 1]
    <2>0. /\ 1 \in Nat /\ call.count + 1 <= Len(call.p) /\ k + 1 \in Nat /\ Decoded(k + 1)
          /\ (k + 1) + 1 = k + 2
      <3>1. Decoded(k + 1)
        BY <1>1, <1>8
      <3> QED
        BY <1>c, <1>s, <3>1
    <2>1. call.p[call.count + 1] = Low(d)
      <3>1. call.p[call.count + 1] = Bytes(message)[(k + 1) + 1]
        BY <2>0, NextBytes
      <3> QED
        BY <1>3, <2>0, <3>1
    <2>2. Low(d) \in Nat
      BY <1>4 DEF Octets
    <2>3. /\ attribute_data' \in Decoders /\ attribute_data'.state = "attrlen"
          /\ attribute_data'.attr_len = 0 /\ attribute_data'.pending_len = TRUE
          /\ attribute_data'.rem_attr_len = Low(d) /\ NoData'
      BY <1>1, <1>8, <2>1, <2>2, CallTypes DEF Decoders, NoData, AtLength
    <2>4. Sending' /\ Reading' /\ Decoded((k + 1) + 1)'
      BY <1>1, <1>8, <2>0, <2>3, ReadOn
    <2> QED
      BY <1>5, <2>0, <2>3, <2>4 DEF AtLength
  <1> QED
    BY <1>6, <1>7, <1>8 DEF ParseAttrLen

\* The length of the data is noted; empty data are complete.
LEMMA AttrBeginStep ==
  ASSUME Sending, Reading, AtData, ParseAttrBegin
  PROVE  Sending' /\ Reading' /\ (AtAttribute' \/ InData')
  <1>n. PICK n : n = Len(shown)
    OBVIOUS
  <1>k. PICK k : k = Starts(message)[n]
    OBVIOUS
  <1>d. PICK d : d = Len(message[n].data)
    OBVIOUS
  <1>1. /\ Displaying(n, 0) /\ Decoded(k + 3) /\ ~attribute_data.pending_len
        /\ UNCHANGED <<message, offset, fragment, emptyEnd>> /\ shown' = shown /\ call' = call
        /\ attribute_data' = [attribute_data EXCEPT !.pending_attr_data = d, !.attr_len = 0,
                                !.state = IF d = 0 THEN "attrid" ELSE "attrdata"]
    BY <1>n, <1>k, <1>d DEF ParseAttrBegin, ParseLoop, AtData
  <1>2. n \in 1 .. Len(message) /\ n \in Nat
    BY <1>1, CallTypes, MessageFacts DEF Displaying
  <1>3. /\ k \in Nat /\ d \in Nat /\ Starts(message)[n + 1] = k + 3 + d
    BY <1>2, <1>k, <1>d, CallTypes, AttributeFacts, MessageFacts
  <1>4. /\ attribute_data' \in Decoders /\ NoLength' /\ attribute_data'.pending_attr_data = d
        /\ attribute_data'.state = IF d = 0 THEN "attrid" ELSE "attrdata"
    BY <1>1, <1>3, CallTypes DEF Decoders, NoLength
  <1>5. Sending' /\ Reading' /\ Decoded(k + 3)'
    BY <1>1, <1>4 DEF Sending, Reading, Decoded
  <1>6. CASE d = 0
    <2>1. Displayed(n)
      BY <1>1, <1>2, <1>6, <1>d, DisplayedAll DEF Completed
    <2>2. Displayed(n)' /\ Len(shown') = n
      BY <1>1, <1>n, <2>1 DEF Displayed
    <2>3. Starts(message)'[n + 1] = k + 3
      BY <1>1, <1>3, <1>6
    <2> QED
      BY <1>4, <1>5, <1>6, <2>2, <2>3 DEF AtAttribute, NoData
  <1>7. CASE d # 0
    <2>1. Displaying(n, 0)' /\ Len(shown') = n /\ Len(message'[n].data) = d
      BY <1>1, <1>n, <1>d DEF Displaying
    <2>2. d - d = 0 /\ d \in 1 .. d /\ (k + 3 + d) - d = k + 3
      BY <1>3, <1>7
    <2>3. Starts(message)'[n + 1] - d = k + 3
      BY <1>1, <1>3, <2>2
    <2> QED
      BY <1>4, <1>5, <1>7, <2>1, <2>2, <2>3 DEF InData
  <1> QED
    BY <1>5, <1>6, <1>7

\* A part of a string of bytes.
LEMMA PartOf ==
  ASSUME NEW a \in Seq(Octets), NEW c \in Nat, NEW t \in Nat, c + t <= Len(a)
  PROVE  /\ SubSeq(a, c + 1, c + t) \in Seq(Octets) /\ Len(SubSeq(a, c + 1, c + t)) = t
         /\ \A j \in 1 .. t : SubSeq(a, c + 1, c + t)[j] = a[c + j]
  <1>1. Len(a) \in Nat /\ \A i \in 1 .. Len(a) : a[i] \in Octets
    BY OctetsSeq
  <1>2. \A i \in (c + 1) .. (c + t) : a[i] \in Octets
    BY <1>1
  <1>3. SubSeq(a, c + 1, c + t) = [i \in 1 .. (c + t) - (c + 1) + 1 |-> a[i + (c + 1) - 1]]
    OBVIOUS
  <1>4. (c + t) - (c + 1) + 1 = t /\ \A j \in 1 .. t : j + (c + 1) - 1 = c + j /\ c + j \in 1 .. Len(a)
    BY <1>1
  <1>5. SubSeq(a, c + 1, c + t) = [i \in 1 .. t |-> a[i + (c + 1) - 1]]
    BY <1>3, <1>4
  <1>6. \A j \in 1 .. t : SubSeq(a, c + 1, c + t)[j] = a[c + j]
    BY <1>4, <1>5
  <1>7. SubSeq(a, c + 1, c + t) \in Seq(Octets) /\ Len(SubSeq(a, c + 1, c + t)) = t
    BY <1>1, <1>4, <1>5
  <1> QED
    BY <1>6, <1>7

\* More of the data of the last attribute is displayed.
LEMMA DisplayMore ==
  ASSUME message \in AncsMessages, message' = message, NEW n, NEW c \in Nat, Displaying(n, c),
         NEW t \in Nat, NEW b \in Seq(Octets), Len(b) = t, c + t <= Len(message[n].data),
         \A j \in 1 .. t : b[j] = message[n].data[c + j],
         shown' = [shown EXCEPT ![n].data = @ \o b]
  PROVE  Displaying(n, c + t)' /\ Len(shown') = n
  <1>1. /\ shown \in Seq(Attributes) /\ Len(shown) = n /\ n \in 1 .. Len(message)
        /\ \A i \in 1 .. n : i # n => shown[i] = message[i]
        /\ shown[n].id = message[n].id /\ Len(shown[n].data) = c
        /\ \A k \in 1 .. c : shown[n].data[k] = message[n].data[k]
    BY DEF Displaying
  <1>2. n \in 1 .. Len(shown) /\ shown[n] \in Attributes /\ DOMAIN shown = 1 .. n
    BY <1>1, MessageFacts
  <1>3. shown[n].data \in Seq(Octets) /\ shown[n].id \in AttributeIds
    BY <1>2 DEF Attributes
  <1>o. PICK o : o = shown[n].data
    OBVIOUS
  <1>r. PICK r : r = o \o b
    OBVIOUS
  <1>4. /\ r \in Seq(Octets) /\ Len(r) = c + t
        /\ \A i \in 1 .. c + t : r[i] = IF i <= c THEN o[i] ELSE b[i - c]
    <2>1. o \in Seq(Octets) /\ Len(o) = c
      BY <1>1, <1>3, <1>o
    <2> QED
      BY <1>r, <2>1, OctetsJoined
  <1>5. \A k \in 1 .. c + t : r[k] = message[n].data[k]
    <2> SUFFICES ASSUME NEW k \in 1 .. c + t PROVE r[k] = message[n].data[k]
      OBVIOUS
    <2>1. CASE k <= c
      <3>1. k \in 1 .. c
        BY <2>1
      <3> QED
        BY <1>1, <1>4, <1>o, <2>1, <3>1
    <2>2. CASE ~(k <= c)
      <3>1. k - c \in 1 .. t /\ c + (k - c) = k
        BY <2>2
      <3> QED
        BY <1>4, <2>2, <3>1
    <2> QED
      BY <2>1, <2>2
  <1>a. PICK a : a = [shown[n] EXCEPT !.data = r]
    OBVIOUS
  <1>6. a \in Attributes /\ a.id = shown[n].id /\ a.data = r
    BY <1>2, <1>4, <1>a DEF Attributes
  <1>7. shown' = [shown EXCEPT ![n] = a]
    BY <1>o, <1>r, <1>a
  <1>8. /\ shown' \in Seq(Attributes) /\ Len(shown') = n /\ shown'[n] = a
        /\ \A i \in 1 .. n : i # n => shown'[i] = shown[i]
    <2>1. shown \in [1 .. n -> Attributes] /\ n \in 1 .. n /\ n \in Nat
      BY <1>1, <1>2, MessageFacts
    <2>2. shown' \in [1 .. n -> Attributes]
      BY <1>6, <1>7, <2>1
    <2>3. shown'[n] = a /\ \A i \in 1 .. n : i # n => shown'[i] = shown[i]
      BY <1>7, <2>1
    <2>4. shown' \in Seq(Attributes) /\ Len(shown') = n
      BY <2>1, <2>2, LenProperties, SeqDef
    <2> QED
      BY <2>3, <2>4
  <1>9. Displaying(n, c + t)'
    BY <1>1, <1>4, <1>5, <1>6, <1>8 DEF Displaying
  <1> QED
    BY <1>8, <1>9

\* Data are displayed, as many as are left of the attribute or of the fragment.
LEMMA AttrDataStep ==
  ASSUME Sending, Reading, InData, ParseAttrData
  PROVE  Sending' /\ Reading' /\ (AtAttribute' \/ InData')
  <1>n. PICK n : n = Len(shown)
    OBVIOUS
  <1>k. PICK k : k = Starts(message)[n]
    OBVIOUS
  <1>d. PICK d : d = Len(message[n].data)
    OBVIOUS
  <1>q. PICK q : q = attribute_data.pending_attr_data
    OBVIOUS
  <1>t. PICK t : t = IF q < Len(call.p) - call.count THEN q ELSE Len(call.p) - call.count
    OBVIOUS
  <1>b. PICK b : b = SubSeq(call.p, call.count + 1, call.count + t)
    OBVIOUS
  <1>1. /\ call.count < Len(call.p) /\ UNCHANGED <<message, offset, fragment, emptyEnd>>
        /\ shown' = Shown(b)
        /\ call' = [call EXCEPT !.count = @ + t]
        /\ attribute_data' = [attribute_data EXCEPT !.pending_attr_data = @ - t,
                                !.state = IF q = t THEN "attrid" ELSE @]
    BY <1>q, <1>t, <1>b DEF ParseAttrData, ParseLoop
  <1>2. /\ NoLength /\ q \in 1 .. d /\ Displaying(n, d - q)
        /\ attribute_data.state = "attrdata" /\ Decoded(Starts(message)[n + 1] - q)
    BY <1>n, <1>d, <1>q DEF InData
  <1>3. n \in 1 .. Len(message) /\ n \in Nat /\ Len(shown) = n
    BY <1>2, CallTypes, MessageFacts DEF Displaying
  <1>4. /\ k \in Nat /\ d \in Nat /\ Starts(message)[n + 1] = k + 3 + d
        /\ \A j \in 1 .. d : Bytes(message)[k + 3 + j] = message[n].data[j]
    <2>1. message \in AncsMessages
      BY CallTypes
    <2>2. d \in Nat
      BY <1>3, <1>d, <2>1, MessageFacts
    <2>3. /\ k \in Nat /\ Starts(message)[n + 1] = k + 3 + d
          /\ \A j \in 1 .. d : Bytes(message)[k + 3 + j] = message[n].data[j]
      BY <1>3, <1>k, <1>d, <2>1, AttributeFacts
    <2> QED
      BY <2>2, <2>3
  <1>c. PICK c \in Nat : c = d - q
    BY <1>2, <1>4
  <1>5. /\ t \in Nat /\ t # 0 /\ t <= q /\ call.count + t <= Len(call.p)
        /\ c + t <= d /\ q - t \in Nat /\ (q - t = 0 <=> q = t) /\ d - (q - t) = c + t
    <2>l. PICK l : l = Len(call.p)
      OBVIOUS
    <2>m. PICK m : m = call.count
      OBVIOUS
    <2>1. /\ l \in Nat /\ m \in Nat /\ m < l /\ t = IF q < l - m THEN q ELSE l - m
          /\ q \in Nat /\ q # 0 /\ q <= d /\ d \in Nat /\ c = d - q
      <3>1. l \in Nat /\ m \in Nat /\ m < l
        BY <1>1, <2>l, <2>m, CallTypes
      <3>2. t = IF q < l - m THEN q ELSE l - m
        BY <1>t, <2>l, <2>m
      <3>3. q \in Nat /\ q # 0 /\ q <= d /\ d \in Nat /\ c = d - q
        BY <1>2, <1>4, <1>c
      <3> QED
        BY <3>1, <3>2, <3>3
    <2>2. /\ t \in Nat /\ t # 0 /\ t <= q /\ m + t <= l
          /\ c + t <= d /\ q - t \in Nat /\ (q - t = 0 <=> q = t) /\ d - (q - t) = c + t
      BY <2>1
    <2> QED
      BY <2>2, <2>l, <2>m
  <1>6. Starts(message)[n + 1] - q = k + 3 + c /\ k + 3 + c \in Nat /\ Decoded(k + 3 + c)
    <2>1. q \in Nat /\ (k + 3 + d) - q = k + 3 + c /\ k + 3 + c \in Nat
      BY <1>2, <1>4, <1>c
    <2> QED
      BY <1>2, <1>4, <2>1
  <1>7. b \in Seq(Octets) /\ Len(b) = t /\ \A j \in 1 .. t : b[j] = call.p[call.count + j]
    <2>l. PICK l : l = call.p
      OBVIOUS
    <2>m. PICK m : m = call.count
      OBVIOUS
    <2>1. l \in Seq(Octets) /\ m \in Nat /\ m + t <= Len(l) /\ t \in Nat
      BY <1>5, <2>l, <2>m, CallTypes
    <2>2. b = SubSeq(l, m + 1, m + t)
      BY <1>b, <2>l, <2>m
    <2>3. b \in Seq(Octets) /\ Len(b) = t /\ \A j \in 1 .. t : b[j] = l[m + j]
      BY <2>1, <2>2, PartOf
    <2> QED
      BY <2>3, <2>l, <2>m
  <1>8. ASSUME NEW j \in 1 .. t PROVE b[j] = message[n].data[c + j]
    <2>1. /\ j \in Nat /\ j # 0 /\ call.count + j <= Len(call.p)
          /\ c + j \in 1 .. d /\ (k + 3 + c) + j = k + 3 + (c + j)
      <3>m. PICK m : m = call.count
        OBVIOUS
      <3>l. PICK l : l = Len(call.p)
        OBVIOUS
      <3>1. /\ m \in Nat /\ l \in Nat /\ m + t <= l /\ t \in Nat /\ c + t <= d /\ d \in Nat
            /\ k \in Nat
        BY <1>4, <1>5, <3>m, <3>l, CallTypes
      <3>2. /\ j \in Nat /\ j # 0 /\ m + j <= l
            /\ c + j \in 1 .. d /\ (k + 3 + c) + j = k + 3 + (c + j)
        BY <3>1
      <3> QED
        BY <3>2, <3>m, <3>l
    <2>2. call.p[call.count + j] = Bytes(message)[(k + 3 + c) + j]
      BY <1>6, <2>1, NextBytes
    <2> QED
      BY <1>4, <1>7, <2>1, <2>2
  <1>9. Displaying(n, c + t)' /\ Len(shown') = n
    <2>1. shown # <<>>
      BY <1>3
    <2>2. shown' = [shown EXCEPT ![n].data = @ \o b]
      BY <1>1, <1>n, <2>1 DEF Shown
    <2> QED
      <3>1. /\ message \in AncsMessages /\ message' = message /\ Displaying(n, c)
            /\ t \in Nat /\ c + t <= Len(message[n].data)
        BY <1>1, <1>2, <1>5, <1>c, <1>d, CallTypes
      <3> QED
        BY <1>7, <1>8, <2>2, <3>1, DisplayMore
  <1>10. /\ attribute_data' \in Decoders /\ NoLength' /\ attribute_data'.pending_attr_data = q - t
         /\ attribute_data'.state = IF q = t THEN "attrid" ELSE "attrdata"
    BY <1>1, <1>2, <1>5, <1>q, CallTypes DEF Decoders, NoLength
  <1>11. Sending' /\ Reading' /\ Decoded((k + 3 + c) + t)'
    BY <1>1, <1>5, <1>6, <1>10, ReadOn
  <1>12. /\ Starts(message)' = Starts(message) /\ message' = message
         /\ (k + 3 + d) - (q - t) = (k + 3 + c) + t
    BY <1>1, <1>2, <1>4, <1>5, <1>c
  <1>13. CASE q = t
    <2>1. c + t = d /\ k + 3 + d = (k + 3 + c) + t
      BY <1>2, <1>4, <1>13, <1>c
    <2>2. Displaying(n, Len(message[n].data))'
      BY <1>9, <1>12, <1>d, <2>1
    <2>3. Displayed(n)'
      <3>1. message' \in AncsMessages /\ n \in 1 .. Len(message')
        BY <1>3, <1>12, CallTypes
      <3> QED
        BY <1>11, <2>2, <3>1, DisplayedAllNext DEF Completed
    <2>4. Decoded(Starts(message)[n + 1])'
      BY <1>4, <1>11, <1>12, <2>1
    <2> QED
      BY <1>5, <1>9, <1>10, <1>11, <1>13, <2>3, <2>4 DEF AtAttribute, NoData
  <1>14. CASE q # t
    <2>1. q - t \in 1 .. d
      BY <1>2, <1>4, <1>5, <1>14
    <2>2. Decoded(Starts(message)[n + 1] - (q - t))'
      BY <1>4, <1>11, <1>12
    <2>3. Displaying(n, Len(message[n].data) - (q - t))' /\ q - t \in 1 .. Len(message'[n].data)
      BY <1>5, <1>9, <1>12, <1>d, <2>1
    <2> QED
      BY <1>9, <1>10, <1>11, <1>14, <2>2, <2>3 DEF InData
  <1> QED
    BY <1>11, <1>13, <1>14

\* The fragment has been read.
LEMMA EndStep ==
  ASSUME Sending, Reading, Decoding, ParseEnd
  PROVE  Sending' /\ Reading' /\ Decoding'
  <1>1. /\ call.count = Len(call.p)
        /\ call' = NoCall /\ UNCHANGED <<attribute_data, shown, message, offset, fragment, emptyEnd>>
    BY CallTypes DEF ParseEnd
  <1>2. /\ call' \in Calls /\ call'.p = <<>> /\ call'.count = 0 /\ Len(<<>>) = 0
        /\ Len(call'.p) = 0
    BY <1>1 DEF NoCall, Calls
  <1>3. Sending'
    BY <1>1 DEF Sending
  <1>4. Reading'
    BY <1>1, <1>2, CallTypes DEF Reading
  <1>5. ASSUME NEW k, k \in Nat, Decoded(k) PROVE Decoded(k)'
    <2>1. offset + call.count = k + Len(call.p) /\ offset' + call'.count = offset + 0
      BY <1>1, <1>2, <1>5 DEF Decoded
    <2>2. offset + 0 = k + 0
      <3>l. PICK l : l = Len(call.p)
        OBVIOUS
      <3>1. l \in Nat /\ offset \in Nat /\ offset + l = k + l
        BY <1>1, <2>1, <3>l, CallTypes
      <3> QED
        BY <1>5, <3>1
    <2> QED
      BY <1>2, <2>1, <2>2 DEF Decoded
  <1>6. ASSUME AtMessage PROVE AtMessage'
    <2>1. call.count = 0 /\ offset = Len(call.p)
      BY <1>6 DEF AtMessage
    <2> QED
      BY <1>1, <1>2, <1>6, <2>1 DEF AtMessage, NoLength, NoData
  <1>7. ASSUME AtAttribute PROVE AtAttribute'
    <2>n. PICK n : n = Len(shown)
      OBVIOUS
    <2>1. n \in 0 .. Len(message) /\ Decoded(Starts(message)[n + 1])
      BY <1>7, <2>n DEF AtAttribute, Displayed
    <2>2. Starts(message)[n + 1] \in Nat
      BY <2>1, CallTypes, EndFacts
    <2>3. Decoded(Starts(message)[n + 1])'
      BY <1>1, <1>5, <2>1, <2>2
    <2> QED
      BY <1>1, <1>7, <2>3, <2>n DEF AtAttribute, NoLength, NoData, Displayed
  <1>8. ASSUME AtLength \/ AtData \/ InData PROVE (AtLength \/ AtData \/ InData)'
    <2>n. PICK n : n = Len(shown)
      OBVIOUS
    <2>k. PICK k : k = Starts(message)[n]
      OBVIOUS
    <2>1. n \in 1 .. Len(message)
      BY <1>8, <2>n DEF AtLength, AtData, InData, Displaying
    <2>2. k \in Nat /\ Starts(message)[n + 1] = k + 3 + Len(message[n].data) /\ Len(message[n].data) \in Nat
      BY <2>1, <2>k, CallTypes, AttributeFacts, MessageFacts
    <2>3. k + 1 \in Nat /\ k + 2 \in Nat /\ k + 3 \in Nat
      BY <2>2
    <2>s. /\ UNCHANGED <<attribute_data, shown, message>>
          /\ \A c : Displaying(n, c) => Displaying(n, c)'
      BY <1>1 DEF Displaying
    <2>4. CASE AtLength
      <3>1. (Decoded(k + 1) => Decoded(k + 1)') /\ (Decoded(k + 2) => Decoded(k + 2)')
        BY <1>5, <2>3
      <3> QED
        BY <2>4, <2>n, <2>k, <2>s, <3>1 DEF AtLength, NoData
    <2>5. CASE AtData
      <3>1. Decoded(k + 3) => Decoded(k + 3)'
        BY <1>5, <2>3
      <3> QED
        BY <2>5, <2>n, <2>k, <2>s, <3>1 DEF AtData, NoData
    <2>6. CASE InData
      <3>q. PICK q : q = attribute_data.pending_attr_data
        OBVIOUS
      <3>1. q \in 1 .. Len(message[n].data) /\ Decoded(Starts(message)[n + 1] - q)
        BY <2>6, <2>n, <3>q DEF InData
      <3>2. Starts(message)[n + 1] - q \in Nat
        <4>d. PICK d : d = Len(message[n].data)
          OBVIOUS
        <4>1. d \in Nat /\ q \in 1 .. d /\ k \in Nat /\ Starts(message)[n + 1] = k + 3 + d
          BY <2>2, <3>1, <4>d
        <4>2. (k + 3 + d) - q \in Nat
          BY <4>1
        <4> QED
          BY <4>1, <4>2
      <3>3. Decoded(Starts(message)[n + 1] - q)'
        BY <1>1, <1>5, <3>1, <3>2
      <3> QED
        BY <2>6, <2>n, <2>s, <3>3, <3>q DEF InData, NoLength
    <2> QED
      BY <1>8, <2>4, <2>5, <2>6
  <1> QED
    BY <1>3, <1>4, <1>6, <1>7, <1>8 DEF Decoding

\* The next fragment: only the first of a message is taken for its header.
LEMMA FragmentStep ==
  ASSUME Sending, Reading, Decoding, Fragment
  PROVE  Sending' /\ Reading' /\ Decoding'
  <1>e. PICK e : e = IF offset + fragment < Len(Bytes(message)) THEN offset + fragment
                     ELSE Len(Bytes(message))
    OBVIOUS
  <1>p. PICK p : p = SubSeq(Bytes(message), offset + 1, e)
    OBVIOUS
  <1>1. /\ offset < Len(Bytes(message)) /\ call = NoCall /\ offset' = e
        /\ UNCHANGED <<shown, message, fragment, emptyEnd>>
        /\ attribute_data' = IF AtHeader(p, attribute_data) THEN [attribute_data EXCEPT !.state = "hdr"]
                             ELSE attribute_data
        /\ call' = [NoCall EXCEPT !.p = p]
    BY <1>e, <1>p DEF Fragment, ancs_handle_data_source_data
  <1>2. /\ e \in Nat /\ offset < e /\ e > 5 /\ e <= Len(Bytes(message)) /\ e - offset \in Nat
        /\ offset + (e - offset) = e
    <2>1. /\ offset \in Nat /\ fragment \in Nat /\ fragment > 5 /\ Len(Bytes(message)) \in Nat
          /\ Len(Bytes(message)) > 5
      BY CallTypes, MessageFacts, ParseAssumption DEF Sending, ANCS_DS_HDR_LEN
    <2> QED
      BY <1>1, <1>e, <2>1
  <1>3. /\ p \in Seq(Octets) /\ Len(p) = e - offset
        /\ \A j \in 1 .. e - offset : p[j] = Bytes(message)[offset + j]
    <2>1. Bytes(message) \in Seq(Octets) /\ offset \in Nat
      BY CallTypes, MessageFacts
    <2>2. p = SubSeq(Bytes(message), offset + 1, offset + (e - offset))
      BY <1>2, <1>p
    <2> QED
      BY <1>2, <2>1, <2>2, PartOf
  <1>4. /\ call' \in Calls /\ call'.p = p /\ call'.count = 0
        /\ call.p = <<>> /\ call.count = 0 /\ Len(<<>>) = 0
    BY <1>1, <1>3 DEF NoCall, Calls
  <1>5. Sending'
    BY <1>1, <1>2 DEF Sending, ANCS_DS_HDR_LEN
  <1>6. attribute_data' \in Decoders
    BY <1>1, CallTypes DEF Decoders
  <1>7. Reading'
    <2>1. e - (e - offset) = offset /\ 0 <= e - offset /\ e - offset <= e
      BY <1>2, CallTypes
    <2> QED
      BY <1>1, <1>3, <1>4, <1>6, <2>1 DEF Reading
  <1>8. \A k : Decoded(k) /\ k \in Nat => k = offset /\ Decoded(k)'
    <2>1. offset \in Nat /\ e + 0 = offset + (e - offset) /\ \A k \in Nat : offset + 0 = k + 0 => k = offset
      BY <1>2, CallTypes
    <2> QED
      BY <1>1, <1>3, <1>4, <2>1 DEF Decoded
  <1>9. p[1] = Bytes(message)[offset + 1]
    <2>1. 1 \in 1 .. e - offset
      BY <1>2, CallTypes
    <2> QED
      BY <1>3, <2>1
  <1>10. CASE AtMessage
    <2>1. offset = 0
      BY <1>4, <1>10 DEF AtMessage
    <2>2. p[1] = 0
      BY <1>9, <2>1, CallTypes, MessageFacts
    <2>3. attribute_data' = [attribute_data EXCEPT !.state = "hdr"]
      BY <1>1, <1>10, <2>2 DEF AtHeader, AtMessage, NoLength, NoData
    <2>4. attribute_data'.state = "hdr" /\ NoLength' /\ NoData'
      BY <1>10, <2>3, CallTypes DEF AtMessage, NoLength, NoData, Decoders
    <2>5. offset' = Len(call'.p)
      BY <1>1, <1>2, <1>3, <1>4, <2>1
    <2> QED
      BY <1>1, <1>4, <1>5, <1>7, <1>10, <2>4, <2>5 DEF Decoding, AtMessage
  <1>11. CASE AtAttribute
    <2>n. PICK n : n = Len(shown)
      OBVIOUS
    <2>1. n \in 0 .. Len(message) /\ Decoded(Starts(message)[n + 1])
      BY <1>11, <2>n DEF AtAttribute, Displayed
    <2>2. /\ Starts(message)[n + 1] \in Nat /\ Starts(message)[n + 1] >= 5
          /\ Starts(message)[1] = 5 /\ Starts(message)[Len(message) + 1] = Len(Bytes(message))
          /\ n # Len(message) => n + 1 \in 1 .. Len(message)
      BY <2>1, CallTypes, EndFacts DEF ANCS_DS_HDR_LEN
    <2>3. Starts(message)[n + 1] = offset /\ Decoded(Starts(message)[n + 1])'
      BY <1>1, <1>8, <2>1, <2>2
    <2>4. n # Len(message)
      BY <1>1, <2>2, <2>3, CallTypes
    <2>5. p[1] = message[n + 1].id
      BY <1>9, <2>2, <2>3, <2>4, CallTypes, AttributeFacts
    <2>6. offset > 5
      BY <2>2, <2>3, CallTypes DEF Sending, ANCS_DS_HDR_LEN
    <2>7. p[1] # 0
      BY <2>2, <2>3, <2>4, <2>5, <2>6, CallTypes, MessageFacts
    <2>8. attribute_data' = attribute_data
      BY <1>1, <2>7 DEF AtHeader
    <2> QED
      BY <1>1, <1>5, <1>7, <1>11, <2>3, <2>8, <2>n DEF Decoding, AtAttribute, NoLength, NoData, Displayed
  <1>12. CASE AtLength \/ AtData \/ InData
    <2>n. PICK n : n = Len(shown)
      OBVIOUS
    <2>k. PICK k : k = Starts(message)[n]
      OBVIOUS
    <2>1. n \in 1 .. Len(message)
      BY <1>12, <2>n DEF AtLength, AtData, InData, Displaying
    <2>2. k \in Nat /\ Starts(message)[n + 1] = k + 3 + Len(message[n].data) /\ Len(message[n].data) \in Nat
      BY <2>1, <2>k, CallTypes, AttributeFacts, MessageFacts
    <2>3. k + 1 \in Nat /\ k + 2 \in Nat /\ k + 3 \in Nat
      BY <2>2
    <2>4. attribute_data' = attribute_data
      BY <1>1, <1>12 DEF AtHeader, AtLength, AtData, InData
    <2>s. /\ UNCHANGED <<attribute_data, shown, message>>
          /\ \A c : Displaying(n, c) => Displaying(n, c)'
      BY <1>1, <2>4 DEF Displaying
    <2>5. CASE AtLength
      <3>1. (Decoded(k + 1) => Decoded(k + 1)') /\ (Decoded(k + 2) => Decoded(k + 2)')
        BY <1>8, <2>3
      <3> QED
        BY <1>5, <1>7, <2>5, <2>n, <2>k, <2>s, <3>1 DEF Decoding, AtLength, NoData
    <2>6. CASE AtData
      <3>1. Decoded(k + 3) => Decoded(k + 3)'
        BY <1>8, <2>3
      <3> QED
        BY <1>5, <1>7, <2>6, <2>n, <2>k, <2>s, <3>1 DEF Decoding, AtData, NoData
    <2>7. CASE InData
      <3>q. PICK q : q = attribute_data.pending_attr_data
        OBVIOUS
      <3>1. q \in 1 .. Len(message[n].data) /\ Decoded(Starts(message)[n + 1] - q)
        BY <2>7, <2>n, <3>q DEF InData
      <3>2. Starts(message)[n + 1] - q \in Nat
        <4>d. PICK d : d = Len(message[n].data)
          OBVIOUS
        <4>1. d \in Nat /\ q \in 1 .. d /\ k \in Nat /\ Starts(message)[n + 1] = k + 3 + d
          BY <2>2, <3>1, <4>d
        <4>2. (k + 3 + d) - q \in Nat
          BY <4>1
        <4> QED
          BY <4>1, <4>2
      <3>3. Decoded(Starts(message)[n + 1] - q)'
        BY <1>1, <1>8, <3>1, <3>2
      <3> QED
        BY <1>5, <1>7, <2>7, <2>n, <2>s, <3>3, <3>q DEF Decoding, InData, NoLength
    <2> QED
      BY <1>12, <2>5, <2>6, <2>7
  <1> QED
    BY <1>10, <1>11, <1>12 DEF Decoding

\* When all of a message was decoded, all of it is displayed, and the decoder is
\* between two attributes unless the last one was empty.
LEMMA MessageEnd ==
  ASSUME Sending, Reading, Decoding, call = NoCall, offset = Len(Bytes(message))
  PROVE  shown = message /\ (AtAttribute \/ Last(message).data = <<>>)
  <1>2. call.p = <<>> /\ call.count = 0 /\ Len(<<>>) = 0
    BY DEF NoCall
  <1>3. /\ Len(Bytes(message)) > 5 /\ message \in Seq(Attributes) /\ Len(message) \in Nat
        /\ message \in AncsMessages /\ Len(Bytes(message)) \in Nat
    BY CallTypes, MessageFacts DEF ANCS_DS_HDR_LEN
  <1>n. PICK n : n = Len(shown)
    OBVIOUS
  <1>4. ASSUME NEW k \in Nat, Decoded(k) PROVE k = Len(Bytes(message))
    BY <1>2, <1>3, <1>4 DEF Decoded
  <1>5. ~AtMessage
    BY <1>2, <1>3 DEF AtMessage
  <1>6. ASSUME Displayed(Len(message)) PROVE shown = message
    <2>1. /\ shown \in Seq(Attributes) /\ Len(shown) = Len(message)
          /\ \A i \in 1 .. Len(message) : shown[i] = message[i]
      BY <1>6 DEF Displayed
    <2> QED
      BY <1>3, <2>1, SeqEqual
  <1>7. CASE AtAttribute
    <2>1. Displayed(n) /\ n \in 0 .. Len(message) /\ Decoded(Starts(message)[n + 1])
      BY <1>7, <1>n DEF AtAttribute, Displayed
    <2>2. /\ Starts(message)[n + 1] \in Nat
          /\ n # Len(message) => Starts(message)[n + 1] < Len(Bytes(message))
      BY <1>3, <2>1, EndFacts
    <2>3. Starts(message)[n + 1] = Len(Bytes(message))
      BY <1>4, <2>1, <2>2
    <2>4. n = Len(message)
      BY <1>3, <2>2, <2>3
    <2> QED
      BY <1>6, <1>7, <2>1, <2>4
  <1>8. CASE AtLength \/ AtData \/ InData
    <2>k. PICK k : k = Starts(message)[n]
      OBVIOUS
    <2>d. PICK d : d = Len(message[n].data)
      OBVIOUS
    <2>1. n \in 1 .. Len(message)
      BY <1>8, <1>n DEF AtLength, AtData, InData, Displaying
    <2>2. /\ k \in Nat /\ Starts(message)[n + 1] = k + 3 + d /\ d \in Nat
          /\ k + 3 + d <= Len(Bytes(message))
      <3>1. d \in Nat
        BY <1>3, <2>1, <2>d, MessageFacts
      <3>2. /\ k \in Nat /\ Starts(message)[n + 1] = k + 3 + d
            /\ Starts(message)[n + 1] <= Len(Bytes(message))
        BY <1>3, <2>1, <2>d, <2>k, AttributeFacts
      <3> QED
        BY <3>1, <3>2
    <2>3. CASE AtLength
      <3>1. Decoded(k + 1) \/ Decoded(k + 2)
        BY <2>3, <1>n, <2>k DEF AtLength
      <3>2. k + 1 = Len(Bytes(message)) \/ k + 2 = Len(Bytes(message))
        <4>1. k + 1 \in Nat /\ k + 2 \in Nat
          BY <2>2
        <4> QED
          BY <1>4, <3>1, <4>1
      <3> QED
        BY <1>3, <2>2, <3>2
    <2>4. CASE AtData
      <3>1. Decoded(k + 3) /\ k + 3 \in Nat /\ Displaying(n, 0)
        BY <2>2, <2>4, <1>n, <2>k DEF AtData
      <3>2. k + 3 = Len(Bytes(message))
        BY <1>4, <3>1
      <3>3. d = 0
        BY <2>2, <3>2
      <3>4. n = Len(message)
        <4>1. ASSUME n # Len(message) PROVE FALSE
          <5>1. n + 1 \in 1 .. Len(message)
            BY <1>3, <2>1, <4>1
          <5>2. Starts(message)[n + 1] < Len(Bytes(message))
            BY <1>3, <5>1, AttributeFacts
          <5> QED
            BY <1>3, <2>2, <3>2, <3>3, <5>2
        <4> QED
          BY <4>1
      <3>5. Displayed(n)
        BY <2>1, <2>d, <3>1, <3>3, DisplayedAll DEF Completed
      <3>6. message[n].data = <<>>
        <4>1. message[n].data \in Seq(Octets)
          BY <1>3, <2>1, MessageFacts DEF Attributes
        <4> QED
          BY <2>d, <3>3, <4>1, EmptySeq
      <3> QED
        BY <1>6, <3>4, <3>5, <3>6 DEF Last
    <2>5. CASE InData
      <3>q. PICK q : q = attribute_data.pending_attr_data
        OBVIOUS
      <3>1. q \in 1 .. d /\ Decoded((k + 3 + d) - q)
        BY <2>2, <2>5, <1>n, <2>d, <3>q DEF InData
      <3>2. (k + 3 + d) - q \in Nat /\ (k + 3 + d) - q < k + 3 + d
        BY <2>2, <3>1
      <3>3. (k + 3 + d) - q = Len(Bytes(message))
        BY <1>4, <3>1, <3>2
      <3> QED
        BY <1>3, <2>2, <3>2, <3>3
    <2> QED
      BY <1>8, <2>3, <2>4, <2>5
  <1> QED
    BY <1>5, <1>7, <1>8 DEF Decoding

\* A message without an empty attribute at its end leaves the decoder at its start.
LEMMA NewMessageStep ==
  ASSUME Sending, Reading, Decoding, NewMessage, ~emptyEnd'
  PROVE  Reading' /\ AtMessage'
  <1>1. /\ call = NoCall /\ offset = Len(Bytes(message))
        /\ offset' = 0 /\ shown' = <<>> /\ UNCHANGED <<attribute_data, call, fragment>>
        /\ Last(message).data # <<>>
    BY DEF NewMessage
  <1>2. call.p = <<>> /\ call.count = 0 /\ Len(<<>>) = 0 /\ call \in Calls
    BY <1>1 DEF NoCall, Calls
  <1>3. AtAttribute
    BY <1>1, MessageEnd
  <1>4. AtMessage'
    BY <1>1, <1>2, <1>3 DEF AtMessage, AtAttribute, NoLength, NoData
  <1>5. Reading'
    BY <1>1, <1>2, CallTypes DEF Reading
  <1> QED
    BY <1>4, <1>5

\* ancs_parse_data, turn by turn.
LEMMA LoopStep ==
  ASSUME Sending, Reading, Decoding, ancs_parse_data
  PROVE  Sending' /\ Reading' /\ Decoding'
  <1>s. \A s, t : attribute_data.state = s /\ attribute_data.state = t => s = t
    OBVIOUS
  <1>0. call = NoCall => ~(call.count < Len(call.p))
    BY DEF NoCall
  <1>1. CASE ParseHdr
    <2>1. AtMessage
      BY <1>1 DEF ParseHdr, ParseLoop, Decoding, AtAttribute, AtLength, AtData, InData
    <2> QED
      BY <1>1, <2>1, HdrStep DEF Decoding
  <1>2. CASE ParseAttrId
    <2>1. AtAttribute
      BY <1>0, <1>2 DEF ParseAttrId, ParseLoop, Decoding, AtMessage, AtLength, AtData, InData
    <2> QED
      BY <1>2, <2>1, AttrIdStep DEF Decoding
  <1>3. CASE ParseAttrLen
    <2>1. AtLength
      BY <1>3 DEF ParseAttrLen, ParseLoop, Decoding, AtMessage, AtAttribute, AtData, InData
    <2> QED
      BY <1>3, <2>1, AttrLenStep DEF Decoding
  <1>4. CASE ParseAttrBegin
    <2>1. attribute_data.state = "attrdata" /\ attribute_data.pending_attr_data = 0
      BY <1>4 DEF ParseAttrBegin, ParseLoop
    <2>2. ~InData
      <3>1. ASSUME InData PROVE FALSE
        <4>1. 0 \in 1 .. Len(message[Len(shown)].data)
          BY <2>1, <3>1 DEF InData
        <4> QED
          BY <4>1
      <3> QED
        BY <3>1
    <2>3. AtData
      BY <2>1, <2>2 DEF Decoding, AtMessage, AtAttribute, AtLength
    <2> QED
      BY <1>4, <2>3, AttrBeginStep DEF Decoding
  <1>5. CASE ParseAttrData
    <2>1. attribute_data.state = "attrdata" /\ attribute_data.pending_attr_data > 0
      BY <1>5 DEF ParseAttrData, ParseLoop
    <2>2. InData
      BY <2>1 DEF Decoding, AtMessage, AtAttribute, AtLength, AtData, NoData
    <2> QED
      BY <1>5, <2>2, AttrDataStep DEF Decoding
  <1>6. CASE ParseEnd
    BY <1>6, EndStep DEF Decoding
  <1> QED
    BY <1>1, <1>2, <1>3, <1>4, <1>5, <1>6 DEF ancs_parse_data

\* What is sent, whatever the decoder makes of it.
LEMMA SendingStep == Sending /\ [ParseNext]_parseVars => Sending'
  <1> SUFFICES ASSUME Sending, [ParseNext]_parseVars PROVE Sending'
    OBVIOUS
  <1>0. /\ message \in AncsMessages /\ fragment \in FragmentSizes /\ offset \in Nat
        /\ Len(Bytes(message)) \in Nat /\ Len(Bytes(message)) > 5 /\ fragment \in Nat /\ fragment > 5
        /\ emptyEnd \in BOOLEAN
    BY MessageFacts, ParseAssumption DEF Sending, ANCS_DS_HDR_LEN
  <1>1. CASE Fragment
    <2>e. PICK e : e = IF offset + fragment < Len(Bytes(message)) THEN offset + fragment
                       ELSE Len(Bytes(message))
      OBVIOUS
    <2>1. offset' = e /\ UNCHANGED <<message, fragment, emptyEnd>>
      BY <1>1, <2>e DEF Fragment
    <2>2. e \in 0 .. Len(Bytes(message)) /\ e > 5
      BY <1>0, <2>e
    <2> QED
      BY <1>0, <2>1, <2>2 DEF Sending, ANCS_DS_HDR_LEN
  <1>2. CASE ancs_parse_data
    <2>1. UNCHANGED <<message, offset, fragment, emptyEnd>>
      BY <1>2 DEF ancs_parse_data, ParseHdr, ParseAttrId, ParseAttrLen, ParseAttrBegin,
                  ParseAttrData, ParseEnd, ParseLoop
    <2> QED
      BY <2>1 DEF Sending
  <1>3. CASE NewMessage \/ LinkLost
    <2>1. /\ message' \in AncsMessages /\ offset' = 0 /\ fragment' \in FragmentSizes
          /\ emptyEnd' \in BOOLEAN
      BY <1>0, <1>3 DEF NewMessage, LinkLost
    <2>2. Len(Bytes(message')) \in Nat
      BY <2>1, MessageFacts
    <2>3. 0 \in 0 .. Len(Bytes(message'))
      BY <2>2
    <2> QED
      BY <2>1, <2>3 DEF Sending
  <1>4. CASE UNCHANGED parseVars
    BY <1>4 DEF parseVars, Sending
  <1> QED
    BY <1>1, <1>2, <1>3, <1>4 DEF ParseNext

\* A decoder that was cleared, before the first fragment.
LEMMA ClearedFacts ==
  /\ Cleared \in Decoders /\ Cleared.state = "hdr" /\ Cleared.attr_len = 0
  /\ ~Cleared.pending_len /\ Cleared.pending_attr_data = 0
  /\ NoCall \in Calls /\ NoCall.p = <<>> /\ NoCall.count = 0 /\ Len(<<>>) = 0
  BY DEF Cleared, Decoders, NoCall, Calls

LEMMA ParseInvStep == ParseInv /\ [ParseNext]_parseVars => ParseInv'
  <1> SUFFICES ASSUME ParseInv, [ParseNext]_parseVars, ~emptyEnd' PROVE Reading' /\ Decoding'
    BY SendingStep DEF ParseInv, Decoding
  <1>1. Sending /\ (~emptyEnd => Reading /\ Decoding)
    BY DEF ParseInv, Decoding
  <1>2. CASE Fragment
    <2>1. ~emptyEnd
      BY <1>2 DEF Fragment
    <2> QED
      BY <1>1, <1>2, <2>1, FragmentStep DEF Decoding
  <1>3. CASE ancs_parse_data
    <2>1. ~emptyEnd
      BY <1>3 DEF ancs_parse_data, ParseHdr, ParseAttrId, ParseAttrLen, ParseAttrBegin,
                  ParseAttrData, ParseEnd, ParseLoop
    <2> QED
      BY <1>1, <1>3, <2>1, LoopStep
  <1>4. CASE NewMessage
    <2>1. ~emptyEnd
      BY <1>4 DEF NewMessage
    <2> QED
      BY <1>1, <1>4, <2>1, NewMessageStep DEF Decoding
  <1>5. CASE LinkLost
    <2>1. /\ attribute_data' = Cleared /\ call' = NoCall /\ shown' = <<>> /\ offset' = 0
      BY <1>5 DEF LinkLost
    <2> QED
      BY <2>1, ClearedFacts DEF Reading, Decoding, AtMessage, NoLength, NoData
  <1>6. CASE UNCHANGED parseVars
    <2>1. ~emptyEnd
      BY <1>6 DEF parseVars
    <2> QED
      BY <1>1, <1>6, <2>1 DEF parseVars, Reading, Decoding, AtMessage, AtAttribute, AtLength, AtData,
         InData, NoLength, NoData, Displayed, Displaying, Decoded
  <1> QED
    BY <1>2, <1>3, <1>4, <1>5, <1>6 DEF ParseNext

LEMMA ParseInvInit == ParseInit => ParseInv
  <1> SUFFICES ASSUME ParseInit PROVE ParseInv
    OBVIOUS
  <1>1. /\ attribute_data = Cleared /\ call = NoCall /\ shown = <<>> /\ offset = 0
        /\ message \in AncsMessages /\ fragment \in FragmentSizes /\ emptyEnd = FALSE
    BY DEF ParseInit
  <1>2. 0 \in 0 .. Len(Bytes(message))
    BY <1>1, MessageFacts
  <1>3. Sending
    BY <1>1, <1>2 DEF Sending
  <1>4. Reading /\ AtMessage
    BY <1>1, ClearedFacts DEF Reading, AtMessage, NoLength, NoData
  <1> QED
    BY <1>3, <1>4 DEF ParseInv, Decoding

LEMMA ParseInvDecoded == ParseInv => DecodedAsSent
  BY MessageEnd DEF ParseInv, Decoding, DecodedAsSent

\* ancs_parse_data: for all messages and all sizes of the notifications, wherever a
\* fragment ends and whatever link was lost before, the attributes displayed are
\* those the phone sent, unless an earlier message ended with an empty one.
THEOREM AncsDecodedAsSent == ParseSpec => []DecodedAsSent
  BY ParseInvInit, ParseInvStep, ParseInvDecoded, PTL DEF ParseSpec
=============================================================================
