----------------------------- MODULE UartModule -----------------------------
(***************************************************************************)
(* The serial port of the Bluetooth module (samples/ble_module: act_data.c,*)
(* at_cmd.c, uart_pipe.c).  Without a link the port takes command lines,   *)
(* with a link it takes data for the peer, in which a few commands are     *)
(* still recognised.                                                       *)
(*                                                                         *)
(* Five parties: the interrupts of the UART and of the timer for partial   *)
(* packets, the data thread, the command thread, and the BT RX thread,     *)
(* which switches the port when a link comes and goes.                     *)
(*                                                                         *)
(* A byte has its number, among the data or among all bytes and links, and *)
(* what it stands for: "x" any data, "A", "D" and "E" the parts of         *)
(* AT+DISCONNECT (AT+DISCON is <<A, D>>), "O" the command AT+OTA, "N" the  *)
(* command AT+NAME, "r" and "n" the line ends, "t" the text of a line.     *)
(***************************************************************************)
EXTENDS Naturals, Sequences, SequencesExt

CONSTANTS ACT_DATA_MTU, DATA_QUEUED, MAX_CMD_QUEUED,
          NAME_MAX,      \* the room for a name
          Nothing,       \* no packet, no line
          MaxBytes,      \* bound: the bytes that arrive
          MaxConnections \* bound

Chars == {"x", "A", "D", "E", "O", "N", "r", "n", "t"}
PortBytes == [n : Nat, c : Chars]

ASSUME UartAssumption ==
    /\ {ACT_DATA_MTU, MAX_CMD_QUEUED, NAME_MAX} \subseteq Nat \ {0}
    /\ DATA_QUEUED \in Nat \ {0, 1}
    /\ {MaxBytes, MaxConnections} \subseteq Nat
    /\ Nothing \notin Seq(PortBytes)

VARIABLES
    irq,        \* the callback of the UART interrupt: "cmd" or "data"
    uconn,      \* app_cb.pconn is set
    switching,  \* enter_into_data_mode is between its two steps
    role,
    unsent,     \* history: the data that act_data_rx_isr has read and nobody has sent
    recv_buf,   \* the bytes of the buffer being filled
    partial,    \* send_partial_timer_started; the timer runs
    free,       \* the number of buffers in avail_queue of act_data.c
    datas,      \* datas_queue
    packet,     \* what the data thread is working on
    match_cnt,  \* at_disconn_match_cnt
    name,       \* at_name_getting, at_name_get_r, ad_name, the name stored
    cmd,        \* avail_queue of at_cmd.c, input_cmd, cmds_queue, the command thread
    nbyte,      \* the bytes that arrived in either mode
    connections,
    trouble     \* history: the reasons why data may be lost
dataVars == <<unsent, recv_buf, partial, free, datas, packet, match_cnt, name>>
portVars == <<irq, uconn, switching, connections>>
uartVars == <<portVars, role, dataVars, cmd, nbyte, trouble>>

NoName == [getting |-> FALSE, r |-> FALSE, buf |-> <<>>, stored |-> <<>>, start |-> 0, ended |-> FALSE]

UartInit ==
    /\ irq = "cmd" /\ uconn = FALSE /\ switching = FALSE /\ connections = 0
    /\ role \in {"SLAVE", "MASTER"}
    /\ unsent = <<>> /\ recv_buf = <<>> /\ partial = FALSE
    /\ free = DATA_QUEUED - 1 /\ datas = <<>> /\ packet = Nothing
    /\ match_cnt = 0 /\ name = NoName
    /\ cmd = [avail |-> MAX_CMD_QUEUED, input |-> Nothing, queue |-> <<>>, busy |-> Nothing]
    /\ nbyte = [cmd |-> 0, data |-> 0]
    /\ trouble = {}

Number == IF irq = "data" THEN nbyte.data ELSE nbyte.cmd + nbyte.data + connections
Byte(c) == [n |-> Number + 1, c |-> c]
Arrives == nbyte.cmd + nbyte.data < MaxBytes /\ nbyte' = [nbyte EXCEPT ![irq] = @ + 1]
Plain(s) == FlattenSeq([i \in DOMAIN s |-> IF s[i].c = "x" THEN <<s[i]>> ELSE <<>>])

\* Data may be lost for this reason: nothing is expected of them any more.
Excuse(why) == trouble' = trouble \cup why
StillOwed(s) == unsent' = IF trouble' = {} THEN s ELSE <<>>

-----------------------------------------------------------------------------
(***************************************************************************)
(* act_data.c, the interrupts.                                             *)
(***************************************************************************)
Collecting(buf, rx_abort) == Len(buf) < ACT_DATA_MTU /\ ~rx_abort

TimerRunsLate(buf) == partial \/ Len(buf) > 1
TimerRuns(buf) == partial \/ Len(buf) > 0

\* recv_cb with the bytes buf in the current buffer: a full or timed out buffer
\* is queued and a free one taken, or else the bytes are thrown away.
recv_cb(buf, rx_abort) ==
    IF Collecting(buf, rx_abort)
    THEN /\ recv_buf' = buf
         /\ partial' = TimerRuns(buf)
         /\ Excuse({}) /\ UNCHANGED <<free, datas>>
    ELSE /\ recv_buf' = <<>>
         /\ partial' = FALSE
         /\ IF free > 0
            THEN free' = free - 1 /\ datas' = Append(datas, buf) /\ Excuse({})
            ELSE Excuse({"overrun"}) /\ UNCHANGED <<free, datas>>

act_data_rx_isr(c) ==
    /\ irq = "data"
    /\ Arrives
    /\ recv_cb(Append(recv_buf, Byte(c)), FALSE)
    /\ StillOwed(unsent \o Plain(<<Byte(c)>>))
    /\ UNCHANGED <<portVars, role, packet, match_cnt, name, cmd>>

\* send_partial_handler; the timer is not stopped when the link is lost.
send_partial_handler ==
    /\ partial
    /\ recv_cb(recv_buf, TRUE)
    /\ StillOwed(unsent)
    /\ UNCHANGED <<portVars, role, packet, match_cnt, name, cmd, nbyte>>

-----------------------------------------------------------------------------
(***************************************************************************)
(* act_data.c, the data thread.                                            *)
(***************************************************************************)
TakePacket ==
    /\ packet = Nothing /\ datas # <<>>
    /\ packet' = Head(datas)
    /\ datas' = Tail(datas)
    /\ UNCHANGED <<portVars, role, unsent, recv_buf, partial, free, match_cnt, name, cmd, nbyte,
                   trouble>>

PacketDone == packet' = Nothing /\ free' = free + 1
PortKept == UNCHANGED <<portVars, recv_buf, partial, datas, cmd, nbyte>>

\* ble_send_data of the rest of the packet, which may fail.
Send(rest, why) ==
    \/ /\ Excuse(why)
       /\ StillOwed(SubSeq(unsent, Len(Plain(rest)) + 1, Len(unsent)))
    \/ /\ rest # <<>>
       /\ Excuse(why \cup {"refused"})
       /\ StillOwed(unsent)

\* The link is gone: the packet is dropped.
DropPacket ==
    /\ packet # Nothing /\ ~uconn
    /\ PacketDone
    /\ Excuse({"no link"})
    /\ StillOwed(unsent)
    /\ UNCHANGED <<role, match_cnt, name>> /\ PortKept

\* The first len bytes of p behind what the name has so far, cut to its room.
CopiedAnew(buf, p, len) == SubSeq(p, 1, IF len < NAME_MAX THEN len ELSE NAME_MAX)
Copied(buf, p, len) ==
    LET room == NAME_MAX - Len(buf)
    IN  buf \o SubSeq(p, 1, IF len < room THEN len ELSE room)

\* at_name_get: how many bytes of p belong to the name, and the name.
at_name_get(nm, p) ==
    LET ends == {i \in DOMAIN p : p[i].c = "n" \/ (p[i].c = "r" /\ ~nm.r)}
        i == CHOOSE j \in ends : \A k \in ends : j <= k
        copied(len) == Copied(nm.buf, p, len)
        finish(buf, ended) ==
            [nm EXCEPT !.getting = FALSE, !.buf = buf, !.stored = buf, !.ended = ended]
    IN  CASE ends = {} /\ nm.r -> [used |-> 0, nm |-> finish(nm.buf, TRUE)]
          [] ends = {} /\ ~nm.r ->
                [used |-> Len(p), nm |-> IF copied(Len(p)) = nm.buf THEN finish(nm.buf, FALSE)
                                         ELSE [nm EXCEPT !.buf = copied(Len(p))]]
          [] ends # {} /\ p[i].c = "r" /\ i = Len(p) ->
                [used |-> i, nm |-> [nm EXCEPT !.buf = copied(i - 1), !.r = TRUE]]
          [] ends # {} /\ p[i].c = "r" /\ i < Len(p) ->
                [used |-> IF p[i + 1].c = "n" THEN i + 1 ELSE i,
                 nm |-> [finish(copied(i - 1), TRUE) EXCEPT !.r = TRUE]]
          [] OTHER -> [used |-> i, nm |-> finish(copied(i - 1), ~nm.r \/ i = 1)]

NewName(first) ==
    [NoName EXCEPT !.getting = TRUE, !.stored = name.stored, !.start = first.n]

RestLessOne(start) == SubSeq(packet, start + 2, Len(packet))
Rest(start) == SubSeq(packet, start + 1, Len(packet))

\* The slave: AT+NAME starts a name, which ends in this or a later packet.
SlavePacket ==
    /\ packet # Nothing /\ uconn /\ role = "SLAVE"
    /\ LET found == ~name.getting /\ packet # <<>> /\ packet[1].c = "N"
           g == CASE found -> at_name_get(NewName(packet[1]), Tail(packet))
                  [] name.getting -> at_name_get(name, packet)
                  [] OTHER -> [used |-> 0, nm |-> name]
           start == IF found THEN g.used + 1 ELSE g.used
       IN  /\ name' = g.nm
           /\ Send(Rest(start),
                   IF found \/ name.getting THEN {"command"} ELSE {})
    /\ PacketDone
    /\ UNCHANGED <<role, match_cnt>> /\ PortKept

\* at_ota_match: match_len is not initialised, so that a packet may be taken for
\* AT+OTA when only a part of it matches, or not when all of it does.
OtaPacket ==
    /\ packet # Nothing /\ uconn /\ role = "MASTER"
    /\ packet # <<>> /\ packet[1].c \in {"O", "A"}
    /\ role' = "SLAVE"
    /\ Send(<<>>, {"command"})
    /\ PacketDone
    /\ UNCHANGED <<match_cnt, name>> /\ PortKept

DisconnectCmd == <<"A", "D", "E">>

\* at_disconn_match: the match goes on where the last packet ended.
Matched(p) ==
    LET ok == {k \in 0 .. Len(p) : \A i \in 1 .. k :
                   match_cnt + i <= Len(DisconnectCmd) /\ p[i].c = DisconnectCmd[match_cnt + i]}
    IN  CHOOSE k \in ok : \A j \in ok : j <= k

MasterPacket ==
    /\ packet # Nothing /\ uconn /\ role = "MASTER"
    /\ LET k == Matched(packet)
           total == match_cnt + k
       IN  \/ /\ total = Len(DisconnectCmd) \/ (k < Len(packet) /\ total >= 2)
              /\ match_cnt' = 0
              /\ Send(<<>>, {"command"})
           \/ /\ total < 2 /\ k < Len(packet)
              /\ match_cnt' = 0
              /\ Send(packet, {})
           \/ /\ total < Len(DisconnectCmd) /\ k = Len(packet)
              /\ match_cnt' = total
              /\ Send(<<>>, {})
    /\ PacketDone
    /\ UNCHANGED <<role, name>> /\ PortKept

-----------------------------------------------------------------------------
(***************************************************************************)
(* at_cmd.c.                                                               *)
(***************************************************************************)
\* at_cmd_rx_isr: a byte is lost if all buffers are in use.
at_cmd_rx_isr(c) ==
    LET line == IF cmd.input = Nothing THEN <<>> ELSE cmd.input
        left == IF cmd.input = Nothing THEN cmd.avail - 1 ELSE cmd.avail
    IN  /\ irq = "cmd"
        /\ Arrives
        /\ cmd' = CASE cmd.input = Nothing /\ cmd.avail = 0 -> cmd
                    [] c = "n" /\ ~(cmd.input = Nothing /\ cmd.avail = 0) ->
                          [cmd EXCEPT !.avail = left, !.input = Nothing, !.queue = Append(@, line)]
                    [] OTHER -> [cmd EXCEPT !.avail = left, !.input = Append(line, Byte(c))]
        /\ UNCHANGED <<portVars, role, dataVars, trouble>>

\* at_cmd_handler
TakeLine ==
    /\ cmd.busy = Nothing /\ cmd.queue # <<>>
    /\ cmd' = [cmd EXCEPT !.busy = Head(cmd.queue), !.queue = Tail(@)]
    /\ UNCHANGED <<portVars, role, dataVars, nbyte, trouble>>

\* at_cmd_exec, unless there is a link (what the commands do is not modelled).
ExecLine ==
    /\ cmd.busy # Nothing
    /\ cmd' = [cmd EXCEPT !.busy = Nothing, !.avail = @ + 1]
    /\ UNCHANGED <<portVars, role, dataVars, nbyte, trouble>>

-----------------------------------------------------------------------------
(***************************************************************************)
(* The BT RX thread.                                                       *)
(***************************************************************************)
\* connected: enter_into_data_mode sets the callback, ...
UartConnected ==
    /\ ~uconn /\ ~switching /\ connections < MaxConnections
    /\ uconn' = TRUE
    /\ connections' = connections + 1
    /\ irq' = "data"
    /\ switching' = TRUE
    /\ UNCHANGED <<role, dataVars, cmd, nbyte, trouble>>

\* ... and then clears the buffer, with what has come in since.
ClearData ==
    /\ switching
    /\ switching' = FALSE
    /\ recv_buf' = <<>>
    /\ Excuse(IF recv_buf # <<>> THEN {"cleared"} ELSE {})
    /\ StillOwed(unsent)
    /\ UNCHANGED <<irq, uconn, connections, role, partial, free, datas, packet, match_cnt,
                   name, cmd, nbyte>>

LineLost == [cmd EXCEPT !.input = Nothing]

\* enter_into_at_cmd_mode gives an unfinished line to the command thread, emptied.
LineGivenBack ==
    IF cmd.input = Nothing THEN cmd
    ELSE [cmd EXCEPT !.input = Nothing, !.queue = Append(@, <<>>)]

\* disconnected
UartDisconnected ==
    /\ uconn /\ ~switching
    /\ uconn' = FALSE
    /\ irq' = "cmd"
    /\ cmd' = LineGivenBack
    /\ UNCHANGED <<switching, connections, role, dataVars, nbyte, trouble>>

UartThreads ==
    \/ TakePacket \/ DropPacket \/ SlavePacket \/ OtaPacket \/ MasterPacket
    \/ TakeLine \/ ExecLine
UartNext ==
    \/ \E c \in IF role = "SLAVE" THEN {"x", "N", "r", "n"} ELSE {"x", "A", "D", "E", "O"} :
          act_data_rx_isr(c)
    \/ send_partial_handler
    \/ \E c \in {"t", "n"} : at_cmd_rx_isr(c)
    \/ UartConnected \/ ClearData \/ UartDisconnected
    \/ UartThreads

UartSpec == UartInit /\ [][UartNext]_uartVars

-----------------------------------------------------------------------------
\* The variables have their types.
UartTypeOK ==
    /\ irq \in {"cmd", "data"} /\ role \in {"SLAVE", "MASTER"}
    /\ Len(recv_buf) < ACT_DATA_MTU
    /\ free \in 0 .. DATA_QUEUED - 1
    /\ match_cnt \in 0 .. Len(DisconnectCmd) - 1
    /\ Len(name.buf) <= NAME_MAX

One(x) == IF x = Nothing THEN 0 ELSE 1

\* recv_cb and enter_into_at_cmd_mode move buffers between interrupts and
\* threads: none is lost and none is in two places, however often the port
\* changes its mode in the middle of a line or of a packet.
BuffersConserved ==
    /\ free + Len(datas) + One(packet) + 1 = DATA_QUEUED
    /\ cmd.avail + Len(cmd.queue) + One(cmd.input) + One(cmd.busy) = MAX_CMD_QUEUED

InFlight == (IF packet = Nothing THEN <<>> ELSE packet) \o FlattenSeq(datas) \o recv_buf

\* data_handler, recv_cb: data that were read and not yet sent are in the
\* buffers, in order, whatever packets they arrive in: none is lost, repeated or
\* overtaken; unless the pool was empty, the peer refused them, a command was
\* recognised, the link was gone or ClearData came in between.
Transparent == trouble = {} => Plain(InFlight) = unsent

\* at_name_get: a name that was ended by its line end is what followed AT+NAME,
\* or the beginning of that, however it was split into packets and whatever
\* names came before; unless data were lost or something stood between the
\* carriage return and the line end.
NameAsTyped ==
    name.ended /\ trouble = {"command"} =>
        \A i \in DOMAIN name.stored : name.stored[i].n = name.start + i

\* recv_cb: a byte that has been read does not wait for others for ever: the
\* timer for partial packets runs, however links and packets changed meanwhile.
PartialIsTimed == recv_buf # <<>> => partial
=============================================================================
