------------------------------- MODULE OtaFt --------------------------------
(***************************************************************************)
(* The over-the-air update service (ext/lib/actions/ota): a client reads,  *)
(* writes, erases and verifies ranges of the flash over BLE.               *)
(*                                                                         *)
(* Two threads share the control block otaCb without a lock.  The client's *)
(* writes are handled in the BT RX thread, which is cooperative: the main  *)
(* thread runs only while the RX thread has nothing to do or waits for a   *)
(* message buffer.  Everything that is sent to the client is sent by the   *)
(* main loop, from events the RX thread queues (ota_send_event).  The main *)
(* thread is preemptible: the RX thread can run between any two of its     *)
(* accesses to otaCb, so its handlers are split into the steps below.      *)
(*                                                                         *)
(* The queue is the one MsgManager implements: ota_send_event waits 100 ms *)
(* for a buffer and drops the event when there is none.                    *)
(***************************************************************************)
EXTENDS Integers, Sequences, FiniteSets

CONSTANTS
    Files,     \* the ranges [addr, len] the client asks for
    Table,     \* the range of the partition table (GET of handle 0)
    Chunk,     \* bytes in one data packet to the client (20 in the code)
    Width,     \* 2^32 in the code: the modulus of ft_addr, ft_len and counts
    CountWidth, \* 2^16 in the code: the modulus of the count acknowledged
    SyncBufs,  \* buffers of the sync message pool (8 in the code)
    Requests,  \* which requests this client makes
    Polite,    \* whether it waits for the answer before the next request
    OtherMsgs, \* whether other parts of the application queue messages too
    MaxLinks   \* bound: how many connections are made

FlashRange == [addr : 0..Width-1, len : 0..Width-1]

\* The ranges are inside the flash: no address wraps around.
ASSUME FilesAssumption == /\ Files \subseteq FlashRange /\ Table \in FlashRange
                          /\ \A f \in Files \cup {Table} : f.addr + f.len < Width
ASSUME BoundsAssumption ==
    /\ Chunk \in Nat \ {0} /\ Width \in Nat \ {0} /\ SyncBufs \in Nat \ {0}
    /\ MaxLinks \in Nat /\ CountWidth \in 1..Width
ASSUME ClientAssumption ==
    /\ Requests \subseteq {"GET", "PUT", "DATA", "VERIFY", "ERASE", "VERSION",
                           "ABORT", "RESET", "PARAM", "INVALID"}
    /\ Polite \in BOOLEAN /\ OtherMsgs \in BOOLEAN

VARIABLES
    (* struct otaCb_t, and ota_need_reset *)
    tx_ready_mask,   \* the bits that are set, among "FTC" and "ASYNC"
    ft_addr, ft_len, \* where the current operation continues, what remains
    ft_in_progress,  \* "NONE", "GET" or "PUT"
    pending_count,   \* bytes of this PUT written to the flash
    send_count,      \* of those, bytes acknowledged to the client
    ftc_msg_buf,     \* the response being set up: operation and status
    conn,            \* whether otaCb.conn was ever set
    wakeup_flag, wake_lock,
    ota_need_reset,
    (* the threads *)
    msg_queue,       \* the events queued for the main loop
    rx,              \* what the RX thread's current handler still has to do
    rx_waits,        \* it waits for a message buffer
    main,            \* the main loop: step, and the locals of its handler
    (* the rest of the world *)
    flash,           \* the addresses that hold the client's data
    ccc,             \* notifications the client enabled, among "FTC", "FTD"
    links,           \* connections made so far, the state of the last one
    client,          \* what the client knows
    (* history *)
    job,             \* the range of the last operation that was accepted
    dropped          \* an event was dropped for want of a buffer

ft == <<ft_addr, ft_len, ft_in_progress>>
counts == <<pending_count, send_count>>
wake == <<wakeup_flag, wake_lock>>
otaCb == <<tx_ready_mask, ft, counts, ftc_msg_buf, conn, wake, ota_need_reset>>
world == <<flash, ccc, links, client>>
history == <<job, dropped>>
vars == <<otaCb, msg_queue, rx, rx_waits, main, world, history>>

Responses == {"GET_RSP", "PUT_RSP", "VERIFY_RSP", "ERASE_RSP", "VERSION_RSP", "EOF"}
Statuses == {"SUCCESS", "IN_PROGRESS", "VERIFICATION"}
Response == [op : Responses, status : Statuses]
Events == {"FTC", "ASYNC", "FTD", "PARAM", "DISCONNECT", "APP"}

\* Zeroed memory, as a response and as a range.
ZeroMsg == [op |-> "EOF", status |-> "SUCCESS"]
ZeroRange == [addr |-> 0, len |-> 0]

\* Work of the RX thread: an event to queue or a response to set up.
Ev(e) == [ev |-> e, rsp |-> ZeroMsg]
Rsp(op, status) == [ev |-> "RSP", rsp |-> [op |-> op, status |-> status]]
Work == [ev : Events \cup {"RSP"}, rsp : Response]

\* The main loop's step, and the locals of its handler: the length and the
\* counter it read, and tx_ready_mask between its load and its store.
Idle == [pc |-> "idle", n |-> 0, p |-> 0, mask |-> {}]
Steps == {"idle", "disconnect", "ftc_send", "ftc_load", "ftc_store",
          "async_check", "async_count", "async_send", "async_load", "async_store",
          "ftd_read", "ftd_update", "ftd_notify", "ftd_next", "ftd_load",
          "ftd_store", "ftd_queue", "rsp_check", "rsp_build", "rsp_queue"}
Frame == [pc : Steps, n : 0..Width-1, p : 0..Width-1, mask : SUBSET {"FTC", "ASYNC"}]
At(step) == main.pc = step
Goto(step) == main' = [main EXCEPT !.pc = step]

\* The client: its last transfer, the answers it still waits for, the bytes of
\* its PUT it has yet to write, bytes acknowledged and received so far, and
\* whether the end of file was reported to it.
NoClient == [op |-> "none", file |-> ZeroRange, await |-> {},
             left |-> 0, acked |-> 0, got |-> 0, done |-> FALSE]

Knowledge == [op : {"none", "get", "put"}, file : FlashRange,
              await : SUBSET Responses, left : 0..Width-1,
              acked : 0..Width-1, got : 0..Width-1, done : BOOLEAN]

\* Only a polite client keeps this record: what any other one knows does not
\* restrict what it does.
Learns(c) == client' = IF Polite THEN c ELSE NoClient

\* The types of the control block, of the flags, of the threads and of the
\* rest.  The wake lock is held exactly while wakeup_flag is set.
TypeCb ==
    /\ tx_ready_mask \in SUBSET {"FTC", "ASYNC"}
    /\ ft_addr \in 0..Width-1 /\ ft_len \in 0..Width-1
    /\ ft_in_progress \in {"NONE", "GET", "PUT"}
    /\ pending_count \in 0..Width-1 /\ send_count \in 0..Width-1
    /\ ftc_msg_buf \in Response

TypeFlags ==
    /\ conn \in BOOLEAN /\ ota_need_reset \in BOOLEAN
    /\ rx_waits \in BOOLEAN /\ dropped \in BOOLEAN /\ wakeup_flag \in BOOLEAN
    /\ (wakeup_flag => wake_lock = 1) /\ (~wakeup_flag => wake_lock = 0)

TypeThreads ==
    /\ msg_queue \in Seq(Events) /\ Len(msg_queue) <= SyncBufs
    /\ rx \in Seq(Work) /\ (rx_waits => rx # <<>> /\ Head(rx).ev # "RSP")
    /\ main \in Frame

TypeWorld ==
    /\ flash \subseteq Nat
    /\ ccc \in SUBSET {"FTC", "FTD"}
    /\ links \in [made : 0..MaxLinks, state : {"down", "up", "closing"}]
    /\ client \in Knowledge
    /\ job \in FlashRange

\* The type invariant; the wake lock is taken once however many writes come.
TypeOK == TypeCb /\ TypeFlags /\ TypeThreads /\ TypeWorld

\* ota_profile_init, with all RAM zeroed.
InitRam ==
    /\ tx_ready_mask = {} /\ ft_addr = 0 /\ ft_len = 0 /\ ft_in_progress = "NONE"
    /\ pending_count = 0 /\ send_count = 0 /\ ftc_msg_buf = ZeroMsg
    /\ conn = FALSE /\ wakeup_flag = FALSE /\ wake_lock = 0
    /\ ota_need_reset = FALSE
    /\ msg_queue = <<>> /\ rx = <<>> /\ rx_waits = FALSE /\ main = Idle
    /\ ccc = {} /\ client = NoClient
    /\ job = ZeroRange /\ dropped = FALSE

Init == InitRam /\ flash = {} /\ links = [made |-> 0, state |-> "down"]

Add(a, b) == (a + b) % Width
Sub(a, b) == (a - b) % Width
Cells(f) == f.addr .. f.addr + f.len - 1

Room == Len(msg_queue) < SyncBufs
Connected == links.state # "down"

(***************************************************************************)
(* BT RX thread: the write handlers.  Each runs to its first queue access  *)
(* at once; rx lists the rest of it.                                       *)
(***************************************************************************)
\* A request reaches write_ota.  A polite client has enabled notifications
\* and has got every answer it waits for.
Writes(r) ==
    /\ r \in Requests
    /\ Connected /\ rx = <<>>
    /\ Polite => ccc = {"FTC", "FTD"}

Asks(r) == Writes(r) /\ (Polite => client.await = {})

\* ota_write_cback keeps the system awake for two minutes (mutant: it takes
\* the wake lock on every write).
WakeAlways == wakeup_flag' = TRUE /\ wake_lock' = wake_lock + 1
Wake ==
    /\ wakeup_flag' = TRUE
    /\ wake_lock' = IF wakeup_flag THEN wake_lock ELSE wake_lock + 1

Expect(op, f, answers, left) ==
    Learns([op |-> op, file |-> f, await |-> answers, left |-> left,
            acked |-> 0, got |-> 0, done |-> FALSE])

SetUp(f, op) ==
    /\ ft_addr' = f.addr /\ ft_len' = f.len /\ ft_in_progress' = op
    /\ job' = f

\* "verify operation not already in progress".
Busy == ft_in_progress # "NONE"

ota_ftc_proc_get_req(file, zero) ==
    LET f == IF zero THEN Table ELSE file IN
    /\ Asks("GET") /\ Wake
    /\ Expect("get", f, {"GET_RSP", "EOF"}, 0)
    /\ IF Busy THEN /\ rx' = <<Rsp("GET_RSP", "IN_PROGRESS")>>
                    /\ UNCHANGED <<ft, job, conn>>
               ELSE /\ SetUp(f, "GET")
                    /\ rx' = <<Rsp("GET_RSP", "SUCCESS"), Ev("FTD")>>
                    /\ conn' = TRUE
    /\ UNCHANGED <<tx_ready_mask, counts, ftc_msg_buf, ota_need_reset, msg_queue,
                   rx_waits, main, flash, ccc, links, dropped>>

ota_ftc_proc_put_req(f) ==
    /\ Asks("PUT") /\ Wake
    /\ Expect("put", f, {"PUT_RSP", "EOF"}, f.len)
    /\ IF Busy THEN /\ rx' = <<Rsp("PUT_RSP", "IN_PROGRESS")>>
                    /\ UNCHANGED <<ft, job, counts>>
               ELSE /\ SetUp(f, "PUT")
                    /\ pending_count' = 0 /\ send_count' = 0
                    /\ rx' = <<Rsp("PUT_RSP", "SUCCESS")>>
    /\ UNCHANGED <<tx_ready_mask, ftc_msg_buf, conn, ota_need_reset, msg_queue,
                   rx_waits, main, flash, ccc, links, dropped>>

\* The client expects the range to hold the data it wrote: that is the CRC it
\* sends along.
ota_ftc_proc_verify_req(f) ==
    /\ Asks("VERIFY") /\ Wake
    /\ Expect("none", f, {"VERIFY_RSP"}, 0)
    /\ IF Busy THEN /\ rx' = <<Rsp("VERIFY_RSP", "IN_PROGRESS")>>
                    /\ UNCHANGED <<ft, job>>
               ELSE /\ SetUp(f, "NONE")
                    /\ rx' = <<Rsp("VERIFY_RSP", IF Cells(f) \subseteq flash
                                                 THEN "SUCCESS" ELSE "VERIFICATION")>>
    /\ UNCHANGED <<tx_ready_mask, counts, ftc_msg_buf, conn, ota_need_reset,
                   msg_queue, rx_waits, main, flash, ccc, links, dropped>>

ota_ftc_proc_erase_req(f) ==
    /\ Asks("ERASE") /\ Wake
    /\ Expect("none", f, {"ERASE_RSP"}, 0)
    /\ IF Busy THEN /\ rx' = <<Rsp("ERASE_RSP", "IN_PROGRESS")>>
                    /\ UNCHANGED <<ft, job, flash>>
               ELSE /\ SetUp(f, "NONE")
                    /\ flash' = flash \ Cells(f)
                    /\ rx' = <<Rsp("ERASE_RSP", "SUCCESS")>>
    /\ UNCHANGED <<tx_ready_mask, counts, ftc_msg_buf, conn, ota_need_reset,
                   msg_queue, rx_waits, main, ccc, links, dropped>>

ota_ftc_proc_get_version_req ==
    /\ Asks("VERSION") /\ Wake
    /\ Expect("none", client.file, {"VERSION_RSP"}, 0)
    /\ rx' = <<Rsp("VERSION_RSP", "SUCCESS")>>
    /\ UNCHANGED <<tx_ready_mask, ft, counts, ftc_msg_buf, conn, ota_need_reset,
                   msg_queue, rx_waits, main, flash, ccc, links, history>>

\* An abort ends the operation and has no answer; a polite client may abort
\* any time.  Events that are queued or being handled are left alone.
ota_ftc_proc_abort ==
    /\ Writes("ABORT") /\ Wake
    /\ client' = NoClient
    /\ IF Busy THEN ft_in_progress' = "NONE" /\ ft_len' = 0 /\ ft_addr' = 0
               ELSE UNCHANGED ft
    /\ UNCHANGED <<tx_ready_mask, counts, ftc_msg_buf, conn, ota_need_reset,
                   msg_queue, rx, rx_waits, main, flash, ccc, links, history>>

\* Unlike the other handlers this one leaves otaCb.conn as it is.
ota_ftc_proc_reset ==
    /\ Asks("RESET") /\ Wake
    /\ ota_need_reset' = TRUE
    /\ rx' = <<Ev("DISCONNECT")>>
    /\ UNCHANGED <<tx_ready_mask, ft, counts, ftc_msg_buf, conn, msg_queue,
                   rx_waits, main, world, history>>

ota_dc_set_conn_param_req ==
    /\ Asks("PARAM") /\ Wake
    /\ conn' = TRUE
    /\ rx' = <<Ev("PARAM")>>
    /\ UNCHANGED <<tx_ready_mask, ft, counts, ftc_msg_buf, ota_need_reset,
                   msg_queue, rx_waits, main, world, history>>

\* Writes that no handler takes: too short, an unknown operation, parameter
\* or attribute, and data that no PUT waits for or that exceeds its rest.
InvalidWrite ==
    /\ Writes("INVALID") /\ Wake
    /\ UNCHANGED <<tx_ready_mask, ft, counts, ftc_msg_buf, conn, ota_need_reset,
                   msg_queue, rx, rx_waits, main, world, history>>

\* The packet fits what the PUT still expects.
Expected(len) == ft_in_progress = "PUT" /\ len > 0 /\ ft_len >= len

\* The acknowledgement of a packet is requested unless it already was.
AckWork == IF "ASYNC" \in tx_ready_mask THEN <<>> ELSE <<Ev("ASYNC")>>

\* The packet is the last of the PUT (mutants: off by one, either way).
LastEarly(len) == ft_len <= len + 1
LastLate(len) == ft_len < len
Last(len) == ft_len = len

ota_ftd_write(len) ==
    /\ Writes("DATA") /\ Wake
    /\ Polite => client.await = {"EOF"} /\ len <= client.left
    /\ Expected(len)
    /\ flash' = flash \cup Cells([addr |-> ft_addr, len |-> len])
    /\ ft_addr' = Add(ft_addr, len)
    /\ ft_len' = Sub(ft_len, len)
    /\ pending_count' = Add(pending_count, len)
    /\ conn' = TRUE
    /\ Learns([client EXCEPT !.left = @ - len])
    /\ IF Last(len)
         THEN /\ ft_in_progress' = "NONE"
              /\ rx' = <<Ev("ASYNC"), Rsp("EOF", "SUCCESS")>>
              /\ UNCHANGED tx_ready_mask
         ELSE /\ rx' = AckWork
              /\ tx_ready_mask' = tx_ready_mask \cup {"ASYNC"}
              /\ UNCHANGED ft_in_progress
    /\ UNCHANGED <<send_count, ftc_msg_buf, ota_need_reset, msg_queue, rx_waits,
                   main, ccc, links, history>>

\* ota_ftc_send_rsp: one response at a time; a second one is discarded.
RxSendRsp ==
    /\ rx # <<>> /\ Head(rx).ev = "RSP"
    /\ IF "FTC" \in tx_ready_mask
         THEN /\ rx' = Tail(rx)
              /\ UNCHANGED <<tx_ready_mask, ftc_msg_buf, conn>>
         ELSE /\ ftc_msg_buf' = Head(rx).rsp
              /\ tx_ready_mask' = tx_ready_mask \cup {"FTC"}
              /\ conn' = TRUE
              /\ rx' = <<Ev("FTC")>> \o Tail(rx)
    /\ UNCHANGED <<ft, counts, wake, ota_need_reset, msg_queue, rx_waits, main,
                   world, history>>

\* ota_send_event: the event is queued, or the thread waits for a buffer.
RxSendEvent ==
    /\ rx # <<>> /\ Head(rx).ev # "RSP" /\ ~rx_waits
    /\ IF Room THEN /\ msg_queue' = Append(msg_queue, Head(rx).ev)
                    /\ rx' = Tail(rx)
                    /\ UNCHANGED rx_waits
               ELSE /\ rx_waits' = TRUE
                    /\ UNCHANGED <<msg_queue, rx>>
    /\ UNCHANGED <<otaCb, main, world, history>>

\* No buffer came free for 100 ms: the event is dropped.
RxTimeout ==
    /\ rx_waits
    /\ rx_waits' = FALSE
    /\ rx' = Tail(rx)
    /\ dropped' = TRUE
    /\ UNCHANGED <<otaCb, msg_queue, main, world, job>>

(***************************************************************************)
(* Main thread.  It runs only while the RX thread is idle or waits.        *)
(***************************************************************************)
MainAt(step) == At(step) /\ (rx = <<>> \/ rx_waits)

FirstStep == [FTC |-> "ftc_send", ASYNC |-> "async_check", FTD |-> "ftd_read",
              DISCONNECT |-> "disconnect", PARAM |-> "idle", APP |-> "idle"]

\* receive_msg and the dispatch of ota_event_handle.  The freed buffer goes
\* to the RX thread if that waits for one.  The connection parameter update
\* and the messages of other components leave the state of OTA alone.
Receive ==
    /\ MainAt("idle") /\ msg_queue # <<>>
    /\ Goto(FirstStep[Head(msg_queue)])
    /\ msg_queue' = Tail(msg_queue)
    /\ rx_waits' = FALSE
    /\ UNCHANGED <<otaCb, rx, world, history>>

\* bt_conn_disconnect(otaCb.conn).
HandleDisconnect ==
    /\ MainAt("disconnect")
    /\ links' = IF conn /\ Connected THEN [links EXCEPT !.state = "closing"] ELSE links
    /\ main' = Idle
    /\ UNCHANGED <<otaCb, msg_queue, rx, rx_waits, flash, ccc, client, history>>

\* What the client makes of a response: a refusal ends what it asked for.
Answered(r) ==
    [client EXCEPT !.await = IF r.status = "SUCCESS" THEN @ \ {r.op} ELSE {},
                   !.done = @ \/ (r.op = "EOF" /\ "EOF" \in client.await)]

\* ota_ftc_send: notify the response, then clear the bit (a load and a store).
FtcSend ==
    /\ MainAt("ftc_send")
    /\ Goto("ftc_load")
    /\ Learns(IF Connected /\ "FTC" \in ccc THEN Answered(ftc_msg_buf) ELSE client)
    /\ UNCHANGED <<otaCb, msg_queue, rx, rx_waits, flash, ccc, links, history>>

LoadMask(from, to) ==
    /\ MainAt(from)
    /\ main' = [main EXCEPT !.pc = to, !.mask = tx_ready_mask]
    /\ UNCHANGED <<otaCb, msg_queue, rx, rx_waits, world, history>>

StoreMask(bits) ==
    /\ tx_ready_mask' = main.mask \ bits
    /\ UNCHANGED <<ft, counts, ftc_msg_buf, conn, wake, ota_need_reset,
                   msg_queue, rx, rx_waits, world, history>>

FtcLoad == LoadMask("ftc_load", "ftc_store")
\* (Mutant: the bit is not cleared.)
FtcStoreKeeps == MainAt("ftc_store") /\ main' = Idle /\ StoreMask({})
FtcStore == MainAt("ftc_store") /\ main' = Idle /\ StoreMask({"FTC"})

\* ota_fdc_async_send: acknowledge the bytes written since the last time.
Count == Sub(pending_count, send_count) % CountWidth
AsyncCheck ==
    /\ MainAt("async_check")
    /\ main' = IF pending_count = send_count THEN Idle
               ELSE [main EXCEPT !.pc = "async_count", !.p = pending_count,
                                 !.n = Count]
    /\ UNCHANGED <<otaCb, msg_queue, rx, rx_waits, world, history>>

AsyncCount ==
    /\ MainAt("async_count")
    /\ send_count' = main.p
    /\ Goto("async_send")
    /\ UNCHANGED <<tx_ready_mask, ft, pending_count, ftc_msg_buf, conn, wake,
                   ota_need_reset, msg_queue, rx, rx_waits, world, history>>

AsyncSend ==
    /\ MainAt("async_send")
    /\ Goto("async_load")
    /\ Learns(IF Connected /\ "FTC" \in ccc
              THEN [client EXCEPT !.acked = Add(@, main.n)] ELSE client)
    /\ UNCHANGED <<otaCb, msg_queue, rx, rx_waits, flash, ccc, links, history>>

AsyncLoad == LoadMask("async_load", "async_store")
\* (Mutant: the bit is not cleared.)
AsyncStoreKeeps == MainAt("async_store") /\ main' = Idle /\ StoreMask({})
AsyncStore == MainAt("async_store") /\ main' = Idle /\ StoreMask({"ASYNC"})

\* ota_ftd_send: read the next chunk (nothing happens unless the client
\* enabled notifications) ...
FtdRead ==
    LET n == IF Chunk < ft_len THEN Chunk ELSE ft_len IN
    /\ MainAt("ftd_read")
    /\ main' = IF "FTD" \notin ccc THEN Idle
               ELSE [main EXCEPT !.pc = IF n > 0 THEN "ftd_update" ELSE "ftd_next",
                                 !.n = n]
    /\ UNCHANGED <<otaCb, msg_queue, rx, rx_waits, world, history>>

\* ... account for it, reading ft_len again ...
FtdUpdate ==
    /\ MainAt("ftd_update")
    /\ ft_len' = Sub(ft_len, main.n)
    /\ ft_addr' = Add(ft_addr, main.n)
    /\ Goto("ftd_notify")
    /\ UNCHANGED <<tx_ready_mask, ft_in_progress, counts, ftc_msg_buf, conn, wake,
                   ota_need_reset, msg_queue, rx, rx_waits, world, history>>

\* ... notify it ...
FtdNotify ==
    /\ MainAt("ftd_notify")
    /\ Goto("ftd_next")
    /\ Learns(IF Connected THEN [client EXCEPT !.got = Add(@, main.n)] ELSE client)
    /\ UNCHANGED <<otaCb, msg_queue, rx, rx_waits, flash, ccc, links, history>>

\* ... and queue the next chunk, or end the transfer with an EOF response.
StreamEnds == ft_len = 0 \/ main.n = 0
FtdNext ==
    /\ MainAt("ftd_next")
    /\ IF StreamEnds
         THEN ft_in_progress' = "NONE" /\ Goto("ftd_load") /\ UNCHANGED conn
         ELSE conn' = TRUE /\ Goto("ftd_queue") /\ UNCHANGED ft_in_progress
    /\ UNCHANGED <<tx_ready_mask, ft_addr, ft_len, counts, ftc_msg_buf, wake,
                   ota_need_reset, msg_queue, rx, rx_waits, world, history>>

\* The FTD bit is cleared although no code sets it.
FtdLoad == LoadMask("ftd_load", "ftd_store")
FtdStore == MainAt("ftd_store") /\ Goto("rsp_check") /\ StoreMask({})

\* ota_ftc_send_rsp, called by the main thread.  The mask may be loaded once
\* for the check and the update, or again.
RspCheck ==
    /\ MainAt("rsp_check")
    /\ main' = IF "FTC" \in tx_ready_mask THEN Idle
               ELSE [main EXCEPT !.pc = "rsp_build", !.mask = tx_ready_mask]
    /\ UNCHANGED <<otaCb, msg_queue, rx, rx_waits, world, history>>

RspBuild ==
    /\ MainAt("rsp_build")
    /\ ftc_msg_buf' = [op |-> "EOF", status |-> "SUCCESS"]
    /\ \E mask \in {main.mask, tx_ready_mask} : tx_ready_mask' = mask \cup {"FTC"}
    /\ conn' = TRUE
    /\ Goto("rsp_queue")
    /\ UNCHANGED <<ft, counts, wake, ota_need_reset, msg_queue, rx, rx_waits,
                   world, history>>

\* ota_send_event, called by the main thread: only this thread frees buffers,
\* so without one the wait ends in a timeout (MsgManager, MainWaitIsFutile).
MainSendEvent(step, e) ==
    /\ MainAt(step)
    /\ msg_queue' = IF Room THEN Append(msg_queue, e) ELSE msg_queue
    /\ dropped' = (dropped \/ ~Room)
    /\ main' = Idle
    /\ UNCHANGED <<otaCb, rx, rx_waits, world, job>>

RspQueue == MainSendEvent("rsp_queue", "FTC")
\* (Mutant: the wrong event.)
FtdQueueWrong == MainSendEvent("ftd_queue", "PARAM")
FtdQueue == MainSendEvent("ftd_queue", "FTD")

(***************************************************************************)
(* The rest of the system                                                  *)
(***************************************************************************)
\* The timer handler; the timer runs while wakeup_flag is set.
ota_wakeup_timeout_handler ==
    /\ wakeup_flag
    /\ wakeup_flag' = FALSE
    /\ wake_lock' = wake_lock - 1
    /\ UNCHANGED <<tx_ready_mask, ft, counts, ftc_msg_buf, conn, ota_need_reset,
                   msg_queue, rx, rx_waits, main, world, history>>

\* Another component queues a message of its own.
OtherMsg ==
    /\ OtherMsgs /\ Room /\ (rx = <<>> \/ rx_waits)
    /\ msg_queue' = Append(msg_queue, "APP")
    /\ UNCHANGED <<otaCb, rx, rx_waits, main, world, history>>

Connect ==
    /\ ~Connected /\ links.made < MaxLinks /\ rx = <<>>
    /\ links' = [made |-> links.made + 1, state |-> "up"]
    /\ client' = NoClient
    /\ UNCHANGED <<otaCb, msg_queue, rx, rx_waits, main, flash, ccc, history>>

\* The client writes a CCC descriptor; a polite one enables both for good.
CccChanged(c) ==
    /\ Connected /\ rx = <<>>
    /\ c # ccc
    /\ Polite => c = {"FTC", "FTD"}
    /\ ccc' = c
    /\ UNCHANGED <<otaCb, msg_queue, rx, rx_waits, main, flash, links, client, history>>

\* The application's disconnected callback.  The host keeps the CCC values of
\* a bonded peer and clears those of any other; otaCb is left as it is.
Disconnected ==
    /\ Connected /\ rx = <<>> /\ ~ota_need_reset
    /\ links' = [links EXCEPT !.state = "down"]
    /\ ccc' \in {ccc, {}}
    /\ client' = NoClient
    /\ UNCHANGED <<otaCb, msg_queue, rx, rx_waits, main, flash, history>>

\* The same callback after a reset request reboots the system.
Reboot ==
    /\ Connected /\ rx = <<>> /\ ota_need_reset
    /\ tx_ready_mask' = {} /\ ft_addr' = 0 /\ ft_len' = 0 /\ ft_in_progress' = "NONE"
    /\ pending_count' = 0 /\ send_count' = 0 /\ ftc_msg_buf' = ZeroMsg
    /\ conn' = FALSE /\ wakeup_flag' = FALSE /\ wake_lock' = 0
    /\ ota_need_reset' = FALSE
    /\ msg_queue' = <<>> /\ rx' = <<>> /\ rx_waits' = FALSE /\ main' = Idle
    /\ ccc' = {} /\ client' = NoClient
    /\ job' = ZeroRange /\ dropped' = FALSE
    /\ links' = [links EXCEPT !.state = "down"]
    /\ UNCHANGED flash

RequestStep ==
    \/ \E f \in Files : \/ ota_ftc_proc_put_req(f)
                        \/ ota_ftc_proc_verify_req(f)
                        \/ ota_ftc_proc_erase_req(f)
                        \/ \E zero \in BOOLEAN : ota_ftc_proc_get_req(f, zero)
    \/ \E len \in 1..Width-1 : ota_ftd_write(len)
    \/ ota_ftc_proc_get_version_req \/ ota_ftc_proc_abort \/ ota_ftc_proc_reset
    \/ ota_dc_set_conn_param_req \/ InvalidWrite

RxStep == RxSendRsp \/ RxSendEvent \/ RxTimeout

MainStep ==
    \/ Receive \/ HandleDisconnect \/ FtcSend \/ FtcLoad \/ FtcStore
    \/ AsyncCheck \/ AsyncCount \/ AsyncSend \/ AsyncLoad \/ AsyncStore
    \/ FtdRead \/ FtdUpdate \/ FtdNotify \/ FtdNext \/ FtdLoad \/ FtdStore
    \/ RspCheck \/ RspBuild \/ RspQueue \/ FtdQueue

WorldStep ==
    \/ ota_wakeup_timeout_handler \/ OtherMsg \/ Connect \/ Disconnected \/ Reboot
    \/ \E c \in SUBSET {"FTC", "FTD"} : CccChanged(c)

Next == RequestStep \/ RxStep \/ MainStep \/ WorldStep

Safe == Init /\ [][Next]_vars

\* Both threads are scheduled, and a link that is being closed goes down.
Spec == Safe /\ WF_vars(RxStep) /\ WF_vars(MainStep)
             /\ WF_vars(links.state = "closing" /\ (Disconnected \/ Reboot))

(***************************************************************************)
(* Properties                                                              *)
(***************************************************************************)
\* An event that is queued, or that the RX thread is about to queue.
OnItsWay(e) == \/ \E i \in 1..Len(msg_queue) : msg_queue[i] = e
               \/ \E i \in 1..Len(rx) : rx[i].ev = e

\* The main loop streams a file: it reads and writes ft_addr and ft_len.
Streaming == OnItsWay("FTD") \/ main.pc \in {"ftd_read", "ftd_update",
                 "ftd_notify", "ftd_next", "ftd_queue"}

\* While the main loop streams a file no other operation owns ft_addr and
\* ft_len.  (It is what makes the unlocked accesses of ota_ftd_send harmless;
\* it takes a client that does not abort.)
StreamOwnsTransfer == Streaming => ft_in_progress = "GET"

\* ota_ftd_write fills exactly the range of the accepted PUT, front to back:
\* what was written, where the next packet goes and what remains agree.
PutOnTrack ==
    ft_in_progress = "PUT" => /\ ft_addr = job.addr + pending_count
                              /\ ft_len = job.len - pending_count
                              /\ ft_len > 0 \/ job.len = 0

\* A response that is set up is sent: as long as its bit blocks every other
\* response, the event that will clear the bit is queued or being handled,
\* unless it was dropped.
ResponseWillBeSent ==
    "FTC" \in tx_ready_mask =>
        \/ OnItsWay("FTC") \/ dropped
        \/ main.pc \in {"ftc_send", "ftc_load", "ftc_store", "rsp_queue"}

\* The same for the acknowledgements (for a client that awaits the answers).
AckWillBeSent ==
    "ASYNC" \in tx_ready_mask =>
        \/ OnItsWay("ASYNC") \/ dropped
        \/ main.pc \in {"async_check", "async_count", "async_send", "async_load",
                        "async_store"}

\* When the end of a transfer is reported to the client, its PUT is in the flash
\* and every byte of it was acknowledged before, or its GET has arrived.
TransferComplete ==
    /\ client.op = "put" /\ client.done =>
          /\ Cells(client.file) \subseteq flash
          /\ dropped \/ client.acked = client.file.len
    /\ client.op = "get" /\ client.done => client.got = client.file.len

\* A GET comes to its end unless an event is dropped or the link is lost.
GetEnds ==
    ft_in_progress = "GET" /\ Connected ~> ft_in_progress # "GET" \/ ~Connected \/ dropped

(***************************************************************************)
(* What the code's comments promise and the code does not keep.            *)
(***************************************************************************)
\* ota.h calls ft_len the "remaining data length for current operation": no
\* more remains than was asked for.
RemainingBounded == ft_len <= job.len
=============================================================================
