---------------------------- MODULE OtaFtProofs -----------------------------
(***************************************************************************)
(* Safety of the OTA service, for every client, file, packet size, counter *)
(* width and queue length.                                                 *)
(***************************************************************************)
EXTENDS OtaFt, TLAPS, SequenceTheorems

\* Counter arithmetic stays within the width of the counters.
LEMMA AddType == ASSUME NEW a \in Int, NEW b \in Int PROVE Add(a, b) \in 0..Width-1
  BY BoundsAssumption DEF Add

LEMMA SubType == ASSUME NEW a \in Int, NEW b \in Int PROVE Sub(a, b) \in 0..Width-1
  BY BoundsAssumption DEF Sub

LEMMA ZeroTypes == ZeroMsg \in Response /\ ZeroRange \in FlashRange
  BY BoundsAssumption DEF ZeroMsg, ZeroRange, Response, Responses, Statuses, FlashRange

LEMMA InitTypes == Idle \in Frame /\ NoClient \in Knowledge
  BY ZeroTypes, BoundsAssumption DEF Idle, Frame, Steps, NoClient, Knowledge, Responses

\* What a handler leaves the RX thread to do.
LEMMA WorkTypes ==
  /\ \A e \in Events : Ev(e) \in Work
  /\ \A op \in Responses, status \in Statuses : Rsp(op, status) \in Work
  /\ \A w \in Work : <<w>> \in Seq(Work) /\ <<w>> # <<>>
  /\ \A v, w \in Work : <<v, w>> \in Seq(Work) /\ <<v, w>> # <<>>
  BY ZeroTypes DEF Ev, Rsp, Work, Response

(***************************************************************************)
(* Type correctness, by the parts of TypeOK.                               *)
(***************************************************************************)
LEMMA TypeInit == Init => TypeOK
  <1> SUFFICES ASSUME Init PROVE TypeOK
    OBVIOUS
  <1>1. TypeCb
    BY ZeroTypes, BoundsAssumption DEF Init, InitRam, TypeCb
  <1>2. TypeFlags
    BY DEF Init, InitRam, TypeFlags
  <1>3. TypeThreads
    BY InitTypes, BoundsAssumption DEF Init, InitRam, TypeThreads
  <1>4. TypeWorld
    BY ZeroTypes, InitTypes, BoundsAssumption DEF Init, InitRam, TypeWorld
  <1> QED
    BY <1>1, <1>2, <1>3, <1>4 DEF TypeOK

LEMMA TypeCbStep == TypeOK /\ [Next]_vars => TypeCb'
  <1> SUFFICES ASSUME TypeOK, [Next]_vars PROVE TypeCb'
    OBVIOUS
  <1> USE BoundsAssumption DEF ft, counts, wake, history, world
  <1>1. CASE UNCHANGED otaCb
    BY <1>1 DEF TypeOK, TypeCb, otaCb
  <1>2. ASSUME NEW f \in Files, ota_ftc_proc_put_req(f) \/ ota_ftc_proc_verify_req(f)
                                  \/ ota_ftc_proc_erase_req(f)
        PROVE  TypeCb'
    <2>1. f.addr \in 0..Width-1 /\ f.len \in 0..Width-1
      BY FilesAssumption DEF FlashRange
    <2>2. CASE ota_ftc_proc_put_req(f)
      BY <2>1, <2>2 DEF TypeOK, TypeCb, SetUp, ota_ftc_proc_put_req
    <2>3. CASE ota_ftc_proc_verify_req(f)
      BY <2>1, <2>3 DEF TypeOK, TypeCb, SetUp, ota_ftc_proc_verify_req
    <2>4. CASE ota_ftc_proc_erase_req(f)
      BY <2>1, <2>4 DEF TypeOK, TypeCb, SetUp, ota_ftc_proc_erase_req
    <2> QED
      BY <1>2, <2>2, <2>3, <2>4
  <1>3. ASSUME NEW f \in Files, NEW zero \in BOOLEAN, ota_ftc_proc_get_req(f, zero)
        PROVE  TypeCb'
    BY <1>3, FilesAssumption DEF TypeOK, TypeCb, FlashRange, SetUp, ota_ftc_proc_get_req
  <1>4. ASSUME NEW len \in 1..Width-1, ota_ftd_write(len)
        PROVE  TypeCb'
    BY <1>4, AddType, SubType DEF TypeOK, TypeCb, ota_ftd_write
  <1>5. CASE \/ ota_ftc_proc_get_version_req \/ ota_ftc_proc_abort \/ ota_ftc_proc_reset
             \/ ota_dc_set_conn_param_req \/ InvalidWrite
    <2>1. CASE ota_ftc_proc_abort
      BY <2>1 DEF TypeOK, TypeCb, ota_ftc_proc_abort
    <2>2. CASE ~ota_ftc_proc_abort
      BY <1>5, <2>2 DEF TypeOK, TypeCb, ota_ftc_proc_get_version_req,
         ota_ftc_proc_reset, ota_dc_set_conn_param_req, InvalidWrite
    <2> QED
      BY <2>1, <2>2
  <1>6. CASE RxSendRsp
    <2>1. Head(rx) \in Work
      BY <1>6 DEF TypeOK, TypeThreads, RxSendRsp
    <2>2. Head(rx).rsp \in Response
      BY <2>1 DEF Work
    <2> QED
      BY <1>6, <2>2 DEF TypeOK, TypeCb, RxSendRsp
  <1>7. CASE FtcStore \/ AsyncStore \/ FtdStore
    BY <1>7 DEF TypeOK, TypeCb, TypeThreads, Frame, FtcStore, AsyncStore, FtdStore, StoreMask
  <1>8. CASE AsyncCount
    BY <1>8 DEF TypeOK, TypeCb, TypeThreads, Frame, AsyncCount
  <1>9. CASE FtdUpdate
    <2>1. main.n \in Int /\ ft_len \in Int /\ ft_addr \in Int
      BY DEF TypeOK, TypeCb, TypeThreads, Frame
    <2>2. Sub(ft_len, main.n) \in 0..Width-1 /\ Add(ft_addr, main.n) \in 0..Width-1
      BY <2>1, AddType, SubType
    <2> QED
      BY <1>9, <2>2 DEF TypeOK, TypeCb, FtdUpdate
  <1>10. CASE FtdNext
    BY <1>10 DEF TypeOK, TypeCb, FtdNext
  <1>11. CASE RspBuild
    BY <1>11 DEF TypeOK, TypeCb, TypeThreads, Frame, RspBuild, Response, Responses, Statuses
  <1>12. CASE ota_wakeup_timeout_handler
    BY <1>12 DEF TypeOK, TypeCb, ota_wakeup_timeout_handler
  <1>13. CASE Reboot
    BY <1>13, ZeroTypes DEF TypeCb, Reboot
  <1>14. ASSUME NEW c \in SUBSET {"FTC", "FTD"}, CccChanged(c)
         PROVE  TypeCb'
    BY <1>14, <1>1 DEF CccChanged
  <1>15. \/ RxSendEvent \/ RxTimeout \/ Receive \/ HandleDisconnect \/ FtcSend
         \/ FtcLoad \/ AsyncCheck \/ AsyncSend \/ AsyncLoad \/ FtdRead \/ FtdNotify
         \/ FtdLoad \/ RspCheck \/ RspQueue \/ FtdQueue \/ OtherMsg \/ Connect
         \/ Disconnected \/ UNCHANGED vars
         => UNCHANGED otaCb
    BY DEF RxSendEvent, RxTimeout, Receive, HandleDisconnect, FtcSend, FtcLoad,
       AsyncCheck, AsyncSend, AsyncLoad, FtdRead, FtdNotify, FtdLoad, RspCheck,
       RspQueue, FtdQueue, LoadMask, MainSendEvent, OtherMsg, Connect, Disconnected, vars
  <1> QED
    BY <1>1, <1>2, <1>3, <1>4, <1>5, <1>6, <1>7, <1>8, <1>9, <1>10, <1>11, <1>12,
       <1>13, <1>14, <1>15 DEF Next, RequestStep, RxStep, MainStep, WorldStep

LEMMA TypeFlagsStep == TypeOK /\ [Next]_vars => TypeFlags'
  <1> SUFFICES ASSUME TypeOK, [Next]_vars PROVE TypeFlags'
    OBVIOUS
  <1> USE DEF ft, counts, wake, history, world
  <1>1. CASE UNCHANGED <<conn, ota_need_reset, rx_waits, dropped, wakeup_flag, wake_lock>>
    BY <1>1 DEF TypeOK, TypeFlags
  <1>2. ASSUME Wake, conn' \in BOOLEAN, ota_need_reset' \in BOOLEAN,
               UNCHANGED <<rx_waits, dropped>>
        PROVE  TypeFlags'
    BY <1>2 DEF TypeOK, TypeFlags, Wake
  <1>3. CASE RequestStep
    BY <1>2, <1>3 DEF TypeOK, TypeFlags, RequestStep, ota_ftc_proc_put_req,
       ota_ftc_proc_verify_req, ota_ftc_proc_erase_req, ota_ftc_proc_get_req,
       ota_ftd_write, ota_ftc_proc_get_version_req, ota_ftc_proc_abort,
       ota_ftc_proc_reset, ota_dc_set_conn_param_req, InvalidWrite
  <1>4. CASE RxStep
    <2>1. CASE RxSendRsp
      BY <2>1 DEF TypeOK, TypeFlags, RxSendRsp
    <2>2. CASE RxSendEvent
      BY <2>2 DEF TypeOK, TypeFlags, RxSendEvent, otaCb
    <2>3. CASE RxTimeout
      BY <2>3 DEF TypeOK, TypeFlags, RxTimeout, otaCb
    <2> QED
      BY <1>4, <2>1, <2>2, <2>3 DEF RxStep
  <1>5. CASE Receive \/ FtdNext \/ RspBuild \/ RspQueue \/ FtdQueue
    <2>1. CASE Receive
      BY <2>1 DEF TypeOK, TypeFlags, Receive, otaCb
    <2>2. CASE FtdNext \/ RspBuild
      <3>1. conn' \in BOOLEAN
        BY <2>2 DEF TypeOK, TypeFlags, FtdNext, RspBuild
      <3>2. UNCHANGED <<ota_need_reset, rx_waits, dropped, wakeup_flag, wake_lock>>
        BY <2>2 DEF FtdNext, RspBuild
      <3> QED
        BY <3>1, <3>2 DEF TypeOK, TypeFlags
    <2>3. CASE RspQueue \/ FtdQueue
      <3>1. dropped' \in BOOLEAN
        BY <2>3, Zenon DEF RspQueue, FtdQueue, MainSendEvent
      <3>2. UNCHANGED <<conn, ota_need_reset, rx_waits, wakeup_flag, wake_lock>>
        BY <2>3 DEF RspQueue, FtdQueue, MainSendEvent, otaCb
      <3> QED
        BY <3>1, <3>2 DEF TypeOK, TypeFlags
    <2> QED
      BY <1>5, <2>1, <2>2, <2>3
  <1>6. CASE ota_wakeup_timeout_handler \/ Reboot
    <2>1. CASE ota_wakeup_timeout_handler
      <3>1. wake_lock' = 0
        BY <2>1 DEF TypeOK, TypeFlags, ota_wakeup_timeout_handler
      <3>2. wakeup_flag' = FALSE /\ UNCHANGED <<conn, ota_need_reset, rx_waits, dropped>>
        BY <2>1 DEF ota_wakeup_timeout_handler
      <3> QED
        BY <3>1, <3>2 DEF TypeOK, TypeFlags
    <2>2. CASE Reboot
      BY <2>2 DEF TypeFlags, Reboot
    <2> QED
      BY <1>6, <2>1, <2>2
  <1>7. \/ HandleDisconnect \/ FtcSend \/ FtcLoad \/ FtcStore \/ AsyncCheck
        \/ AsyncCount \/ AsyncSend \/ AsyncLoad \/ AsyncStore \/ FtdRead \/ FtdUpdate
        \/ FtdNotify \/ FtdLoad \/ FtdStore \/ RspCheck \/ OtherMsg \/ Connect
        \/ Disconnected \/ (\E c \in SUBSET {"FTC", "FTD"} : CccChanged(c))
        \/ UNCHANGED vars
        => UNCHANGED <<conn, ota_need_reset, rx_waits, dropped, wakeup_flag, wake_lock>>
    BY DEF HandleDisconnect, FtcSend, FtcLoad, FtcStore, AsyncCheck, AsyncCount,
       AsyncSend, AsyncLoad, AsyncStore, FtdRead, FtdUpdate, FtdNotify, FtdLoad,
       FtdStore, RspCheck, LoadMask, StoreMask, OtherMsg, Connect, Disconnected,
       CccChanged, otaCb, vars
  <1> QED
    BY <1>1, <1>3, <1>4, <1>5, <1>6, <1>7 DEF Next, MainStep, WorldStep

LEMMA TypeThreadsStep == TypeOK /\ [Next]_vars => TypeThreads'
  <1> SUFFICES ASSUME TypeOK, [Next]_vars PROVE TypeThreads'
    OBVIOUS
  <1> USE BoundsAssumption DEF ft, counts, wake, history, world
  <1>1. CASE UNCHANGED <<msg_queue, rx, rx_waits, main>>
    BY <1>1 DEF TypeOK, TypeThreads
  <1>2. ASSUME NEW f \in Files, ota_ftc_proc_put_req(f) \/ ota_ftc_proc_verify_req(f)
                                  \/ ota_ftc_proc_erase_req(f)
        PROVE  TypeThreads'
    <2>1. rx' \in Seq(Work) /\ rx = <<>>
      BY <1>2, WorkTypes DEF Responses, Statuses,
         ota_ftc_proc_put_req, ota_ftc_proc_verify_req, ota_ftc_proc_erase_req,
         Asks, Writes
    <2>2. UNCHANGED <<msg_queue, rx_waits, main>>
      BY <1>2 DEF ota_ftc_proc_put_req, ota_ftc_proc_verify_req, ota_ftc_proc_erase_req
    <2> QED
      BY <2>1, <2>2 DEF TypeOK, TypeThreads
  <1>3. ASSUME NEW f \in Files, NEW zero \in BOOLEAN, ota_ftc_proc_get_req(f, zero)
        PROVE  TypeThreads'
    <2>1. rx' \in Seq(Work) /\ rx = <<>>
      BY <1>3, WorkTypes DEF Responses, Statuses, Events, ota_ftc_proc_get_req, Asks, Writes
    <2>2. UNCHANGED <<msg_queue, rx_waits, main>>
      BY <1>3 DEF ota_ftc_proc_get_req
    <2> QED
      BY <2>1, <2>2 DEF TypeOK, TypeThreads
  <1>4. ASSUME NEW len \in 1..Width-1, ota_ftd_write(len)
        PROVE  TypeThreads'
    <2>1. rx' \in Seq(Work) /\ rx = <<>>
      <3>1. <<Rsp("EOF", "SUCCESS")>> \in Seq(Work) /\ AckWork \in Seq(Work)
        BY WorkTypes DEF Responses, Statuses, Events, AckWork
      <3>2. rx = <<>>
        BY <1>4 DEF ota_ftd_write, Writes
      <3>3. CASE Last(len)
        BY <1>4, <3>1, <3>2, <3>3, WorkTypes DEF Responses, Statuses, Events, ota_ftd_write
      <3>4. CASE ~Last(len)
        BY <1>4, <3>1, <3>2, <3>4 DEF ota_ftd_write
      <3> QED
        BY <3>3, <3>4
    <2>2. UNCHANGED <<msg_queue, rx_waits, main>>
      BY <1>4 DEF ota_ftd_write
    <2> QED
      BY <2>1, <2>2 DEF TypeOK, TypeThreads
  <1>5. CASE \/ ota_ftc_proc_get_version_req \/ ota_ftc_proc_reset \/ ota_dc_set_conn_param_req
    <2>1. rx' \in Seq(Work) /\ rx = <<>>
      BY <1>5, WorkTypes DEF Responses, Statuses, Events, ota_ftc_proc_get_version_req,
         ota_ftc_proc_reset, ota_dc_set_conn_param_req, Asks, Writes
    <2>2. UNCHANGED <<msg_queue, rx_waits, main>>
      BY <1>5 DEF ota_ftc_proc_get_version_req, ota_ftc_proc_reset, ota_dc_set_conn_param_req
    <2> QED
      BY <2>1, <2>2 DEF TypeOK, TypeThreads
  <1>6. CASE RxSendRsp
    <2>1. ~rx_waits /\ ~rx_waits'
      BY <1>6 DEF RxSendRsp, TypeOK, TypeThreads
    <2>2. Tail(rx) \in Seq(Work)
      BY <1>6 DEF RxSendRsp, TypeOK, TypeThreads
    <2>3. <<Ev("FTC")>> \in Seq(Work)
      BY WorkTypes DEF Events
    <2>4. rx' \in Seq(Work)
      <3>1. rx' = Tail(rx) \/ rx' = <<Ev("FTC")>> \o Tail(rx)
        BY <1>6 DEF RxSendRsp
      <3>2. <<Ev("FTC")>> \o Tail(rx) \in Seq(Work)
        BY <2>2, <2>3
      <3> QED
        BY <2>2, <3>1, <3>2
    <2> QED
      BY <1>6, <2>1, <2>4 DEF RxSendRsp, TypeOK, TypeThreads
  <1>7. CASE RxSendEvent
    <2>1. Head(rx) \in Work
      BY <1>7 DEF RxSendEvent, TypeOK, TypeThreads
    <2>2. Head(rx).ev \in Events
      BY <1>7, <2>1 DEF RxSendEvent, Work
    <2>3. CASE Room
      <3>1. msg_queue' \in Seq(Events) /\ Len(msg_queue') <= SyncBufs
        BY SMTT(30), <1>7, <2>2, <2>3 DEF RxSendEvent, TypeOK, TypeThreads, Room
      <3>2. rx' \in Seq(Work) /\ ~rx_waits' /\ main' = main
        <4>1. rx' = Tail(rx) /\ ~rx_waits' /\ main' = main
          BY <1>7, <2>3 DEF RxSendEvent
        <4> QED
          BY <1>7, <4>1 DEF RxSendEvent, TypeOK, TypeThreads
      <3> QED
        BY <3>1, <3>2 DEF TypeOK, TypeThreads
    <2>4. CASE ~Room
      BY <1>7, <2>4 DEF RxSendEvent, TypeOK, TypeThreads
    <2> QED
      BY <2>3, <2>4
  <1>8. CASE RxTimeout
    <2>1. rx' \in Seq(Work) /\ rx_waits' = FALSE /\ UNCHANGED <<msg_queue, main>>
      BY <1>8 DEF RxTimeout, TypeOK, TypeThreads
    <2> QED
      BY <2>1 DEF TypeOK, TypeThreads
  <1>9. CASE Receive
    <2>1. Head(msg_queue) \in Events
      BY <1>9 DEF Receive, TypeOK, TypeThreads
    <2>2. FirstStep[Head(msg_queue)] \in Steps
      BY <2>1 DEF FirstStep, Events, Steps
    <2>3. Tail(msg_queue) \in Seq(Events) /\ Len(Tail(msg_queue)) <= SyncBufs
      BY <1>9 DEF Receive, TypeOK, TypeThreads
    <2> QED
      BY <1>9, <2>2, <2>3 DEF Receive, Goto, Frame, TypeOK, TypeThreads
  <1>10. CASE \/ HandleDisconnect \/ FtcStore \/ AsyncStore \/ FtcSend \/ AsyncCount
              \/ AsyncSend \/ FtdUpdate \/ FtdNotify \/ FtdNext \/ FtdStore \/ RspBuild
              \/ FtcLoad \/ AsyncLoad \/ FtdLoad \/ RspCheck \/ AsyncCheck \/ FtdRead
    <2>1. CASE \/ HandleDisconnect \/ FtcStore \/ AsyncStore \/ FtcSend \/ AsyncCount
               \/ AsyncSend \/ FtdUpdate \/ FtdNotify \/ FtdNext \/ FtdStore \/ RspBuild
      <3>1. main' = Idle \/ \E step \in Steps : main' = [main EXCEPT !.pc = step]
        BY <2>1 DEF HandleDisconnect, FtcStore, AsyncStore, FtcSend, AsyncCount,
           AsyncSend, FtdUpdate, FtdNotify, FtdNext, FtdStore, RspBuild, Goto, Steps
      <3>2. main' \in Frame
        BY <3>1, InitTypes DEF TypeOK, TypeThreads, Frame
      <3>3. UNCHANGED <<msg_queue, rx, rx_waits>>
        BY <2>1 DEF HandleDisconnect, FtcStore, AsyncStore, FtcSend, AsyncCount,
           AsyncSend, FtdUpdate, FtdNotify, FtdNext, FtdStore, RspBuild, StoreMask
      <3> QED
        BY <3>2, <3>3 DEF TypeOK, TypeThreads
    <2>2. CASE FtcLoad \/ AsyncLoad \/ FtdLoad
      <3>1. main' \in Frame
        BY <2>2 DEF FtcLoad, AsyncLoad, FtdLoad, LoadMask, Frame, Steps,
           TypeOK, TypeThreads, TypeCb
      <3> QED
        BY <2>2, <3>1 DEF FtcLoad, AsyncLoad, FtdLoad, LoadMask, TypeOK, TypeThreads
    <2>3. CASE RspCheck
      <3>1. main' \in Frame
        BY <2>3, InitTypes DEF RspCheck, Frame, Steps, TypeOK, TypeThreads, TypeCb
      <3> QED
        BY <2>3, <3>1 DEF RspCheck, TypeOK, TypeThreads
    <2>4. CASE AsyncCheck
      <3>1. Count \in 0..Width-1
        <4>1. Sub(pending_count, send_count) \in Nat
          BY SubType DEF TypeOK, TypeCb
        <4> QED
          BY <4>1 DEF Count
      <3>2. main' \in Frame
        BY <2>4, <3>1, InitTypes DEF AsyncCheck, Frame, Steps, TypeOK, TypeThreads, TypeCb
      <3> QED
        BY <2>4, <3>2 DEF AsyncCheck, TypeOK, TypeThreads
    <2>5. CASE FtdRead
      <3>1. main' = Idle \/ \E step \in Steps, n \in 0..Width-1 :
                                main' = [main EXCEPT !.pc = step, !.n = n]
        <4> DEFINE n == IF Chunk < ft_len THEN Chunk ELSE ft_len
        <4>1. n \in 0..Width-1
          BY DEF TypeOK, TypeCb
        <4>2. main' = Idle \/ \E step \in Steps : main' = [main EXCEPT !.pc = step, !.n = n]
          BY <2>5 DEF FtdRead, Steps
        <4> QED
          BY <4>1, <4>2
      <3>2. main' \in Frame
        BY <3>1, InitTypes DEF TypeOK, TypeThreads, Frame
      <3> QED
        BY <2>5, <3>2 DEF FtdRead, TypeOK, TypeThreads
    <2> QED
      BY <1>10, <2>1, <2>2, <2>3, <2>4, <2>5
  <1>11. CASE RspQueue \/ FtdQueue
    <2>1. \E e \in Events : msg_queue' = IF Room THEN Append(msg_queue, e) ELSE msg_queue
      BY <1>11 DEF RspQueue, FtdQueue, MainSendEvent, Events
    <2>2. msg_queue' \in Seq(Events) /\ Len(msg_queue') <= SyncBufs
      BY <2>1 DEF Room, TypeOK, TypeThreads
    <2>3. main' = Idle /\ UNCHANGED <<rx, rx_waits>>
      BY <1>11 DEF RspQueue, FtdQueue, MainSendEvent
    <2> QED
      BY <2>2, <2>3, InitTypes DEF TypeOK, TypeThreads
  <1>12. CASE OtherMsg
    BY <1>12 DEF OtherMsg, Room, Events, TypeOK, TypeThreads
  <1>13. CASE Reboot
    <2>1. msg_queue' = <<>> /\ rx' = <<>> /\ rx_waits' = FALSE /\ main' = Idle
      BY <1>13 DEF Reboot
    <2> QED
      BY <2>1, InitTypes DEF TypeThreads
  <1>14. \/ ota_ftc_proc_abort \/ InvalidWrite \/ ota_wakeup_timeout_handler \/ Connect
         \/ Disconnected \/ (\E c \in SUBSET {"FTC", "FTD"} : CccChanged(c))
         \/ UNCHANGED vars
         => UNCHANGED <<msg_queue, rx, rx_waits, main>>
    BY DEF ota_ftc_proc_abort, InvalidWrite, ota_wakeup_timeout_handler, Connect,
       Disconnected, CccChanged, vars
  <1> QED
    BY <1>1, <1>2, <1>3, <1>4, <1>5, <1>6, <1>7, <1>8, <1>9, <1>10, <1>11, <1>12,
       <1>13, <1>14 DEF Next, RequestStep, RxStep, MainStep, WorldStep

LEMMA TypeWorldStep == TypeOK /\ [Next]_vars => TypeWorld'
  <1> SUFFICES ASSUME TypeOK, [Next]_vars PROVE TypeWorld'
    OBVIOUS
  <1> USE BoundsAssumption DEF ft, counts, wake, history, world
  <1>1. CASE UNCHANGED <<flash, ccc, links, client, job>>
    BY <1>1 DEF TypeOK, TypeWorld
  <1>2. ASSUME NEW f \in Files, ota_ftc_proc_put_req(f) \/ ota_ftc_proc_verify_req(f)
                                  \/ ota_ftc_proc_erase_req(f)
        PROVE  TypeWorld'
    <2>1. f \in FlashRange /\ f.len \in 0..Width-1
      BY FilesAssumption DEF FlashRange
    <2>2. client' \in Knowledge
      <3>1. \E op \in {"none", "get", "put"}, answers \in SUBSET Responses,
               left \in 0..Width-1 : Expect(op, f, answers, left)
        BY <1>2, <2>1 DEF Responses, ota_ftc_proc_put_req, ota_ftc_proc_verify_req,
           ota_ftc_proc_erase_req
      <3> QED
        BY InitTypes, <2>1, <3>1 DEF Knowledge, Expect, Learns
    <2>3. flash' \subseteq Nat /\ job' \in FlashRange /\ UNCHANGED <<ccc, links>>
      BY <1>2, <2>1 DEF TypeOK, TypeWorld, SetUp,
         ota_ftc_proc_put_req, ota_ftc_proc_verify_req, ota_ftc_proc_erase_req
    <2> QED
      BY <2>2, <2>3 DEF TypeOK, TypeWorld
  <1>3. ASSUME NEW f \in Files, NEW zero \in BOOLEAN, ota_ftc_proc_get_req(f, zero)
        PROVE  TypeWorld'
    BY InitTypes, <1>3, FilesAssumption DEF TypeOK, TypeWorld, SetUp, Expect, Learns,
       FlashRange, Responses, Knowledge, ota_ftc_proc_get_req
  <1>4. ASSUME NEW len \in 1..Width-1, ota_ftd_write(len)
        PROVE  TypeWorld'
    <2>1. flash' \subseteq Nat
      BY <1>4 DEF ota_ftd_write, Cells, TypeOK, TypeCb, TypeWorld
    <2>2. client' \in Knowledge
      BY InitTypes, <1>4 DEF ota_ftd_write, Learns, Knowledge, TypeOK, TypeWorld
    <2> QED
      BY <1>4, <2>1, <2>2 DEF ota_ftd_write, TypeOK, TypeWorld
  <1>5. CASE ota_ftc_proc_get_version_req
    BY InitTypes, <1>5 DEF ota_ftc_proc_get_version_req, Expect, Learns, Responses,
       Knowledge, TypeOK, TypeWorld
  <1>6. CASE ota_ftc_proc_abort \/ RxTimeout \/ Connect \/ Disconnected
    <2>1. CASE ota_ftc_proc_abort \/ RxTimeout
      BY InitTypes, <2>1 DEF ota_ftc_proc_abort, RxTimeout, TypeOK, TypeWorld
    <2>2. CASE Connect
      BY InitTypes, <2>2 DEF Connect, TypeOK, TypeWorld
    <2>3. CASE Disconnected
      BY InitTypes, <2>3 DEF Disconnected, TypeOK, TypeWorld
    <2> QED
      BY <1>6, <2>1, <2>2, <2>3
  <1>7. CASE Reboot
    BY InitTypes, <1>7, ZeroTypes DEF Reboot, TypeOK, TypeWorld
  <1>8. CASE HandleDisconnect
    BY <1>8 DEF HandleDisconnect, TypeOK, TypeWorld
  <1>9. CASE FtcSend
    BY InitTypes, <1>9 DEF FtcSend, Learns, Answered, Knowledge, TypeOK, TypeWorld
  <1>10. CASE AsyncSend \/ FtdNotify
    <2>1. /\ Add(client.acked, main.n) \in 0..Width-1
          /\ Add(client.got, main.n) \in 0..Width-1
      <3>1. main.n \in Int /\ client.acked \in Int /\ client.got \in Int
        BY DEF Frame, Knowledge, TypeOK, TypeThreads, TypeWorld
      <3> QED
        BY <3>1, AddType
    <2>2. client' \in Knowledge
      BY InitTypes, <1>10, <2>1 DEF AsyncSend, FtdNotify, Learns, Knowledge, TypeOK, TypeWorld
    <2> QED
      BY <1>10, <2>2 DEF AsyncSend, FtdNotify, TypeOK, TypeWorld
  <1>11. CASE RspQueue \/ FtdQueue
    BY <1>11 DEF RspQueue, FtdQueue, MainSendEvent, TypeOK, TypeWorld
  <1>12. ASSUME NEW c \in SUBSET {"FTC", "FTD"}, CccChanged(c)
         PROVE  TypeWorld'
    BY <1>12 DEF CccChanged, TypeOK, TypeWorld
  <1>13. \/ ota_ftc_proc_reset \/ ota_dc_set_conn_param_req \/ InvalidWrite \/ RxSendRsp
         \/ RxSendEvent \/ Receive \/ FtcLoad \/ FtcStore \/ AsyncCheck \/ AsyncCount
         \/ AsyncLoad \/ AsyncStore \/ FtdRead \/ FtdUpdate \/ FtdNext \/ FtdLoad
         \/ FtdStore \/ RspCheck \/ RspBuild \/ ota_wakeup_timeout_handler \/ OtherMsg
         \/ UNCHANGED vars
         => UNCHANGED <<flash, ccc, links, client, job>>
    BY DEF ota_ftc_proc_reset, ota_dc_set_conn_param_req, InvalidWrite, RxSendRsp,
       RxSendEvent, Receive, FtcLoad, FtcStore, AsyncCheck, AsyncCount, AsyncLoad,
       AsyncStore, FtdRead, FtdUpdate, FtdNext, FtdLoad, FtdStore, RspCheck, RspBuild,
       LoadMask, StoreMask, ota_wakeup_timeout_handler, OtherMsg, vars
  <1> QED
    BY <1>1, <1>2, <1>3, <1>4, <1>5, <1>6, <1>7, <1>8, <1>9, <1>10, <1>11, <1>12,
       <1>13 DEF Next, RequestStep, RxStep, MainStep, WorldStep

\* The control block, the threads and the client keep their types, the queue
\* its bound, and the wake lock is held exactly while wakeup_flag is set.
THEOREM OtaTypes == Safe => []TypeOK
  <1>1. TypeOK /\ [Next]_vars => TypeOK'
    BY TypeCbStep, TypeFlagsStep, TypeThreadsStep, TypeWorldStep DEF TypeOK
  <1> QED
    BY TypeInit, <1>1, PTL DEF Safe

(***************************************************************************)
(* Responses.  An event stays on its way until the main loop takes it, it  *)
(* is dropped or the system reboots.                                       *)
(***************************************************************************)
LEMMA EventKept ==
  ASSUME NEW e \in Events, TypeOK, [Next]_vars, OnItsWay(e), ~Reboot,
         ~(Receive /\ Head(msg_queue) = e)
  PROVE  OnItsWay(e)' \/ dropped'
  <1> USE DEF ft, counts, wake, history, world
  <1>1. CASE UNCHANGED <<msg_queue, rx>>
    BY <1>1 DEF OnItsWay
  <1>2. CASE rx = <<>> /\ UNCHANGED msg_queue
    BY <1>2 DEF OnItsWay
  <1>3. CASE RxSendRsp
    <2>1. CASE "FTC" \in tx_ready_mask
      <3>1. rx' = Tail(rx) /\ msg_queue' = msg_queue
        BY <1>3, <2>1 DEF RxSendRsp
      <3>2. ASSUME NEW i \in 1..Len(rx), rx[i].ev = e
            PROVE  OnItsWay(e)'
        <4>1. i # 1
          BY <1>3, <3>2 DEF RxSendRsp, Events, TypeOK, TypeThreads
        <4>2. i - 1 \in 1..Len(rx') /\ rx'[i - 1] = rx[i]
          BY <1>3, <3>1, <4>1 DEF RxSendRsp, TypeOK, TypeThreads
        <4> QED
          BY <3>2, <4>2 DEF OnItsWay
      <3> QED
        BY <3>1, <3>2 DEF OnItsWay
    <2>2. CASE "FTC" \notin tx_ready_mask
      <3>1. rx' = <<Ev("FTC")>> \o Tail(rx) /\ msg_queue' = msg_queue
        BY <1>3, <2>2 DEF RxSendRsp
      <3>2. ASSUME NEW i \in 1..Len(rx), rx[i].ev = e
            PROVE  OnItsWay(e)'
        <4>1. i # 1
          BY <1>3, <3>2 DEF RxSendRsp, Events, TypeOK, TypeThreads
        <4>2. i \in 1..Len(rx') /\ rx'[i] = rx[i]
          BY <1>3, <3>1, <4>1 DEF RxSendRsp, TypeOK, TypeThreads
        <4> QED
          BY <3>2, <4>2 DEF OnItsWay
      <3> QED
        BY <3>1, <3>2 DEF OnItsWay
    <2> QED
      BY <2>1, <2>2
  <1>4. CASE RxSendEvent
    <2>1. CASE ~Room
      BY <1>1, <1>4, <2>1 DEF RxSendEvent
    <2>2. CASE Room
      <3>1. rx' = Tail(rx) /\ msg_queue' = Append(msg_queue, Head(rx).ev) /\ rx # <<>>
        BY <1>4, <2>2 DEF RxSendEvent
      <3>2. ASSUME NEW i \in 1..Len(msg_queue), msg_queue[i] = e
            PROVE  OnItsWay(e)'
        BY <3>1, <3>2 DEF OnItsWay, TypeOK, TypeThreads
      <3>3. ASSUME NEW i \in 1..Len(rx), rx[i].ev = e, i # 1
            PROVE  OnItsWay(e)'
        <4>1. i - 1 \in 1..Len(rx') /\ rx'[i - 1] = rx[i]
          BY <3>1, <3>3 DEF TypeOK, TypeThreads
        <4> QED
          BY <3>3, <4>1 DEF OnItsWay
      <3>4. CASE rx[1].ev = e
        <4>1. Len(msg_queue') \in 1..Len(msg_queue') /\ msg_queue'[Len(msg_queue')] = e
          BY <3>1, <3>4 DEF TypeOK, TypeThreads
        <4> QED
          BY <4>1 DEF OnItsWay
      <3> QED
        BY <3>2, <3>3, <3>4 DEF OnItsWay
    <2> QED
      BY <2>1, <2>2
  <1>5. CASE RxTimeout
    BY <1>5 DEF RxTimeout
  <1>6. CASE Receive
    <2>1. msg_queue # <<>> /\ msg_queue' = Tail(msg_queue) /\ rx' = rx /\ Head(msg_queue) # e
      BY <1>6 DEF Receive
    <2>2. ASSUME NEW i \in 1..Len(msg_queue), msg_queue[i] = e
          PROVE  OnItsWay(e)'
      <3>1. i - 1 \in 1..Len(msg_queue') /\ msg_queue'[i - 1] = e
        BY <2>1, <2>2 DEF TypeOK, TypeThreads
      <3> QED
        BY <3>1 DEF OnItsWay
    <2> QED
      BY <2>1, <2>2 DEF OnItsWay
  <1>7. CASE RspQueue \/ FtdQueue \/ OtherMsg
    <2>1. rx' = rx /\ (msg_queue' = msg_queue \/ \E f \in Events : msg_queue' = Append(msg_queue, f))
      BY <1>7 DEF RspQueue, FtdQueue, OtherMsg, MainSendEvent, Events
    <2>2. ASSUME NEW i \in 1..Len(msg_queue), msg_queue[i] = e
          PROVE  OnItsWay(e)'
      BY SMTT(30), <2>1, <2>2 DEF OnItsWay, TypeOK, TypeThreads
    <2> QED
      BY <2>1, <2>2 DEF OnItsWay
  <1>8. RequestStep => rx = <<>> /\ UNCHANGED msg_queue
    BY DEF RequestStep, Asks, Writes, ota_ftc_proc_put_req, ota_ftc_proc_verify_req,
       ota_ftc_proc_erase_req, ota_ftc_proc_get_req, ota_ftd_write,
       ota_ftc_proc_get_version_req, ota_ftc_proc_abort, ota_ftc_proc_reset,
       ota_dc_set_conn_param_req, InvalidWrite
  <1>9. \/ HandleDisconnect \/ FtcSend \/ FtcLoad \/ FtcStore \/ AsyncCheck
        \/ AsyncCount \/ AsyncSend \/ AsyncLoad \/ AsyncStore \/ FtdRead \/ FtdUpdate
        \/ FtdNotify \/ FtdNext \/ FtdLoad \/ FtdStore \/ RspCheck \/ RspBuild
        \/ ota_wakeup_timeout_handler \/ Connect \/ Disconnected
        \/ (\E c \in SUBSET {"FTC", "FTD"} : CccChanged(c)) \/ UNCHANGED vars
        => UNCHANGED <<msg_queue, rx>>
    BY DEF HandleDisconnect, FtcSend, FtcLoad, FtcStore, AsyncCheck, AsyncCount,
       AsyncSend, AsyncLoad, AsyncStore, FtdRead, FtdUpdate, FtdNotify, FtdNext, FtdLoad,
       FtdStore, RspCheck, RspBuild, LoadMask, StoreMask, ota_wakeup_timeout_handler,
       Connect, Disconnected, CccChanged, vars
  <1> QED
    BY <1>1, <1>2, <1>3, <1>4, <1>5, <1>6, <1>7, <1>8, <1>9
       DEF Next, RxStep, MainStep, WorldStep

\* tx_ready_mask may be stored back from a copy that is older than the
\* response it announces: then that response is still on its way.
StaleMask ==
    main.pc \in {"async_store", "ftd_store"} /\ "FTC" \in main.mask =>
        OnItsWay("FTC") \/ dropped

RspInv == ResponseWillBeSent /\ StaleMask

LEMMA RspStep == TypeOK /\ RspInv /\ [Next]_vars => RspInv'
  <1> SUFFICES ASSUME TypeOK, RspInv, [Next]_vars PROVE RspInv'
    OBVIOUS
  <1> USE DEF ft, counts, wake, history, world
  <1> DEFINE Pending == OnItsWay("FTC") \/ dropped
             Sending == main.pc \in {"ftc_send", "ftc_load", "ftc_store", "rsp_queue"}
  <1>1. CASE Reboot
    BY <1>1 DEF Reboot, Idle, RspInv, ResponseWillBeSent, StaleMask
  <1>2. CASE Receive /\ ~Reboot
    <2>1. Head(msg_queue) \in Events
      BY <1>2 DEF Receive, TypeOK, TypeThreads
    <2>2. main.pc = "idle" /\ main'.pc = FirstStep[Head(msg_queue)]
          /\ UNCHANGED <<tx_ready_mask, dropped>>
      BY <1>2 DEF Receive, MainAt, At, Goto, TypeOK, TypeThreads, Frame, otaCb
    <2>3. main'.pc \notin {"async_store", "ftd_store"}
      BY <2>1, <2>2 DEF FirstStep, Events
    <2>4. CASE Head(msg_queue) = "FTC"
      BY <2>2, <2>3, <2>4 DEF FirstStep, RspInv, ResponseWillBeSent, StaleMask
    <2>5. CASE Head(msg_queue) # "FTC"
      <3>1. OnItsWay("FTC") => OnItsWay("FTC")' \/ dropped'
        BY <1>2, <2>5, EventKept DEF Events
      <3> QED
        BY <2>2, <2>3, <3>1 DEF RspInv, ResponseWillBeSent, StaleMask
    <2> QED
      BY <2>4, <2>5
  <1>3. SUFFICES ASSUME ~Reboot, ~Receive PROVE RspInv'
    BY <1>1, <1>2
  <1>4. Pending => Pending'
    <2>1. ASSUME dropped PROVE dropped'
      <3>1. dropped' = dropped \/ dropped' = TRUE \/ (dropped' = (dropped \/ ~Room))
        BY <1>3 DEF Next, RequestStep, RxStep, MainStep, WorldStep, vars,
           ota_ftc_proc_put_req, ota_ftc_proc_verify_req, ota_ftc_proc_erase_req,
           ota_ftc_proc_get_req, ota_ftd_write, ota_ftc_proc_get_version_req,
           ota_ftc_proc_abort, ota_ftc_proc_reset, ota_dc_set_conn_param_req,
           InvalidWrite, RxSendRsp, RxSendEvent, RxTimeout, HandleDisconnect, FtcSend,
           FtcLoad, FtcStore, AsyncCheck, AsyncCount, AsyncSend, AsyncLoad, AsyncStore,
           FtdRead, FtdUpdate, FtdNotify, FtdNext, FtdLoad, FtdStore, RspCheck, RspBuild,
           LoadMask, StoreMask, RspQueue, FtdQueue, MainSendEvent,
           ota_wakeup_timeout_handler, OtherMsg, Connect, Disconnected, CccChanged
      <3> QED
        BY <2>1, <3>1
    <2>2. OnItsWay("FTC") => Pending'
      BY <1>3, EventKept DEF Events
    <2> QED
      BY <2>1, <2>2
  <1>5. ASSUME "FTC" \in tx_ready_mask' => "FTC" \in tx_ready_mask, main' = main
        PROVE  RspInv'
    BY <1>4, <1>5 DEF RspInv, ResponseWillBeSent, StaleMask
  <1>6. CASE RequestStep
    <2>1. main' = main /\ (\/ tx_ready_mask' = tx_ready_mask
                           \/ tx_ready_mask' = tx_ready_mask \cup {"ASYNC"})
      BY <1>6 DEF RequestStep, ota_ftc_proc_put_req, ota_ftc_proc_verify_req,
         ota_ftc_proc_erase_req, ota_ftc_proc_get_req, ota_ftd_write,
         ota_ftc_proc_get_version_req, ota_ftc_proc_abort, ota_ftc_proc_reset,
         ota_dc_set_conn_param_req, InvalidWrite
    <2> QED
      BY <1>5, <2>1
  <1>7. CASE RxSendRsp
    <2>1. CASE "FTC" \in tx_ready_mask
      BY <1>5, <1>7, <2>1 DEF RxSendRsp
    <2>2. CASE "FTC" \notin tx_ready_mask
      <3>1. rx' = <<Ev("FTC")>> \o Tail(rx) /\ rx # <<>>
        BY <1>7, <2>2 DEF RxSendRsp
      <3>2. 1 \in 1..Len(rx') /\ rx'[1].ev = "FTC"
        BY <3>1 DEF Ev, TypeOK, TypeThreads
      <3> QED
        BY <3>2 DEF RspInv, ResponseWillBeSent, StaleMask, OnItsWay
    <2> QED
      BY <2>1, <2>2
  <1>8. \/ RxSendEvent \/ RxTimeout \/ ota_wakeup_timeout_handler \/ OtherMsg \/ Connect
        \/ Disconnected \/ (\E c \in SUBSET {"FTC", "FTD"} : CccChanged(c)) \/ UNCHANGED vars
        => main' = main /\ tx_ready_mask' = tx_ready_mask
    BY DEF RxSendEvent, RxTimeout, ota_wakeup_timeout_handler, OtherMsg, Connect,
       Disconnected, CccChanged, otaCb, vars
  <1>9. CASE \/ HandleDisconnect \/ AsyncCheck \/ AsyncCount \/ AsyncSend \/ FtdRead
             \/ FtdUpdate \/ FtdNotify \/ FtdNext \/ RspCheck
    <2>1. tx_ready_mask' = tx_ready_mask /\ ~Sending
      BY <1>9 DEF HandleDisconnect, AsyncCheck, AsyncCount, AsyncSend, FtdRead, FtdUpdate,
         FtdNotify, FtdNext, RspCheck, MainAt, At, otaCb
    <2>2. main'.pc \notin {"async_store", "ftd_store"}
      <3>1. main \in Frame
        BY DEF TypeOK, TypeThreads
      <3>2. CASE HandleDisconnect \/ AsyncCount \/ AsyncSend \/ FtdUpdate \/ FtdNotify \/ FtdNext
        BY <3>1, <3>2 DEF HandleDisconnect, AsyncCount, AsyncSend, FtdUpdate, FtdNotify,
           FtdNext, Goto, Idle, Frame
      <3>3. CASE AsyncCheck
        BY <3>1, <3>3 DEF AsyncCheck, Idle, Frame
      <3>4. CASE RspCheck
        BY <3>1, <3>4 DEF RspCheck, Idle, Frame
      <3>5. CASE FtdRead
        <4>1. main' = Idle \/ \E step \in {"ftd_update", "ftd_next"} : \E n :
                                  main' = [main EXCEPT !.pc = step, !.n = n]
          BY <3>5 DEF FtdRead
        <4>2. ASSUME NEW step \in {"ftd_update", "ftd_next"}, NEW n,
                     main' = [main EXCEPT !.pc = step, !.n = n]
              PROVE  main'.pc \notin {"async_store", "ftd_store"}
          BY <3>1, <4>2 DEF Frame
        <4>3. CASE main' = Idle
          BY <4>3 DEF Idle
        <4> QED
          BY <4>1, <4>2, <4>3, Zenon
      <3> QED
        BY <1>9, <3>2, <3>3, <3>4, <3>5
    <2> QED
      BY <1>4, <2>1, <2>2 DEF RspInv, ResponseWillBeSent, StaleMask
  <1>10. CASE FtcSend \/ FtcLoad
    <2>1. main'.pc \in {"ftc_load", "ftc_store"}
      BY <1>10 DEF FtcSend, FtcLoad, LoadMask, Goto, TypeOK, TypeThreads, Frame
    <2> QED
      BY <2>1 DEF RspInv, ResponseWillBeSent, StaleMask
  <1>11. CASE FtcStore
    BY <1>11 DEF FtcStore, StoreMask, Idle, RspInv, ResponseWillBeSent, StaleMask
  <1>12. CASE AsyncLoad \/ FtdLoad
    <2>1. main'.mask = tx_ready_mask /\ tx_ready_mask' = tx_ready_mask /\ ~Sending
      BY <1>12 DEF AsyncLoad, FtdLoad, LoadMask, MainAt, At, TypeOK, TypeThreads, Frame, otaCb
    <2> QED
      BY <1>4, <2>1 DEF RspInv, ResponseWillBeSent, StaleMask
  <1>13. CASE AsyncStore \/ FtdStore
    <2>1. "FTC" \in tx_ready_mask' => Pending
      BY <1>13 DEF AsyncStore, FtdStore, StoreMask, MainAt, At, RspInv, StaleMask
    <2>2. main'.pc \in {"idle", "rsp_check"}
      BY <1>13 DEF AsyncStore, FtdStore, Goto, Idle, TypeOK, TypeThreads, Frame
    <2> QED
      BY <1>4, <2>1, <2>2 DEF RspInv, ResponseWillBeSent, StaleMask
  <1>14. CASE RspBuild
    <2>1. main'.pc = "rsp_queue"
      BY <1>14 DEF RspBuild, Goto, TypeOK, TypeThreads, Frame
    <2> QED
      BY <2>1 DEF RspInv, ResponseWillBeSent, StaleMask
  <1>15. CASE RspQueue
    <2>1. Pending'
      <3>1. CASE Room
        <4>1. msg_queue' = Append(msg_queue, "FTC")
          BY <1>15, <3>1 DEF RspQueue, MainSendEvent
        <4>2. Len(msg_queue') \in 1..Len(msg_queue') /\ msg_queue'[Len(msg_queue')] = "FTC"
          BY <4>1 DEF TypeOK, TypeThreads
        <4> QED
          BY <4>2 DEF OnItsWay
      <3>2. CASE ~Room
        BY <1>15, <3>2 DEF RspQueue, MainSendEvent
      <3> QED
        BY <3>1, <3>2
    <2> QED
      BY <2>1 DEF RspInv, ResponseWillBeSent, StaleMask
  <1>16. CASE FtdQueue
    <2>1. tx_ready_mask' = tx_ready_mask /\ ~Sending /\ main'.pc = "idle"
      BY <1>16 DEF FtdQueue, MainSendEvent, MainAt, At, Idle, otaCb
    <2> QED
      BY <1>4, <2>1 DEF RspInv, ResponseWillBeSent, StaleMask
  <1> QED
    BY <1>3, <1>5, <1>6, <1>7, <1>8, <1>9, <1>10, <1>11, <1>12, <1>13, <1>14, <1>15,
       <1>16 DEF Next, RxStep, MainStep, WorldStep

\* Whatever the client does, aborts and lost events included, a response that
\* ota_ftc_send_rsp has set up is sent or its event was dropped: the bit that
\* blocks every other response never outlives the event that clears it.
THEOREM OtaResponses == Safe => []ResponseWillBeSent
  <1>1. Init => RspInv
    BY DEF Init, InitRam, Idle, RspInv, ResponseWillBeSent, StaleMask
  <1>2. RspInv => ResponseWillBeSent
    BY DEF RspInv
  <1> QED
    BY OtaTypes, RspStep, <1>1, <1>2, PTL DEF Safe

(***************************************************************************)
(* Transfers, for a client that never aborts.  A GET is driven by a single *)
(* chunk event, which is to be queued, queued or being handled.            *)
(***************************************************************************)
ChunkToQueue == \E i \in 1..Len(rx) : rx[i].ev = "FTD"
ChunkQueued == \E i \in 1..Len(msg_queue) : msg_queue[i] = "FTD"
ChunkHandled == main.pc \in {"ftd_read", "ftd_update", "ftd_notify", "ftd_next", "ftd_queue"}

OneChunk ==
    /\ \A i, j \in 1..Len(msg_queue) : msg_queue[i] = "FTD" /\ msg_queue[j] = "FTD" => i = j
    /\ ChunkQueued => ~ChunkToQueue /\ ~ChunkHandled
    /\ ChunkToQueue => ~ChunkHandled

\* A handler leaves at most two things to do, the chunk event last.
RxShape == Len(rx) <= 2 /\ (Len(rx) = 2 => rx[1].ev # "FTD")

JobInFlash == job.addr + job.len < Width

StreamInv == StreamOwnsTransfer /\ OneChunk /\ RxShape

LEMMA StreamingDef == Streaming <=> ChunkToQueue \/ ChunkQueued \/ ChunkHandled
  BY DEF Streaming, OnItsWay, ChunkToQueue, ChunkQueued, ChunkHandled

\* Steps that add no chunk event.
LEMMA NoNewChunk ==
  ASSUME TypeOK, StreamInv, RxShape',
         ChunkToQueue' => ChunkToQueue, ChunkHandled' => ChunkHandled,
         \/ msg_queue' = msg_queue
         \/ \E e \in Events \ {"FTD"} : msg_queue' = Append(msg_queue, e),
         ft_in_progress' = ft_in_progress \/ ~Streaming
  PROVE  StreamInv'
  <1>1. CASE msg_queue' = msg_queue
    BY <1>1, StreamingDef DEF StreamInv, StreamOwnsTransfer, OneChunk, ChunkQueued,
       Streaming, OnItsWay, ChunkToQueue, ChunkHandled
  <1>2. ASSUME NEW e \in Events \ {"FTD"}, msg_queue' = Append(msg_queue, e)
        PROVE  StreamInv'
    <2>1. Len(msg_queue') = Len(msg_queue) + 1 /\ Len(msg_queue) \in Nat
      BY <1>2 DEF TypeOK, TypeThreads
    <2>2. \A i \in 1..Len(msg_queue') :
             msg_queue'[i] = "FTD" => i \in 1..Len(msg_queue) /\ msg_queue[i] = "FTD"
      BY <1>2, <2>1 DEF TypeOK, TypeThreads
    <2>3. ChunkQueued' => ChunkQueued
      BY <2>2 DEF ChunkQueued
    <2>4. OneChunk'
      BY <2>2, <2>3 DEF StreamInv, OneChunk
    <2>5. Streaming' => Streaming
      BY <2>3 DEF Streaming, OnItsWay, ChunkToQueue, ChunkQueued, ChunkHandled
    <2> QED
      BY <2>4, <2>5 DEF StreamInv, StreamOwnsTransfer
  <1> QED
    BY <1>1, <1>2

\* Handlers that leave the RX thread no chunk event to queue.
LEMMA HandlerStep ==
  ASSUME TypeOK, StreamInv, UNCHANGED <<msg_queue, main>>,
         \/ rx' = <<>>
         \/ \E w \in Work : rx' = <<w>> /\ w.ev # "FTD"
         \/ \E v, w \in Work : rx' = <<v, w>> /\ v.ev # "FTD" /\ w.ev # "FTD",
         ft_in_progress' = ft_in_progress \/ ~Streaming
  PROVE  StreamInv'
  <1>1. RxShape' /\ ~ChunkToQueue'
    <2>1. CASE rx' = <<>>
      BY <2>1 DEF RxShape, ChunkToQueue
    <2>2. ASSUME NEW w \in Work, rx' = <<w>>, w.ev # "FTD"
          PROVE  RxShape' /\ ~ChunkToQueue'
      BY <2>2 DEF RxShape, ChunkToQueue
    <2>3. ASSUME NEW v \in Work, NEW w \in Work, rx' = <<v, w>>,
                 v.ev # "FTD", w.ev # "FTD"
          PROVE  RxShape' /\ ~ChunkToQueue'
      BY <2>3 DEF RxShape, ChunkToQueue
    <2> QED
      BY <2>1, <2>2, <2>3
  <1> QED
    BY <1>1, NoNewChunk DEF ChunkHandled

LEMMA StreamStep ==
  ASSUME "ABORT" \notin Requests, TypeOK, StreamInv, [Next]_vars
  PROVE  StreamInv'
  <1> USE DEF ft, counts, wake, history, world
  <1>1. Busy \/ ~Streaming
    BY DEF Busy, StreamInv, StreamOwnsTransfer
  <1>2. ASSUME NEW f \in Files, ota_ftc_proc_put_req(f) \/ ota_ftc_proc_verify_req(f)
                                  \/ ota_ftc_proc_erase_req(f)
        PROVE  StreamInv'
    <2>1. \E op \in Responses, status \in Statuses : rx' = <<Rsp(op, status)>>
      BY <1>2 DEF ota_ftc_proc_put_req, ota_ftc_proc_verify_req, ota_ftc_proc_erase_req,
         Responses, Statuses
    <2>2. \E w \in Work : rx' = <<w>> /\ w.ev # "FTD"
      BY <2>1, WorkTypes DEF Rsp
    <2>3. ft_in_progress' = ft_in_progress \/ ~Streaming
      BY <1>1, <1>2 DEF ota_ftc_proc_put_req, ota_ftc_proc_verify_req,
         ota_ftc_proc_erase_req
    <2>4. UNCHANGED <<msg_queue, main>>
      BY <1>2 DEF ota_ftc_proc_put_req, ota_ftc_proc_verify_req, ota_ftc_proc_erase_req
    <2> QED
      BY <2>2, <2>3, <2>4, HandlerStep
  <1>3. ASSUME NEW f \in Files, NEW zero \in BOOLEAN, ota_ftc_proc_get_req(f, zero)
        PROVE  StreamInv'
    <2>1. UNCHANGED <<msg_queue, main>>
      BY <1>3 DEF ota_ftc_proc_get_req
    <2>2. CASE Busy
      <3>1. rx' = <<Rsp("GET_RSP", "IN_PROGRESS")>> /\ ft_in_progress' = ft_in_progress
        BY <1>3, <2>2 DEF ota_ftc_proc_get_req
      <3>2. Rsp("GET_RSP", "IN_PROGRESS") \in Work /\ Rsp("GET_RSP", "IN_PROGRESS").ev # "FTD"
        BY WorkTypes DEF Responses, Statuses, Rsp
      <3> QED
        BY <2>1, <3>1, <3>2, HandlerStep
    <2>3. CASE ~Busy
      <3>1. ft_in_progress' = "GET" /\ rx' = <<Rsp("GET_RSP", "SUCCESS"), Ev("FTD")>>
        BY <1>3, <2>3 DEF ota_ftc_proc_get_req, SetUp
      <3>2. ~ChunkQueued /\ ~ChunkHandled
        BY <1>1, <2>3, StreamingDef
      <3>3. ~ChunkQueued' /\ ~ChunkHandled'
        BY <2>1, <3>2 DEF ChunkQueued, ChunkHandled
      <3>4. RxShape'
        BY <3>1 DEF RxShape, Rsp
      <3> QED
        BY <2>1, <3>1, <3>3, <3>4 DEF StreamInv, StreamOwnsTransfer, OneChunk, ChunkQueued
    <2> QED
      BY <2>2, <2>3
  <1>4. ASSUME NEW len \in 1..Width-1, ota_ftd_write(len)
        PROVE  StreamInv'
    <2>1. ~Streaming
      BY <1>4 DEF ota_ftd_write, Expected, StreamInv, StreamOwnsTransfer
    <2>2. \/ rx' = <<>>
          \/ \E w \in Work : rx' = <<w>> /\ w.ev # "FTD"
          \/ \E v, w \in Work : rx' = <<v, w>> /\ v.ev # "FTD" /\ w.ev # "FTD"
      <3>1. Rsp("EOF", "SUCCESS") \in Work /\ Rsp("EOF", "SUCCESS").ev # "FTD"
        BY WorkTypes DEF Responses, Statuses, Rsp
      <3>2. Ev("ASYNC") \in Work /\ Ev("ASYNC").ev # "FTD"
        BY WorkTypes DEF Events, Ev
      <3> QED
        BY <1>4, <3>1, <3>2 DEF ota_ftd_write, AckWork
    <2>3. UNCHANGED <<msg_queue, main>>
      BY <1>4 DEF ota_ftd_write
    <2> QED
      BY <2>1, <2>2, <2>3, HandlerStep
  <1>5. CASE ota_ftc_proc_get_version_req \/ ota_ftc_proc_reset \/ ota_dc_set_conn_param_req
    <2>1. \/ rx' = <<Rsp("VERSION_RSP", "SUCCESS")>>
          \/ \E e \in Events \ {"FTD"} : rx' = <<Ev(e)>>
      BY <1>5 DEF ota_ftc_proc_get_version_req, ota_ftc_proc_reset,
         ota_dc_set_conn_param_req, Events
    <2>2. \E w \in Work : rx' = <<w>> /\ w.ev # "FTD"
      BY <2>1, WorkTypes DEF Rsp, Ev, Responses, Statuses
    <2>3. UNCHANGED <<msg_queue, main, ft_in_progress>>
      BY <1>5 DEF ota_ftc_proc_get_version_req, ota_ftc_proc_reset, ota_dc_set_conn_param_req
    <2> QED
      BY <2>2, <2>3, HandlerStep
  <1>6. ~ota_ftc_proc_abort
    BY DEF ota_ftc_proc_abort, Writes
  <1>7. CASE RxSendRsp
    <2>1. rx \in Seq(Work) /\ rx # <<>> /\ UNCHANGED <<msg_queue, main, ft_in_progress>>
      BY <1>7 DEF RxSendRsp, TypeOK, TypeThreads
    <2>2. CASE rx' = Tail(rx)
      <3>1. RxShape' /\ (ChunkToQueue' => ChunkToQueue)
        <4>1. Len(rx') = Len(rx) - 1 /\ \A i \in 1..Len(rx') : rx'[i] = rx[i + 1] /\ i + 1 \in 1..Len(rx)
          BY <2>1, <2>2
        <4> QED
          BY <2>1, <4>1 DEF RxShape, ChunkToQueue, StreamInv
      <3> QED
        BY <2>1, <3>1, NoNewChunk DEF ChunkHandled
    <2>3. CASE rx' = <<Ev("FTC")>> \o Tail(rx)
      <3>1. Len(rx') = Len(rx) /\ rx'[1].ev = "FTC" /\ \A i \in 2..Len(rx) : rx'[i] = rx[i]
        BY <2>1, <2>3 DEF Ev
      <3>2. RxShape' /\ (ChunkToQueue' => ChunkToQueue)
        BY <2>1, <3>1 DEF RxShape, ChunkToQueue, StreamInv
      <3> QED
        BY <2>1, <3>2, NoNewChunk DEF ChunkHandled
    <2> QED
      BY <1>7, <2>2, <2>3 DEF RxSendRsp
  <1>8. CASE RxTimeout
    <2>1. rx \in Seq(Work) /\ rx # <<>> /\ UNCHANGED <<msg_queue, main, ft_in_progress>>
      BY <1>8 DEF RxTimeout, TypeOK, TypeThreads, otaCb
    <2>2. Len(rx') = Len(rx) - 1 /\ \A i \in 1..Len(rx') : rx'[i] = rx[i + 1] /\ i + 1 \in 1..Len(rx)
      BY <1>8, <2>1 DEF RxTimeout
    <2>3. RxShape' /\ (ChunkToQueue' => ChunkToQueue)
      BY <2>1, <2>2 DEF RxShape, ChunkToQueue, StreamInv
    <2> QED
      BY <2>1, <2>3, NoNewChunk DEF ChunkHandled
  <1>9. CASE RxSendEvent
    <2>1. rx \in Seq(Work) /\ rx # <<>> /\ msg_queue \in Seq(Events)
          /\ UNCHANGED <<main, ft_in_progress>>
      BY <1>9 DEF RxSendEvent, TypeOK, TypeThreads, otaCb
    <2>2. Head(rx).ev \in Events /\ Head(rx) = rx[1]
      <3>1. Head(rx) \in Work
        BY <2>1
      <3> QED
        BY <1>9, <2>1, <3>1 DEF RxSendEvent, Work
    <2>3. CASE ~Room
      <3>1. UNCHANGED <<msg_queue, rx>>
        BY <1>9, <2>3 DEF RxSendEvent
      <3>2. RxShape' /\ (ChunkToQueue' => ChunkToQueue)
        BY <3>1 DEF RxShape, ChunkToQueue, StreamInv
      <3> QED
        BY <2>1, <3>1, <3>2, NoNewChunk DEF ChunkHandled
    <2>4. CASE Room
      <3>1. rx' = Tail(rx) /\ msg_queue' = Append(msg_queue, Head(rx).ev)
        BY <1>9, <2>4 DEF RxSendEvent
      <3>2. Len(rx') = Len(rx) - 1 /\ \A i \in 1..Len(rx') : rx'[i] = rx[i + 1] /\ i + 1 \in 1..Len(rx)
        BY <2>1, <3>1
      <3>3. RxShape' /\ (ChunkToQueue' => ChunkToQueue)
        BY <2>1, <3>2 DEF RxShape, ChunkToQueue, StreamInv
      <3>4. CASE Head(rx).ev # "FTD"
        BY <2>1, <2>2, <3>1, <3>3, <3>4, NoNewChunk DEF ChunkHandled
      <3>5. CASE Head(rx).ev = "FTD"
        <4>1. Len(rx) = 1 /\ ChunkToQueue
          <5>1. 1 \in 1..Len(rx) /\ rx[1].ev = "FTD" /\ Len(rx) \in Nat \ {0}
            BY <2>1, <2>2, <3>5
          <5>2. Len(rx) = 1
            <6>1. Len(rx) <= 2 /\ Len(rx) # 2
              BY <5>1 DEF StreamInv, RxShape
            <6>2. Len(rx) \in Nat /\ Len(rx) # 0
              BY <5>1
            <6>3. \A n \in Nat : n # 0 /\ n # 2 /\ n <= 2 => n = 1
              OBVIOUS
            <6> QED
              BY <6>1, <6>2, <6>3
          <5>3. ChunkToQueue
            BY <5>1 DEF ChunkToQueue
          <5> QED
            BY <5>2, <5>3
        <4>2. ft_in_progress = "GET"
          BY <4>1, StreamingDef DEF StreamInv, StreamOwnsTransfer
        <4>3. ~ChunkQueued /\ ~ChunkHandled
          BY <4>1 DEF StreamInv, OneChunk
        <4>4. ~ChunkToQueue' /\ ~ChunkHandled'
          BY <2>1, <3>2, <4>1, <4>3 DEF ChunkToQueue, ChunkHandled
        <4>5. \A i \in 1..Len(msg_queue') : msg_queue'[i] = "FTD" => i = Len(msg_queue')
          BY <2>1, <3>1, <4>3 DEF ChunkQueued
        <4>6. OneChunk'
          BY <4>4, <4>5 DEF OneChunk
        <4> QED
          BY <2>1, <3>3, <4>2, <4>6 DEF StreamInv, StreamOwnsTransfer
      <3> QED
        BY <3>4, <3>5
    <2> QED
      BY <2>3, <2>4
  <1>10. CASE Receive
    <2>1. /\ msg_queue \in Seq(Events) /\ msg_queue # <<>> /\ main.pc = "idle"
          /\ UNCHANGED <<rx, ft_in_progress>> /\ msg_queue' = Tail(msg_queue)
          /\ main'.pc = FirstStep[Head(msg_queue)]
      BY <1>10 DEF Receive, MainAt, At, Goto, TypeOK, TypeThreads, Frame, otaCb
    <2>2. Head(msg_queue) \in Events /\ Head(msg_queue) = msg_queue[1]
      BY <2>1
    <2>3. Len(msg_queue') = Len(msg_queue) - 1 /\ \A i \in 1..Len(msg_queue') :
             msg_queue'[i] = msg_queue[i + 1] /\ i + 1 \in 1..Len(msg_queue)
      BY <2>1
    <2>4. RxShape' /\ (ChunkToQueue' <=> ChunkToQueue)
      BY <2>1 DEF RxShape, ChunkToQueue, StreamInv
    <2>5. ChunkQueued' => ChunkQueued
      BY <2>3 DEF ChunkQueued
    <2>6. \A i, j \in 1..Len(msg_queue') :
             msg_queue'[i] = "FTD" /\ msg_queue'[j] = "FTD" => i = j
      <3> SUFFICES ASSUME NEW i \in 1..Len(msg_queue'), NEW j \in 1..Len(msg_queue'),
                          msg_queue'[i] = "FTD", msg_queue'[j] = "FTD"
                   PROVE  i = j
        OBVIOUS
      <3>1. i + 1 = j + 1
        BY <2>3 DEF StreamInv, OneChunk
      <3> QED
        BY <3>1
    <2>7. CASE Head(msg_queue) = "FTD"
      <3>1. ChunkQueued
        BY <2>1, <2>2, <2>7 DEF ChunkQueued
      <3>2. ft_in_progress = "GET" /\ ~ChunkToQueue
        BY <3>1, StreamingDef DEF StreamInv, StreamOwnsTransfer, OneChunk
      <3>3. ~ChunkQueued'
        <4>1. ASSUME NEW i \in 1..Len(msg_queue'), msg_queue'[i] = "FTD"
              PROVE  FALSE
          <5>1. i + 1 \in 1..Len(msg_queue) /\ 1 \in 1..Len(msg_queue)
                /\ msg_queue[i + 1] = "FTD" /\ msg_queue[1] = "FTD"
            BY <2>1, <2>2, <2>3, <2>7, <4>1
          <5>2. i + 1 = 1
            BY <5>1 DEF StreamInv, OneChunk
          <5> QED
            BY <5>2
        <4> QED
          BY <4>1 DEF ChunkQueued
      <3> QED
        BY <2>1, <2>4, <2>6, <3>2, <3>3 DEF StreamInv, StreamOwnsTransfer, OneChunk
    <2>8. CASE Head(msg_queue) # "FTD"
      <3>1. ~ChunkHandled'
        BY <2>1, <2>2, <2>8 DEF FirstStep, Events, ChunkHandled
      <3>2. OneChunk'
        BY <2>4, <2>5, <2>6, <3>1 DEF StreamInv, OneChunk
      <3>3. Streaming' => Streaming
        BY <2>4, <2>5, <3>1 DEF Streaming, OnItsWay, ChunkToQueue, ChunkQueued, ChunkHandled
      <3> QED
        BY <2>1, <2>4, <3>2, <3>3 DEF StreamInv, StreamOwnsTransfer
    <2> QED
      BY <2>7, <2>8
  <1>11. CASE FtdQueue
    <2>1. /\ ChunkHandled /\ main'.pc = "idle" /\ UNCHANGED <<rx, ft_in_progress>>
          /\ msg_queue' = IF Room THEN Append(msg_queue, "FTD") ELSE msg_queue
      BY <1>11 DEF FtdQueue, MainSendEvent, MainAt, At, Idle, ChunkHandled, otaCb
    <2>2. ft_in_progress = "GET" /\ ~ChunkQueued /\ ~ChunkToQueue
      BY <2>1, StreamingDef DEF StreamInv, StreamOwnsTransfer, OneChunk
    <2>3. \A i \in 1..Len(msg_queue') : msg_queue'[i] = "FTD" => i = Len(msg_queue')
      BY <2>1, <2>2 DEF ChunkQueued, TypeOK, TypeThreads
    <2>4. ~ChunkToQueue' /\ ~ChunkHandled' /\ RxShape'
      BY <2>1, <2>2 DEF ChunkToQueue, ChunkHandled, RxShape, StreamInv
    <2>5. OneChunk'
      BY <2>3, <2>4 DEF OneChunk
    <2> QED
      BY <2>1, <2>2, <2>4, <2>5 DEF StreamInv, StreamOwnsTransfer
  <1>12. CASE FtdNext
    <2>1. ChunkHandled /\ UNCHANGED <<rx, msg_queue>>
      BY <1>12 DEF FtdNext, MainAt, At, ChunkHandled
    <2>2. ~ChunkQueued /\ ~ChunkToQueue
      BY <2>1 DEF StreamInv, OneChunk
    <2>3. ~ChunkQueued' /\ ~ChunkToQueue' /\ RxShape'
      BY <2>1, <2>2 DEF ChunkQueued, ChunkToQueue, RxShape, StreamInv
    <2>4. ~ChunkHandled' \/ ft_in_progress' = ft_in_progress
      BY <1>12 DEF FtdNext, Goto, ChunkHandled, TypeOK, TypeThreads, Frame
    <2>5. Streaming' => ft_in_progress' = "GET"
      BY <2>1, <2>3, <2>4, StreamingDef DEF StreamInv, StreamOwnsTransfer, Streaming,
         OnItsWay, ChunkQueued, ChunkToQueue, ChunkHandled
    <2>6. OneChunk'
      BY <2>3 DEF OneChunk, ChunkQueued
    <2> QED
      BY <2>3, <2>5, <2>6 DEF StreamInv, StreamOwnsTransfer
  <1>13. CASE FtdRead \/ FtdUpdate \/ FtdNotify
    <2>1. ChunkHandled /\ UNCHANGED <<msg_queue, rx, ft_in_progress>>
      BY <1>13 DEF FtdRead, FtdUpdate, FtdNotify, MainAt, At, ChunkHandled, otaCb
    <2>2. RxShape' /\ (ChunkToQueue' => ChunkToQueue)
      BY <2>1 DEF RxShape, ChunkToQueue, StreamInv
    <2> QED
      BY <2>1, <2>2, NoNewChunk
  <1>14. CASE \/ HandleDisconnect \/ FtcSend \/ FtcLoad \/ FtcStore \/ AsyncCheck
              \/ AsyncCount \/ AsyncSend \/ AsyncLoad \/ AsyncStore \/ FtdLoad
              \/ FtdStore \/ RspCheck \/ RspBuild
    <2>1. UNCHANGED <<msg_queue, rx, ft_in_progress>>
      BY <1>14 DEF HandleDisconnect, FtcSend, FtcLoad, FtcStore, AsyncCheck, AsyncCount,
         AsyncSend, AsyncLoad, AsyncStore, FtdLoad, FtdStore, RspCheck, RspBuild,
         LoadMask, StoreMask, otaCb
    <2>2. ~ChunkHandled'
      <3>1. main \in Frame
        BY DEF TypeOK, TypeThreads
      <3>2. CASE \/ HandleDisconnect \/ FtcSend \/ FtcStore \/ AsyncCount \/ AsyncSend
                 \/ AsyncStore \/ FtdStore \/ RspBuild
        BY <3>1, <3>2 DEF HandleDisconnect, FtcSend, FtcStore, AsyncCount, AsyncSend,
           AsyncStore, FtdStore, RspBuild, Goto, Idle, Frame, ChunkHandled
      <3>3. CASE FtcLoad \/ AsyncLoad \/ FtdLoad
        BY <3>1, <3>3 DEF FtcLoad, AsyncLoad, FtdLoad, LoadMask, Frame, ChunkHandled
      <3>4. CASE AsyncCheck
        BY <3>1, <3>4 DEF AsyncCheck, Idle, Frame, ChunkHandled
      <3>5. CASE RspCheck
        BY <3>1, <3>5 DEF RspCheck, Idle, Frame, ChunkHandled
      <3> QED
        BY <1>14, <3>2, <3>3, <3>4, <3>5
    <2>3. RxShape' /\ (ChunkToQueue' => ChunkToQueue)
      BY <2>1 DEF RxShape, ChunkToQueue, StreamInv
    <2> QED
      BY <2>1, <2>2, <2>3, NoNewChunk
  <1>15. CASE RspQueue \/ OtherMsg
    <2>1. /\ UNCHANGED <<rx, ft_in_progress>>
          /\ \/ msg_queue' = msg_queue
             \/ \E e \in Events \ {"FTD"} : msg_queue' = Append(msg_queue, e)
      BY <1>15 DEF RspQueue, OtherMsg, MainSendEvent, Events, otaCb
    <2>2. ChunkHandled' => ChunkHandled
      BY <1>15 DEF RspQueue, OtherMsg, MainSendEvent, Idle, ChunkHandled
    <2>3. RxShape' /\ (ChunkToQueue' => ChunkToQueue)
      BY <2>1 DEF RxShape, ChunkToQueue, StreamInv
    <2> QED
      BY <2>1, <2>2, <2>3, NoNewChunk
  <1>16. CASE \/ InvalidWrite \/ ota_wakeup_timeout_handler \/ Connect \/ Disconnected
              \/ (\E c \in SUBSET {"FTC", "FTD"} : CccChanged(c)) \/ UNCHANGED vars
    <2>1. UNCHANGED <<msg_queue, rx, main, ft_in_progress>>
      BY <1>16 DEF InvalidWrite, ota_wakeup_timeout_handler, Connect, Disconnected,
         CccChanged, otaCb, vars
    <2>2. RxShape' /\ (ChunkToQueue' => ChunkToQueue)
      BY <2>1 DEF RxShape, ChunkToQueue, StreamInv
    <2> QED
      BY <2>1, <2>2, NoNewChunk DEF ChunkHandled
  <1>17. CASE Reboot
    <2>1. msg_queue' = <<>> /\ rx' = <<>> /\ main' = Idle
      BY <1>17 DEF Reboot
    <2> QED
      BY <2>1 DEF Idle, StreamInv, StreamOwnsTransfer, Streaming, OnItsWay, OneChunk,
         ChunkQueued, ChunkToQueue, ChunkHandled, RxShape
  <1> QED
    BY <1>2, <1>3, <1>4, <1>5, <1>6, <1>7, <1>8, <1>9, <1>10, <1>11, <1>12, <1>13,
       <1>14, <1>15, <1>16, <1>17 DEF Next, RequestStep, RxStep, MainStep, WorldStep

\* Counters that stay below the width do not wrap around.
LEMMA AddSmall ==
  ASSUME NEW a \in Nat, NEW b \in Nat, a + b < Width PROVE Add(a, b) = a + b
  BY BoundsAssumption DEF Add

LEMMA SubSmall ==
  ASSUME NEW a \in 0..Width-1, NEW b \in Nat, b <= a PROVE Sub(a, b) = a - b
  BY BoundsAssumption DEF Sub

LEMMA PutStep ==
  ASSUME "ABORT" \notin Requests, TypeOK, StreamInv, PutOnTrack, JobInFlash, [Next]_vars
  PROVE  PutOnTrack' /\ JobInFlash'
  <1> USE DEF ft, counts, wake, history, world
  <1>1. CASE UNCHANGED <<ft, pending_count, job>>
    BY <1>1 DEF PutOnTrack, JobInFlash
  <1>2. ASSUME NEW f \in Files, ota_ftc_proc_put_req(f)
        PROVE  PutOnTrack' /\ JobInFlash'
    <2>1. CASE Busy
      BY <1>1, <1>2, <2>1 DEF ota_ftc_proc_put_req
    <2>2. CASE ~Busy
      <3>1. /\ ft_addr' = f.addr /\ ft_len' = f.len /\ job' = f /\ pending_count' = 0
        BY <1>2, <2>2 DEF ota_ftc_proc_put_req, SetUp
      <3>2. f.addr \in Nat /\ f.len \in Nat /\ f.addr + f.len < Width
        BY FilesAssumption DEF FlashRange
      <3> QED
        BY <3>1, <3>2 DEF PutOnTrack, JobInFlash
    <2> QED
      BY <2>1, <2>2
  <1>3. ASSUME NEW f \in Files, \/ ota_ftc_proc_verify_req(f) \/ ota_ftc_proc_erase_req(f)
                               \/ \E zero \in BOOLEAN : ota_ftc_proc_get_req(f, zero)
        PROVE  PutOnTrack' /\ JobInFlash'
    <2>1. CASE Busy
      BY <1>1, <1>3, <2>1 DEF ota_ftc_proc_verify_req, ota_ftc_proc_erase_req,
         ota_ftc_proc_get_req
    <2>2. CASE ~Busy
      <3>1. ft_in_progress' # "PUT" /\ job' \in Files \cup {Table}
        BY <1>3, <2>2 DEF ota_ftc_proc_verify_req, ota_ftc_proc_erase_req,
           ota_ftc_proc_get_req, SetUp
      <3> QED
        BY <3>1, FilesAssumption DEF PutOnTrack, JobInFlash
    <2> QED
      BY <2>1, <2>2
  <1>4. ASSUME NEW len \in 1..Width-1, ota_ftd_write(len)
        PROVE  PutOnTrack' /\ JobInFlash'
    <2>1. /\ len > 0 /\ len <= ft_len
          /\ ft_addr' = Add(ft_addr, len) /\ ft_len' = Sub(ft_len, len)
          /\ pending_count' = Add(pending_count, len) /\ job' = job
      BY <1>4 DEF ota_ftd_write, Expected, TypeOK, TypeCb
    <2>2. ft_addr = job.addr + pending_count /\ ft_len = job.len - pending_count
      BY <1>4 DEF ota_ftd_write, Expected, PutOnTrack
    <2>3. /\ ft_addr \in 0..Width-1 /\ ft_len \in 0..Width-1 /\ pending_count \in 0..Width-1
          /\ job.addr \in Nat /\ job.len \in Nat /\ Width \in Nat
      BY BoundsAssumption DEF TypeOK, TypeCb, TypeWorld, FlashRange
    <2>4. ft_addr + len < Width /\ pending_count + len < Width
      BY <2>1, <2>2, <2>3 DEF JobInFlash
    <2>5. ft_addr' = ft_addr + len /\ ft_len' = ft_len - len /\ pending_count' = pending_count + len
      BY <2>1, <2>3, <2>4, AddSmall, SubSmall
    <2>6. CASE Last(len)
      BY <1>4, <2>1, <2>6 DEF ota_ftd_write, PutOnTrack, JobInFlash
    <2>7. CASE ~Last(len)
      BY <2>1, <2>2, <2>3, <2>5, <2>7 DEF Last, PutOnTrack, JobInFlash
    <2> QED
      BY <2>6, <2>7
  <1>5. CASE FtdUpdate
    <2>1. Streaming
      BY <1>5 DEF FtdUpdate, MainAt, At, Streaming
    <2>2. ft_in_progress' # "PUT" /\ job' = job
      BY <1>5, <2>1 DEF FtdUpdate, StreamInv, StreamOwnsTransfer
    <2> QED
      BY <2>2 DEF PutOnTrack, JobInFlash
  <1>6. CASE FtdNext
    BY <1>6 DEF FtdNext, PutOnTrack, JobInFlash
  <1>7. CASE Reboot
    BY <1>7, BoundsAssumption DEF Reboot, ZeroRange, PutOnTrack, JobInFlash
  <1>8. ~ota_ftc_proc_abort
    BY DEF ota_ftc_proc_abort, Writes
  <1>9. \/ ota_ftc_proc_get_version_req \/ ota_ftc_proc_reset \/ ota_dc_set_conn_param_req
        \/ InvalidWrite \/ RxStep \/ Receive \/ HandleDisconnect \/ FtcSend \/ FtcLoad
        \/ FtcStore \/ AsyncCheck \/ AsyncCount \/ AsyncSend \/ AsyncLoad \/ AsyncStore
        \/ FtdRead \/ FtdNotify \/ FtdLoad \/ FtdStore \/ RspCheck \/ RspBuild
        \/ RspQueue \/ FtdQueue \/ ota_wakeup_timeout_handler \/ OtherMsg \/ Connect
        \/ Disconnected \/ (\E c \in SUBSET {"FTC", "FTD"} : CccChanged(c)) \/ UNCHANGED vars
        => UNCHANGED <<ft, pending_count, job>>
    BY DEF ota_ftc_proc_get_version_req, ota_ftc_proc_reset, ota_dc_set_conn_param_req,
       InvalidWrite, RxStep, RxSendRsp, RxSendEvent, RxTimeout, Receive, HandleDisconnect,
       FtcSend, FtcLoad, FtcStore, AsyncCheck, AsyncCount, AsyncSend, AsyncLoad,
       AsyncStore, FtdRead, FtdNotify, FtdLoad, FtdStore, RspCheck, RspBuild, RspQueue,
       FtdQueue, LoadMask, StoreMask, MainSendEvent, ota_wakeup_timeout_handler, OtherMsg,
       Connect, Disconnected, CccChanged, otaCb, vars
  <1> QED
    BY <1>1, <1>2, <1>3, <1>4, <1>5, <1>6, <1>7, <1>8, <1>9
       DEF Next, RequestStep, MainStep, WorldStep

LEMMA TransferInv ==
  ASSUME "ABORT" \notin Requests
  PROVE  Safe => [](StreamInv /\ PutOnTrack /\ JobInFlash)
  <1> DEFINE Inv == StreamInv /\ PutOnTrack /\ JobInFlash
  <1>1. Init => Inv
    BY BoundsAssumption DEF Init, InitRam, Idle, ZeroRange, StreamInv, StreamOwnsTransfer,
       Streaming, OnItsWay, OneChunk, ChunkQueued, ChunkToQueue, ChunkHandled, RxShape,
       PutOnTrack, JobInFlash
  <1>2. TypeOK /\ Inv /\ [Next]_vars => Inv'
    BY StreamStep, PutStep
  <1> HIDE DEF Inv
  <1>3. Safe => []Inv
    BY OtaTypes, <1>1, <1>2, PTL DEF Safe
  <1> QED
    BY <1>3 DEF Inv

\* Whatever a client that never aborts does, and whatever events are lost: the
\* main loop works on ft_addr and ft_len only while the GET it streams is in
\* progress, and a PUT writes its range front to back without a gap.
THEOREM OtaTransfers ==
  ASSUME "ABORT" \notin Requests
  PROVE  Safe => [](StreamOwnsTransfer /\ PutOnTrack)
  <1>1. StreamInv /\ PutOnTrack /\ JobInFlash => StreamOwnsTransfer /\ PutOnTrack
    BY DEF StreamInv
  <1> QED
    BY TransferInv, <1>1, PTL

(***************************************************************************)
(* The first connection of a client that awaits the answers and does not   *)
(* abort.  The proof goes by what is queued and in which order.            *)
(***************************************************************************)
\* Event e is in queue q; every d in it is ahead of every e (for d = e: there
\* is at most one).
Has(q, e) == \E i \in 1..Len(q) : q[i] = e
Before(q, d, e) == \A i, j \in 1..Len(q) : q[i] = d /\ q[j] = e => i <= j

\* The RX thread still has to queue e, or to set up response m.
Todo(r, e) == \E i \in 1..Len(r) : r[i].ev = e
Reply(r, m) == \E i \in 1..Len(r) : r[i].ev = "RSP" /\ r[i].rsp = m

\* The work that a handler leaves: at most two things.
PairShape(v, w) == \/ v.ev \in {"RSP", "FTC"} /\ w.ev = "FTD"
                   \/ v.ev = "ASYNC" /\ w.ev = "RSP"
Shape(r) == Len(r) <= 2 /\ (Len(r) = 2 => PairShape(r[1], r[2]))

LEMMA OnItsWayDef == \A e : OnItsWay(e) <=> Has(msg_queue, e) \/ Todo(rx, e)
  BY DEF OnItsWay, Has, Todo

LEMMA HasAppend ==
  ASSUME NEW q \in Seq(Events), NEW e \in Events
  PROVE  /\ \A x : Has(Append(q, e), x) <=> Has(q, x) \/ x = e
         /\ \A x, y : Before(q, x, y) /\ (e = x => ~Has(q, y)) => Before(Append(q, e), x, y)
  <1> DEFINE a == Append(q, e)
  <1>1. /\ Len(a) = Len(q) + 1 /\ Len(q) \in Nat /\ a[Len(q) + 1] = e
        /\ \A i \in 1..Len(q) : a[i] = q[i]
    OBVIOUS
  <1> HIDE DEF a
  <1>2. \A i \in 1..Len(a) : i \in 1..Len(q) \/ i = Len(q) + 1
    BY <1>1
  <1>3. ASSUME NEW x PROVE Has(a, x) <=> Has(q, x) \/ x = e
    <2>1. Has(q, x) \/ x = e => Has(a, x)
      BY <1>1 DEF Has
    <2>2. Has(a, x) => Has(q, x) \/ x = e
      BY <1>1, <1>2 DEF Has
    <2> QED
      BY <2>1, <2>2
  <1>4. ASSUME NEW x, NEW y, Before(q, x, y), e = x => ~Has(q, y),
               NEW i \in 1..Len(a), NEW j \in 1..Len(a), a[i] = x, a[j] = y
        PROVE  i <= j
    <2>1. CASE j = Len(q) + 1
      BY <1>1, <2>1
    <2>2. CASE j \in 1..Len(q) /\ i = Len(q) + 1
      BY <1>1, <1>4, <2>2 DEF Has
    <2>3. CASE j \in 1..Len(q) /\ i \in 1..Len(q)
      BY <1>1, <1>4, <2>3 DEF Before
    <2> QED
      BY <1>2, <2>1, <2>2, <2>3
  <1>5. \A x, y : Before(q, x, y) /\ (e = x => ~Has(q, y)) => Before(a, x, y)
    BY <1>4 DEF Before
  <1> QED
    BY <1>3, <1>5 DEF a

LEMMA HasTail ==
  ASSUME NEW q \in Seq(Events), q # <<>>
  PROVE  /\ Head(q) \in Events /\ Has(q, Head(q))
         /\ \A x : Has(Tail(q), x) => Has(q, x)
         /\ \A x : Has(q, x) => Has(Tail(q), x) \/ x = Head(q)
         /\ \A x, y : Before(q, x, y) => Before(Tail(q), x, y)
         /\ \A x, y : Before(q, x, y) /\ Head(q) = y => ~Has(Tail(q), x)
  <1> DEFINE t == Tail(q)
  <1>1. /\ Len(q) \in Nat /\ Len(q) > 0 /\ Len(t) = Len(q) - 1
        /\ \A i \in 1..Len(t) : i + 1 \in 1..Len(q) /\ t[i] = q[i + 1]
        /\ Head(q) = q[1] /\ Head(q) \in Events
    OBVIOUS
  <1> HIDE DEF t
  <1>2. \A i \in 1..Len(q) : i = 1 \/ (i - 1 \in 1..Len(t) /\ t[i - 1] = q[i])
    BY <1>1
  <1>3. \A x : Has(t, x) => Has(q, x)
    BY <1>1 DEF Has
  <1>4. \A x : Has(q, x) => Has(t, x) \/ x = Head(q)
    BY <1>1, <1>2 DEF Has
  <1>5. \A x, y : Before(q, x, y) => Before(t, x, y)
    <2> SUFFICES ASSUME NEW x, NEW y, Before(q, x, y),
                        NEW i \in 1..Len(t), NEW j \in 1..Len(t), t[i] = x, t[j] = y
                 PROVE  i <= j
      BY DEF Before
    <2>1. i + 1 <= j + 1
      BY <1>1 DEF Before
    <2> QED
      BY <1>1, <2>1
  <1>6. \A x, y : Before(q, x, y) /\ Head(q) = y => ~Has(t, x)
    <2> SUFFICES ASSUME NEW x, NEW y, Before(q, x, y), Head(q) = y,
                        NEW i \in 1..Len(t), t[i] = x
                 PROVE  FALSE
      BY DEF Has
    <2>1. i + 1 <= 1
      BY <1>1 DEF Before
    <2> QED
      BY <1>1, <2>1
  <1>7. Has(q, Head(q))
    BY <1>1 DEF Has
  <1> QED
    BY <1>1, <1>3, <1>4, <1>5, <1>6, <1>7 DEF t

LEMMA TodoNone == Shape(<<>>) /\ \A x : ~Todo(<<>>, x) /\ ~Reply(<<>>, x)
  BY DEF Shape, Todo, Reply

LEMMA TodoOne ==
  ASSUME NEW w \in Work
  PROVE  /\ Shape(<<w>>)
         /\ \A x : Todo(<<w>>, x) <=> x = w.ev
         /\ \A m : Reply(<<w>>, m) <=> w.ev = "RSP" /\ m = w.rsp
  BY DEF Shape, Todo, Reply

LEMMA TodoTwo ==
  ASSUME NEW v \in Work, NEW w \in Work, PairShape(v, w)
  PROVE  /\ Shape(<<v, w>>)
         /\ \A x : Todo(<<v, w>>, x) <=> x = v.ev \/ x = w.ev
         /\ \A m : Reply(<<v, w>>, m) => \/ v.ev = "RSP" /\ m = v.rsp
                                         \/ w.ev = "RSP" /\ m = w.rsp
  <1> DEFINE r == <<v, w>>
  <1>1. Len(r) = 2 /\ r[1] = v /\ r[2] = w
    OBVIOUS
  <1> HIDE DEF r
  <1>2. 1..Len(r) = {1, 2}
    BY <1>1
  <1>3. Shape(r)
    BY <1>1 DEF Shape
  <1>4. \A x : Todo(r, x) <=> x = v.ev \/ x = w.ev
    BY <1>1, <1>2 DEF Todo
  <1>5. \A m : Reply(r, m) => \/ v.ev = "RSP" /\ m = v.rsp
                              \/ w.ev = "RSP" /\ m = w.rsp
    BY <1>1, <1>2 DEF Reply
  <1> QED
    BY <1>3, <1>4, <1>5 DEF r

LEMMA TodoTail ==
  ASSUME NEW r \in Seq(Work), Shape(r), r # <<>>
  PROVE  /\ Head(r) \in Work /\ Todo(r, Head(r).ev) /\ Shape(Tail(r))
         /\ Head(r).ev = "RSP" => Reply(r, Head(r).rsp)
         /\ \A x : Todo(Tail(r), x) =>
               /\ Todo(r, x)
               /\ \/ Head(r).ev \in {"RSP", "FTC"} /\ x = "FTD"
                  \/ Head(r).ev = "ASYNC" /\ x = "RSP"
         /\ \A x : Todo(r, x) => Todo(Tail(r), x) \/ x = Head(r).ev
         /\ \A m : Reply(Tail(r), m) => Reply(r, m)
  <1> DEFINE t == Tail(r)
  <1>1. /\ Len(r) \in Nat /\ Len(r) > 0 /\ Len(t) = Len(r) - 1
        /\ \A i \in 1..Len(t) : i + 1 \in 1..Len(r) /\ t[i] = r[i + 1]
        /\ Head(r) = r[1] /\ Head(r) \in Work
    OBVIOUS
  <1> HIDE DEF t
  <1>2. \A i \in 1..Len(r) : i = 1 \/ (i - 1 \in 1..Len(t) /\ t[i - 1] = r[i])
    BY <1>1
  <1>3. \A i \in 1..Len(t) : i = 1 /\ t[i] = r[2] /\ PairShape(r[1], r[2])
    BY <1>1 DEF Shape
  <1>4. Todo(r, Head(r).ev) /\ (Head(r).ev = "RSP" => Reply(r, Head(r).rsp))
    BY <1>1 DEF Todo, Reply
  <1>5. Shape(t)
    BY <1>1 DEF Shape
  <1>6. \A x : Todo(t, x) => Todo(r, x)
    BY <1>1 DEF Todo
  <1>7. \A x : Todo(t, x) => \/ Head(r).ev \in {"RSP", "FTC"} /\ x = "FTD"
                             \/ Head(r).ev = "ASYNC" /\ x = "RSP"
    BY <1>1, <1>3 DEF Todo, PairShape
  <1>8. \A x : Todo(r, x) => Todo(t, x) \/ x = Head(r).ev
    BY <1>1, <1>2 DEF Todo
  <1>9. \A m : Reply(t, m) => Reply(r, m)
    BY <1>1 DEF Reply
  <1> QED
    BY <1>1, <1>4, <1>5, <1>6, <1>7, <1>8, <1>9 DEF t

\* A response is set up: the event for it takes its place.
LEMMA TodoAnswered ==
  ASSUME NEW r \in Seq(Work), Shape(r), r # <<>>, Head(r).ev = "RSP",
         NEW a, a = <<Ev("FTC")>> \o Tail(r)
  PROVE  /\ Shape(a) /\ Todo(a, "FTC") /\ (Todo(a, "FTD") => Todo(r, "FTD"))
         /\ \A x : Todo(a, x) => x \in {"FTC", "FTD"}
         /\ \A m : ~Reply(a, m)
  <1>1. Ev("FTC").ev = "FTC"
    BY DEF Ev
  <1>2. Tail(r) \in Seq(Work) /\ Len(Tail(r)) = Len(r) - 1 /\ Len(r) \in Nat \ {0} /\ Head(r) = r[1]
    OBVIOUS
  <1>3. /\ Len(a) = Len(r) /\ a[1] = Ev("FTC")
        /\ \A i \in 1..Len(r) : i # 1 => a[i] = r[i]
    BY <1>2
  <1>4. \A i \in 1..Len(r) : i # 1 => i = 2 /\ r[i].ev = "FTD"
    BY <1>2 DEF Shape, PairShape
  <1>5. Shape(a)
    BY <1>1, <1>2, <1>3, <1>4 DEF Shape, PairShape
  <1>6. Todo(a, "FTC")
    BY <1>1, <1>2, <1>3 DEF Todo
  <1>7. \A i \in 1..Len(a) : a[i].ev = "FTC" \/ (a[i].ev = "FTD" /\ r[i].ev = "FTD")
    BY <1>1, <1>2, <1>3, <1>4
  <1>8. \A x : Todo(a, x) => x \in {"FTC", "FTD"}
    BY <1>7 DEF Todo
  <1>9. Todo(a, "FTD") => Todo(r, "FTD")
    BY <1>3, <1>7 DEF Todo
  <1>10. \A m : ~Reply(a, m)
    BY <1>7 DEF Reply
  <1> QED
    BY <1>5, <1>6, <1>8, <1>9, <1>10

\* The main loop ends a GET, streams a chunk, or acknowledges data.
EndSteps == {"ftd_load", "ftd_store", "rsp_check", "rsp_build", "rsp_queue"}
ChunkSteps == {"ftd_read", "ftd_update", "ftd_notify", "ftd_next", "ftd_queue"}
AckSteps == {"async_check", "async_count", "async_send", "async_load", "async_store"}

\* Nothing happens before the first link, and no request without one.
Fresh ==
    /\ links.made = 0 => /\ ~Connected /\ main.pc = "idle" /\ tx_ready_mask = {}
                         /\ ~Busy /\ \A e \in Events \ {"APP"} : ~Has(msg_queue, e)
    /\ ~Connected => rx = <<>> /\ client = NoClient

\* There is one response at a time, and the chunks of a GET come after it.
OneRsp ==
    /\ Before(msg_queue, "FTC", "FTC") /\ Before(msg_queue, "FTC", "FTD")
    /\ Has(msg_queue, "FTD") => ~Todo(rx, "FTC") /\ ~Todo(rx, "RSP")
    /\ Has(msg_queue, "FTC") \/ Todo(rx, "FTC") \/ Todo(rx, "RSP") =>
          main.pc \notin {"ftc_send"} \cup ChunkSteps \cup EndSteps
    /\ Has(msg_queue, "FTC") => ~Todo(rx, "FTC") /\ ~Todo(rx, "RSP")
    /\ main.pc \in EndSteps => ~Busy

\* A response is in ftc_msg_buf; after a final one no operation goes on.
Unsent == Has(msg_queue, "FTC") \/ Todo(rx, "FTC") \/ main.pc \in {"ftc_send", "rsp_queue"}
Final(r) == r.op = "EOF" \/ r.status # "SUCCESS"

\* The client waits for each response that is still to come.
Asked ==
    Connected =>
      /\ Unsent => ftc_msg_buf.op \in client.await /\ (Final(ftc_msg_buf) => ~Busy)
      /\ \A m : Reply(rx, m) => m.op \in client.await /\ (Final(m) => ~Busy)
      /\ Busy \/ main.pc \in EndSteps => "EOF" \in client.await
      /\ ft_in_progress = "PUT" => client.op = "put"
      /\ ft_in_progress = "GET" \/ main.pc \in EndSteps => client.op = "get"
      /\ client.done => "EOF" \notin client.await
      /\ client.op # "none" => ccc = {"FTC", "FTD"}

Talk == Fresh /\ Shape(rx) /\ OneRsp /\ Asked

\* A step of the main loop, or of nobody, that sends and receives nothing.
LEMMA TalkKept ==
  ASSUME Talk, UNCHANGED <<msg_queue, rx, ftc_msg_buf, ft_in_progress, ccc>>,
         links'.made = links.made, Connected' <=> Connected,
         client'.op = client.op, client'.await = client.await, client'.done = client.done,
         ~Connected => client' = client,
         links.made = 0 => main'.pc = "idle" /\ tx_ready_mask' = tx_ready_mask,
         main'.pc = "ftc_send" => main.pc = "ftc_send",
         main'.pc = "rsp_queue" => main.pc = "rsp_queue",
         main'.pc \in EndSteps => main.pc \in EndSteps,
         main'.pc \in ChunkSteps => main.pc \in ChunkSteps
  PROVE  Talk'
  <1>1. Fresh'
    BY DEF Talk, Fresh, Busy
  <1>2. Shape(rx')
    BY DEF Talk
  <1>3. OneRsp'
    BY DEF Talk, OneRsp, Busy
  <1>4. Unsent' => Unsent
    BY DEF Unsent
  <1>5. Asked'
    BY <1>4 DEF Talk, Asked, Final, Busy
  <1> QED
    BY <1>1, <1>2, <1>3, <1>5 DEF Talk

\* A client that waits for nothing has nothing outstanding.
LEMMA Calm ==
  ASSUME Talk, StreamInv, Connected, client.await = {}
  PROVE  /\ ~Busy /\ ~Unsent /\ links.made # 0
         /\ main.pc \notin EndSteps \cup ChunkSteps
         /\ ~Has(msg_queue, "FTD") /\ ~Has(msg_queue, "FTC")
  <1>1. ~Busy /\ ~Unsent /\ main.pc \notin EndSteps /\ links.made # 0
    BY DEF Talk, Asked, Fresh
  <1>2. ~Streaming
    BY <1>1 DEF StreamInv, StreamOwnsTransfer, Busy
  <1> QED
    BY <1>1, <1>2 DEF Streaming, OnItsWay, Has, ChunkSteps, Unsent

\* A handler answers a request of the calm client.
LEMMA TalkRequest ==
  ASSUME Talk, StreamInv, Connected, client.await = {}, rx = <<>>,
         UNCHANGED <<msg_queue, main, ftc_msg_buf, ccc, links>>,
         client'.op # "none" => ccc = {"FTC", "FTD"}, client'.done = FALSE,
         NEW m \in Response, m.op \in client'.await,
         rx' = <<[ev |-> "RSP", rsp |-> m]>> \/ rx' = <<[ev |-> "RSP", rsp |-> m], Ev("FTD")>>,
         \/ ft_in_progress' = "NONE" 
         \/ ft_in_progress' = "PUT" /\ client'.op = "put" /\ "EOF" \in client'.await /\ ~Final(m)
         \/ ft_in_progress' = "GET" /\ client'.op = "get" /\ "EOF" \in client'.await /\ ~Final(m)
  PROVE  Talk'
  <1> DEFINE w == [ev |-> "RSP", rsp |-> m]
  <1>1. w \in Work /\ w.ev = "RSP" /\ w.rsp = m
    BY DEF Work
  <1>2. Ev("FTD") \in Work /\ Ev("FTD").ev = "FTD"
    BY WorkTypes DEF Events, Ev
  <1>3. /\ Shape(rx') /\ ~Todo(rx', "FTC") /\ Todo(rx', "RSP")
        /\ \A x : Reply(rx', x) => x = m
    <2>1. CASE rx' = <<w>>
      BY <1>1, <2>1, TodoOne
    <2>2. CASE rx' = <<w, Ev("FTD")>>
      <3>1. PairShape(w, Ev("FTD"))
        BY <1>1, <1>2 DEF PairShape
      <3> HIDE DEF w
      <3> QED
        BY <1>1, <1>2, <2>2, <3>1, TodoTwo
    <2> QED
      BY <2>1, <2>2
  <1>4. /\ ~Busy /\ ~Unsent /\ links.made # 0 /\ main.pc \notin EndSteps \cup ChunkSteps
        /\ ~Has(msg_queue, "FTD") /\ ~Has(msg_queue, "FTC")
    BY Calm
  <1>5. ~Unsent'
    BY <1>3, <1>4 DEF Unsent
  <1>6. Fresh'
    BY <1>4 DEF Talk, Fresh, Connected
  <1>7. OneRsp'
    BY <1>3, <1>4 DEF Talk, OneRsp, Busy, Unsent
  <1>8. Asked'
    BY <1>3, <1>4, <1>5 DEF Talk, Asked, Busy
  <1> QED
    BY <1>3, <1>6, <1>7, <1>8 DEF Talk

LEMMA TalkRequests ==
  ASSUME Polite, TypeOK, StreamInv, Talk,
         \/ \E f \in Files : \/ ota_ftc_proc_put_req(f) \/ ota_ftc_proc_verify_req(f)
                             \/ ota_ftc_proc_erase_req(f)
                             \/ \E zero \in BOOLEAN : ota_ftc_proc_get_req(f, zero)
         \/ ota_ftc_proc_get_version_req
  PROVE  Talk'
  <1> USE DEF ft, counts, wake, history, world
  <1> DEFINE Answer(op, st) == [op |-> op, status |-> st]
  <1>1. ASSUME NEW op \in Responses, NEW st \in Statuses
        PROVE  /\ Answer(op, st) \in Response /\ Answer(op, st).op = op
               /\ Rsp(op, st) = [ev |-> "RSP", rsp |-> Answer(op, st)]
               /\ Final(Answer(op, st)) <=> op = "EOF" \/ st # "SUCCESS"
    BY DEF Response, Rsp, Final
  <1> HIDE DEF Answer
  <1>2. /\ Connected /\ client.await = {} /\ rx = <<>> /\ ccc = {"FTC", "FTD"}
        /\ UNCHANGED <<msg_queue, main, ftc_msg_buf, ccc, links>>
    BY DEF ota_ftc_proc_put_req, ota_ftc_proc_verify_req, ota_ftc_proc_erase_req,
       ota_ftc_proc_get_req, ota_ftc_proc_get_version_req, Asks, Writes
  <1>3. ~Busy /\ ft_in_progress = "NONE"
    BY <1>2, Calm DEF Busy
  <1>4. ASSUME NEW f \in Files, ota_ftc_proc_put_req(f) PROVE Talk'
    <2>1. /\ client'.op = "put" /\ client'.await = {"PUT_RSP", "EOF"} /\ client'.done = FALSE
          /\ rx' = <<Rsp("PUT_RSP", "SUCCESS")>> /\ ft_in_progress' = "PUT"
      BY <1>3, <1>4 DEF ota_ftc_proc_put_req, Expect, Learns, SetUp
    <2>2. "PUT_RSP" \in Responses /\ "SUCCESS" \in Statuses
      BY DEF Responses, Statuses
    <2> QED
      BY <1>1, <1>2, <2>1, <2>2, TalkRequest
  <1>5. ASSUME NEW f \in Files, ota_ftc_proc_verify_req(f) PROVE Talk'
    <2>1. /\ client'.op = "none" /\ client'.await = {"VERIFY_RSP"} /\ client'.done = FALSE
          /\ ft_in_progress' = "NONE"
          /\ \E st \in Statuses : rx' = <<Rsp("VERIFY_RSP", st)>>
      BY <1>3, <1>5 DEF ota_ftc_proc_verify_req, Expect, Learns, SetUp, Statuses
    <2>2. "VERIFY_RSP" \in Responses
      BY DEF Responses
    <2>3. PICK st \in Statuses : rx' = <<Rsp("VERIFY_RSP", st)>>
      BY <2>1
    <2>4. PICK m \in Response : m.op = "VERIFY_RSP" /\ rx' = <<[ev |-> "RSP", rsp |-> m]>>
      BY <1>1, <2>2, <2>3
    <2> QED
      BY <1>2, <2>1, <2>4, TalkRequest
  <1>6. ASSUME NEW f \in Files, ota_ftc_proc_erase_req(f) PROVE Talk'
    <2>1. /\ client'.op = "none" /\ client'.await = {"ERASE_RSP"} /\ client'.done = FALSE
          /\ ft_in_progress' = "NONE" /\ rx' = <<Rsp("ERASE_RSP", "SUCCESS")>>
      BY <1>3, <1>6 DEF ota_ftc_proc_erase_req, Expect, Learns, SetUp
    <2>2. "ERASE_RSP" \in Responses /\ "SUCCESS" \in Statuses
      BY DEF Responses, Statuses
    <2> QED
      BY <1>1, <1>2, <2>1, <2>2, TalkRequest
  <1>7. ASSUME NEW f \in Files, NEW zero \in BOOLEAN, ota_ftc_proc_get_req(f, zero) PROVE Talk'
    <2>1. /\ client'.op = "get" /\ client'.await = {"GET_RSP", "EOF"} /\ client'.done = FALSE
          /\ ft_in_progress' = "GET" /\ rx' = <<Rsp("GET_RSP", "SUCCESS"), Ev("FTD")>>
      BY <1>3, <1>7 DEF ota_ftc_proc_get_req, Expect, Learns, SetUp
    <2>2. "GET_RSP" \in Responses /\ "SUCCESS" \in Statuses
      BY DEF Responses, Statuses
    <2> QED
      BY <1>1, <1>2, <2>1, <2>2, TalkRequest
  <1>8. CASE ota_ftc_proc_get_version_req
    <2>1. /\ client'.op = "none" /\ client'.await = {"VERSION_RSP"} /\ client'.done = FALSE
          /\ ft_in_progress' = "NONE" /\ rx' = <<Rsp("VERSION_RSP", "SUCCESS")>>
      BY <1>3, <1>8 DEF ota_ftc_proc_get_version_req, Expect, Learns
    <2>2. "VERSION_RSP" \in Responses /\ "SUCCESS" \in Statuses
      BY DEF Responses, Statuses
    <2> QED
      BY <1>1, <1>2, <2>1, <2>2, TalkRequest
  <1> QED
    BY <1>4, <1>5, <1>6, <1>7, <1>8

\* What a packet of data leaves the RX thread to do.
LEMMA DataWork ==
  ASSUME NEW len \in 1..Width-1, ota_ftd_write(len)
  PROVE  /\ Shape(rx') /\ ~Todo(rx', "FTC")
         /\ \A e : Todo(rx', e) => e \in {"ASYNC", "RSP"}
         /\ Todo(rx', "RSP") => Last(len) /\ Todo(rx', "ASYNC")
         /\ Last(len) => Todo(rx', "ASYNC")
         /\ \A m : Reply(rx', m) => Last(len) /\ m = [op |-> "EOF", status |-> "SUCCESS"]
         /\ ~Last(len) => Todo(rx', "ASYNC") \/ "ASYNC" \in tx_ready_mask
  <1>1. Ev("ASYNC") \in Work /\ Ev("ASYNC").ev = "ASYNC"
    BY WorkTypes DEF Events, Ev
  <1>2. /\ Rsp("EOF", "SUCCESS") \in Work /\ Rsp("EOF", "SUCCESS").ev = "RSP"
        /\ Rsp("EOF", "SUCCESS").rsp = [op |-> "EOF", status |-> "SUCCESS"]
    BY WorkTypes DEF Responses, Statuses, Rsp
  <1>3. PairShape(Ev("ASYNC"), Rsp("EOF", "SUCCESS"))
    BY <1>1, <1>2 DEF PairShape
  <1>4. CASE Last(len)
    <2>1. rx' = <<Ev("ASYNC"), Rsp("EOF", "SUCCESS")>>
      BY <1>4 DEF ota_ftd_write
    <2> QED
      BY <1>1, <1>2, <1>3, <1>4, <2>1, TodoTwo
  <1>5. CASE ~Last(len)
    <2>1. rx' = AckWork
      BY <1>5 DEF ota_ftd_write
    <2>2. CASE "ASYNC" \in tx_ready_mask
      BY <1>5, <2>1, <2>2, TodoNone DEF AckWork
    <2>3. CASE "ASYNC" \notin tx_ready_mask
      BY <1>1, <1>5, <2>1, <2>3, TodoOne DEF AckWork
    <2> QED
      BY <2>2, <2>3
  <1> QED
    BY <1>4, <1>5

LEMMA TalkData ==
  ASSUME Polite, TypeOK, StreamInv, Talk, NEW len \in 1..Width-1, ota_ftd_write(len)
  PROVE  Talk'
  <1> USE DEF ft, counts, wake, history, world
  <1>1. /\ Connected /\ client.await = {"EOF"} /\ ft_in_progress = "PUT" /\ rx = <<>>
        /\ UNCHANGED <<msg_queue, main, ftc_msg_buf, ccc, links>>
        /\ IF Last(len) THEN ft_in_progress' = "NONE" ELSE ft_in_progress' = "PUT"
    BY DEF ota_ftd_write, Writes, Expected
  <1>2. client'.op = client.op /\ client'.await = client.await /\ client'.done = client.done
    BY DEF ota_ftd_write, Learns, TypeOK, TypeWorld, Knowledge
  <1>3. ~Unsent /\ main.pc \notin EndSteps /\ links.made # 0
    BY <1>1 DEF Talk, Asked, OneRsp, Fresh, Busy, Final
  <1>4. ~Streaming
    BY <1>1 DEF StreamInv, StreamOwnsTransfer
  <1>5. main.pc \notin ChunkSteps /\ ~Has(msg_queue, "FTD") /\ ~Has(msg_queue, "FTC")
    BY <1>3, <1>4 DEF Streaming, OnItsWay, Has, ChunkSteps, Unsent
  <1>6. ~Unsent'
    BY <1>1, <1>3, DataWork DEF Unsent
  <1>7. Fresh'
    BY <1>1, <1>3 DEF Talk, Fresh, Connected
  <1>8. OneRsp'
    BY <1>1, <1>3, <1>5, DataWork DEF Talk, OneRsp, Busy, Unsent
  <1>9. Asked'
    <2>1. \A m : Reply(rx', m) => m.op = "EOF" /\ Last(len)
      BY DataWork
    <2> QED
      BY <1>1, <1>2, <1>3, <1>6, <2>1 DEF Talk, Asked, Busy, Connected
  <1> QED
    BY <1>7, <1>8, <1>9, DataWork DEF Talk

\* The RX thread sets up a response, queues an event or gives one up.
LEMMA TalkRx ==
  ASSUME TypeOK, StreamInv, Talk, RxStep
  PROVE  Talk'
  <1> USE DEF ft, counts, wake, history, world
  <1>1. rx \in Seq(Work) /\ Shape(rx) /\ msg_queue \in Seq(Events)
    BY DEF TypeOK, TypeThreads, Talk
  <1>2. rx # <<>> /\ UNCHANGED <<ft_in_progress, main, links, client, ccc>>
    BY DEF RxStep, RxSendRsp, RxSendEvent, RxTimeout, TypeOK, TypeThreads, otaCb
  <1>3. Connected /\ links.made # 0
    BY <1>2 DEF Talk, Fresh
  <1>4. Fresh'
    BY <1>2, <1>3 DEF Fresh, Connected
  <1>5. ASSUME rx' = Tail(rx), UNCHANGED <<msg_queue, ftc_msg_buf>>
        PROVE  Talk'
    <2>1. /\ Shape(rx') /\ \A x : Todo(rx', x) => Todo(rx, x)
          /\ \A m : Reply(rx', m) => Reply(rx, m)
      BY <1>1, <1>2, <1>5, TodoTail
    <2>2. OneRsp'
      BY <1>2, <1>5, <2>1 DEF Talk, OneRsp, Busy
    <2>3. Unsent' => Unsent
      BY <1>2, <1>5, <2>1 DEF Unsent
    <2>4. Asked'
      BY <1>2, <1>3, <1>5, <2>1, <2>3 DEF Talk, Asked, Busy, Connected, Final
    <2> QED
      BY <1>4, <2>1, <2>2, <2>4 DEF Talk
  <1>6. CASE RxTimeout
    BY <1>5, <1>6 DEF RxTimeout, otaCb
  <1>7. CASE RxSendRsp
    <2>1. CASE "FTC" \in tx_ready_mask
      BY <1>5, <1>7, <2>1 DEF RxSendRsp
    <2>2. CASE "FTC" \notin tx_ready_mask
      <3>1. /\ Head(rx).ev = "RSP" /\ ftc_msg_buf' = Head(rx).rsp
            /\ rx' = <<Ev("FTC")>> \o Tail(rx) /\ msg_queue' = msg_queue
        BY <1>7, <2>2 DEF RxSendRsp
      <3>2. Todo(rx, "RSP") /\ Reply(rx, ftc_msg_buf')
        BY <1>1, <1>2, <3>1, TodoTail
      <3>3. /\ Shape(rx') /\ (Todo(rx', "FTD") => Todo(rx, "FTD")) /\ ~Todo(rx', "RSP")
            /\ \A m : ~Reply(rx', m)
        BY <1>1, <1>2, <3>1, TodoAnswered
      <3>4. OneRsp'
        BY <1>2, <3>1, <3>2, <3>3 DEF Talk, OneRsp, Busy
      <3>5. Asked'
        BY <1>2, <1>3, <3>2, <3>3 DEF Talk, Asked, Busy, Connected, Final
      <3> QED
        BY <1>4, <3>3, <3>4, <3>5 DEF Talk
    <2> QED
      BY <2>1, <2>2
  <1>8. CASE RxSendEvent
    <2>1. CASE ~Room
      <3>1. UNCHANGED <<msg_queue, rx, ftc_msg_buf, tx_ready_mask>>
        BY <1>8, <2>1 DEF RxSendEvent, otaCb
      <3> QED
        BY <1>2, <1>3, <3>1, TalkKept DEF Connected
    <2>2. CASE Room
      <3> DEFINE e == Head(rx).ev
      <3>1. /\ msg_queue' = Append(msg_queue, e) /\ rx' = Tail(rx)
            /\ ftc_msg_buf' = ftc_msg_buf /\ e # "RSP" /\ Head(rx) \in Work
        BY <1>1, <1>2, <1>8, <2>2, TodoTail DEF RxSendEvent, otaCb
      <3>2. e \in Events
        BY <3>1 DEF Work
      <3>3. /\ Shape(rx') /\ Todo(rx, e)
            /\ \A x : Todo(rx', x) => Todo(rx, x) /\ \/ e = "FTC" /\ x = "FTD"
                                                     \/ e = "ASYNC" /\ x = "RSP"
            /\ \A m : Reply(rx', m) => Reply(rx, m)
        BY <1>1, <1>2, <3>1, TodoTail
      <3> HIDE DEF e
      <3>4. /\ \A x : Has(msg_queue', x) <=> Has(msg_queue, x) \/ x = e
            /\ \A x, y : Before(msg_queue, x, y) /\ (e = x => ~Has(msg_queue, y)) =>
                            Before(msg_queue', x, y)
        BY <1>1, <3>1, <3>2, HasAppend
      <3>5. OneRsp'
        <4>1. Before(msg_queue', "FTC", "FTC") /\ Before(msg_queue', "FTC", "FTD")
          BY <3>3, <3>4 DEF Talk, OneRsp
        <4>2. Has(msg_queue', "FTD") => ~Todo(rx', "FTC") /\ ~Todo(rx', "RSP")
          BY <3>3, <3>4 DEF Talk, OneRsp
        <4>3. Has(msg_queue', "FTC") => ~Todo(rx', "FTC") /\ ~Todo(rx', "RSP")
          BY <3>3, <3>4 DEF Talk, OneRsp
        <4>4. Has(msg_queue', "FTC") \/ Todo(rx', "FTC") \/ Todo(rx', "RSP") =>
                Has(msg_queue, "FTC") \/ Todo(rx, "FTC") \/ Todo(rx, "RSP")
          BY <3>3, <3>4
        <4> QED
          BY <1>2, <4>1, <4>2, <4>3, <4>4 DEF Talk, OneRsp, Busy
      <3>6. Unsent' => Unsent
        BY <1>2, <3>3, <3>4 DEF Unsent
      <3>7. Asked'
        BY <1>2, <1>3, <3>1, <3>3, <3>6 DEF Talk, Asked, Busy, Connected, Final
      <3> QED
        BY <1>4, <3>3, <3>5, <3>7 DEF Talk
    <2> QED
      BY <2>1, <2>2
  <1> QED
    BY <1>6, <1>7, <1>8 DEF RxStep

\* Where each step of the main loop leads.
LEMMA MainPaths ==
  ASSUME TypeOK
  PROVE  /\ HandleDisconnect => main.pc = "disconnect" /\ main'.pc = "idle"
         /\ FtcSend => main.pc = "ftc_send" /\ main'.pc = "ftc_load"
         /\ FtcLoad => main.pc = "ftc_load" /\ main'.pc = "ftc_store"
         /\ FtcStore => main.pc = "ftc_store" /\ main'.pc = "idle"
         /\ AsyncCheck => main.pc = "async_check" /\ main'.pc \in {"idle", "async_count"}
         /\ AsyncCount => main.pc = "async_count" /\ main'.pc = "async_send"
         /\ AsyncSend => main.pc = "async_send" /\ main'.pc = "async_load"
         /\ AsyncLoad => main.pc = "async_load" /\ main'.pc = "async_store"
         /\ AsyncStore => main.pc = "async_store" /\ main'.pc = "idle"
         /\ FtdRead => main.pc = "ftd_read" /\ main'.pc \in {"idle", "ftd_update", "ftd_next"}
         /\ FtdUpdate => main.pc = "ftd_update" /\ main'.pc = "ftd_notify"
         /\ FtdNotify => main.pc = "ftd_notify" /\ main'.pc = "ftd_next"
         /\ FtdNext => main.pc = "ftd_next" /\ main'.pc = IF StreamEnds THEN "ftd_load" ELSE "ftd_queue"
         /\ FtdLoad => main.pc = "ftd_load" /\ main'.pc = "ftd_store"
         /\ FtdStore => main.pc = "ftd_store" /\ main'.pc = "rsp_check"
         /\ RspCheck => main.pc = "rsp_check" /\ main'.pc \in {"idle", "rsp_build"}
         /\ RspBuild => main.pc = "rsp_build" /\ main'.pc = "rsp_queue"
         /\ RspQueue => main.pc = "rsp_queue" /\ main'.pc = "idle"
         /\ FtdQueue => main.pc = "ftd_queue" /\ main'.pc = "idle"
  <1> USE DEF TypeOK, TypeThreads, Frame, MainAt, At, Goto, Idle
  <1>1. /\ HandleDisconnect => main.pc = "disconnect" /\ main'.pc = "idle"
        /\ FtcStore => main.pc = "ftc_store" /\ main'.pc = "idle"
        /\ AsyncStore => main.pc = "async_store" /\ main'.pc = "idle"
    BY DEF HandleDisconnect, FtcStore, AsyncStore
  <1>2. AsyncCheck => main.pc = "async_check" /\ main'.pc \in {"idle", "async_count"}
    BY DEF AsyncCheck
  <1>3. /\ AsyncCount => main.pc = "async_count" /\ main'.pc = "async_send"
        /\ AsyncSend => main.pc = "async_send" /\ main'.pc = "async_load"
        /\ FtcSend => main.pc = "ftc_send" /\ main'.pc = "ftc_load"
    BY DEF AsyncCount, AsyncSend, FtcSend
  <1>9. /\ FtcLoad => main.pc = "ftc_load" /\ main'.pc = "ftc_store"
        /\ AsyncLoad => main.pc = "async_load" /\ main'.pc = "async_store"
    BY DEF FtcLoad, AsyncLoad, LoadMask
  <1>4. FtdRead => main.pc = "ftd_read" /\ main'.pc \in {"idle", "ftd_update", "ftd_next"}
    BY DEF FtdRead
  <1>5. /\ FtdUpdate => main.pc = "ftd_update" /\ main'.pc = "ftd_notify"
        /\ FtdNotify => main.pc = "ftd_notify" /\ main'.pc = "ftd_next"
        /\ FtdNext => main.pc = "ftd_next" /\ main'.pc = IF StreamEnds THEN "ftd_load" ELSE "ftd_queue"
    BY DEF FtdUpdate, FtdNotify, FtdNext
  <1>6. /\ FtdLoad => main.pc = "ftd_load" /\ main'.pc = "ftd_store"
        /\ FtdStore => main.pc = "ftd_store" /\ main'.pc = "rsp_check"
    BY DEF FtdLoad, FtdStore, LoadMask
  <1>7. RspCheck => main.pc = "rsp_check" /\ main'.pc \in {"idle", "rsp_build"}
    BY DEF RspCheck
  <1>8. /\ RspBuild => main.pc = "rsp_build" /\ main'.pc = "rsp_queue"
        /\ RspQueue => main.pc = "rsp_queue" /\ main'.pc = "idle"
        /\ FtdQueue => main.pc = "ftd_queue" /\ main'.pc = "idle"
    BY DEF RspBuild, RspQueue, FtdQueue, MainSendEvent
  <1> QED
    BY <1>1, <1>2, <1>3, <1>4, <1>5, <1>6, <1>7, <1>8, <1>9

LEMMA ReceivePath ==
  ASSUME TypeOK, Receive
  PROVE  /\ msg_queue # <<>> /\ msg_queue' = Tail(msg_queue) /\ main.pc = "idle"
         /\ main'.pc = FirstStep[Head(msg_queue)] /\ Head(msg_queue) \in Events
         /\ UNCHANGED <<otaCb, rx, world, history>>
  BY DEF Receive, Goto, MainAt, At, TypeOK, TypeThreads, Frame

\* The main loop: the steps that leave the queue alone ...
LEMMA TalkMain ==
  ASSUME Polite, TypeOK, StreamInv, Talk, 
         \/ HandleDisconnect \/ FtcLoad \/ FtcStore \/ AsyncCheck \/ AsyncCount \/ AsyncSend
         \/ AsyncLoad \/ AsyncStore \/ FtdRead \/ FtdUpdate \/ FtdNotify \/ FtdLoad
         \/ FtdStore \/ RspCheck
  PROVE  Talk'
  <1> USE DEF ft, counts, wake, history, world
  <1>1. /\ UNCHANGED <<msg_queue, rx, ftc_msg_buf, ft_in_progress, ccc>>
        /\ client' = client \/ AsyncSend \/ FtdNotify
        /\ links' = links \/ HandleDisconnect
    BY DEF HandleDisconnect, FtcLoad, FtcStore, AsyncCheck, AsyncCount, AsyncSend, AsyncLoad,
       AsyncStore, FtdRead, FtdUpdate, FtdNotify, FtdLoad, FtdStore, RspCheck, LoadMask,
       StoreMask, otaCb
  <1>2. /\ client'.op = client.op /\ client'.await = client.await /\ client'.done = client.done
        /\ ~Connected => client' = client
    <2>1. CASE client' = client
      BY <2>1
    <2>2. CASE AsyncSend \/ FtdNotify
      BY <2>2 DEF AsyncSend, FtdNotify, Learns, TypeOK, TypeWorld, Knowledge
    <2> QED
      BY <1>1, <2>1, <2>2
  <1>3. links'.made = links.made /\ (Connected' <=> Connected)
    BY <1>1 DEF HandleDisconnect, Connected, TypeOK, TypeWorld
  <1>4. /\ main.pc # "idle" /\ main'.pc \notin {"ftc_send", "rsp_queue"}
        /\ main'.pc \in EndSteps => main.pc \in EndSteps
        /\ main'.pc \in ChunkSteps => main.pc \in ChunkSteps
    BY MainPaths DEF EndSteps, ChunkSteps
  <1>5. links.made # 0
    BY <1>4 DEF Talk, Fresh
  <1> QED
    BY <1>1, <1>2, <1>3, <1>4, <1>5, TalkKept

\* ... those that end a GET or send a response ...
LEMMA TalkEnds ==
  ASSUME Polite, TypeOK, StreamInv, Talk, FtdNext \/ RspBuild \/ FtcSend
  PROVE  Talk'
  <1> USE DEF ft, counts, wake, history, world
  <1>1. UNCHANGED <<msg_queue, rx, ccc, links>>
    BY DEF FtdNext, RspBuild, FtcSend, otaCb
  <1>2. links.made # 0
    BY MainPaths DEF Talk, Fresh
  <1>3. CASE FtdNext /\ ~StreamEnds
    <2>1. UNCHANGED <<client, ftc_msg_buf, ft_in_progress>>
      BY <1>3 DEF FtdNext
    <2>2. main.pc \in ChunkSteps /\ main'.pc = "ftd_queue"
      BY <1>3, MainPaths DEF ChunkSteps
    <2> QED
      BY <1>1, <1>2, <2>1, <2>2, TalkKept DEF Connected, EndSteps
  <1>4. CASE FtdNext /\ StreamEnds
    <2>1. UNCHANGED <<client, ftc_msg_buf>> /\ ft_in_progress' = "NONE"
      BY <1>4 DEF FtdNext
    <2>2. /\ main.pc = "ftd_next" /\ main.pc \in ChunkSteps
          /\ main'.pc = "ftd_load" /\ main'.pc \in EndSteps
      BY <1>4, MainPaths DEF ChunkSteps, EndSteps
    <2>3. ft_in_progress = "GET"
      BY <2>2 DEF StreamInv, StreamOwnsTransfer, Streaming
    <2>4. OneRsp'
      BY <1>1, <2>1, <2>2 DEF Talk, OneRsp, Busy
    <2>5. ~Unsent'
      BY <1>1, <2>2 DEF Talk, OneRsp, Unsent
    <2>6. Asked'
      BY <1>1, <2>1, <2>2, <2>3, <2>5 DEF Talk, Asked, Busy, Connected
    <2>7. Fresh'
      BY <1>1, <1>2, <2>1 DEF Talk, Fresh, Connected
    <2> QED
      BY <1>1, <2>4, <2>6, <2>7 DEF Talk
  <1>5. CASE RspBuild
    <2>1. /\ UNCHANGED <<client, ft_in_progress>> /\ ftc_msg_buf'.op = "EOF"
      BY <1>5 DEF RspBuild
    <2>2. main.pc \in EndSteps /\ main'.pc \in EndSteps
      BY <1>5, MainPaths DEF EndSteps
    <2>3. OneRsp'
      BY <1>1, <2>1, <2>2 DEF Talk, OneRsp, Busy
    <2>4. Asked'
      BY <1>1, <2>1, <2>2 DEF Talk, OneRsp, Asked, Busy, Connected
    <2>5. Fresh'
      BY <1>1, <1>2, <2>1 DEF Talk, Fresh, Connected
    <2> QED
      BY <1>1, <2>3, <2>4, <2>5 DEF Talk
  <1>6. CASE FtcSend
    <2>1. UNCHANGED <<ftc_msg_buf, ft_in_progress>>
      BY <1>6 DEF FtcSend, otaCb
    <2>2. main.pc = "ftc_send" /\ main'.pc = "ftc_load"
      BY <1>6, MainPaths
    <2>3. OneRsp' /\ ~Unsent' /\ \A m : ~Reply(rx', m)
      <3>1. ~Has(msg_queue, "FTC") /\ ~Todo(rx, "FTC") /\ ~Todo(rx, "RSP")
        BY <2>2 DEF Talk, OneRsp
      <3> QED
        BY <1>1, <2>1, <2>2, <3>1 DEF Talk, OneRsp, Unsent, Busy, EndSteps, Todo, Reply
    <2>4. CASE Connected /\ "FTC" \in ccc
      <3>1. client' = Answered(ftc_msg_buf)
        BY <1>6, <2>4 DEF FtcSend, Learns
      <3>2. /\ client'.op = client.op
            /\ client'.await = IF ftc_msg_buf.status = "SUCCESS"
                               THEN client.await \ {ftc_msg_buf.op} ELSE {}
            /\ client'.done = (client.done \/ (ftc_msg_buf.op = "EOF" /\ "EOF" \in client.await))
        BY <3>1 DEF Answered, TypeOK, TypeWorld, Knowledge
      <3>3. Final(ftc_msg_buf) => ~Busy
        BY <2>2, <2>4 DEF Talk, Asked, Unsent
      <3>4. client'.done => "EOF" \notin client'.await
        BY <2>4, <3>2 DEF Talk, Asked
      <3>5. Busy => "EOF" \in client'.await
        BY <2>4, <3>2, <3>3 DEF Talk, Asked, Final
      <3>6. Asked'
        BY <1>1, <2>1, <2>2, <2>3, <2>4, <3>2, <3>4, <3>5 DEF Talk, Asked, Busy, Connected, EndSteps
      <3>7. Fresh'
        BY <1>1, <1>2, <2>4 DEF Fresh, Connected
      <3> QED
        BY <1>1, <2>3, <3>6, <3>7 DEF Talk
    <2>5. CASE ~(Connected /\ "FTC" \in ccc)
      <3>1. client' = client
        BY <1>6, <2>5 DEF FtcSend, Learns
      <3> QED
        BY <1>1, <1>2, <2>1, <2>2, <3>1, TalkKept DEF Connected, EndSteps, ChunkSteps
    <2> QED
      BY <2>4, <2>5
  <1> QED
    BY <1>3, <1>4, <1>5, <1>6

\* ... those that queue an event or take one ...
LEMMA TalkQueue ==
  ASSUME TypeOK, StreamInv, Talk, RspQueue \/ FtdQueue \/ OtherMsg \/ Receive
  PROVE  Talk'
  <1> USE DEF ft, counts, wake, history, world
  <1>1. /\ UNCHANGED <<rx, client, ccc, links, ftc_msg_buf, ft_in_progress, tx_ready_mask>>
        /\ msg_queue \in Seq(Events)
    BY DEF RspQueue, FtdQueue, OtherMsg, Receive, MainSendEvent, otaCb, TypeOK, TypeThreads
  <1>2. CASE msg_queue' = msg_queue /\ ~Receive
    <2>1. main'.pc = "idle" \/ main' = main
      BY <1>2 DEF RspQueue, FtdQueue, OtherMsg, MainSendEvent, Idle
    <2> QED
      BY <1>1, <1>2, <2>1, TalkKept DEF Connected, EndSteps, ChunkSteps, Talk, Fresh
  <1>3. ASSUME NEW e \in Events, msg_queue' = Append(msg_queue, e)
        PROVE  /\ \A x : Has(msg_queue', x) <=> Has(msg_queue, x) \/ x = e
               /\ \A x, y : Before(msg_queue, x, y) /\ (e = x => ~Has(msg_queue, y)) =>
                               Before(msg_queue', x, y)
    BY <1>1, <1>3, HasAppend
  <1>4. CASE RspQueue /\ Room
    <2>1. msg_queue' = Append(msg_queue, "FTC") /\ "FTC" \in Events
      BY <1>4 DEF RspQueue, MainSendEvent, Events
    <2>2. main.pc = "rsp_queue" /\ main.pc \in EndSteps /\ main'.pc = "idle"
      BY <1>4, MainPaths DEF EndSteps
    <2>3. /\ ~Busy /\ ~Has(msg_queue, "FTC") /\ ~Todo(rx, "FTC") /\ ~Todo(rx, "RSP")
          /\ links.made # 0
      BY <2>2 DEF Talk, OneRsp, Fresh
    <2>4. ~Has(msg_queue, "FTD")
      BY <2>3 DEF StreamInv, StreamOwnsTransfer, Streaming, OnItsWay, Has, Busy
    <2>5. OneRsp'
      BY <1>1, <1>3, <2>1, <2>2, <2>3, <2>4 DEF Talk, OneRsp, EndSteps, ChunkSteps
    <2>6. Asked'
      BY <1>1, <2>2, <2>3 DEF Talk, Asked, Unsent, Busy, Connected, Final
    <2>7. Fresh'
      BY <1>1, <2>3 DEF Talk, Fresh, Connected
    <2> QED
      BY <1>1, <2>5, <2>6, <2>7 DEF Talk
  <1>5. CASE FtdQueue /\ Room
    <2>1. msg_queue' = Append(msg_queue, "FTD") /\ "FTD" \in Events
      BY <1>5 DEF FtdQueue, MainSendEvent, Events
    <2>2. main.pc \in ChunkSteps /\ main'.pc = "idle" /\ main.pc # "idle"
      BY <1>5, MainPaths DEF ChunkSteps
    <2>3. /\ ~Has(msg_queue, "FTC") /\ ~Todo(rx, "FTC") /\ ~Todo(rx, "RSP")
          /\ links.made # 0
      BY <2>2 DEF Talk, OneRsp, Fresh
    <2>4. OneRsp'
      BY <1>1, <1>3, <2>1, <2>2, <2>3 DEF Talk, OneRsp, EndSteps, ChunkSteps
    <2>5. ~Unsent'
      BY <1>1, <1>3, <2>1, <2>2, <2>3 DEF Unsent
    <2>6. Asked'
      BY <1>1, <2>2, <2>5 DEF Talk, Asked, Busy, Connected, Final, EndSteps
    <2>7. Fresh'
      BY <1>1, <2>3 DEF Talk, Fresh, Connected
    <2> QED
      BY <1>1, <2>4, <2>6, <2>7 DEF Talk
  <1>6. CASE OtherMsg
    <2>1. msg_queue' = Append(msg_queue, "APP") /\ "APP" \in Events /\ main' = main
      BY <1>6 DEF OtherMsg, Events
    <2>2. /\ \A x : x # "APP" => (Has(msg_queue', x) <=> Has(msg_queue, x))
          /\ Before(msg_queue, "FTC", "FTC") => Before(msg_queue', "FTC", "FTC")
          /\ Before(msg_queue, "FTC", "FTD") => Before(msg_queue', "FTC", "FTD")
      BY <1>3, <2>1
    <2>3. OneRsp'
      BY <1>1, <2>1, <2>2 DEF Talk, OneRsp, Busy
    <2>4. Unsent' => Unsent
      BY <1>1, <2>1, <2>2 DEF Unsent
    <2>5. Asked'
      BY <1>1, <2>1, <2>4 DEF Talk, Asked, Busy, Connected, Final
    <2>6. Fresh'
      BY <1>1, <2>1, <2>2 DEF Talk, Fresh, Connected, Busy
    <2> QED
      BY <1>1, <2>3, <2>5, <2>6 DEF Talk
  <1>7. CASE Receive
    <2> DEFINE e == Head(msg_queue)
    <2>1. /\ msg_queue # <<>> /\ msg_queue' = Tail(msg_queue) /\ main.pc = "idle"
          /\ main'.pc = FirstStep[e] /\ e \in Events
      BY <1>7, ReceivePath
    <2>2. /\ Has(msg_queue, e)
          /\ \A x : Has(msg_queue', x) => Has(msg_queue, x)
          /\ \A x, y : Before(msg_queue, x, y) => Before(msg_queue', x, y)
          /\ \A x, y : Before(msg_queue, x, y) /\ e = y => ~Has(msg_queue', x)
      BY <1>1, <2>1, HasTail
    <2> HIDE DEF e
    <2>3. /\ e = "FTC" => main'.pc = "ftc_send"
          /\ e = "FTD" => main'.pc = "ftd_read"
          /\ e \notin {"FTC", "FTD"} => main'.pc \notin {"ftc_send"} \cup ChunkSteps \cup EndSteps
          /\ main'.pc \notin EndSteps /\ (e = "APP" => main'.pc = "idle")
      BY <2>1 DEF FirstStep, Events, ChunkSteps, EndSteps
    <2>4. OneRsp'
      <3>1. CASE e = "FTC"
        BY <1>1, <2>2, <2>3, <3>1 DEF Talk, OneRsp, Busy
      <3>2. CASE e = "FTD"
        BY <1>1, <2>2, <2>3, <3>2 DEF Talk, OneRsp, Busy
      <3>3. CASE e \notin {"FTC", "FTD"}
        BY <1>1, <2>2, <2>3, <3>3 DEF Talk, OneRsp, Busy
      <3> QED
        BY <3>1, <3>2, <3>3
    <2>5. Unsent' => Unsent
      BY <1>1, <2>2, <2>3 DEF Unsent, ChunkSteps, EndSteps
    <2>6. Asked'
      BY <1>1, <2>3, <2>5 DEF Talk, Asked, Busy, Connected, Final
    <2>7. Fresh'
      BY <1>1, <2>1, <2>2, <2>3 DEF Talk, Fresh, Connected, Busy
    <2> QED
      BY <1>1, <2>4, <2>6, <2>7 DEF Talk
  <1>8. \/ Receive \/ OtherMsg \/ (RspQueue /\ Room) \/ (FtdQueue /\ Room)
        \/ (msg_queue' = msg_queue /\ ~Receive)
    BY DEF RspQueue, FtdQueue, MainSendEvent
  <1> QED
    BY <1>2, <1>4, <1>5, <1>6, <1>7, <1>8

\* ... and the rest of the system.
LEMMA TalkWorld ==
  ASSUME Polite, TypeOK, StreamInv, Talk, links'.made <= 1,
         \/ ota_ftc_proc_reset \/ ota_dc_set_conn_param_req \/ InvalidWrite
         \/ ota_wakeup_timeout_handler \/ Connect \/ Disconnected \/ Reboot
         \/ (\E c \in SUBSET {"FTC", "FTD"} : CccChanged(c)) \/ UNCHANGED vars
  PROVE  Talk'
  <1> USE DEF ft, counts, wake, history, world
  <1>1. CASE InvalidWrite \/ ota_wakeup_timeout_handler \/ UNCHANGED vars
    <2>1. UNCHANGED <<msg_queue, rx, ftc_msg_buf, ft_in_progress, ccc, links, client, main,
                      tx_ready_mask>>
      BY <1>1 DEF InvalidWrite, ota_wakeup_timeout_handler, vars, otaCb
    <2> QED
      BY <2>1, TalkKept DEF Connected, Talk, Fresh
  <1>2. CASE ota_ftc_proc_reset \/ ota_dc_set_conn_param_req
    <2>1. /\ UNCHANGED <<msg_queue, ftc_msg_buf, ft_in_progress, ccc, links, client, main,
                         tx_ready_mask>>
          /\ Connected /\ rx = <<>> /\ \E e \in {"DISCONNECT", "PARAM"} : rx' = <<Ev(e)>>
      BY <1>2 DEF ota_ftc_proc_reset, ota_dc_set_conn_param_req, Asks, Writes
    <2>2. PICK e \in {"DISCONNECT", "PARAM"} : rx' = <<Ev(e)>>
      BY <2>1
    <2>3. Ev(e) \in Work /\ Ev(e).ev = e
      BY WorkTypes DEF Events, Ev
    <2>4. Shape(rx') /\ ~Todo(rx', "FTC") /\ ~Todo(rx', "RSP") /\ \A m : ~Reply(rx', m)
      BY <2>2, <2>3, TodoOne
    <2>5. OneRsp'
      BY <2>1, <2>4 DEF Talk, OneRsp, Busy
    <2>6. Unsent' => Unsent
      BY <2>1, <2>4 DEF Unsent
    <2>7. Asked'
      BY <2>1, <2>4, <2>6 DEF Talk, Asked, Busy, Connected, Final
    <2>8. Fresh'
      BY <2>1 DEF Talk, Fresh, Connected, Busy
    <2> QED
      BY <2>4, <2>5, <2>7, <2>8 DEF Talk
  <1>3. CASE Connect
    <2>1. /\ UNCHANGED <<msg_queue, rx, ftc_msg_buf, ft_in_progress, main>>
          /\ rx = <<>> /\ links' = [made |-> links.made + 1, state |-> "up"] /\ client' = NoClient
      BY <1>3 DEF Connect, otaCb
    <2>2. links.made = 0 /\ links'.made = 1 /\ Connected'
      BY <2>1 DEF TypeOK, TypeWorld, Connected
    <2>3. /\ main.pc = "idle" /\ ~Busy /\ ~Has(msg_queue, "FTC")
      BY <2>2 DEF Talk, Fresh, Events
    <2>4. ~Unsent' /\ \A m : ~Reply(rx', m)
      BY <2>1, <2>3, TodoNone DEF Unsent
    <2>5. Asked'
      BY <2>1, <2>3, <2>4 DEF Asked, Busy, EndSteps, NoClient
    <2>6. OneRsp' /\ Shape(rx')
      BY <2>1 DEF Talk, OneRsp, Busy
    <2>7. Fresh'
      BY <2>2 DEF Fresh
    <2> QED
      BY <2>5, <2>6, <2>7 DEF Talk
  <1>4. CASE Disconnected
    <2>1. /\ UNCHANGED <<msg_queue, rx, ftc_msg_buf, ft_in_progress, main>>
          /\ Connected /\ rx = <<>> /\ links'.made = links.made /\ ~Connected' /\ client' = NoClient
      BY <1>4 DEF Disconnected, otaCb, Connected, TypeOK, TypeWorld
    <2>2. Asked' /\ Fresh'
      BY <2>1 DEF Asked, Fresh, Talk
    <2>3. OneRsp' /\ Shape(rx')
      BY <2>1 DEF Talk, OneRsp, Busy
    <2> QED
      BY <2>2, <2>3 DEF Talk
  <1>5. CASE Reboot
    <2>1. /\ msg_queue' = <<>> /\ rx' = <<>> /\ main' = Idle /\ ft_in_progress' = "NONE"
          /\ links'.made = links.made /\ ~Connected' /\ client' = NoClient
          /\ tx_ready_mask' = {}
      BY <1>5 DEF Reboot, Connected, TypeOK, TypeWorld
    <2>2. /\ \A x : ~Has(msg_queue', x) /\ ~Todo(rx', x)
          /\ \A x, y : Before(msg_queue', x, y)
          /\ Shape(rx')
      BY <2>1, TodoNone DEF Has, Before
    <2>3. Asked' /\ Fresh' /\ OneRsp'
      BY <2>1, <2>2 DEF Asked, Fresh, OneRsp, Busy, Idle, EndSteps
    <2> QED
      BY <2>2, <2>3 DEF Talk
  <1>6. ASSUME NEW c \in SUBSET {"FTC", "FTD"}, CccChanged(c) PROVE Talk'
    <2>1. /\ UNCHANGED <<msg_queue, rx, ftc_msg_buf, ft_in_progress, links, client, main,
                         tx_ready_mask>>
          /\ ccc' = {"FTC", "FTD"}
      BY <1>6 DEF CccChanged, otaCb
    <2>2. OneRsp' /\ Shape(rx') /\ Fresh'
      BY <2>1 DEF Talk, OneRsp, Busy, Fresh, Connected
    <2>3. Asked'
      BY <2>1 DEF Talk, Asked, Unsent, Busy, Connected, Final
    <2> QED
      BY <2>2, <2>3 DEF Talk
  <1> QED
    BY <1>1, <1>2, <1>3, <1>4, <1>5, <1>6

LEMMA TalkStep ==
  ASSUME Polite, "ABORT" \notin Requests, TypeOK, StreamInv, Talk, links'.made <= 1, [Next]_vars
  PROVE  Talk'
  <1>1. ~ota_ftc_proc_abort
    BY DEF ota_ftc_proc_abort, Writes
  <1>2. CASE RequestStep
    BY <1>1, <1>2, TalkRequests, TalkData, TalkWorld DEF RequestStep
  <1>3. CASE MainStep
    BY <1>3, TalkMain, TalkEnds, TalkQueue DEF MainStep
  <1>4. CASE WorldStep \/ UNCHANGED vars
    BY <1>4, TalkQueue, TalkWorld DEF WorldStep
  <1> QED
    BY <1>2, <1>3, <1>4, TalkRx DEF Next

(***************************************************************************)
(* Acknowledgements.                                                       *)
(***************************************************************************)
\* Data waits to be acknowledged: the bit is set, the event is coming, or the
\* main loop is at it.
AckComing == Has(msg_queue, "ASYNC") \/ Todo(rx, "ASYNC")
AckBit == "ASYNC" \in tx_ready_mask
AckBusy == AckBit \/ AckComing \/ main.pc \in AckSteps

\* tx_ready_mask is about to be stored from a copy that has the bit.
StaleAck == main.pc \in {"ftc_store", "ftd_store", "rsp_build"} /\ "ASYNC" \in main.mask

AckSent == AckBit => AckComing \/ main.pc \in AckSteps

\* Only a PUT whose end is awaited is acknowledged, and before that end.
AckAlive == Connected /\ AckBusy => client.op = "put" /\ client.await = {"EOF"}
AckFirst ==
    Connected /\ ftc_msg_buf.op = "EOF" =>
      /\ Has(msg_queue, "FTC") => Before(msg_queue, "ASYNC", "FTC") /\ ~Todo(rx, "ASYNC")
      /\ main.pc = "ftc_send" => ~AckComing

\* No more is acknowledged than was written; while the bit is set something is
\* left to acknowledge, so that ota_fdc_async_send does not return early.
AckCounts ==
    /\ send_count <= pending_count
    /\ main.pc = "async_count" => /\ send_count <= main.p /\ main.p <= pending_count
                                  /\ main.n = (main.p - send_count) % CountWidth
AckOwed ==
    /\ StaleAck => AckComing
    /\ (AckBit \/ StaleAck) /\ main.pc \notin {"async_send", "async_load", "async_store"} =>
          pending_count # send_count

Acks == AckSent /\ AckAlive /\ AckFirst /\ AckCounts /\ AckOwed

LEMMA BeforeNone ==
  ASSUME NEW q, NEW x, NEW y, ~Has(q, x) \/ ~Has(q, y) PROVE Before(q, x, y)
  BY DEF Has, Before

\* A step of the main loop that has nothing to do with acknowledgements.
LEMMA AckKept ==
  ASSUME TypeOK, Acks, UNCHANGED <<msg_queue, rx, counts, ftc_msg_buf>>,
         Connected' <=> Connected, client'.op = client.op, client'.await = client.await,
         AckBit' => AckBit \/ StaleAck, StaleAck' => AckBit \/ StaleAck,
         main.pc \notin AckSteps, main'.pc \notin AckSteps, main'.pc # "ftc_send"
  PROVE  Acks'
  <1>1. AckComing' = AckComing /\ UNCHANGED <<pending_count, send_count>>
    BY DEF AckComing, counts
  <1>2. AckBit \/ StaleAck => AckComing /\ pending_count # send_count
    BY DEF Acks, AckSent, AckOwed, AckSteps
  <1>3. AckSent' /\ AckOwed'
    BY <1>1, <1>2 DEF AckSent, AckOwed
  <1>4. AckAlive'
    BY <1>1, <1>2 DEF Acks, AckAlive, AckBusy
  <1>5. AckFirst'
    BY DEF Acks, AckFirst
  <1>6. AckCounts'
    BY <1>1 DEF Acks, AckCounts, AckSteps
  <1> QED
    BY <1>3, <1>4, <1>5, <1>6 DEF Acks

\* A request of a calm client: nothing is acknowledged before or after it.
LEMMA AckNone ==
  ASSUME TypeOK, Acks, Connected, client.await = {}, 
         UNCHANGED <<msg_queue, main, tx_ready_mask>>, ~Todo(rx', "ASYNC"),
         UNCHANGED counts \/ (pending_count' = 0 /\ send_count' = 0)
  PROVE  Acks'
  <1>1. ~AckBit /\ ~AckComing /\ main.pc \notin AckSteps
    BY DEF Acks, AckAlive, AckBusy
  <1>2. ~StaleAck
    BY <1>1 DEF Acks, AckOwed
  <1>3. ~AckBit' /\ ~AckComing' /\ main'.pc \notin AckSteps /\ ~StaleAck'
    BY <1>1, <1>2 DEF AckBit, AckComing, StaleAck
  <1>4. AckSent' /\ AckAlive' /\ AckOwed'
    BY <1>3 DEF AckSent, AckAlive, AckBusy, AckOwed
  <1>5. AckFirst'
    <2>1. Before(msg_queue', "ASYNC", "FTC")
      BY <1>3, BeforeNone DEF AckComing
    <2> QED
      BY <1>3, <2>1 DEF AckFirst
  <1>6. AckCounts'
    BY <1>3 DEF Acks, AckCounts, AckSteps, counts
  <1> QED
    BY <1>4, <1>5, <1>6 DEF Acks

LEMMA AckRequests ==
  ASSUME Polite, TypeOK, StreamInv, Talk, Acks,
         \/ \E f \in Files : \/ ota_ftc_proc_put_req(f) \/ ota_ftc_proc_verify_req(f)
                             \/ ota_ftc_proc_erase_req(f)
                             \/ \E zero \in BOOLEAN : ota_ftc_proc_get_req(f, zero)
         \/ ota_ftc_proc_get_version_req \/ ota_ftc_proc_reset \/ ota_dc_set_conn_param_req
  PROVE  Acks'
  <1> USE DEF ft, counts, wake, history, world
  <1>1. /\ Connected /\ client.await = {}
        /\ UNCHANGED <<msg_queue, main, tx_ready_mask>>
        /\ UNCHANGED counts \/ (pending_count' = 0 /\ send_count' = 0)
    BY DEF ota_ftc_proc_put_req, ota_ftc_proc_verify_req, ota_ftc_proc_erase_req,
       ota_ftc_proc_get_req, ota_ftc_proc_get_version_req, ota_ftc_proc_reset,
       ota_dc_set_conn_param_req, Asks, Writes
  <1>2. /\ Ev("FTD") \in Work /\ Ev("FTD").ev = "FTD"
        /\ \A op \in Responses, st \in Statuses : Rsp(op, st) \in Work /\ Rsp(op, st).ev = "RSP"
        /\ \A e \in {"DISCONNECT", "PARAM"} : Ev(e) \in Work /\ Ev(e).ev = e
    BY WorkTypes DEF Events, Ev, Rsp
  <1>3. \/ \E op \in Responses, st \in Statuses :
              rx' = <<Rsp(op, st)>> \/ rx' = <<Rsp(op, st), Ev("FTD")>>
        \/ \E e \in {"DISCONNECT", "PARAM"} : rx' = <<Ev(e)>>
    BY DEF ota_ftc_proc_put_req, ota_ftc_proc_verify_req, ota_ftc_proc_erase_req,
       ota_ftc_proc_get_req, ota_ftc_proc_get_version_req, ota_ftc_proc_reset,
       ota_dc_set_conn_param_req, Responses, Statuses
  <1>4. ASSUME NEW op \in Responses, NEW st \in Statuses,
               rx' = <<Rsp(op, st)>> \/ rx' = <<Rsp(op, st), Ev("FTD")>>
        PROVE  ~Todo(rx', "ASYNC")
    <2>1. CASE rx' = <<Rsp(op, st)>>
      BY <1>2, <2>1, TodoOne
    <2>2. CASE rx' = <<Rsp(op, st), Ev("FTD")>>
      <3>1. PairShape(Rsp(op, st), Ev("FTD"))
        BY <1>2 DEF PairShape
      <3> QED
        BY <1>2, <2>2, <3>1, TodoTwo
    <2> QED
      BY <1>4, <2>1, <2>2
  <1>5. ~Todo(rx', "ASYNC")
    BY <1>2, <1>3, <1>4, TodoOne
  <1> QED
    BY <1>1, <1>5, AckNone

\* The counters cannot wrap around while a PUT is on track.
LEMMA DataCounts ==
  ASSUME TypeOK, PutOnTrack, JobInFlash, NEW len \in 1..Width-1, ota_ftd_write(len)
  PROVE  /\ ft_addr' = ft_addr + len /\ ft_len' = ft_len - len
         /\ pending_count' = pending_count + len /\ send_count' = send_count
         /\ ft_addr = job.addr + pending_count /\ ft_len = job.len - pending_count
         /\ len <= ft_len /\ job' = job /\ pending_count \in Nat /\ send_count \in Nat
         /\ job.addr \in Nat /\ job.len \in Nat
  <1> USE DEF history
  <1>1. /\ len > 0 /\ len <= ft_len /\ send_count' = send_count
        /\ ft_addr' = Add(ft_addr, len) /\ ft_len' = Sub(ft_len, len)
        /\ pending_count' = Add(pending_count, len) /\ job' = job
    BY DEF ota_ftd_write, Expected, TypeOK, TypeCb
  <1>2. ft_addr = job.addr + pending_count /\ ft_len = job.len - pending_count
    BY DEF ota_ftd_write, Expected, PutOnTrack
  <1>3. /\ ft_addr \in 0..Width-1 /\ ft_len \in 0..Width-1 /\ pending_count \in 0..Width-1
        /\ job.addr \in Nat /\ job.len \in Nat /\ Width \in Nat /\ send_count \in Nat
    BY BoundsAssumption DEF TypeOK, TypeCb, TypeWorld, FlashRange
  <1>4. ft_addr + len < Width /\ pending_count + len < Width
    BY <1>1, <1>2, <1>3 DEF JobInFlash
  <1> QED
    BY <1>1, <1>2, <1>3, <1>4, AddSmall, SubSmall

LEMMA AckData ==
  ASSUME Polite, TypeOK, StreamInv, PutOnTrack, JobInFlash, Talk, Acks,
         NEW len \in 1..Width-1, ota_ftd_write(len)
  PROVE  Acks'
  <1> USE DEF ft, counts, wake, history, world
  <1>1. /\ Connected /\ client.await = {"EOF"} /\ ft_in_progress = "PUT" /\ rx = <<>>
        /\ UNCHANGED <<msg_queue, main, ftc_msg_buf, links>>
        /\ IF Last(len) THEN tx_ready_mask' = tx_ready_mask
                        ELSE tx_ready_mask' = tx_ready_mask \cup {"ASYNC"}
    BY DEF ota_ftd_write, Writes, Expected
  <1>2. client'.op = client.op /\ client'.await = client.await
    BY DEF ota_ftd_write, Learns, TypeOK, TypeWorld, Knowledge
  <1>3. client.op = "put" /\ ~Unsent
    BY <1>1 DEF Talk, Asked, Busy, Final
  <1>4. AckComing => AckComing'
    BY <1>1, TodoNone DEF AckComing
  <1>5. AckSent'
    <2>1. CASE Last(len)
      BY <2>1, DataWork DEF AckSent, AckComing
    <2>2. CASE ~Last(len)
      BY <1>1, <1>4, <2>2, DataWork DEF Acks, AckSent, AckComing, AckBit
    <2> QED
      BY <2>1, <2>2
  <1>6. AckAlive'
    BY <1>1, <1>2, <1>3 DEF AckAlive
  <1>7. AckFirst'
    BY <1>1, <1>3 DEF AckFirst, Unsent
  <1>8. pending_count' > pending_count /\ send_count' = send_count /\ pending_count \in Nat /\ send_count \in Nat
    BY DataCounts
  <1>9. AckCounts'
    BY <1>1, <1>8, DataCounts DEF Acks, AckCounts, TypeOK, TypeThreads, Frame
  <1>10. AckOwed'
    BY <1>1, <1>4, <1>8, DataCounts DEF Acks, AckCounts, AckOwed, StaleAck
  <1> QED
    BY <1>5, <1>6, <1>7, <1>9, <1>10 DEF Acks

LEMMA AckRx ==
  ASSUME TypeOK, Talk, Acks, RxSendRsp \/ RxSendEvent
  PROVE  Acks'
  <1> USE DEF ft, counts, wake, history, world
  <1>1. rx \in Seq(Work) /\ Shape(rx) /\ msg_queue \in Seq(Events) /\ rx # <<>>
    BY DEF TypeOK, TypeThreads, Talk, RxSendRsp, RxSendEvent
  <1>2. UNCHANGED <<counts, main, links, client>> /\ (AckBit' <=> AckBit)
    BY DEF RxSendRsp, RxSendEvent, otaCb, AckBit
  <1>3. StaleAck' <=> StaleAck
    BY <1>2 DEF StaleAck
  <1>4. ASSUME AckComing' <=> AckComing, AckFirst' PROVE Acks'
    BY <1>2, <1>3, <1>4 DEF Acks, AckSent, AckAlive, AckBusy, AckCounts, AckOwed, Connected
  <1>5. CASE RxSendRsp
    <2>1. Head(rx).ev = "RSP" /\ msg_queue' = msg_queue
      BY <1>5 DEF RxSendRsp
    <2>2. Todo(rx, "RSP") /\ ~Todo(rx, "ASYNC")
      BY <1>1, <2>1, TodoTail
    <2>3. ~Todo(rx', "ASYNC")
      <3>1. CASE rx' = Tail(rx)
        BY <1>1, <2>2, <3>1, TodoTail
      <3>2. CASE rx' = <<Ev("FTC")>> \o Tail(rx)
        <4>1. \A x : Todo(rx', x) => x \in {"FTC", "FTD"}
          BY <1>1, <2>1, <3>2, TodoAnswered
        <4> QED
          BY <4>1
      <3> QED
        BY <1>5, <3>1, <3>2 DEF RxSendRsp
    <2>4. ~Has(msg_queue', "FTC") /\ main'.pc # "ftc_send"
      BY <1>2, <2>1, <2>2 DEF Talk, OneRsp
    <2>5. AckFirst'
      BY <2>4 DEF AckFirst
    <2> QED
      BY <1>4, <2>1, <2>2, <2>3, <2>5 DEF AckComing
  <1>6. CASE RxSendEvent /\ ~Room
    <2>1. UNCHANGED <<msg_queue, rx, ftc_msg_buf>>
      BY <1>6 DEF RxSendEvent, otaCb
    <2> QED
      BY <1>2, <1>4, <2>1 DEF AckComing, Acks, AckFirst, Connected
  <1>7. CASE RxSendEvent /\ Room
    <2> DEFINE e == Head(rx).ev
    <2>1. /\ msg_queue' = Append(msg_queue, e) /\ rx' = Tail(rx)
          /\ ftc_msg_buf' = ftc_msg_buf /\ e # "RSP" /\ Head(rx) \in Work
      BY <1>1, <1>7, TodoTail DEF RxSendEvent, otaCb
    <2>2. e \in Events
      BY <2>1 DEF Work
    <2>3. /\ Todo(rx, e)
          /\ \A x : Todo(rx', x) => Todo(rx, x) /\ \/ e = "FTC" /\ x = "FTD"
                                                   \/ e = "ASYNC" /\ x = "RSP"
          /\ \A x : Todo(rx, x) => Todo(rx', x) \/ x = e
      BY <1>1, <2>1, TodoTail
    <2> HIDE DEF e
    <2>4. /\ \A x : Has(msg_queue', x) <=> Has(msg_queue, x) \/ x = e
          /\ \A x, y : Before(msg_queue, x, y) /\ (e = x => ~Has(msg_queue, y)) =>
                          Before(msg_queue', x, y)
      BY <1>1, <2>1, <2>2, HasAppend
    <2>5. AckComing' <=> AckComing
      BY <2>3, <2>4 DEF AckComing
    <2>6. AckFirst'
      <3> SUFFICES ASSUME Connected', ftc_msg_buf'.op = "EOF", Has(msg_queue', "FTC")
                   PROVE  Before(msg_queue', "ASYNC", "FTC") /\ ~Todo(rx', "ASYNC")
        BY <1>2, <2>1, <2>5 DEF AckFirst, Acks, Connected
      <3>1. ~Todo(rx', "ASYNC")
        BY <2>3
      <3>2. CASE e = "FTC"
        <4>1. ~Has(msg_queue, "FTC")
          BY <2>3, <3>2 DEF Talk, OneRsp
        <4>2. Before(msg_queue, "ASYNC", "FTC")
          BY <4>1, BeforeNone
        <4> QED
          BY <2>4, <3>1, <3>2, <4>2
      <3>3. CASE e # "FTC"
        <4>1. Has(msg_queue, "FTC")
          BY <2>4, <3>3
        <4>2. Before(msg_queue, "ASYNC", "FTC") /\ ~Todo(rx, "ASYNC")
          BY <1>2, <2>1, <4>1 DEF Acks, AckFirst, Connected
        <4>3. e # "ASYNC"
          BY <2>3, <4>2
        <4> QED
          BY <2>4, <3>1, <4>2, <4>3
      <3> QED
        BY <3>2, <3>3
    <2> QED
      BY <1>4, <2>5, <2>6
  <1> QED
    BY <1>5, <1>6, <1>7

LEMMA AckMain ==
  ASSUME Polite, TypeOK, StreamInv, Talk, Acks,
         \/ HandleDisconnect \/ FtcLoad \/ FtcStore \/ FtdRead \/ FtdUpdate \/ FtdNotify
         \/ FtdNext \/ FtdLoad \/ FtdStore \/ RspCheck
  PROVE  Acks'
  <1> USE DEF ft, counts, wake, history, world
  <1>1. /\ UNCHANGED <<msg_queue, rx, counts, ftc_msg_buf>>
        /\ client' = client \/ FtdNotify
        /\ links' = links \/ HandleDisconnect
    BY DEF HandleDisconnect, FtcLoad, FtcStore, FtdRead, FtdUpdate, FtdNotify, FtdNext,
       FtdLoad, FtdStore, RspCheck, LoadMask, StoreMask, otaCb
  <1>2. client'.op = client.op /\ client'.await = client.await
    BY <1>1 DEF FtdNotify, Learns, TypeOK, TypeWorld, Knowledge
  <1>3. Connected' <=> Connected
    BY <1>1 DEF HandleDisconnect, Connected, TypeOK, TypeWorld
  <1>4. main.pc \notin AckSteps /\ main'.pc \notin AckSteps /\ main'.pc # "ftc_send"
    BY MainPaths DEF AckSteps
  <1>5. /\ AckBit' => AckBit \/ StaleAck
        /\ StaleAck' => AckBit \/ StaleAck
    <2>1. CASE FtcLoad \/ FtdLoad
      <3>1. tx_ready_mask' = tx_ready_mask /\ main'.mask = tx_ready_mask
        BY <2>1 DEF FtcLoad, FtdLoad, LoadMask, otaCb, TypeOK, TypeThreads, Frame
      <3> QED
        BY <3>1 DEF AckBit, StaleAck
    <2>2. CASE FtcStore \/ FtdStore
      <3>1. /\ tx_ready_mask' \subseteq main.mask
            /\ main.pc \in {"ftc_store", "ftd_store"} /\ main'.pc \in {"idle", "rsp_check"}
        BY <2>2, MainPaths DEF FtcStore, FtdStore, StoreMask
      <3> QED
        BY <3>1 DEF AckBit, StaleAck
    <2>3. CASE RspCheck
      <3>1. tx_ready_mask' = tx_ready_mask /\ (main' = Idle \/ main'.mask = tx_ready_mask)
        BY <2>3 DEF RspCheck, otaCb, TypeOK, TypeThreads, Frame
      <3> QED
        BY <3>1 DEF AckBit, StaleAck, Idle
    <2>4. CASE HandleDisconnect \/ FtdRead \/ FtdUpdate \/ FtdNotify \/ FtdNext
      <3>1. tx_ready_mask' = tx_ready_mask
        BY <2>4 DEF HandleDisconnect, FtdRead, FtdUpdate, FtdNotify, FtdNext, otaCb
      <3>2. main'.pc \notin {"ftc_store", "ftd_store", "rsp_build"}
        BY <2>4, MainPaths
      <3> QED
        BY <3>1, <3>2 DEF AckBit, StaleAck
    <2> QED
      BY <2>1, <2>2, <2>3, <2>4
  <1> QED
    BY <1>1, <1>2, <1>3, <1>4, <1>5, AckKept

\* A response is built or sent: none is before the acknowledgements.
LEMMA AckEnds ==
  ASSUME Polite, TypeOK, StreamInv, Talk, Acks, RspBuild \/ FtcSend
  PROVE  Acks'
  <1> USE DEF ft, counts, wake, history, world
  <1>1. UNCHANGED <<msg_queue, rx, counts, links>>
    BY DEF RspBuild, FtcSend, otaCb
  <1>2. /\ main.pc \notin AckSteps /\ main'.pc \in {"rsp_queue", "ftc_load"}
        /\ main.pc \in {"rsp_build", "ftc_send"}
    BY MainPaths DEF AckSteps
  <1>3. ~Has(msg_queue, "FTC")
    BY <1>2 DEF Talk, OneRsp, EndSteps
  <1>4. /\ AckComing' <=> AckComing
        /\ AckBit' => AckBit \/ StaleAck
        /\ ~StaleAck'
    <2>1. AckBit' => AckBit \/ StaleAck
      <3>1. CASE FtcSend
        BY <3>1 DEF FtcSend, otaCb, AckBit
      <3>2. CASE RspBuild
        <4>1. main.pc = "rsp_build"
          BY <3>2, MainPaths
        <4>2. tx_ready_mask' \in {main.mask \cup {"FTC"}, tx_ready_mask \cup {"FTC"}}
          BY <3>2 DEF RspBuild
        <4> QED
          BY <4>1, <4>2 DEF AckBit, StaleAck
      <3> QED
        BY <3>1, <3>2
    <2> QED
      BY <1>1, <1>2, <2>1 DEF AckComing, StaleAck
  <1>5. AckBit \/ StaleAck => AckComing /\ pending_count # send_count
    BY <1>2 DEF Acks, AckSent, AckOwed
  <1>6. AckSent' /\ AckOwed' /\ AckCounts'
    BY <1>1, <1>2, <1>4, <1>5 DEF Acks, AckSent, AckOwed, AckCounts
  <1>7. AckFirst'
    BY <1>1, <1>2, <1>3 DEF AckFirst
  <1>8. AckAlive'
    <2> SUFFICES ASSUME Connected', AckBusy' PROVE client'.op = "put" /\ client'.await = {"EOF"}
      BY DEF AckAlive
    <2>1. Connected /\ AckComing
      BY <1>1, <1>2, <1>4, <1>5 DEF AckBusy, Connected, AckSteps
    <2>2. client.op = "put" /\ client.await = {"EOF"}
      BY <2>1 DEF Acks, AckAlive, AckBusy
    <2>3. CASE RspBuild
      BY <2>2, <2>3 DEF RspBuild
    <2>4. CASE FtcSend
      <3>1. main.pc = "ftc_send"
        BY <2>4, MainPaths
      <3>2. ftc_msg_buf.op = "EOF"
        BY <2>1, <2>2, <3>1 DEF Talk, Asked, Unsent
      <3> QED
        BY <2>1, <3>1, <3>2 DEF Acks, AckFirst
    <2> QED
      BY <2>3, <2>4
  <1> QED
    BY <1>6, <1>7, <1>8 DEF Acks

\* ota_fdc_async_send.
LEMMA AckAsync ==
  ASSUME Polite, TypeOK, Talk, Acks,
         AsyncCheck \/ AsyncCount \/ AsyncSend \/ AsyncLoad \/ AsyncStore
  PROVE  Acks'
  <1> USE DEF ft, counts, wake, history, world
  <1>1. /\ UNCHANGED <<msg_queue, rx, pending_count, links, ftc_msg_buf>>
        /\ send_count' = send_count \/ AsyncCount
        /\ client' = client \/ AsyncSend
        /\ tx_ready_mask' = tx_ready_mask \/ AsyncStore
    BY DEF AsyncCheck, AsyncCount, AsyncSend, AsyncLoad, AsyncStore, LoadMask, StoreMask, otaCb
  <1>2. client'.op = client.op /\ client'.await = client.await
    BY <1>1 DEF AsyncSend, Learns, TypeOK, TypeWorld, Knowledge
  <1>3. main.pc \in AckSteps /\ ~StaleAck' /\ main'.pc # "ftc_send" /\ main.pc # "ftc_send"
    BY MainPaths DEF AckSteps, StaleAck
  <1>4. AckComing' <=> AckComing
    BY <1>1 DEF AckComing
  <1>5. AckAlive'
    BY <1>1, <1>2, <1>3 DEF Acks, AckAlive, AckBusy, Connected
  <1>6. AckFirst'
    BY <1>1, <1>3, <1>4 DEF Acks, AckFirst, Connected
  <1>7. /\ pending_count \in 0..Width-1 /\ send_count \in 0..Width-1 /\ Width \in Nat
        /\ main.n \in Nat /\ main.p \in Nat
    BY BoundsAssumption DEF TypeOK, TypeCb, TypeThreads, Frame
  <1>8. CASE AsyncCheck
    <2>1. CASE pending_count = send_count
      <3>1. main' = Idle /\ main'.pc = "idle" /\ main.pc = "async_check"
        BY <1>8, <2>1, MainPaths DEF AsyncCheck, Idle
      <3>2. ~AckBit
        BY <2>1, <3>1 DEF Acks, AckOwed
      <3>3. ~AckBit'
        BY <1>1, <1>8, <3>1, <3>2, MainPaths DEF AckBit
      <3>4. AckSent' /\ AckOwed' /\ AckCounts'
        BY <1>1, <1>3, <1>8, <2>1, <3>1, <3>3, MainPaths DEF Acks, AckSent, AckOwed, AckCounts
      <3> QED
        BY <1>5, <1>6, <3>4 DEF Acks
    <2>2. CASE pending_count # send_count
      <3>1. main' = [main EXCEPT !.pc = "async_count", !.p = pending_count, !.n = Count]
        BY <1>8, <2>2 DEF AsyncCheck
      <3>2. main'.pc = "async_count" /\ main'.p = pending_count /\ main'.n = Count
        BY <3>1 DEF TypeOK, TypeThreads, Frame
      <3>3. Sub(pending_count, send_count) = pending_count - send_count
        BY <1>7, SubSmall DEF Acks, AckCounts
      <3>4. UNCHANGED <<send_count, tx_ready_mask>> /\ main.pc = "async_check"
        BY <1>8, MainPaths DEF AsyncCheck, otaCb
      <3>5. AckCounts'
        BY <1>1, <1>7, <3>2, <3>3, <3>4 DEF Acks, AckCounts, Count
      <3>6. AckSent' /\ AckOwed'
        BY <1>1, <1>3, <2>2, <3>2, <3>4 DEF AckSent, AckOwed, AckSteps
      <3> QED
        BY <1>5, <1>6, <3>5, <3>6 DEF Acks
    <2> QED
      BY <2>1, <2>2
  <1>9. CASE AsyncCount
    <2>1. main.pc = "async_count" /\ main'.pc = "async_send" /\ send_count' = main.p
      BY <1>9, MainPaths DEF AsyncCount
    <2> QED
      BY <1>1, <1>3, <1>5, <1>6, <1>7, <2>1 DEF Acks, AckSent, AckOwed, AckCounts, AckSteps
  <1>10. CASE AsyncSend \/ AsyncLoad
    <2>1. /\ main'.pc \in {"async_load", "async_store"} /\ send_count' = send_count
      BY <1>10, MainPaths DEF AsyncSend, AsyncLoad, LoadMask, otaCb
    <2> QED
      BY <1>1, <1>3, <1>5, <1>6, <2>1 DEF Acks, AckSent, AckOwed, AckCounts, AckSteps
  <1>11. CASE AsyncStore
    <2>1. main'.pc = "idle" /\ send_count' = send_count /\ ~AckBit'
      BY <1>11, MainPaths DEF AsyncStore, StoreMask, AckBit
    <2> QED
      BY <1>1, <1>3, <1>5, <1>6, <2>1 DEF Acks, AckSent, AckOwed, AckCounts
  <1> QED
    BY <1>8, <1>9, <1>10, <1>11

LEMMA AckQueue ==
  ASSUME TypeOK, StreamInv, Talk, Acks, ~dropped',
         RspQueue \/ FtdQueue \/ OtherMsg \/ Receive
  PROVE  Acks'
  <1> USE DEF ft, counts, wake, history, world
  <1>1. /\ UNCHANGED <<rx, client, links, ftc_msg_buf, counts, tx_ready_mask>>
        /\ msg_queue \in Seq(Events)
    BY DEF RspQueue, FtdQueue, OtherMsg, Receive, MainSendEvent, otaCb, TypeOK, TypeThreads
  <1>2. ASSUME NEW e \in Events, msg_queue' = Append(msg_queue, e), e # "ASYNC",
               main' = main \/ (main'.pc = "idle" /\ main.pc \notin AckSteps),
               e = "FTC" => main.pc \in EndSteps
        PROVE  Acks'
    <2>1. /\ \A x : Has(msg_queue', x) <=> Has(msg_queue, x) \/ x = e
          /\ \A x, y : Before(msg_queue, x, y) /\ (e = x => ~Has(msg_queue, y)) =>
                          Before(msg_queue', x, y)
      BY <1>1, <1>2, HasAppend
    <2>2. AckComing' <=> AckComing
      BY <1>1, <1>2, <2>1 DEF AckComing
    <2>3. StaleAck' => StaleAck
      BY <1>2 DEF StaleAck
    <2>4. AckBit' <=> AckBit
      BY <1>1 DEF AckBit
    <2>5. AckSent' /\ AckOwed' /\ AckCounts'
      BY <1>1, <1>2, <2>2, <2>3, <2>4 DEF Acks, AckSent, AckOwed, AckCounts, AckSteps
    <2>6. AckAlive'
      BY <1>1, <1>2, <2>2, <2>4 DEF Acks, AckAlive, AckBusy, Connected, AckSteps
    <2>7. AckFirst'
      <3> SUFFICES ASSUME Connected', ftc_msg_buf'.op = "EOF"
                   PROVE  /\ Has(msg_queue', "FTC") =>
                                Before(msg_queue', "ASYNC", "FTC") /\ ~Todo(rx', "ASYNC")
                          /\ main'.pc = "ftc_send" => ~AckComing'
        BY DEF AckFirst
      <3>1. Connected /\ ftc_msg_buf.op = "EOF"
        BY <1>1 DEF Connected
      <3>2. main'.pc = "ftc_send" => ~AckComing'
        BY <1>2, <2>2, <3>1 DEF Acks, AckFirst
      <3>3. CASE e = "FTC"
        <4>1. client.op = "get"
          BY <1>2, <3>1, <3>3 DEF Talk, Asked
        <4>2. ~AckComing
          BY <3>1, <4>1 DEF Acks, AckAlive, AckBusy
        <4>3. Before(msg_queue', "ASYNC", "FTC")
          BY <2>2, <4>2, BeforeNone DEF AckComing
        <4> QED
          BY <2>2, <3>2, <4>2, <4>3 DEF AckComing
      <3>4. CASE e # "FTC"
        BY <1>1, <1>2, <2>1, <3>1, <3>2, <3>4 DEF Acks, AckFirst
      <3> QED
        BY <3>3, <3>4
    <2> QED
      BY <2>5, <2>6, <2>7 DEF Acks
  <1>3. CASE RspQueue
    <2>1. msg_queue' = Append(msg_queue, "FTC")
      BY <1>3 DEF RspQueue, MainSendEvent
    <2> QED
      BY <1>2, <1>3, <2>1, MainPaths DEF Events, EndSteps, AckSteps
  <1>4. CASE FtdQueue
    <2>1. msg_queue' = Append(msg_queue, "FTD")
      BY <1>4 DEF FtdQueue, MainSendEvent
    <2> QED
      BY <1>2, <1>4, <2>1, MainPaths DEF Events, AckSteps
  <1>5. CASE OtherMsg
    BY <1>2, <1>5 DEF OtherMsg, Events
  <1>6. CASE Receive
    <2> DEFINE e == Head(msg_queue)
    <2>1. /\ msg_queue # <<>> /\ msg_queue' = Tail(msg_queue) /\ main.pc = "idle"
          /\ main'.pc = FirstStep[e] /\ e \in Events
      BY <1>6, ReceivePath
    <2>2. /\ Has(msg_queue, e)
          /\ \A x : Has(msg_queue', x) => Has(msg_queue, x)
          /\ \A x : Has(msg_queue, x) => Has(msg_queue', x) \/ x = e
          /\ \A x, y : Before(msg_queue, x, y) => Before(msg_queue', x, y)
          /\ \A x, y : Before(msg_queue, x, y) /\ e = y => ~Has(msg_queue', x)
      BY <1>1, <2>1, HasTail
    <2> HIDE DEF e
    <2>3. /\ main'.pc = "ftc_send" <=> e = "FTC"
          /\ main'.pc = "async_check" <=> e = "ASYNC"
          /\ main'.pc \in AckSteps <=> e = "ASYNC"
          /\ main'.pc \notin {"ftc_store", "ftd_store", "rsp_build", "async_count"}
      BY <2>1 DEF FirstStep, Events, AckSteps
    <2>4. /\ AckComing' => AckComing
          /\ AckComing => AckComing' \/ e = "ASYNC"
          /\ e = "ASYNC" => AckComing
          /\ AckBit' <=> AckBit
      BY <1>1, <2>2 DEF AckComing, AckBit
    <2>5. AckSent' /\ AckAlive'
      BY <1>1, <2>1, <2>3, <2>4 DEF Acks, AckSent, AckAlive, AckBusy, Connected, AckSteps
    <2>6. AckOwed' /\ AckCounts'
      BY <1>1, <2>1, <2>3, <2>4 DEF Acks, AckOwed, AckCounts, StaleAck
    <2>7. AckFirst'
      <3> SUFFICES ASSUME Connected', ftc_msg_buf'.op = "EOF"
                   PROVE  /\ Has(msg_queue', "FTC") =>
                                Before(msg_queue', "ASYNC", "FTC") /\ ~Todo(rx', "ASYNC")
                          /\ main'.pc = "ftc_send" => ~AckComing'
        BY DEF AckFirst
      <3>1. Has(msg_queue, "FTC") => Before(msg_queue, "ASYNC", "FTC") /\ ~Todo(rx, "ASYNC")
        BY <1>1 DEF Acks, AckFirst, Connected
      <3> QED
        BY <1>1, <2>2, <2>3, <3>1 DEF AckComing
    <2> QED
      BY <2>5, <2>6, <2>7 DEF Acks
  <1> QED
    BY <1>3, <1>4, <1>5, <1>6

LEMMA AckWorld ==
  ASSUME TypeOK, Talk, ~dropped => Acks, ~dropped', links'.made <= 1,
         \/ InvalidWrite \/ ota_wakeup_timeout_handler \/ Connect \/ Disconnected \/ Reboot
         \/ (\E c \in SUBSET {"FTC", "FTD"} : CccChanged(c)) \/ UNCHANGED vars
  PROVE  Acks'
  <1> USE DEF ft, counts, wake, history, world
  <1>1. CASE Reboot
    <2>1. /\ msg_queue' = <<>> /\ rx' = <<>> /\ main' = Idle /\ ~Connected'
          /\ tx_ready_mask' = {} /\ pending_count' = 0 /\ send_count' = 0
      BY <1>1 DEF Reboot, Connected, TypeOK, TypeWorld
    <2>2. ~AckBit' /\ ~StaleAck' /\ main'.pc = "idle"
      BY <2>1 DEF AckBit, StaleAck, Idle
    <2> QED
      BY <2>1, <2>2 DEF Acks, AckSent, AckAlive, AckFirst, AckCounts, AckOwed
  <1>2. CASE ~Reboot
    <2>1. /\ UNCHANGED <<msg_queue, rx, main, tx_ready_mask, counts, ftc_msg_buf>>
          /\ ~dropped
      BY <1>2 DEF InvalidWrite, ota_wakeup_timeout_handler, Connect, Disconnected,
         CccChanged, vars, otaCb
    <2>2. Acks
      BY <2>1
    <2>3. (AckComing' <=> AckComing) /\ (AckBit' <=> AckBit) /\ (StaleAck' <=> StaleAck)
      BY <2>1 DEF AckComing, AckBit, StaleAck
    <2>4. AckSent' /\ AckCounts' /\ AckOwed'
      BY <2>1, <2>2, <2>3 DEF Acks, AckSent, AckCounts, AckOwed
    <2>5. CASE Connect
      <3>1. links.made = 0 /\ rx = <<>>
        BY <2>5 DEF Connect, TypeOK, TypeWorld
      <3>2. main.pc = "idle" /\ tx_ready_mask = {} /\ ~Has(msg_queue, "ASYNC")
        BY <3>1 DEF Talk, Fresh, Events
      <3>3. ~AckBusy' /\ Before(msg_queue', "ASYNC", "FTC") /\ ~Todo(rx', "ASYNC")
        BY <2>1, <3>1, <3>2, TodoNone, BeforeNone DEF AckBusy, AckBit, AckComing, AckSteps
      <3> QED
        BY <2>4, <3>3 DEF Acks, AckAlive, AckFirst, AckBusy
    <2>6. CASE Disconnected
      <3>1. ~Connected'
        BY <2>6 DEF Disconnected, Connected, TypeOK, TypeWorld
      <3> QED
        BY <2>4, <3>1 DEF Acks, AckAlive, AckFirst
    <2>7. CASE ~Connect /\ ~Disconnected
      <3>1. UNCHANGED <<client, links>>
        BY <1>2, <2>7 DEF InvalidWrite, ota_wakeup_timeout_handler, CccChanged, vars
      <3> QED
        BY <2>1, <2>2, <2>3, <2>4, <3>1 DEF Acks, AckAlive, AckFirst, AckBusy, Connected
    <2> QED
      BY <2>5, <2>6, <2>7
  <1> QED
    BY <1>1, <1>2

LEMMA AckStep ==
  ASSUME Polite, "ABORT" \notin Requests, TypeOK, StreamInv, PutOnTrack, JobInFlash, Talk,
         ~dropped => Acks, links'.made <= 1, [Next]_vars
  PROVE  ~dropped' => Acks'
  <1> SUFFICES ASSUME ~dropped' PROVE Acks'
    OBVIOUS
  <1>1. ~ota_ftc_proc_abort /\ ~RxTimeout
    BY DEF ota_ftc_proc_abort, Writes, RxTimeout
  <1>2. CASE InvalidWrite \/ WorldStep \/ UNCHANGED vars
    <2>1. CASE OtherMsg
      BY <2>1, AckQueue DEF OtherMsg, history
    <2> QED
      BY <1>2, <2>1, AckWorld DEF WorldStep
  <1>3. CASE (RequestStep /\ ~InvalidWrite) \/ RxStep \/ MainStep
    <2>1. ~dropped
      BY <1>1, <1>3 DEF RequestStep, ota_ftc_proc_put_req, ota_ftc_proc_verify_req,
         ota_ftc_proc_erase_req, ota_ftc_proc_get_req, ota_ftd_write,
         ota_ftc_proc_get_version_req, ota_ftc_proc_reset, ota_dc_set_conn_param_req,
         RxStep, RxSendRsp, RxSendEvent, MainStep, Receive, HandleDisconnect, FtcSend,
         FtcLoad, FtcStore, AsyncCheck, AsyncCount, AsyncSend, AsyncLoad, AsyncStore, FtdRead,
         FtdUpdate, FtdNotify, FtdNext, FtdLoad, FtdStore, RspCheck, RspBuild, RspQueue,
         FtdQueue, LoadMask, StoreMask, MainSendEvent, history
    <2>2. CASE RequestStep /\ ~InvalidWrite
      BY <1>1, <2>1, <2>2, AckRequests, AckData DEF RequestStep
    <2>3. CASE RxStep
      BY <1>1, <2>1, <2>3, AckRx DEF RxStep
    <2>4. CASE MainStep
      BY <2>1, <2>4, AckMain, AckEnds, AckAsync, AckQueue DEF MainStep
    <2> QED
      BY <1>3, <2>2, <2>3, <2>4
  <1> QED
    BY <1>2, <1>3 DEF Next

LEMMA LinksGrow ==
  ASSUME TypeOK, [Next]_vars, links'.made <= 1 PROVE links.made <= 1
  <1>1. \/ links' = links \/ links' = [links EXCEPT !.state = "closing"]
        \/ links' = [links EXCEPT !.state = "down"]
        \/ links' = [made |-> links.made + 1, state |-> "up"]
    BY DEF Next, RequestStep, RxStep, MainStep, WorldStep, ota_ftc_proc_put_req,
       ota_ftc_proc_verify_req, ota_ftc_proc_erase_req, ota_ftc_proc_get_req, ota_ftd_write,
       ota_ftc_proc_get_version_req, ota_ftc_proc_abort, ota_ftc_proc_reset,
       ota_dc_set_conn_param_req, InvalidWrite, RxSendRsp, RxSendEvent, RxTimeout, Receive,
       HandleDisconnect, FtcSend, FtcLoad, FtcStore, AsyncCheck, AsyncCount, AsyncSend,
       AsyncLoad, AsyncStore, FtdRead, FtdUpdate, FtdNotify, FtdNext, FtdLoad, FtdStore,
       RspCheck, RspBuild, RspQueue, FtdQueue, LoadMask, StoreMask, MainSendEvent,
       ota_wakeup_timeout_handler, OtherMsg, Connect, Disconnected, Reboot, CccChanged, world, vars
  <1> QED
    BY <1>1 DEF TypeOK, TypeWorld

TalkInv == links.made <= 1 => Talk /\ (~dropped => Acks)

LEMMA FirstTalk ==
  ASSUME Polite, "ABORT" \notin Requests
  PROVE  Safe => []TalkInv
  <1>1. Init => TalkInv
    <2> SUFFICES ASSUME Init PROVE Talk /\ Acks
      BY DEF TalkInv
    <2>1. /\ msg_queue = <<>> /\ rx = <<>> /\ main.pc = "idle" /\ tx_ready_mask = {} /\ ~Busy
          /\ ~Connected /\ client = NoClient /\ pending_count = 0 /\ send_count = 0
      BY DEF Init, InitRam, Idle, Busy, Connected
    <2>2. /\ \A x : ~Has(msg_queue, x) /\ ~Todo(rx, x)
          /\ \A x, y : Before(msg_queue, x, y)
          /\ Shape(rx)
      BY <2>1, TodoNone DEF Has, Before
    <2>3. Talk
      BY <2>1, <2>2 DEF Talk, Fresh, OneRsp, Asked, EndSteps
    <2>4. Acks
      BY <2>1, <2>2 DEF Acks, AckSent, AckAlive, AckFirst, AckCounts, AckOwed, AckBit, StaleAck
    <2> QED
      BY <2>3, <2>4
  <1>2. TypeOK /\ StreamInv /\ PutOnTrack /\ JobInFlash /\ TalkInv /\ [Next]_vars => TalkInv'
    BY LinksGrow, TalkStep, AckStep DEF TalkInv
  <1> QED
    BY OtaTypes, TransferInv, <1>1, <1>2, PTL DEF Safe

\* On its first connection a client that awaits the answers and never aborts is
\* sent every acknowledgement that ota_ftd_write has requested, unless the
\* event was dropped: the bit that keeps further events from being queued never
\* outlives the event that clears it.  (ota_fdc_async_send returns without
\* clearing the bit when there is nothing to acknowledge, and tx_ready_mask is
\* written by two threads: it takes the order of the events in the queue to
\* exclude both.)
THEOREM OtaAcknowledged ==
  ASSUME Polite, "ABORT" \notin Requests
  PROVE  Safe => [](links.made <= 1 => AckWillBeSent)
  <1>1. TalkInv => (links.made <= 1 => AckWillBeSent)
    BY OnItsWayDef DEF TalkInv, Acks, AckSent, AckWillBeSent, AckBit, AckComing, AckSteps
  <1> QED
    BY FirstTalk, <1>1, PTL

(***************************************************************************)
(* What a transfer moved.                                                  *)
(***************************************************************************)
\* What an accepted PUT has written so far is in the flash.
PutData ==
    Connected /\ client.op = "put" =>
      /\ client.file \in Files /\ job = client.file
      /\ Cells([addr |-> job.addr, len |-> pending_count]) \subseteq flash
      /\ ft_in_progress = "PUT" \/ pending_count = job.len

\* What a GET has sent so far and what remains make up the file.
ChunkLen ==
    /\ main.pc \in {"ftd_update", "ftd_notify"} => main.n > 0
    /\ main.pc = "ftd_update" => main.n <= ft_len
    /\ main.pc = "ftd_next" /\ main.n = 0 => ft_len = 0
InHand == IF main.pc = "ftd_notify" THEN main.n ELSE 0
GetData ==
    Connected /\ client.op = "get" =>
      /\ client.file \in Files \cup {Table}
      /\ ft_in_progress = "GET" => client.got + ft_len + InHand = client.file.len
      /\ ft_in_progress # "GET" => client.got = client.file.len

\* The client knows of the bytes that send_count counts; when the PUT has ended
\* the rest of them is on its way.
PutAcked ==
    Connected /\ client.op = "put" =>
      /\ main.pc # "async_send" => client.acked = send_count
      /\ main.pc = "async_send" => client.acked + main.n = send_count
      /\ ft_in_progress # "PUT" /\ pending_count # send_count =>
            \/ AckComing \/ main.pc = "async_check"
            \/ main.pc = "async_count" /\ main.p = pending_count

\* Steps that are not a request and leave the link up or down.
Aside ==
    \/ RxStep \/ MainStep \/ ota_ftc_proc_reset \/ ota_dc_set_conn_param_req \/ InvalidWrite
    \/ ota_wakeup_timeout_handler \/ OtherMsg \/ UNCHANGED vars
    \/ \E c \in SUBSET {"FTC", "FTD"} : CccChanged(c)

LEMMA AsideFacts ==
  ASSUME Polite, TypeOK, Aside
  PROVE  /\ UNCHANGED <<job, flash, pending_count>> /\ (Connected' <=> Connected)
         /\ client'.op = client.op /\ client'.file = client.file
         /\ client'.acked = client.acked \/ AsyncSend
         /\ client'.got = client.got \/ FtdNotify
         /\ ft_in_progress' = ft_in_progress \/ FtdNext
         /\ ft_len' = ft_len \/ FtdUpdate
         /\ send_count' = send_count \/ AsyncCount
         /\ main' = main \/ MainStep
  <1> USE DEF ft, counts, wake, history, world
  <1>1. /\ UNCHANGED <<job, flash, pending_count>>
        /\ ft_in_progress' = ft_in_progress \/ FtdNext
        /\ ft_len' = ft_len \/ FtdUpdate
        /\ send_count' = send_count \/ AsyncCount
        /\ main' = main \/ MainStep
        /\ client' = client \/ FtcSend \/ AsyncSend \/ FtdNotify
        /\ links' = links \/ HandleDisconnect
    BY DEF Aside, RxStep, MainStep, ota_ftc_proc_reset, ota_dc_set_conn_param_req,
       InvalidWrite, RxSendRsp, RxSendEvent, RxTimeout, Receive, HandleDisconnect, FtcSend,
       FtcLoad, FtcStore, AsyncCheck, AsyncCount, AsyncSend, AsyncLoad, AsyncStore, FtdRead,
       FtdUpdate, FtdNotify, FtdNext, FtdLoad, FtdStore, RspCheck, RspBuild, RspQueue,
       FtdQueue, LoadMask, StoreMask, MainSendEvent, ota_wakeup_timeout_handler, OtherMsg,
       CccChanged, otaCb, vars
  <1>2. Connected' <=> Connected
    BY <1>1 DEF HandleDisconnect, Connected, TypeOK, TypeWorld
  <1>3. client \in Knowledge
    BY DEF TypeOK, TypeWorld
  <1>4. CASE client' = client
    BY <1>1, <1>2, <1>4
  <1>5. CASE FtcSend
    <2>1. client' = client \/ client' = Answered(ftc_msg_buf)
      BY <1>5 DEF FtcSend, Learns
    <2>2. /\ client'.op = client.op /\ client'.file = client.file
          /\ client'.acked = client.acked /\ client'.got = client.got
      BY <1>3, <2>1 DEF Answered, Knowledge
    <2> QED
      BY <1>1, <1>2, <2>2
  <1>6. CASE AsyncSend \/ FtdNotify
    <2>1. /\ client'.op = client.op /\ client'.file = client.file
          /\ client'.acked = client.acked \/ AsyncSend
          /\ client'.got = client.got \/ FtdNotify
      BY <1>3, <1>6 DEF AsyncSend, FtdNotify, Learns, Knowledge
    <2> QED
      BY <1>1, <1>2, <2>1
  <1> QED
    BY <1>1, <1>4, <1>5, <1>6

\* A request for an operation on f.
Request(f) ==
    \/ ota_ftc_proc_put_req(f) \/ ota_ftc_proc_verify_req(f) \/ ota_ftc_proc_erase_req(f)
    \/ \E zero \in BOOLEAN : ota_ftc_proc_get_req(f, zero)

\* The other steps: requests of a calm client, data, and those of the link.
LEMMA StepCases ==
  ASSUME "ABORT" \notin Requests, [Next]_vars
  PROVE  \/ Aside
         \/ \E f \in Files : Request(f)
         \/ ota_ftc_proc_get_version_req
         \/ \E len \in 1..Width-1 : ota_ftd_write(len)
         \/ Connect \/ Disconnected \/ Reboot
  <1>1. ~ota_ftc_proc_abort
    BY DEF ota_ftc_proc_abort, Writes
  <1> QED
    BY <1>1 DEF Next, Aside, Request, RequestStep, WorldStep

\* What the requests of a calm client leave behind.
LEMMA RequestFacts ==
  ASSUME Polite, TypeOK, StreamInv, Talk
  PROVE  /\ \A f \in Files : ota_ftc_proc_put_req(f) =>
              /\ client'.op = "put" /\ client'.file = f /\ client'.acked = 0 /\ job' = f
              /\ ft_in_progress' = "PUT" /\ pending_count' = 0 /\ send_count' = 0
              /\ ft_len' = f.len
         /\ \A f \in Files : \A zero \in BOOLEAN : ota_ftc_proc_get_req(f, zero) =>
              /\ client'.op = "get" /\ client'.file \in Files \cup {Table} /\ client'.got = 0
              /\ ft_in_progress' = "GET" /\ ft_len' = client'.file.len
         /\ \A f \in Files : ota_ftc_proc_verify_req(f) \/ ota_ftc_proc_erase_req(f) =>
              client'.op = "none"
         /\ ota_ftc_proc_get_version_req => client'.op = "none"
         /\ \A f \in Files : Request(f) =>
              /\ Connected /\ client.await = {} /\ main' = main /\ msg_queue' = msg_queue
              /\ main.pc \notin ChunkSteps
         /\ ota_ftc_proc_get_version_req =>
              Connected /\ client.await = {} /\ main' = main /\ main.pc \notin ChunkSteps
  <1> USE DEF ft, counts, wake, history, world
  <1>1. Connected /\ client.await = {} =>
          ~Busy /\ ft_in_progress = "NONE" /\ main.pc \notin ChunkSteps
    BY Calm DEF Busy
  <1>2. ASSUME NEW r, Asks(r) PROVE Connected /\ client.await = {}
    BY <1>2 DEF Asks, Writes
  <1>3. ASSUME NEW f \in Files, ota_ftc_proc_put_req(f)
        PROVE  /\ client'.op = "put" /\ client'.file = f /\ client'.acked = 0 /\ job' = f
               /\ ft_in_progress' = "PUT" /\ pending_count' = 0 /\ send_count' = 0
               /\ ft_len' = f.len
    BY <1>1, <1>2, <1>3 DEF ota_ftc_proc_put_req, Expect, Learns, SetUp
  <1>4. ASSUME NEW f \in Files, NEW zero \in BOOLEAN, ota_ftc_proc_get_req(f, zero)
        PROVE  /\ client'.op = "get" /\ client'.file \in Files \cup {Table} /\ client'.got = 0
               /\ ft_in_progress' = "GET" /\ ft_len' = client'.file.len
    BY <1>1, <1>2, <1>4 DEF ota_ftc_proc_get_req, Expect, Learns, SetUp
  <1>5. ASSUME NEW f \in Files, ota_ftc_proc_verify_req(f) \/ ota_ftc_proc_erase_req(f)
        PROVE  client'.op = "none"
    BY <1>5 DEF ota_ftc_proc_verify_req, ota_ftc_proc_erase_req, Expect, Learns
  <1>6. ota_ftc_proc_get_version_req => client'.op = "none"
    BY DEF ota_ftc_proc_get_version_req, Expect, Learns
  <1>7. ASSUME NEW f \in Files, Request(f)
        PROVE  /\ Connected /\ client.await = {} /\ main' = main /\ msg_queue' = msg_queue
               /\ main.pc \notin ChunkSteps
    <2>1. Connected /\ client.await = {} /\ main' = main /\ msg_queue' = msg_queue
      BY <1>2, <1>7 DEF Request, ota_ftc_proc_put_req, ota_ftc_proc_verify_req, ota_ftc_proc_erase_req,
         ota_ftc_proc_get_req
    <2> QED
      BY <1>1, <2>1
  <1>8. ota_ftc_proc_get_version_req =>
          Connected /\ client.await = {} /\ main' = main /\ main.pc \notin ChunkSteps
    BY <1>1, <1>2 DEF ota_ftc_proc_get_version_req
  <1> QED
    BY <1>3, <1>4, <1>5, <1>6, <1>7, <1>8

\* The steps of the link: no client, or a new one.
LEMMA LinkFacts ==
  ASSUME TypeOK
  PROVE  /\ Connect => client' = NoClient /\ main' = main /\ ft_len' = ft_len
         /\ Disconnected => ~Connected' /\ main' = main /\ ft_len' = ft_len
         /\ Reboot => ~Connected' /\ main' = Idle
  BY DEF Connect, Disconnected, Reboot, Connected, otaCb, ft, TypeOK, TypeWorld

\* Data changes what is known of the client only in what it has left to send.
LEMMA DataFacts ==
  ASSUME Polite, TypeOK, Talk, NEW len \in 1..Width-1, ota_ftd_write(len)
  PROVE  /\ Connected /\ client.op = "put" /\ ft_in_progress = "PUT" /\ rx = <<>>
         /\ client'.op = client.op /\ client'.file = client.file
         /\ client'.acked = client.acked /\ client'.got = client.got
         /\ UNCHANGED <<main, links, msg_queue>>
         /\ ft_in_progress' = IF Last(len) THEN "NONE" ELSE "PUT"
  <1>1. /\ Connected /\ ft_in_progress = "PUT" /\ rx = <<>> /\ UNCHANGED <<main, links, msg_queue>>
        /\ ft_in_progress' = IF Last(len) THEN "NONE" ELSE "PUT"
    BY DEF ota_ftd_write, Writes, Expected
  <1>2. /\ client'.op = client.op /\ client'.file = client.file
        /\ client'.acked = client.acked /\ client'.got = client.got
    BY DEF ota_ftd_write, Learns, TypeOK, TypeWorld, Knowledge
  <1>3. client.op = "put"
    BY <1>1 DEF Talk, Asked
  <1> QED
    BY <1>1, <1>2, <1>3

LEMMA PutDataStep ==
  ASSUME Polite, "ABORT" \notin Requests, TypeOK, StreamInv, PutOnTrack, JobInFlash, Talk,
         PutData, [Next]_vars
  PROVE  PutData'
  <1>1. CASE Aside
    <2>1. /\ UNCHANGED <<job, flash, pending_count>> /\ (Connected' <=> Connected)
          /\ client'.op = client.op /\ client'.file = client.file
          /\ ft_in_progress' = ft_in_progress \/ FtdNext
      BY <1>1, AsideFacts
    <2>2. Connected /\ client.op = "put" => ~FtdNext
      <3> SUFFICES ASSUME Connected, client.op = "put", FtdNext PROVE FALSE
        OBVIOUS
      <3>1. main.pc = "ftd_next"
        BY MainPaths
      <3>2. ft_in_progress = "GET"
        BY <3>1 DEF StreamInv, StreamOwnsTransfer, Streaming
      <3> QED
        BY <3>2 DEF Talk, Asked
    <2> QED
      BY <2>1, <2>2 DEF PutData, Cells
  <1>2. ASSUME NEW f \in Files, ota_ftc_proc_put_req(f) PROVE PutData'
    <2>1. /\ client'.op = "put" /\ client'.file = f /\ job' = f
          /\ ft_in_progress' = "PUT" /\ pending_count' = 0
      BY <1>2, RequestFacts
    <2>2. f.addr \in Int
      BY FilesAssumption, BoundsAssumption DEF FlashRange
    <2>3. Cells([addr |-> f.addr, len |-> 0]) = {}
      BY <2>2 DEF Cells
    <2> QED
      BY <2>1, <2>3 DEF PutData, Cells
  <1>3. ASSUME NEW f \in Files, ota_ftc_proc_verify_req(f) \/ ota_ftc_proc_erase_req(f)
        PROVE  PutData'
    BY <1>3, RequestFacts DEF PutData
  <1>4. ASSUME NEW f \in Files, NEW zero \in BOOLEAN, ota_ftc_proc_get_req(f, zero) PROVE PutData'
    BY <1>4, RequestFacts DEF PutData
  <1>5. CASE ota_ftc_proc_get_version_req
    BY <1>5, RequestFacts DEF PutData
  <1>6. ASSUME NEW len \in 1..Width-1, ota_ftd_write(len) PROVE PutData'
    <2>1. /\ client'.op = client.op /\ client'.file = client.file /\ Connected
          /\ client.op = "put" /\ ft_in_progress' = IF Last(len) THEN "NONE" ELSE "PUT"
      BY <1>6, DataFacts
    <2>2. /\ pending_count' = pending_count + len /\ ft_addr = job.addr + pending_count
          /\ ft_len = job.len - pending_count /\ job' = job
          /\ pending_count \in Nat /\ job.addr \in Nat /\ job.len \in Nat
      BY <1>6, DataCounts
    <2>3. flash' = flash \cup Cells([addr |-> ft_addr, len |-> len])
      BY <1>6 DEF ota_ftd_write
    <2>4. Cells([addr |-> job.addr, len |-> pending_count]) \subseteq flash
      BY <2>1 DEF PutData
    <2>5. Cells([addr |-> job.addr, len |-> pending_count + len]) =
            Cells([addr |-> job.addr, len |-> pending_count]) \cup
            Cells([addr |-> ft_addr, len |-> len])
      BY <2>2 DEF Cells
    <2>6. Cells([addr |-> job'.addr, len |-> pending_count']) \subseteq flash'
      BY <2>2, <2>3, <2>4, <2>5
    <2>7. Last(len) => pending_count' = job'.len
      BY <2>2 DEF Last
    <2> QED
      BY <2>1, <2>2, <2>6, <2>7 DEF PutData
  <1>7. CASE Connect \/ Disconnected \/ Reboot
    BY <1>7, LinkFacts DEF PutData, NoClient
  <1> QED
    BY <1>1, <1>2, <1>3, <1>4, <1>5, <1>6, <1>7, StepCases DEF Request

LEMMA ChunkStep ==
  ASSUME Polite, "ABORT" \notin Requests, TypeOK, StreamInv, Talk, ChunkLen, [Next]_vars
  PROVE  ChunkLen'
  <1> DEFINE Sized == {"ftd_update", "ftd_notify", "ftd_next"}
  <1>1. ASSUME main'.pc \notin Sized PROVE ChunkLen'
    BY <1>1 DEF ChunkLen
  <1>2. ASSUME main' = main, ft_len' = ft_len PROVE ChunkLen'
    BY <1>2 DEF ChunkLen
  <1>3. Sized \subseteq ChunkSteps
    BY DEF ChunkSteps
  <1>4. main \in Frame /\ ft_len \in 0..Width-1 /\ Width \in Nat /\ Chunk \in Nat \ {0}
    BY BoundsAssumption DEF TypeOK, TypeThreads, TypeCb
  <1>5. CASE FtdRead
    <2>1. ft_len' = ft_len
      BY <1>5 DEF FtdRead, otaCb, ft
    <2>2. \/ main'.pc = "idle"
          \/ /\ main'.n = IF Chunk < ft_len THEN Chunk ELSE ft_len
             /\ main'.pc = IF main'.n > 0 THEN "ftd_update" ELSE "ftd_next"
      BY <1>4, <1>5 DEF FtdRead, Idle, Frame
    <2> QED
      BY <1>4, <2>1, <2>2 DEF ChunkLen
  <1>6. CASE FtdUpdate
    <2>1. main.pc = "ftd_update" /\ main'.pc = "ftd_notify" /\ main'.n = main.n
      BY <1>4, <1>6, MainPaths DEF FtdUpdate, Goto, Frame
    <2> QED
      BY <2>1 DEF ChunkLen
  <1>7. CASE FtdNotify
    <2>1. main.pc = "ftd_notify" /\ main'.pc = "ftd_next" /\ main'.n = main.n
      BY <1>4, <1>7, MainPaths DEF FtdNotify, Goto, Frame
    <2> QED
      BY <1>4, <2>1 DEF ChunkLen, Frame
  <1>8. CASE Receive
    <2>1. main'.pc = FirstStep[Head(msg_queue)] /\ Head(msg_queue) \in Events
      BY <1>8, ReceivePath
    <2> QED
      BY <1>1, <2>1 DEF FirstStep, Events
  <1>9. CASE MainStep /\ ~Receive /\ ~FtdRead /\ ~FtdUpdate /\ ~FtdNotify
    <2>1. main'.pc \notin Sized
      BY <1>9, MainPaths DEF MainStep
    <2> QED
      BY <1>1, <2>1
  <1>10. CASE Aside
    <2>1. main' = main \/ MainStep
      BY <1>10, AsideFacts
    <2>2. ft_len' = ft_len \/ FtdUpdate
      BY <1>10, AsideFacts
    <2> QED
      BY <1>2, <1>5, <1>6, <1>7, <1>8, <1>9, <2>1, <2>2
  <1>11. ASSUME NEW len \in 1..Width-1, ota_ftd_write(len) PROVE ChunkLen'
    <2>1. main' = main /\ ft_in_progress = "PUT"
      BY <1>11, DataFacts
    <2>2. main.pc \notin ChunkSteps
      BY <2>1 DEF StreamInv, StreamOwnsTransfer, Streaming, ChunkSteps
    <2> QED
      BY <1>1, <1>3, <2>1, <2>2
  <1>12. CASE Connect \/ Disconnected \/ Reboot
    BY <1>1, <1>2, <1>12, LinkFacts DEF Idle
  <1>13. ASSUME NEW f \in Files, Request(f) PROVE ChunkLen'
    <2>1. main' = main /\ main.pc \notin ChunkSteps
      BY <1>13, RequestFacts
    <2> QED
      BY <1>1, <1>3, <2>1
  <1>14. CASE ota_ftc_proc_get_version_req
    BY <1>1, <1>3, <1>14, RequestFacts
  <1> QED
    BY <1>10, <1>11, <1>12, <1>13, <1>14, StepCases

LEMMA GetDataStep ==
  ASSUME Polite, "ABORT" \notin Requests, TypeOK, StreamInv, Talk, ChunkLen, GetData, [Next]_vars
  PROVE  GetData'
  <1> SUFFICES ASSUME Connected', client'.op = "get"
               PROVE  /\ client'.file \in Files \cup {Table}
                      /\ ft_in_progress' = "GET" =>
                           client'.got + ft_len' + InHand' = client'.file.len
                      /\ ft_in_progress' # "GET" => client'.got = client'.file.len
    BY DEF GetData
  <1>1. CASE Aside
    <2>1. /\ Connected /\ client.op = "get" /\ client'.file = client.file
          /\ client'.got = client.got \/ FtdNotify
          /\ ft_in_progress' = ft_in_progress \/ FtdNext
          /\ ft_len' = ft_len \/ FtdUpdate
          /\ main' = main \/ MainStep
      BY <1>1, AsideFacts
    <2>2. /\ client.file \in Files \cup {Table}
          /\ ft_in_progress = "GET" => client.got + ft_len + InHand = client.file.len
          /\ ft_in_progress # "GET" => client.got = client.file.len
      BY <2>1 DEF GetData
    <2>3. /\ main \in Frame /\ ft_len \in 0..Width-1 /\ client.got \in 0..Width-1
          /\ Width \in Nat /\ client.file.len \in Nat /\ client.file.len < Width
          /\ main.n \in 0..Width-1
      <3>1. Width \in Nat /\ client \in Knowledge /\ main \in Frame /\ ft_len \in 0..Width-1
        BY BoundsAssumption DEF TypeOK, TypeThreads, TypeCb, TypeWorld
      <3>2. client.got \in 0..Width-1 /\ client.file \in FlashRange /\ main.n \in 0..Width-1
        BY <3>1 DEF Knowledge, Frame
      <3> QED
        BY <3>1, <3>2 DEF FlashRange
    <2>4. main.pc \in ChunkSteps => ft_in_progress = "GET"
      BY DEF StreamInv, StreamOwnsTransfer, Streaming, ChunkSteps
    <2>5. CASE FtdUpdate
      <3>1. /\ main.pc = "ftd_update" /\ main'.pc = "ftd_notify" /\ main'.n = main.n
            /\ ft_len' = Sub(ft_len, main.n) /\ ft_in_progress' = ft_in_progress
        BY <2>3, <2>5, MainPaths DEF FtdUpdate, Goto, Frame
      <3>2. ft_len' = ft_len - main.n
        BY <2>3, <3>1, SubSmall DEF ChunkLen
      <3>3. client'.got = client.got /\ ft_in_progress = "GET"
        BY <2>1, <2>4, <3>1, MainPaths DEF ChunkSteps
      <3>4. InHand = 0 /\ InHand' = main.n
        BY <3>1 DEF InHand
      <3> QED
        BY <2>1, <2>2, <2>3, <3>1, <3>2, <3>3, <3>4
    <2>6. CASE FtdNotify
      <3>1. /\ main.pc = "ftd_notify" /\ main'.pc = "ftd_next"
            /\ client'.got = Add(client.got, main.n)
        BY <2>1, <2>6, MainPaths DEF FtdNotify, Learns, TypeOK, TypeWorld, Knowledge
      <3>2. ft_in_progress = "GET" /\ ft_in_progress' = ft_in_progress /\ ft_len' = ft_len
        BY <2>1, <2>4, <3>1, MainPaths DEF ChunkSteps
      <3>3. InHand = main.n /\ InHand' = 0
        BY <3>1 DEF InHand
      <3>4. client.got + main.n < Width
        BY <2>2, <2>3, <3>2, <3>3
      <3>5. client'.got = client.got + main.n
        BY <2>3, <3>1, <3>4, AddSmall
      <3> QED
        BY <2>1, <2>2, <2>3, <3>2, <3>3, <3>5
    <2>7. CASE FtdNext
      <3>1. main.pc = "ftd_next" /\ main'.pc \in {"ftd_load", "ftd_queue"}
        BY <2>7, MainPaths
      <3>2. InHand = 0 /\ InHand' = 0
        BY <3>1 DEF InHand
      <3>3. client'.got = client.got /\ ft_len' = ft_len /\ ft_in_progress = "GET"
        BY <2>1, <2>4, <3>1, MainPaths DEF ChunkSteps
      <3>4. StreamEnds => ft_len = 0
        BY <3>1 DEF StreamEnds, ChunkLen
      <3>5. IF StreamEnds THEN ft_in_progress' = "NONE" ELSE ft_in_progress' = "GET"
        BY <2>7, <3>3 DEF FtdNext
      <3> QED
        BY <2>1, <2>2, <2>3, <3>2, <3>3, <3>4, <3>5
    <2>8. CASE ~FtdUpdate /\ ~FtdNotify /\ ~FtdNext
      <3>1. MainStep => main.pc # "ftd_notify" /\ main'.pc # "ftd_notify"
        <4>1. CASE Receive
          BY <4>1, ReceivePath DEF FirstStep, Events
        <4> QED
          BY <2>8, <4>1, MainPaths DEF MainStep
      <3>2. InHand' = InHand
        BY <2>1, <3>1 DEF InHand
      <3> QED
        BY <2>1, <2>2, <2>8, <3>2
    <2> QED
      BY <2>5, <2>6, <2>7, <2>8
  <1>2. ASSUME NEW f \in Files, NEW zero \in BOOLEAN, ota_ftc_proc_get_req(f, zero)
        PROVE  /\ client'.file \in Files \cup {Table} /\ ft_in_progress' = "GET"
               /\ client'.got + ft_len' + InHand' = client'.file.len
    <2>1. /\ client'.file \in Files \cup {Table} /\ client'.got = 0
          /\ ft_in_progress' = "GET" /\ ft_len' = client'.file.len
          /\ main' = main /\ main.pc \notin ChunkSteps
      BY <1>2, RequestFacts DEF Request
    <2>2. InHand' = 0
      BY <2>1 DEF InHand, ChunkSteps
    <2>3. client'.file.len \in Nat
      BY BoundsAssumption, FilesAssumption, <2>1 DEF FlashRange
    <2> QED
      BY <2>1, <2>2, <2>3
  <1>3. ASSUME NEW f \in Files PROVE /\ ~ota_ftc_proc_put_req(f) /\ ~ota_ftc_proc_verify_req(f)
                                     /\ ~ota_ftc_proc_erase_req(f)
    BY RequestFacts
  <1>4. ~ota_ftc_proc_get_version_req /\ \A len \in 1..Width-1 : ~ota_ftd_write(len)
    BY RequestFacts, DataFacts
  <1>5. ~Connect /\ ~Disconnected /\ ~Reboot
    BY LinkFacts DEF NoClient
  <1> QED
    BY <1>1, <1>2, <1>3, <1>4, <1>5, StepCases DEF Request

\* An acknowledgement that is coming keeps coming until it is handled.
LEMMA AckComingKept ==
  ASSUME Polite, TypeOK, Talk, AckComing, ~dropped', Aside
  PROVE  AckComing' \/ (Receive /\ main'.pc = "async_check")
  <1> USE DEF ft, counts, wake, history, world
  <1>1. rx \in Seq(Work) /\ Shape(rx) /\ msg_queue \in Seq(Events)
    BY DEF TypeOK, TypeThreads, Talk
  <1>2. CASE RxSendRsp
    <2>1. Head(rx).ev = "RSP" /\ msg_queue' = msg_queue /\ rx # <<>>
      BY <1>2 DEF RxSendRsp
    <2>2. ~Todo(rx, "ASYNC")
      BY <1>1, <2>1, TodoTail
    <2> QED
      BY <2>1, <2>2 DEF AckComing
  <1>3. CASE RxSendEvent /\ Room
    <2> DEFINE e == Head(rx).ev
    <2>1. /\ msg_queue' = Append(msg_queue, e) /\ rx' = Tail(rx) /\ rx # <<>>
          /\ e # "RSP" /\ Head(rx) \in Work
      BY <1>1, <1>3, TodoTail DEF RxSendEvent
    <2>2. e \in Events
      BY <2>1 DEF Work
    <2>3. \A x : Todo(rx, x) => Todo(rx', x) \/ x = e
      BY <1>1, <2>1, TodoTail
    <2> HIDE DEF e
    <2>4. \A x : Has(msg_queue', x) <=> Has(msg_queue, x) \/ x = e
      BY <1>1, <2>1, <2>2, HasAppend
    <2> QED
      BY <2>3, <2>4 DEF AckComing
  <1>4. CASE Receive
    <2> DEFINE e == Head(msg_queue)
    <2>1. /\ msg_queue # <<>> /\ msg_queue' = Tail(msg_queue) /\ rx' = rx
          /\ main'.pc = FirstStep[e] /\ e \in Events
      BY <1>4, ReceivePath
    <2>2. \A x : Has(msg_queue, x) => Has(msg_queue', x) \/ x = e
      BY <1>1, <2>1, HasTail
    <2> QED
      BY <1>4, <2>1, <2>2 DEF AckComing, FirstStep
  <1>5. CASE RspQueue \/ FtdQueue \/ OtherMsg
    <2>1. PICK e \in Events : msg_queue' = Append(msg_queue, e)
      BY <1>5 DEF RspQueue, FtdQueue, OtherMsg, MainSendEvent, Events
    <2>2. \A x : Has(msg_queue', x) <=> Has(msg_queue, x) \/ x = e
      BY <1>1, <2>1, HasAppend
    <2>3. rx' = rx
      BY <1>5 DEF RspQueue, FtdQueue, OtherMsg, MainSendEvent
    <2> QED
      BY <2>2, <2>3 DEF AckComing
  <1>6. CASE ota_ftc_proc_reset \/ ota_dc_set_conn_param_req
    <2>1. rx = <<>> /\ msg_queue' = msg_queue
      BY <1>6 DEF ota_ftc_proc_reset, ota_dc_set_conn_param_req, Asks, Writes
    <2> QED
      BY <2>1, TodoNone DEF AckComing
  <1>7. CASE /\ ~RxSendRsp /\ ~(RxSendEvent /\ Room) /\ ~Receive /\ ~RspQueue /\ ~FtdQueue
             /\ ~OtherMsg /\ ~ota_ftc_proc_reset /\ ~ota_dc_set_conn_param_req
    <2>1. UNCHANGED <<msg_queue, rx>>
      BY <1>7 DEF Aside, RxStep, MainStep, InvalidWrite, RxSendEvent, RxTimeout,
         HandleDisconnect, FtcSend, FtcLoad, FtcStore, AsyncCheck, AsyncCount, AsyncSend,
         AsyncLoad, AsyncStore, FtdRead, FtdUpdate, FtdNotify, FtdNext, FtdLoad, FtdStore,
         RspCheck, RspBuild, LoadMask, StoreMask, ota_wakeup_timeout_handler, CccChanged, vars
    <2> QED
      BY <2>1 DEF AckComing
  <1> QED
    BY <1>2, <1>3, <1>4, <1>5, <1>6, <1>7

\* A lost event is not forgotten while the system is up.
LEMMA DroppedKept == ASSUME [Next]_vars, dropped PROVE dropped' \/ Reboot
  BY DEF Next, RequestStep, RxStep, MainStep, WorldStep, ota_ftc_proc_put_req,
     ota_ftc_proc_verify_req, ota_ftc_proc_erase_req, ota_ftc_proc_get_req, ota_ftd_write,
     ota_ftc_proc_get_version_req, ota_ftc_proc_abort, ota_ftc_proc_reset,
     ota_dc_set_conn_param_req, InvalidWrite, RxSendRsp, RxSendEvent, RxTimeout, Receive,
     HandleDisconnect, FtcSend, FtcLoad, FtcStore, AsyncCheck, AsyncCount, AsyncSend,
     AsyncLoad, AsyncStore, FtdRead, FtdUpdate, FtdNotify, FtdNext, FtdLoad, FtdStore,
     RspCheck, RspBuild, RspQueue, FtdQueue, LoadMask, StoreMask, MainSendEvent,
     ota_wakeup_timeout_handler, OtherMsg, Connect, Disconnected, CccChanged, history, vars

\* A PUT is acknowledged byte by byte: the 16-bit count that the client is sent
\* is the difference of the counters.
LEMMA PutAckedAside ==
  ASSUME Polite, \A f \in Files : f.len < CountWidth,
         TypeOK, StreamInv, PutOnTrack, JobInFlash, Talk, PutData, Acks, PutAcked, ~dropped',
         Connected, client.op = "put", Aside
  PROVE  PutAcked'
  <1>1. /\ pending_count' = pending_count /\ client'.op = client.op
        /\ (Connected' <=> Connected)
        /\ client'.acked = client.acked \/ AsyncSend
        /\ ft_in_progress' = ft_in_progress \/ FtdNext
        /\ send_count' = send_count \/ AsyncCount
        /\ main' = main \/ MainStep
    BY AsideFacts
  <1>2. ft_in_progress' = ft_in_progress
    <2> SUFFICES ASSUME FtdNext PROVE FALSE
      BY <1>1
    <2>1. main.pc = "ftd_next"
      BY MainPaths
    <2>2. ft_in_progress = "GET"
      BY <2>1 DEF StreamInv, StreamOwnsTransfer, Streaming
    <2> QED
      BY <2>2 DEF Talk, Asked
  <1>3. AckComing => AckComing' \/ main'.pc = "async_check"
    BY AckComingKept
  <1>4. AckComing /\ main.pc # "idle" => AckComing'
    BY AckComingKept, ReceivePath
  <1>5. /\ main.pc # "async_send" => client.acked = send_count
        /\ main.pc = "async_send" => client.acked + main.n = send_count
        /\ ft_in_progress # "PUT" /\ pending_count # send_count =>
              \/ AckComing \/ main.pc = "async_check"
              \/ main.pc = "async_count" /\ main.p = pending_count
    BY DEF PutAcked
  <1>6. /\ Width \in Nat /\ CountWidth \in Nat /\ CountWidth > 0 /\ main \in Frame
        /\ send_count \in 0..Width-1 /\ pending_count \in 0..Width-1
        /\ client \in Knowledge
    BY BoundsAssumption DEF TypeOK, TypeCb, TypeThreads, TypeWorld
  <1>7. client.acked \in 0..Width-1 /\ main.n \in 0..Width-1 /\ main.p \in 0..Width-1
    BY <1>6 DEF Frame, Knowledge
  <1>8. pending_count < CountWidth
    <2>1. job \in Files /\ (ft_in_progress = "PUT" \/ pending_count = job.len)
      BY DEF PutData
    <2>2. job.len \in Nat /\ job.len < CountWidth /\ ft_len \in Nat
      BY <1>6, <2>1 DEF TypeOK, TypeWorld, TypeCb, FlashRange
    <2>3. pending_count <= job.len
      BY <1>6, <2>1, <2>2 DEF PutOnTrack
    <2> QED
      BY <1>6, <2>2, <2>3
  <1>9. CASE AsyncCheck
    <2>1. main.pc = "async_check" /\ client'.acked = client.acked /\ send_count' = send_count
      BY <1>1, <1>9, MainPaths
    <2>2. \/ pending_count = send_count /\ main'.pc = "idle"
          \/ main'.pc = "async_count" /\ main'.p = pending_count
      BY <1>6, <1>9 DEF AsyncCheck, Idle, Frame
    <2> QED
      BY <1>1, <1>5, <2>1, <2>2 DEF PutAcked
  <1>10. CASE AsyncCount
    <2>1. /\ main.pc = "async_count" /\ main'.pc = "async_send" /\ main'.n = main.n
          /\ send_count' = main.p /\ client'.acked = client.acked
      BY <1>1, <1>6, <1>10, MainPaths DEF AsyncCount, Goto, Frame
    <2>2. /\ send_count <= main.p /\ main.p <= pending_count
          /\ main.n = (main.p - send_count) % CountWidth
      BY <2>1 DEF Acks, AckCounts
    <2>3. main.p - send_count \in 0..CountWidth-1
      BY <1>6, <1>7, <1>8, <2>2
    <2>4. main.n = main.p - send_count
      BY <1>6, <2>2, <2>3
    <2>5. client'.acked + main'.n = send_count'
      BY <1>5, <1>6, <1>7, <2>1, <2>4
    <2>6. ft_in_progress # "PUT" /\ pending_count # main.p => AckComing'
      BY <1>4, <1>5, <1>6, <1>7, <2>1, <2>2
    <2> QED
      BY <1>1, <1>2, <2>1, <2>5, <2>6 DEF PutAcked
  <1>11. CASE AsyncSend
    <2>1. /\ main.pc = "async_send" /\ main'.pc = "async_load" /\ send_count' = send_count
      BY <1>1, <1>11, MainPaths
    <2>2. "FTC" \in ccc
      BY DEF Talk, Asked
    <2>3. client'.acked = Add(client.acked, main.n)
      BY <1>6, <1>11, <2>2 DEF AsyncSend, Learns, Knowledge
    <2>4. client.acked + main.n = send_count /\ client.acked + main.n < Width
      BY <1>5, <1>6, <2>1
    <2>5. client'.acked = send_count
      BY <1>7, <2>3, <2>4, AddSmall
    <2> QED
      BY <1>1, <1>2, <1>4, <1>5, <2>1, <2>5 DEF PutAcked
  <1>12. CASE ~AsyncCheck /\ ~AsyncCount /\ ~AsyncSend
    <2>1. \/ main' = main
          \/ /\ main.pc \notin {"async_send", "async_check", "async_count"}
             /\ main'.pc # "async_send"
      <3>1. CASE Receive
        BY <3>1, ReceivePath DEF FirstStep, Events
      <3> QED
        BY <1>1, <1>12, <3>1, MainPaths DEF MainStep
    <2>2. client'.acked = client.acked /\ send_count' = send_count
      BY <1>1, <1>12
    <2> QED
      BY <1>1, <1>2, <1>3, <1>5, <2>1, <2>2 DEF PutAcked
  <1> QED
    BY <1>9, <1>10, <1>11, <1>12

LEMMA PutAckedStep ==
  ASSUME Polite, "ABORT" \notin Requests, \A f \in Files : f.len < CountWidth,
         TypeOK, StreamInv, PutOnTrack, JobInFlash, Talk, PutData,
         ~dropped => Acks /\ PutAcked, ~dropped', [Next]_vars
  PROVE  PutAcked'
  <1> SUFFICES ASSUME Connected', client'.op = "put" PROVE PutAcked'
    BY DEF PutAcked
  <1>1. ~Connect /\ ~Disconnected /\ ~Reboot
    BY LinkFacts DEF NoClient
  <1>2. ~dropped /\ Acks /\ PutAcked
    BY <1>1, DroppedKept
  <1>3. CASE Aside
    <2>1. Connected /\ client.op = "put"
      BY <1>3, AsideFacts
    <2> QED
      BY <1>2, <1>3, <2>1, PutAckedAside
  <1>4. ASSUME NEW f \in Files, ota_ftc_proc_put_req(f) PROVE PutAcked'
    <2>1. /\ client'.acked = 0 /\ ft_in_progress' = "PUT" /\ send_count' = 0
          /\ main' = main /\ Connected /\ client.await = {}
      BY <1>4, RequestFacts DEF Request
    <2>2. main'.pc # "async_send"
      BY <1>2, <2>1 DEF Acks, AckAlive, AckBusy, AckSteps
    <2> QED
      BY <2>1, <2>2 DEF PutAcked
  <1>5. ASSUME NEW len \in 1..Width-1, ota_ftd_write(len) PROVE PutAcked'
    <2>1. /\ client'.acked = client.acked /\ main' = main /\ Connected /\ client.op = "put"
          /\ ft_in_progress' = IF Last(len) THEN "NONE" ELSE "PUT"
      BY <1>5, DataFacts
    <2>2. send_count' = send_count
      BY <1>5, DataCounts
    <2>3. Last(len) => AckComing'
      BY <1>5, DataWork DEF AckComing
    <2> QED
      BY <1>2, <2>1, <2>2, <2>3 DEF PutAcked
  <1>6. ASSUME NEW f \in Files
        PROVE  /\ ~ota_ftc_proc_verify_req(f) /\ ~ota_ftc_proc_erase_req(f)
               /\ \A zero \in BOOLEAN : ~ota_ftc_proc_get_req(f, zero)
    BY RequestFacts
  <1>7. ~ota_ftc_proc_get_version_req
    BY RequestFacts
  <1> QED
    BY <1>1, <1>3, <1>4, <1>5, <1>6, <1>7, StepCases DEF Request

DataInv ==
    links.made <= 1 => PutData /\ ChunkLen /\ GetData /\ (~dropped => PutAcked)

LEMMA FirstData ==
  ASSUME Polite, "ABORT" \notin Requests, \A f \in Files : f.len < CountWidth
  PROVE  Safe => []DataInv
  <1>1. Init => DataInv
    BY DEF Init, InitRam, Connected, Idle, DataInv, PutData, ChunkLen, GetData, PutAcked
  <1>2. TypeOK /\ StreamInv /\ PutOnTrack /\ JobInFlash /\ TalkInv /\ DataInv /\ [Next]_vars
          => DataInv'
    <2> SUFFICES ASSUME TypeOK, StreamInv, PutOnTrack, JobInFlash, TalkInv, DataInv,
                        [Next]_vars, links'.made <= 1
                 PROVE  PutData' /\ ChunkLen' /\ GetData' /\ (~dropped' => PutAcked')
      BY DEF DataInv
    <2>1. links.made <= 1
      BY LinksGrow
    <2>2. /\ Talk /\ PutData /\ ChunkLen /\ GetData
          /\ ~dropped => Acks /\ PutAcked
      BY <2>1 DEF TalkInv, DataInv
    <2>3. PutData' /\ ChunkLen' /\ GetData'
      BY <2>2, PutDataStep, ChunkStep, GetDataStep
    <2>4. ~dropped' => PutAcked'
      BY <2>2, PutAckedStep
    <2> QED
      BY <2>3, <2>4
  <1> QED
    BY OtaTypes, TransferInv, FirstTalk, <1>1, <1>2, PTL DEF Safe

\* On its first connection a client that awaits the answers and never aborts
\* can trust the end of file that ota_ftc_send reports: the whole of its PUT is
\* in the flash and every byte of it was acknowledged before (unless an event
\* was dropped), or every byte of its GET has arrived.  The files are shorter
\* than the modulus of the 16-bit count that ota_fdc_async_send sends: more
\* bytes than that could be left to acknowledge at once, and the count wraps.
THEOREM OtaComplete ==
  ASSUME Polite, "ABORT" \notin Requests, \A f \in Files : f.len < CountWidth
  PROVE  Safe => [](links.made <= 1 => TransferComplete)
  <1>1. TypeOK /\ TalkInv /\ DataInv => (links.made <= 1 => TransferComplete)
    <2> SUFFICES ASSUME TypeOK, Talk, ~dropped => Acks, PutData, GetData,
                        ~dropped => PutAcked, client.done
                 PROVE  TransferComplete
      BY DEF TalkInv, DataInv, TransferComplete
    <2>1. Connected
      BY DEF Talk, Fresh, NoClient
    <2>2. "EOF" \notin client.await /\ ~Busy
      BY <2>1 DEF Talk, Asked
    <2>3. ft_in_progress = "NONE"
      BY <2>2 DEF Busy
    <2>4. ASSUME client.op = "put"
          PROVE  /\ Cells(client.file) \subseteq flash
                 /\ dropped \/ client.acked = client.file.len
      <3>1. /\ job = client.file /\ pending_count = job.len
            /\ Cells([addr |-> job.addr, len |-> pending_count]) \subseteq flash
        BY <2>1, <2>3, <2>4 DEF PutData
      <3>2. Cells(client.file) \subseteq flash
        BY <3>1 DEF Cells
      <3>3. ASSUME ~dropped PROVE client.acked = client.file.len
        <4>1. Acks /\ PutAcked
          BY <3>3
        <4>2. ~AckBusy
          BY <2>1, <2>2, <4>1 DEF Acks, AckAlive
        <4>3. ~AckComing /\ main.pc \notin AckSteps
          BY <4>2 DEF AckBusy
        <4> QED
          BY <2>1, <2>3, <2>4, <3>1, <4>1, <4>3 DEF PutAcked, AckSteps
      <3> QED
        BY <3>2, <3>3
    <2>5. client.op = "get" => client.got = client.file.len
      BY <2>1, <2>3 DEF GetData
    <2> QED
      BY <2>4, <2>5 DEF TransferComplete
  <1> QED
    BY OtaTypes, FirstTalk, FirstData, <1>1, PTL
=============================================================================
