------------------------------- MODULE RmcSm --------------------------------
(***************************************************************************)
(* The application of the voice remote control                             *)
(* (samples/voice_rcu/src/peripheral_rmc): a table-driven state machine    *)
(* that advertises, reconnects to the bonded host, enters pairing mode and *)
(* sends keys.                                                             *)
(*                                                                         *)
(* Four contexts share its state without a lock.  Interrupts report keys.  *)
(* The system workqueue turns expired timers into messages.  The BT RX     *)
(* thread runs the connection callbacks; one of them executes the state    *)
(* machine itself.  The main loop handles the messages one at a time and   *)
(* is preemptible: the others can run between any two of its steps below.  *)
(*                                                                         *)
(* The queue is the one MsgManager implements: keys take a buffer of the   *)
(* async pool and are dropped at once when it is empty, everything else    *)
(* takes a buffer of the sync pool and waits 100 ms for it.                *)
(***************************************************************************)
EXTENDS Integers, Sequences, FiniteSets

CONSTANTS
    MAX_RECONN_TIMES,     \* 3 in the code
    SyncBufs, AsyncBufs,  \* buffers of the message pools (8 and 8)
    Keys,                 \* the keys of this remote
    Bonded,               \* whether it may be bonded, or not, when it is switched on
    MayFail,              \* whether the host and the flash can refuse a request
    MayDrop,              \* whether the main loop can keep a sender waiting 100 ms
    MayLow,               \* whether the battery can be found very low
    Expiring,             \* bound: the timers that expire
    MaxKeys, MaxLinks     \* bounds: keys pressed or released, links made

ASSUME BoundsAssumption ==
    /\ MAX_RECONN_TIMES \in Nat \ {0} /\ SyncBufs \in Nat \ {0}
    /\ AsyncBufs \in Nat \ {0} /\ MaxKeys \in Nat /\ MaxLinks \in Nat
ASSUME RemoteAssumption ==
    /\ Keys \subseteq {"PLAIN", "VOICE", "PAIR_COMB", "HCI_COMB"}
    /\ Bonded \subseteq BOOLEAN /\ Bonded # {}
    /\ {MayFail, MayDrop, MayLow} \subseteq BOOLEAN

VARIABLES
    rmc_status,  \* g_rmc_cb.rmc_status
    hid_app_cb,  \* struct hid_app_cb_t, pconn and direct_addr: whether set
    input,       \* system_app_input.c: the pending key, the combinations held
    ready,       \* bt_ready_flag
    timers,      \* delayed works: counting down, and pending on the workqueue
    (* the threads *)
    msg_queue,
    wq,          \* the timer whose message the workqueue is sending
    rx,          \* the callback that runs: its message, and what comes after
    main,        \* the main loop: step, event, status read, key in hand
    (* the rest of the world *)
    adv,         \* "off", "undirected" or "directed" advertising
    link,        \* "down", "up" or "closing", and whether it is encrypted
    bond,        \* whether keys of a host are in the NVRAM
    (* history *)
    seen,        \* keys pressed, key presses reported, links made
    lost         \* a sender gave up or a request was refused

app == <<rmc_status, hid_app_cb, input, ready, timers>>
threads == <<msg_queue, wq, rx, main>>
world == <<adv, link, bond>>
vars == <<app, threads, world, seen, lost>>

Timers == {"ADV", "DIRECT_ADV", "NO_ACT", "ADC_BATTERY", "PAIR_COMB", "HCI_COMB", "SEC"}
BleEvents == {"BLE_CONNECTED", "BLE_SEC_CONNECTED", "BLE_USER_DISCONNECTED",
              "BLE_NON_USER_DISCONNECTED"}
SmEvents == BleEvents \cup
    {"INPUT_KEY", "ADV", "DIRECT_ADV", "NO_ACT", "SEC", "RECONN_FAIL", "POWER_UP",
     "CLEAR_PAIR_KEY", "LOW_POWER"}
States == {"IDLE", "ADVERTISING", "CONNECTED"}

\* A message: a key and its direction, a BLE event, a timer, or low power.
Msg(type, v, down) == [type |-> type, v |-> v, down |-> down]
Ble(e) == Msg("BLE", e, FALSE)
Timer(t) == Msg("TIMER", t, FALSE)
LowPower == Msg("LOW_POWER", "", FALSE)

NoKey == Msg("KEY", "none", FALSE)
ZeroCb == [pconn |-> FALSE, direct_addr |-> FALSE, reconn_times |-> 0,
           enter_pairing_mode |-> FALSE, rmc_term_conn_flag |-> FALSE,
           rmc_security_ready_flag |-> FALSE]
LinkDown == [state |-> "down", enc |-> FALSE]
RxIdle == [pc |-> "idle", msg |-> LowPower]
Loop == [pc |-> "loop", ev |-> "INPUT_KEY", s |-> "IDLE", key |-> NoKey]
-----------------------------------------------------------------------------
(***************************************************************************)
(* rmc_State_table and rmc_act_set: next state and action of every event.  *)
(* The event BLE_INPUT_ENABLED is never sent in this application.          *)
(***************************************************************************)
NextState(s, e) ==
    CASE e \in {"BLE_CONNECTED", "BLE_SEC_CONNECTED"} -> "CONNECTED"
      [] e = "BLE_NON_USER_DISCONNECTED" -> IF s = "CONNECTED" THEN "ADVERTISING" ELSE "IDLE"
      [] e \in {"INPUT_KEY", "CLEAR_PAIR_KEY", "DIRECT_ADV"} ->
            IF s = "CONNECTED" THEN s ELSE "ADVERTISING"
      [] e = "ADV" -> IF s = "CONNECTED" THEN s ELSE "IDLE"
      [] e = "POWER_UP" -> "ADVERTISING"
      [] e \in {"BLE_USER_DISCONNECTED", "NO_ACT", "SEC", "RECONN_FAIL", "LOW_POWER"} -> "IDLE"

\* The events that end a connection.
TerminatesAllButLow == {"NO_ACT", "SEC"}
Terminates == {"NO_ACT", "SEC", "LOW_POWER"}

\* The entry for BLE_CONNECTED in IDLE holds the number of the message where
\* the others hold the number of an action; it is the number of act_start_adv.
Action(s, e) ==
    CASE s = "IDLE" /\ e \in {"BLE_CONNECTED", "CLEAR_PAIR_KEY"} -> "START_ADV"
      [] s = "IDLE" /\ e \in {"INPUT_KEY", "BLE_NON_USER_DISCONNECTED", "DIRECT_ADV"} ->
            "START_DIRECT_ADV"
      [] s = "ADVERTISING" /\ e = "BLE_CONNECTED" -> "CONNECTED"
      [] s = "ADVERTISING" /\ e \in {"NO_ACT", "LOW_POWER"} -> "STOP_ADV"
      [] s = "ADVERTISING" /\ e = "DIRECT_ADV" -> "START_DIRECT_ADV"
      [] s = "ADVERTISING" /\ e = "CLEAR_PAIR_KEY" -> "START_ADV"
      [] s = "CONNECTED" /\ e = "BLE_NON_USER_DISCONNECTED" -> "START_DIRECT_ADV"
      [] s = "CONNECTED" /\ e \in Terminates -> "DISCONNECT"
      [] e = "BLE_SEC_CONNECTED" -> "SEND_KEY"
      [] e = "ADV" -> "STOP_ADV"
      [] e = "POWER_UP" -> "START_DIRECT_ADV"
      [] OTHER -> "NONE"
-----------------------------------------------------------------------------
(***************************************************************************)
(* Timers and messages.                                                    *)
(***************************************************************************)
\* k_delayed_work_submit fails while the work is pending on the workqueue,
\* k_delayed_work_cancel has an effect only while it counts down.
Start(ts, t) == IF t \in ts.due THEN ts ELSE [ts EXCEPT !.armed = @ \cup {t}]
Stop(ts, t) == [ts EXCEPT !.armed = @ \ {t}]

Async(m) == m.type = "KEY"
Queued(async) == Cardinality({i \in DOMAIN msg_queue : Async(msg_queue[i]) = async})
Room(async) == Queued(async) < IF async THEN AsyncBufs ELSE SyncBufs

\* A thread that waits for a buffer lets the others run; one that does not
\* runs to its end, since the workqueue and the RX thread are cooperative.
\* The main thread has the lowest priority: it runs when they have no work.
Alive == main.pc # "dtm"
Yielded == Alive /\ ((wq = "none" /\ rx.pc = "idle") \/ ~Room(FALSE))
MainRuns == Yielded /\ (timers.due = {} \/ wq # "none")

\* send_msg(.., K_MSEC(100)): the message is queued, or there is no buffer.
Queue(m) == Room(FALSE) /\ msg_queue' = Append(msg_queue, m) /\ UNCHANGED lost
GiveUp == ~Room(FALSE) /\ lost' = TRUE /\ UNCHANGED msg_queue
Send(m) == Queue(m) \/ (MayDrop /\ GiveUp)

\* The countdown ends: the kernel submits the work to the workqueue.
Expire(t) ==
    /\ t \in timers.armed \cap Expiring
    /\ timers' = [armed |-> timers.armed \ {t}, due |-> timers.due \cup {t}]
    /\ UNCHANGED <<rmc_status, hid_app_cb, input, ready, threads, world, seen, lost>>

\* check_rmc_timer: the workqueue takes the work, and sends the message.
CheckTimer(t) ==
    /\ wq = "none" /\ t \in timers.due /\ Yielded
    /\ timers' = [timers EXCEPT !.due = @ \ {t}]
    /\ wq' = t
    /\ UNCHANGED <<rmc_status, hid_app_cb, input, ready, msg_queue, rx, main, world, seen, lost>>

SendTimer ==
    /\ wq # "none"
    /\ Send(Timer(wq))
    /\ wq' = "none"
    /\ UNCHANGED <<app, rx, main, world, seen>>

\* report_key_event, from the interrupt of the keypad: one key at a time is
\* held.  No buffer: the key is lost.
ReportKey(k, down) ==
    /\ Alive /\ seen.keys < MaxKeys
    /\ IF down THEN seen.held = "none" ELSE seen.held = k
    /\ seen' = [seen EXCEPT !.keys = @ + 1, !.held = IF down THEN k ELSE "none",
                            !.presses = @ + (IF down /\ k = "PLAIN" THEN 1 ELSE 0)]
    /\ msg_queue' = IF Room(TRUE) THEN Append(msg_queue, Msg("KEY", k, down)) ELSE msg_queue
    /\ UNCHANGED <<app, wq, rx, main, world, lost>>
-----------------------------------------------------------------------------
(***************************************************************************)
(* The main loop: app_main takes a message and calls its handler, which    *)
(* enters rmc_sm_execute (Execute) with the status it reads.               *)
(***************************************************************************)
At(step) == main.pc = step /\ MainRuns
Goto(step) == main' = [main EXCEPT !.pc = step]
Execute(ev, key) == main' = [pc |-> "store", ev |-> ev, s |-> rmc_status, key |-> key]

Receive(type) ==
    /\ At("loop") /\ msg_queue # <<>> /\ Head(msg_queue).type = type
    /\ msg_queue' = Tail(msg_queue)

ReceiveKey ==
    /\ Receive("KEY")
    /\ timers' = Start(timers, "NO_ACT")
    /\ IF ready THEN Execute("INPUT_KEY", Head(msg_queue)) ELSE UNCHANGED main
    /\ UNCHANGED <<rmc_status, hid_app_cb, input, ready, wq, rx, world, seen, lost>>

\* system_ble_event_handle
ReceiveBle ==
    /\ Receive("BLE")
    /\ hid_app_cb' = [hid_app_cb EXCEPT !.reconn_times = 0]
    /\ Execute(Head(msg_queue).v, NoKey)
    /\ UNCHANGED <<rmc_status, input, ready, timers, wq, rx, world, seen, lost>>

ReceiveLowPower ==
    /\ Receive("LOW_POWER")
    /\ Execute("LOW_POWER", NoKey)
    /\ UNCHANGED <<app, wq, rx, world, seen, lost>>

\* system_app_timer_event_handle
ReceiveSmTimer ==
    /\ Receive("TIMER") /\ Head(msg_queue).v \in {"ADV", "DIRECT_ADV", "NO_ACT", "SEC"}
    /\ Execute(Head(msg_queue).v, NoKey)
    /\ UNCHANGED <<app, wq, rx, world, seen, lost>>

\* update_battry_value and bas_notify; a very low battery sends a message.
ReceiveBattery ==
    /\ Receive("TIMER") /\ Head(msg_queue).v = "ADC_BATTERY"
    /\ \/ /\ rmc_status = "CONNECTED" /\ MayLow
          /\ Goto("low_power") /\ UNCHANGED timers
       \/ /\ rmc_status = "CONNECTED"
          /\ timers' = Start(timers, "ADC_BATTERY") /\ UNCHANGED main
       \/ /\ rmc_status # "CONNECTED"
          /\ UNCHANGED <<timers, main>>
    /\ UNCHANGED <<rmc_status, hid_app_cb, input, ready, wq, rx, world, seen, lost>>

\* The main loop frees the buffers itself, so its own wait is in vain.
SendLowPower ==
    /\ At("low_power")
    /\ Queue(LowPower) \/ GiveUp
    /\ timers' = Start(timers, "ADC_BATTERY")
    /\ Goto("loop")
    /\ UNCHANGED <<rmc_status, hid_app_cb, input, ready, wq, rx, world, seen>>

\* bt_conn_disconnect: a link that is up is going to be closed.
ClosingNever(l) == l
Closing(l) == IF l.state = "up" THEN [l EXCEPT !.state = "closing"] ELSE l

\* rmc_clear_pair_info: bt_storage_clear ends the connection and clears the
\* keys; when the NVRAM refuses, direct_addr is kept.
ClearPairInfo(ok) ==
    /\ link' = Closing(link)
    /\ bond' = (bond /\ ~ok)
    /\ hid_app_cb' = [hid_app_cb EXCEPT !.direct_addr = @ /\ ~ok]
    /\ lost' = (lost \/ ~ok)
    /\ ok \/ MayFail

ReceivePairTimer ==
    /\ Receive("TIMER") /\ Head(msg_queue).v = "PAIR_COMB"
    /\ \E ok \in BOOLEAN : ClearPairInfo(ok)
    /\ Execute("CLEAR_PAIR_KEY", NoKey)
    /\ UNCHANGED <<rmc_status, input, ready, timers, wq, rx, adv, seen>>

\* sys_pm_reboot into the direct test mode, another program: nothing of this
\* one runs any more.
ReceiveHciTimer ==
    /\ Receive("TIMER") /\ Head(msg_queue).v = "HCI_COMB"
    /\ Goto("dtm")
    /\ timers' = [armed |-> {}, due |-> {}] /\ wq' = "none" /\ rx' = RxIdle
    /\ hid_app_cb' = ZeroCb
    /\ adv' = "off" /\ link' = LinkDown
    /\ UNCHANGED <<rmc_status, input, ready, bond, seen, lost>>
-----------------------------------------------------------------------------
(***************************************************************************)
(* rmc_sm_execute in the main loop: the next state is stored, then the     *)
(* action runs.                                                            *)
(***************************************************************************)
\* The state machine is done: back to the key in hand, or to the loop.
Done == main' = IF main.key = NoKey THEN Loop ELSE [main EXCEPT !.pc = "key"]

StoreState ==
    /\ At("store")
    /\ rmc_status' = NextState(main.s, main.ev)
    /\ Goto(Action(main.s, main.ev))
    /\ UNCHANGED <<hid_app_cb, input, ready, timers, msg_queue, wq, rx, world, seen, lost>>

rmc_sm_act_none ==
    /\ At("NONE") /\ Done
    /\ UNCHANGED <<app, msg_queue, wq, rx, world, seen, lost>>

\* rmc_sm_act_start_adv: nothing while there is a connection, else undirected
\* advertising, and then the flags and timers.
StartAdvCheck ==
    /\ At("START_ADV")
    /\ IF hid_app_cb.pconn THEN Done ELSE Goto("start_adv")
    /\ UNCHANGED <<app, msg_queue, wq, rx, world, seen, lost>>

StartAdv ==
    /\ At("start_adv")
    /\ \/ adv' = "undirected" /\ Goto("pairing") /\ UNCHANGED lost
       \/ MayFail /\ adv' = "off" /\ Done /\ lost' = TRUE
    /\ UNCHANGED <<app, msg_queue, wq, rx, link, bond, seen>>

PairingTimersStopped(ts) == Stop(ts, "DIRECT_ADV")
PairingTimers(ts) == Start(Stop(ts, "DIRECT_ADV"), "ADV")

EnterPairing ==
    /\ At("pairing")
    /\ hid_app_cb' = [hid_app_cb EXCEPT !.enter_pairing_mode = TRUE]
    /\ timers' = PairingTimers(timers)
    /\ Done
    /\ UNCHANGED <<rmc_status, input, ready, msg_queue, wq, rx, world, seen, lost>>

\* is_paired: it remembers the address it finds in the NVRAM.
IsPaired == hid_app_cb.direct_addr \/ bond

MayReconnOnceMore(n) == n <= MAX_RECONN_TIMES
MayReconn(n) == n < MAX_RECONN_TIMES

\* rmc_sm_act_start_direct_adv: another attempt, or the state machine again.
DirectAdvCheck ==
    /\ At("START_DIRECT_ADV")
    /\ IF IsPaired /\ MayReconn(hid_app_cb.reconn_times)
         THEN /\ Goto("start_direct_adv")
              /\ hid_app_cb' = [hid_app_cb EXCEPT !.direct_addr = TRUE]
         ELSE /\ hid_app_cb' = [hid_app_cb EXCEPT !.direct_addr = IsPaired, !.reconn_times = 0]
              /\ Execute(IF "PAIR_COMB" \in input.comb THEN "CLEAR_PAIR_KEY" ELSE "RECONN_FAIL",
                         main.key)
    /\ UNCHANGED <<rmc_status, input, ready, timers, msg_queue, wq, rx, world, seen, lost>>

StartDirectAdv ==
    /\ At("start_direct_adv")
    /\ \/ adv' = "directed" /\ Goto("reconnect") /\ UNCHANGED lost
       \/ MayFail /\ adv' = "off" /\ Done /\ lost' = TRUE
    /\ UNCHANGED <<app, msg_queue, wq, rx, link, bond, seen>>

ReconnTimersNone(ts) == ts
ReconnTimers(ts) == Start(ts, "DIRECT_ADV")

Reconnecting ==
    /\ At("reconnect")
    /\ hid_app_cb' = [hid_app_cb EXCEPT !.reconn_times = @ + 1]
    /\ timers' = ReconnTimers(timers)
    /\ Done
    /\ UNCHANGED <<rmc_status, input, ready, msg_queue, wq, rx, world, seen, lost>>

rmc_sm_act_stop_adv ==
    /\ At("STOP_ADV")
    /\ adv' = "off"
    /\ hid_app_cb' = [hid_app_cb EXCEPT !.enter_pairing_mode = FALSE]
    /\ Done
    /\ UNCHANGED <<rmc_status, input, ready, timers, msg_queue, wq, rx, link, bond, seen, lost>>

rmc_sm_act_connected ==
    /\ At("CONNECTED")
    /\ hid_app_cb' = [hid_app_cb EXCEPT !.enter_pairing_mode = FALSE]
    /\ Done
    /\ UNCHANGED <<rmc_status, input, ready, timers, msg_queue, wq, rx, world, seen, lost>>

\* rmc_sm_act_disconnect_conn: the flag is set after the request.
DisconnectConn ==
    /\ At("DISCONNECT")
    /\ IF hid_app_cb.pconn
         THEN /\ Goto("terminated")
              /\ link' = Closing(link)
         ELSE Done /\ UNCHANGED link
    /\ UNCHANGED <<app, msg_queue, wq, rx, adv, bond, seen, lost>>

SetTermFlag ==
    /\ At("terminated")
    /\ hid_app_cb' = [hid_app_cb EXCEPT !.rmc_term_conn_flag = TRUE]
    /\ Done
    /\ UNCHANGED <<rmc_status, input, ready, timers, msg_queue, wq, rx, world, seen, lost>>
-----------------------------------------------------------------------------
(***************************************************************************)
(* Keys: a plain key is sent to the host, or kept until there is one.      *)
(***************************************************************************)
\* rmc_sm_state_is_activing() || !rmc_security_ready()
NotReady == rmc_status # "CONNECTED" \/ ~hid_app_cb.rmc_security_ready_flag

\* hid_app_remote_report_event: key presses that reach the host.
Reported(n) == IF hid_app_cb.pconn /\ hid_app_cb.rmc_security_ready_flag
               THEN [seen EXCEPT !.reports = @ + n] ELSE seen

\* send_ble_keycode
SendBleKey(down) ==
    IF NotReady
      THEN /\ input' = [pending |-> IF down THEN "DOWN" ELSE "UP", comb |-> {}]
           /\ UNCHANGED seen
      ELSE /\ input' = [pending |-> "none", comb |-> {}]
           /\ seen' = Reported(IF down THEN 1 ELSE 0)

\* is_need_deliver_to_app: a plain key ends the combinations whose release was
\* not seen; the voice key belongs to the audio part.
DeliverPlainKey ==
    /\ At("key") /\ main.key.v = "PLAIN"
    /\ timers' = [timers EXCEPT !.armed = @ \ input.comb]
    /\ SendBleKey(main.key.down)
    /\ main' = Loop
    /\ UNCHANGED <<rmc_status, hid_app_cb, ready, msg_queue, wq, rx, world, lost>>

DeliverCombKey ==
    /\ At("key") /\ main.key.v \in {"PAIR_COMB", "HCI_COMB"}
    /\ LET k == main.key.v IN
        IF main.key.down
          THEN /\ timers' = Start(timers, k)
               /\ input' = [input EXCEPT !.comb = @ \cup {k}]
          ELSE /\ timers' = Stop(timers, k)
               /\ input' = [input EXCEPT !.comb = @ \ {k}]
    /\ main' = Loop
    /\ UNCHANGED <<rmc_status, hid_app_cb, ready, msg_queue, wq, rx, world, seen, lost>>

DeliverVoiceKey ==
    /\ At("key") /\ main.key.v = "VOICE"
    /\ main' = Loop
    /\ UNCHANGED <<app, msg_queue, wq, rx, world, seen, lost>>

\* rmc_sm_act_send_key, send_pending_keycode: a key that is still down goes
\* the usual way, a complete press is reported and stays pending.
SendPendingKey ==
    /\ At("SEND_KEY")
    /\ CASE input.pending = "none" -> UNCHANGED <<input, seen>>
         [] input.pending = "UP" -> seen' = Reported(1) /\ UNCHANGED input
         [] input.pending = "DOWN" ->
                IF NotReady THEN UNCHANGED <<input, seen>>
                ELSE input' = [input EXCEPT !.pending = "none"] /\ seen' = Reported(1)
    /\ Done
    /\ UNCHANGED <<rmc_status, hid_app_cb, ready, timers, msg_queue, wq, rx, world, lost>>
-----------------------------------------------------------------------------
(***************************************************************************)
(* The callbacks of the BT RX thread, each up to and from its send_msg.    *)
(***************************************************************************)
RxSends(pc, m) == rx' = [pc |-> pc, msg |-> m]

\* connected: advertising is for one connection and has stopped.
Connected ==
    /\ rx.pc = "idle" /\ Yielded
    /\ adv # "off" /\ link.state = "down" /\ seen.links < MaxLinks
    /\ adv' = "off" /\ link' = [state |-> "up", enc |-> FALSE]
    /\ seen' = [seen EXCEPT !.links = @ + 1]
    /\ hid_app_cb' = [hid_app_cb EXCEPT !.pconn = TRUE]
    /\ RxSends("connected", Ble("BLE_CONNECTED"))
    /\ UNCHANGED <<rmc_status, input, ready, timers, msg_queue, wq, main, bond, lost>>

LinkTimers(ts) == Start(Start(ts, "ADC_BATTERY"), "SEC")

\* ... and the rest of it: the battery is read, which may send another message.
ConnectedSent ==
    /\ rx.pc = "connected"
    /\ Send(rx.msg)
    /\ hid_app_cb' = [hid_app_cb EXCEPT !.enter_pairing_mode = FALSE]
    /\ \/ rx' = RxIdle /\ timers' = LinkTimers(timers)
       \/ MayLow /\ RxSends("battery", LowPower) /\ UNCHANGED timers
    /\ UNCHANGED <<rmc_status, input, ready, wq, main, world, seen>>

BatterySent ==
    /\ rx.pc = "battery"
    /\ Send(rx.msg)
    /\ rx' = RxIdle /\ timers' = LinkTimers(timers)
    /\ UNCHANGED <<rmc_status, hid_app_cb, input, ready, wq, main, world, seen>>

\* disconnected: by the user of the host, at our request, or not.
UserTerm(remote) == remote \/ hid_app_cb.rmc_term_conn_flag

Disconnected(remote) ==
    /\ rx.pc = "idle" /\ Yielded
    /\ link.state # "down"
    /\ link' = LinkDown
    /\ hid_app_cb' = [hid_app_cb EXCEPT !.pconn = FALSE, !.rmc_term_conn_flag = FALSE]
    /\ RxSends("disconnected",
               Ble(IF UserTerm(remote) /\ "PAIR_COMB" \notin input.comb
                   THEN "BLE_USER_DISCONNECTED" ELSE "BLE_NON_USER_DISCONNECTED"))
    /\ UNCHANGED <<rmc_status, input, ready, timers, msg_queue, wq, main, adv, bond, seen, lost>>

ForgetNothing(cb) == cb
Forget(cb) == [cb EXCEPT !.rmc_security_ready_flag = FALSE]

DisconnectedSent ==
    /\ rx.pc = "disconnected"
    /\ Send(rx.msg)
    /\ timers' = Stop(timers, "ADC_BATTERY")
    /\ hid_app_cb' = Forget(hid_app_cb)
    /\ rx' = RxIdle
    /\ UNCHANGED <<rmc_status, input, ready, wq, main, world, seen>>

\* security_changed for a bonded host that has not enabled its reports: the
\* RX thread runs the state machine (act_start_adv finds a connection).
SecurityChangedNoCcc(ok) ==
    /\ rx.pc = "idle" /\ Yielded
    /\ link.state = "up" /\ ~link.enc /\ IsPaired
    /\ link' = [state |-> "closing", enc |-> TRUE]
    /\ ok \/ MayFail
    /\ bond' = (bond /\ ~ok) /\ lost' = (lost \/ ~ok)
    /\ hid_app_cb' = [hid_app_cb EXCEPT !.direct_addr = ~ok]
    /\ rmc_status' = NextState(rmc_status, "CLEAR_PAIR_KEY")
    /\ UNCHANGED <<input, ready, timers, threads, adv, seen>>

\* security_changed for a host that is new or has enabled its reports.
SecurityChanged ==
    /\ rx.pc = "idle" /\ Yielded
    /\ link.state = "up" /\ ~link.enc
    /\ link' = [link EXCEPT !.enc = TRUE]
    /\ timers' = Stop(timers, "SEC")
    /\ hid_app_cb' = [hid_app_cb EXCEPT !.rmc_security_ready_flag = TRUE, !.direct_addr = IsPaired]
    /\ RxSends("security", Ble("BLE_SEC_CONNECTED"))
    /\ UNCHANGED <<rmc_status, input, ready, msg_queue, wq, main, adv, bond, seen, lost>>

SecuritySent ==
    /\ rx.pc = "security"
    /\ Send(rx.msg)
    /\ rx' = RxIdle
    /\ UNCHANGED <<app, wq, main, world, seen>>

\* bt_ready: hid_app_cb is cleared, and the state machine runs for POWER_UP.
\* No combination key can be held: keys are ignored until now.
BtReady ==
    /\ ~ready /\ rx.pc = "idle" /\ Yielded
    /\ ready' = TRUE
    /\ \/ /\ IsPaired /\ rmc_status' = NextState(rmc_status, "POWER_UP")
          /\ adv' = "directed" /\ timers' = ReconnTimers(timers)
          /\ hid_app_cb' = [hid_app_cb EXCEPT !.direct_addr = TRUE, !.reconn_times = 1]
          /\ UNCHANGED lost
       \/ /\ IsPaired /\ rmc_status' = NextState(rmc_status, "POWER_UP")
          /\ MayFail /\ lost' = TRUE
          /\ hid_app_cb' = [hid_app_cb EXCEPT !.direct_addr = TRUE]
          /\ UNCHANGED <<adv, timers>>
       \/ /\ ~IsPaired /\ rmc_status' = "IDLE"
          /\ UNCHANGED <<adv, timers, hid_app_cb, lost>>
    /\ UNCHANGED <<input, threads, link, bond, seen>>
-----------------------------------------------------------------------------
(***************************************************************************)
(* The controller and the host.                                            *)
(***************************************************************************)
\* High duty cycle directed advertising ends after 1.28 s.
AdvTimeout ==
    /\ adv = "directed" /\ adv' = "off"
    /\ UNCHANGED <<app, threads, link, bond, seen, lost>>

\* Pairing is complete: the keys are stored.
Pair ==
    /\ link.state = "up" /\ link.enc /\ ~bond
    /\ bond' = TRUE
    /\ UNCHANGED <<app, threads, adv, link, seen, lost>>

Init ==
    /\ rmc_status = "IDLE"
    /\ hid_app_cb = ZeroCb
    /\ input = [pending |-> "none", comb |-> {}]
    /\ ready = FALSE
    /\ timers = [armed |-> {"NO_ACT"}, due |-> {}]
    /\ msg_queue = <<>> \/ (MayLow /\ msg_queue = <<LowPower>>)
    /\ wq = "none" /\ rx = RxIdle /\ main = Loop
    /\ adv = "off" /\ link = LinkDown /\ bond \in Bonded
    /\ seen = [keys |-> 0, held |-> "none", presses |-> 0, reports |-> 0, links |-> 0]
    /\ lost = FALSE

MainStep ==
    \/ ReceiveKey \/ ReceiveBle \/ ReceiveLowPower \/ ReceiveSmTimer
    \/ ReceiveBattery \/ SendLowPower \/ ReceivePairTimer \/ ReceiveHciTimer
    \/ StoreState \/ rmc_sm_act_none \/ StartAdvCheck \/ StartAdv \/ EnterPairing
    \/ DirectAdvCheck \/ StartDirectAdv \/ Reconnecting
    \/ rmc_sm_act_stop_adv \/ rmc_sm_act_connected \/ DisconnectConn \/ SetTermFlag
    \/ DeliverPlainKey \/ DeliverCombKey \/ DeliverVoiceKey \/ SendPendingKey

RxStep == ConnectedSent \/ BatterySent \/ DisconnectedSent \/ SecuritySent

Callback ==
    \/ Connected \/ SecurityChanged
    \/ \E b \in BOOLEAN : Disconnected(b) \/ SecurityChangedNoCcc(b)

Next ==
    \/ MainStep \/ RxStep \/ Callback \/ BtReady \/ SendTimer
    \/ \E t \in Timers : Expire(t) \/ CheckTimer(t)
    \/ \E k \in Keys, down \in BOOLEAN : ReportKey(k, down)
    \/ AdvTimeout \/ Pair

\* The scheduler runs a thread that is ready, time passes and a disconnection
\* that was asked for happens.
Fairness ==
    /\ WF_vars(MainStep) /\ WF_vars(RxStep) /\ WF_vars(SendTimer)
    /\ \A t \in Timers : WF_vars(Expire(t)) /\ WF_vars(CheckTimer(t))
    /\ WF_vars(link.state = "closing" /\ Disconnected(FALSE))

Safe == Init /\ [][Next]_vars
Spec == Safe /\ Fairness
-----------------------------------------------------------------------------
(***************************************************************************)
(* Properties.                                                             *)
(***************************************************************************)
\* The types of the state, and the bounds of the queue and of the attempts.
TypeOK ==
    /\ rmc_status \in States
    /\ hid_app_cb \in [pconn : BOOLEAN, direct_addr : BOOLEAN,
                       reconn_times : 0..MAX_RECONN_TIMES, enter_pairing_mode : BOOLEAN,
                       rmc_term_conn_flag : BOOLEAN, rmc_security_ready_flag : BOOLEAN]
    /\ input \in [pending : {"none", "DOWN", "UP"}, comb : SUBSET {"PAIR_COMB", "HCI_COMB"}]
    /\ ready \in BOOLEAN /\ lost \in BOOLEAN /\ bond \in BOOLEAN
    /\ timers \in [armed : SUBSET Timers, due : SUBSET Timers]
    /\ wq \in Timers \cup {"none"}
    /\ Queued(TRUE) <= AsyncBufs /\ Queued(FALSE) <= SyncBufs
    /\ adv \in {"off", "undirected", "directed"}
    /\ link \in [state : {"down", "up", "closing"}, enc : BOOLEAN]

\* A timer that will reach the main loop, or has reached it.
Coming(t) == \/ t \in timers.armed \cup timers.due \cup {wq}
             \/ \E i \in DOMAIN msg_queue : msg_queue[i] = Timer(t)

BleComing == rx.pc # "idle" \/ \E i \in DOMAIN msg_queue : msg_queue[i].type = "BLE"

\* In ADVERTISING a key does nothing: there is always a timer, a connection or
\* an event of one that ends the state, unless a message or a request failed.
AdvertisingIsTimed ==
    (main.pc = "loop" /\ rmc_status = "ADVERTISING" /\ ~lost)
        => Coming("ADV") \/ Coming("DIRECT_ADV") \/ hid_app_cb.pconn \/ BleComing

\* Once all events of the link are handled, the state machine and the link
\* agree, or the link is being closed.
LinkAgrees ==
    (main.pc = "loop" /\ ~BleComing /\ ~lost)
        => /\ rmc_status = "CONNECTED" => hid_app_cb.pconn
           /\ hid_app_cb.pconn => rmc_status = "CONNECTED" \/ link.state = "closing"

\* The pairing indication never outlives the timer that ends pairing mode.
PairingIsTimed ==
    (hid_app_cb.enter_pairing_mode /\ ~lost)
        => Coming("ADV") \/ (main.pc \in {"store", "STOP_ADV"} /\ main.ev = "ADV")
             \/ main.pc = "pairing"

\* Keys go to a host only over a link that is encrypted now.
ReportsAreEncrypted ==
    (hid_app_cb.pconn /\ hid_app_cb.rmc_security_ready_flag) => link.state # "down" /\ link.enc

\* Advertising ends, in a connection or in IDLE, unless something failed.
AdvertisingEnds == (rmc_status = "ADVERTISING") ~> (rmc_status # "ADVERTISING" \/ lost)

\* Every key press that is reported to the host was made by the user.
NoPhantomKey == seen.reports <= seen.presses
=============================================================================
