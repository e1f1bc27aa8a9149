----------------------------- MODULE RmcSmProofs ----------------------------
(***************************************************************************)
(* Proofs about the application of the voice remote control, for any       *)
(* number of keys, links, buffers and attempts.                            *)
(***************************************************************************)
EXTENDS RmcSm, TLAPS, SequenceTheorems, FiniteSetTheorems

(***************************************************************************)
(* The inductive invariant.                                                *)
(***************************************************************************)
\* The types, with those of the threads.
MainPcs == {"loop", "low_power", "store", "key", "dtm", "NONE", "START_ADV", "start_adv", "pairing",
            "START_DIRECT_ADV", "start_direct_adv", "reconnect", "STOP_ADV", "CONNECTED",
            "DISCONNECT", "terminated", "SEND_KEY"}
RxPcs == {"idle", "connected", "battery", "disconnected", "security"}
Messages ==
    {m \in [type : {"KEY", "BLE", "TIMER", "LOW_POWER"},
            v : Keys \cup BleEvents \cup Timers \cup {"", "none"}, down : BOOLEAN] :
        /\ m.type = "BLE" => m.v \in BleEvents
        /\ m.type = "TIMER" => m.v \in Timers}
MainRec == [pc : MainPcs, ev : SmEvents, s : States, key : Messages]

AppTypes ==
    /\ rmc_status \in States
    /\ hid_app_cb \in [pconn : BOOLEAN, direct_addr : BOOLEAN,
                       reconn_times : 0..MAX_RECONN_TIMES, enter_pairing_mode : BOOLEAN,
                       rmc_term_conn_flag : BOOLEAN, rmc_security_ready_flag : BOOLEAN]
    /\ input \in [pending : {"none", "DOWN", "UP"}, comb : SUBSET {"PAIR_COMB", "HCI_COMB"}]
    /\ ready \in BOOLEAN
    /\ timers \in [armed : SUBSET Timers, due : SUBSET Timers]
ThreadTypes ==
    /\ msg_queue \in Seq(Messages)
    /\ wq \in Timers \cup {"none"}
    /\ rx \in [pc : RxPcs, msg : Messages] /\ rx.msg.type \in {"BLE", "LOW_POWER"}
    /\ main \in MainRec
WorldTypes ==
    /\ adv \in {"off", "undirected", "directed"}
    /\ link \in [state : {"down", "up", "closing"}, enc : BOOLEAN]
    /\ bond \in BOOLEAN /\ lost \in BOOLEAN

QueueBounded == Queued(TRUE) <= AsyncBufs /\ Queued(FALSE) <= SyncBufs

\* Before bt_ready nothing but the inactivity timer and a first low power
\* message reach the state machine; so bt_ready finds the main loop harmless.
Early(m) == m.type # "BLE" /\ (m.type = "TIMER" => m.v = "NO_ACT")
NotReadyYet ==
    ~ready =>
        /\ rmc_status = "IDLE" /\ hid_app_cb = ZeroCb
        /\ adv = "off" /\ link = LinkDown /\ rx = RxIdle
        /\ timers.armed \subseteq {"NO_ACT"} /\ timers.due \subseteq {"NO_ACT"} /\ wq \in {"NO_ACT", "none"}
        /\ \A i \in DOMAIN msg_queue : Early(msg_queue[i])
        /\ main.pc \in {"loop", "store", "NONE"} /\ main.key = NoKey
        /\ main.pc = "store" => main.s = "IDLE" /\ main.ev \in {"NO_ACT", "LOW_POWER"}

\* The direct test mode is another program; an attempt that was admitted does
\* not exceed the limit.
Halted == main.pc = "dtm" => ~hid_app_cb.enter_pairing_mode
AttemptsLeft == main.pc \in {"start_direct_adv", "reconnect"} => hid_app_cb.reconn_times < MAX_RECONN_TIMES

\* The status that the main loop has read is not stale in what matters, although
\* security_changed stores one too.
StatusRead ==
    /\ main.pc = "store" =>
          /\ main.s = "CONNECTED" <=> rmc_status = "CONNECTED"
          /\ main.s = "ADVERTISING" => rmc_status = "ADVERTISING"
          /\ main.ev = "RECONN_FAIL" => main.s # "CONNECTED"
          /\ main.ev # "POWER_UP"
    /\ main.pc = "START_DIRECT_ADV" => rmc_status # "CONNECTED"

\* pconn is the link, and a link that is ready is encrypted or was just lost.
LinkKnown ==
    /\ hid_app_cb.pconn <=> link.state # "down"
    /\ rx.pc \in {"connected", "battery", "security"} => hid_app_cb.pconn
    /\ rx.pc = "disconnected" => ~hid_app_cb.pconn
    /\ hid_app_cb.rmc_security_ready_flag => rx.pc = "disconnected" \/ (link.state # "down" /\ link.enc)

\* The newest event of the link says whether there is one, wherever it is: in the
\* RX thread, in the queue, in the main loop, or already in the status.
Up == {"BLE_CONNECTED", "BLE_SEC_CONNECTED"}
NoBle(q) == \A i \in DOMAIN q : q[i].type # "BLE"
NewestIs(q, up) ==
    \A i \in DOMAIN q :
        q[i].type = "BLE" /\ (\A j \in DOMAIN q : j > i => q[j].type # "BLE") => (q[i].v \in Up <=> up)
RxSaysSo ==
    /\ rx.pc \in {"connected", "security"} => rx.msg.type = "BLE" /\ rx.msg.v \in Up
    /\ rx.pc = "disconnected" => rx.msg.type = "BLE" /\ rx.msg.v \notin Up
    /\ rx.pc = "battery" => rx.msg = LowPower
Storing == main.pc = "store" /\ main.ev \in BleEvents
EventsAgree ==
    Alive /\ ~lost /\ rx.pc \in {"idle", "battery"} =>
        /\ NewestIs(msg_queue, hid_app_cb.pconn)
        /\ NoBle(msg_queue) /\ Storing => (main.ev \in Up <=> hid_app_cb.pconn)
        /\ NoBle(msg_queue) /\ ~Storing =>
              /\ rmc_status = "CONNECTED" => hid_app_cb.pconn
              /\ hid_app_cb.pconn =>
                    rmc_status = "CONNECTED" \/ link.state = "closing" \/ main.pc = "DISCONNECT"

\* Advertising ends: what will end it is coming, or is being started.
OnTheWay ==
    \/ main.pc = "store" /\ main.ev \in {"ADV", "DIRECT_ADV", "CLEAR_PAIR_KEY", "RECONN_FAIL"} \cup BleEvents
    \/ main.pc \in {"START_ADV", "start_adv", "pairing", "START_DIRECT_ADV", "start_direct_adv", "reconnect"}
WillEnd ==
    Alive /\ ~lost /\ rmc_status = "ADVERTISING" =>
        \/ Coming("ADV") \/ Coming("DIRECT_ADV")
        \/ hid_app_cb.pconn \/ BleComing \/ OnTheWay

RmcInv ==
    /\ AppTypes /\ ThreadTypes /\ WorldTypes
    /\ QueueBounded /\ NotReadyYet /\ Halted /\ AttemptsLeft /\ StatusRead
    /\ LinkKnown /\ RxSaysSo /\ EventsAgree /\ WillEnd /\ PairingIsTimed

-----------------------------------------------------------------------------
(***************************************************************************)
(* The state table and the queue.                                          *)
(***************************************************************************)
Actions == {"NONE", "START_ADV", "START_DIRECT_ADV", "STOP_ADV", "CONNECTED", "DISCONNECT", "SEND_KEY"}

\* What the proofs use of rmc_State_table and rmc_act_set.
LEMMA TableNext ==
  ASSUME NEW s \in States, NEW e \in SmEvents
  PROVE  /\ NextState(s, e) \in States
         /\ e \in Up => NextState(s, e) = "CONNECTED"
         /\ e \in BleEvents \ Up => NextState(s, e) # "CONNECTED"
         /\ NextState(s, e) = "CONNECTED" => e \in Up \/ s = "CONNECTED"
         /\ s = "CONNECTED" /\ NextState(s, e) # "CONNECTED" =>
               e \in Terminates \/ e \in BleEvents \/ e \in {"RECONN_FAIL", "POWER_UP"}
         /\ NextState(s, e) = "ADVERTISING" =>
               \/ s = "CONNECTED" /\ e = "BLE_NON_USER_DISCONNECTED"
               \/ s # "CONNECTED" /\ e \in {"INPUT_KEY", "CLEAR_PAIR_KEY", "DIRECT_ADV"}
               \/ e = "POWER_UP"
         /\ NextState(s, "CLEAR_PAIR_KEY") = IF s = "CONNECTED" THEN s ELSE "ADVERTISING"
         /\ NextState(s, "POWER_UP") = "ADVERTISING"
  BY DEF NextState, States, SmEvents, BleEvents, Up, Terminates

LEMMA TableAction ==
  ASSUME NEW s \in States, NEW e \in SmEvents
  PROVE  /\ Action(s, e) \in Actions
         /\ s = "CONNECTED" /\ e \in Terminates => Action(s, e) = "DISCONNECT"
         /\ Action(s, e) = "START_DIRECT_ADV" => NextState(s, e) # "CONNECTED"
         /\ e = "ADV" => Action(s, e) = "STOP_ADV"
         /\ s = "IDLE" /\ e \in {"NO_ACT", "LOW_POWER"} => Action(s, e) = "NONE"
         /\ NextState(s, e) = "ADVERTISING" =>
               \/ Action(s, e) \in {"START_ADV", "START_DIRECT_ADV"}
               \/ s = "ADVERTISING" /\ e = "INPUT_KEY"
  BY DEF Action, NextState, States, SmEvents, BleEvents, Actions, Terminates

LEMMA AppendFacts ==
  ASSUME NEW q \in Seq(Messages), NEW m \in Messages
  PROVE  /\ Append(q, m) \in Seq(Messages)
         /\ DOMAIN Append(q, m) = 1 .. Len(q) + 1 /\ DOMAIN q = 1 .. Len(q) /\ Len(q) \in Nat
         /\ \A i \in DOMAIN q : i \in DOMAIN Append(q, m) /\ Append(q, m)[i] = q[i]
         /\ Len(q) + 1 \in DOMAIN Append(q, m) /\ Append(q, m)[Len(q) + 1] = m
  OBVIOUS

LEMMA TailFacts ==
  ASSUME NEW q \in Seq(Messages), q # <<>>
  PROVE  /\ Tail(q) \in Seq(Messages) /\ Head(q) \in Messages /\ Head(q) = q[1]
         /\ Len(q) \in Nat \ {0} /\ DOMAIN q = 1 .. Len(q) /\ DOMAIN Tail(q) = 1 .. Len(q) - 1
         /\ \A i \in 1 .. Len(q) - 1 : Tail(q)[i] = q[i + 1]
  OBVIOUS

\* What is in the queue after a message was put into it, or taken from it.
InQ(q, m) == \E i \in DOMAIN q : q[i] = m

LEMMA InAppend ==
  ASSUME NEW q \in Seq(Messages), NEW m \in Messages
  PROVE  /\ InQ(Append(q, m), m)
         /\ \A x : InQ(q, x) => InQ(Append(q, m), x)
         /\ m.type = "BLE" => ~NoBle(Append(q, m))
         /\ NoBle(Append(q, m)) => NoBle(q)
         /\ m.type # "BLE" /\ NoBle(q) => NoBle(Append(q, m))
  BY AppendFacts DEF InQ, NoBle

LEMMA InTail ==
  ASSUME NEW q \in Seq(Messages), q # <<>>
  PROVE  /\ \A x : InQ(q, x) /\ x # Head(q) => InQ(Tail(q), x)
         /\ NoBle(q) => NoBle(Tail(q))
         /\ Head(q).type # "BLE" /\ NoBle(Tail(q)) => NoBle(q)
  <1> USE TailFacts
  <1>1. \A i \in DOMAIN q : i = 1 \/ (i - 1 \in DOMAIN Tail(q) /\ Tail(q)[i - 1] = q[i])
    OBVIOUS
  <1>2. \A i \in DOMAIN Tail(q) : i + 1 \in DOMAIN q /\ Tail(q)[i] = q[i + 1]
    OBVIOUS
  <1> QED
    BY ZenonT(60), <1>1, <1>2 DEF InQ, NoBle

LEMMA NewestAppend ==
  ASSUME NEW q \in Seq(Messages), NEW m \in Messages, NEW up \in BOOLEAN
  PROVE  /\ m.type # "BLE" /\ NewestIs(q, up) => NewestIs(Append(q, m), up)
         /\ m.type = "BLE" /\ (m.v \in Up <=> up) => NewestIs(Append(q, m), up)
  <1> DEFINE r == Append(q, m)
  <1>1. /\ DOMAIN r = 1 .. Len(q) + 1 /\ DOMAIN q = 1 .. Len(q) /\ Len(q) \in Nat
        /\ \A i \in DOMAIN q : r[i] = q[i]
        /\ r[Len(q) + 1] = m
    BY AppendFacts
  <1> HIDE DEF r
  <1>2. ASSUME m.type # "BLE", NewestIs(q, up) PROVE NewestIs(r, up)
    <2> SUFFICES ASSUME NEW i \in DOMAIN r, r[i].type = "BLE",
                        \A j \in DOMAIN r : j > i => r[j].type # "BLE"
                 PROVE  r[i].v \in Up <=> up
      BY DEF NewestIs
    <2>1. i \in DOMAIN q
      BY <1>1, <1>2
    <2>2. \A j \in DOMAIN q : j > i => q[j].type # "BLE"
      BY <1>1
    <2> QED
      BY <1>1, <1>2, <2>1, <2>2 DEF NewestIs
  <1>3. ASSUME m.type = "BLE", m.v \in Up <=> up PROVE NewestIs(r, up)
    <2> SUFFICES ASSUME NEW i \in DOMAIN r, r[i].type = "BLE",
                        \A j \in DOMAIN r : j > i => r[j].type # "BLE"
                 PROVE  r[i].v \in Up <=> up
      BY DEF NewestIs
    <2>1. i = Len(q) + 1
      BY <1>1, <1>3
    <2> QED
      BY <1>1, <1>3, <2>1
  <1> QED
    BY <1>2, <1>3 DEF r

LEMMA NewestTail ==
  ASSUME NEW q \in Seq(Messages), q # <<>>, NEW up \in BOOLEAN, NewestIs(q, up)
  PROVE  /\ NewestIs(Tail(q), up)
         /\ Head(q).type = "BLE" /\ NoBle(Tail(q)) => (Head(q).v \in Up <=> up)
  <1> DEFINE r == Tail(q)
  <1>1. /\ Len(q) \in Nat \ {0} /\ DOMAIN q = 1 .. Len(q) /\ DOMAIN r = 1 .. Len(q) - 1
        /\ \A i \in 1 .. Len(q) - 1 : r[i] = q[i + 1]
        /\ Head(q) = q[1]
    BY TailFacts
  <1> HIDE DEF r
  <1>2. NewestIs(r, up)
    <2> SUFFICES ASSUME NEW i \in DOMAIN r, r[i].type = "BLE",
                        \A j \in DOMAIN r : j > i => r[j].type # "BLE"
                 PROVE  r[i].v \in Up <=> up
      BY DEF NewestIs
    <2>1. i + 1 \in DOMAIN q /\ q[i + 1].type = "BLE"
      BY <1>1
    <2>2. \A j \in DOMAIN q : j > i + 1 => q[j].type # "BLE"
      <3> SUFFICES ASSUME NEW j \in DOMAIN q, j > i + 1 PROVE q[j].type # "BLE"
        OBVIOUS
      <3>1. j - 1 \in DOMAIN r /\ j - 1 > i /\ r[j - 1] = q[j]
        BY <1>1
      <3> QED
        BY <3>1
    <2> QED
      BY <1>1, <2>1, <2>2 DEF NewestIs
  <1>3. ASSUME q[1].type = "BLE", NoBle(r) PROVE q[1].v \in Up <=> up
    <2>1. \A j \in DOMAIN q : j > 1 => q[j].type # "BLE"
      <3> SUFFICES ASSUME NEW j \in DOMAIN q, j > 1 PROVE q[j].type # "BLE"
        OBVIOUS
      <3>1. j - 1 \in DOMAIN r /\ r[j - 1] = q[j]
        BY <1>1
      <3> QED
        BY <1>3, <3>1 DEF NoBle
    <2> QED
      BY <1>1, <1>3, <2>1 DEF NewestIs
  <1> QED
    BY <1>1, <1>2, <1>3 DEF r

\* The number of messages of one pool.
Count(q, async) == Cardinality({i \in DOMAIN q : Async(q[i]) = async})

LEMMA CountAppend ==
  ASSUME NEW q \in Seq(Messages), NEW m \in Messages, NEW async \in BOOLEAN
  PROVE  /\ Count(q, async) \in Nat
         /\ Count(Append(q, m), async) = Count(q, async) + (IF Async(m) = async THEN 1 ELSE 0)
  <1> DEFINE S == {i \in DOMAIN q : Async(q[i]) = async}
             T == {i \in DOMAIN Append(q, m) : Async(Append(q, m)[i]) = async}
             n == Len(q) + 1
  <1>1. IsFiniteSet(S) /\ n \notin S
    <2>1. 1 \in Int /\ Len(q) \in Int
      OBVIOUS
    <2>2. IsFiniteSet(1 .. Len(q))
      BY <2>1, FS_Interval
    <2> QED
      BY <2>2, AppendFacts, FS_Subset
  <1>2. T = IF Async(m) = async THEN S \cup {n} ELSE S
    BY AppendFacts
  <1> HIDE DEF S, T, n
  <1>3. Cardinality(S) \in Nat /\ Cardinality(S \cup {n}) = Cardinality(S) + 1
    BY <1>1, FS_CardinalityType, FS_AddElement
  <1>4. Cardinality(T) = Cardinality(S) + (IF Async(m) = async THEN 1 ELSE 0)
    BY <1>2, <1>3
  <1> QED
    BY <1>3, <1>4 DEF Count, S, T

LEMMA CountTail ==
  ASSUME NEW q \in Seq(Messages), q # <<>>, NEW async \in BOOLEAN
  PROVE  Count(Tail(q), async) <= Count(q, async)
  <1> DEFINE S == {i \in DOMAIN q : Async(q[i]) = async}
             T == {i \in DOMAIN Tail(q) : Async(Tail(q)[i]) = async}
             f == [i \in T |-> i + 1]
  <1>1. IsFiniteSet(S)
    <2>1. IsFiniteSet(1 .. Len(q))
      BY TailFacts, FS_Interval
    <2> QED
      BY <2>1, TailFacts, FS_Subset
  <1>2. f \in Injection(T, S)
    BY TailFacts DEF Injection, IsInjective
  <1> HIDE DEF S, T, f
  <1>3. Cardinality(T) <= Cardinality(S)
    BY <1>1, <1>2, FS_Injection
  <1> QED
    BY <1>3 DEF Count, S, T

LEMMA MessageFacts ==
  /\ LowPower \in Messages /\ LowPower.type = "LOW_POWER" /\ NoKey \in Messages /\ NoKey.type = "KEY"
  /\ \A e \in BleEvents : Ble(e) \in Messages /\ Ble(e).type = "BLE" /\ Ble(e).v = e
  /\ \A t \in Timers : Timer(t) \in Messages /\ Timer(t).type = "TIMER" /\ Timer(t).v = t
  /\ \A k \in Keys, down \in BOOLEAN : Msg("KEY", k, down) \in Messages /\ Msg("KEY", k, down).type = "KEY"
  BY DEF LowPower, NoKey, Ble, Timer, Msg, Messages

-----------------------------------------------------------------------------
(***************************************************************************)
(* How a step moves the main loop, and the queue.                          *)
(***************************************************************************)
LEMMA DoneFacts ==
  ASSUME ThreadTypes, Done
  PROVE  main' \in MainRec /\ main'.pc \in {"loop", "key"} /\ (main'.pc = "key" => main.key # NoKey)
  BY MessageFacts DEF ThreadTypes, Done, MainRec, MainPcs, Loop, SmEvents, States

LEMMA LoopFacts == Loop \in MainRec /\ Loop.pc = "loop"
  BY MessageFacts DEF MainRec, MainPcs, Loop, SmEvents, States

LEMMA GotoFacts ==
  ASSUME ThreadTypes, NEW pc \in MainPcs, Goto(pc)
  PROVE  /\ main' \in MainRec /\ main'.pc = pc
         /\ main'.ev = main.ev /\ main'.s = main.s /\ main'.key = main.key
  BY DEF ThreadTypes, Goto, MainRec

LEMMA ExecuteFacts ==
  ASSUME rmc_status \in States, NEW e \in SmEvents, NEW key \in Messages, Execute(e, key)
  PROVE  /\ main' \in MainRec /\ main'.pc = "store"
         /\ main'.ev = e /\ main'.s = rmc_status /\ main'.key = key
  BY DEF Execute, MainRec, MainPcs

LEMMA ReceiveFacts ==
  ASSUME ThreadTypes, NEW type, Receive(type)
  PROVE  /\ main.pc = "loop" /\ msg_queue # <<>>
         /\ Head(msg_queue) \in Messages /\ Head(msg_queue).type = type
         /\ Head(msg_queue) = msg_queue[1] /\ 1 \in DOMAIN msg_queue
         /\ msg_queue' = Tail(msg_queue) /\ msg_queue' \in Seq(Messages)
         /\ type = "BLE" => Head(msg_queue).v \in BleEvents
         /\ type = "TIMER" => Head(msg_queue).v \in Timers
  <1>1. /\ main.pc = "loop" /\ msg_queue # <<>> /\ Head(msg_queue).type = type
        /\ msg_queue' = Tail(msg_queue) /\ msg_queue \in Seq(Messages)
    BY DEF Receive, At, ThreadTypes
  <1>2. /\ Head(msg_queue) \in Messages /\ Tail(msg_queue) \in Seq(Messages)
        /\ Head(msg_queue) = msg_queue[1] /\ 1 \in DOMAIN msg_queue
    BY <1>1, TailFacts
  <1> QED
    BY <1>1, <1>2 DEF Messages

LEMMA SendFacts ==
  ASSUME ThreadTypes, NEW m \in Messages, Send(m) \/ Queue(m) \/ GiveUp
  PROVE  /\ msg_queue' \in Seq(Messages)
         /\ \/ msg_queue' = Append(msg_queue, m) /\ lost' = lost /\ Room(FALSE)
            \/ msg_queue' = msg_queue /\ lost' = TRUE
  <1>1. CASE Queue(m)
    BY <1>1, AppendFacts DEF Queue, ThreadTypes
  <1>2. CASE GiveUp
    BY <1>2 DEF GiveUp, ThreadTypes
  <1> QED
    BY <1>1, <1>2 DEF Send

\* Timers that a step does not start or stop stay as they are.
Pending(ts, t) == t \in ts.armed \cup ts.due
TimersRec == [armed : SUBSET Timers, due : SUBSET Timers]
LEMMA StartFacts ==
  ASSUME NEW ts \in TimersRec, NEW t \in Timers
  PROVE  /\ Start(ts, t) \in TimersRec /\ Pending(Start(ts, t), t)
         /\ Start(ts, t).due = ts.due /\ Start(ts, t).armed \subseteq ts.armed \cup {t}
         /\ \A u : Pending(ts, u) => Pending(Start(ts, t), u)
  BY DEF Start, TimersRec, Pending

LEMMA StopFacts ==
  ASSUME NEW ts \in TimersRec, NEW t \in Timers
  PROVE  /\ Stop(ts, t) \in TimersRec
         /\ Stop(ts, t).due = ts.due /\ Stop(ts, t).armed \subseteq ts.armed
         /\ \A u : u # t /\ Pending(ts, u) => Pending(Stop(ts, t), u)
  BY DEF Stop, TimersRec, Pending

-----------------------------------------------------------------------------
(***************************************************************************)
(* The steps, one part of the invariant after the other.                   *)
(***************************************************************************)
LEMMA AppTypesStep ==
  ASSUME RmcInv, [Next]_vars
  PROVE  AppTypes'
  <1>1. CASE ReceiveKey
    BY <1>1, BoundsAssumption DEF ReceiveKey, Start, world, RmcInv, AppTypes, Timers
  <1>2. CASE ReceiveBle
    <2>1. /\ hid_app_cb' = [hid_app_cb EXCEPT !.reconn_times = 0]
          /\ UNCHANGED <<rmc_status, input, ready, timers>>
      BY <1>2 DEF ReceiveBle
    <2> QED
      BY <2>1, BoundsAssumption DEF RmcInv, AppTypes
  <1>3. CASE ReceiveLowPower
    BY <1>3, BoundsAssumption DEF ReceiveLowPower, app, world, RmcInv, AppTypes, Timers
  <1>4. CASE ReceiveSmTimer
    BY <1>4, BoundsAssumption DEF ReceiveSmTimer, app, world, RmcInv, AppTypes, Timers
  <1>5. CASE ReceiveBattery
    BY <1>5, BoundsAssumption DEF ReceiveBattery, Start, world, RmcInv, AppTypes, Timers
  <1>6. CASE SendLowPower
    BY <1>6, BoundsAssumption DEF SendLowPower, Start, world, RmcInv, AppTypes, Timers
  <1>7. CASE ReceivePairTimer
    BY <1>7, BoundsAssumption DEF ReceivePairTimer, ClearPairInfo, Closing, RmcInv,
       AppTypes, Timers
  <1>8. CASE ReceiveHciTimer
    BY <1>8, BoundsAssumption DEF ReceiveHciTimer, RxIdle, ZeroCb, LinkDown, RmcInv,
       AppTypes, Timers
  <1>9. CASE StoreState
    BY <1>9, BoundsAssumption, TableNext DEF StoreState, world, RmcInv, AppTypes, Timers,
       ThreadTypes, MainRec
  <1>10. CASE rmc_sm_act_none
    BY <1>10, BoundsAssumption DEF rmc_sm_act_none, app, world, RmcInv, AppTypes, Timers
  <1>11. CASE StartAdvCheck
    BY <1>11, BoundsAssumption DEF StartAdvCheck, app, world, RmcInv, AppTypes, Timers
  <1>12. CASE StartAdv
    BY <1>12, BoundsAssumption DEF StartAdv, app, RmcInv, AppTypes, Timers
  <1>13. CASE EnterPairing
    BY <1>13, BoundsAssumption DEF EnterPairing, PairingTimers, world, Start, Stop, RmcInv,
       AppTypes, Timers
  <1>14. CASE DirectAdvCheck
    <2>1. /\ \/ hid_app_cb' = [hid_app_cb EXCEPT !.direct_addr = TRUE]
             \/ hid_app_cb' = [hid_app_cb EXCEPT !.direct_addr = IsPaired, !.reconn_times = 0]
          /\ UNCHANGED <<rmc_status, input, ready, timers>>
      BY <1>14 DEF DirectAdvCheck
    <2>2. IsPaired \in BOOLEAN
      BY DEF RmcInv, AppTypes, WorldTypes, IsPaired
    <2>3. 0 \in 0 .. MAX_RECONN_TIMES
      BY BoundsAssumption
    <2>4. CASE hid_app_cb' = [hid_app_cb EXCEPT !.direct_addr = TRUE]
      BY <2>1, <2>4 DEF RmcInv, AppTypes
    <2>5. CASE hid_app_cb' = [hid_app_cb EXCEPT !.direct_addr = IsPaired, !.reconn_times = 0]
      BY <2>1, <2>2, <2>3, <2>5 DEF RmcInv, AppTypes
    <2> QED
      BY <2>1, <2>4, <2>5
  <1>15. CASE StartDirectAdv
    BY <1>15, BoundsAssumption DEF StartDirectAdv, app, RmcInv, AppTypes, Timers
  <1>16. CASE Reconnecting
    BY <1>16, BoundsAssumption DEF Reconnecting, ReconnTimers, world, Start, RmcInv,
       AppTypes, Timers, AttemptsLeft, At
  <1>17. CASE rmc_sm_act_stop_adv
    BY <1>17, BoundsAssumption DEF rmc_sm_act_stop_adv, RmcInv, AppTypes, Timers
  <1>18. CASE rmc_sm_act_connected
    BY <1>18, BoundsAssumption DEF rmc_sm_act_connected, world, RmcInv, AppTypes, Timers
  <1>19. CASE DisconnectConn
    BY <1>19, BoundsAssumption DEF DisconnectConn, Closing, app, RmcInv, AppTypes, Timers
  <1>20. CASE SetTermFlag
    BY <1>20, BoundsAssumption DEF SetTermFlag, world, RmcInv, AppTypes, Timers
  <1>21. CASE DeliverPlainKey
    BY <1>21, BoundsAssumption DEF DeliverPlainKey, SendBleKey, world, RmcInv, AppTypes,
       Timers
  <1>22. CASE DeliverCombKey
    BY <1>22, BoundsAssumption DEF DeliverCombKey, Start, Stop, world, RmcInv, AppTypes,
       Timers
  <1>23. CASE DeliverVoiceKey
    BY <1>23, BoundsAssumption DEF DeliverVoiceKey, app, world, RmcInv, AppTypes, Timers
  <1>24. CASE SendPendingKey
    BY ZenonT(60), <1>24, BoundsAssumption DEF SendPendingKey, world, RmcInv, AppTypes, Timers
  <1>25. CASE ConnectedSent
    <2>1. /\ hid_app_cb' = [hid_app_cb EXCEPT !.enter_pairing_mode = FALSE]
          /\ timers' \in {timers, LinkTimers(timers)}
          /\ UNCHANGED <<rmc_status, input, ready>>
      BY <1>25 DEF ConnectedSent
    <2>2. timers' \in TimersRec
      BY <2>1, StartFacts DEF LinkTimers, RmcInv, AppTypes, Timers, TimersRec
    <2> QED
      BY <2>1, <2>2 DEF RmcInv, AppTypes, TimersRec
  <1>26. CASE BatterySent
    BY <1>26, BoundsAssumption DEF BatterySent, RxIdle, LinkTimers, world, Start, RmcInv,
       AppTypes, Timers
  <1>27. CASE DisconnectedSent
    BY <1>27, BoundsAssumption DEF DisconnectedSent, Stop, Forget, RxIdle, world, RmcInv,
       AppTypes, Timers
  <1>28. CASE SecuritySent
    BY <1>28, BoundsAssumption DEF SecuritySent, RxIdle, app, world, RmcInv, AppTypes,
       Timers
  <1>29. CASE Connected
    BY <1>29, BoundsAssumption DEF Connected, RxSends, RmcInv, AppTypes, Timers
  <1>30. CASE SecurityChanged
    BY <1>30, BoundsAssumption DEF SecurityChanged, Stop, IsPaired, RxSends, RmcInv,
       AppTypes, Timers, WorldTypes
  <1>31. CASE BtReady
    <2>1. /\ rmc_status' \in {"IDLE", NextState(rmc_status, "POWER_UP")}
          /\ timers' \in {timers, Start(timers, "DIRECT_ADV")}
          /\ \/ hid_app_cb' = [hid_app_cb EXCEPT !.direct_addr = TRUE, !.reconn_times = 1]
             \/ hid_app_cb' = [hid_app_cb EXCEPT !.direct_addr = TRUE]
             \/ hid_app_cb' = hid_app_cb
          /\ ready' = TRUE /\ UNCHANGED input
      BY <1>31 DEF BtReady, ReconnTimers
    <2>2. rmc_status' \in States
      BY <2>1, TableNext DEF RmcInv, AppTypes, States, SmEvents
    <2>3. timers' \in TimersRec
      BY <2>1, StartFacts DEF RmcInv, AppTypes, Timers, TimersRec
    <2>4. 1 \in 0 .. MAX_RECONN_TIMES
      BY BoundsAssumption
    <2>5. CASE hid_app_cb' = [hid_app_cb EXCEPT !.direct_addr = TRUE, !.reconn_times = 1]
      BY <2>1, <2>2, <2>3, <2>4, <2>5 DEF RmcInv, AppTypes, TimersRec
    <2>6. CASE hid_app_cb' = [hid_app_cb EXCEPT !.direct_addr = TRUE]
      BY <2>1, <2>2, <2>3, <2>6 DEF RmcInv, AppTypes, TimersRec
    <2>7. CASE hid_app_cb' = hid_app_cb
      BY <2>1, <2>2, <2>3, <2>7 DEF RmcInv, AppTypes, TimersRec
    <2> QED
      BY <2>1, <2>5, <2>6, <2>7
  <1>32. CASE SendTimer
    BY <1>32, BoundsAssumption DEF SendTimer, app, world, RmcInv, AppTypes, Timers
  <1>33. CASE AdvTimeout
    BY <1>33, BoundsAssumption DEF AdvTimeout, app, threads, RmcInv, AppTypes, Timers
  <1>34. CASE Pair
    BY <1>34, BoundsAssumption DEF Pair, app, threads, RmcInv, AppTypes, Timers
  <1>35. ASSUME NEW b \in BOOLEAN, Disconnected(b) PROVE AppTypes'
    BY <1>35, BoundsAssumption DEF Disconnected, LinkDown, RxSends, RmcInv, AppTypes,
       Timers
  <1>36. ASSUME NEW b \in BOOLEAN, SecurityChangedNoCcc(b) PROVE AppTypes'
    BY <1>36, BoundsAssumption, TableNext DEF SecurityChangedNoCcc, IsPaired, threads,
       RmcInv, AppTypes, Timers, SmEvents
  <1>37. ASSUME NEW t \in Timers, Expire(t) PROVE AppTypes'
    BY <1>37, BoundsAssumption DEF Expire, threads, world, RmcInv, AppTypes, Timers
  <1>38. ASSUME NEW t \in Timers, CheckTimer(t) PROVE AppTypes'
    BY <1>38, BoundsAssumption DEF CheckTimer, world, RmcInv, AppTypes, Timers
  <1>39. ASSUME NEW k \in Keys, NEW b \in BOOLEAN, ReportKey(k, b) PROVE AppTypes'
    BY <1>39, BoundsAssumption DEF ReportKey, app, world, RmcInv, AppTypes, Timers
  <1>40. CASE UNCHANGED vars
    BY <1>40, BoundsAssumption DEF vars, app, threads, world, RmcInv, AppTypes, Timers
  <1> QED
    BY <1>1, <1>2, <1>3, <1>4, <1>5, <1>6, <1>7, <1>8, <1>9, <1>10, <1>11, <1>12, <1>13,
       <1>14, <1>15, <1>16, <1>17, <1>18, <1>19, <1>20, <1>21, <1>22, <1>23, <1>24, <1>25,
       <1>26, <1>27, <1>28, <1>29, <1>30, <1>31, <1>32, <1>33, <1>34, <1>35, <1>36, <1>37,
       <1>38, <1>39, <1>40 DEF Next, MainStep, RxStep, Callback

LEMMA WorldTypesStep ==
  ASSUME RmcInv, [Next]_vars
  PROVE  WorldTypes'
  <1>1. CASE ReceiveKey
    BY <1>1 DEF ReceiveKey, Start, world, RmcInv, WorldTypes
  <1>2. CASE ReceiveBle
    BY <1>2 DEF ReceiveBle, world, RmcInv, WorldTypes
  <1>3. CASE ReceiveLowPower
    BY <1>3 DEF ReceiveLowPower, app, world, RmcInv, WorldTypes
  <1>4. CASE ReceiveSmTimer
    BY <1>4 DEF ReceiveSmTimer, app, world, RmcInv, WorldTypes
  <1>5. CASE ReceiveBattery
    BY <1>5 DEF ReceiveBattery, Start, world, RmcInv, WorldTypes
  <1>6. CASE SendLowPower
    BY <1>6 DEF SendLowPower, Queue, GiveUp, Start, world, RmcInv, WorldTypes
  <1>7. CASE ReceivePairTimer
    BY <1>7 DEF ReceivePairTimer, ClearPairInfo, Closing, RmcInv, WorldTypes
  <1>8. CASE ReceiveHciTimer
    BY <1>8 DEF ReceiveHciTimer, RxIdle, ZeroCb, LinkDown, RmcInv, WorldTypes
  <1>9. CASE StoreState
    BY <1>9 DEF StoreState, world, RmcInv, WorldTypes
  <1>10. CASE rmc_sm_act_none
    BY <1>10 DEF rmc_sm_act_none, app, world, RmcInv, WorldTypes
  <1>11. CASE StartAdvCheck
    BY <1>11 DEF StartAdvCheck, app, world, RmcInv, WorldTypes
  <1>12. CASE StartAdv
    BY <1>12 DEF StartAdv, app, RmcInv, WorldTypes
  <1>13. CASE EnterPairing
    BY <1>13 DEF EnterPairing, PairingTimers, world, Start, Stop, RmcInv, WorldTypes
  <1>14. CASE DirectAdvCheck
    BY <1>14 DEF DirectAdvCheck, IsPaired, MayReconn, world, RmcInv, WorldTypes
  <1>15. CASE StartDirectAdv
    BY <1>15 DEF StartDirectAdv, app, RmcInv, WorldTypes
  <1>16. CASE Reconnecting
    BY <1>16 DEF Reconnecting, ReconnTimers, world, Start, RmcInv, WorldTypes
  <1>17. CASE rmc_sm_act_stop_adv
    BY <1>17 DEF rmc_sm_act_stop_adv, RmcInv, WorldTypes
  <1>18. CASE rmc_sm_act_connected
    BY <1>18 DEF rmc_sm_act_connected, world, RmcInv, WorldTypes
  <1>19. CASE DisconnectConn
    BY <1>19 DEF DisconnectConn, Closing, app, RmcInv, WorldTypes
  <1>20. CASE SetTermFlag
    BY <1>20 DEF SetTermFlag, world, RmcInv, WorldTypes
  <1>21. CASE DeliverPlainKey
    BY <1>21 DEF DeliverPlainKey, SendBleKey, world, RmcInv, WorldTypes
  <1>22. CASE DeliverCombKey
    BY <1>22 DEF DeliverCombKey, Start, Stop, world, RmcInv, WorldTypes
  <1>23. CASE DeliverVoiceKey
    BY <1>23 DEF DeliverVoiceKey, app, world, RmcInv, WorldTypes
  <1>24. CASE SendPendingKey
    BY <1>24 DEF SendPendingKey, world, RmcInv, WorldTypes
  <1>25. CASE ConnectedSent
    BY <1>25 DEF ConnectedSent, Send, RxIdle, LinkTimers, RxSends, world, Start, Queue,
       GiveUp, RmcInv, WorldTypes
  <1>26. CASE BatterySent
    BY <1>26 DEF BatterySent, Send, RxIdle, LinkTimers, world, Start, Queue, GiveUp,
       RmcInv, WorldTypes
  <1>27. CASE DisconnectedSent
    BY <1>27 DEF DisconnectedSent, Send, Stop, Forget, RxIdle, world, Queue, GiveUp,
       RmcInv, WorldTypes
  <1>28. CASE SecuritySent
    BY <1>28 DEF SecuritySent, Send, RxIdle, app, world, Queue, GiveUp, RmcInv, WorldTypes
  <1>29. CASE Connected
    BY <1>29 DEF Connected, RxSends, RmcInv, WorldTypes
  <1>30. CASE SecurityChanged
    BY <1>30 DEF SecurityChanged, Stop, IsPaired, RxSends, RmcInv, WorldTypes
  <1>31. CASE BtReady
    BY <1>31 DEF BtReady, IsPaired, ReconnTimers, threads, Start, RmcInv, WorldTypes
  <1>32. CASE SendTimer
    BY <1>32 DEF SendTimer, Send, app, world, Queue, GiveUp, RmcInv, WorldTypes
  <1>33. CASE AdvTimeout
    BY <1>33 DEF AdvTimeout, app, threads, RmcInv, WorldTypes
  <1>34. CASE Pair
    BY <1>34 DEF Pair, app, threads, RmcInv, WorldTypes
  <1>35. ASSUME NEW b \in BOOLEAN, Disconnected(b) PROVE WorldTypes'
    BY <1>35 DEF Disconnected, LinkDown, RxSends, RmcInv, WorldTypes
  <1>36. ASSUME NEW b \in BOOLEAN, SecurityChangedNoCcc(b) PROVE WorldTypes'
    BY <1>36 DEF SecurityChangedNoCcc, IsPaired, threads, RmcInv, WorldTypes
  <1>37. ASSUME NEW t \in Timers, Expire(t) PROVE WorldTypes'
    BY <1>37 DEF Expire, threads, world, RmcInv, WorldTypes
  <1>38. ASSUME NEW t \in Timers, CheckTimer(t) PROVE WorldTypes'
    BY <1>38 DEF CheckTimer, world, RmcInv, WorldTypes
  <1>39. ASSUME NEW k \in Keys, NEW b \in BOOLEAN, ReportKey(k, b) PROVE WorldTypes'
    BY <1>39 DEF ReportKey, app, world, RmcInv, WorldTypes
  <1>40. CASE UNCHANGED vars
    BY <1>40 DEF vars, app, threads, world, RmcInv, WorldTypes
  <1> QED
    BY <1>1, <1>2, <1>3, <1>4, <1>5, <1>6, <1>7, <1>8, <1>9, <1>10, <1>11, <1>12, <1>13,
       <1>14, <1>15, <1>16, <1>17, <1>18, <1>19, <1>20, <1>21, <1>22, <1>23, <1>24, <1>25,
       <1>26, <1>27, <1>28, <1>29, <1>30, <1>31, <1>32, <1>33, <1>34, <1>35, <1>36, <1>37,
       <1>38, <1>39, <1>40 DEF Next, MainStep, RxStep, Callback

LEMMA ThreadTypesStep ==
  ASSUME RmcInv, [Next]_vars
  PROVE  ThreadTypes'
  <1>1. CASE ReceiveKey
    BY ZenonT(60), <1>1, ReceiveFacts, ExecuteFacts, MessageFacts DEF ReceiveKey, world, RmcInv,
       ThreadTypes, RxPcs, MainPcs, AppTypes, SmEvents
  <1>2. CASE ReceiveBle
    BY <1>2, ReceiveFacts, ExecuteFacts, MessageFacts DEF ReceiveBle, world, RmcInv,
       ThreadTypes, RxPcs, MainPcs, AppTypes, SmEvents
  <1>3. CASE ReceiveLowPower
    BY <1>3, ReceiveFacts, ExecuteFacts, MessageFacts DEF ReceiveLowPower, app, world,
       RmcInv, ThreadTypes, RxPcs, MainPcs, AppTypes, SmEvents
  <1>4. CASE ReceiveSmTimer
    BY <1>4, ReceiveFacts, ExecuteFacts, MessageFacts DEF ReceiveSmTimer, app, world,
       RmcInv, ThreadTypes, RxPcs, MainPcs, AppTypes, SmEvents
  <1>5. CASE ReceiveBattery
    BY <1>5, ReceiveFacts, GotoFacts DEF ReceiveBattery, world, RmcInv, ThreadTypes, RxPcs,
       MainPcs
  <1>6. CASE SendLowPower
    BY <1>6, SendFacts, GotoFacts, MessageFacts DEF SendLowPower, world, RmcInv,
       ThreadTypes, RxPcs, MainPcs
  <1>7. CASE ReceivePairTimer
    BY <1>7, ReceiveFacts, ExecuteFacts, MessageFacts DEF ReceivePairTimer, RmcInv,
       ThreadTypes, RxPcs, MainPcs, AppTypes, SmEvents
  <1>8. CASE ReceiveHciTimer
    BY <1>8, ReceiveFacts, GotoFacts, MessageFacts DEF ReceiveHciTimer, RxIdle, ZeroCb,
       RmcInv, ThreadTypes, RxPcs, MainPcs
  <1>9. CASE StoreState
    BY <1>9, TableAction, GotoFacts DEF StoreState, world, RmcInv, ThreadTypes, RxPcs,
       MainPcs, Actions, MainRec
  <1>10. CASE rmc_sm_act_none
    BY <1>10, DoneFacts, GotoFacts DEF rmc_sm_act_none, app, world, RmcInv, ThreadTypes,
       RxPcs, MainPcs
  <1>11. CASE StartAdvCheck
    BY <1>11, DoneFacts, GotoFacts DEF StartAdvCheck, app, world, RmcInv, ThreadTypes,
       RxPcs, MainPcs
  <1>12. CASE StartAdv
    BY <1>12, DoneFacts, GotoFacts DEF StartAdv, app, RmcInv, ThreadTypes, RxPcs, MainPcs
  <1>13. CASE EnterPairing
    BY <1>13, DoneFacts, GotoFacts DEF EnterPairing, world, RmcInv, ThreadTypes, RxPcs,
       MainPcs
  <1>14. CASE DirectAdvCheck
    BY <1>14, ExecuteFacts, GotoFacts DEF DirectAdvCheck, world, RmcInv, ThreadTypes,
       RxPcs, MainPcs, AppTypes, SmEvents, MainRec
  <1>15. CASE StartDirectAdv
    BY <1>15, DoneFacts, GotoFacts DEF StartDirectAdv, app, RmcInv, ThreadTypes, RxPcs,
       MainPcs
  <1>16. CASE Reconnecting
    BY <1>16, DoneFacts, GotoFacts DEF Reconnecting, world, RmcInv, ThreadTypes, RxPcs,
       MainPcs
  <1>17. CASE rmc_sm_act_stop_adv
    BY <1>17, DoneFacts, GotoFacts DEF rmc_sm_act_stop_adv, RmcInv, ThreadTypes, RxPcs,
       MainPcs
  <1>18. CASE rmc_sm_act_connected
    BY <1>18, DoneFacts, GotoFacts DEF rmc_sm_act_connected, world, RmcInv, ThreadTypes,
       RxPcs, MainPcs
  <1>19. CASE DisconnectConn
    BY <1>19, DoneFacts, GotoFacts DEF DisconnectConn, app, RmcInv, ThreadTypes, RxPcs,
       MainPcs
  <1>20. CASE SetTermFlag
    BY <1>20, DoneFacts, GotoFacts DEF SetTermFlag, world, RmcInv, ThreadTypes, RxPcs,
       MainPcs
  <1>21. CASE DeliverPlainKey
    BY <1>21, LoopFacts DEF DeliverPlainKey, world, RmcInv, ThreadTypes, RxPcs, MainPcs
  <1>22. CASE DeliverCombKey
    BY <1>22, LoopFacts DEF DeliverCombKey, world, RmcInv, ThreadTypes, RxPcs, MainPcs
  <1>23. CASE DeliverVoiceKey
    BY <1>23, LoopFacts DEF DeliverVoiceKey, app, world, RmcInv, ThreadTypes, RxPcs,
       MainPcs
  <1>24. CASE SendPendingKey
    BY <1>24, DoneFacts, GotoFacts DEF SendPendingKey, world, RmcInv, ThreadTypes, RxPcs,
       MainPcs
  <1>25. CASE ConnectedSent
    <2>1. msg_queue' \in Seq(Messages) /\ UNCHANGED <<wq, main>>
      BY <1>25, SendFacts DEF ConnectedSent, RmcInv, ThreadTypes
    <2>2. rx' = RxIdle \/ rx' = [pc |-> "battery", msg |-> LowPower]
      BY <1>25 DEF ConnectedSent, RxSends
    <2> QED
      BY <2>1, <2>2, MessageFacts DEF RxIdle, RmcInv, ThreadTypes, RxPcs
  <1>26. CASE BatterySent
    BY <1>26, SendFacts, MessageFacts DEF BatterySent, RxIdle, world, RmcInv, ThreadTypes,
       RxPcs, MainPcs
  <1>27. CASE DisconnectedSent
    BY <1>27, SendFacts, MessageFacts DEF DisconnectedSent, RxIdle, world, RmcInv,
       ThreadTypes, RxPcs, MainPcs
  <1>28. CASE SecuritySent
    BY <1>28, SendFacts, MessageFacts DEF SecuritySent, RxIdle, app, world, RmcInv,
       ThreadTypes, RxPcs, MainPcs
  <1>29. CASE Connected
    BY <1>29, MessageFacts DEF Connected, RxSends, RmcInv, ThreadTypes, RxPcs, MainPcs,
       BleEvents
  <1>30. CASE SecurityChanged
    BY <1>30, MessageFacts DEF SecurityChanged, RxSends, RmcInv, ThreadTypes, RxPcs,
       MainPcs, BleEvents
  <1>31. CASE BtReady
    BY <1>31 DEF BtReady, threads, RmcInv, ThreadTypes, RxPcs, MainPcs
  <1>32. CASE SendTimer
    BY <1>32, SendFacts, MessageFacts DEF SendTimer, app, world, RmcInv, ThreadTypes,
       RxPcs, MainPcs
  <1>33. CASE AdvTimeout
    BY <1>33 DEF AdvTimeout, app, threads, RmcInv, ThreadTypes, RxPcs, MainPcs
  <1>34. CASE Pair
    BY <1>34 DEF Pair, app, threads, RmcInv, ThreadTypes, RxPcs, MainPcs
  <1>35. ASSUME NEW b \in BOOLEAN, Disconnected(b) PROVE ThreadTypes'
    BY <1>35, MessageFacts DEF Disconnected, RxSends, RmcInv, ThreadTypes, RxPcs, MainPcs,
       BleEvents
  <1>36. ASSUME NEW b \in BOOLEAN, SecurityChangedNoCcc(b) PROVE ThreadTypes'
    BY <1>36 DEF SecurityChangedNoCcc, threads, RmcInv, ThreadTypes, RxPcs, MainPcs
  <1>37. ASSUME NEW t \in Timers, Expire(t) PROVE ThreadTypes'
    BY <1>37 DEF Expire, threads, world, RmcInv, ThreadTypes, RxPcs, MainPcs
  <1>38. ASSUME NEW t \in Timers, CheckTimer(t) PROVE ThreadTypes'
    BY <1>38 DEF CheckTimer, world, RmcInv, ThreadTypes, RxPcs, MainPcs
  <1>39. ASSUME NEW k \in Keys, NEW b \in BOOLEAN, ReportKey(k, b) PROVE ThreadTypes'
    BY <1>39, AppendFacts, MessageFacts DEF ReportKey, app, world, RmcInv, ThreadTypes,
       RxPcs, MainPcs
  <1>40. CASE UNCHANGED vars
    BY <1>40 DEF vars, app, threads, world, RmcInv, ThreadTypes, RxPcs, MainPcs
  <1> QED
    BY <1>1, <1>2, <1>3, <1>4, <1>5, <1>6, <1>7, <1>8, <1>9, <1>10, <1>11, <1>12, <1>13,
       <1>14, <1>15, <1>16, <1>17, <1>18, <1>19, <1>20, <1>21, <1>22, <1>23, <1>24, <1>25,
       <1>26, <1>27, <1>28, <1>29, <1>30, <1>31, <1>32, <1>33, <1>34, <1>35, <1>36, <1>37,
       <1>38, <1>39, <1>40 DEF Next, MainStep, RxStep, Callback

\* The queue keeps its messages in order, and takes one only if it has room.
QueueChanges ==
    /\ msg_queue' \in Seq(Messages)
    /\ \/ msg_queue' = msg_queue
       \/ msg_queue # <<>> /\ msg_queue' = Tail(msg_queue)
       \/ \E m \in Messages : msg_queue' = Append(msg_queue, m) /\ Room(Async(m))

LEMMA QueueStep ==
  ASSUME RmcInv, [Next]_vars
  PROVE  QueueChanges
  <1>1. CASE \/ ReceiveKey \/ ReceiveBle \/ ReceiveLowPower \/ ReceiveSmTimer
             \/ ReceiveBattery \/ ReceivePairTimer \/ ReceiveHciTimer
    BY <1>1, ReceiveFacts DEF ReceiveKey, world, ReceiveBle, ReceiveLowPower, app,
       ReceiveSmTimer, ReceiveBattery, ReceivePairTimer, ReceiveHciTimer, RmcInv,
       QueueChanges, ThreadTypes
  <1>2. CASE \/ ConnectedSent \/ BatterySent \/ DisconnectedSent \/ SecuritySent
    BY <1>2, SendFacts DEF ConnectedSent, world, BatterySent, DisconnectedSent,
       SecuritySent, app, RmcInv, QueueChanges, ThreadTypes, Async
  <1>3. CASE SendLowPower
    BY <1>3, SendFacts, MessageFacts DEF SendLowPower, world, RmcInv, QueueChanges,
       ThreadTypes, Async
  <1>4. CASE SendTimer
    BY ZenonT(60), <1>4, SendFacts, MessageFacts DEF SendTimer, app, world, RmcInv, QueueChanges,
       ThreadTypes, Async
  <1>5. ASSUME NEW k \in Keys, NEW b \in BOOLEAN, ReportKey(k, b) PROVE QueueChanges
    <2> DEFINE m == Msg("KEY", k, b)
    <2>1. m \in Messages /\ Async(m) = TRUE
      BY MessageFacts DEF Async
    <2> HIDE DEF m
    <2>2. msg_queue' = IF Room(TRUE) THEN Append(msg_queue, m) ELSE msg_queue
      BY <1>5 DEF ReportKey, m
    <2> QED
      BY <2>1, <2>2, AppendFacts DEF RmcInv, ThreadTypes, QueueChanges
  <1>6. CASE \/ StoreState \/ rmc_sm_act_none \/ StartAdvCheck \/ StartAdv
             \/ EnterPairing \/ DirectAdvCheck \/ StartDirectAdv \/ Reconnecting
             \/ rmc_sm_act_stop_adv \/ rmc_sm_act_connected \/ DisconnectConn
             \/ SetTermFlag \/ DeliverPlainKey \/ DeliverCombKey \/ DeliverVoiceKey
             \/ SendPendingKey \/ Connected \/ SecurityChanged \/ BtReady \/ AdvTimeout
             \/ Pair
    BY <1>6 DEF StoreState, world, rmc_sm_act_none, app, StartAdvCheck, StartAdv,
       EnterPairing, DirectAdvCheck, StartDirectAdv, Reconnecting, rmc_sm_act_stop_adv,
       rmc_sm_act_connected, DisconnectConn, SetTermFlag, DeliverPlainKey, DeliverCombKey,
       DeliverVoiceKey, SendPendingKey, Connected, SecurityChanged, BtReady, threads,
       AdvTimeout, Pair, RmcInv, QueueChanges, ThreadTypes
  <1>7. ASSUME NEW b \in BOOLEAN, Disconnected(b) PROVE QueueChanges
    BY <1>7 DEF Disconnected, RmcInv, QueueChanges, ThreadTypes
  <1>8. ASSUME NEW b \in BOOLEAN, SecurityChangedNoCcc(b) PROVE QueueChanges
    BY <1>8 DEF SecurityChangedNoCcc, threads, RmcInv, QueueChanges, ThreadTypes
  <1>9. ASSUME NEW t \in Timers, Expire(t) PROVE QueueChanges
    BY <1>9 DEF Expire, threads, world, RmcInv, QueueChanges, ThreadTypes
  <1>10. ASSUME NEW t \in Timers, CheckTimer(t) PROVE QueueChanges
    BY <1>10 DEF CheckTimer, world, RmcInv, QueueChanges, ThreadTypes
  <1>11. CASE UNCHANGED vars
    BY <1>11 DEF vars, app, threads, world, RmcInv, QueueChanges, ThreadTypes
  <1> QED
    BY <1>1, <1>2, <1>3, <1>4, <1>5, <1>6, <1>7, <1>8, <1>9, <1>10, <1>11 DEF Next,
       MainStep, RxStep, Callback

LEMMA QueueBoundedStep ==
  ASSUME RmcInv, [Next]_vars
  PROVE  QueueBounded'
  <1> DEFINE Limit(a) == IF a THEN AsyncBufs ELSE SyncBufs
  <1>1. msg_queue \in Seq(Messages) /\ msg_queue' \in Seq(Messages)
    BY QueueStep DEF RmcInv, ThreadTypes, QueueChanges
  <1>2. ASSUME NEW a \in BOOLEAN, Count(msg_queue, a) <= Limit(a)
        PROVE  Count(msg_queue', a) <= Limit(a)
    <2>1. Limit(a) \in Nat
      BY BoundsAssumption
    <2>2. Count(msg_queue, a) \in Nat /\ Count(msg_queue', a) \in Nat
      BY <1>1, MessageFacts, CountAppend
    <2> HIDE DEF Limit
    <2>3. CASE msg_queue' = msg_queue
      BY <1>2, <2>3
    <2>4. CASE msg_queue # <<>> /\ msg_queue' = Tail(msg_queue)
      <3>1. Count(msg_queue', a) <= Count(msg_queue, a)
        BY <1>1, <2>4, CountTail
      <3> QED
        BY <1>2, <2>1, <2>2, <3>1
    <2>5. ASSUME NEW m \in Messages, msg_queue' = Append(msg_queue, m), Room(Async(m))
          PROVE  Count(msg_queue', a) <= Limit(a)
      <3>1. Count(msg_queue', a) = Count(msg_queue, a) + (IF Async(m) = a THEN 1 ELSE 0)
        BY <1>1, <2>5, CountAppend
      <3>2. CASE Async(m) = a
        <4>1. Room(a)
          BY <2>5, <3>2, Zenon
        <4>2. Count(msg_queue, a) < Limit(a)
          BY <4>1 DEF Room, Queued, Count, Limit
        <4> QED
          BY <2>1, <2>2, <3>1, <3>2, <4>2
      <3>3. CASE Async(m) # a
        BY <1>2, <2>1, <2>2, <3>1, <3>3
      <3> QED
        BY <3>2, <3>3
    <2> QED
      BY <2>3, <2>4, <2>5, QueueStep DEF QueueChanges
  <1>3. /\ Count(msg_queue, TRUE) <= Limit(TRUE) => Count(msg_queue', TRUE) <= Limit(TRUE)
        /\ Count(msg_queue, FALSE) <= Limit(FALSE) => Count(msg_queue', FALSE) <= Limit(FALSE)
    BY <1>2, Zenon
  <1> QED
    BY <1>3 DEF RmcInv, QueueBounded, Queued, Count

LEMMA AttemptsLeftStep ==
  ASSUME RmcInv, [Next]_vars
  PROVE  AttemptsLeft'
  <1>1. CASE ReceiveKey
    BY <1>1, ReceiveFacts, ExecuteFacts, MessageFacts DEF ReceiveKey, world, RmcInv,
       AttemptsLeft, AppTypes, SmEvents, Timers
  <1>2. CASE ReceiveBle
    BY <1>2, ReceiveFacts, ExecuteFacts, MessageFacts DEF ReceiveBle, world, RmcInv,
       AttemptsLeft, AppTypes, SmEvents, Timers
  <1>3. CASE ReceiveLowPower
    BY <1>3, ReceiveFacts, ExecuteFacts, MessageFacts DEF ReceiveLowPower, app, world,
       RmcInv, AttemptsLeft, AppTypes, SmEvents, Timers
  <1>4. CASE ReceiveSmTimer
    BY <1>4, ReceiveFacts, ExecuteFacts, MessageFacts DEF ReceiveSmTimer, app, world,
       RmcInv, AttemptsLeft, AppTypes, SmEvents, Timers
  <1>5. CASE ReceiveBattery
    BY <1>5, DoneFacts, GotoFacts DEF ReceiveBattery, world, RmcInv, AttemptsLeft,
       AppTypes, MainPcs
  <1>6. CASE SendLowPower
    BY <1>6, DoneFacts, GotoFacts DEF SendLowPower, At, world, RmcInv, AttemptsLeft,
       AppTypes, MainPcs
  <1>7. CASE ReceivePairTimer
    BY <1>7, ReceiveFacts, ExecuteFacts, MessageFacts DEF ReceivePairTimer, ClearPairInfo,
       RmcInv, AttemptsLeft, AppTypes, SmEvents, Timers
  <1>8. CASE ReceiveHciTimer
    BY <1>8, DoneFacts, GotoFacts DEF ReceiveHciTimer, RxIdle, ZeroCb, LinkDown, RmcInv,
       AttemptsLeft, AppTypes, MainPcs
  <1>9. CASE StoreState
    BY <1>9, TableAction, GotoFacts DEF StoreState, At, world, RmcInv, AttemptsLeft,
       AppTypes, Actions, MainPcs, ThreadTypes, MainRec
  <1>10. CASE rmc_sm_act_none
    BY <1>10, DoneFacts, GotoFacts DEF rmc_sm_act_none, At, app, world, RmcInv,
       AttemptsLeft, AppTypes, MainPcs
  <1>11. CASE StartAdvCheck
    BY <1>11, DoneFacts, GotoFacts DEF StartAdvCheck, At, app, world, RmcInv, AttemptsLeft,
       AppTypes, MainPcs
  <1>12. CASE StartAdv
    BY <1>12, DoneFacts, GotoFacts DEF StartAdv, At, app, RmcInv, AttemptsLeft, AppTypes,
       MainPcs
  <1>13. CASE EnterPairing
    BY <1>13, DoneFacts, GotoFacts DEF EnterPairing, At, world, RmcInv, AttemptsLeft,
       AppTypes, MainPcs
  <1>14. CASE DirectAdvCheck
    BY <1>14, GotoFacts, ExecuteFacts, BoundsAssumption DEF DirectAdvCheck, At, IsPaired,
       MayReconn, world, RmcInv, AttemptsLeft, AppTypes, MainPcs, SmEvents, ThreadTypes,
       MainRec
  <1>15. CASE StartDirectAdv
    BY <1>15, DoneFacts, GotoFacts DEF StartDirectAdv, At, app, RmcInv, AttemptsLeft,
       AppTypes, MainPcs
  <1>16. CASE Reconnecting
    BY <1>16, DoneFacts, GotoFacts DEF Reconnecting, At, world, RmcInv, AttemptsLeft,
       AppTypes, MainPcs
  <1>17. CASE rmc_sm_act_stop_adv
    BY <1>17, DoneFacts, GotoFacts DEF rmc_sm_act_stop_adv, At, RmcInv, AttemptsLeft,
       AppTypes, MainPcs
  <1>18. CASE rmc_sm_act_connected
    BY <1>18, DoneFacts, GotoFacts DEF rmc_sm_act_connected, At, world, RmcInv,
       AttemptsLeft, AppTypes, MainPcs
  <1>19. CASE DisconnectConn
    BY <1>19, DoneFacts, GotoFacts DEF DisconnectConn, At, app, RmcInv, AttemptsLeft,
       AppTypes, MainPcs
  <1>20. CASE SetTermFlag
    BY <1>20, DoneFacts, GotoFacts DEF SetTermFlag, At, world, RmcInv, AttemptsLeft,
       AppTypes, MainPcs
  <1>21. CASE DeliverPlainKey
    BY <1>21, LoopFacts DEF DeliverPlainKey, At, SendBleKey, world, RmcInv, AttemptsLeft,
       AppTypes
  <1>22. CASE DeliverCombKey
    BY <1>22, LoopFacts DEF DeliverCombKey, At, world, RmcInv, AttemptsLeft, AppTypes
  <1>23. CASE DeliverVoiceKey
    BY <1>23, LoopFacts DEF DeliverVoiceKey, At, app, world, RmcInv, AttemptsLeft, AppTypes
  <1>24. CASE SendPendingKey
    BY <1>24, DoneFacts, GotoFacts DEF SendPendingKey, At, world, RmcInv, AttemptsLeft,
       AppTypes, MainPcs
  <1>25. CASE ConnectedSent
    BY <1>25 DEF ConnectedSent, RxIdle, RxSends, world, RmcInv, AttemptsLeft, AppTypes
  <1>26. CASE BatterySent
    BY <1>26 DEF BatterySent, RxIdle, world, RmcInv, AttemptsLeft, AppTypes
  <1>27. CASE DisconnectedSent
    BY <1>27 DEF DisconnectedSent, Forget, RxIdle, world, RmcInv, AttemptsLeft, AppTypes
  <1>28. CASE SecuritySent
    BY <1>28 DEF SecuritySent, RxIdle, app, world, RmcInv, AttemptsLeft, AppTypes
  <1>29. CASE Connected
    BY <1>29 DEF Connected, RxSends, RmcInv, AttemptsLeft, AppTypes
  <1>30. CASE SecurityChanged
    BY <1>30 DEF SecurityChanged, IsPaired, RxSends, RmcInv, AttemptsLeft, AppTypes
  <1>31. CASE BtReady
    BY <1>31 DEF BtReady, IsPaired, threads, RmcInv, AttemptsLeft, AppTypes, NotReadyYet
  <1>32. CASE SendTimer
    BY <1>32 DEF SendTimer, app, world, RmcInv, AttemptsLeft, AppTypes
  <1>33. CASE AdvTimeout
    BY <1>33 DEF AdvTimeout, app, threads, RmcInv, AttemptsLeft, AppTypes
  <1>34. CASE Pair
    BY <1>34 DEF Pair, app, threads, RmcInv, AttemptsLeft, AppTypes
  <1>35. ASSUME NEW b \in BOOLEAN, Disconnected(b) PROVE AttemptsLeft'
    BY <1>35 DEF Disconnected, LinkDown, RxSends, RmcInv, AttemptsLeft, AppTypes
  <1>36. ASSUME NEW b \in BOOLEAN, SecurityChangedNoCcc(b) PROVE AttemptsLeft'
    BY <1>36 DEF SecurityChangedNoCcc, IsPaired, threads, RmcInv, AttemptsLeft, AppTypes
  <1>37. ASSUME NEW t \in Timers, Expire(t) PROVE AttemptsLeft'
    BY <1>37 DEF Expire, threads, world, RmcInv, AttemptsLeft, AppTypes
  <1>38. ASSUME NEW t \in Timers, CheckTimer(t) PROVE AttemptsLeft'
    BY <1>38 DEF CheckTimer, world, RmcInv, AttemptsLeft, AppTypes
  <1>39. ASSUME NEW k \in Keys, NEW b \in BOOLEAN, ReportKey(k, b) PROVE AttemptsLeft'
    BY <1>39 DEF ReportKey, app, world, RmcInv, AttemptsLeft, AppTypes
  <1>40. CASE UNCHANGED vars
    BY <1>40 DEF vars, app, threads, world, RmcInv, AttemptsLeft, AppTypes
  <1> QED
    BY <1>1, <1>2, <1>3, <1>4, <1>5, <1>6, <1>7, <1>8, <1>9, <1>10, <1>11, <1>12, <1>13,
       <1>14, <1>15, <1>16, <1>17, <1>18, <1>19, <1>20, <1>21, <1>22, <1>23, <1>24, <1>25,
       <1>26, <1>27, <1>28, <1>29, <1>30, <1>31, <1>32, <1>33, <1>34, <1>35, <1>36, <1>37,
       <1>38, <1>39, <1>40 DEF Next, MainStep, RxStep, Callback

LEMMA LinkKnownStep ==
  ASSUME RmcInv, [Next]_vars
  PROVE  LinkKnown'
  <1>1. CASE ReceivePairTimer
    BY <1>1 DEF ReceivePairTimer, ClearPairInfo, Closing, RmcInv, LinkKnown, AppTypes,
       WorldTypes
  <1>2. CASE ReceiveHciTimer
    BY <1>2 DEF ReceiveHciTimer, RxIdle, ZeroCb, LinkDown, RmcInv, LinkKnown, AppTypes,
       WorldTypes
  <1>3. CASE DisconnectConn
    BY <1>3 DEF DisconnectConn, Closing, app, RmcInv, LinkKnown, AppTypes, WorldTypes
  <1>4. CASE Connected
    BY <1>4 DEF Connected, RxSends, RmcInv, LinkKnown, AppTypes, WorldTypes
  <1>5. CASE ConnectedSent
    BY <1>5 DEF ConnectedSent, RxIdle, RxSends, world, RmcInv, LinkKnown, AppTypes,
       WorldTypes
  <1>6. CASE BatterySent
    BY <1>6 DEF BatterySent, RxIdle, world, RmcInv, LinkKnown, AppTypes, WorldTypes
  <1>7. CASE DisconnectedSent
    BY <1>7 DEF DisconnectedSent, Forget, RxIdle, world, RmcInv, LinkKnown, AppTypes,
       WorldTypes
  <1>8. CASE SecuritySent
    BY <1>8 DEF SecuritySent, RxIdle, app, world, RmcInv, LinkKnown, AppTypes, WorldTypes
  <1>9. CASE SecurityChanged
    BY <1>9 DEF SecurityChanged, RxSends, RmcInv, LinkKnown, AppTypes, WorldTypes
  <1>10. CASE BtReady
    BY <1>10 DEF BtReady, threads, RmcInv, LinkKnown, AppTypes, WorldTypes, NotReadyYet
  <1>11. CASE \/ ReceiveBle \/ EnterPairing \/ DirectAdvCheck \/ Reconnecting
              \/ rmc_sm_act_stop_adv \/ rmc_sm_act_connected \/ SetTermFlag
    BY <1>11 DEF ReceiveBle, world, EnterPairing, DirectAdvCheck, Reconnecting,
       rmc_sm_act_stop_adv, rmc_sm_act_connected, SetTermFlag, RmcInv, LinkKnown, AppTypes,
       WorldTypes
  <1>12. CASE \/ ReceiveKey \/ ReceiveLowPower \/ ReceiveSmTimer \/ ReceiveBattery
              \/ SendLowPower \/ StoreState \/ rmc_sm_act_none \/ StartAdvCheck
              \/ StartAdv \/ StartDirectAdv \/ DeliverPlainKey \/ DeliverCombKey
              \/ DeliverVoiceKey \/ SendPendingKey \/ SendTimer \/ AdvTimeout \/ Pair
    BY <1>12 DEF ReceiveKey, world, ReceiveLowPower, app, ReceiveSmTimer, ReceiveBattery,
       SendLowPower, StoreState, rmc_sm_act_none, StartAdvCheck, StartAdv, StartDirectAdv,
       DeliverPlainKey, DeliverCombKey, DeliverVoiceKey, SendPendingKey, SendTimer,
       AdvTimeout, threads, Pair, RmcInv, LinkKnown, AppTypes, WorldTypes
  <1>13. ASSUME NEW b \in BOOLEAN, Disconnected(b) PROVE LinkKnown'
    BY <1>13 DEF Disconnected, LinkDown, RxSends, RmcInv, LinkKnown, AppTypes, WorldTypes
  <1>14. ASSUME NEW b \in BOOLEAN, SecurityChangedNoCcc(b) PROVE LinkKnown'
    BY <1>14 DEF SecurityChangedNoCcc, threads, RmcInv, LinkKnown, AppTypes, WorldTypes
  <1>15. ASSUME NEW t \in Timers, Expire(t) PROVE LinkKnown'
    BY <1>15 DEF Expire, threads, world, RmcInv, LinkKnown, AppTypes, WorldTypes
  <1>16. ASSUME NEW t \in Timers, CheckTimer(t) PROVE LinkKnown'
    BY <1>16 DEF CheckTimer, world, RmcInv, LinkKnown, AppTypes, WorldTypes
  <1>17. ASSUME NEW k \in Keys, NEW b \in BOOLEAN, ReportKey(k, b) PROVE LinkKnown'
    BY <1>17 DEF ReportKey, app, world, RmcInv, LinkKnown, AppTypes, WorldTypes
  <1>18. CASE UNCHANGED vars
    BY <1>18 DEF vars, app, threads, world, RmcInv, LinkKnown, AppTypes, WorldTypes
  <1> QED
    BY <1>1, <1>2, <1>3, <1>4, <1>5, <1>6, <1>7, <1>8, <1>9, <1>10, <1>11, <1>12, <1>13,
       <1>14, <1>15, <1>16, <1>17, <1>18 DEF Next, MainStep, RxStep, Callback

LEMMA RxSaysSoStep ==
  ASSUME RmcInv, [Next]_vars
  PROVE  RxSaysSo'
  <1>1. CASE \/ Connected \/ SecurityChanged
    BY <1>1, MessageFacts DEF Connected, RxSends, SecurityChanged, RmcInv, RxSaysSo, Up,
       BleEvents
  <1>2. CASE ConnectedSent
    BY <1>2 DEF ConnectedSent, RxIdle, RxSends, world, RmcInv, RxSaysSo, Up
  <1>3. CASE \/ ReceiveHciTimer \/ BatterySent \/ DisconnectedSent \/ SecuritySent
    BY <1>3 DEF ReceiveHciTimer, RxIdle, BatterySent, world, DisconnectedSent,
       SecuritySent, app, RmcInv, RxSaysSo, Up
  <1>4. ASSUME NEW b \in BOOLEAN, Disconnected(b) PROVE RxSaysSo'
    BY <1>4, MessageFacts DEF Disconnected, RxSends, RmcInv, RxSaysSo, Up, BleEvents
  <1>5. CASE \/ ReceiveKey \/ ReceiveBle \/ ReceiveLowPower \/ ReceiveSmTimer
             \/ ReceiveBattery \/ SendLowPower \/ ReceivePairTimer \/ StoreState
             \/ rmc_sm_act_none \/ StartAdvCheck \/ StartAdv \/ EnterPairing
             \/ DirectAdvCheck \/ StartDirectAdv \/ Reconnecting \/ rmc_sm_act_stop_adv
             \/ rmc_sm_act_connected \/ DisconnectConn \/ SetTermFlag \/ DeliverPlainKey
             \/ DeliverCombKey \/ DeliverVoiceKey \/ SendPendingKey \/ BtReady
             \/ SendTimer \/ AdvTimeout \/ Pair
    BY <1>5 DEF ReceiveKey, world, ReceiveBle, ReceiveLowPower, app, ReceiveSmTimer,
       ReceiveBattery, SendLowPower, ReceivePairTimer, ClearPairInfo, StoreState,
       rmc_sm_act_none, StartAdvCheck, StartAdv, EnterPairing, DirectAdvCheck,
       StartDirectAdv, Reconnecting, rmc_sm_act_stop_adv, rmc_sm_act_connected,
       DisconnectConn, SetTermFlag, DeliverPlainKey, DeliverCombKey, DeliverVoiceKey,
       SendPendingKey, BtReady, threads, SendTimer, AdvTimeout, Pair, RmcInv, RxSaysSo, Up
  <1>6. ASSUME NEW b \in BOOLEAN, SecurityChangedNoCcc(b) PROVE RxSaysSo'
    BY <1>6 DEF SecurityChangedNoCcc, threads, RmcInv, RxSaysSo, Up
  <1>7. ASSUME NEW t \in Timers, Expire(t) PROVE RxSaysSo'
    BY <1>7 DEF Expire, threads, world, RmcInv, RxSaysSo, Up
  <1>8. ASSUME NEW t \in Timers, CheckTimer(t) PROVE RxSaysSo'
    BY <1>8 DEF CheckTimer, world, RmcInv, RxSaysSo, Up
  <1>9. ASSUME NEW k \in Keys, NEW b \in BOOLEAN, ReportKey(k, b) PROVE RxSaysSo'
    BY <1>9 DEF ReportKey, app, world, RmcInv, RxSaysSo, Up
  <1>10. CASE UNCHANGED vars
    BY <1>10 DEF vars, app, threads, world, RmcInv, RxSaysSo, Up
  <1> QED
    BY <1>1, <1>2, <1>3, <1>4, <1>5, <1>6, <1>7, <1>8, <1>9, <1>10 DEF Next, MainStep,
       RxStep, Callback

LEMMA StatusReadStep ==
  ASSUME RmcInv, [Next]_vars
  PROVE  StatusRead'
  <1>1. CASE ReceiveKey
    BY <1>1, ReceiveFacts, ExecuteFacts, MessageFacts DEF ReceiveKey, world, RmcInv,
       StatusRead, AppTypes, ThreadTypes, SmEvents, BleEvents, Timers
  <1>2. CASE ReceiveLowPower
    BY <1>2, ReceiveFacts, ExecuteFacts, MessageFacts DEF ReceiveLowPower, app, world,
       RmcInv, StatusRead, AppTypes, ThreadTypes, SmEvents, BleEvents, Timers
  <1>3. CASE ReceiveSmTimer
    BY <1>3, ReceiveFacts, ExecuteFacts, MessageFacts DEF ReceiveSmTimer, app, world,
       RmcInv, StatusRead, AppTypes, ThreadTypes, SmEvents, BleEvents, Timers
  <1>4. CASE ReceivePairTimer
    BY <1>4, ReceiveFacts, ExecuteFacts, MessageFacts DEF ReceivePairTimer, RmcInv,
       StatusRead, AppTypes, ThreadTypes, SmEvents, BleEvents, Timers
  <1>5. CASE ReceiveBle
    <2>1. /\ Execute(Head(msg_queue).v, NoKey) /\ Head(msg_queue).v \in BleEvents
          /\ rmc_status' = rmc_status /\ rmc_status \in States
      BY <1>5, ReceiveFacts DEF ReceiveBle, RmcInv, AppTypes
    <2>2. Head(msg_queue).v \in SmEvents \ {"RECONN_FAIL", "POWER_UP"}
      BY <2>1 DEF BleEvents, SmEvents
    <2>3. main'.pc = "store" /\ main'.ev = Head(msg_queue).v /\ main'.s = rmc_status
      BY <2>1, <2>2, ExecuteFacts, MessageFacts
    <2> QED
      BY <2>1, <2>2, <2>3 DEF StatusRead
  <1>6. CASE StoreState
    BY <1>6, TableNext, TableAction, GotoFacts DEF StoreState, At, world, RmcInv,
       StatusRead, AppTypes, ThreadTypes, Actions, MainPcs, MainRec
  <1>7. CASE DirectAdvCheck
    <2>1. rmc_status' = rmc_status /\ rmc_status # "CONNECTED" /\ rmc_status \in States
      BY <1>7 DEF DirectAdvCheck, At, RmcInv, StatusRead, AppTypes
    <2>2. CASE Goto("start_direct_adv")
      BY <2>1, <2>2, GotoFacts DEF RmcInv, StatusRead, MainPcs
    <2>3. CASE Execute(IF "PAIR_COMB" \in input.comb THEN "CLEAR_PAIR_KEY" ELSE "RECONN_FAIL",
                       main.key)
      <3>1. main'.pc = "store" /\ main'.s = rmc_status /\ main'.ev \in {"CLEAR_PAIR_KEY", "RECONN_FAIL"}
        BY <2>3 DEF Execute
      <3> QED
        BY <2>1, <3>1 DEF StatusRead
    <2> QED
      BY <1>7, <2>2, <2>3 DEF DirectAdvCheck
  <1>8. CASE \/ rmc_sm_act_none \/ StartAdvCheck \/ StartAdv \/ EnterPairing
             \/ Reconnecting \/ rmc_sm_act_stop_adv \/ rmc_sm_act_connected
             \/ SetTermFlag \/ SendPendingKey \/ StartDirectAdv \/ DisconnectConn
    BY <1>8, DoneFacts, GotoFacts DEF rmc_sm_act_none, At, app, world, StartAdvCheck,
       StartAdv, EnterPairing, Reconnecting, rmc_sm_act_stop_adv, rmc_sm_act_connected,
       SetTermFlag, SendPendingKey, StartDirectAdv, DisconnectConn, RmcInv, StatusRead,
       AppTypes, ThreadTypes, MainPcs
  <1>9. CASE \/ ReceiveBattery \/ SendLowPower \/ ReceiveHciTimer
    BY <1>9, GotoFacts DEF ReceiveBattery, world, SendLowPower, At, ReceiveHciTimer,
       RmcInv, StatusRead, AppTypes, ThreadTypes, MainPcs
  <1>10. CASE \/ DeliverPlainKey \/ DeliverCombKey \/ DeliverVoiceKey
    BY <1>10, LoopFacts DEF DeliverPlainKey, At, world, DeliverCombKey, DeliverVoiceKey,
       app, RmcInv, StatusRead, AppTypes, ThreadTypes
  <1>11. CASE BtReady
    BY <1>11, TableNext DEF BtReady, threads, RmcInv, StatusRead, AppTypes, ThreadTypes,
       NotReadyYet, SmEvents
  <1>12. ASSUME NEW b \in BOOLEAN, SecurityChangedNoCcc(b) PROVE StatusRead'
    BY <1>12, TableNext DEF SecurityChangedNoCcc, threads, RmcInv, StatusRead, AppTypes,
       ThreadTypes, SmEvents
  <1>13. CASE \/ ConnectedSent \/ BatterySent \/ DisconnectedSent \/ SecuritySent
              \/ Connected \/ SecurityChanged \/ SendTimer \/ AdvTimeout \/ Pair
    BY <1>13 DEF ConnectedSent, world, BatterySent, DisconnectedSent, SecuritySent, app,
       Connected, SecurityChanged, SendTimer, AdvTimeout, threads, Pair, RmcInv,
       StatusRead, AppTypes, ThreadTypes
  <1>14. ASSUME NEW b \in BOOLEAN, Disconnected(b) PROVE StatusRead'
    BY <1>14 DEF Disconnected, RmcInv, StatusRead, AppTypes, ThreadTypes
  <1>15. ASSUME NEW t \in Timers, Expire(t) PROVE StatusRead'
    BY <1>15 DEF Expire, threads, world, RmcInv, StatusRead, AppTypes, ThreadTypes
  <1>16. ASSUME NEW t \in Timers, CheckTimer(t) PROVE StatusRead'
    BY <1>16 DEF CheckTimer, world, RmcInv, StatusRead, AppTypes, ThreadTypes
  <1>17. ASSUME NEW k \in Keys, NEW b \in BOOLEAN, ReportKey(k, b) PROVE StatusRead'
    BY <1>17 DEF ReportKey, app, world, RmcInv, StatusRead, AppTypes, ThreadTypes
  <1>18. CASE UNCHANGED vars
    BY <1>18 DEF vars, app, threads, world, RmcInv, StatusRead, AppTypes, ThreadTypes
  <1> QED
    BY <1>1, <1>2, <1>3, <1>4, <1>5, <1>6, <1>7, <1>8, <1>9, <1>10, <1>11, <1>12, <1>13,
       <1>14, <1>15, <1>16, <1>17, <1>18 DEF Next, MainStep, RxStep, Callback

LEMMA EarlyQueue ==
  ASSUME NEW q \in Seq(Messages), \A i \in DOMAIN q : Early(q[i])
  PROVE  /\ \A m \in Messages : Early(m) => \A i \in DOMAIN Append(q, m) : Early(Append(q, m)[i])
         /\ q # <<>> => Early(Head(q)) /\ \A i \in DOMAIN Tail(q) : Early(Tail(q)[i])
  <1>1. ASSUME NEW m \in Messages, Early(m), NEW i \in DOMAIN Append(q, m)
        PROVE  Early(Append(q, m)[i])
    BY <1>1, AppendFacts
  <1>2. ASSUME q # <<>> PROVE Early(Head(q)) /\ \A i \in DOMAIN Tail(q) : Early(Tail(q)[i])
    <2>1. \A i \in DOMAIN Tail(q) : i + 1 \in DOMAIN q /\ Tail(q)[i] = q[i + 1]
      BY <1>2, TailFacts
    <2> QED
      BY <1>2, <2>1, TailFacts
  <1> QED
    BY <1>1, <1>2

LEMMA NotReadyYetStep ==
  ASSUME RmcInv, [Next]_vars
  PROVE  NotReadyYet'
  <1>1. CASE ReceiveKey
    <2> SUFFICES ASSUME ~ready PROVE NotReadyYet'
      BY <1>1 DEF ReceiveKey, NotReadyYet, app
    <2>1. msg_queue # <<>> /\ msg_queue' = Tail(msg_queue) /\ Early(Head(msg_queue))
          /\ \A i \in DOMAIN msg_queue' : Early(msg_queue'[i])
      BY <1>1, ReceiveFacts, EarlyQueue DEF ReceiveKey, RmcInv, NotReadyYet, ThreadTypes
    <2>2. timers' = Start(timers, "NO_ACT") /\ main' = main
          /\ UNCHANGED <<rmc_status, hid_app_cb, wq, rx, adv, link>>
      BY <1>1 DEF ReceiveKey, world
    <2>3. timers'.armed \subseteq {"NO_ACT"} /\ timers'.due \subseteq {"NO_ACT"}
      BY <2>2, StartFacts DEF RmcInv, AppTypes, TimersRec, NotReadyYet, Timers
    <2> QED
      BY <2>1, <2>2, <2>3 DEF RmcInv, NotReadyYet
  <1>2. CASE ReceiveLowPower
    <2> SUFFICES ASSUME ~ready PROVE NotReadyYet'
      BY <1>2 DEF ReceiveLowPower, NotReadyYet, app
    <2>1. msg_queue # <<>> /\ msg_queue' = Tail(msg_queue) /\ Early(Head(msg_queue))
          /\ \A i \in DOMAIN msg_queue' : Early(msg_queue'[i])
      BY <1>2, ReceiveFacts, EarlyQueue DEF ReceiveLowPower, RmcInv, NotReadyYet, ThreadTypes
    <2>2. Execute("LOW_POWER", NoKey) /\ UNCHANGED <<rmc_status, hid_app_cb, timers, wq, rx, adv, link>>
      BY <1>2 DEF ReceiveLowPower, app, world
    <2>3. main'.pc = "store" /\ main'.ev = "LOW_POWER" /\ main'.s = rmc_status /\ main'.key = NoKey
      BY <2>2, ExecuteFacts, MessageFacts DEF RmcInv, AppTypes, SmEvents
    <2> QED
      BY <2>1, <2>2, <2>3 DEF RmcInv, NotReadyYet
  <1>3. CASE ReceiveSmTimer
    <2> SUFFICES ASSUME ~ready PROVE NotReadyYet'
      BY <1>3 DEF ReceiveSmTimer, NotReadyYet, app
    <2>1. msg_queue # <<>> /\ msg_queue' = Tail(msg_queue) /\ Early(Head(msg_queue))
          /\ \A i \in DOMAIN msg_queue' : Early(msg_queue'[i])
      BY <1>3, ReceiveFacts, EarlyQueue DEF ReceiveSmTimer, RmcInv, NotReadyYet, ThreadTypes
    <2>2. /\ Execute(Head(msg_queue).v, NoKey) /\ Head(msg_queue).v = "NO_ACT"
          /\ UNCHANGED <<rmc_status, hid_app_cb, timers, wq, rx, adv, link>>
      BY <1>3, <2>1, ReceiveFacts DEF ReceiveSmTimer, app, world, Early, RmcInv
    <2>3. main'.pc = "store" /\ main'.ev = "NO_ACT" /\ main'.s = rmc_status /\ main'.key = NoKey
      BY <2>2, ExecuteFacts, MessageFacts DEF RmcInv, AppTypes, SmEvents
    <2> QED
      BY <2>1, <2>2, <2>3 DEF RmcInv, NotReadyYet
  <1>4. CASE \/ ReceiveBle \/ ReceiveBattery \/ ReceivePairTimer \/ ReceiveHciTimer
    BY <1>4, ReceiveFacts DEF ReceiveBle, world, ReceiveBattery, ReceivePairTimer,
       ReceiveHciTimer, RmcInv, NotReadyYet, Early
  <1>5. CASE StoreState
    <2> SUFFICES ASSUME ~ready PROVE NotReadyYet'
      BY <1>5 DEF StoreState, NotReadyYet
    <2>1. main.s = "IDLE" /\ main.ev \in {"NO_ACT", "LOW_POWER"}
      BY <1>5 DEF StoreState, At, RmcInv, NotReadyYet
    <2>2. NextState(main.s, main.ev) = "IDLE" /\ Action(main.s, main.ev) = "NONE"
      BY <2>1 DEF NextState, Action, Terminates
    <2>3. main'.pc = "NONE" /\ main'.key = main.key
      BY <1>5, <2>2, GotoFacts DEF StoreState, RmcInv, MainPcs
    <2> QED
      BY <1>5, <2>2, <2>3 DEF StoreState, RmcInv, NotReadyYet, world
  <1>6. CASE rmc_sm_act_none
    <2>1. main.pc = "NONE" /\ Done /\ UNCHANGED <<app, msg_queue, wq, rx, world>>
      BY <1>6 DEF rmc_sm_act_none, At
    <2>2. ~ready => main'.pc = "loop" /\ main'.key = NoKey
      BY <2>1 DEF Done, Loop, RmcInv, NotReadyYet
    <2> QED
      BY <2>1, <2>2 DEF RmcInv, NotReadyYet, app, world
  <1>7. CASE \/ StartAdvCheck \/ StartAdv \/ EnterPairing \/ DirectAdvCheck
             \/ StartDirectAdv \/ Reconnecting \/ rmc_sm_act_stop_adv
             \/ rmc_sm_act_connected \/ DisconnectConn \/ SetTermFlag \/ DeliverPlainKey
             \/ DeliverCombKey \/ DeliverVoiceKey \/ SendPendingKey \/ SendLowPower
    BY <1>7 DEF StartAdvCheck, app, world, StartAdv, EnterPairing, DirectAdvCheck,
       StartDirectAdv, Reconnecting, rmc_sm_act_stop_adv, rmc_sm_act_connected,
       DisconnectConn, SetTermFlag, DeliverPlainKey, DeliverCombKey, DeliverVoiceKey,
       SendPendingKey, SendLowPower, RmcInv, NotReadyYet, At
  <1>8. CASE \/ ConnectedSent \/ BatterySent \/ DisconnectedSent \/ SecuritySent
    BY <1>8 DEF ConnectedSent, world, BatterySent, DisconnectedSent, SecuritySent, app,
       RmcInv, NotReadyYet, RxIdle
  <1>9. CASE SendTimer
    <2> SUFFICES ASSUME ~ready PROVE NotReadyYet'
      BY <1>9 DEF SendTimer, NotReadyYet, app
    <2>1. wq = "NO_ACT" /\ Early(Timer(wq)) /\ Timer(wq) \in Messages
      BY <1>9, MessageFacts DEF SendTimer, RmcInv, NotReadyYet, Early, Timers
    <2>2. \A i \in DOMAIN msg_queue' : Early(msg_queue'[i])
      BY <1>9, <2>1, SendFacts, EarlyQueue DEF SendTimer, RmcInv, NotReadyYet, ThreadTypes
    <2> QED
      BY <1>9, <2>2 DEF SendTimer, app, world, RmcInv, NotReadyYet
  <1>10. ASSUME NEW k \in Keys, NEW b \in BOOLEAN, ReportKey(k, b) PROVE NotReadyYet'
    <2> SUFFICES ASSUME ~ready PROVE NotReadyYet'
      BY <1>10 DEF ReportKey, NotReadyYet, app
    <2>1. Early(Msg("KEY", k, b)) /\ Msg("KEY", k, b) \in Messages
      BY MessageFacts DEF Early
    <2>2. msg_queue' = Append(msg_queue, Msg("KEY", k, b)) \/ msg_queue' = msg_queue
      BY <1>10 DEF ReportKey
    <2>3. \A i \in DOMAIN msg_queue' : Early(msg_queue'[i])
      BY <2>1, <2>2, EarlyQueue DEF RmcInv, NotReadyYet, ThreadTypes
    <2> QED
      BY <1>10, <2>3 DEF ReportKey, app, world, RmcInv, NotReadyYet
  <1>11. ASSUME NEW t \in Timers, Expire(t) PROVE NotReadyYet'
    BY <1>11 DEF Expire, threads, world, RmcInv, NotReadyYet, AppTypes
  <1>12. ASSUME NEW t \in Timers, CheckTimer(t) PROVE NotReadyYet'
    BY <1>12 DEF CheckTimer, world, RmcInv, NotReadyYet, AppTypes
  <1>13. ASSUME NEW b \in BOOLEAN, Disconnected(b) PROVE NotReadyYet'
    BY <1>13 DEF Disconnected, RmcInv, NotReadyYet, LinkDown
  <1>14. ASSUME NEW b \in BOOLEAN, SecurityChangedNoCcc(b) PROVE NotReadyYet'
    BY <1>14 DEF SecurityChangedNoCcc, threads, RmcInv, NotReadyYet, LinkDown
  <1>15. CASE \/ Connected \/ SecurityChanged \/ BtReady \/ AdvTimeout \/ Pair
    BY <1>15 DEF Connected, SecurityChanged, BtReady, threads, AdvTimeout, app, Pair,
       RmcInv, NotReadyYet, LinkDown
  <1>16. CASE UNCHANGED vars
    BY <1>16 DEF vars, app, threads, world, RmcInv, NotReadyYet, LinkDown
  <1> QED
    BY <1>1, <1>2, <1>3, <1>4, <1>5, <1>6, <1>7, <1>8, <1>9, <1>10, <1>11, <1>12, <1>13,
       <1>14, <1>15, <1>16 DEF Next, MainStep, RxStep, Callback

-----------------------------------------------------------------------------
(***************************************************************************)
(* What is on its way to the main loop arrives there.                      *)
(***************************************************************************)
LEMMA ComingDef ==
  ASSUME NEW u \in Timers
  PROVE  /\ Coming(u) <=> Pending(timers, u) \/ u = wq \/ InQ(msg_queue, Timer(u))
         /\ Coming(u)' <=> Pending(timers', u) \/ u = wq' \/ InQ(msg_queue', Timer(u))
  BY DEF Coming, Pending, InQ

\* A timer that is coming stays so until the main loop handles it, unless its
\* message finds no buffer, or pairing mode replaces it.
ComingOn(u) ==
    \/ Coming(u)' \/ lost' \/ main'.pc = "dtm"
    \/ main'.pc = "store" /\ main'.ev = u
    \/ u = "DIRECT_ADV" /\ main.pc = "pairing" /\ Coming("ADV")'

LEMMA ComingKept ==
  ASSUME RmcInv, NEW u \in {"ADV", "DIRECT_ADV"}, Coming(u), [Next]_vars
  PROVE  ComingOn(u)
  <1> u \in Timers
    BY DEF Timers
  <1>1. CASE ReceiveKey
    <2>1. msg_queue # <<>> /\ msg_queue' = Tail(msg_queue) /\ Head(msg_queue) # Timer(u)
      BY <1>1, ReceiveFacts, MessageFacts DEF ReceiveKey, RmcInv, Timers
    <2>2. wq' = wq /\ (Pending(timers, u) => Pending(timers', u))
      BY <1>1, StartFacts DEF ReceiveKey, RmcInv, AppTypes, TimersRec, Timers
    <2> QED
      BY <2>1, <2>2, InTail, ComingDef DEF RmcInv, ThreadTypes, ComingOn
  <1>2. CASE ReceiveBle
    <2>1. msg_queue # <<>> /\ msg_queue' = Tail(msg_queue) /\ Head(msg_queue) # Timer(u)
      BY <1>2, ReceiveFacts, MessageFacts DEF ReceiveBle, RmcInv, Timers
    <2>2. wq' = wq /\ (Pending(timers, u) => Pending(timers', u))
      BY <1>2, StartFacts DEF ReceiveBle, RmcInv, AppTypes, TimersRec, Timers
    <2> QED
      BY <2>1, <2>2, InTail, ComingDef DEF RmcInv, ThreadTypes, ComingOn
  <1>3. CASE ReceiveLowPower
    <2>1. msg_queue # <<>> /\ msg_queue' = Tail(msg_queue) /\ Head(msg_queue) # Timer(u)
      BY <1>3, ReceiveFacts, MessageFacts DEF ReceiveLowPower, RmcInv, Timers
    <2>2. wq' = wq /\ (Pending(timers, u) => Pending(timers', u))
      BY <1>3, StartFacts DEF ReceiveLowPower, app, RmcInv, AppTypes, TimersRec, Timers
    <2> QED
      BY <2>1, <2>2, InTail, ComingDef DEF RmcInv, ThreadTypes, ComingOn
  <1>4. CASE ReceiveBattery
    <2>1. msg_queue # <<>> /\ msg_queue' = Tail(msg_queue) /\ Head(msg_queue) # Timer(u)
      BY <1>4, ReceiveFacts, MessageFacts DEF ReceiveBattery, RmcInv, Timers
    <2>2. wq' = wq /\ (Pending(timers, u) => Pending(timers', u))
      BY <1>4, StartFacts DEF ReceiveBattery, RmcInv, AppTypes, TimersRec, Timers
    <2> QED
      BY <2>1, <2>2, InTail, ComingDef DEF RmcInv, ThreadTypes, ComingOn
  <1>5. CASE ReceivePairTimer
    <2>1. msg_queue # <<>> /\ msg_queue' = Tail(msg_queue) /\ Head(msg_queue) # Timer(u)
      BY <1>5, ReceiveFacts, MessageFacts DEF ReceivePairTimer, RmcInv, Timers
    <2>2. wq' = wq /\ (Pending(timers, u) => Pending(timers', u))
      BY <1>5, StartFacts DEF ReceivePairTimer, RmcInv, AppTypes, TimersRec, Timers
    <2> QED
      BY <2>1, <2>2, InTail, ComingDef DEF RmcInv, ThreadTypes, ComingOn
  <1>6. CASE ReceiveSmTimer
    <2>1. /\ msg_queue # <<>> /\ msg_queue' = Tail(msg_queue)
          /\ Execute(Head(msg_queue).v, NoKey) /\ Head(msg_queue).v \in SmEvents
          /\ wq' = wq /\ timers' = timers
      BY <1>6, ReceiveFacts DEF ReceiveSmTimer, app, RmcInv, SmEvents
    <2>2. CASE Head(msg_queue) = Timer(u)
      <3>1. Head(msg_queue).v = u
        BY <2>2, MessageFacts
      <3> QED
        BY <2>1, <3>1, ExecuteFacts, MessageFacts DEF RmcInv, AppTypes, ComingOn
    <2>3. CASE Head(msg_queue) # Timer(u)
      BY <2>1, <2>3, InTail, ComingDef DEF RmcInv, ThreadTypes, ComingOn
    <2> QED
      BY <2>2, <2>3
  <1>7. CASE ReceiveHciTimer
    BY <1>7, GotoFacts DEF ReceiveHciTimer, RmcInv, ComingOn, MainPcs
  <1>8. CASE SendLowPower
    <2>1. LowPower \in Messages /\ (Queue(LowPower) \/ GiveUp)
      BY <1>8, MessageFacts DEF SendLowPower
    <2>2. wq' = wq /\ (Pending(timers, u) => Pending(timers', u))
      BY <1>8, StartFacts, StopFacts DEF SendLowPower, LinkTimers, RmcInv, AppTypes, TimersRec, Timers
    <2>3. lost' \/ msg_queue' = Append(msg_queue, LowPower)
      BY <2>1, SendFacts DEF RmcInv
    <2>4. lost' \/ \A x : InQ(msg_queue, x) => InQ(msg_queue', x)
      BY ZenonT(60), <2>1, <2>3, InAppend DEF RmcInv, ThreadTypes
    <2> QED
      BY <2>2, <2>4, ComingDef DEF ComingOn
  <1>9. CASE ConnectedSent
    <2>1. rx.msg \in Messages /\ Send(rx.msg)
      BY <1>9, MessageFacts DEF ConnectedSent, RmcInv, ThreadTypes
    <2>2. wq' = wq /\ (Pending(timers, u) => Pending(timers', u))
      BY <1>9, StartFacts, StopFacts DEF ConnectedSent, LinkTimers, RmcInv, AppTypes, TimersRec, Timers
    <2>3. lost' \/ msg_queue' = Append(msg_queue, rx.msg)
      BY <2>1, SendFacts DEF RmcInv
    <2>4. lost' \/ \A x : InQ(msg_queue, x) => InQ(msg_queue', x)
      BY <2>1, <2>3, InAppend DEF RmcInv, ThreadTypes
    <2> QED
      BY <2>2, <2>4, ComingDef DEF ComingOn
  <1>10. CASE BatterySent
    <2>1. rx.msg \in Messages /\ Send(rx.msg)
      BY <1>10, MessageFacts DEF BatterySent, RmcInv, ThreadTypes
    <2>2. wq' = wq /\ (Pending(timers, u) => Pending(timers', u))
      BY <1>10, StartFacts, StopFacts DEF BatterySent, LinkTimers, RmcInv, AppTypes, TimersRec, Timers
    <2>3. lost' \/ msg_queue' = Append(msg_queue, rx.msg)
      BY <2>1, SendFacts DEF RmcInv
    <2>4. lost' \/ \A x : InQ(msg_queue, x) => InQ(msg_queue', x)
      BY <2>1, <2>3, InAppend DEF RmcInv, ThreadTypes
    <2> QED
      BY <2>2, <2>4, ComingDef DEF ComingOn
  <1>11. CASE DisconnectedSent
    <2>1. rx.msg \in Messages /\ Send(rx.msg)
      BY <1>11, MessageFacts DEF DisconnectedSent, RmcInv, ThreadTypes
    <2>2. wq' = wq /\ (Pending(timers, u) => Pending(timers', u))
      BY <1>11, StartFacts, StopFacts DEF DisconnectedSent, LinkTimers, RmcInv, AppTypes, TimersRec, Timers
    <2>3. lost' \/ msg_queue' = Append(msg_queue, rx.msg)
      BY <2>1, SendFacts DEF RmcInv
    <2>4. lost' \/ \A x : InQ(msg_queue, x) => InQ(msg_queue', x)
      BY <2>1, <2>3, InAppend DEF RmcInv, ThreadTypes
    <2> QED
      BY <2>2, <2>4, ComingDef DEF ComingOn
  <1>12. CASE SecuritySent
    <2>1. rx.msg \in Messages /\ Send(rx.msg)
      BY <1>12, MessageFacts DEF SecuritySent, RmcInv, ThreadTypes
    <2>2. wq' = wq /\ (Pending(timers, u) => Pending(timers', u))
      BY <1>12, StartFacts, StopFacts DEF SecuritySent, app, LinkTimers, RmcInv, AppTypes, TimersRec, Timers
    <2>3. lost' \/ msg_queue' = Append(msg_queue, rx.msg)
      BY <2>1, SendFacts DEF RmcInv
    <2>4. lost' \/ \A x : InQ(msg_queue, x) => InQ(msg_queue', x)
      BY <2>1, <2>3, InAppend DEF RmcInv, ThreadTypes
    <2> QED
      BY <2>2, <2>4, ComingDef DEF ComingOn
  <1>13. CASE EnterPairing
    <2>1. /\ timers' = Start(Stop(timers, "DIRECT_ADV"), "ADV") /\ main.pc = "pairing"
          /\ wq' = wq /\ msg_queue' = msg_queue
      BY <1>13 DEF EnterPairing, PairingTimers, At
    <2>2. Pending(timers', "ADV")
      BY <2>1, StartFacts, StopFacts DEF RmcInv, AppTypes, TimersRec, Timers
    <2> QED
      BY <2>1, <2>2, ComingDef DEF ComingOn, Timers
  <1>14. CASE Reconnecting
    <2>1. Pending(timers, u) => Pending(timers', u)
      BY <1>14, StartFacts, StopFacts DEF Reconnecting, ReconnTimers, RmcInv, AppTypes, TimersRec, Timers
    <2>2. wq' = wq /\ msg_queue' = msg_queue
      BY <1>14 DEF Reconnecting
    <2> QED
      BY <2>1, <2>2, ComingDef DEF ComingOn
  <1>15. CASE SecurityChanged
    <2>1. Pending(timers, u) => Pending(timers', u)
      BY <1>15, StartFacts, StopFacts DEF SecurityChanged, ReconnTimers, RmcInv, AppTypes, TimersRec, Timers
    <2>2. wq' = wq /\ msg_queue' = msg_queue
      BY <1>15 DEF SecurityChanged
    <2> QED
      BY <2>1, <2>2, ComingDef DEF ComingOn
  <1>16. CASE BtReady
    <2>1. Pending(timers, u) => Pending(timers', u)
      BY <1>16, StartFacts, StopFacts DEF BtReady, ReconnTimers, RmcInv, AppTypes, TimersRec, Timers
    <2>2. wq' = wq /\ msg_queue' = msg_queue
      BY <1>16 DEF BtReady, threads
    <2> QED
      BY <2>1, <2>2, ComingDef DEF ComingOn
  <1>17. CASE DeliverPlainKey
    BY <1>17, ComingDef DEF DeliverPlainKey, world, RmcInv, ComingOn, Pending, Timers,
       AppTypes
  <1>18. CASE DeliverCombKey
    <2>1. main.key.v \in {"PAIR_COMB", "HCI_COMB"}
          /\ timers' \in {Start(timers, main.key.v), Stop(timers, main.key.v)}
      BY <1>18 DEF DeliverCombKey
    <2>2. Pending(timers, u) => Pending(timers', u)
      BY <2>1, StartFacts, StopFacts DEF RmcInv, AppTypes, TimersRec, Timers
    <2>3. wq' = wq /\ msg_queue' = msg_queue
      BY <1>18 DEF DeliverCombKey
    <2> QED
      BY <2>2, <2>3, ComingDef DEF ComingOn
  <1>19. CASE SendTimer
    <2>1. wq \in Timers /\ Send(Timer(wq)) /\ Timer(wq) \in Messages /\ timers' = timers
      BY <1>19, MessageFacts DEF SendTimer, app, RmcInv, ThreadTypes
    <2>2. lost' \/ msg_queue' = Append(msg_queue, Timer(wq))
      BY <2>1, SendFacts DEF RmcInv
    <2>3. lost' \/ (InQ(msg_queue', Timer(wq)) /\ \A x : InQ(msg_queue, x) => InQ(msg_queue', x))
      BY ZenonT(60), <2>1, <2>2, InAppend DEF RmcInv, ThreadTypes
    <2> QED
      BY <2>1, <2>3, ComingDef DEF ComingOn
  <1>20. ASSUME NEW k \in Keys, NEW b \in BOOLEAN, ReportKey(k, b) PROVE ComingOn(u)
    <2>1. \/ msg_queue' = msg_queue
          \/ \E m \in Messages : msg_queue' = Append(msg_queue, m)
      BY <1>20, MessageFacts DEF ReportKey
    <2>2. \A x : InQ(msg_queue, x) => InQ(msg_queue', x)
      BY ZenonT(60), <2>1, InAppend DEF RmcInv, ThreadTypes
    <2> QED
      BY <1>20, <2>2, ComingDef DEF ReportKey, app, ComingOn
  <1>21. ASSUME NEW t \in Timers, Expire(t) PROVE ComingOn(u)
    BY <1>21, ComingDef DEF Expire, threads, world, RmcInv, ComingOn, Pending, AppTypes
  <1>22. ASSUME NEW t \in Timers, CheckTimer(t) PROVE ComingOn(u)
    BY <1>22, ComingDef DEF CheckTimer, world, RmcInv, ComingOn, Pending, AppTypes, threads
  <1>23. CASE \/ StoreState \/ rmc_sm_act_none \/ StartAdvCheck \/ StartAdv
              \/ DirectAdvCheck \/ StartDirectAdv \/ rmc_sm_act_stop_adv
              \/ rmc_sm_act_connected \/ DisconnectConn \/ SetTermFlag \/ DeliverVoiceKey
              \/ SendPendingKey \/ Connected \/ AdvTimeout \/ Pair
    BY <1>23, ComingDef DEF StoreState, world, rmc_sm_act_none, app, StartAdvCheck,
       StartAdv, DirectAdvCheck, StartDirectAdv, rmc_sm_act_stop_adv, rmc_sm_act_connected,
       DisconnectConn, SetTermFlag, DeliverVoiceKey, SendPendingKey, Connected, AdvTimeout,
       threads, Pair, RmcInv, ComingOn
  <1>24. ASSUME NEW b \in BOOLEAN, Disconnected(b) PROVE ComingOn(u)
    BY <1>24, ComingDef DEF Disconnected, RmcInv, ComingOn
  <1>25. ASSUME NEW b \in BOOLEAN, SecurityChangedNoCcc(b) PROVE ComingOn(u)
    BY <1>25, ComingDef DEF SecurityChangedNoCcc, threads, RmcInv, ComingOn
  <1>26. CASE UNCHANGED vars
    BY <1>26, ComingDef DEF vars, app, threads, world, RmcInv, ComingOn
  <1> QED
    BY <1>1, <1>2, <1>3, <1>4, <1>5, <1>6, <1>7, <1>8, <1>9, <1>10, <1>11, <1>12, <1>13,
       <1>14, <1>15, <1>16, <1>17, <1>18, <1>19, <1>20, <1>21, <1>22, <1>23, <1>24, <1>25,
       <1>26 DEF Next, MainStep, RxStep, Callback

\* The main loop leaves a step only by taking it.
MainMoves ==
    /\ main.pc = "store" => main' = main \/ StoreState
    /\ main.pc = "STOP_ADV" => main' = main \/ rmc_sm_act_stop_adv
    /\ main.pc = "START_ADV" => main' = main \/ StartAdvCheck
    /\ main.pc = "start_adv" => main' = main \/ StartAdv
    /\ main.pc = "pairing" => main' = main \/ EnterPairing
    /\ main.pc = "START_DIRECT_ADV" => main' = main \/ DirectAdvCheck
    /\ main.pc = "start_direct_adv" => main' = main \/ StartDirectAdv
    /\ main.pc = "reconnect" => main' = main \/ Reconnecting
    /\ main.pc = "dtm" => main' = main

LEMMA MainStepsAt ==
  ASSUME RmcInv, [Next]_vars
  PROVE  MainMoves
  <1>1. CASE \/ ReceiveKey \/ ReceiveBle \/ ReceiveLowPower \/ ReceiveSmTimer
             \/ ReceiveBattery \/ ReceivePairTimer \/ ReceiveHciTimer
    BY <1>1, ReceiveFacts DEF ReceiveKey, world, ReceiveBle, ReceiveLowPower, app,
       ReceiveSmTimer, ReceiveBattery, ReceivePairTimer, ReceiveHciTimer, RmcInv, MainMoves
  <1>2. CASE \/ StoreState \/ rmc_sm_act_stop_adv \/ EnterPairing \/ StartAdvCheck
             \/ StartAdv \/ DirectAdvCheck \/ StartDirectAdv \/ Reconnecting
    BY <1>2 DEF StoreState, At, world, rmc_sm_act_stop_adv, EnterPairing, StartAdvCheck,
       app, StartAdv, DirectAdvCheck, StartDirectAdv, Reconnecting, RmcInv, MainMoves
  <1>3. CASE \/ SendLowPower \/ rmc_sm_act_none \/ rmc_sm_act_connected \/ DisconnectConn
             \/ SetTermFlag \/ DeliverPlainKey \/ DeliverCombKey \/ DeliverVoiceKey
             \/ SendPendingKey
    BY <1>3 DEF SendLowPower, At, world, rmc_sm_act_none, app, rmc_sm_act_connected,
       DisconnectConn, SetTermFlag, DeliverPlainKey, DeliverCombKey, DeliverVoiceKey,
       SendPendingKey, RmcInv, MainMoves
  <1>4. CASE \/ ConnectedSent \/ BatterySent \/ DisconnectedSent \/ SecuritySent
             \/ Connected \/ SecurityChanged \/ BtReady \/ SendTimer \/ AdvTimeout
             \/ Pair
    BY <1>4 DEF ConnectedSent, world, BatterySent, DisconnectedSent, SecuritySent, app,
       Connected, SecurityChanged, BtReady, threads, SendTimer, AdvTimeout, Pair, RmcInv,
       MainMoves
  <1>5. ASSUME NEW b \in BOOLEAN, Disconnected(b) PROVE MainMoves
    BY <1>5 DEF Disconnected, RmcInv, MainMoves, threads
  <1>6. ASSUME NEW b \in BOOLEAN, SecurityChangedNoCcc(b) PROVE MainMoves
    BY <1>6 DEF SecurityChangedNoCcc, threads, RmcInv, MainMoves
  <1>7. ASSUME NEW t \in Timers, Expire(t) PROVE MainMoves
    BY <1>7 DEF Expire, threads, world, RmcInv, MainMoves
  <1>8. ASSUME NEW t \in Timers, CheckTimer(t) PROVE MainMoves
    BY <1>8 DEF CheckTimer, world, RmcInv, MainMoves, threads
  <1>9. ASSUME NEW k \in Keys, NEW b \in BOOLEAN, ReportKey(k, b) PROVE MainMoves
    BY <1>9 DEF ReportKey, app, world, RmcInv, MainMoves, threads
  <1>10. CASE UNCHANGED vars
    BY <1>10 DEF vars, app, threads, world, RmcInv, MainMoves, threads
  <1> QED
    BY <1>1, <1>2, <1>3, <1>4, <1>5, <1>6, <1>7, <1>8, <1>9, <1>10 DEF Next, MainStep,
       RxStep, Callback

\* A failure is not forgotten.
LossesStay == lost => lost'

LEMMA LossStep ==
  ASSUME RmcInv, [Next]_vars
  PROVE  LossesStay
  <1>1. CASE \/ ConnectedSent \/ BatterySent \/ DisconnectedSent \/ SecuritySent
    BY <1>1, SendFacts DEF ConnectedSent, world, BatterySent, DisconnectedSent,
       SecuritySent, app, RmcInv, LossesStay, ThreadTypes
  <1>2. CASE SendLowPower
    BY <1>2, SendFacts, MessageFacts DEF SendLowPower, world, RmcInv, LossesStay
  <1>3. CASE SendTimer
    BY <1>3, SendFacts, MessageFacts DEF SendTimer, app, world, RmcInv, LossesStay,
       ThreadTypes
  <1>4. CASE ReceivePairTimer
    BY <1>4 DEF ReceivePairTimer, ClearPairInfo, RmcInv, LossesStay
  <1>5. CASE \/ ReceiveKey \/ ReceiveBle \/ ReceiveLowPower \/ ReceiveSmTimer
             \/ ReceiveBattery \/ ReceiveHciTimer \/ StoreState \/ rmc_sm_act_none
             \/ StartAdvCheck \/ StartAdv \/ EnterPairing \/ DirectAdvCheck
             \/ StartDirectAdv \/ Reconnecting \/ rmc_sm_act_stop_adv
             \/ rmc_sm_act_connected \/ DisconnectConn \/ SetTermFlag \/ DeliverPlainKey
             \/ DeliverCombKey \/ DeliverVoiceKey \/ SendPendingKey \/ Connected
             \/ SecurityChanged \/ BtReady \/ AdvTimeout \/ Pair
    BY <1>5 DEF ReceiveKey, world, ReceiveBle, ReceiveLowPower, app, ReceiveSmTimer,
       ReceiveBattery, ReceiveHciTimer, StoreState, rmc_sm_act_none, StartAdvCheck,
       StartAdv, EnterPairing, DirectAdvCheck, StartDirectAdv, Reconnecting,
       rmc_sm_act_stop_adv, rmc_sm_act_connected, DisconnectConn, SetTermFlag,
       DeliverPlainKey, DeliverCombKey, DeliverVoiceKey, SendPendingKey, Connected,
       SecurityChanged, BtReady, threads, AdvTimeout, Pair, RmcInv, LossesStay
  <1>6. ASSUME NEW b \in BOOLEAN, Disconnected(b) PROVE LossesStay
    BY <1>6 DEF Disconnected, RmcInv, LossesStay
  <1>7. ASSUME NEW b \in BOOLEAN, SecurityChangedNoCcc(b) PROVE LossesStay
    BY <1>7 DEF SecurityChangedNoCcc, threads, RmcInv, LossesStay
  <1>8. ASSUME NEW t \in Timers, Expire(t) PROVE LossesStay
    BY <1>8 DEF Expire, threads, world, RmcInv, LossesStay
  <1>9. ASSUME NEW t \in Timers, CheckTimer(t) PROVE LossesStay
    BY <1>9 DEF CheckTimer, world, RmcInv, LossesStay
  <1>10. ASSUME NEW k \in Keys, NEW b \in BOOLEAN, ReportKey(k, b) PROVE LossesStay
    BY <1>10 DEF ReportKey, app, world, RmcInv, LossesStay
  <1>11. CASE UNCHANGED vars
    BY <1>11 DEF vars, app, threads, world, RmcInv, LossesStay
  <1> QED
    BY <1>1, <1>2, <1>3, <1>4, <1>5, <1>6, <1>7, <1>8, <1>9, <1>10, <1>11 DEF Next,
       MainStep, RxStep, Callback

\* Pairing mode is entered by one step, and not when the program has ended.
PairingModeEntered ==
    /\ hid_app_cb'.enter_pairing_mode => hid_app_cb.enter_pairing_mode \/ EnterPairing
    /\ main'.pc = "dtm" => main.pc = "dtm" \/ ~hid_app_cb'.enter_pairing_mode

LEMMA PairingModeStep ==
  ASSUME RmcInv, [Next]_vars
  PROVE  PairingModeEntered
  <1>1. CASE EnterPairing
    BY <1>1, DoneFacts DEF EnterPairing, world, RmcInv, PairingModeEntered, AppTypes
  <1>2. CASE ReceiveHciTimer
    BY <1>2 DEF ReceiveHciTimer, ZeroCb, RmcInv, PairingModeEntered, AppTypes
  <1>3. CASE \/ ReceiveKey \/ ReceiveBle \/ ReceiveLowPower \/ ReceiveSmTimer
             \/ ReceiveBattery \/ ReceivePairTimer
    BY <1>3, ReceiveFacts, ExecuteFacts, GotoFacts, MessageFacts DEF ReceiveKey, world,
       ReceiveBle, ReceiveLowPower, app, ReceiveSmTimer, ReceiveBattery, ReceivePairTimer,
       ClearPairInfo, RmcInv, PairingModeEntered, AppTypes, SmEvents, BleEvents, Timers,
       MainPcs
  <1>4. CASE StoreState
    BY <1>4, TableAction, GotoFacts DEF StoreState, world, RmcInv, PairingModeEntered,
       AppTypes, Actions, MainPcs, ThreadTypes, MainRec
  <1>5. CASE DirectAdvCheck
    BY <1>5, GotoFacts, ExecuteFacts DEF DirectAdvCheck, world, RmcInv, PairingModeEntered,
       AppTypes, MainPcs, SmEvents, ThreadTypes, MainRec
  <1>6. CASE \/ rmc_sm_act_none \/ StartAdvCheck \/ StartAdv \/ Reconnecting
             \/ rmc_sm_act_stop_adv \/ rmc_sm_act_connected \/ SetTermFlag
             \/ SendPendingKey \/ StartDirectAdv \/ DisconnectConn
    BY <1>6, DoneFacts, GotoFacts DEF rmc_sm_act_none, app, world, StartAdvCheck, StartAdv,
       Reconnecting, rmc_sm_act_stop_adv, rmc_sm_act_connected, SetTermFlag,
       SendPendingKey, StartDirectAdv, DisconnectConn, RmcInv, PairingModeEntered,
       AppTypes, MainPcs
  <1>7. CASE SendLowPower
    BY <1>7, GotoFacts DEF SendLowPower, world, RmcInv, PairingModeEntered, AppTypes,
       MainPcs
  <1>8. CASE \/ DeliverPlainKey \/ DeliverCombKey \/ DeliverVoiceKey
    BY <1>8, LoopFacts DEF DeliverPlainKey, world, DeliverCombKey, DeliverVoiceKey, app,
       RmcInv, PairingModeEntered, AppTypes
  <1>9. CASE \/ ConnectedSent \/ BatterySent \/ DisconnectedSent \/ SecuritySent
             \/ Connected \/ SecurityChanged \/ BtReady \/ SendTimer \/ AdvTimeout
             \/ Pair
    BY <1>9 DEF ConnectedSent, world, BatterySent, DisconnectedSent, Forget, SecuritySent,
       app, Connected, SecurityChanged, BtReady, threads, SendTimer, AdvTimeout, Pair,
       RmcInv, PairingModeEntered, AppTypes
  <1>10. ASSUME NEW b \in BOOLEAN, Disconnected(b) PROVE PairingModeEntered
    BY <1>10 DEF Disconnected, RmcInv, PairingModeEntered, AppTypes
  <1>11. ASSUME NEW b \in BOOLEAN, SecurityChangedNoCcc(b) PROVE PairingModeEntered
    BY <1>11 DEF SecurityChangedNoCcc, threads, RmcInv, PairingModeEntered, AppTypes
  <1>12. ASSUME NEW t \in Timers, Expire(t) PROVE PairingModeEntered
    BY <1>12 DEF Expire, threads, world, RmcInv, PairingModeEntered, AppTypes
  <1>13. ASSUME NEW t \in Timers, CheckTimer(t) PROVE PairingModeEntered
    BY <1>13 DEF CheckTimer, world, RmcInv, PairingModeEntered, AppTypes
  <1>14. ASSUME NEW k \in Keys, NEW b \in BOOLEAN, ReportKey(k, b) PROVE PairingModeEntered
    BY <1>14 DEF ReportKey, app, world, RmcInv, PairingModeEntered, AppTypes
  <1>15. CASE UNCHANGED vars
    BY <1>15 DEF vars, app, threads, world, RmcInv, PairingModeEntered, AppTypes
  <1> QED
    BY <1>1, <1>2, <1>3, <1>4, <1>5, <1>6, <1>7, <1>8, <1>9, <1>10, <1>11, <1>12, <1>13,
       <1>14, <1>15 DEF Next, MainStep, RxStep, Callback

LEMMA HaltedStep ==
  ASSUME RmcInv, [Next]_vars
  PROVE  Halted'
  BY MainStepsAt, PairingModeStep DEF RmcInv, Halted, MainMoves, PairingModeEntered, EnterPairing, At

LEMMA PairingIsTimedStep ==
  ASSUME RmcInv, [Next]_vars
  PROVE  PairingIsTimed'
  <1> SUFFICES ASSUME hid_app_cb'.enter_pairing_mode, ~lost', main'.pc # "pairing"
               PROVE  Coming("ADV")' \/ (main'.pc \in {"store", "STOP_ADV"} /\ main'.ev = "ADV")
    BY DEF PairingIsTimed
  <1>1. CASE EnterPairing
    <2>1. timers' = Start(Stop(timers, "DIRECT_ADV"), "ADV")
      BY <1>1 DEF EnterPairing, PairingTimers
    <2>2. Pending(timers', "ADV")
      BY <2>1, StartFacts, StopFacts DEF RmcInv, AppTypes, TimersRec, Timers
    <2> QED
      BY <2>2, ComingDef DEF Timers
  <1>2. CASE ~EnterPairing
    <2>1. hid_app_cb.enter_pairing_mode /\ ~lost /\ main'.pc # "dtm"
      BY <1>2, PairingModeStep, LossStep, HaltedStep DEF PairingModeEntered, LossesStay, Halted
    <2>2. CASE Coming("ADV")
      BY <2>1, <2>2, ComingKept DEF ComingOn
    <2>3. CASE main.pc \in {"store", "STOP_ADV"} /\ main.ev = "ADV"
      <3>1. CASE main' = main
        BY <2>3, <3>1
      <3>2. CASE StoreState
        <4>1. main.pc = "store" /\ Action(main.s, main.ev) = "STOP_ADV" /\ Goto("STOP_ADV")
          BY <2>3, <3>2, TableAction DEF StoreState, At, RmcInv, ThreadTypes, MainRec
        <4> QED
          BY <2>3, <4>1, GotoFacts DEF RmcInv, MainPcs
      <3>3. CASE rmc_sm_act_stop_adv
        BY <3>3 DEF rmc_sm_act_stop_adv, RmcInv, AppTypes
      <3> QED
        BY <2>3, <3>1, <3>2, <3>3, MainStepsAt DEF MainMoves
    <2>4. CASE main.pc = "pairing"
      BY <1>2, <2>4, MainStepsAt DEF MainMoves
    <2> QED
      BY <2>1, <2>2, <2>3, <2>4 DEF RmcInv, PairingIsTimed
  <1> QED
    BY <1>1, <1>2

\* Two threads store the status.
StatusMoves ==
    rmc_status' = rmc_status \/ StoreState \/ BtReady \/ \E b \in BOOLEAN : SecurityChangedNoCcc(b)

LEMMA StatusStep ==
  ASSUME RmcInv, [Next]_vars
  PROVE  StatusMoves
  <1>1. CASE \/ StoreState \/ BtReady
    BY <1>1 DEF StoreState, world, BtReady, threads, StatusMoves
  <1>2. ASSUME NEW b \in BOOLEAN, SecurityChangedNoCcc(b) PROVE StatusMoves
    BY <1>2 DEF SecurityChangedNoCcc, threads, StatusMoves
  <1>3. CASE \/ ReceiveKey \/ ReceiveBle \/ ReceiveLowPower \/ ReceiveSmTimer
             \/ ReceiveBattery \/ SendLowPower \/ ReceivePairTimer \/ ReceiveHciTimer
             \/ rmc_sm_act_none \/ StartAdvCheck \/ StartAdv \/ EnterPairing
             \/ DirectAdvCheck \/ StartDirectAdv \/ Reconnecting \/ rmc_sm_act_stop_adv
             \/ rmc_sm_act_connected \/ DisconnectConn \/ SetTermFlag \/ DeliverPlainKey
             \/ DeliverCombKey \/ DeliverVoiceKey \/ SendPendingKey \/ ConnectedSent
             \/ BatterySent \/ DisconnectedSent \/ SecuritySent \/ Connected
             \/ SecurityChanged \/ SendTimer \/ AdvTimeout \/ Pair
    BY <1>3 DEF ReceiveKey, world, ReceiveBle, ReceiveLowPower, app, ReceiveSmTimer,
       ReceiveBattery, SendLowPower, ReceivePairTimer, ReceiveHciTimer, rmc_sm_act_none,
       StartAdvCheck, StartAdv, EnterPairing, DirectAdvCheck, StartDirectAdv, Reconnecting,
       rmc_sm_act_stop_adv, rmc_sm_act_connected, DisconnectConn, SetTermFlag,
       DeliverPlainKey, DeliverCombKey, DeliverVoiceKey, SendPendingKey, ConnectedSent,
       BatterySent, DisconnectedSent, SecuritySent, Connected, SecurityChanged, SendTimer,
       AdvTimeout, threads, Pair, StatusMoves
  <1>4. ASSUME NEW b \in BOOLEAN, Disconnected(b) PROVE StatusMoves
    BY <1>4 DEF Disconnected, StatusMoves
  <1>5. ASSUME NEW t \in Timers, Expire(t) PROVE StatusMoves
    BY <1>5 DEF Expire, threads, world, StatusMoves
  <1>6. ASSUME NEW t \in Timers, CheckTimer(t) PROVE StatusMoves
    BY <1>6 DEF CheckTimer, world, StatusMoves
  <1>7. ASSUME NEW k \in Keys, NEW b \in BOOLEAN, ReportKey(k, b) PROVE StatusMoves
    BY <1>7 DEF ReportKey, app, world, StatusMoves
  <1>8. CASE UNCHANGED vars
    BY <1>8 DEF vars, app, threads, world, StatusMoves
  <1> QED
    BY <1>1, <1>2, <1>3, <1>4, <1>5, <1>6, <1>7, <1>8 DEF Next, MainStep, RxStep, Callback

\* An event of the link is handled, unless it finds no buffer.  When connected
\* has sent a second message, its event may have been handled before.
BleOnItsWay == rx.pc # "idle" \/ ~NoBle(msg_queue)
BleOn ==
    \/ BleOnItsWay' \/ lost' \/ main'.pc = "dtm"
    \/ main'.pc = "store" /\ main'.ev \in BleEvents
    \/ hid_app_cb'.pconn

LEMMA BleKept ==
  ASSUME RmcInv, BleOnItsWay, [Next]_vars
  PROVE  BleOn
  <1>1. CASE ReceiveKey
    <2>1. msg_queue # <<>> /\ msg_queue' = Tail(msg_queue) /\ Head(msg_queue).type # "BLE" /\ rx' = rx
      BY <1>1, ReceiveFacts DEF ReceiveKey, RmcInv
    <2> QED
      BY <2>1, InTail DEF RmcInv, ThreadTypes, BleOn, BleOnItsWay
  <1>2. CASE ReceiveLowPower
    <2>1. msg_queue # <<>> /\ msg_queue' = Tail(msg_queue) /\ Head(msg_queue).type # "BLE" /\ rx' = rx
      BY <1>2, ReceiveFacts DEF ReceiveLowPower, RmcInv
    <2> QED
      BY <2>1, InTail DEF RmcInv, ThreadTypes, BleOn, BleOnItsWay
  <1>3. CASE ReceiveSmTimer
    <2>1. msg_queue # <<>> /\ msg_queue' = Tail(msg_queue) /\ Head(msg_queue).type # "BLE" /\ rx' = rx
      BY <1>3, ReceiveFacts DEF ReceiveSmTimer, RmcInv
    <2> QED
      BY <2>1, InTail DEF RmcInv, ThreadTypes, BleOn, BleOnItsWay
  <1>4. CASE ReceiveBattery
    <2>1. msg_queue # <<>> /\ msg_queue' = Tail(msg_queue) /\ Head(msg_queue).type # "BLE" /\ rx' = rx
      BY <1>4, ReceiveFacts DEF ReceiveBattery, RmcInv
    <2> QED
      BY <2>1, InTail DEF RmcInv, ThreadTypes, BleOn, BleOnItsWay
  <1>5. CASE ReceivePairTimer
    <2>1. msg_queue # <<>> /\ msg_queue' = Tail(msg_queue) /\ Head(msg_queue).type # "BLE" /\ rx' = rx
      BY <1>5, ReceiveFacts DEF ReceivePairTimer, RmcInv
    <2> QED
      BY <2>1, InTail DEF RmcInv, ThreadTypes, BleOn, BleOnItsWay
  <1>6. CASE ReceiveBle
    BY <1>6, ReceiveFacts, ExecuteFacts, MessageFacts DEF ReceiveBle, world, RmcInv, BleOn,
       BleOnItsWay, AppTypes, SmEvents, BleEvents
  <1>7. CASE ReceiveHciTimer
    BY <1>7, GotoFacts DEF ReceiveHciTimer, RmcInv, BleOn, BleOnItsWay, MainPcs
  <1>8. CASE SendLowPower
    <2>1. LowPower \in Messages /\ (Send(LowPower) \/ Queue(LowPower) \/ GiveUp)
      BY <1>8, MessageFacts DEF SendLowPower
    <2>2. lost' \/ (msg_queue' = Append(msg_queue, LowPower) /\ msg_queue \in Seq(Messages))
      BY <2>1, SendFacts DEF RmcInv, ThreadTypes
    <2> QED
      BY ZenonT(60), <1>8, <2>1, <2>2, InAppend DEF SendLowPower, BleOn, BleOnItsWay, RxSaysSo, RmcInv
  <1>9. CASE SendTimer
    <2>1. Timer(wq) \in Messages /\ (Send(Timer(wq)) \/ Queue(Timer(wq)) \/ GiveUp)
      BY <1>9, MessageFacts DEF SendTimer, RmcInv, ThreadTypes
    <2>2. lost' \/ (msg_queue' = Append(msg_queue, Timer(wq)) /\ msg_queue \in Seq(Messages))
      BY <2>1, SendFacts DEF RmcInv, ThreadTypes
    <2> QED
      BY <1>9, <2>1, <2>2, InAppend DEF SendTimer, BleOn, BleOnItsWay, RxSaysSo, RmcInv
  <1>10. CASE DisconnectedSent
    <2>1. rx.msg \in Messages /\ (Send(rx.msg) \/ Queue(rx.msg) \/ GiveUp)
      BY <1>10, MessageFacts DEF DisconnectedSent, RmcInv, ThreadTypes
    <2>2. lost' \/ (msg_queue' = Append(msg_queue, rx.msg) /\ msg_queue \in Seq(Messages))
      BY <2>1, SendFacts DEF RmcInv, ThreadTypes
    <2> QED
      BY ZenonT(60), <1>10, <2>1, <2>2, InAppend
         DEF DisconnectedSent, BleOn, BleOnItsWay, RxSaysSo, RmcInv
  <1>11. CASE SecuritySent
    <2>1. rx.msg \in Messages /\ (Send(rx.msg) \/ Queue(rx.msg) \/ GiveUp)
      BY <1>11, MessageFacts DEF SecuritySent, RmcInv, ThreadTypes
    <2>2. lost' \/ (msg_queue' = Append(msg_queue, rx.msg) /\ msg_queue \in Seq(Messages))
      BY <2>1, SendFacts DEF RmcInv, ThreadTypes
    <2> QED
      BY ZenonT(60), <1>11, <2>1, <2>2, InAppend
         DEF SecuritySent, BleOn, BleOnItsWay, RxSaysSo, RmcInv
  <1>12. CASE BatterySent
    BY <1>12 DEF BatterySent, world, RmcInv, BleOn, BleOnItsWay, LinkKnown
  <1>13. CASE ConnectedSent
    BY <1>13 DEF ConnectedSent, world, RmcInv, BleOn, BleOnItsWay, LinkKnown, AppTypes
  <1>14. CASE \/ Connected \/ SecurityChanged
    BY <1>14 DEF Connected, SecurityChanged, RmcInv, BleOn, BleOnItsWay, RxSends
  <1>15. ASSUME NEW b \in BOOLEAN, Disconnected(b) PROVE BleOn
    BY <1>15 DEF Disconnected, RmcInv, BleOn, BleOnItsWay, RxSends
  <1>16. ASSUME NEW k \in Keys, NEW b \in BOOLEAN, ReportKey(k, b) PROVE BleOn
    BY <1>16, InAppend, MessageFacts DEF ReportKey, app, world, RmcInv, BleOn, BleOnItsWay,
       ThreadTypes
  <1>17. CASE \/ StoreState \/ rmc_sm_act_none \/ StartAdvCheck \/ StartAdv
              \/ EnterPairing \/ DirectAdvCheck \/ StartDirectAdv \/ Reconnecting
              \/ rmc_sm_act_stop_adv \/ rmc_sm_act_connected \/ DisconnectConn
              \/ SetTermFlag \/ DeliverPlainKey \/ DeliverCombKey \/ DeliverVoiceKey
              \/ SendPendingKey \/ BtReady \/ AdvTimeout \/ Pair
    BY <1>17 DEF StoreState, world, rmc_sm_act_none, app, StartAdvCheck, StartAdv,
       EnterPairing, DirectAdvCheck, StartDirectAdv, Reconnecting, rmc_sm_act_stop_adv,
       rmc_sm_act_connected, DisconnectConn, SetTermFlag, DeliverPlainKey, DeliverCombKey,
       DeliverVoiceKey, SendPendingKey, BtReady, threads, AdvTimeout, Pair, RmcInv, BleOn,
       BleOnItsWay
  <1>18. ASSUME NEW b \in BOOLEAN, SecurityChangedNoCcc(b) PROVE BleOn
    BY <1>18 DEF SecurityChangedNoCcc, threads, RmcInv, BleOn, BleOnItsWay
  <1>19. ASSUME NEW t \in Timers, Expire(t) PROVE BleOn
    BY <1>19 DEF Expire, threads, world, RmcInv, BleOn, BleOnItsWay
  <1>20. ASSUME NEW t \in Timers, CheckTimer(t) PROVE BleOn
    BY <1>20 DEF CheckTimer, world, RmcInv, BleOn, BleOnItsWay, threads
  <1>21. CASE UNCHANGED vars
    BY <1>21 DEF vars, app, threads, world, RmcInv, BleOn, BleOnItsWay, threads
  <1> QED
    BY <1>1, <1>2, <1>3, <1>4, <1>5, <1>6, <1>7, <1>8, <1>9, <1>10, <1>11, <1>12, <1>13,
       <1>14, <1>15, <1>16, <1>17, <1>18, <1>19, <1>20, <1>21 DEF Next, MainStep, RxStep,
       Callback

\* A link that is known stays so until disconnected sends its event.
PconnKept == hid_app_cb.pconn => hid_app_cb'.pconn \/ rx'.pc # "idle" \/ main'.pc = "dtm"

LEMMA PconnStep ==
  ASSUME RmcInv, [Next]_vars
  PROVE  PconnKept
  <1>1. CASE \/ ReceiveBle \/ EnterPairing \/ DirectAdvCheck \/ Reconnecting
             \/ rmc_sm_act_stop_adv \/ rmc_sm_act_connected \/ SetTermFlag
    BY <1>1 DEF ReceiveBle, world, EnterPairing, DirectAdvCheck, Reconnecting,
       rmc_sm_act_stop_adv, rmc_sm_act_connected, SetTermFlag, RmcInv, AppTypes, PconnKept
  <1>2. CASE ReceivePairTimer
    BY <1>2 DEF ReceivePairTimer, RmcInv, AppTypes, PconnKept, ClearPairInfo
  <1>3. CASE ReceiveHciTimer
    BY <1>3, GotoFacts DEF ReceiveHciTimer, RmcInv, AppTypes, PconnKept, MainPcs
  <1>4. CASE DisconnectedSent
    BY <1>4 DEF DisconnectedSent, world, RmcInv, AppTypes, PconnKept, Forget
  <1>5. ASSUME NEW b \in BOOLEAN, Disconnected(b) PROVE PconnKept
    BY <1>5 DEF Disconnected, RmcInv, AppTypes, PconnKept, RxSends
  <1>6. CASE \/ ReceiveKey \/ ReceiveLowPower \/ ReceiveSmTimer \/ ReceiveBattery
             \/ SendLowPower \/ StoreState \/ rmc_sm_act_none \/ StartAdvCheck
             \/ StartAdv \/ StartDirectAdv \/ DisconnectConn \/ DeliverPlainKey
             \/ DeliverCombKey \/ DeliverVoiceKey \/ SendPendingKey \/ ConnectedSent
             \/ BatterySent \/ SecuritySent \/ Connected \/ SecurityChanged \/ BtReady
             \/ SendTimer \/ AdvTimeout \/ Pair
    BY <1>6 DEF ReceiveKey, world, ReceiveLowPower, app, ReceiveSmTimer, ReceiveBattery,
       SendLowPower, StoreState, rmc_sm_act_none, StartAdvCheck, StartAdv, StartDirectAdv,
       DisconnectConn, DeliverPlainKey, DeliverCombKey, DeliverVoiceKey, SendPendingKey,
       ConnectedSent, BatterySent, SecuritySent, Connected, SecurityChanged, BtReady,
       threads, SendTimer, AdvTimeout, Pair, RmcInv, AppTypes, PconnKept
  <1>7. ASSUME NEW b \in BOOLEAN, SecurityChangedNoCcc(b) PROVE PconnKept
    BY <1>7 DEF SecurityChangedNoCcc, threads, RmcInv, AppTypes, PconnKept
  <1>8. ASSUME NEW t \in Timers, Expire(t) PROVE PconnKept
    BY <1>8 DEF Expire, threads, world, RmcInv, AppTypes, PconnKept
  <1>9. ASSUME NEW t \in Timers, CheckTimer(t) PROVE PconnKept
    BY <1>9 DEF CheckTimer, world, RmcInv, AppTypes, PconnKept
  <1>10. ASSUME NEW k \in Keys, NEW b \in BOOLEAN, ReportKey(k, b) PROVE PconnKept
    BY <1>10 DEF ReportKey, app, world, RmcInv, AppTypes, PconnKept
  <1>11. CASE UNCHANGED vars
    BY <1>11 DEF vars, app, threads, world, RmcInv, AppTypes, PconnKept
  <1> QED
    BY <1>1, <1>2, <1>3, <1>4, <1>5, <1>6, <1>7, <1>8, <1>9, <1>10, <1>11 DEF Next,
       MainStep, RxStep, Callback

LEMMA WillEndStep ==
  ASSUME RmcInv, [Next]_vars
  PROVE  WillEnd'
  <1> DEFINE Ends == Coming("ADV") \/ Coming("DIRECT_ADV") \/ hid_app_cb.pconn \/ BleComing \/ OnTheWay
  <1> SUFFICES ASSUME main'.pc # "dtm", ~lost', rmc_status' = "ADVERTISING"
               PROVE  Ends'
    BY DEF WillEnd, Alive
  <1>1. main.pc # "dtm" /\ ~lost
    BY MainStepsAt, LossStep DEF MainMoves, LossesStay
  <1>2. (BleOnItsWay => BleComing) /\ (BleOnItsWay' => BleComing') /\ (BleComing => BleOnItsWay)
    BY DEF BleOnItsWay, BleComing, NoBle
  <1> HIDE DEF Ends
  <1>3. CASE StoreState
    <2>1. /\ main.pc = "store" /\ main.s \in States /\ main.ev \in SmEvents
          /\ rmc_status' = NextState(main.s, main.ev) /\ Goto(Action(main.s, main.ev))
      BY <1>3 DEF StoreState, At, RmcInv, ThreadTypes, MainRec
    <2>2. Action(main.s, main.ev) \in Actions
      BY <2>1, TableAction
    <2>3. main'.pc = Action(main.s, main.ev)
      BY <2>1, <2>2, GotoFacts DEF RmcInv, Actions, MainPcs
    <2>4. CASE Action(main.s, main.ev) \in {"START_ADV", "START_DIRECT_ADV"}
      BY <2>3, <2>4 DEF OnTheWay, Ends
    <2>5. CASE main.s = "ADVERTISING" /\ main.ev = "INPUT_KEY"
      <3>1. Ends /\ ~OnTheWay
        BY <1>1, <2>1, <2>5 DEF RmcInv, StatusRead, WillEnd, Alive, Ends, OnTheWay, BleEvents
      <3>2. UNCHANGED <<timers, wq, msg_queue, hid_app_cb, rx>>
        BY <1>3 DEF StoreState
      <3> QED
        BY <3>1, <3>2, ComingDef DEF Ends, BleComing, Timers
    <2> QED
      BY <2>1, <2>4, <2>5, TableAction
  <1>4. CASE BtReady
    <2>1. timers' = Start(timers, "DIRECT_ADV")
      BY <1>4 DEF BtReady, ReconnTimers
    <2>2. Pending(timers', "DIRECT_ADV")
      BY <2>1, StartFacts DEF RmcInv, AppTypes, TimersRec, Timers
    <2> QED
      BY <2>2, ComingDef DEF Ends, Timers
  <1>5. ASSUME NEW b \in BOOLEAN, SecurityChangedNoCcc(b) PROVE Ends'
    <2>1. hid_app_cb.pconn /\ hid_app_cb'.pconn
      BY <1>5 DEF SecurityChangedNoCcc, RmcInv, LinkKnown, AppTypes
    <2> QED
      BY <2>1 DEF Ends
  <1>6. CASE rmc_status' = rmc_status /\ ~StoreState
    <2>1. Ends
      BY <1>1, <1>6 DEF RmcInv, WillEnd, Alive, Ends
    <2>2. CASE Coming("ADV") \/ Coming("DIRECT_ADV")
      <3>1. ASSUME NEW u \in {"ADV", "DIRECT_ADV"}, Coming(u) PROVE Ends'
        <4>1. ComingOn(u)
          BY <3>1, ComingKept
        <4> QED
          BY <4>1 DEF ComingOn, Ends, OnTheWay
      <3> QED
        BY <2>2, <3>1
    <2>3. CASE hid_app_cb.pconn
      BY <1>2, <2>3, PconnStep DEF PconnKept, BleComing, Ends
    <2>4. CASE BleComing
      <3>1. BleOn
        BY <1>2, <2>4, BleKept
      <3> QED
        BY <1>2, <3>1 DEF BleOn, Ends, OnTheWay
    <2>5. CASE OnTheWay
      <3>1. CASE main' = main
        BY <2>5, <3>1 DEF OnTheWay, Ends
      <3>2. CASE StartAdvCheck
        <4>1. CASE hid_app_cb.pconn
          BY <2>3, <4>1
        <4>2. CASE ~hid_app_cb.pconn
          BY <3>2, <4>2, GotoFacts DEF StartAdvCheck, RmcInv, MainPcs, Ends, OnTheWay
        <4> QED
          BY <4>1, <4>2
      <3>3. CASE StartAdv
        BY <3>3, GotoFacts DEF StartAdv, RmcInv, MainPcs, Ends, OnTheWay
      <3>4. CASE EnterPairing
        <4>1. timers' = Start(Stop(timers, "DIRECT_ADV"), "ADV")
          BY <3>4 DEF EnterPairing, PairingTimers
        <4>2. Pending(timers', "ADV")
          BY <4>1, StartFacts, StopFacts DEF RmcInv, AppTypes, TimersRec, Timers
        <4> QED
          BY <4>2, ComingDef DEF Ends, Timers
      <3>5. CASE DirectAdvCheck
        <4>1. CASE Goto("start_direct_adv")
          BY <4>1, GotoFacts DEF RmcInv, MainPcs, Ends, OnTheWay
        <4>2. CASE Execute(IF "PAIR_COMB" \in input.comb THEN "CLEAR_PAIR_KEY" ELSE "RECONN_FAIL",
                           main.key)
          <5>1. main'.pc = "store" /\ main'.ev \in {"CLEAR_PAIR_KEY", "RECONN_FAIL"}
            BY <4>2 DEF Execute
          <5> QED
            BY <5>1 DEF Ends, OnTheWay
        <4> QED
          BY <3>5, <4>1, <4>2 DEF DirectAdvCheck
      <3>6. CASE StartDirectAdv
        BY <3>6, GotoFacts DEF StartDirectAdv, RmcInv, MainPcs, Ends, OnTheWay
      <3>7. CASE Reconnecting
        <4>1. timers' = Start(timers, "DIRECT_ADV")
          BY <3>7 DEF Reconnecting, ReconnTimers
        <4>2. Pending(timers', "DIRECT_ADV")
          BY <4>1, StartFacts DEF RmcInv, AppTypes, TimersRec, Timers
        <4> QED
          BY <4>2, ComingDef DEF Ends, Timers
      <3> QED
        BY <1>6, <2>5, <3>1, <3>2, <3>3, <3>4, <3>5, <3>6, <3>7, MainStepsAt
        DEF MainMoves, OnTheWay
    <2> QED
      BY <2>1, <2>2, <2>3, <2>4, <2>5 DEF Ends
  <1> QED
    BY <1>3, <1>4, <1>5, <1>6, StatusStep DEF StatusMoves

LEMMA EventsAgreeStep ==
  ASSUME RmcInv, [Next]_vars
  PROVE  EventsAgree'
  <1> SUFFICES ASSUME Alive', ~lost', rx'.pc \in {"idle", "battery"} PROVE EventsAgree'
    BY DEF EventsAgree
  <1>1. CASE ReceiveKey
    <2>1. /\ Head(msg_queue).type # "BLE" /\ msg_queue # <<>> /\ msg_queue' = Tail(msg_queue)
          /\ main.pc = "loop" /\ rx' = rx /\ rmc_status' = rmc_status /\ ~lost
          /\ hid_app_cb'.pconn = hid_app_cb.pconn /\ (link.state = "closing" => link'.state = "closing")
      BY <1>1, ReceiveFacts, LossStep DEF ReceiveKey, world, RmcInv, AppTypes, WorldTypes, LossesStay
    <2>2. ~Storing'
      BY <1>1, ReceiveFacts, ExecuteFacts DEF ReceiveKey, Storing, RmcInv, AppTypes, SmEvents, BleEvents
    <2> QED
      BY <2>1, <2>2, NewestTail, InTail DEF RmcInv, AppTypes, ThreadTypes, EventsAgree, Alive, Storing
  <1>2. CASE ReceiveLowPower
    <2>1. /\ Head(msg_queue).type # "BLE" /\ msg_queue # <<>> /\ msg_queue' = Tail(msg_queue)
          /\ main.pc = "loop" /\ rx' = rx /\ rmc_status' = rmc_status /\ ~lost
          /\ hid_app_cb'.pconn = hid_app_cb.pconn /\ (link.state = "closing" => link'.state = "closing")
      BY <1>2, ReceiveFacts, LossStep DEF ReceiveLowPower, app, world, RmcInv, AppTypes, WorldTypes, LossesStay
    <2>2. ~Storing'
      BY <1>2, ExecuteFacts, MessageFacts DEF ReceiveLowPower, Storing, RmcInv, AppTypes, SmEvents, BleEvents
    <2> QED
      BY <2>1, <2>2, NewestTail, InTail DEF RmcInv, AppTypes, ThreadTypes, EventsAgree, Alive, Storing
  <1>3. CASE ReceiveSmTimer
    <2>1. /\ Head(msg_queue).type # "BLE" /\ msg_queue # <<>> /\ msg_queue' = Tail(msg_queue)
          /\ main.pc = "loop" /\ rx' = rx /\ rmc_status' = rmc_status /\ ~lost
          /\ hid_app_cb'.pconn = hid_app_cb.pconn /\ (link.state = "closing" => link'.state = "closing")
      BY <1>3, ReceiveFacts, LossStep DEF ReceiveSmTimer, app, world, RmcInv, AppTypes, WorldTypes, LossesStay
    <2>2. ~Storing'
      BY <1>3, ExecuteFacts, MessageFacts DEF ReceiveSmTimer, Storing, RmcInv, AppTypes, SmEvents, BleEvents
    <2> QED
      BY <2>1, <2>2, NewestTail, InTail DEF RmcInv, AppTypes, ThreadTypes, EventsAgree, Alive, Storing
  <1>4. CASE ReceivePairTimer
    <2>1. /\ Head(msg_queue).type # "BLE" /\ msg_queue # <<>> /\ msg_queue' = Tail(msg_queue)
          /\ main.pc = "loop" /\ rx' = rx /\ rmc_status' = rmc_status /\ ~lost
          /\ hid_app_cb'.pconn = hid_app_cb.pconn /\ (link.state = "closing" => link'.state = "closing")
      BY <1>4, ReceiveFacts, LossStep DEF ReceivePairTimer, ClearPairInfo, Closing, RmcInv, AppTypes, WorldTypes, LossesStay
    <2>2. ~Storing'
      BY <1>4, ExecuteFacts, MessageFacts DEF ReceivePairTimer, Storing, RmcInv, AppTypes, SmEvents, BleEvents
    <2> QED
      BY <2>1, <2>2, NewestTail, InTail DEF RmcInv, AppTypes, ThreadTypes, EventsAgree, Alive, Storing
  <1>5. CASE ReceiveBattery
    <2>1. /\ Head(msg_queue).type # "BLE" /\ msg_queue # <<>> /\ msg_queue' = Tail(msg_queue)
          /\ main.pc = "loop" /\ rx' = rx /\ rmc_status' = rmc_status /\ ~lost
          /\ hid_app_cb'.pconn = hid_app_cb.pconn /\ (link.state = "closing" => link'.state = "closing")
      BY <1>5, ReceiveFacts, LossStep DEF ReceiveBattery, world, RmcInv, AppTypes, WorldTypes, LossesStay
    <2>2. ~Storing'
      BY <1>5, ReceiveFacts, GotoFacts DEF ReceiveBattery, Storing, RmcInv, MainPcs
    <2> QED
      BY <2>1, <2>2, NewestTail, InTail DEF RmcInv, AppTypes, ThreadTypes, EventsAgree, Alive, Storing
  <1>6. CASE ReceiveBle
    <2>1. /\ Head(msg_queue).type = "BLE" /\ msg_queue # <<>> /\ msg_queue' = Tail(msg_queue)
          /\ Head(msg_queue).v \in BleEvents /\ Execute(Head(msg_queue).v, NoKey)
          /\ main.pc = "loop" /\ rx' = rx /\ ~lost /\ hid_app_cb'.pconn = hid_app_cb.pconn
      BY <1>6, ReceiveFacts, LossStep DEF ReceiveBle, RmcInv, AppTypes, LossesStay
    <2>2. main'.pc = "store" /\ main'.ev = Head(msg_queue).v
      BY <2>1 DEF Execute
    <2> QED
      BY <2>1, <2>2, NewestTail DEF RmcInv, AppTypes, ThreadTypes, EventsAgree, Alive, Storing
  <1>7. CASE ReceiveHciTimer
    BY <1>7, GotoFacts DEF ReceiveHciTimer, RmcInv, MainPcs, RmcInv, EventsAgree, Alive
  <1>8. CASE SendLowPower
    <2>1. /\ LowPower \in Messages /\ LowPower.type # "BLE" /\ (Send(LowPower) \/ Queue(LowPower) \/ GiveUp)
          /\ UNCHANGED <<rmc_status, hid_app_cb, link>> /\ rx.pc \in {"idle", "battery"}
          /\ main.pc = "low_power" /\ ~Storing'
      BY <1>8, MessageFacts, GotoFacts DEF SendLowPower, At, world, RmcInv, MainPcs, Storing
    <2>2. ~lost /\ msg_queue' = Append(msg_queue, LowPower)
      BY <2>1, SendFacts, LossStep DEF RmcInv, LossesStay
    <2> QED
      BY <2>1, <2>2, NewestAppend, InAppend
      DEF RmcInv, AppTypes, ThreadTypes, EventsAgree, Alive, Storing
  <1>9. CASE StoreState
    <2>1. /\ main.pc = "store" /\ main.s \in States /\ main.ev \in SmEvents
          /\ rmc_status' = NextState(main.s, main.ev) /\ Goto(Action(main.s, main.ev))
          /\ UNCHANGED <<hid_app_cb, msg_queue, rx, link, lost>>
      BY <1>9 DEF StoreState, At, RmcInv, ThreadTypes, MainRec, world
    <2>2. Action(main.s, main.ev) \in Actions
      BY <2>1, TableAction
    <2>3. main'.pc = Action(main.s, main.ev) /\ ~Storing'
      BY <2>1, <2>2, GotoFacts DEF RmcInv, Actions, MainPcs, Storing
    <2>4. NewestIs(msg_queue, hid_app_cb.pconn)
      BY <2>1 DEF RmcInv, EventsAgree, Alive
    <2>5. ASSUME NoBle(msg_queue)
          PROVE  /\ rmc_status' = "CONNECTED" => hid_app_cb.pconn
                 /\ hid_app_cb.pconn =>
                       rmc_status' = "CONNECTED" \/ link.state = "closing" \/ main'.pc = "DISCONNECT"
      <3>1. CASE main.ev \in BleEvents
        <4>1. main.ev \in Up <=> hid_app_cb.pconn
          BY <2>1, <2>5, <3>1 DEF RmcInv, EventsAgree, Alive, Storing
        <4> QED
          BY <2>1, <3>1, <4>1, TableNext
      <3>2. CASE main.ev \notin BleEvents
        <4>1. /\ rmc_status = "CONNECTED" => hid_app_cb.pconn
              /\ hid_app_cb.pconn => rmc_status = "CONNECTED" \/ link.state = "closing"
          BY <2>1, <2>5, <3>2 DEF RmcInv, EventsAgree, Alive, Storing
        <4>2. /\ main.s = "CONNECTED" <=> rmc_status = "CONNECTED"
              /\ main.ev = "RECONN_FAIL" => main.s # "CONNECTED"
              /\ main.ev # "POWER_UP" /\ main.ev \notin Up
          BY <2>1, <3>2 DEF RmcInv, StatusRead, Up, BleEvents
        <4>3. rmc_status' = "CONNECTED" => main.s = "CONNECTED"
          BY <2>1, <4>2, TableNext
        <4>4. main.s = "CONNECTED" => rmc_status' = "CONNECTED" \/ main'.pc = "DISCONNECT"
          BY <2>1, <2>3, <3>2, <4>2, TableNext, TableAction
        <4> QED
          BY <4>1, <4>2, <4>3, <4>4
      <3> QED
        BY <3>1, <3>2
    <2> QED
      BY <2>1, <2>3, <2>4, <2>5 DEF EventsAgree
  <1>10. CASE DisconnectConn
    <2>1. /\ main.pc = "DISCONNECT" /\ UNCHANGED <<rmc_status, hid_app_cb, msg_queue, rx, lost>>
          /\ hid_app_cb.pconn => link'.state = "closing"
      BY <1>10 DEF DisconnectConn, At, app, Closing, RmcInv, LinkKnown, WorldTypes
    <2>2. ~Storing'
      BY <1>10, DoneFacts, GotoFacts DEF DisconnectConn, RmcInv, MainPcs, Storing
    <2> QED
      BY <2>1, <2>2 DEF RmcInv, EventsAgree, Alive, Storing
  <1>11. CASE DirectAdvCheck
    <2>1. /\ main.pc = "START_DIRECT_ADV" /\ UNCHANGED <<rmc_status, msg_queue, rx, lost, link>>
          /\ hid_app_cb'.pconn = hid_app_cb.pconn
      BY <1>11 DEF DirectAdvCheck, At, RmcInv, AppTypes, world
    <2>2. ~Storing'
      <3>1. CASE Goto("start_direct_adv")
        BY <3>1, GotoFacts DEF RmcInv, MainPcs, Storing
      <3>2. CASE Execute(IF "PAIR_COMB" \in input.comb THEN "CLEAR_PAIR_KEY" ELSE "RECONN_FAIL",
                         main.key)
        BY <3>2 DEF Execute, Storing, BleEvents
      <3> QED
        BY <1>11, <3>1, <3>2 DEF DirectAdvCheck
    <2> QED
      BY <2>1, <2>2 DEF RmcInv, EventsAgree, Alive, Storing
  <1>12. CASE rmc_sm_act_none
    <2>1. /\ main.pc \notin {"store", "DISCONNECT", "dtm"} /\ UNCHANGED <<rmc_status, msg_queue, rx, link>>
          /\ hid_app_cb'.pconn = hid_app_cb.pconn
      BY <1>12 DEF rmc_sm_act_none, At, app, world, RmcInv, AppTypes
    <2>2. ~Storing' /\ ~lost
      BY <1>12, DoneFacts, GotoFacts, LossStep DEF rmc_sm_act_none, RmcInv, MainPcs, Storing, LossesStay
    <2> QED
      BY <2>1, <2>2 DEF RmcInv, EventsAgree, Alive, Storing
  <1>13. CASE StartAdvCheck
    <2>1. /\ main.pc \notin {"store", "DISCONNECT", "dtm"} /\ UNCHANGED <<rmc_status, msg_queue, rx, link>>
          /\ hid_app_cb'.pconn = hid_app_cb.pconn
      BY <1>13 DEF StartAdvCheck, At, app, world, RmcInv, AppTypes
    <2>2. ~Storing' /\ ~lost
      BY <1>13, DoneFacts, GotoFacts, LossStep DEF StartAdvCheck, RmcInv, MainPcs, Storing, LossesStay
    <2> QED
      BY <2>1, <2>2 DEF RmcInv, EventsAgree, Alive, Storing
  <1>14. CASE StartAdv
    <2>1. /\ main.pc \notin {"store", "DISCONNECT", "dtm"} /\ UNCHANGED <<rmc_status, msg_queue, rx, link>>
          /\ hid_app_cb'.pconn = hid_app_cb.pconn
      BY <1>14 DEF StartAdv, At, app, world, RmcInv, AppTypes
    <2>2. ~Storing' /\ ~lost
      BY <1>14, DoneFacts, GotoFacts, LossStep DEF StartAdv, RmcInv, MainPcs, Storing, LossesStay
    <2> QED
      BY <2>1, <2>2 DEF RmcInv, EventsAgree, Alive, Storing
  <1>15. CASE EnterPairing
    <2>1. /\ main.pc \notin {"store", "DISCONNECT", "dtm"} /\ UNCHANGED <<rmc_status, msg_queue, rx, link>>
          /\ hid_app_cb'.pconn = hid_app_cb.pconn
      BY <1>15 DEF EnterPairing, At, app, world, RmcInv, AppTypes
    <2>2. ~Storing' /\ ~lost
      BY <1>15, DoneFacts, GotoFacts, LossStep DEF EnterPairing, RmcInv, MainPcs, Storing, LossesStay
    <2> QED
      BY <2>1, <2>2 DEF RmcInv, EventsAgree, Alive, Storing
  <1>16. CASE StartDirectAdv
    <2>1. /\ main.pc \notin {"store", "DISCONNECT", "dtm"} /\ UNCHANGED <<rmc_status, msg_queue, rx, link>>
          /\ hid_app_cb'.pconn = hid_app_cb.pconn
      BY <1>16 DEF StartDirectAdv, At, app, world, RmcInv, AppTypes
    <2>2. ~Storing' /\ ~lost
      BY <1>16, DoneFacts, GotoFacts, LossStep DEF StartDirectAdv, RmcInv, MainPcs, Storing, LossesStay
    <2> QED
      BY <2>1, <2>2 DEF RmcInv, EventsAgree, Alive, Storing
  <1>17. CASE Reconnecting
    <2>1. /\ main.pc \notin {"store", "DISCONNECT", "dtm"} /\ UNCHANGED <<rmc_status, msg_queue, rx, link>>
          /\ hid_app_cb'.pconn = hid_app_cb.pconn
      BY <1>17 DEF Reconnecting, At, app, world, RmcInv, AppTypes
    <2>2. ~Storing' /\ ~lost
      BY <1>17, DoneFacts, GotoFacts, LossStep DEF Reconnecting, RmcInv, MainPcs, Storing, LossesStay
    <2> QED
      BY <2>1, <2>2 DEF RmcInv, EventsAgree, Alive, Storing
  <1>18. CASE rmc_sm_act_stop_adv
    <2>1. /\ main.pc \notin {"store", "DISCONNECT", "dtm"} /\ UNCHANGED <<rmc_status, msg_queue, rx, link>>
          /\ hid_app_cb'.pconn = hid_app_cb.pconn
      BY <1>18 DEF rmc_sm_act_stop_adv, At, app, world, RmcInv, AppTypes
    <2>2. ~Storing' /\ ~lost
      BY <1>18, DoneFacts, GotoFacts, LossStep DEF rmc_sm_act_stop_adv, RmcInv, MainPcs, Storing, LossesStay
    <2> QED
      BY <2>1, <2>2 DEF RmcInv, EventsAgree, Alive, Storing
  <1>19. CASE rmc_sm_act_connected
    <2>1. /\ main.pc \notin {"store", "DISCONNECT", "dtm"} /\ UNCHANGED <<rmc_status, msg_queue, rx, link>>
          /\ hid_app_cb'.pconn = hid_app_cb.pconn
      BY <1>19 DEF rmc_sm_act_connected, At, app, world, RmcInv, AppTypes
    <2>2. ~Storing' /\ ~lost
      BY <1>19, DoneFacts, GotoFacts, LossStep DEF rmc_sm_act_connected, RmcInv, MainPcs, Storing, LossesStay
    <2> QED
      BY <2>1, <2>2 DEF RmcInv, EventsAgree, Alive, Storing
  <1>20. CASE SetTermFlag
    <2>1. /\ main.pc \notin {"store", "DISCONNECT", "dtm"} /\ UNCHANGED <<rmc_status, msg_queue, rx, link>>
          /\ hid_app_cb'.pconn = hid_app_cb.pconn
      BY <1>20 DEF SetTermFlag, At, app, world, RmcInv, AppTypes
    <2>2. ~Storing' /\ ~lost
      BY <1>20, DoneFacts, GotoFacts, LossStep DEF SetTermFlag, RmcInv, MainPcs, Storing, LossesStay
    <2> QED
      BY <2>1, <2>2 DEF RmcInv, EventsAgree, Alive, Storing
  <1>21. CASE SendPendingKey
    <2>1. /\ main.pc \notin {"store", "DISCONNECT", "dtm"} /\ UNCHANGED <<rmc_status, msg_queue, rx, link>>
          /\ hid_app_cb'.pconn = hid_app_cb.pconn
      BY <1>21 DEF SendPendingKey, At, app, world, RmcInv, AppTypes
    <2>2. ~Storing' /\ ~lost
      BY <1>21, DoneFacts, GotoFacts, LossStep DEF SendPendingKey, RmcInv, MainPcs, Storing, LossesStay
    <2> QED
      BY <2>1, <2>2 DEF RmcInv, EventsAgree, Alive, Storing
  <1>22. CASE \/ DeliverPlainKey \/ DeliverCombKey \/ DeliverVoiceKey
    BY <1>22, LoopFacts DEF DeliverPlainKey, world, DeliverCombKey, DeliverVoiceKey, app,
       RmcInv, EventsAgree, Alive, Storing, At
  <1>23. CASE ConnectedSent
    <2>1. /\ rx.msg \in Messages /\ Send(rx.msg) /\ rx.msg.type = "BLE"
          /\ (rx.msg.v \in Up <=> hid_app_cb'.pconn) /\ hid_app_cb'.pconn \in BOOLEAN
      BY <1>23 DEF ConnectedSent, RmcInv, AppTypes, ThreadTypes, RxSaysSo, LinkKnown
    <2>2. msg_queue' = Append(msg_queue, rx.msg)
      BY <2>1, SendFacts DEF RmcInv
    <2> QED
      BY <2>1, <2>2, NewestAppend, InAppend DEF RmcInv, ThreadTypes, EventsAgree
  <1>24. CASE DisconnectedSent
    <2>1. /\ rx.msg \in Messages /\ Send(rx.msg) /\ rx.msg.type = "BLE"
          /\ (rx.msg.v \in Up <=> hid_app_cb'.pconn) /\ hid_app_cb'.pconn \in BOOLEAN
      BY <1>24 DEF DisconnectedSent, RmcInv, AppTypes, ThreadTypes, RxSaysSo, LinkKnown, Forget
    <2>2. msg_queue' = Append(msg_queue, rx.msg)
      BY <2>1, SendFacts DEF RmcInv
    <2> QED
      BY <2>1, <2>2, NewestAppend, InAppend DEF RmcInv, ThreadTypes, EventsAgree
  <1>25. CASE SecuritySent
    <2>1. /\ rx.msg \in Messages /\ Send(rx.msg) /\ rx.msg.type = "BLE"
          /\ (rx.msg.v \in Up <=> hid_app_cb'.pconn) /\ hid_app_cb'.pconn \in BOOLEAN
      BY <1>25 DEF SecuritySent, RmcInv, AppTypes, ThreadTypes, RxSaysSo, LinkKnown, app
    <2>2. msg_queue' = Append(msg_queue, rx.msg)
      BY <2>1, SendFacts DEF RmcInv
    <2> QED
      BY <2>1, <2>2, NewestAppend, InAppend DEF RmcInv, ThreadTypes, EventsAgree
  <1>26. CASE BatterySent
    <2>1. /\ rx.msg \in Messages /\ rx.msg.type # "BLE" /\ (Send(rx.msg) \/ Queue(rx.msg) \/ GiveUp)
          /\ UNCHANGED <<rmc_status, hid_app_cb, link>> /\ rx.pc \in {"idle", "battery"}
          /\ main' = main
      BY <1>26, MessageFacts DEF BatterySent, RxSaysSo, RmcInv, world
    <2>2. ~lost /\ msg_queue' = Append(msg_queue, rx.msg)
      BY <2>1, SendFacts, LossStep DEF RmcInv, LossesStay
    <2> QED
      BY <2>1, <2>2, NewestAppend, InAppend
      DEF RmcInv, AppTypes, ThreadTypes, EventsAgree, Alive, Storing
  <1>27. CASE SendTimer
    <2>1. /\ Timer(wq) \in Messages /\ Timer(wq).type # "BLE" /\ (Send(Timer(wq)) \/ Queue(Timer(wq)) \/ GiveUp)
          /\ UNCHANGED <<rmc_status, hid_app_cb, link>> /\ rx.pc \in {"idle", "battery"}
          /\ main' = main /\ rx' = rx
      BY <1>27, MessageFacts DEF SendTimer, app, world, RmcInv, ThreadTypes
    <2>2. ~lost /\ msg_queue' = Append(msg_queue, Timer(wq))
      BY <2>1, SendFacts, LossStep DEF RmcInv, LossesStay
    <2> QED
      BY <2>1, <2>2, NewestAppend, InAppend
      DEF RmcInv, AppTypes, ThreadTypes, EventsAgree, Alive, Storing
  <1>28. CASE \/ Connected \/ SecurityChanged
    BY <1>28 DEF Connected, SecurityChanged, RmcInv, EventsAgree, RxSends
  <1>29. ASSUME NEW b \in BOOLEAN, Disconnected(b) PROVE EventsAgree'
    BY <1>29 DEF Disconnected, RmcInv, EventsAgree, RxSends
  <1>30. ASSUME NEW b \in BOOLEAN, SecurityChangedNoCcc(b) PROVE EventsAgree'
    <2>1. /\ UNCHANGED <<msg_queue, rx, main>> /\ link'.state = "closing" /\ ~lost
          /\ hid_app_cb'.pconn = hid_app_cb.pconn
      BY <1>30, LossStep DEF SecurityChangedNoCcc, threads, RmcInv, AppTypes, LossesStay
    <2>2. rmc_status' = "CONNECTED" <=> rmc_status = "CONNECTED"
      BY <1>30, TableNext DEF SecurityChangedNoCcc, RmcInv, AppTypes, SmEvents
    <2> QED
      BY <2>1, <2>2 DEF RmcInv, EventsAgree, Alive, Storing
  <1>31. CASE BtReady
    <2>1. UNCHANGED <<msg_queue, rx, main>> /\ hid_app_cb'.pconn = FALSE
      <3>1. hid_app_cb.pconn = FALSE
        BY <1>31 DEF BtReady, RmcInv, NotReadyYet, ZeroCb
      <3>2. hid_app_cb'.pconn = hid_app_cb.pconn
        BY <1>31 DEF BtReady, RmcInv, AppTypes
      <3> QED
        BY <1>31, <3>1, <3>2 DEF BtReady, threads
    <2>2. rmc_status' # "CONNECTED" /\ NoBle(msg_queue) /\ ~Storing
      BY <1>31, TableNext DEF BtReady, RmcInv, NotReadyYet, AppTypes, SmEvents, NoBle, Early, Storing, BleEvents
    <2> QED
      BY <2>1, <2>2 DEF EventsAgree, NewestIs, NoBle, Storing
  <1>32. ASSUME NEW k \in Keys, NEW b \in BOOLEAN, ReportKey(k, b) PROVE EventsAgree'
    <2>1. /\ UNCHANGED <<rmc_status, hid_app_cb, link, rx, main, lost>>
          /\ \/ msg_queue' = msg_queue
             \/ \E m \in Messages : m.type # "BLE" /\ msg_queue' = Append(msg_queue, m)
      BY <1>32, MessageFacts DEF ReportKey, app, world
    <2>2. CASE msg_queue' = msg_queue
      BY <2>1, <2>2 DEF RmcInv, EventsAgree, Alive, Storing
    <2>3. ASSUME NEW m \in Messages, m.type # "BLE", msg_queue' = Append(msg_queue, m)
          PROVE  EventsAgree'
      BY <2>1, <2>3, NewestAppend, InAppend
      DEF RmcInv, AppTypes, ThreadTypes, EventsAgree, Alive, Storing
    <2> QED
      BY <2>1, <2>2, <2>3
  <1>33. CASE \/ AdvTimeout \/ Pair
    BY <1>33 DEF AdvTimeout, app, threads, Pair, RmcInv, EventsAgree, Alive, Storing
  <1>34. ASSUME NEW t \in Timers, Expire(t) PROVE EventsAgree'
    BY <1>34 DEF Expire, threads, world, RmcInv, EventsAgree, Alive, Storing
  <1>35. ASSUME NEW t \in Timers, CheckTimer(t) PROVE EventsAgree'
    BY <1>35 DEF CheckTimer, world, RmcInv, EventsAgree, Alive, Storing
  <1>36. CASE UNCHANGED vars
    BY <1>36 DEF vars, app, threads, world, RmcInv, EventsAgree, Alive, Storing
  <1> QED
    BY <1>1, <1>2, <1>3, <1>4, <1>5, <1>6, <1>7, <1>8, <1>9, <1>10, <1>11, <1>12, <1>13,
       <1>14, <1>15, <1>16, <1>17, <1>18, <1>19, <1>20, <1>21, <1>22, <1>23, <1>24, <1>25,
       <1>26, <1>27, <1>28, <1>29, <1>30, <1>31, <1>32, <1>33, <1>34, <1>35, <1>36 DEF
       Next, MainStep, RxStep, Callback

-----------------------------------------------------------------------------
LEMMA RmcInvInit == Init => RmcInv
  <1> SUFFICES ASSUME Init PROVE RmcInv
    OBVIOUS
  <1>1. msg_queue \in Seq(Messages) /\ \A i \in DOMAIN msg_queue : msg_queue[i] = LowPower
    <2>1. CASE msg_queue = <<>>
      BY <2>1
    <2>2. CASE msg_queue = <<LowPower>>
      BY <2>2, MessageFacts
    <2> QED
      BY <2>1, <2>2 DEF Init
  <1>2. AppTypes
    <2>1. 0 \in 0 .. MAX_RECONN_TIMES
      BY BoundsAssumption
    <2> QED
      BY <2>1 DEF Init, AppTypes, ZeroCb, States, Timers
  <1>3. ThreadTypes
    BY <1>1, MessageFacts, LoopFacts DEF Init, ThreadTypes, RxIdle, RxPcs
  <1>4. WorldTypes
    BY RemoteAssumption DEF Init, WorldTypes, LinkDown
  <1>5. QueueBounded
    <2>1. Async(LowPower) = FALSE
      BY MessageFacts DEF Async
    <2>2. Cardinality({i \in DOMAIN msg_queue : Async(msg_queue[i]) = TRUE}) = 0
      <3>1. {i \in DOMAIN msg_queue : Async(msg_queue[i]) = TRUE} = {}
        BY <1>1, <2>1
      <3> QED
        BY <3>1, FS_EmptySet
    <2>3. Cardinality({i \in DOMAIN msg_queue : Async(msg_queue[i]) = FALSE}) \in {0, 1}
      <3>1. CASE msg_queue = <<>>
        <4>1. {i \in DOMAIN msg_queue : Async(msg_queue[i]) = FALSE} = {}
          BY <3>1
        <4> QED
          BY <4>1, FS_EmptySet
      <3>2. CASE msg_queue = <<LowPower>>
        <4>1. {i \in DOMAIN msg_queue : Async(msg_queue[i]) = FALSE} = {1}
          BY <2>1, <3>2
        <4> QED
          BY <4>1, FS_Singleton
      <3> QED
        BY <3>1, <3>2 DEF Init
    <2> QED
      BY <2>2, <2>3, BoundsAssumption DEF QueueBounded, Queued
  <1>6. NotReadyYet
    BY <1>1, MessageFacts DEF Init, NotReadyYet, Early, Loop
  <1>7. Halted /\ AttemptsLeft /\ StatusRead
    BY DEF Init, Halted, AttemptsLeft, StatusRead, Loop
  <1>8. LinkKnown /\ RxSaysSo
    BY DEF Init, LinkKnown, RxSaysSo, ZeroCb, LinkDown, RxIdle
  <1>9. EventsAgree
    BY <1>1, MessageFacts DEF Init, EventsAgree, NewestIs, NoBle, Storing, ZeroCb, Loop
  <1>10. WillEnd /\ PairingIsTimed
    BY DEF Init, WillEnd, PairingIsTimed, ZeroCb
  <1> QED
    BY <1>2, <1>3, <1>4, <1>5, <1>6, <1>7, <1>8, <1>9, <1>10 DEF RmcInv

LEMMA RmcInvariant == Safe => []RmcInv
  <1>1. ASSUME RmcInv, [Next]_vars PROVE RmcInv'
    BY <1>1, AppTypesStep, ThreadTypesStep, WorldTypesStep, QueueBoundedStep, NotReadyYetStep,
       HaltedStep, AttemptsLeftStep, StatusReadStep, LinkKnownStep, RxSaysSoStep,
       EventsAgreeStep, WillEndStep, PairingIsTimedStep
    DEF RmcInv
  <1> QED
    BY <1>1, RmcInvInit, PTL DEF Safe

\* The types of the state, the bounds of the queue, and no more attempts to
\* reconnect than MAX_RECONN_TIMES, for any number of buffers and attempts.
THEOREM RmcTypes == Safe => []TypeOK
  <1>1. RmcInv => TypeOK
    BY DEF RmcInv, AppTypes, ThreadTypes, WorldTypes, QueueBounded, TypeOK
  <1> QED
    BY <1>1, RmcInvariant, PTL

\* rmc_security_ready: keys go to a host only over a link that is encrypted now,
\* although the flag is cleared after the event of the disconnection was sent.
THEOREM RmcReportsEncrypted == Safe => []ReportsAreEncrypted
  <1>1. RmcInv => ReportsAreEncrypted
    BY DEF RmcInv, LinkKnown, ReportsAreEncrypted
  <1> QED
    BY <1>1, RmcInvariant, PTL

\* rmc_sm_execute in two threads: once the events of the link are handled, the
\* status is CONNECTED exactly if there is a link that is not being closed.
THEOREM RmcLinkAgrees == Safe => []LinkAgrees
  <1>1. RmcInv => LinkAgrees
    BY DEF RmcInv, EventsAgree, LinkAgrees, BleComing, NoBle, Storing, Alive
  <1> QED
    BY <1>1, RmcInvariant, PTL

\* The remote cannot be stuck in ADVERTISING, where keys do nothing: a timer, a
\* link or an event of one is there to end it, unless a request failed.
THEOREM RmcAdvertisingTimed == Safe => []AdvertisingIsTimed
  <1>1. RmcInv => AdvertisingIsTimed
    BY DEF RmcInv, WillEnd, AdvertisingIsTimed, OnTheWay, Alive
  <1> QED
    BY <1>1, RmcInvariant, PTL

\* rmc_sm_act_start_adv: the pairing indication never outlives the timer that
\* ends pairing mode.
THEOREM RmcPairingTimed == Safe => []PairingIsTimed
  <1>1. RmcInv => PairingIsTimed
    BY DEF RmcInv
  <1> QED
    BY <1>1, RmcInvariant, PTL
=============================================================================
