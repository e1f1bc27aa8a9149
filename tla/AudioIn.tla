------------------------------ MODULE AudioIn -------------------------------
(***************************************************************************)
(* Voice capture: the PCM buffers of ext/lib/actions/hal/audioin_hal.c and *)
(* the audio part of the remote control                                    *)
(* (samples/voice_rcu/src/peripheral_rmc/system_app_audio.c).              *)
(*                                                                         *)
(* The voice key starts and stops the recording in its own interrupt.  The *)
(* interrupt of the PCM hardware moves buffers along: at half full (HF) a  *)
(* free buffer becomes the next one, at full (FU) the completed one is     *)
(* sent to the main loop.  The main loop encodes it, reports it to the     *)
(* host and frees it, and tells the host where the voice starts and ends.  *)
(* An interrupt can come between any two steps of the main loop.           *)
(***************************************************************************)
EXTENDS Integers, Sequences, FiniteSets, SequencesExt

CONSTANTS
    Bufs,      \* the buffers of pcm_buffer_pool (5 in the code)
    NoBuf,     \* NULL
    AsyncBufs, \* buffers of the async message pool (8 in the code)
    DropCount, \* buffers dropped at the start of a recording (4 in the code)
    MaxRecords \* bound: how often the key is pressed

ASSUME AudioAssumption ==
    /\ IsFiniteSet(Bufs) /\ Bufs # {} /\ NoBuf \notin Bufs
    /\ AsyncBufs \in Nat \ {0} /\ DropCount \in Nat /\ MaxRecords \in Nat

RefWidth == 256   \* the reference count of a net_buf is a u8_t

VARIABLES
    pcm_buffer_pool, \* reference counts, and the list of free buffers
    audioin,   \* struct audioin_handle: running, and its two buffers
    audio_cb,  \* struct audio_cb_t: the flags, and the buffers left to drop
    phase,     \* which half of the buffer the hardware fills: "HF" or "FU" is next
    msg_queue, \* PCM buffers, and voice key events
    loop,      \* the main loop: step, the message in hand, the count it loaded
    rmc_link,  \* what the state machine knows: "none", "linked" or "ready"
    voice,     \* what the host was told: "none", "started" or "ended"
    records,   \* recordings made so far
    (* history *)
    handed,    \* completed_net_buf was sent to the main loop, or freed
    fault,     \* "stale": a recording that stopped freed such a buffer;
               \* "late": two interrupts came as one
    dropped    \* a key event was dropped for want of a message buffer

audioVars == <<pcm_buffer_pool, audioin, audio_cb, phase, msg_queue, loop, rmc_link, voice,
               records, handed, fault, dropped>>

Pcm(b) == [type |-> "PCM", buf |-> b]
KeyMsg(dir) == [type |-> dir, buf |-> NoBuf]
NextMsg == [pc |-> "loop", msg |-> KeyMsg("UP"), count |-> 0]
-----------------------------------------------------------------------------
(***************************************************************************)
(* net_buf_alloc takes the head of the free list, net_buf_unref puts a     *)
(* buffer back when its count reaches zero.                                *)
(***************************************************************************)
Alloc(p) == [ref |-> [p.ref EXCEPT ![Head(p.free)] = 1], free |-> Tail(p.free)]

Unref(p, b) ==
    LET r == (p.ref[b] - 1) % RefWidth
    IN  [ref |-> [p.ref EXCEPT ![b] = r], free |-> IF r = 0 THEN <<b>> \o p.free ELSE p.free]

\* pcm_buffer_free, and the unref of audioin_stop_record: not for NULL.
pcm_buffer_free(p, b) == IF b = NoBuf THEN p ELSE Unref(p, b)

\* send_msg(.., K_NO_WAIT)
Room == Len(msg_queue) < AsyncBufs
SendKey(dir) ==
    /\ msg_queue' = IF Room THEN Append(msg_queue, KeyMsg(dir)) ELSE msg_queue
    /\ dropped' = (dropped \/ ~Room)
-----------------------------------------------------------------------------
(***************************************************************************)
(* The interrupts.                                                         *)
(***************************************************************************)
\* start_audio_capture and audioin_start_record; the key event follows.  When
\* there is no buffer nothing is recorded.
StartFlags(cb) == [encoder_init |-> TRUE, send_start |-> TRUE, send_stop |-> FALSE,
                   drop |-> DropCount]

Press ==
    /\ ~audioin.held /\ records < MaxRecords
    /\ records' = records + 1
    /\ audio_cb' = StartFlags(audio_cb)
    /\ IF pcm_buffer_pool.free = <<>>
         THEN /\ audioin' = [audioin EXCEPT !.held = TRUE]
              /\ UNCHANGED <<pcm_buffer_pool, phase, handed>>
         ELSE /\ pcm_buffer_pool' = Alloc(pcm_buffer_pool)
              /\ audioin' = [running |-> TRUE, held |-> TRUE,
                             working |-> Head(pcm_buffer_pool.free), completed |-> NoBuf]
              /\ phase' = "HF" /\ handed' = FALSE
    /\ SendKey("DOWN")
    /\ UNCHANGED <<loop, rmc_link, voice, fault>>

\* stop_audio_capture and audioin_stop_record; the key event follows.
StopFlagsStartOnly(cb) == [cb EXCEPT !.send_start = FALSE]
StopFlags(cb) == [cb EXCEPT !.send_stop = TRUE, !.send_start = FALSE]

ReleasedWorkingKept(p, a) == pcm_buffer_free(p, a.completed)
Released(p, a) == pcm_buffer_free(pcm_buffer_free(p, a.working), a.completed)

Release ==
    /\ audioin.held
    /\ audio_cb' = StopFlags(audio_cb)
    /\ pcm_buffer_pool' = Released(pcm_buffer_pool, audioin)
    /\ fault' = IF fault = "none" /\ audioin.completed # NoBuf /\ handed THEN "stale" ELSE fault
    /\ audioin' = [running |-> FALSE, held |-> FALSE, working |-> NoBuf, completed |-> NoBuf]
    /\ SendKey("UP")
    /\ UNCHANGED <<phase, loop, rmc_link, voice, records, handed>>

\* audio_pcm_buf_cbk, half full: without a free buffer the hardware goes on
\* with the same one, and nothing will be complete.  When full and half full
\* are pending together only half full is handled.
HalfFull ==
    /\ audioin.running
    /\ IF pcm_buffer_pool.free = <<>>
         THEN /\ audioin' = [audioin EXCEPT !.completed = NoBuf]
              /\ UNCHANGED pcm_buffer_pool
         ELSE /\ audioin' = [audioin EXCEPT !.completed = audioin.working,
                                            !.working = Head(pcm_buffer_pool.free)]
              /\ pcm_buffer_pool' = Alloc(pcm_buffer_pool)
    /\ fault' = IF fault = "none" /\ phase = "FU" THEN "late" ELSE fault
    /\ phase' = "FU" /\ handed' = FALSE
    /\ UNCHANGED <<audio_cb, msg_queue, loop, rmc_link, voice, records, dropped>>

\* audio_pcm_buf_cbk, full: the buffer is sent, or freed when that fails.
Full ==
    /\ audioin.running /\ phase = "FU"
    /\ phase' = "HF"
    /\ \/ /\ audioin.completed = NoBuf
          /\ UNCHANGED <<msg_queue, pcm_buffer_pool, handed>>
       \/ /\ audioin.completed # NoBuf /\ Room
          /\ msg_queue' = Append(msg_queue, Pcm(audioin.completed))
          /\ handed' = TRUE /\ UNCHANGED pcm_buffer_pool
       \/ /\ audioin.completed # NoBuf /\ ~Room
          /\ pcm_buffer_pool' = Unref(pcm_buffer_pool, audioin.completed)
          /\ handed' = TRUE /\ UNCHANGED msg_queue
    /\ UNCHANGED <<audioin, audio_cb, loop, rmc_link, voice, records, fault, dropped>>
-----------------------------------------------------------------------------
(***************************************************************************)
(* The main loop.                                                          *)
(***************************************************************************)
At(step) == loop.pc = step
Goto(step) == loop' = [loop EXCEPT !.pc = step]
NotPool == <<audioin, phase, records, handed, fault, dropped>>

\* is_need_deliver_to_app for the voice key: not without a secure connection.
ReceiveKey ==
    /\ At("loop") /\ msg_queue # <<>> /\ Head(msg_queue).type # "PCM"
    /\ msg_queue' = Tail(msg_queue)
    /\ loop' = IF rmc_link # "ready" THEN NextMsg
               ELSE [NextMsg EXCEPT !.pc = IF Head(msg_queue).type = "DOWN" THEN "start" ELSE "stop",
                                 !.msg = Head(msg_queue)]
    /\ UNCHANGED <<pcm_buffer_pool, audio_cb, rmc_link, voice, NotPool>>

\* system_audio_event_handle: without a connection the buffer is only freed.
ReceivePcm ==
    /\ At("loop") /\ msg_queue # <<>> /\ Head(msg_queue).type = "PCM"
    /\ msg_queue' = Tail(msg_queue)
    /\ IF rmc_link = "none"
         THEN /\ loop' = NextMsg
              /\ pcm_buffer_pool' = pcm_buffer_free(pcm_buffer_pool, Head(msg_queue).buf)
         ELSE /\ loop' = [NextMsg EXCEPT !.pc = "start", !.msg = Head(msg_queue)]
              /\ UNCHANGED pcm_buffer_pool
    /\ UNCHANGED <<audio_cb, rmc_link, voice, NotPool>>

\* audio_send_start_flag: the encoder is initialised once, then the host is
\* told, and then the flag is cleared.
AfterStart == IF loop.msg.type = "PCM" THEN [loop EXCEPT !.pc = "drop"] ELSE NextMsg

SendStart ==
    /\ At("start")
    /\ audio_cb' = [audio_cb EXCEPT !.encoder_init = FALSE]
    /\ IF audio_cb.send_start /\ rmc_link = "ready"
         THEN voice' = "started" /\ Goto("started")
         ELSE loop' = AfterStart /\ UNCHANGED voice
    /\ UNCHANGED <<pcm_buffer_pool, msg_queue, rmc_link, NotPool>>

ClearStart ==
    /\ At("started")
    /\ audio_cb' = [audio_cb EXCEPT !.send_start = FALSE]
    /\ loop' = AfterStart
    /\ UNCHANGED <<pcm_buffer_pool, msg_queue, rmc_link, voice, NotPool>>

\* audio_need_drop_buffer: the count is loaded, and one less is stored.  A key
\* press in between is overwritten.
NeedDrop == audio_cb.drop > 0

LoadCount ==
    /\ At("drop") /\ NeedDrop
    /\ loop' = [loop EXCEPT !.pc = "dropping", !.count = audio_cb.drop]
    /\ UNCHANGED <<pcm_buffer_pool, audio_cb, msg_queue, rmc_link, voice, NotPool>>

DropBuffer ==
    /\ At("dropping")
    /\ audio_cb' = [audio_cb EXCEPT !.drop = loop.count - 1]
    /\ pcm_buffer_pool' = pcm_buffer_free(pcm_buffer_pool, loop.msg.buf)
    /\ loop' = NextMsg
    /\ UNCHANGED <<msg_queue, rmc_link, voice, NotPool>>

\* audio_encode, pcm_buffer_free and the reports to the host.
Encode ==
    /\ At("drop") /\ ~NeedDrop
    /\ pcm_buffer_pool' = pcm_buffer_free(pcm_buffer_pool, loop.msg.buf)
    /\ Goto("stop")
    /\ UNCHANGED <<audio_cb, msg_queue, rmc_link, voice, NotPool>>

\* audio_send_stop_flag
SendStop ==
    /\ At("stop")
    /\ IF audio_cb.send_stop /\ rmc_link = "ready"
         THEN voice' = "ended" /\ Goto("stopped")
         ELSE loop' = NextMsg /\ UNCHANGED voice
    /\ UNCHANGED <<pcm_buffer_pool, audio_cb, msg_queue, rmc_link, NotPool>>

ClearStop ==
    /\ At("stopped")
    /\ audio_cb' = [audio_cb EXCEPT !.send_stop = FALSE]
    /\ loop' = NextMsg
    /\ UNCHANGED <<pcm_buffer_pool, msg_queue, rmc_link, voice, NotPool>>

\* The state machine (RmcSm): connected, secured, no longer secured (the link
\* is lost), and no longer connected.  A new host has been told nothing.
LinkSteps == {<<"none", "linked">>, <<"linked", "ready">>, <<"ready", "linked">>, <<"linked", "none">>}

LinkChanges ==
    /\ \E to \in {"none", "linked", "ready"} : <<rmc_link, to>> \in LinkSteps /\ rmc_link' = to
    /\ voice' = IF rmc_link = "ready" THEN "none" ELSE voice
    /\ UNCHANGED <<pcm_buffer_pool, audio_cb, msg_queue, loop, NotPool>>

AudioInit ==
    /\ pcm_buffer_pool = [ref |-> [b \in Bufs |-> 0], free |-> SetToSeq(Bufs)]
    /\ audioin = [running |-> FALSE, held |-> FALSE, working |-> NoBuf, completed |-> NoBuf]
    /\ audio_cb = [encoder_init |-> FALSE, send_start |-> FALSE, send_stop |-> FALSE, drop |-> 0]
    /\ phase = "HF" /\ msg_queue = <<>> /\ loop = NextMsg
    /\ rmc_link = "none" /\ voice = "none" /\ records = 0
    /\ handed = FALSE /\ fault = "none" /\ dropped = FALSE

AudioNext ==
    \/ Press \/ Release \/ HalfFull \/ Full
    \/ ReceiveKey \/ ReceivePcm \/ SendStart \/ ClearStart
    \/ LoadCount \/ DropBuffer \/ Encode \/ SendStop \/ ClearStop \/ LinkChanges

AudioSpec == AudioInit /\ [][AudioNext]_audioVars
-----------------------------------------------------------------------------
(***************************************************************************)
(* Properties.                                                             *)
(***************************************************************************)
\* Who has buffer b: the free list, the hardware, the queue or the main loop.
InHand == IF loop.pc \in {"start", "started", "drop", "dropping"} /\ loop.msg.type = "PCM"
          THEN {loop.msg.buf} ELSE {}
Owners(b) ==
      Cardinality({i \in DOMAIN pcm_buffer_pool.free : pcm_buffer_pool.free[i] = b})
    + (IF audioin.working = b THEN 1 ELSE 0)
    + (IF audioin.completed = b /\ ~handed THEN 1 ELSE 0)
    + Cardinality({i \in DOMAIN msg_queue : msg_queue[i] = Pcm(b)})
    + (IF b \in InHand THEN 1 ELSE 0)

\* Every PCM buffer has exactly one owner, as long as no recording was stopped
\* between a full buffer and the next half, and no interrupt came late.
OneOwner == fault = "none" => \A b \in Bufs : Owners(b) = 1

\* When the key is released and all is handled, the host is not left waiting
\* for more voice, unless a key event was dropped.
VoiceEnds ==
    (~audioin.held /\ loop.pc = "loop" /\ msg_queue = <<>> /\ ~dropped) => voice # "started"

\* A buffer that waits for the main loop is not free: audioin_hal frees it only
\* when it could not be sent.
SentBuffersKept ==
    \A i \in DOMAIN msg_queue :
        msg_queue[i].type = "PCM" => msg_queue[i].buf \notin ToSet(pcm_buffer_pool.free)
=============================================================================
