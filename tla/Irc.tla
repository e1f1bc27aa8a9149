-------------------------------- MODULE Irc --------------------------------
(***************************************************************************)
(* Learning and sending of infrared waves (hal/irc_hal.c, irc_protocol.c,  *)
(* drivers/irc/sw_irc_acts.c and their use in system_app_input.c): after   *)
(* the power key was held, a learn key is chosen, the next wave received   *)
(* is stored for it, and from then on the key sends this wave.             *)
(*                                                                         *)
(* The main loop enters learn mode step by step.  The keypad, the learn    *)
(* timer, the capture of a wave and the timers of the transmitter are      *)
(* interrupts; a capture may come while a key is handled.  A wave is the   *)
(* sequence of its pulse widths in microseconds.  Waves in RC5 and RC6 are *)
(* recognised but not changed, and what is shown by LEDs is left out.      *)
(***************************************************************************)
EXTENDS Naturals, Sequences

CONSTANTS LearnKeys, NoLearnKey,
          Waves,        \* the waves that can be received
          WordBits,     \* the width of unsigned long: 32
          MaxWaves      \* bound: the waves that are received

ASSUME IrcAssumption ==
    /\ NoLearnKey \notin LearnKeys
    /\ \A w \in Waves : w \in Seq(Nat) /\ w # <<>>
    /\ WordBits \in Nat \ {0} /\ MaxWaves \in Nat

VARIABLES
    irc,              \* sw_ir_learn_mode, cur_learn_keycode, has_set_learn_key, event_cb
    learn_mode_timer, \* whether it runs
    sw_irc,           \* the driver: learn_mode, notify, key_state, pulse_width_tab, and
                      \* tx: busy and what its timers will do
    flash_pulse_tab,
    learn_nvram,
    enabling,         \* main loop: the step of irc_device_enable_rx
    pressing,         \* the learn key that is being set
    user,             \* the key held, the key shown as ready, whether the press counts
    learned,          \* history: the wave that came for the key shown as ready
    waves,            \* history: the number of waves
    raced             \* history: a key or a wave came within the steps of another
ircVars == <<irc, learn_mode_timer, sw_irc, flash_pulse_tab, learn_nvram, enabling, pressing,
             user, learned, waves, raced>>

MIN_FIRST_CODE_NUM == 20

-----------------------------------------------------------------------------
(***************************************************************************)
(* irc_protocol.c.  A bit is a mark of width com and a space; 50560 has a  *)
(* segment code after `segment' bits.                                      *)
(***************************************************************************)
Protocol == [
    nec    |-> [ldc |-> <<9000, 4500>>, com |-> 560, zero |-> 560, one |-> 1690, bits |-> 32, segment |-> 32],
    tc9012 |-> [ldc |-> <<4500, 4500>>, com |-> 560, zero |-> 560, one |-> 1690, bits |-> 32, segment |-> 32],
    m7461  |-> [ldc |-> <<9000, 4500>>, com |-> 560, zero |-> 560, one |-> 1680, bits |-> 42, segment |-> 42],
    m50560 |-> [ldc |-> <<8000, 4000>>, com |-> 520, zero |-> 520, one |-> 1560, bits |-> 16, segment |-> 8],
    m50462 |-> [ldc |-> <<>>, com |-> 260, zero |-> 780, one |-> 1799, bits |-> 16, segment |-> 16]]

\* VAL_ESP_L, VAL_ESP_R: twenty per cent.
Near(width, a) == width > (a * 80) \div 100 /\ width < (a * 120) \div 100

CodeLen(p) == Len(p.ldc) + 2 * p.bits + (IF p.segment < p.bits THEN 3 ELSE 1)

\* The place of the mark of bit i.
MarkAt(p, i) == Len(p.ldc) + 2 * i - 1 + (IF i > p.segment THEN 2 ELSE 0)

\* is_nec_wave and its kind.
Recognised(p, w) ==
    /\ Len(w) = CodeLen(p)
    /\ \A i \in DOMAIN p.ldc : Near(w[i], p.ldc[i])
    /\ \A i \in 1 .. p.bits : /\ Near(w[MarkAt(p, i)], p.com)
                              /\ Near(w[MarkAt(p, i) + 1], p.zero) \/ Near(w[MarkAt(p, i) + 1], p.one)

Data(p, w) == [i \in 1 .. p.bits |-> IF Near(w[MarkAt(p, i) + 1], p.zero) THEN 0 ELSE 1]

\* generate_nec_wave and its kind.  The first mask does not fit into the word
\* when there are more bits: it is 0, and only the header and one mark are written.
Width(p, d, i) ==
    LET n == i - Len(p.ldc) IN
    IF n <= 0 THEN p.ldc[i]
    ELSE IF n % 2 = 1 THEN p.com
    ELSE IF d[n \div 2] = 1 THEN p.one ELSE p.zero

Generated(p, w) ==
    LET d == Data(p, w)
        n == IF p.bits <= WordBits THEN CodeLen(p) ELSE Len(p.ldc) + 1
    IN  [i \in DOMAIN w |-> IF i <= n THEN Width(p, d, i) ELSE w[i]]

\* check_irc_wave: the wave as it is stored.
check_irc_wave(w) ==
    IF \E n \in DOMAIN Protocol \ {"m50560"} : Recognised(Protocol[n], w)
    THEN LET n == CHOOSE n \in DOMAIN Protocol \ {"m50560"} : Recognised(Protocol[n], w)
         IN  Generated(Protocol[n], w)
    ELSE w

-----------------------------------------------------------------------------
NoUser == [held |-> NoLearnKey, ready |-> NoLearnKey, counts |-> FALSE]

IrcRam ==
    [irc     |-> [learn_mode |-> FALSE, keycode |-> NoLearnKey, has_set |-> FALSE, cb |-> FALSE],
     sw_irc  |-> [learn_mode |-> FALSE, notify |-> FALSE, down |-> FALSE, tx |-> "idle", tab |-> <<>>]]

IrcInit ==
    /\ irc = IrcRam.irc
    /\ sw_irc = IrcRam.sw_irc
    /\ learn_mode_timer = FALSE
    /\ flash_pulse_tab = <<>>
    /\ learn_nvram = [k \in LearnKeys |-> <<>>]
    /\ enabling = "no"
    /\ pressing = NoLearnKey
    /\ user = NoUser
    /\ learned = [k \in LearnKeys |-> <<>>]
    /\ waves = 0
    /\ raced = FALSE

ircHistory == <<learned, waves, raced>>

\* sw_irc_input_acts_disable: both timers of the transmitter stop, too.
DriverOff(s) == [s EXCEPT !.learn_mode = FALSE, !.tx = IF @ = "idle" THEN @ ELSE "stopped"]

\* irc_device_disable_rx
disable_rx ==
    /\ sw_irc' = [DriverOff(sw_irc) EXCEPT !.notify = FALSE]
    /\ irc' = [irc EXCEPT !.learn_mode = FALSE, !.keycode = NoLearnKey, !.has_set = FALSE]

\* sw_irc_acts_output_key: learn mode ends first; nothing is sent while busy.
Output(down, tab) ==
    LET s == IF sw_irc.learn_mode THEN DriverOff(sw_irc) ELSE sw_irc IN
    sw_irc' = IF down /\ s.tx = "idle" /\ tab # <<>>
              THEN [s EXCEPT !.down = TRUE, !.tx = "sending", !.tab = tab]
              ELSE [s EXCEPT !.down = down]

-----------------------------------------------------------------------------
(***************************************************************************)
(* The keypad: _system_key_event_cb.                                       *)
(***************************************************************************)
\* irc_device_send_learn_key in learn mode: the key is being set, ...
PressToLearn(k) ==
    /\ user.held = NoLearnKey /\ pressing = NoLearnKey /\ irc.learn_mode
    /\ user' = [user EXCEPT !.held = k]
    /\ learn_mode_timer' = (learn_mode_timer \/ ~irc.has_set)
    /\ irc' = [irc EXCEPT !.has_set = TRUE]
    /\ pressing' = k
    /\ raced' = (raced \/ enabling # "no")
    /\ UNCHANGED <<sw_irc, flash_pulse_tab, learn_nvram, enabling, learned, waves>>

\* ... and is shown as ready (irc_input_handle).
PressReady ==
    /\ pressing # NoLearnKey
    /\ irc' = [irc EXCEPT !.keycode = pressing]
    /\ user' = [user EXCEPT !.ready = pressing]
    /\ pressing' = NoLearnKey
    /\ UNCHANGED <<learn_mode_timer, sw_irc, flash_pulse_tab, learn_nvram, enabling, ircHistory>>

\* irc_device_send_learn_key otherwise: the wave is read and sent.  When there
\* is none, flash_pulse_tab has the wave that was used last.
PressToSend(k) ==
    /\ user.held = NoLearnKey /\ pressing = NoLearnKey /\ ~irc.learn_mode
    /\ user' = [user EXCEPT !.held = k, !.counts = sw_irc.tx \notin {"sending", "gap"} /\ learned[k] # <<>>]
    /\ flash_pulse_tab' = IF learn_nvram[k] # <<>> THEN learn_nvram[k] ELSE flash_pulse_tab
    /\ Output(TRUE, flash_pulse_tab')
    /\ raced' = (raced \/ enabling # "no")
    /\ UNCHANGED <<irc, learn_mode_timer, learn_nvram, enabling, pressing, learned, waves>>

ReleaseKey ==
    /\ user.held # NoLearnKey /\ pressing = NoLearnKey
    /\ user' = [user EXCEPT !.held = NoLearnKey, !.counts = FALSE]
    /\ IF irc.learn_mode THEN UNCHANGED sw_irc ELSE Output(FALSE, <<>>)
    /\ UNCHANGED <<irc, learn_mode_timer, flash_pulse_tab, learn_nvram, enabling, pressing, ircHistory>>

\* irc_device_exit_learn_mode: a key that cannot learn is pressed.
exit_learn_mode ==
    /\ pressing = NoLearnKey /\ irc.learn_mode
    /\ disable_rx
    /\ learn_mode_timer' = FALSE
    /\ user' = [user EXCEPT !.ready = NoLearnKey]
    /\ UNCHANGED <<flash_pulse_tab, learn_nvram, enabling, pressing, ircHistory>>

-----------------------------------------------------------------------------
(***************************************************************************)
(* The main loop: the power key was held, enter_into_learn_mode.           *)
(***************************************************************************)
EnableDriver ==
    /\ enabling = "no" /\ pressing = NoLearnKey /\ ~irc.learn_mode
    /\ sw_irc' = [sw_irc EXCEPT !.learn_mode = TRUE, !.tx = "idle"]
    /\ user' = [user EXCEPT !.counts = FALSE]
    /\ enabling' = "notify"
    /\ UNCHANGED <<irc, learn_mode_timer, flash_pulse_tab, learn_nvram, pressing, ircHistory>>

EnableNotify ==
    /\ enabling = "notify" /\ pressing = NoLearnKey
    /\ sw_irc' = [sw_irc EXCEPT !.notify = TRUE]
    /\ irc' = [irc EXCEPT !.cb = TRUE, !.learn_mode = TRUE]
    /\ enabling' = "clear"
    /\ UNCHANGED <<learn_mode_timer, flash_pulse_tab, learn_nvram, pressing, user, ircHistory>>

EnableClear ==
    /\ enabling = "clear" /\ pressing = NoLearnKey
    /\ irc' = [irc EXCEPT !.keycode = NoLearnKey, !.has_set = FALSE]
    /\ enabling' = "timer"
    /\ UNCHANGED <<learn_mode_timer, sw_irc, flash_pulse_tab, learn_nvram, pressing, user, ircHistory>>

EnableTimer ==
    /\ enabling = "timer" /\ pressing = NoLearnKey
    /\ learn_mode_timer' = TRUE
    /\ enabling' = "no"
    /\ UNCHANGED <<irc, sw_irc, flash_pulse_tab, learn_nvram, pressing, user, ircHistory>>

-----------------------------------------------------------------------------
(***************************************************************************)
(* The timers and the driver's interrupts.                                 *)
(***************************************************************************)
\* __irc_learn_timeout_event
learn_timeout_event ==
    /\ pressing = NoLearnKey /\ learn_mode_timer
    /\ learn_mode_timer' = FALSE
    /\ IF irc.learn_mode THEN disable_rx ELSE UNCHANGED <<irc, sw_irc>>
    /\ user' = [user EXCEPT !.ready = IF irc.cb THEN NoLearnKey ELSE @]
    /\ UNCHANGED <<flash_pulse_tab, learn_nvram, enabling, pressing, ircHistory>>

LearnKeyKept == irc
LearnKeyDone == [irc EXCEPT !.has_set = FALSE]

\* sw_irc_acts_isr in learn mode: cap_irc, cap_analysis, irc_hal_event_handle.
\* pulse_width_tab is what the transmitter uses, too.
Capture(w) ==
    /\ sw_irc.learn_mode /\ waves < MaxWaves
    /\ waves' = waves + 1
    /\ IF /\ sw_irc.notify /\ irc.has_set /\ irc.learn_mode
          /\ irc.keycode # NoLearnKey /\ Len(w) >= MIN_FIRST_CODE_NUM
       THEN /\ learn_mode_timer' = TRUE
            /\ sw_irc' = [sw_irc EXCEPT !.tab = check_irc_wave(w)]
            /\ flash_pulse_tab' = check_irc_wave(w)
            /\ learn_nvram' = [learn_nvram EXCEPT ![irc.keycode] = check_irc_wave(w)]
            /\ irc' = LearnKeyDone
            /\ user' = [user EXCEPT !.ready = NoLearnKey]
       ELSE /\ sw_irc' = [sw_irc EXCEPT !.tab = w]
            /\ UNCHANGED <<irc, learn_mode_timer, flash_pulse_tab, learn_nvram, user>>
    /\ learned' = IF user.ready # NoLearnKey /\ Len(w) >= MIN_FIRST_CODE_NUM
                  THEN [learned EXCEPT ![user.ready] = w] ELSE learned
    /\ raced' = (raced \/ pressing # NoLearnKey)
    /\ UNCHANGED <<enabling, pressing>>

\* common_timer_isr, after the last pulse.
WaveSent ==
    /\ sw_irc.tx = "sending" /\ sw_irc' = [sw_irc EXCEPT !.tx = "gap"]
    /\ UNCHANGED <<irc, learn_mode_timer, flash_pulse_tab, learn_nvram, enabling, pressing, user, ircHistory>>

\* sw_irc_acts_isr: the wave is repeated while the key is down.
RepeatOrEnd ==
    /\ sw_irc.tx = "gap"
    /\ sw_irc' = [sw_irc EXCEPT !.tx = IF sw_irc.down THEN "sending" ELSE "idle"]
    /\ UNCHANGED <<irc, learn_mode_timer, flash_pulse_tab, learn_nvram, enabling, pressing, user, ircHistory>>

\* Power fails.
IrcBoot ==
    /\ irc' = IrcRam.irc
    /\ sw_irc' = IrcRam.sw_irc
    /\ learn_mode_timer' = FALSE
    /\ flash_pulse_tab' = <<>>
    /\ enabling' = "no"
    /\ pressing' = NoLearnKey
    /\ user' = NoUser
    /\ UNCHANGED <<learn_nvram, ircHistory>>

IrcNext ==
    \/ \E k \in LearnKeys : PressToLearn(k) \/ PressToSend(k)
    \/ PressReady \/ ReleaseKey \/ exit_learn_mode
    \/ EnableDriver \/ EnableNotify \/ EnableClear \/ EnableTimer
    \/ learn_timeout_event \/ \E w \in Waves : Capture(w)
    \/ WaveSent \/ RepeatOrEnd \/ IrcBoot

IrcSpec == IrcInit /\ [][IrcNext]_ircVars

-----------------------------------------------------------------------------
\* What a receiver makes of a wave.
Code(w) ==
    {<<n, Data(Protocol[n], w)>> : n \in {m \in DOMAIN Protocol : Recognised(Protocol[m], w)}}

\* irc_device_send_learn_key: a key that is held sends, again and again, the code
\* of the wave that came while this key was shown as ready, however often keys
\* were learned since, learn mode timed out or was left, or power failed.  Not
\* when the key was pressed while a wave was sent (the driver then repeats that
\* wave), and not once a key was pressed while learn mode was entered, or a wave
\* came while a key was set: keys may then be ignored, or waves swapped.
SentAsLearned ==
    user.counts /\ ~raced =>
        /\ sw_irc.tx \in {"sending", "gap"}
        /\ Code(sw_irc.tab) = Code(learned[user.held])
        /\ Code(sw_irc.tab) = {} => sw_irc.tab = learned[user.held]
=============================================================================
