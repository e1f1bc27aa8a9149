----------------------------- MODULE IrcProofs -----------------------------
(***************************************************************************)
(* Infrared learning, for all keys, waves, widths of a word and numbers of *)
(* captures: a key sends the code of the wave that was learned for it.     *)
(***************************************************************************)
EXTENDS Irc, TLAPS

-----------------------------------------------------------------------------
(***************************************************************************)
(* The wave that is stored has the code of the wave that came: the widths  *)
(* of a generated wave are near the widths that were recognised, and no    *)
(* wave has two codes.                                                     *)
(***************************************************************************)
Codes == {"nec", "tc9012", "m7461", "m50560", "m50462"}
Checked == Codes \ {"m50560"}

LEMMA ProtocolNames == DOMAIN Protocol = Codes
  BY DEF Protocol, Codes

\* What check_irc_wave relies on, of a protocol without a segment code.
Simple(p) ==
    /\ p.ldc \in Seq(Nat) /\ Len(p.ldc) \in Nat
    /\ p.bits \in Nat \ {0} /\ p.segment = p.bits
    /\ \A i \in DOMAIN p.ldc : Near(p.ldc[i], p.ldc[i])
    /\ Near(p.com, p.com) /\ Near(p.zero, p.zero) /\ Near(p.one, p.one)
    /\ ~Near(p.one, p.zero)

LEMMA SimpleProtocols == \A n \in Checked : Simple(Protocol[n])
  <1>1. Simple(Protocol.nec)
    <2> DEFINE p == Protocol.nec
    <2>1. /\ p.ldc = <<9000, 4500>> /\ p.com = 560 /\ p.zero = 560 /\ p.one = 1690
          /\ p.bits = 32 /\ p.segment = 32
      BY DEF Protocol
    <2> HIDE DEF p
    <2>2. Near(560, 560) /\ Near(560, 560) /\ Near(1690, 1690) /\ ~Near(1690, 560)
      BY DEF Near
    <2>3. p.ldc \in Seq(Nat) /\ Len(p.ldc) \in Nat /\ \A i \in DOMAIN p.ldc : p.ldc[i] \in {4500, 9000}
      BY <2>1
    <2>4. Near(4500, 4500) /\ Near(9000, 9000)
      BY DEF Near
    <2> QED
      BY <2>1, <2>2, <2>3, <2>4 DEF Simple, p
  <1>2. Simple(Protocol.tc9012)
    <2> DEFINE p == Protocol.tc9012
    <2>1. /\ p.ldc = <<4500, 4500>> /\ p.com = 560 /\ p.zero = 560 /\ p.one = 1690
          /\ p.bits = 32 /\ p.segment = 32
      BY DEF Protocol
    <2> HIDE DEF p
    <2>2. Near(560, 560) /\ Near(560, 560) /\ Near(1690, 1690) /\ ~Near(1690, 560)
      BY DEF Near
    <2>3. p.ldc \in Seq(Nat) /\ Len(p.ldc) \in Nat /\ \A i \in DOMAIN p.ldc : p.ldc[i] \in {4500}
      BY <2>1
    <2>4. Near(4500, 4500)
      BY DEF Near
    <2> QED
      BY <2>1, <2>2, <2>3, <2>4 DEF Simple, p
  <1>3. Simple(Protocol.m7461)
    <2> DEFINE p == Protocol.m7461
    <2>1. /\ p.ldc = <<9000, 4500>> /\ p.com = 560 /\ p.zero = 560 /\ p.one = 1680
          /\ p.bits = 42 /\ p.segment = 42
      BY DEF Protocol
    <2> HIDE DEF p
    <2>2. Near(560, 560) /\ Near(560, 560) /\ Near(1680, 1680) /\ ~Near(1680, 560)
      BY DEF Near
    <2>3. p.ldc \in Seq(Nat) /\ Len(p.ldc) \in Nat /\ \A i \in DOMAIN p.ldc : p.ldc[i] \in {4500, 9000}
      BY <2>1
    <2>4. Near(4500, 4500) /\ Near(9000, 9000)
      BY DEF Near
    <2> QED
      BY <2>1, <2>2, <2>3, <2>4 DEF Simple, p
  <1>4. Simple(Protocol.m50462)
    <2> DEFINE p == Protocol.m50462
    <2>1. /\ p.ldc = <<>> /\ p.com = 260 /\ p.zero = 780 /\ p.one = 1799
          /\ p.bits = 16 /\ p.segment = 16
      BY DEF Protocol
    <2> HIDE DEF p
    <2>2. Near(260, 260) /\ Near(780, 780) /\ Near(1799, 1799) /\ ~Near(1799, 780)
      BY DEF Near
    <2>3. p.ldc \in Seq(Nat) /\ Len(p.ldc) \in Nat /\ DOMAIN p.ldc = {}
      BY <2>1
    <2> QED
      BY <2>1, <2>2, <2>3 DEF Simple, p
  <1> QED
    BY <1>1, <1>2, <1>3, <1>4 DEF Checked, Codes

LEMMA Lengths ==
  /\ CodeLen(Protocol.nec) = 67 /\ CodeLen(Protocol.tc9012) = 67
  /\ CodeLen(Protocol.m7461) = 87 /\ CodeLen(Protocol.m50560) = 37
  /\ CodeLen(Protocol.m50462) = 33
  <1>1. /\ Len(Protocol.nec.ldc) = 2 /\ Len(Protocol.tc9012.ldc) = 2
        /\ Len(Protocol.m7461.ldc) = 2 /\ Len(Protocol.m50560.ldc) = 2
        /\ Len(Protocol.m50462.ldc) = 0
    BY DEF Protocol
  <1>2. /\ Protocol.nec.bits = 32 /\ Protocol.nec.segment = 32
        /\ Protocol.tc9012.bits = 32 /\ Protocol.tc9012.segment = 32
        /\ Protocol.m7461.bits = 42 /\ Protocol.m7461.segment = 42
        /\ Protocol.m50560.bits = 16 /\ Protocol.m50560.segment = 8
        /\ Protocol.m50462.bits = 16 /\ Protocol.m50462.segment = 16
    BY DEF Protocol
  <1> QED
    BY <1>1, <1>2 DEF CodeLen

LEMMA LengthOf ==
  ASSUME NEW n \in Codes, NEW l, l = CodeLen(Protocol[n])
  PROVE  /\ n \in {"nec", "tc9012"} <=> l = 67
         /\ n = "m7461" <=> l = 87
         /\ n = "m50560" <=> l = 37
         /\ n = "m50462" <=> l = 33
  <1>1. CASE n = "nec"
    BY <1>1, Lengths
  <1>2. CASE n = "tc9012"
    BY <1>2, Lengths
  <1>3. CASE n = "m7461"
    BY <1>3, Lengths
  <1>4. CASE n = "m50560"
    BY <1>4, Lengths
  <1>5. CASE n = "m50462"
    BY <1>5, Lengths
  <1> QED
    BY <1>1, <1>2, <1>3, <1>4, <1>5 DEF Codes

\* A wave has at most one code: the lengths differ, and the two protocols of the
\* same length have a first mark of 9000 and of 4500.
LEMMA OneCode ==
  ASSUME NEW w, Len(w) = 67 => w[1] \in Nat, NEW m \in Codes, NEW n \in Codes,
         Recognised(Protocol[m], w), Recognised(Protocol[n], w)
  PROVE  m = n
  <1>0. Len(w) = CodeLen(Protocol[m])
    BY DEF Recognised
  <1>1. Len(w) = CodeLen(Protocol[n])
    BY DEF Recognised
  <1>2. ~(Recognised(Protocol.nec, w) /\ Recognised(Protocol.tc9012, w))
    <2>1. SUFFICES ASSUME Recognised(Protocol.nec, w), Recognised(Protocol.tc9012, w) PROVE FALSE
      OBVIOUS
    <2>2. Protocol.nec.ldc = <<9000, 4500>> /\ Protocol.tc9012.ldc = <<4500, 4500>>
      BY DEF Protocol
    <2>3. \A i \in DOMAIN <<9000, 4500>> : Near(w[i], <<9000, 4500>>[i])
      BY <2>1, <2>2 DEF Recognised
    <2>4. \A i \in DOMAIN <<4500, 4500>> : Near(w[i], <<4500, 4500>>[i])
      BY <2>1, <2>2 DEF Recognised
    <2>5. Near(w[1], 9000) /\ Near(w[1], 4500)
      BY <2>3, <2>4
    <2>6. w[1] \in Nat
      BY <2>1, Lengths DEF Recognised
    <2>7. w[1] > 7200 /\ w[1] < 5400
      BY <2>5, <2>6 DEF Near
    <2> QED
      BY <2>6, <2>7
  <1>3. (m \in {"nec", "tc9012"} /\ n \in {"nec", "tc9012"}) \/ m = n
    <2> DEFINE l == Len(w)
    <2>1. /\ m \in {"nec", "tc9012"} <=> l = 67
          /\ (m = "m7461" <=> l = 87) /\ (m = "m50560" <=> l = 37) /\ (m = "m50462" <=> l = 33)
      BY <1>0, LengthOf
    <2>2. /\ n \in {"nec", "tc9012"} <=> l = 67
          /\ (n = "m7461" <=> l = 87) /\ (n = "m50560" <=> l = 37) /\ (n = "m50462" <=> l = 33)
      BY <1>1, LengthOf
    <2> HIDE DEF l
    <2> QED
      BY <2>1, <2>2 DEF Codes
  <1> QED
    BY <1>2, <1>3

\* The stored wave, place by place.
LEMMA GeneratedAt ==
  ASSUME NEW p, Simple(p), NEW w \in Seq(Nat), Recognised(p, w)
  PROVE  /\ DOMAIN Generated(p, w) = DOMAIN w /\ Len(Generated(p, w)) = Len(w)
         /\ \A i \in DOMAIN p.ldc : Generated(p, w)[i] = p.ldc[i]
         /\ \A i \in 1 .. p.bits :
               /\ Generated(p, w)[MarkAt(p, i)] \in {p.com, w[MarkAt(p, i)]}
               /\ Generated(p, w)[MarkAt(p, i) + 1]
                     \in {w[MarkAt(p, i) + 1], IF Data(p, w)[i] = 1 THEN p.one ELSE p.zero}
  <1> DEFINE l == Len(p.ldc)
             g == Generated(p, w)
             n == IF p.bits <= WordBits THEN CodeLen(p) ELSE Len(p.ldc) + 1
  <1>1. l \in Nat /\ p.bits \in Nat \ {0} /\ CodeLen(p) = l + 2 * p.bits + 1 /\ Len(w) = CodeLen(p)
    BY DEF Simple, CodeLen, Recognised
  <1>2. DOMAIN w = 1 .. CodeLen(p) /\ DOMAIN p.ldc = 1 .. l
    BY <1>1 DEF Simple
  <1>3. g = [i \in DOMAIN w |-> IF i <= n THEN Width(p, Data(p, w), i) ELSE w[i]]
    BY DEF Generated
  <1>a. WordBits \in Nat
    BY IrcAssumption
  <1>4. n \in Nat /\ l < n /\ n <= CodeLen(p)
    BY SMTT(30), <1>1, <1>a
  <1>5. ASSUME NEW i \in 1 .. p.bits PROVE MarkAt(p, i) = l + 2 * i - 1
    <2>1. i \in Nat /\ ~(i > p.segment)
      BY <1>1 DEF Simple
    <2>2. MarkAt(p, i) = l + 2 * i - 1 + 0
      BY <2>1 DEF MarkAt
    <2> QED
      BY <1>1, <2>1, <2>2
  <1> HIDE DEF g, n, l
  <1>6. DOMAIN g = DOMAIN w /\ Len(g) = Len(w)
    BY <1>1, <1>2, <1>3
  <1>7. ASSUME NEW i \in DOMAIN p.ldc PROVE g[i] = p.ldc[i]
    <2>1. i \in DOMAIN w /\ i <= n /\ i \in Nat /\ i <= l
      BY SMTT(30), <1>1, <1>2, <1>4
    <2>2. Width(p, Data(p, w), i) = p.ldc[i]
      BY <1>1, <2>1 DEF Width, l
    <2> QED
      BY <1>3, <2>1, <2>2
  <1>8. ASSUME NEW i \in 1 .. p.bits
        PROVE  /\ g[MarkAt(p, i)] \in {p.com, w[MarkAt(p, i)]}
               /\ g[MarkAt(p, i) + 1]
                     \in {w[MarkAt(p, i) + 1], IF Data(p, w)[i] = 1 THEN p.one ELSE p.zero}
    <2> DEFINE j == l + 2 * i - 1
    <2>0. i \in Nat /\ i >= 1 /\ i <= p.bits
      BY <1>1
    <2>1. j \in DOMAIN w /\ j + 1 \in DOMAIN w /\ MarkAt(p, i) = j
      BY SMTT(30), <1>1, <1>2, <1>5, <2>0
    <2>2. j - l = 2 * i - 1 /\ (2 * i - 1) % 2 = 1 /\ ~(j - l <= 0)
      BY <1>1
    <2>3. (j + 1) - l = 2 * i /\ (2 * i) % 2 = 0 /\ (2 * i) \div 2 = i /\ ~((j + 1) - l <= 0)
      BY <1>1
    <2> HIDE DEF j
    <2>4. Width(p, Data(p, w), j) = p.com
      BY <2>2 DEF Width, l
    <2>5. Width(p, Data(p, w), j + 1) = IF Data(p, w)[i] = 1 THEN p.one ELSE p.zero
      BY <2>3 DEF Width, l
    <2> QED
      BY <1>3, <2>1, <2>4, <2>5
  <1> QED
    BY <1>6, <1>7, <1>8 DEF g

LEMMA GeneratedCode ==
  ASSUME NEW p, Simple(p), NEW w \in Seq(Nat), Recognised(p, w)
  PROVE  Recognised(p, Generated(p, w)) /\ Data(p, Generated(p, w)) = Data(p, w)
  <1> DEFINE g == Generated(p, w)
  <1>1. /\ Len(g) = Len(w) /\ \A i \in DOMAIN p.ldc : g[i] = p.ldc[i]
        /\ \A i \in 1 .. p.bits :
               /\ g[MarkAt(p, i)] \in {p.com, w[MarkAt(p, i)]}
               /\ g[MarkAt(p, i) + 1]
                     \in {w[MarkAt(p, i) + 1], IF Data(p, w)[i] = 1 THEN p.one ELSE p.zero}
    BY GeneratedAt
  <1> HIDE DEF g
  <1>2. ASSUME NEW i \in 1 .. p.bits
        PROVE  /\ Near(g[MarkAt(p, i)], p.com)
               /\ Near(g[MarkAt(p, i) + 1], p.zero) \/ Near(g[MarkAt(p, i) + 1], p.one)
               /\ Near(g[MarkAt(p, i) + 1], p.zero) <=> Near(w[MarkAt(p, i) + 1], p.zero)
    <2>1. Near(p.com, p.com) /\ Near(p.zero, p.zero) /\ Near(p.one, p.one) /\ ~Near(p.one, p.zero)
      BY DEF Simple
    <2>2. /\ Near(w[MarkAt(p, i)], p.com)
          /\ Near(w[MarkAt(p, i) + 1], p.zero) \/ Near(w[MarkAt(p, i) + 1], p.one)
      BY DEF Recognised
    <2>3. Data(p, w)[i] = IF Near(w[MarkAt(p, i) + 1], p.zero) THEN 0 ELSE 1
      BY DEF Data
    <2> QED
      BY SMTT(30), <1>1, <2>1, <2>2, <2>3
  <1>3. Recognised(p, g)
    BY <1>1, <1>2 DEF Recognised, Simple
  <1>4. Data(p, g) = Data(p, w)
    BY <1>2 DEF Data
  <1> QED
    BY <1>3, <1>4 DEF g

\* check_irc_wave keeps the code, and changes no wave that has none.
LEMMA StoredCode ==
  ASSUME NEW w \in Waves
  PROVE  /\ check_irc_wave(w) # <<>>
         /\ Code(check_irc_wave(w)) = Code(w)
         /\ Code(check_irc_wave(w)) = {} => check_irc_wave(w) = w
  <1>w. w \in Seq(Nat) /\ w # <<>>
    BY IrcAssumption
  <1>1. CASE ~ \E n \in DOMAIN Protocol \ {"m50560"} : Recognised(Protocol[n], w)
    BY <1>1, <1>w DEF check_irc_wave
  <1>2. CASE \E n \in DOMAIN Protocol \ {"m50560"} : Recognised(Protocol[n], w)
    <2>1. PICK n : n \in Checked /\ Recognised(Protocol[n], w)
                   /\ check_irc_wave(w) = Generated(Protocol[n], w)
      BY <1>2, ProtocolNames DEF check_irc_wave, Checked
    <2> DEFINE p == Protocol[n]
               g == Generated(Protocol[n], w)
    <2>2. Simple(p)
      BY <2>1, SimpleProtocols
    <2>3. Recognised(p, g) /\ Data(p, g) = Data(p, w) /\ DOMAIN g = DOMAIN w
      BY <1>w, <2>1, <2>2, GeneratedCode, GeneratedAt
    <2>4. Len(g) = Len(w) /\ g # <<>> /\ Len(w) = CodeLen(p)
      BY <1>w, <2>1, <2>2, <2>3, GeneratedAt DEF Recognised
    <2>g. Len(g) = 67 => g[1] \in Nat
      <3>1. SUFFICES ASSUME Len(g) = 67 PROVE g[1] \in Nat
        OBVIOUS
      <3>2. n \in {"nec", "tc9012"}
        <4>1. n \in Codes /\ 67 = CodeLen(Protocol[n])
          BY <2>1, <2>4, <3>1 DEF Checked
        <4> QED
          BY <4>1, LengthOf
      <3>a. Protocol.nec.ldc = <<9000, 4500>> /\ Protocol.tc9012.ldc = <<4500, 4500>>
        BY DEF Protocol
      <3>b. p.ldc = <<9000, 4500>> \/ p.ldc = <<4500, 4500>>
        BY <3>2, <3>a
      <3>3. <<9000, 4500>> \in Seq(Nat) /\ <<4500, 4500>> \in Seq(Nat)
        OBVIOUS
      <3>4. 1 \in DOMAIN p.ldc /\ p.ldc[1] \in Nat
        BY <3>b, <3>3
      <3>5. g[1] = p.ldc[1]
        BY <1>w, <2>1, <2>2, <3>4, GeneratedAt
      <3> QED
        BY <3>4, <3>5
    <2>w. Len(w) = 67 => w[1] \in Nat
      BY <1>w
    <2>5. {m \in DOMAIN Protocol : Recognised(Protocol[m], w)} = {n}
      BY <2>w, <2>1, ProtocolNames, OneCode DEF Checked
    <2>6. {m \in DOMAIN Protocol : Recognised(Protocol[m], g)} = {n}
      BY <2>1, <2>3, <2>g, ProtocolNames, OneCode DEF Checked
    <2> HIDE DEF g
    <2>7. Code(w) = {<<n, Data(p, w)>>} /\ Code(g) = {<<n, Data(p, g)>>}
      BY <2>5, <2>6 DEF Code
    <2> QED
      BY <2>1, <2>3, <2>4, <2>7 DEF g
  <1> QED
    BY <1>1, <1>2

-----------------------------------------------------------------------------
(***************************************************************************)
(* Learning.  The argument: the key shown as ready is the key the next     *)
(* wave is stored for, and the transmitter is idle from the moment learn   *)
(* mode is entered until it is left.                                       *)
(***************************************************************************)
Tables == Waves \cup {check_irc_wave(w) : w \in Waves} \cup {<<>>}
Keys == LearnKeys \cup {NoLearnKey}

IrcTypes ==
    /\ irc \in [learn_mode : BOOLEAN, keycode : Keys, has_set : BOOLEAN, cb : BOOLEAN]
    /\ sw_irc \in [learn_mode : BOOLEAN, notify : BOOLEAN, down : BOOLEAN,
                   tx : {"idle", "sending", "gap", "stopped"}, tab : Tables]
    /\ enabling \in {"no", "notify", "clear", "timer"}
    /\ pressing \in Keys
    /\ user \in [held : Keys, ready : Keys, counts : BOOLEAN]
    /\ flash_pulse_tab \in Tables
    /\ learn_nvram \in [LearnKeys -> Tables]
    /\ learned \in [LearnKeys -> Waves \cup {<<>>}]

\* The hardware abstraction: outside learn mode no key is being learned.
ModeOK ==
    /\ ~irc.learn_mode => irc.keycode = NoLearnKey /\ ~irc.has_set
    /\ irc.learn_mode => irc.cb /\ sw_irc.notify
    /\ pressing # NoLearnKey => irc.learn_mode

\* The key shown as ready is the key that is learned.
ReadyIsLearned ==
    /\ user.ready # NoLearnKey => irc.learn_mode /\ irc.has_set /\ irc.keycode = user.ready
    /\ pressing = NoLearnKey /\ irc.has_set /\ irc.keycode # NoLearnKey => user.ready = irc.keycode
    /\ pressing # NoLearnKey => irc.has_set
    /\ enabling # "no" => user.ready = NoLearnKey /\ pressing = NoLearnKey

\* Nothing is sent in learn mode.
Quiet ==
    /\ sw_irc.tx # "stopped"
    /\ irc.learn_mode \/ sw_irc.learn_mode \/ enabling # "no" => sw_irc.tx = "idle"

\* What is stored for a key is what was learned for it.
Stored == \A k \in LearnKeys : learned[k] # <<>> => learn_nvram[k] = check_irc_wave(learned[k])

\* What is sent is what is stored for the key that is held.
Sending ==
    user.counts => /\ sw_irc.tx \in {"sending", "gap"} /\ sw_irc.down /\ ~sw_irc.learn_mode
                   /\ user.held \in LearnKeys
                   /\ learned[user.held] # <<>> /\ sw_irc.tab = learn_nvram[user.held]

Learning == ModeOK /\ (~raced => ReadyIsLearned /\ Quiet /\ Stored /\ Sending)

IrcInv == IrcTypes /\ Learning

LEMMA IrcInvInit == IrcInit => IrcInv
  <1> SUFFICES ASSUME IrcInit PROVE IrcInv
    OBVIOUS
  <1> USE DEF IrcInit, IrcRam, NoUser
  <1>1. IrcTypes
    BY DEF IrcTypes, Keys, Tables
  <1>2. Learning
    BY DEF Learning, ModeOK, ReadyIsLearned, Quiet, Stored, Sending
  <1> QED
    BY <1>1, <1>2 DEF IrcInv

LEMMA OutputTypes ==
  ASSUME IrcTypes, NEW down \in BOOLEAN, NEW tab \in Tables, Output(down, tab)
  PROVE  /\ sw_irc' \in [learn_mode : BOOLEAN, notify : BOOLEAN, down : BOOLEAN,
                         tx : {"idle", "sending", "gap", "stopped"}, tab : Tables]
         /\ sw_irc'.notify = sw_irc.notify /\ sw_irc'.learn_mode = FALSE /\ sw_irc'.down = down
         /\ sw_irc.learn_mode /\ sw_irc.tx # "idle" => sw_irc'.tx = "stopped"
         /\ ~sw_irc.learn_mode /\ sw_irc.tx # "idle" => sw_irc'.tx = sw_irc.tx /\ sw_irc'.tab = sw_irc.tab
         /\ sw_irc.tx = "idle" /\ (~down \/ tab = <<>>) => sw_irc'.tx = "idle"
         /\ sw_irc.tx = "idle" /\ down /\ tab # <<>> => sw_irc'.tx = "sending" /\ sw_irc'.tab = tab
  <1>1. CASE sw_irc.learn_mode /\ down /\ sw_irc.tx = "idle" /\ tab # <<>>
    BY <1>1 DEF IrcTypes, Output, DriverOff
  <1>2. CASE sw_irc.learn_mode /\ ~(down /\ sw_irc.tx = "idle" /\ tab # <<>>)
    BY <1>2 DEF IrcTypes, Output, DriverOff
  <1>3. CASE ~sw_irc.learn_mode /\ down /\ sw_irc.tx = "idle" /\ tab # <<>>
    BY <1>3 DEF IrcTypes, Output
  <1>4. CASE ~sw_irc.learn_mode /\ ~(down /\ sw_irc.tx = "idle" /\ tab # <<>>)
    BY <1>4 DEF IrcTypes, Output
  <1> QED
    BY <1>1, <1>2, <1>3, <1>4

LEMMA DisableTypes ==
  ASSUME IrcTypes, disable_rx
  PROVE  /\ sw_irc' \in [learn_mode : BOOLEAN, notify : BOOLEAN, down : BOOLEAN,
                         tx : {"idle", "sending", "gap", "stopped"}, tab : Tables]
         /\ irc' \in [learn_mode : BOOLEAN, keycode : Keys, has_set : BOOLEAN, cb : BOOLEAN]
         /\ sw_irc.tx = "idle" => sw_irc'.tx = "idle"
         /\ ~irc'.learn_mode /\ irc'.keycode = NoLearnKey /\ ~irc'.has_set
  <1>1. irc' = [irc EXCEPT !.learn_mode = FALSE, !.keycode = NoLearnKey, !.has_set = FALSE]
    BY DEF disable_rx
  <1>2. sw_irc' = [DriverOff(sw_irc) EXCEPT !.notify = FALSE]
    BY DEF disable_rx
  <1>3. NoLearnKey \in Keys
    BY DEF Keys
  <1> QED
    BY <1>1, <1>2, <1>3 DEF IrcTypes, DriverOff

LEMMA IrcTypesStep == IrcTypes /\ [IrcNext]_ircVars => IrcTypes'
  <1> SUFFICES ASSUME IrcTypes, [IrcNext]_ircVars PROVE IrcTypes'
    OBVIOUS
  <1>k. NoLearnKey \in Keys /\ LearnKeys \subseteq Keys
    BY DEF Keys
  <1>t. <<>> \in Tables /\ Waves \subseteq Tables /\ \A w \in Waves : check_irc_wave(w) \in Tables
    BY DEF Tables
  <1>1. ASSUME NEW k \in LearnKeys, PressToLearn(k) PROVE IrcTypes'
    BY <1>1, <1>k DEF IrcTypes, PressToLearn
  <1>2. ASSUME NEW k \in LearnKeys, PressToSend(k) PROVE IrcTypes'
    <2>1. flash_pulse_tab' \in Tables
      BY <1>2 DEF IrcTypes, PressToSend
    <2>2. Output(TRUE, flash_pulse_tab')
      BY <1>2 DEF PressToSend
    <2>3. sw_irc' \in [learn_mode : BOOLEAN, notify : BOOLEAN, down : BOOLEAN,
                       tx : {"idle", "sending", "gap", "stopped"}, tab : Tables]
      BY <2>1, <2>2, OutputTypes
    <2>4. user' \in [held : Keys, ready : Keys, counts : BOOLEAN]
      BY <1>2, <1>k DEF IrcTypes, PressToSend
    <2> QED
      BY <1>2, <2>1, <2>3, <2>4 DEF IrcTypes, PressToSend
  <1>3. CASE PressReady
    BY <1>3, <1>k DEF IrcTypes, PressReady, ircHistory
  <1>4. CASE ReleaseKey
    <2>1. sw_irc' \in [learn_mode : BOOLEAN, notify : BOOLEAN, down : BOOLEAN,
                       tx : {"idle", "sending", "gap", "stopped"}, tab : Tables]
      BY <1>4, <1>t, OutputTypes DEF ReleaseKey, IrcTypes
    <2> QED
      BY <1>4, <1>k, <2>1 DEF IrcTypes, ReleaseKey, ircHistory
  <1>5. CASE exit_learn_mode
    BY <1>5, <1>k, DisableTypes DEF IrcTypes, exit_learn_mode, ircHistory
  <1>6. CASE EnableDriver
    BY <1>6 DEF IrcTypes, EnableDriver, ircHistory
  <1>7. CASE EnableNotify
    BY <1>7 DEF IrcTypes, EnableNotify, ircHistory
  <1>8. CASE EnableClear
    BY <1>8, <1>k DEF IrcTypes, EnableClear, ircHistory
  <1>9. CASE EnableTimer
    BY <1>9 DEF IrcTypes, EnableTimer, ircHistory
  <1>10. CASE learn_timeout_event
    BY <1>10, <1>k, DisableTypes DEF IrcTypes, learn_timeout_event, ircHistory
  <1>11. ASSUME NEW w \in Waves, Capture(w) PROVE IrcTypes'
    <2>1. learned' \in [LearnKeys -> Waves \cup {<<>>}]
      BY <1>11 DEF IrcTypes, Capture
    <2>2. user' \in [held : Keys, ready : Keys, counts : BOOLEAN]
      BY <1>11, <1>k DEF IrcTypes, Capture
    <2>3. irc' \in [learn_mode : BOOLEAN, keycode : Keys, has_set : BOOLEAN, cb : BOOLEAN]
      BY <1>11 DEF IrcTypes, Capture, LearnKeyDone
    <2>4. sw_irc' \in [learn_mode : BOOLEAN, notify : BOOLEAN, down : BOOLEAN,
                       tx : {"idle", "sending", "gap", "stopped"}, tab : Tables]
      BY <1>11, <1>t DEF IrcTypes, Capture
    <2>5. flash_pulse_tab' \in Tables /\ learn_nvram' \in [LearnKeys -> Tables]
      BY <1>11, <1>t DEF IrcTypes, Capture
    <2> QED
      BY <1>11, <2>1, <2>2, <2>3, <2>4, <2>5 DEF IrcTypes, Capture
  <1>12. CASE WaveSent
    BY <1>12 DEF IrcTypes, WaveSent, ircHistory
  <1>13. CASE RepeatOrEnd
    BY <1>13 DEF IrcTypes, RepeatOrEnd, ircHistory
  <1>14. CASE IrcBoot
    BY <1>14, <1>k, <1>t DEF IrcTypes, IrcBoot, IrcRam, NoUser, ircHistory
  <1>15. CASE UNCHANGED ircVars
    BY <1>15 DEF IrcTypes, ircVars
  <1> QED
    BY <1>1, <1>2, <1>3, <1>4, <1>5, <1>6, <1>7, <1>8, <1>9, <1>10, <1>11, <1>12, <1>13,
       <1>14, <1>15 DEF IrcNext

\* A wave that comes is stored for the key shown as ready, and for no other.
LEMMA CaptureStored ==
  ASSUME IrcInv, NEW w \in Waves, Capture(w), ~raced'
  PROVE  ReadyIsLearned' /\ Stored'
  <1> DEFINE Takes == /\ sw_irc.notify /\ irc.has_set /\ irc.learn_mode
                      /\ irc.keycode # NoLearnKey /\ Len(w) >= MIN_FIRST_CODE_NUM
  <1>1. ~raced /\ pressing = NoLearnKey /\ pressing' = pressing /\ enabling' = enabling
    BY DEF Capture
  <1>2. IrcTypes /\ ModeOK /\ ReadyIsLearned /\ Stored
    BY <1>1 DEF IrcInv, Learning
  <1>3. (user.ready # NoLearnKey /\ Len(w) >= MIN_FIRST_CODE_NUM) <=> Takes
    BY <1>1, <1>2 DEF ReadyIsLearned, ModeOK
  <1>4. CASE Takes
    <2>1. user.ready = irc.keycode /\ irc.keycode \in LearnKeys
      BY <1>1, <1>2, <1>4 DEF ReadyIsLearned, IrcTypes, Keys
    <2>2. /\ learn_nvram' = [learn_nvram EXCEPT ![irc.keycode] = check_irc_wave(w)]
          /\ learned' = [learned EXCEPT ![irc.keycode] = w]
          /\ irc' = [irc EXCEPT !.has_set = FALSE] /\ user' = [user EXCEPT !.ready = NoLearnKey]
      BY <1>3, <1>4, <2>1 DEF Capture, LearnKeyDone
    <2>3. Stored'
      BY <1>2, <2>1, <2>2 DEF Stored, IrcTypes
    <2>4. ~irc'.has_set /\ user'.ready = NoLearnKey
      BY <1>2, <2>2 DEF IrcTypes
    <2> QED
      BY <1>1, <2>3, <2>4 DEF ReadyIsLearned
  <1>5. CASE ~Takes
    <2>1. learn_nvram' = learn_nvram /\ irc' = irc /\ user' = user
      BY <1>5 DEF Capture
    <2>2. learned' = learned
      BY <1>3, <1>5 DEF Capture
    <2> QED
      BY <1>1, <1>2, <2>1, <2>2 DEF ReadyIsLearned, Stored
  <1> QED
    BY <1>4, <1>5

\* A key that is pressed sends what is stored for it, unless a wave is sent already.
LEMMA PressSends ==
  ASSUME IrcInv, NEW k \in LearnKeys, PressToSend(k), ~raced'
  PROVE  Quiet' /\ Sending'
  <1>1. ~raced /\ enabling = "no" /\ enabling' = "no" /\ ~irc.learn_mode /\ irc' = irc
    BY DEF PressToSend
  <1>2. IrcTypes /\ ModeOK /\ Quiet /\ Stored
    BY <1>1 DEF IrcInv, Learning
  <1>3. flash_pulse_tab' = IF learn_nvram[k] # <<>> THEN learn_nvram[k] ELSE flash_pulse_tab
    BY DEF PressToSend
  <1>4. flash_pulse_tab' \in Tables /\ Output(TRUE, flash_pulse_tab')
    <2>1. flash_pulse_tab' \in Tables
      BY <1>2, <1>3 DEF IrcTypes
    <2>2. Output(TRUE, flash_pulse_tab')
      BY DEF PressToSend
    <2> QED
      BY <2>1, <2>2
  <1>5. /\ sw_irc'.learn_mode = FALSE /\ sw_irc'.down = TRUE
        /\ sw_irc.tx # "idle" => sw_irc'.tx = sw_irc.tx
        /\ sw_irc.tx = "idle" /\ flash_pulse_tab' = <<>> => sw_irc'.tx = "idle"
        /\ sw_irc.tx = "idle" /\ flash_pulse_tab' # <<>>
              => sw_irc'.tx = "sending" /\ sw_irc'.tab = flash_pulse_tab'
    BY <1>2, <1>4, OutputTypes DEF Quiet
  <1>6. Quiet'
    BY <1>1, <1>2, <1>5 DEF Quiet
  <1>7. user'.held = k /\ user'.counts = (sw_irc.tx \notin {"sending", "gap"} /\ learned[k] # <<>>)
    BY <1>2 DEF IrcTypes, PressToSend
  <1>8. learned' = learned /\ learn_nvram' = learn_nvram
    BY DEF PressToSend
  <1>9. ASSUME user'.counts PROVE Sending'
    <2>1. sw_irc.tx = "idle" /\ learned[k] # <<>>
      BY <1>2, <1>7, <1>9 DEF IrcTypes, Quiet
    <2>2. learn_nvram[k] = check_irc_wave(learned[k]) /\ learned[k] \in Waves
      BY <1>2, <2>1 DEF Stored, IrcTypes
    <2>3. learn_nvram[k] # <<>>
      BY <2>2, StoredCode
    <2>4. flash_pulse_tab' = learn_nvram[k]
      BY <1>3, <2>3
    <2> QED
      BY <1>5, <1>7, <1>8, <2>1, <2>3, <2>4 DEF Sending
  <1> QED
    BY <1>6, <1>9 DEF Sending

LEMMA LearningStep == IrcInv /\ [IrcNext]_ircVars => Learning'
  <1> SUFFICES ASSUME IrcInv, [IrcNext]_ircVars PROVE Learning'
    OBVIOUS
  <1>i. IrcTypes /\ ModeOK /\ (~raced => ReadyIsLearned /\ Quiet /\ Stored /\ Sending)
    BY DEF IrcInv, Learning
  <1>1. ASSUME NEW k \in LearnKeys, PressToLearn(k) PROVE Learning'
    <2>1. /\ irc'.learn_mode /\ irc'.has_set /\ irc'.keycode = irc.keycode /\ irc'.cb = irc.cb
          /\ user'.ready = user.ready /\ user'.counts = user.counts /\ user'.held = k
      BY <1>1, <1>i DEF IrcTypes, PressToLearn
    <2>2. pressing' = k /\ k # NoLearnKey /\ irc.learn_mode /\ sw_irc' = sw_irc
      BY <1>1, IrcAssumption DEF PressToLearn
    <2>3. ModeOK'
      BY <1>i, <2>1, <2>2 DEF ModeOK
    <2>4. ASSUME ~raced' PROVE ReadyIsLearned' /\ Quiet' /\ Stored' /\ Sending'
      <3>1. ~raced /\ enabling = "no" /\ enabling' = "no"
        BY <1>1, <2>4 DEF PressToLearn
      <3>2. ReadyIsLearned'
        BY <1>i, <2>1, <2>2, <3>1 DEF ReadyIsLearned
      <3>3. Quiet'
        BY <1>i, <2>1, <2>2, <3>1 DEF Quiet
      <3>4. Stored'
        BY <1>1, <1>i, <3>1 DEF Stored, PressToLearn
      <3>5. ~user.counts
        BY <1>i, <2>2, <3>1 DEF Quiet, Sending
      <3> QED
        BY <2>1, <3>2, <3>3, <3>4, <3>5 DEF Sending
    <2> QED
      BY <2>3, <2>4 DEF Learning
  <1>2. ASSUME NEW k \in LearnKeys, PressToSend(k) PROVE Learning'
    <2>1. irc' = irc /\ pressing' = pressing /\ enabling' = enabling /\ ~irc.learn_mode
      BY <1>2 DEF PressToSend
    <2>2. user'.ready = user.ready
      BY <1>2, <1>i DEF IrcTypes, PressToSend
    <2>3. ModeOK'
      BY <1>i, <2>1 DEF ModeOK
    <2>4. ASSUME ~raced' PROVE ReadyIsLearned' /\ Stored'
      BY <1>2, <1>i, <2>1, <2>2, <2>4 DEF ReadyIsLearned, Stored, PressToSend
    <2> QED
      BY <1>2, <2>3, <2>4, PressSends DEF Learning
  <1>3. CASE PressReady
    <2>1. /\ irc'.learn_mode = irc.learn_mode /\ irc'.has_set = irc.has_set
          /\ irc'.keycode = pressing /\ irc'.cb = irc.cb
          /\ user'.ready = pressing /\ user'.counts = user.counts /\ user'.held = user.held
      BY <1>3, <1>i DEF IrcTypes, PressReady
    <2>2. pressing # NoLearnKey /\ pressing' = NoLearnKey /\ irc.learn_mode
      BY <1>3, <1>i DEF PressReady, ModeOK
    <2>3. sw_irc' = sw_irc /\ enabling' = enabling /\ learned' = learned
          /\ learn_nvram' = learn_nvram /\ raced' = raced
      BY <1>3 DEF PressReady, ircHistory
    <2> QED
      BY <1>i, <2>1, <2>2, <2>3 DEF Learning, ModeOK, ReadyIsLearned, Quiet, Stored, Sending
  <1>4. CASE ReleaseKey
    <2>1. /\ irc' = irc /\ pressing' = pressing /\ enabling' = enabling /\ raced' = raced
          /\ learned' = learned /\ learn_nvram' = learn_nvram
          /\ user'.ready = user.ready /\ user'.counts = FALSE
      BY <1>4, <1>i DEF IrcTypes, ReleaseKey, ircHistory
    <2>2. /\ sw_irc'.notify = sw_irc.notify
          /\ ~sw_irc.learn_mode => sw_irc'.tx = sw_irc.tx
          /\ sw_irc'.learn_mode => sw_irc.learn_mode
          /\ sw_irc.tx = "idle" => sw_irc'.tx = "idle"
      <3>1. CASE irc.learn_mode
        BY <1>4, <3>1 DEF ReleaseKey
      <3>2. CASE ~irc.learn_mode
        <4>1. Output(FALSE, <<>>) /\ <<>> \in Tables
          BY <1>4, <3>2 DEF ReleaseKey, Tables
        <4>2. /\ sw_irc'.notify = sw_irc.notify /\ sw_irc'.learn_mode = FALSE
              /\ ~sw_irc.learn_mode /\ sw_irc.tx # "idle" => sw_irc'.tx = sw_irc.tx
              /\ sw_irc.tx = "idle" => sw_irc'.tx = "idle"
          BY <1>i, <4>1, OutputTypes
        <4> QED
          BY <4>2
      <3> QED
        BY <3>1, <3>2
    <2> QED
      BY <1>i, <2>1, <2>2 DEF Learning, ModeOK, ReadyIsLearned, Quiet, Stored, Sending
  <1>5. CASE exit_learn_mode
    <2>1. /\ pressing = NoLearnKey /\ pressing' = pressing /\ enabling' = enabling /\ raced' = raced
          /\ learned' = learned /\ learn_nvram' = learn_nvram /\ irc.learn_mode
          /\ user'.ready = NoLearnKey /\ user'.counts = user.counts
      BY <1>5, <1>i DEF IrcTypes, exit_learn_mode, ircHistory
    <2>2. /\ sw_irc.tx = "idle" => sw_irc'.tx = "idle"
          /\ ~irc'.learn_mode /\ irc'.keycode = NoLearnKey /\ ~irc'.has_set
      BY <1>5, <1>i, DisableTypes DEF exit_learn_mode
    <2> QED
      BY <1>i, <2>1, <2>2 DEF Learning, ModeOK, ReadyIsLearned, Quiet, Stored, Sending
  <1>6. CASE EnableDriver
    <2>1. /\ sw_irc'.tx = "idle" /\ sw_irc'.notify = sw_irc.notify
          /\ user'.ready = user.ready /\ ~user'.counts
      BY <1>6, <1>i DEF IrcTypes, EnableDriver
    <2>2. /\ pressing = NoLearnKey /\ pressing' = pressing /\ raced' = raced /\ irc' = irc
          /\ learned' = learned /\ learn_nvram' = learn_nvram /\ ~irc.learn_mode
      BY <1>6 DEF EnableDriver, ircHistory
    <2> QED
      BY <1>i, <2>1, <2>2 DEF Learning, ModeOK, ReadyIsLearned, Quiet, Stored, Sending
  <1>7. CASE EnableNotify
    <2>1. /\ sw_irc'.tx = sw_irc.tx /\ sw_irc'.notify /\ irc'.learn_mode /\ irc'.cb
          /\ irc'.has_set = irc.has_set /\ irc'.keycode = irc.keycode
      BY <1>7, <1>i DEF IrcTypes, EnableNotify
    <2>2. /\ pressing = NoLearnKey /\ pressing' = pressing /\ raced' = raced /\ user' = user
          /\ learned' = learned /\ learn_nvram' = learn_nvram /\ enabling = "notify"
      BY <1>7 DEF EnableNotify, ircHistory
    <2> QED
      BY <1>i, <2>1, <2>2 DEF Learning, ModeOK, ReadyIsLearned, Quiet, Stored, Sending
  <1>8. CASE EnableClear
    <2>1. /\ irc'.learn_mode = irc.learn_mode /\ irc'.cb = irc.cb
          /\ ~irc'.has_set /\ irc'.keycode = NoLearnKey
      BY <1>8, <1>i DEF IrcTypes, EnableClear
    <2>2. /\ pressing = NoLearnKey /\ pressing' = pressing /\ raced' = raced /\ user' = user
          /\ learned' = learned /\ learn_nvram' = learn_nvram /\ sw_irc' = sw_irc
          /\ enabling = "clear"
      BY <1>8 DEF EnableClear, ircHistory
    <2> QED
      BY <1>i, <2>1, <2>2 DEF Learning, ModeOK, ReadyIsLearned, Quiet, Stored, Sending
  <1>9. CASE EnableTimer
    BY <1>9, <1>i DEF EnableTimer, ircHistory, Learning, ModeOK, ReadyIsLearned, Quiet, Stored, Sending
  <1>10. CASE learn_timeout_event
    <2>1. /\ pressing = NoLearnKey /\ pressing' = pressing /\ enabling' = enabling /\ raced' = raced
          /\ learned' = learned /\ learn_nvram' = learn_nvram
          /\ user'.counts = user.counts /\ user'.held = user.held
          /\ user'.ready = IF irc.cb THEN NoLearnKey ELSE user.ready
      BY <1>10, <1>i DEF IrcTypes, learn_timeout_event, ircHistory
    <2>2. CASE irc.learn_mode
      <3>1. /\ sw_irc.tx = "idle" => sw_irc'.tx = "idle"
            /\ ~irc'.learn_mode /\ irc'.keycode = NoLearnKey /\ ~irc'.has_set
        BY <1>10, <1>i, <2>2, DisableTypes DEF learn_timeout_event
      <3> QED
        BY <1>i, <2>1, <2>2, <3>1 DEF Learning, ModeOK, ReadyIsLearned, Quiet, Stored, Sending
    <2>3. CASE ~irc.learn_mode
      <3>1. irc' = irc /\ sw_irc' = sw_irc
        BY <1>10, <2>3 DEF learn_timeout_event
      <3> QED
        BY <1>i, <2>1, <2>3, <3>1 DEF Learning, ModeOK, ReadyIsLearned, Quiet, Stored, Sending
    <2> QED
      BY <2>2, <2>3
  <1>11. ASSUME NEW w \in Waves, Capture(w) PROVE Learning'
    <2>1. /\ sw_irc'.tx = sw_irc.tx /\ sw_irc'.notify = sw_irc.notify /\ sw_irc.learn_mode
          /\ irc'.learn_mode = irc.learn_mode /\ irc'.keycode = irc.keycode /\ irc'.cb = irc.cb
          /\ irc'.has_set => irc.has_set
      BY <1>11, <1>i DEF IrcTypes, Capture, LearnKeyDone
    <2>2. pressing' = pressing /\ enabling' = enabling /\ (raced => raced')
          /\ user'.counts = user.counts
      BY <1>11, <1>i DEF IrcTypes, Capture
    <2>3. ModeOK'
      BY <1>i, <2>1, <2>2 DEF ModeOK
    <2>4. ASSUME ~raced' PROVE Quiet' /\ Sending'
      BY <1>i, <2>1, <2>2, <2>4 DEF Quiet, Sending
    <2> QED
      BY <1>11, <2>3, <2>4, CaptureStored DEF Learning
  <1>12. CASE WaveSent
    <2>1. /\ sw_irc.tx = "sending" /\ sw_irc' = [sw_irc EXCEPT !.tx = "gap"]
          /\ UNCHANGED <<irc, learn_nvram, enabling, pressing, user, learned, raced>>
      BY <1>12 DEF WaveSent, ircHistory
    <2>2. sw_irc'.tx = "gap" /\ sw_irc'.notify = sw_irc.notify /\ sw_irc'.down = sw_irc.down
          /\ sw_irc'.tab = sw_irc.tab /\ sw_irc'.learn_mode = sw_irc.learn_mode
      BY <1>i, <2>1 DEF IrcTypes
    <2> QED
      BY <1>i, <2>1, <2>2 DEF Learning, ModeOK, ReadyIsLearned, Quiet, Stored, Sending
  <1>13. CASE RepeatOrEnd
    <2>1. /\ sw_irc.tx = "gap"
          /\ sw_irc' = [sw_irc EXCEPT !.tx = IF sw_irc.down THEN "sending" ELSE "idle"]
          /\ UNCHANGED <<irc, learn_nvram, enabling, pressing, user, learned, raced>>
      BY <1>13 DEF RepeatOrEnd, ircHistory
    <2>2. sw_irc'.tx = (IF sw_irc.down THEN "sending" ELSE "idle")
          /\ sw_irc'.notify = sw_irc.notify /\ sw_irc'.down = sw_irc.down
          /\ sw_irc'.tab = sw_irc.tab /\ sw_irc'.learn_mode = sw_irc.learn_mode
      BY <1>i, <2>1 DEF IrcTypes
    <2> QED
      BY <1>i, <2>1, <2>2 DEF Learning, ModeOK, ReadyIsLearned, Quiet, Stored, Sending
  <1>14. CASE IrcBoot
    BY <1>14, <1>i DEF IrcBoot, IrcRam, NoUser, ircHistory, Learning, ModeOK, ReadyIsLearned, Quiet,
       Stored, Sending
  <1>15. CASE UNCHANGED ircVars
    BY <1>15, <1>i DEF ircVars, Learning, ModeOK, ReadyIsLearned, Quiet, Stored, Sending
  <1> QED
    BY <1>1, <1>2, <1>3, <1>4, <1>5, <1>6, <1>7, <1>8, <1>9, <1>10, <1>11, <1>12, <1>13,
       <1>14, <1>15 DEF IrcNext

LEMMA IrcInvariant == IrcSpec => []IrcInv
  <1>1. IrcInv /\ [IrcNext]_ircVars => IrcInv'
    BY IrcTypesStep, LearningStep DEF IrcInv
  <1> QED
    BY <1>1, IrcInvInit, PTL DEF IrcSpec

-----------------------------------------------------------------------------
\* irc_device_send_learn_key, check_irc_wave: for all waves that may come, a key
\* that is held sends the code of the wave that came while it was shown as ready.
THEOREM IrcSentAsLearned == IrcSpec => []SentAsLearned
  <1>1. IrcInv => SentAsLearned
    <2>1. SUFFICES ASSUME IrcInv, user.counts, ~raced
                   PROVE  /\ sw_irc.tx \in {"sending", "gap"}
                          /\ Code(sw_irc.tab) = Code(learned[user.held])
                          /\ Code(sw_irc.tab) = {} => sw_irc.tab = learned[user.held]
      BY DEF SentAsLearned
    <2>2. IrcTypes /\ Stored /\ Sending
      BY <2>1 DEF IrcInv, Learning
    <2>3. /\ sw_irc.tx \in {"sending", "gap"} /\ user.held \in LearnKeys
          /\ learned[user.held] # <<>> /\ sw_irc.tab = learn_nvram[user.held]
      BY <2>1, <2>2 DEF Sending
    <2>4. sw_irc.tab = check_irc_wave(learned[user.held]) /\ learned[user.held] \in Waves
      BY <2>2, <2>3 DEF Stored, IrcTypes
    <2> QED
      BY <2>3, <2>4, StoredCode
  <1> QED
    BY <1>1, IrcInvariant, PTL
=============================================================================
