---------------------------- MODULE MCComponents ----------------------------
(***************************************************************************)
(* Six components that share no state: the two stores of bonds, the record *)
(* access of the glucose services, the decoder of the ANCS client, the     *)
(* serial port of the module, and infrared learning.  A behaviour of the   *)
(* instance is one of a single component, chosen at the start; the others  *)
(* stay in an initial state.                                               *)
(***************************************************************************)
EXTENDS BondStore, KeyPool, MCRacp, AncsParse, UartModule, Irc

VARIABLE component

\* Empty attributes, a length in two fragments, data with the command identifier.
Attr(i, d) == [id |-> i, data |-> d]
MCMessages ==
    {<<Attr(0, <<7>>), Attr(1, <<>>), Attr(5, <<9, 0>>)>>,
     <<Attr(1, <<0, 7>>), Attr(2, <<7, 0, 7, 6>>), Attr(5, <<0>>)>>,
     <<Attr(1, <<>>), Attr(2, <<>>)>>,
     <<Attr(3, <<1, 2, 3, 4, 5, 0, 7, 8, 9, 10, 11, 12>>)>>}

\* Waves as they are received, every pulse too long: NEC, 7461 whose code does
\* not fit into a word; and a repeat code, which has too few pulses.
Received(p) ==
    [i \in 1 .. CodeLen(p) |-> (Width(p, [j \in 1 .. p.bits |-> (j \div 3) % 2], i) * 109) \div 100]
MCWaves ==
    {Received(Protocol.nec), Received(Protocol.m7461), <<9000, 2000, 560>>}

\* The choices of the components that are not looked at.
OneMessage == CHOOSE m \in AncsMessages : TRUE
OneSize == CHOOSE n \in FragmentSizes : TRUE

MCInit ==
    /\ component \in {"bond", "pool", "racp", "parse", "uart", "irc"}
    /\ BondInit /\ PoolInit
    /\ RacpInit /\ (component # "racp" => polite)
    /\ ParseInit /\ (component # "parse" => message = OneMessage /\ fragment = OneSize)
    /\ UartInit /\ (component # "uart" => role = "SLAVE")
    /\ IrcInit

MCNext ==
    /\ UNCHANGED component
    /\ \/ /\ component = "bond" /\ BondNext
          /\ UNCHANGED <<poolVars, racpVars, parseVars, uartVars, ircVars>>
       \/ /\ component = "pool" /\ PoolNext
          /\ UNCHANGED <<bondVars, racpVars, parseVars, uartVars, ircVars>>
       \/ /\ component = "racp" /\ RacpNext
          /\ UNCHANGED <<bondVars, poolVars, parseVars, uartVars, ircVars>>
       \/ /\ component = "parse" /\ ParseNext
          /\ UNCHANGED <<bondVars, poolVars, racpVars, uartVars, ircVars>>
       \/ /\ component = "uart" /\ UartNext
          /\ UNCHANGED <<bondVars, poolVars, racpVars, parseVars, ircVars>>
       \/ /\ component = "irc" /\ IrcNext
          /\ UNCHANGED <<bondVars, poolVars, racpVars, parseVars, uartVars>>

MCSpec ==
    /\ MCInit
    /\ [][MCNext]_<<component, bondVars, poolVars, racpVars, parseVars, uartVars, ircVars>>

\* The variables of each component have their types.
ComponentsTypeOK ==
    /\ BondTypeOK /\ PoolTypeOK /\ RacpTypeOK /\ ParseTypeOK /\ UartTypeOK
=============================================================================
