------------------------------ MODULE MCRmcSm -------------------------------
(***************************************************************************)
(* The instances differ in which timers expire, which keys are pressed and *)
(* what can fail, so that each stays small enough to be explored in full.  *)
(***************************************************************************)
EXTENDS RmcSm

FastTimers == {"ADV", "DIRECT_ADV", "SEC"}
PairTimers == {"ADV", "DIRECT_ADV", "PAIR_COMB", "SEC"}
SlowTimers == {"NO_ACT", "ADC_BATTERY", "HCI_COMB"}
DirectTimer == {"DIRECT_ADV"}
PlainKey == {"PLAIN"}
PairKey == {"PAIR_COMB"}
CombKeys == {"VOICE", "HCI_COMB"}
=============================================================================
