------------------------------ MODULE MCOtaFt -------------------------------
(***************************************************************************)
(* Two overlapping files of two and three cells, a partition table of one, *)
(* data packets of one cell to the client and of any length from it, and   *)
(* counters modulo 8.                                                      *)
(***************************************************************************)
EXTENDS OtaFt

Range2(a, l) == [addr |-> a, len |-> l]
ThreeCells == {Range2(0, 3)}
OneCell == {Range2(0, 1)}
TwoCells == {Range2(1, 2)}
MCTable == Range2(1, 1)

AllButAbort == {"GET", "PUT", "DATA", "VERIFY", "ERASE", "VERSION", "RESET",
                "PARAM", "INVALID"}
Aborting == {"GET", "PUT", "DATA", "ABORT"}
=============================================================================
