---------------------------- MODULE MCMsgManager ----------------------------
(***************************************************************************)
(* A callback and the main loop as senders, two messages, one async and    *)
(* two sync net_bufs: both pools run empty and both senders can wait at    *)
(* once.                                                                   *)
(***************************************************************************)
EXTENDS MsgManager

CONSTANTS rx, main, m1, m2, a1, s1, s2

MCSenders == {rx, main}
MCMsg == {m1, m2}
MCAsyncPool == {a1}
MCSyncPool == {s1, s2}
=============================================================================
