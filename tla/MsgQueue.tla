------------------------------ MODULE MsgQueue ------------------------------
(***************************************************************************)
(* What the message manager promises its users (ext/lib/actions/include/   *)
(* msg_manager.h): a bounded first-in first-out queue of messages.  A      *)
(* message that was accepted is handed to the main loop once, unchanged    *)
(* and in the order of acceptance; one that finds no room is refused,      *)
(* which changes nothing.  MsgManager is shown to implement this.          *)
(***************************************************************************)
EXTENDS Naturals, Sequences

CONSTANTS Msg,       \* the messages (struct app_msg)
          Capacity   \* how many of them the queue can hold

VARIABLES queue,     \* accepted and not yet received
          last       \* the message the main loop received last

qvars == <<queue, last>>

\* The main loop's struct app_msg starts out zeroed; 0 stands for that.
QInit == queue = <<>> /\ last = 0

Accept(m) ==
    /\ Len(queue) < Capacity
    /\ queue' = Append(queue, m)
    /\ UNCHANGED last

Take ==
    /\ queue # <<>>
    /\ last' = Head(queue)
    /\ queue' = Tail(queue)

QNext == Take \/ \E m \in Msg : Accept(m)

QSafe == QInit /\ [][QNext]_qvars

\* The main loop never stops receiving.
QSpec == QSafe /\ WF_qvars(Take)
=============================================================================
