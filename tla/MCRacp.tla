------------------------------- MODULE MCRacp -------------------------------
(***************************************************************************)
(* The requests of the client: every opcode, every operator that is        *)
(* handled on its own, and one that is not supported.                      *)
(***************************************************************************)
EXTENDS Racp

MCRequests ==
    {Request("REPORT", o, 0) : o \in {"ALL", "FIRST", "LAST", "RANGE"}} \cup
    {Request("REPORT", "GREATER_OR_EQUAL", 2), Request("NUM", "GREATER_OR_EQUAL", 2)} \cup
    {Request("DELETE", o, 0) : o \in {"ALL", "FIRST", "LAST"}} \cup
    {Request("ABORT", "NULL", 0)}
=============================================================================
