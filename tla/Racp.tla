-------------------------------- MODULE Racp --------------------------------
(***************************************************************************)
(* The record access control point of the glucose services                 *)
(* (samples/bluetooth/gatt/cgms.c and gls.c, which have the same code for  *)
(* it) with the record database (cgms_db.c, gls_db.c), and the session     *)
(* control point of cgms.c.                                                *)
(*                                                                         *)
(* Three parties: the BT RX thread (the client's writes and confirmations),*)
(* the system work queue, which carries out a request 400 ms after it was  *)
(* written and waits in bt_gatt_notify and k_sleep, and the timer          *)
(* interrupt, which stores a new measurement.  A thread gives way only     *)
(* where it waits.  A record is named by its sequence number or time       *)
(* offset.                                                                 *)
(***************************************************************************)
EXTENDS Integers, Sequences, FiniteSets

CONSTANTS DB_MAX_RECORDS,
          MaxRecord,      \* bound: the number of measurements taken
          Requests,       \* the requests of the client
          Gls             \* the glucose service, not the continuous one

NoOperand == 0
Request(opcode, operator, operand) ==
    [opcode |-> opcode, operator |-> operator, operand |-> operand]

ASSUME RacpAssumption ==
    /\ DB_MAX_RECORDS \in 1 .. 255   \* racp_proc_record_idx is a u8_t
    /\ MaxRecord \in Nat
    /\ \A r \in Requests : /\ r = Request(r.opcode, r.operator, r.operand)
                          /\ r.operand \in Nat /\ r.opcode # "NONE"
    /\ Gls \in BOOLEAN

VARIABLES
    db,           \* the database: is_in_use and the record of each entry
    records_num,
    taken,        \* the last sequence number
    racp_request, \* the last request written, accepted or not
    racp,         \* racp_state and the racp_proc_ variables
    work,         \* the delayed work is pending
    pc,           \* the work queue: "idle", "loop", "sent" or "wild"
    indicating,   \* racp_indicating: the response that is being indicated
    link,         \* connected, with both CCCs set
    polite,       \* history: the client waits for the response
    asked,        \* history: requests accepted and not yet answered
    sent,         \* history: records notified in this procedure
    disturbed,    \* history: something came between in this procedure
    stale         \* history: a client connected in the middle of a procedure
racpVars == <<db, records_num, taken, racp_request, racp, work, pc, indicating, link,
              polite, asked, sent, disturbed, stale>>

Entries == 1 .. DB_MAX_RECORDS
NoRequest == Request("NONE", "NULL", NoOperand)
Response(opcode, value, number) == [opcode |-> opcode, value |-> value, number |-> number]
NoResponse == Response("NONE", "NONE", 0)
NoProc == [state |-> "NO_COMM", operator |-> "NULL", operand |-> NoOperand, idx |-> 0]

RacpInit ==
    /\ db = [i \in Entries |-> [is_in_use |-> FALSE, record |-> 0]]
    /\ records_num = 0
    /\ taken = 0
    /\ racp_request = NoRequest
    /\ racp = NoProc
    /\ work = FALSE
    /\ pc = "idle"
    /\ indicating = NoResponse
    /\ link = FALSE
    /\ polite \in BOOLEAN
    /\ asked = NoRequest
    /\ sent = <<>>
    /\ disturbed = FALSE
    /\ stale = FALSE

-----------------------------------------------------------------------------
(***************************************************************************)
(* The database.                                                           *)
(***************************************************************************)
InUse == {i \in Entries : db[i].is_in_use}
LowestOf(S) == CHOOSE i \in S : \A j \in S : i <= j

\* db_record_get: the number of records bounds the index, is_in_use is not
\* looked at.
db_record_get(i) == db[i].record

Freed(i) == [db EXCEPT ![i].is_in_use = FALSE]
EmptyDbNot == db
EmptyDb == [i \in Entries |-> [db[i] EXCEPT !.is_in_use = FALSE]]

\* timer_handler, an interrupt, with db_record_add: the first free entry.
Measure ==
    /\ pc # "wild"
    /\ taken < MaxRecord
    /\ records_num < DB_MAX_RECORDS
    /\ taken' = taken + 1
    /\ IF InUse # Entries
       THEN /\ db' = [db EXCEPT ![LowestOf(Entries \ InUse)] =
                                    [is_in_use |-> TRUE, record |-> taken + 1]]
            /\ records_num' = records_num + 1
       ELSE UNCHANGED <<db, records_num>>
    /\ UNCHANGED <<racp_request, racp, work, pc, indicating, link, polite, asked, sent, disturbed, stale>>

-----------------------------------------------------------------------------
(***************************************************************************)
(* The client, as the BT RX thread sees it.                                *)
(***************************************************************************)
\* The work queue gives way to the RX thread only between two records.
RxRuns == pc \in {"idle", "sent"}

\* racp_write: the request is decoded into racp_request first, and then
\* refused if a procedure is in progress.
RefusedAbortToo(r) == racp.state # "NO_COMM"
RefusedAtOnce(r) == r.opcode # "ABORT" /\ racp.state # "NO_COMM"

racp_write(r) ==
    /\ link /\ RxRuns
    /\ polite => /\ indicating = NoResponse
                 /\ asked = NoRequest \/ (r.opcode = "ABORT" /\ asked.opcode = "REPORT")
    /\ racp_request' = r
    /\ work' = (work \/ ~RefusedAtOnce(r))
    /\ asked' = IF RefusedAtOnce(r) \/ ~polite THEN asked ELSE r
    /\ disturbed' = (pc # "idle")
    /\ UNCHANGED <<db, records_num, taken, racp, pc, indicating, link, polite, sent, stale>>

\* indicate_rsp: the confirmation also resets the state.
indicate_rsp ==
    /\ indicating # NoResponse /\ RxRuns
    /\ indicating' = NoResponse
    /\ racp' = [racp EXCEPT !.state = "NO_COMM"]
    /\ disturbed' = (pc # "idle")
    /\ UNCHANGED <<db, records_num, taken, racp_request, work, pc, link, polite, asked, sent, stale>>

\* The client connects and sets the CCCs.
RacpConnect ==
    /\ ~link /\ RxRuns
    /\ link' = TRUE
    /\ asked' = NoRequest
    /\ stale' = (stale \/ work \/ pc # "idle" \/ racp.state # "NO_COMM")
    /\ UNCHANGED <<db, records_num, taken, racp_request, racp, work, pc, indicating, polite, sent, disturbed>>

\* The link is lost: the CCCs are reset and a pending indication fails.  Only
\* the glucose sample calls gls_state_reset.
RacpDisconnect ==
    /\ link /\ RxRuns
    /\ link' = FALSE
    /\ indicating' = NoResponse
    /\ racp' = IF Gls \/ indicating # NoResponse THEN [racp EXCEPT !.state = "NO_COMM"] ELSE racp
    /\ disturbed' = (pc # "idle")
    /\ UNCHANGED <<db, records_num, taken, racp_request, work, pc, polite, asked, sent, stale>>

\* cgms_set_session_start_time, when the client starts a session.
StartSession ==
    /\ ~Gls /\ link /\ RxRuns
    /\ db' = EmptyDb
    /\ records_num' = 0
    /\ disturbed' = (pc # "idle")
    /\ UNCHANGED <<taken, racp_request, racp, work, pc, indicating, link, polite, asked, sent, stale>>

-----------------------------------------------------------------------------
(***************************************************************************)
(* The work queue.                                                         *)
(***************************************************************************)
\* racp_send: dropped while an indication is outstanding.
racp_send(response) ==
    /\ indicating' = IF link /\ indicating = NoResponse THEN response ELSE indicating
    /\ asked' = NoRequest

NoFilter == {"ALL", "FIRST", "LAST"}

\* The checks of operator and operand that REPORT, NUM and DELETE share.
OperatorCode(r) ==
    CASE r.operator \in NoFilter ->
            IF r.operand # NoOperand THEN "INVALID_OPERAND" ELSE "RESERVED"
      [] r.operator = "GREATER_OR_EQUAL" /\ r.opcode # "DELETE" ->
            IF r.operand = NoOperand THEN "INVALID_OPERAND" ELSE "RESERVED"
      [] r.operator \in {"GREATER_OR_EQUAL", "LESS_OR_EQUAL", "RANGE"} -> "OPERATOR_UNSUPPORTED"
      [] OTHER -> "INVALID_OPERATOR"

\* is_request_to_be_executed.  "IN_PROGRESS" is the refusal without a response.
response_code(r) ==
    CASE r.opcode = "ABORT" ->
            IF racp.state # "ACTIVE" THEN "ABORT_FAILED"
            ELSE IF r.operator # "NULL" THEN "INVALID_OPERATOR"
            ELSE IF r.operand # NoOperand THEN "INVALID_OPERAND" ELSE "SUCCESS"
      [] r.opcode # "ABORT" /\ racp.state # "NO_COMM" -> "IN_PROGRESS"
      [] r.opcode \in {"REPORT", "NUM", "DELETE"} /\ racp.state = "NO_COMM" -> OperatorCode(r)
      [] OTHER -> "OPCODE_UNSUPPORTED"

StateKept == racp
StateReset == [racp EXCEPT !.state = "NO_COMM"]

\* A request that is not carried out.
Refuse ==
    LET code == response_code(racp_request) IN
    /\ work /\ pc = "idle"
    /\ code # "RESERVED"
    /\ work' = FALSE
    /\ IF code = "IN_PROGRESS" THEN UNCHANGED <<racp, indicating, asked>>
       ELSE /\ racp' = StateReset
            /\ racp_send(Response(racp_request.opcode, code, 0))
    /\ UNCHANGED <<db, records_num, taken, racp_request, pc, link, polite, sent, disturbed, stale>>

Accepted(opcode) ==
    /\ work /\ pc = "idle"
    /\ racp_request.opcode = opcode /\ response_code(racp_request) = "RESERVED"
    /\ work' = FALSE

\* report_num_records_request_execute.
NumRecords(r) ==
    CASE r.operator = "ALL" -> records_num
      [] r.operator = "GREATER_OR_EQUAL" ->
            Cardinality({i \in 1 .. records_num : db_record_get(i) >= r.operand})
      [] OTHER -> IF records_num > 0 THEN 1 ELSE 0

ReportNum ==
    /\ Accepted("NUM")
    /\ racp_send(Response("NUM_RECS", "NULL", NumRecords(racp_request)))
    /\ UNCHANGED <<db, records_num, taken, racp_request, racp, pc, link, polite, sent, disturbed, stale>>

\* delete_records_request_execute.  db_record_delete_last counts up from the
\* last entry: if that is free the search leaves the array.
Delete ==
    /\ Accepted("DELETE")
    /\ \/ /\ racp_request.operator = "ALL"
          /\ db' = EmptyDb /\ records_num' = 0
          /\ racp_send(Response("DELETE", IF records_num > 0 THEN "SUCCESS" ELSE "NO_RECORDS_FOUND", 0))
          /\ UNCHANGED pc
       \/ /\ racp_request.operator = "FIRST"
          /\ db' = IF InUse # {} THEN Freed(LowestOf(InUse)) ELSE db
          /\ records_num' = IF InUse # {} THEN records_num - 1 ELSE records_num
          /\ racp_send(Response("DELETE", IF InUse # {} THEN "SUCCESS" ELSE "NO_RECORDS_FOUND", 0))
          /\ UNCHANGED pc
       \/ /\ racp_request.operator = "LAST" /\ DB_MAX_RECORDS \in InUse
          /\ db' = Freed(DB_MAX_RECORDS) /\ records_num' = records_num - 1
          /\ racp_send(Response("DELETE", "SUCCESS", 0))
          /\ UNCHANGED pc
       \/ /\ racp_request.operator = "LAST" /\ DB_MAX_RECORDS \notin InUse
          /\ pc' = "wild"
          /\ UNCHANGED <<db, records_num, indicating, asked>>
    /\ UNCHANGED <<taken, racp_request, racp, link, polite, sent, disturbed, stale>>

\* A deletion of the first record leaves a hole that no loop knows of.
HasHole == \E i, j \in Entries : i < j /\ ~db[i].is_in_use /\ db[j].is_in_use

\* report_records_request_execute.
Report ==
    /\ Accepted("REPORT")
    /\ racp' = [state |-> "ACTIVE", operator |-> racp_request.operator,
                operand |-> racp_request.operand, idx |-> 0]
    /\ pc' = "loop"
    /\ sent' = <<>>
    /\ disturbed' = HasHole
    /\ UNCHANGED <<db, records_num, taken, racp_request, indicating, link, polite, asked, stale>>

\* The index of the record to report next, or records_num if there is none.
\* racp_proc_record_idx is 8 bits wide and greater_or_equal ends at equality:
\* an index beyond the number of records comes round to 0.
ScanGreater(from) ==
    LET hits == {i \in from .. records_num - 1 : db_record_get(i + 1) > racp.operand}
    IN  IF hits = {} THEN records_num ELSE LowestOf(hits)
Scan(from) ==
    LET hits == {i \in from .. records_num - 1 : db_record_get(i + 1) >= racp.operand}
    IN  IF hits = {} THEN records_num ELSE LowestOf(hits)
NextIdx ==
    CASE racp.operator = "ALL" -> IF racp.idx >= records_num THEN records_num ELSE racp.idx
      [] racp.operator = "FIRST" -> IF sent # <<>> THEN records_num ELSE 0
      [] racp.operator = "LAST" -> IF sent # <<>> \/ records_num = 0 THEN records_num ELSE records_num - 1
      [] OTHER -> Scan(IF racp.idx > records_num THEN 0 ELSE racp.idx)

\* racp_report_records_completed.
completed ==
    racp_send(Response("REPORT", IF sent # <<>> THEN "SUCCESS" ELSE "NO_RECORDS_FOUND", 0))

\* The history of a procedure ends with it.
Forget == sent' = <<>> /\ disturbed' = FALSE

\* racp_report_records_procedure, until it waits or ends: it stops without a
\* response if the state or the request was changed ...
LoopEnds ==
    /\ pc = "loop"
    /\ racp.state # "ACTIVE" \/ racp_request.opcode # "REPORT"
    /\ pc' = "idle"
    /\ Forget
    /\ UNCHANGED <<db, records_num, taken, racp_request, racp, work, indicating, link,
                   polite, asked, stale>>

Looping == pc = "loop" /\ racp.state = "ACTIVE" /\ racp_request.opcode = "REPORT"

\* ... answers when there is no further record, ...
LoopDone ==
    /\ Looping
    /\ NextIdx = records_num
    /\ racp' = [racp EXCEPT !.state = "NO_COMM", !.idx = records_num]
    /\ completed
    /\ pc' = "idle"
    /\ Forget
    /\ UNCHANGED <<db, records_num, taken, racp_request, work, link, polite, stale>>

\* ... and notifies the next record otherwise.  If that fails there is no
\* response.
LoopSend ==
    /\ Looping
    /\ NextIdx # records_num
    /\ IF link
       THEN /\ sent' = Append(sent, db_record_get(NextIdx + 1))
            /\ racp' = [racp EXCEPT !.idx = NextIdx]
            /\ pc' = "sent"
            /\ UNCHANGED disturbed
       ELSE /\ racp' = [racp EXCEPT !.state = "NO_COMM"]
            /\ pc' = "idle"
            /\ Forget
    /\ UNCHANGED <<db, records_num, taken, racp_request, work, indicating, link, polite,
                   asked, stale>>

\* After the wait: the next record, or the response if the state was reset.
LoopNext ==
    /\ pc = "sent"
    /\ IF racp.state = "ACTIVE"
       THEN /\ racp' = [racp EXCEPT !.idx = (@ + 1) % 256]
            /\ pc' = "loop"
            /\ UNCHANGED <<indicating, asked, sent, disturbed>>
       ELSE /\ completed
            /\ pc' = "idle"
            /\ Forget
            /\ UNCHANGED racp
    /\ UNCHANGED <<db, records_num, taken, racp_request, work, link, polite, stale>>

RacpWork == Refuse \/ ReportNum \/ Delete \/ Report \/ LoopEnds \/ LoopDone \/ LoopSend \/ LoopNext

RacpNext ==
    \/ Measure
    \/ \E r \in Requests : racp_write(r)
    \/ indicate_rsp
    \/ RacpConnect \/ RacpDisconnect \/ StartSession
    \/ RacpWork

RacpSpec == RacpInit /\ [][RacpNext]_racpVars

-----------------------------------------------------------------------------
StoredRecords == [i \in 1 .. records_num |-> db[i].record]

\* The variables have their types; records_num, counted by three functions and an
\* interrupt, is the number of entries in use.
RacpTypeOK ==
    /\ db \in [Entries -> [is_in_use : BOOLEAN, record : 0 .. MaxRecord]]
    /\ records_num = Cardinality(InUse)
    /\ racp.state \in {"NO_COMM", "ACTIVE"} /\ racp.idx \in 0 .. 255
    /\ pc \in {"idle", "loop", "sent", "wild"}
    /\ work \in BOOLEAN /\ link \in BOOLEAN

\* A record that matches has this place in a report: the matches up to it.
Place(i) == Cardinality({j \in 1 .. i : db[j].record >= racp.operand})

\* What a report of the current procedure should have notified.
AllReported ==
    CASE racp.operator = "ALL" -> sent = StoredRecords
      [] racp.operator = "FIRST" -> sent = IF records_num = 0 THEN <<>> ELSE <<Head(StoredRecords)>>
      [] racp.operator = "LAST" -> Len(sent) = 1 \/ records_num = 0
      [] OTHER -> /\ Len(sent) = Place(records_num)
                  /\ \A i \in 1 .. records_num :
                        db[i].record >= racp.operand => sent[Place(i)] = db[i].record

\* racp_report_records_procedure: when a report ends with its response, every
\* record that matches has been notified once and in order, those measured
\* meanwhile too; unless the database has a hole, or a write, a late
\* confirmation or a new session came between.
ReportComplete ==
    [][LoopDone /\ ~disturbed => AllReported]_racpVars

\* racp_report_records_procedure: a client that waits for each response before
\* its next request, abort excepted, never sees two procedures at once: when a
\* response goes out no record follows, and nothing is left active.
ResponseEndsProcedure ==
    polite /\ ~stale /\ indicating # NoResponse
        => pc = "idle" /\ racp.state = "NO_COMM" /\ ~work

\* is_request_to_be_executed, racp_write: a request of such a client that was
\* accepted is not forgotten: the work that will answer it is pending or is being
\* done, whatever was measured, confirmed or aborted meanwhile.
NotForgotten ==
    polite /\ ~stale /\ link /\ asked # NoRequest => work \/ pc # "idle"
=============================================================================
