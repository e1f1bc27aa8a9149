----------------------------- MODULE AncsProofs -----------------------------
(***************************************************************************)
(* The ANCS client, for every number of phones, links, security changes    *)
(* and notifications.                                                      *)
(***************************************************************************)
EXTENDS Ancs, TLAPS, SequenceTheorems

DiscTypes == {"PRIMARY", "CHARACTERISTIC", "DESCRIPTOR"}
Starts == {"SEC_OPEN"} \cup DiscTypes
MsgTypes == Starts \cup {"CONN_OPEN", "CONN_CLOSE", "COMPLETE", "ANCS_SERVICE"}
Stages == {"idle", "wild", "copy", "params", "flag"}
Messages == [type : MsgTypes, of : Nat, status : {0, 1}]
AnyPhone == Phones \cup {NoPhone}
HandleSets == [service : AnyPhone, chars : AnyPhone, ns_ccd : AnyPhone, ds_ccd : AnyPhone]
Uuids == [of : Nat, n : Nat]

\* The messages that wait, and the one in hand.
Tokens == {queue[i] : i \in DOMAIN queue} \cup {handling}
OnlyComplete == \A i \in DOMAIN queue : queue[i].type = "COMPLETE"
At(types) == {i \in DOMAIN queue : queue[i].type \in types}

\* The types of the state.
LinkTypes ==
    /\ pconn \in AnyPhone /\ links \in Nat /\ advertising \in BOOLEAN
    /\ count \in [security : Nat, notification : Nat]

QueueTypes ==
    /\ queue \in Seq(Messages)
    /\ handling \in [type : MsgTypes \cup Stages, of : Nat, status : {0, 1}]
    /\ handling.type = "idle" => handling = NoMessage

Discoveries == [found : BOOLEAN, char : {"ns_ccd", "ds_ccd"}, result : BOOLEAN, handles : HandleSets]
DiscoveryTypes ==
    /\ params \in DiscTypes \cup {"cleared"}
    /\ discovering \in Seq(DiscTypes)
    /\ disc \in Discoveries
    /\ nvm \in [present : BOOLEAN, handles : HandleSets]
    /\ notif_configuring \in BOOLEAN

Requests == [uuid : Uuids, first : Uuids, last : Uuids, write_params : BOOLEAN, pending : BOOLEAN]
RequestTypes == request \in Requests /\ writing \in Seq(Uuids \X Uuids)

AncsTypes == LinkTypes /\ QueueTypes /\ DiscoveryTypes /\ RequestTypes

\* The phases of a link.  While a phone is connected no CONN_CLOSE is on its way, and
\* advertising starts when it has been handled: but for a COMPLETE of the lost link the
\* queue is then empty, as it is while CONN_CLOSE is in hand.
CloseOrder ==
    \A i, j \in DOMAIN queue :
        i < j /\ queue[i].type = "CONN_CLOSE" => queue[j].type = "COMPLETE"
LinkPhases ==
    /\ pconn # NoPhone =>
          ~advertising /\ handling.type # "CONN_CLOSE" /\ At({"CONN_CLOSE"}) = {}
    /\ advertising => handling.type \in {"idle", "wild"}
    /\ advertising \/ handling.type = "CONN_CLOSE" => OnlyComplete
    /\ CloseOrder
    /\ pconn = NoPhone => writing = <<>> /\ discovering = <<>> /\ subscription = {}

\* Unless a link was lost while a message was handled, CONN_CLOSE is the last message
\* of its link: every message and the one in hand are of the last link.
NotLost == "lost while handling" \notin seen
CloseLast == \A i, j \in DOMAIN queue : i < j => queue[i].type # "CONN_CLOSE"
OfLink == \A m \in Tokens : m.type \notin {"idle", "wild"} => m.of = links
CloseIsLast ==
    NotLost =>
    /\ pconn = NoPhone => handling.type \in {"idle", "CONN_CLOSE", "wild"}
    /\ OfLink
    /\ advertising \/ handling.type = "CONN_CLOSE" => queue = <<>>
    /\ CloseLast

\* A notification that waits, or that is being asked for, is of the last link.
OwnUuids ==
    /\ \A m \in Tokens : m.type = "ANCS_SERVICE" => request.uuid.of = links
    /\ handling.type \in {"copy", "params"} => request.first.of = links
    /\ "torn" \notin seen =>
          /\ handling.type = "copy" => request.first = request.uuid
          /\ handling.type = "params" => request.first = request.last
          /\ \A i \in DOMAIN writing :
                writing[i][1] = writing[i][2] /\ writing[i][1].of = links

\* One request is with the host, and its parameters stand until the answer.
OneRequest ==
    "early answer" \notin seen =>
    /\ Len(writing) <= 1
    /\ writing # <<>> =>
          request.write_params /\ (request.pending \/ handling.type \in {"flag", "wild"})
    /\ handling.type = "params" => request.write_params \/ pconn = NoPhone

\* The steps of the discovery follow one another: a message of these types waits, or is
\* in hand, or a discovery runs, one of these at most; none before the link is secure.
NoneOf(types) == At(types) = {} /\ handling.type \notin types /\ discovering = <<>>
OneOf(types) ==
    /\ \A i, j \in At(types) : i = j
    /\ handling.type \in types => At(types) = {}
    /\ discovering # <<>> => At(types) = {} /\ handling.type \notin types
    /\ pconn # NoPhone /\ count.security = 0 => NoneOf(types)

OneDiscovery ==
    "secured twice" \notin seen =>
    /\ OneOf(Starts)
    /\ (discovering = <<>> /\ ~disc.found) \/ discovering = <<params>>

Chain == Starts \cup {"COMPLETE"}
OneChain == "secured twice" \notin seen /\ NotLost => OneOf(Chain)

\* What a message of the discovery, and the answer of the host, tell of the handles.
Tells(m) ==
    /\ m.type = "CHARACTERISTIC" /\ m.status = 0 => disc.handles.chars = pconn
    /\ m.type = "DESCRIPTOR" =>
          /\ disc.handles.chars = pconn
          /\ disc.char = "ds_ccd" => disc.handles.ns_ccd = pconn
          /\ m.status = 0 => disc.handles[disc.char] = pconn
    /\ m.type = "COMPLETE" /\ disc.result =>
          /\ disc.handles.chars = pconn
          /\ disc.handles.ns_ccd = pconn /\ disc.handles.ds_ccd = pconn
TokensTell == \A m \in Tokens : Tells(m)
AnswersTell ==
    discovering # <<>> =>
        /\ params = "CHARACTERISTIC" /\ disc.found => disc.handles.chars = pconn
        /\ params = "DESCRIPTOR" =>
              /\ disc.handles.chars = pconn
              /\ disc.char = "ds_ccd" => disc.handles.ns_ccd = pconn
              /\ disc.found => disc.handles[disc.char] = pconn
\* The handles are those of the phone that is connected.
HandlesFound ==
    "secured twice" \notin seen /\ NotLost /\ pconn # NoPhone =>
    /\ TokensTell
    /\ AnswersTell
    /\ subscription # {} /\ "failed" \notin seen => subscription = {pconn}
-----------------------------------------------------------------------------
(***************************************************************************)
(* What the operations do to the queue.                                    *)
(***************************************************************************)
LEMMA Appended ==
  ASSUME NEW S, NEW q \in Seq(S), NEW m \in S
  PROVE  /\ Append(q, m) \in Seq(S) /\ Append(q, m) # <<>>
         /\ DOMAIN Append(q, m) = DOMAIN q \cup {Len(q) + 1}
         /\ Append(q, m)[Len(q) + 1] = m
         /\ \A i \in DOMAIN q : Append(q, m)[i] = q[i] /\ i < Len(q) + 1
  <1>1. /\ Append(q, m) \in Seq(S) /\ Len(Append(q, m)) = Len(q) + 1
        /\ \A i \in 1 .. Len(q) : Append(q, m)[i] = q[i]
        /\ Append(q, m)[Len(q) + 1] = m
    BY AppendProperties
  <1>2. Len(q) \in Nat /\ DOMAIN q = 1 .. Len(q)
    OBVIOUS
  <1>3. DOMAIN Append(q, m) = 1 .. Len(q) + 1
    BY <1>1
  <1> QED
    BY <1>1, <1>2, <1>3

LEMMA Shifted ==
  ASSUME NEW S, NEW q \in Seq(S), q # <<>>
  PROVE  /\ Tail(q) \in Seq(S) /\ Head(q) \in S /\ Head(q) = q[1] /\ 1 \in DOMAIN q
         /\ \A i \in DOMAIN Tail(q) : i + 1 \in DOMAIN q /\ Tail(q)[i] = q[i + 1] /\ 1 < i + 1
         /\ \A i, j \in DOMAIN Tail(q) : i \in Nat /\ (i < j => i + 1 < j + 1)
  <1>1. Len(q) \in Nat \ {0} /\ DOMAIN q = 1 .. Len(q)
    OBVIOUS
  <1>2. /\ Tail(q) \in Seq(S) /\ Head(q) \in S /\ Len(Tail(q)) = Len(q) - 1
        /\ \A i \in 1 .. Len(Tail(q)) : Tail(q)[i] = q[i + 1]
    BY HeadTailProperties
  <1>3. DOMAIN Tail(q) = 1 .. Len(q) - 1
    BY <1>1, <1>2
  <1> QED
    BY <1>1, <1>2, <1>3

\* The messages of the end of a link.
CloseMsg == Msg("CONN_CLOSE", 0)
EndOfLink == IF discovering = <<>> THEN queue ELSE Append(queue, EndMsg)

LEMMA LinkEnds ==
  ASSUME AncsTypes, disconnected
  PROVE  /\ CloseMsg \in Messages /\ EndOfLink \in Seq(Messages)
         /\ discovering # <<>> => EndMsg \in Messages /\ params \in DiscTypes
         /\ queue' = Append(EndOfLink, CloseMsg)
  <1>1. CloseMsg \in Messages
    BY DEF AncsTypes, LinkTypes, QueueTypes, DiscoveryTypes, CloseMsg, Msg, Messages, MsgTypes
  <1>2. ASSUME discovering # <<>>
        PROVE  EndMsg \in Messages /\ params \in DiscTypes
    <2>1. params = Head(discovering)
      BY <1>2 DEF disconnected, Confused
    <2>2. params \in DiscTypes
      BY <1>2, <2>1 DEF AncsTypes, LinkTypes, QueueTypes, DiscoveryTypes
    <2> QED
      BY <2>2 DEF AncsTypes, LinkTypes, QueueTypes, DiscoveryTypes, EndMsg, Msg, Messages,
         MsgTypes, Starts
  <1>3. queue' = Append(EndOfLink, CloseMsg)
    <2>1. CASE discovering = <<>>
      <3>1. queue' = queue \o <<>> \o <<CloseMsg>>
        BY <2>1 DEF disconnected, CloseMsg
      <3>2. queue \o <<>> = queue /\ queue \o <<CloseMsg>> = Append(queue, CloseMsg)
        BY <1>1 DEF AncsTypes, QueueTypes
      <3> QED
        BY <2>1, <3>1, <3>2 DEF EndOfLink
    <2>2. CASE discovering # <<>>
      <3>1. queue' = queue \o <<EndMsg>> \o <<CloseMsg>>
        BY <2>2 DEF disconnected, CloseMsg
      <3>2. queue \o <<EndMsg>> = Append(queue, EndMsg)
        BY <1>2, <2>2 DEF AncsTypes, LinkTypes, QueueTypes, DiscoveryTypes
      <3>3. Append(queue, EndMsg) \in Seq(Messages)
        BY <1>2, <2>2 DEF AncsTypes, LinkTypes, QueueTypes, DiscoveryTypes
      <3>4. Append(queue, EndMsg) \o <<CloseMsg>> = Append(Append(queue, EndMsg), CloseMsg)
        BY <1>1, <3>3
      <3> QED
        BY <2>2, <3>1, <3>2, <3>4 DEF EndOfLink
    <2> QED
      BY <2>1, <2>2
  <1>4. EndOfLink \in Seq(Messages)
    BY <1>2 DEF AncsTypes, LinkTypes, QueueTypes, DiscoveryTypes, EndOfLink
  <1> QED
    BY <1>1, <1>2, <1>3, <1>4

-----------------------------------------------------------------------------
(***************************************************************************)
(* The types.                                                              *)
(***************************************************************************)
LEMMA AncsTypesInit == AncsInit => AncsTypes
  <1> SUFFICES ASSUME AncsInit PROVE AncsTypes
    OBVIOUS
  <1>1. LinkTypes
    BY DEF AncsInit, LinkTypes, AnyPhone
  <1>2. QueueTypes
    BY DEF AncsInit, QueueTypes, NoMessage, Stages
  <1>3. NoHandles \in HandleSets
    BY DEF NoHandles, HandleSets, AnyPhone
  <1>4. disc \in Discoveries
    BY <1>3 DEF AncsInit, NoDisc, Discoveries
  <1>5. nvm \in [present : BOOLEAN, handles : HandleSets]
    BY <1>3 DEF AncsInit
  <1>6. params \in DiscTypes \cup {"cleared"} /\ discovering \in Seq(DiscTypes)
    BY DEF AncsInit
  <1>7. DiscoveryTypes
    BY <1>4, <1>5, <1>6 DEF AncsInit, DiscoveryTypes
  <1>8. RequestTypes
    BY DEF AncsInit, RequestTypes, Requests, NoAncsRequest, Uuids, Uuid
  <1> QED
    BY <1>1, <1>2, <1>7, <1>8 DEF AncsTypes

LEMMA MsgTyped ==
  ASSUME LinkTypes, NEW t \in MsgTypes, NEW s \in {0, 1}
  PROVE  Msg(t, s) \in Messages
  BY DEF LinkTypes, Msg, Messages

LEMMA LinkTypesStep == LinkTypes /\ [AncsNext]_ancsVars => LinkTypes'
  <1> SUFFICES ASSUME LinkTypes, [AncsNext]_ancsVars PROVE LinkTypes'
    OBVIOUS
  <1> USE DEF LinkTypes
  <1>1. ASSUME NEW p \in Phones, connected(p) PROVE LinkTypes'
    <2>1. pconn' \in AnyPhone /\ links' \in Nat
      BY <1>1 DEF connected, AnyPhone
    <2>2. count' \in [security : Nat, notification : Nat]
      BY <1>1 DEF connected
    <2>3. advertising' = FALSE
      BY <1>1 DEF connected
    <2> QED
      BY <2>1, <2>2, <2>3
  <1>2. CASE security_changed
    <2>0. count' = [count EXCEPT !.security = @ + 1]
      BY <1>2 DEF security_changed
    <2>1. count' \in [security : Nat, notification : Nat]
      BY <2>0
    <2> QED
      BY <1>2, <2>1 DEF security_changed
  <1>3. CASE notify_func
    <2>1. count' \in [security : Nat, notification : Nat]
      BY <1>3 DEF notify_func
    <2> QED
      BY <1>3, <2>1 DEF notify_func
  <1>4. CASE disconnected
    BY <1>4 DEF disconnected, AnyPhone, AdvertisingLater
  <1>5. CASE HandleClose
    BY <1>5 DEF HandleClose
  <1>6. CASE AncsBoot
    BY <1>6 DEF AncsBoot, AnyPhone
  <1>7. CASE Confusion \/ discover_func_found \/ discover_func_end \/ write_func \/ Receive \/
             start_gatt_database_discovery \/ primary_service_by_uuid_cfm \/
             service_characteristic_cfm \/ characteristic_descriptor_cfm \/ HandleComplete \/
             CopyFirst \/ CopyLast \/ Write \/ SetPending \/ UNCHANGED ancsVars
    BY <1>7 DEF Confusion, discover_func_found, discover_func_end, write_func, Receive,
       start_gatt_database_discovery, primary_service_by_uuid_cfm, service_characteristic_cfm,
       characteristic_descriptor_cfm, HandleComplete, CopyFirst, CopyLast, Write, SetPending,
       ancsVars, linkVars
  <1> QED
    BY <1>1, <1>2, <1>3, <1>4, <1>5, <1>6, <1>7 DEF AncsNext, AncsRx, AncsMain

LEMMA QueueTypesStep == AncsTypes /\ [AncsNext]_ancsVars => QueueTypes'
  <1> SUFFICES ASSUME AncsTypes, [AncsNext]_ancsVars PROVE QueueTypes'
    OBVIOUS
  <1> USE DEF AncsTypes, QueueTypes
  <1>1. ASSUME NEW p \in Phones, connected(p) PROVE QueueTypes'
    <2>1. [type |-> OpenMsg, of |-> links + 1, status |-> 0] \in Messages
      BY DEF OpenMsg, Messages, MsgTypes, LinkTypes
    <2>2. queue' \in Seq(Messages)
      BY <1>1, <2>1, Appended DEF connected
    <2> QED
      BY <1>1, <2>2 DEF connected
  <1>2. CASE security_changed
    <2>1. Msg("SEC_OPEN", 0) \in Messages
      BY MsgTyped DEF MsgTypes, Starts
    <2>2. queue' \in Seq(Messages)
      BY <1>2, <2>1, Appended DEF security_changed
    <2> QED
      BY <1>2, <2>2 DEF security_changed
  <1>3. CASE notify_func
    <2>1. Msg("ANCS_SERVICE", 0) \in Messages
      BY MsgTyped DEF MsgTypes
    <2>2. queue' \in Seq(Messages)
      BY <1>3, <2>1, Appended DEF notify_func
    <2> QED
      BY <1>3, <2>2 DEF notify_func
  <1>4. CASE disconnected
    <2>1. queue' \in Seq(Messages)
      BY <1>4, LinkEnds, Appended
    <2> QED
      BY <1>4, <2>1 DEF disconnected
  <1>5. CASE discover_func_end
    <2>1. params \in DiscTypes
      BY <1>5 DEF discover_func_end, DiscoveryTypes
    <2>2. EndMsg \in Messages
      BY <2>1, MsgTyped DEF EndMsg, MsgTypes, Starts
    <2>3. queue' \in Seq(Messages)
      BY <1>5, <2>2, Appended DEF discover_func_end
    <2> QED
      BY <1>5, <2>3 DEF discover_func_end
  <1>6. CASE Receive
    <2>1. queue' \in Seq(Messages) /\ Head(queue) \in Messages
      BY <1>6, Shifted DEF Receive
    <2>2. handling' \in Messages \cup {NoMessage}
      BY <1>6, <2>1 DEF Receive
    <2>3. "idle" \notin MsgTypes
      BY DEF MsgTypes, Starts, DiscTypes
    <2> QED
      BY <2>1, <2>2, <2>3 DEF Messages, NoMessage, Stages
  <1>7. CASE primary_service_by_uuid_cfm \/ service_characteristic_cfm \/
             characteristic_descriptor_cfm
    <2>1. Msg("COMPLETE", 0) \in Messages
      BY MsgTyped DEF MsgTypes
    <2>2. queue' = queue \/ queue' = Append(queue, Msg("COMPLETE", 0))
      BY <1>7 DEF primary_service_by_uuid_cfm, service_characteristic_cfm,
         characteristic_descriptor_cfm, stop_gatt_database_discovery
    <2>3. queue' \in Seq(Messages)
      BY <2>1, <2>2, Appended
    <2>4. handling' = NoMessage
      BY <1>7 DEF primary_service_by_uuid_cfm, service_characteristic_cfm,
         characteristic_descriptor_cfm, Handles
    <2> QED
      BY <2>3, <2>4 DEF NoMessage, Stages
  <1>8. CASE Confusion
    BY <1>8 DEF Confusion, NoMessage, Stages
  <1>9. CASE write_func
    BY <1>9 DEF write_func, NoMessage, Stages
  <1>10. CASE Write
    BY <1>10 DEF Write, NoMessage, Stages
  <1>11. CASE HandleClose \/ start_gatt_database_discovery \/ HandleComplete \/ SetPending
    <2>1. handling' = NoMessage /\ queue' = queue
      BY <1>11 DEF HandleClose, start_gatt_database_discovery, HandleComplete, SetPending, Handles
    <2> QED
      BY <2>1 DEF NoMessage, Stages
  <1>12. CASE CopyFirst \/ CopyLast
    BY <1>12 DEF CopyFirst, CopyLast, Stages
  <1>13. CASE AncsBoot
    BY <1>13 DEF AncsBoot, NoMessage, Stages
  <1>14. CASE discover_func_found \/ UNCHANGED ancsVars
    BY <1>14 DEF discover_func_found, ancsVars
  <1> QED
    BY <1>1, <1>2, <1>3, <1>4, <1>5, <1>6, <1>7, <1>8, <1>9, <1>10, <1>11, <1>12, <1>13, <1>14
       DEF AncsNext, AncsRx, AncsMain

LEMMA DiscoveryTypesStep == AncsTypes /\ [AncsNext]_ancsVars => DiscoveryTypes'
  <1> SUFFICES ASSUME AncsTypes, [AncsNext]_ancsVars PROVE DiscoveryTypes'
    OBVIOUS
  <1> USE DEF AncsTypes, DiscoveryTypes
  <1>1. CASE disconnected
    <2>1. disc' \in Discoveries
      BY <1>1 DEF disconnected, Discoveries
    <2>2. discovering' = <<>> /\ params' \in {params, "cleared"}
      BY <1>1 DEF disconnected
    <2>3. params' \in DiscTypes \cup {"cleared"} /\ discovering' \in Seq(DiscTypes)
      BY <2>2
    <2> QED
      BY <1>1, <2>1, <2>3 DEF disconnected
  <1>2. CASE discover_func_found
    <2>1. Field(params) \in {"service", "chars", "ns_ccd", "ds_ccd"}
      BY DEF Field, Discoveries
    <2>2. pconn \in AnyPhone
      BY DEF LinkTypes
    <2>3. disc' \in Discoveries
      BY <1>2, <2>1, <2>2 DEF discover_func_found, HandleSets, Discoveries
    <2> QED
      BY <1>2, <2>3 DEF discover_func_found
  <1>3. CASE discover_func_end
    <2>1. disc' \in Discoveries
      BY <1>3 DEF discover_func_end, Discoveries
    <2>2. discovering' \in Seq(DiscTypes)
      BY <1>3, Shifted DEF discover_func_end
    <2> QED
      BY <1>3, <2>1, <2>2 DEF discover_func_end
  <1>4. CASE HandleClose
    BY <1>4 DEF HandleClose, ConfiguringReset
  <1>5. CASE start_gatt_database_discovery
    <2>1. params' \in DiscTypes \cup {"cleared"} /\ discovering' \in Seq(DiscTypes)
      BY <1>5, Appended DEF start_gatt_database_discovery, Discover, DiscTypes
    <2> QED
      BY <1>5, <2>1 DEF start_gatt_database_discovery, Discoveries
  <1>6. CASE primary_service_by_uuid_cfm
    <2>1. disc' \in Discoveries
      BY <1>6 DEF primary_service_by_uuid_cfm, Discoveries
    <2>2. params' \in DiscTypes \cup {"cleared"} /\ discovering' \in Seq(DiscTypes)
      <3>1. \/ UNCHANGED <<params, discovering>>
            \/ \E t \in DiscTypes : params' = t /\ discovering' = Append(discovering, t)
        BY <1>6 DEF primary_service_by_uuid_cfm, Discover, stop_gatt_database_discovery, DiscTypes
      <3> QED
        BY <3>1, Appended
    <2>3. nvm' \in [present : BOOLEAN, handles : HandleSets]
      BY <1>6 DEF primary_service_by_uuid_cfm, stop_gatt_database_discovery, Discoveries
    <2> QED
      BY <1>6, <2>1, <2>2, <2>3 DEF primary_service_by_uuid_cfm
  <1>7. CASE service_characteristic_cfm
    <2>1. disc' \in Discoveries
      BY <1>7 DEF service_characteristic_cfm, Discoveries
    <2>2. params' \in DiscTypes \cup {"cleared"} /\ discovering' \in Seq(DiscTypes)
      <3>1. \/ UNCHANGED <<params, discovering>>
            \/ \E t \in DiscTypes : params' = t /\ discovering' = Append(discovering, t)
        BY <1>7 DEF service_characteristic_cfm, Discover, stop_gatt_database_discovery, DiscTypes
      <3> QED
        BY <3>1, Appended
    <2>3. nvm' \in [present : BOOLEAN, handles : HandleSets]
      BY <1>7 DEF service_characteristic_cfm, stop_gatt_database_discovery, Discoveries
    <2> QED
      BY <1>7, <2>1, <2>2, <2>3 DEF service_characteristic_cfm
  <1>8. CASE characteristic_descriptor_cfm
    <2>1. disc' \in Discoveries
      BY <1>8 DEF characteristic_descriptor_cfm, Discoveries
    <2>2. params' \in DiscTypes \cup {"cleared"} /\ discovering' \in Seq(DiscTypes)
      <3>1. \/ UNCHANGED <<params, discovering>>
            \/ \E t \in DiscTypes : params' = t /\ discovering' = Append(discovering, t)
        BY <1>8 DEF characteristic_descriptor_cfm, Discover, stop_gatt_database_discovery,
           DiscTypes
      <3> QED
        BY <3>1, Appended
    <2>3. nvm' \in [present : BOOLEAN, handles : HandleSets]
      BY <1>8 DEF characteristic_descriptor_cfm, stop_gatt_database_discovery, Discoveries
    <2> QED
      BY <1>8, <2>1, <2>2, <2>3 DEF characteristic_descriptor_cfm
  <1>9. CASE HandleComplete
    BY <1>9 DEF HandleComplete
  <1>10. CASE AncsBoot
    <2>1. NoHandles \in HandleSets
      BY DEF NoHandles, HandleSets, AnyPhone
    <2>2. disc' \in Discoveries
      BY <1>10, <2>1 DEF AncsBoot, NoDisc, Discoveries
    <2>3. params' \in DiscTypes \cup {"cleared"} /\ discovering' \in Seq(DiscTypes)
      BY <1>10 DEF AncsBoot
    <2> QED
      BY <1>10, <2>2, <2>3 DEF AncsBoot
  <1>11. CASE (\E p \in Phones : connected(p)) \/ security_changed \/ notify_func \/ Confusion
             \/ write_func \/ Receive \/ CopyFirst \/ CopyLast \/ Write \/ SetPending \/
             UNCHANGED ancsVars
    BY <1>11 DEF connected, security_changed, notify_func, Confusion, write_func, Receive,
       CopyFirst, CopyLast, Write, SetPending, ancsVars, discVars
  <1> QED
    BY <1>1, <1>2, <1>3, <1>4, <1>5, <1>6, <1>7, <1>8, <1>9, <1>10, <1>11 DEF AncsNext, AncsRx,
       AncsMain

LEMMA RequestTypesStep == AncsTypes /\ [AncsNext]_ancsVars => RequestTypes'
  <1> SUFFICES ASSUME AncsTypes, [AncsNext]_ancsVars PROVE RequestTypes'
    OBVIOUS
  <1> USE DEF AncsTypes, RequestTypes
  <1>1. CASE disconnected
    <2>1. request' \in Requests
      BY <1>1 DEF disconnected, NotPending, Requests
    <2>2. writing' = <<>>
      BY <1>1 DEF disconnected
    <2>3. writing' \in Seq(Uuids \X Uuids)
      BY <2>2
    <2> QED
      BY <2>1, <2>3
  <1>2. CASE notify_func
    <2>1. Uuid(links, count.notification) \in Uuids
      BY DEF Uuid, Uuids, LinkTypes
    <2> QED
      BY <1>2, <2>1 DEF notify_func, Requests
  <1>3. CASE write_func
    <2>1. writing' \in Seq(Uuids \X Uuids)
      BY <1>3, Shifted DEF write_func
    <2> QED
      BY <1>3, <2>1 DEF write_func, NotPending, Requests
  <1>4. CASE CopyFirst \/ CopyLast \/ SetPending
    BY <1>4 DEF CopyFirst, CopyLast, SetPending, Requests
  <1>5. CASE Write
    <2>1. RequestCopied \in Uuids \X Uuids
      BY DEF RequestCopied, Requests
    <2>2. Append(writing, RequestCopied) \in Seq(Uuids \X Uuids)
      BY <2>1, Appended
    <2>3. writing' = writing \/ writing' = Append(writing, RequestCopied)
      BY <1>5 DEF Write
    <2>4. writing' \in Seq(Uuids \X Uuids)
      BY <2>2, <2>3
    <2> QED
      BY <1>5, <2>4 DEF Write
  <1>6. CASE AncsBoot
    BY <1>6 DEF AncsBoot, NoAncsRequest, Requests, Uuids, Uuid
  <1>7. CASE (\E p \in Phones : connected(p)) \/ security_changed \/ Confusion \/
             discover_func_found \/ discover_func_end \/ Receive \/ HandleClose \/
             start_gatt_database_discovery \/ primary_service_by_uuid_cfm \/
             service_characteristic_cfm \/ characteristic_descriptor_cfm \/ HandleComplete \/
             UNCHANGED ancsVars
    BY <1>7 DEF connected, security_changed, Confusion, discover_func_found, discover_func_end,
       Receive, HandleClose, start_gatt_database_discovery, primary_service_by_uuid_cfm,
       service_characteristic_cfm, characteristic_descriptor_cfm, HandleComplete, ancsVars,
       requestVars
  <1> QED
    BY <1>1, <1>2, <1>3, <1>4, <1>5, <1>6, <1>7 DEF AncsNext, AncsRx, AncsMain

LEMMA AncsTypesStep == AncsTypes /\ [AncsNext]_ancsVars => AncsTypes'
  BY LinkTypesStep, QueueTypesStep, DiscoveryTypesStep, RequestTypesStep DEF AncsTypes

-----------------------------------------------------------------------------
(***************************************************************************)
(* CONN_CLOSE closes a link: of the messages of a lost link only COMPLETE  *)
(* comes after it, and only if the link was lost while handling.           *)
(***************************************************************************)
LEMMA QueueAppended ==
  ASSUME QueueTypes, NEW m \in Messages, queue' = Append(queue, m)
  PROVE  /\ \A types : At(types)' = At(types) \cup (IF m.type \in types THEN {Len(queue) + 1} ELSE {})
         /\ Tokens' \subseteq Tokens \cup {m, handling'}
         /\ OnlyComplete /\ m.type = "COMPLETE" => OnlyComplete'
         /\ CloseOrder /\ (At({"CONN_CLOSE"}) = {} \/ m.type = "COMPLETE") => CloseOrder'
         /\ CloseLast /\ At({"CONN_CLOSE"}) = {} => CloseLast'
         /\ DOMAIN queue \subseteq Nat
  <1>1. /\ queue' \in Seq(Messages) /\ DOMAIN queue' = DOMAIN queue \cup {Len(queue) + 1}
        /\ queue'[Len(queue) + 1] = m
        /\ \A i \in DOMAIN queue : queue'[i] = queue[i] /\ i < Len(queue) + 1
    BY Appended DEF QueueTypes
  <1>2. DOMAIN queue = 1 .. Len(queue) /\ Len(queue) \in Nat
    BY DEF QueueTypes
  <1>3. \A types : At(types)' = At(types) \cup (IF m.type \in types THEN {Len(queue) + 1} ELSE {})
    BY <1>1 DEF At
  <1>4. Tokens' \subseteq Tokens \cup {m, handling'}
    BY <1>1 DEF Tokens
  <1>5. OnlyComplete /\ m.type = "COMPLETE" => OnlyComplete'
    BY <1>1 DEF OnlyComplete
  <1>6. \A i \in DOMAIN queue' : i # Len(queue) + 1 => i \in DOMAIN queue
    BY <1>1
  <1>7. \A j \in DOMAIN queue' : ~(Len(queue) + 1 < j)
    BY <1>1, <1>2
  <1>8. At({"CONN_CLOSE"}) = {} => \A i \in DOMAIN queue : queue[i].type # "CONN_CLOSE"
    BY DEF At
  <1>9. CloseOrder /\ (At({"CONN_CLOSE"}) = {} \/ m.type = "COMPLETE") => CloseOrder'
    BY <1>1, <1>6, <1>7, <1>8 DEF CloseOrder
  <1>10. CloseLast /\ At({"CONN_CLOSE"}) = {} => CloseLast'
    BY <1>1, <1>6, <1>7, <1>8 DEF CloseLast
  <1>11. DOMAIN queue \subseteq Nat
    BY <1>2
  <1> QED
    BY <1>3, <1>4, <1>5, <1>9, <1>10, <1>11

LEMMA QueueShifted ==
  ASSUME QueueTypes, queue # <<>>, queue' = Tail(queue)
  PROVE  /\ Head(queue) \in Messages /\ Head(queue) \in Tokens
         /\ \A types : \A i \in At(types)' : i + 1 \in At(types) /\ 1 # i + 1
         /\ \A types : Head(queue).type \in types => 1 \in At(types)
         /\ \A i \in DOMAIN queue' : i \in Nat
         /\ Tokens' \subseteq Tokens \cup {handling'}
         /\ OnlyComplete => OnlyComplete'
         /\ CloseOrder => CloseOrder' /\ (Head(queue).type = "CONN_CLOSE" => OnlyComplete')
         /\ CloseLast => CloseLast' /\ (Head(queue).type = "CONN_CLOSE" => queue' = <<>>)
  <1>1. /\ queue' \in Seq(Messages) /\ Head(queue) \in Messages /\ Head(queue) = queue[1]
        /\ 1 \in DOMAIN queue
        /\ \A i \in DOMAIN queue' : i + 1 \in DOMAIN queue /\ queue'[i] = queue[i + 1] /\ 1 < i + 1
        /\ \A i, j \in DOMAIN queue' : i \in Nat /\ (i < j => i + 1 < j + 1)
    BY Shifted DEF QueueTypes
  <1>2. Head(queue) \in Tokens /\ Tokens' \subseteq Tokens \cup {handling'}
    BY <1>1 DEF Tokens
  <1>3. \A types : \A i \in At(types)' : i + 1 \in At(types) /\ 1 # i + 1
    BY <1>1 DEF At
  <1>4. \A types : Head(queue).type \in types => 1 \in At(types)
    BY <1>1 DEF At
  <1>5. OnlyComplete => OnlyComplete'
    BY <1>1 DEF OnlyComplete
  <1>6. CloseOrder => CloseOrder'
    BY <1>1 DEF CloseOrder
  <1>7. CloseOrder /\ Head(queue).type = "CONN_CLOSE" => OnlyComplete'
    BY <1>1 DEF CloseOrder, OnlyComplete
  <1>8. CloseLast => CloseLast'
    BY <1>1 DEF CloseLast
  <1>9. CloseLast /\ Head(queue).type = "CONN_CLOSE" => queue' = <<>>
    <2>1. CloseLast /\ Head(queue).type = "CONN_CLOSE" => DOMAIN queue' = {}
      BY <1>1 DEF CloseLast
    <2> QED
      BY <1>1, <2>1
  <1> QED
    BY <1>1, <1>2, <1>3, <1>4, <1>5, <1>6, <1>7, <1>8, <1>9

LEMMA QueueLost ==
  ASSUME AncsTypes, disconnected, At({"CONN_CLOSE"}) = {}
  PROVE  /\ CloseOrder' /\ CloseLast'
         /\ Tokens' \subseteq Tokens \cup {CloseMsg} \cup (IF discovering = <<>> THEN {} ELSE {EndMsg})
         /\ \A types : "CONN_CLOSE" \notin types =>
               At(types)' = At(types) \cup
                   (IF discovering # <<>> /\ params \in types THEN {Len(queue) + 1} ELSE {})
         /\ DOMAIN queue \subseteq Nat
  <1> DEFINE e == EndOfLink
  <1>1. /\ CloseMsg \in Messages /\ e \in Seq(Messages)
        /\ discovering # <<>> => EndMsg \in Messages /\ params \in DiscTypes
        /\ queue' = Append(e, CloseMsg)
    BY LinkEnds
  <1>2. CloseMsg.type = "CONN_CLOSE" /\ EndMsg.type = params
    BY DEF CloseMsg, EndMsg, Msg
  <1>3. discovering # <<>> =>
           /\ DOMAIN e = DOMAIN queue \cup {Len(queue) + 1} /\ e[Len(queue) + 1] = EndMsg
           /\ \A i \in DOMAIN queue : e[i] = queue[i]
    BY <1>1, Appended DEF AncsTypes, QueueTypes, EndOfLink
  <1>4. discovering = <<>> => e = queue
    BY DEF EndOfLink
  <1> HIDE DEF e
  <1>5. /\ DOMAIN queue' = DOMAIN e \cup {Len(e) + 1} /\ queue'[Len(e) + 1] = CloseMsg
        /\ \A i \in DOMAIN e : queue'[i] = e[i] /\ i < Len(e) + 1
    BY <1>1, Appended
  <1>6. DOMAIN e = 1 .. Len(e) /\ Len(e) \in Nat
    BY <1>1
  <1>7. \A i \in DOMAIN e : e[i].type # "CONN_CLOSE"
    <2>1. \A i \in DOMAIN queue : queue[i].type # "CONN_CLOSE"
      BY DEF At
    <2>2. discovering # <<>> => EndMsg.type # "CONN_CLOSE"
      BY <1>1, <1>2 DEF DiscTypes
    <2> QED
      BY <1>3, <1>4, <2>1, <2>2
  <1>8. \A j \in DOMAIN queue' : ~(Len(e) + 1 < j)
    BY <1>5, <1>6
  <1>9. \A i, j \in DOMAIN queue' : i < j => queue'[i].type # "CONN_CLOSE"
    BY <1>5, <1>7, <1>8
  <1>10. CloseOrder' /\ CloseLast'
    BY <1>9 DEF CloseOrder, CloseLast
  <1>11. handling' = handling
    BY DEF disconnected
  <1>12. Tokens' \subseteq Tokens \cup {CloseMsg} \cup (IF discovering = <<>> THEN {} ELSE {EndMsg})
    BY <1>3, <1>4, <1>5, <1>11 DEF Tokens
  <1>13. ASSUME NEW types, "CONN_CLOSE" \notin types
         PROVE  At(types)' = At(types) \cup
                   (IF discovering # <<>> /\ params \in types THEN {Len(queue) + 1} ELSE {})
    <2>1. At(types)' = {i \in DOMAIN e : e[i].type \in types}
      BY <1>2, <1>5, <1>13 DEF At
    <2>2. CASE discovering = <<>>
      BY <1>4, <2>1, <2>2 DEF At
    <2>3. CASE discovering # <<>>
      BY <1>2, <1>3, <2>1, <2>3 DEF At
    <2> QED
      BY <2>2, <2>3
  <1>14. DOMAIN queue \subseteq Nat
    BY DEF AncsTypes, QueueTypes
  <1> QED
    BY <1>10, <1>12, <1>13, <1>14

\* The messages that the two threads send.
LEMMA MessageTypes ==
  /\ LinkTypes => Msg("SEC_OPEN", 0) \in Messages /\ Msg("ANCS_SERVICE", 0) \in Messages
  /\ LinkTypes => Msg("COMPLETE", 0) \in Messages
  /\ LinkTypes => [type |-> OpenMsg, of |-> links + 1, status |-> 0] \in Messages
  /\ LinkTypes /\ DiscoveryTypes /\ discover_func_end => EndMsg \in Messages /\ params \in DiscTypes
  /\ \A t, s : Msg(t, s).type = t /\ Msg(t, s).of = links /\ Msg(t, s).status = s
  /\ EndMsg.type = params /\ EndMsg.of = links /\ (EndMsg.status = 0 <=> disc.found)
  <1>1. LinkTypes => /\ Msg("SEC_OPEN", 0) \in Messages /\ Msg("ANCS_SERVICE", 0) \in Messages
                     /\ Msg("COMPLETE", 0) \in Messages
    BY MsgTyped DEF MsgTypes, Starts
  <1>2. LinkTypes => [type |-> OpenMsg, of |-> links + 1, status |-> 0] \in Messages
    BY DEF OpenMsg, Messages, MsgTypes, LinkTypes
  <1>3. DiscoveryTypes /\ discover_func_end => params \in DiscTypes
    BY DEF discover_func_end, DiscoveryTypes
  <1>4. LinkTypes /\ params \in DiscTypes => EndMsg \in Messages
    BY MsgTyped DEF EndMsg, MsgTypes, Starts
  <1>5. \A t, s : Msg(t, s).type = t /\ Msg(t, s).of = links /\ Msg(t, s).status = s
    BY DEF Msg
  <1>6. EndMsg.type = params /\ EndMsg.of = links /\ (EndMsg.status = 0 <=> disc.found)
    BY <1>5 DEF EndMsg
  <1> QED
    BY <1>1, <1>2, <1>3, <1>4, <1>5, <1>6

\* What a reply to a discovery does: at most COMPLETE is sent.
Cfm == primary_service_by_uuid_cfm \/ service_characteristic_cfm \/ characteristic_descriptor_cfm
LEMMA CfmSends ==
  ASSUME Cfm
  PROVE  /\ handling.type \in DiscTypes /\ handling' = NoMessage
         /\ \/ queue' = queue
            \/ queue' = Append(queue, Msg("COMPLETE", 0)) /\ UNCHANGED <<params, discovering>>
         /\ UNCHANGED <<linkVars, notif_configuring, subscription, requestVars, seen>>
  BY DEF Cfm, primary_service_by_uuid_cfm, service_characteristic_cfm,
         characteristic_descriptor_cfm, Handles, stop_gatt_database_discovery, DiscTypes

LEMMA LinkPhasesStep == AncsTypes /\ LinkPhases /\ [AncsNext]_ancsVars => LinkPhases'
  <1> SUFFICES ASSUME AncsTypes, LinkPhases, [AncsNext]_ancsVars PROVE LinkPhases'
    OBVIOUS
  <1> USE DEF AncsTypes
  <1>1. ASSUME NEW p \in Phones, connected(p) PROVE LinkPhases'
    <2> DEFINE m == [type |-> OpenMsg, of |-> links + 1, status |-> 0]
    <2>1. /\ m \in Messages
          /\ queue' = Append(queue, m)
          /\ handling' = handling
          /\ m.type = "CONN_OPEN"
      BY <1>1, MessageTypes DEF connected, OpenMsg
    <2> HIDE DEF m
    <2>2. At({"CONN_CLOSE"}) = {} /\ handling.type = "idle"
      BY <1>1 DEF connected, Alive, LinkPhases, OnlyComplete, At
    <2>3. At({"CONN_CLOSE"})' = {} /\ CloseOrder'
      BY <2>1, <2>2, QueueAppended DEF LinkPhases
    <2> QED
      BY <1>1, <2>1, <2>2, <2>3, AncsAssumption DEF connected, LinkPhases
  <1>2. CASE security_changed
    <2>1. /\ Msg("SEC_OPEN", 0) \in Messages
          /\ queue' = Append(queue, Msg("SEC_OPEN", 0))
          /\ handling' = handling
      BY <1>2, MessageTypes DEF security_changed, linkVars, discVars, requestVars
    <2>2. At({"CONN_CLOSE"}) = {}
      BY <1>2 DEF security_changed, LinkPhases
    <2>m. Msg("SEC_OPEN", 0).type # "CONN_CLOSE"
      BY MessageTypes
    <2>3. At({"CONN_CLOSE"})' = {} /\ CloseOrder'
      BY <2>1, <2>2, <2>m, QueueAppended DEF LinkPhases
    <2> QED
      BY <1>2, <2>3 DEF security_changed, LinkPhases, linkVars, discVars, requestVars
  <1>3. CASE notify_func
    <2>1. /\ Msg("ANCS_SERVICE", 0) \in Messages
          /\ queue' = Append(queue, Msg("ANCS_SERVICE", 0))
          /\ handling' = handling
      BY <1>3, MessageTypes DEF notify_func, linkVars, discVars, requestVars
    <2>2. At({"CONN_CLOSE"}) = {}
      BY <1>3 DEF notify_func, LinkPhases
    <2>m. Msg("ANCS_SERVICE", 0).type # "CONN_CLOSE"
      BY MessageTypes
    <2>3. At({"CONN_CLOSE"})' = {} /\ CloseOrder'
      BY <2>1, <2>2, <2>m, QueueAppended DEF LinkPhases
    <2> QED
      BY <1>3, <2>3 DEF notify_func, LinkPhases, linkVars, discVars, requestVars
  <1>4. CASE discover_func_end
    <2>1. EndMsg \in Messages /\ queue' = Append(queue, EndMsg) /\ EndMsg.type # "CONN_CLOSE"
      BY <1>4, MessageTypes DEF discover_func_end, DiscTypes
    <2>2. pconn # NoPhone /\ At({"CONN_CLOSE"}) = {}
      BY <1>4 DEF discover_func_end, LinkPhases
    <2>3. At({"CONN_CLOSE"})' = {} /\ CloseOrder'
      BY <2>1, <2>2, QueueAppended DEF LinkPhases
    <2> QED
      BY <1>4, <2>2, <2>3 DEF discover_func_end, LinkPhases, linkVars
  <1>5. CASE disconnected
    <2>1. ~advertising /\ handling.type # "CONN_CLOSE" /\ At({"CONN_CLOSE"}) = {}
      BY <1>5 DEF disconnected, LinkPhases
    <2>2. CloseOrder'
      BY <1>5, <2>1, QueueLost
    <2> QED
      BY <1>5, <2>1, <2>2 DEF disconnected, LinkPhases, AdvertisingLater
  <1>6. CASE Receive
    <2>1. CloseOrder' /\ (OnlyComplete => OnlyComplete')
      BY <1>6, QueueShifted DEF Receive, LinkPhases
    <2>2. Head(queue).type = "CONN_CLOSE" => OnlyComplete'
      BY <1>6, QueueShifted DEF Receive, LinkPhases
    <2>3. pconn # NoPhone => Head(queue).type # "CONN_CLOSE" /\ At({"CONN_CLOSE"})' = {}
      BY <1>6, QueueShifted DEF Receive, LinkPhases
    <2>4. advertising => Head(queue).type = "COMPLETE" /\ pconn = NoPhone
      BY <1>6, QueueShifted DEF Receive, LinkPhases, OnlyComplete
    <2>5. advertising => handling'.type = "idle"
      BY <1>6, <2>4 DEF Receive, NoMessage
    <2>6. handling'.type = "CONN_CLOSE" => Head(queue).type = "CONN_CLOSE"
      BY <1>6 DEF Receive, NoMessage
    <2> QED
      BY <1>6, <2>1, <2>2, <2>3, <2>5, <2>6 DEF Receive, LinkPhases, linkVars, discVars,
         requestVars
  <1>7. CASE primary_service_by_uuid_cfm \/ service_characteristic_cfm \/
             characteristic_descriptor_cfm
    <2>1. /\ handling.type \in DiscTypes /\ handling' = NoMessage
          /\ \/ queue' = queue
             \/ queue' = Append(queue, Msg("COMPLETE", 0)) /\ UNCHANGED <<params, discovering>>
          /\ UNCHANGED <<linkVars, notif_configuring, subscription, requestVars, seen>>
      BY <1>7, CfmSends DEF Cfm
    <2>2. ~advertising /\ handling.type # "CONN_CLOSE" /\ handling'.type = "idle"
      BY <2>1 DEF LinkPhases, DiscTypes, NoMessage
    <2>3. /\ CloseOrder' /\ (At({"CONN_CLOSE"}) = {} => At({"CONN_CLOSE"})' = {})
      <3>1. CASE queue' = queue
        BY <3>1 DEF LinkPhases, CloseOrder, At
      <3>2. CASE queue' = Append(queue, Msg("COMPLETE", 0))
        <4>1. Msg("COMPLETE", 0) \in Messages /\ Msg("COMPLETE", 0).type = "COMPLETE"
          BY MessageTypes
        <4> QED
          BY <3>2, <4>1, QueueAppended DEF LinkPhases
      <3> QED
        BY <2>1, <3>1, <3>2
    <2>4. pconn = NoPhone => discovering' = discovering
      BY <1>7 DEF primary_service_by_uuid_cfm, service_characteristic_cfm,
         characteristic_descriptor_cfm, Discover, stop_gatt_database_discovery
    <2> QED
      BY <2>1, <2>2, <2>3, <2>4 DEF LinkPhases, linkVars, requestVars
  <1>8. CASE start_gatt_database_discovery
    BY <1>8 DEF start_gatt_database_discovery, Handles, Discover, linkVars, discVars,
       requestVars, LinkPhases, CloseOrder, At, OnlyComplete, NoMessage
  <1>9. CASE HandleClose
    <2>1. pconn = NoPhone /\ OnlyComplete
      BY <1>9 DEF HandleClose, Handles, LinkPhases
    <2> QED
      BY <1>9, <2>1 DEF HandleClose, Handles, linkVars, discVars, requestVars, LinkPhases,
         CloseOrder, At, OnlyComplete, NoMessage
  <1>10. CASE HandleComplete
    BY <1>10 DEF HandleComplete, Handles, linkVars, discVars, requestVars, LinkPhases,
       CloseOrder, At, OnlyComplete, NoMessage
  <1>11. CASE Write
    BY <1>11 DEF Write, linkVars, discVars, requestVars, LinkPhases, CloseOrder, At,
       OnlyComplete, NoMessage, MayWrite, QueueTypes
  <1>12. CASE write_func
    BY <1>12 DEF write_func, linkVars, discVars, requestVars, LinkPhases, CloseOrder, At,
       OnlyComplete, NoMessage
  <1>13. CASE Confusion
    BY <1>13 DEF Confusion, linkVars, discVars, requestVars, LinkPhases, CloseOrder, At,
       OnlyComplete, NoMessage
  <1>14. CASE discover_func_found \/ SetPending
    BY <1>14 DEF discover_func_found, SetPending, linkVars, discVars, requestVars, LinkPhases,
       CloseOrder, At, OnlyComplete, NoMessage
  <1>15. CASE CopyFirst \/ CopyLast
    BY <1>15 DEF CopyFirst, CopyLast, linkVars, discVars, requestVars, LinkPhases, CloseOrder,
       At, OnlyComplete, QueueTypes
  <1>16. CASE AncsBoot
    BY <1>16 DEF AncsBoot, LinkPhases, CloseOrder, At, OnlyComplete, NoMessage
  <1>17. CASE UNCHANGED ancsVars
    BY <1>17 DEF ancsVars, LinkPhases, CloseOrder, At, OnlyComplete
  <1> QED
    BY <1>1, <1>2, <1>3, <1>4, <1>5, <1>6, <1>7, <1>8, <1>9, <1>10, <1>11, <1>12, <1>13, <1>14,
       <1>15, <1>16, <1>17 DEF AncsNext, AncsRx, AncsMain

\* A step that leaves the queue alone, and does not start to handle a message.
LEMMA CloseKept ==
  ASSUME AncsTypes, CloseIsLast, queue' = queue, links' = links, pconn' = pconn,
         advertising' = advertising, NotLost' => NotLost,
         handling' \in {handling, NoMessage, [NoMessage EXCEPT !.type = "wild"]}
  PROVE  CloseIsLast'
  <1>1. handling' = handling \/ handling'.type \in {"idle", "wild"}
    BY DEF NoMessage
  <1>2. OfLink => OfLink'
    BY <1>1 DEF OfLink, Tokens
  <1> QED
    BY <1>1, <1>2 DEF CloseIsLast, CloseLast

LEMMA CloseIsLastStep ==
  AncsTypes /\ LinkPhases /\ CloseIsLast /\ [AncsNext]_ancsVars => CloseIsLast'
  <1> SUFFICES ASSUME AncsTypes, LinkPhases, CloseIsLast, [AncsNext]_ancsVars PROVE CloseIsLast'
    OBVIOUS
  <1> USE DEF AncsTypes, CloseIsLast
  <1>1. ASSUME NEW p \in Phones, connected(p) PROVE CloseIsLast'
    <2> DEFINE m == [type |-> OpenMsg, of |-> links + 1, status |-> 0]
    <2>1. m \in Messages /\ queue' = Append(queue, m) /\ handling' = handling /\ m.of = links + 1
      BY <1>1, MessageTypes DEF connected
    <2> HIDE DEF m
    <2>2. handling.type = "idle" /\ (NotLost => queue = <<>>)
      BY <1>1 DEF connected, Alive, LinkPhases
    <2>3. pconn' # NoPhone /\ advertising' = FALSE /\ links' = links + 1 /\ seen' = seen
      BY <1>1, AncsAssumption DEF connected
    <2>4. NotLost => At({"CONN_CLOSE"}) = {} /\ Tokens = {handling}
      BY <2>2 DEF At, Tokens
    <2>5. NotLost => CloseLast'
      BY <2>1, <2>4, QueueAppended
    <2>6. NotLost => Tokens' \subseteq {handling, m}
      BY <2>1, <2>4, QueueAppended
    <2>7. NotLost => OfLink'
      BY <2>1, <2>2, <2>3, <2>6 DEF OfLink
    <2> QED
      BY <2>1, <2>2, <2>3, <2>5, <2>7 DEF NotLost
  <1>2. CASE security_changed
    <2>1. /\ Msg("SEC_OPEN", 0) \in Messages
          /\ queue' = Append(queue, Msg("SEC_OPEN", 0))
          /\ handling' = handling
      BY <1>2, MessageTypes DEF security_changed, linkVars, discVars, requestVars
    <2>2. At({"CONN_CLOSE"}) = {} /\ pconn # NoPhone /\ ~advertising /\ handling.type # "CONN_CLOSE"
      BY <1>2 DEF security_changed, LinkPhases
    <2>3. CloseLast => CloseLast'
      BY <2>1, <2>2, QueueAppended
    <2>4. links' = links /\ pconn' = pconn /\ advertising' = advertising /\ (NotLost' => NotLost)
      BY <1>2 DEF security_changed, linkVars, NotLost
    <2>5. Msg("SEC_OPEN", 0).of = links
      BY MessageTypes
    <2>6. OfLink => OfLink'
      BY <2>1, <2>4, <2>5, QueueAppended DEF OfLink, Tokens
    <2> QED
      BY <2>1, <2>2, <2>3, <2>4, <2>6
  <1>3. CASE notify_func
    <2>1. /\ Msg("ANCS_SERVICE", 0) \in Messages
          /\ queue' = Append(queue, Msg("ANCS_SERVICE", 0))
          /\ handling' = handling
      BY <1>3, MessageTypes DEF notify_func, linkVars, discVars, requestVars
    <2>2. At({"CONN_CLOSE"}) = {} /\ pconn # NoPhone /\ ~advertising /\ handling.type # "CONN_CLOSE"
      BY <1>3 DEF notify_func, LinkPhases
    <2>3. CloseLast => CloseLast'
      BY <2>1, <2>2, QueueAppended
    <2>4. links' = links /\ pconn' = pconn /\ advertising' = advertising /\ (NotLost' => NotLost)
      BY <1>3 DEF notify_func, linkVars, NotLost
    <2>5. Msg("ANCS_SERVICE", 0).of = links
      BY MessageTypes
    <2>6. OfLink => OfLink'
      BY <2>1, <2>4, <2>5, QueueAppended DEF OfLink, Tokens
    <2> QED
      BY <2>1, <2>2, <2>3, <2>4, <2>6
  <1>4. CASE discover_func_end
    <2>1. EndMsg \in Messages /\ queue' = Append(queue, EndMsg) /\ handling' = handling
      BY <1>4, MessageTypes DEF discover_func_end, linkVars, discVars, requestVars
    <2>2. At({"CONN_CLOSE"}) = {} /\ pconn # NoPhone /\ ~advertising /\ handling.type # "CONN_CLOSE"
      BY <1>4 DEF discover_func_end, LinkPhases
    <2>3. CloseLast => CloseLast'
      BY <2>1, <2>2, QueueAppended
    <2>4. links' = links /\ pconn' = pconn /\ advertising' = advertising /\ (NotLost' => NotLost)
      BY <1>4 DEF discover_func_end, linkVars, NotLost
    <2>5. EndMsg.of = links
      BY MessageTypes
    <2>6. OfLink => OfLink'
      BY <2>1, <2>4, <2>5, QueueAppended DEF OfLink, Tokens
    <2> QED
      BY <2>1, <2>2, <2>3, <2>4, <2>6
  <1>5. CASE disconnected
    <2>1. ~advertising /\ handling.type # "CONN_CLOSE" /\ At({"CONN_CLOSE"}) = {}
      BY <1>5 DEF disconnected, LinkPhases
    <2>2. /\ CloseLast'
          /\ Tokens' \subseteq Tokens \cup {CloseMsg} \cup (IF discovering = <<>> THEN {} ELSE {EndMsg})
      BY <1>5, <2>1, QueueLost
    <2>3. CloseMsg.of = links /\ EndMsg.of = links
      BY MessageTypes DEF CloseMsg
    <2>4. /\ links' = links /\ handling' = handling /\ advertising' = advertising
          /\ NotLost' => NotLost /\ handling = NoMessage
      BY <1>5 DEF disconnected, AdvertisingLater, NotLost
    <2>5. OfLink => OfLink'
      BY <2>2, <2>3, <2>4 DEF OfLink
    <2> QED
      BY <2>1, <2>2, <2>4, <2>5 DEF NoMessage
  <1>6. CASE Receive
    <2>1. /\ CloseLast => CloseLast' /\ (Head(queue).type = "CONN_CLOSE" => queue' = <<>>)
          /\ Head(queue) \in Tokens /\ Tokens' \subseteq Tokens \cup {handling'}
      BY <1>6, QueueShifted DEF Receive
    <2>2. /\ links' = links
          /\ pconn' = pconn
          /\ advertising' = advertising
          /\ seen' = seen
          /\ queue # <<>>
      BY <1>6 DEF Receive, linkVars
    <2>3. handling' = NoMessage \/ handling' = Head(queue)
      BY <1>6 DEF Receive
    <2>4. NoMessage.type = "idle"
      BY DEF NoMessage
    <2>5. OfLink => OfLink'
      BY <2>1, <2>2, <2>3, <2>4 DEF OfLink
    <2>6. pconn = NoPhone => handling'.type \in {"idle", "CONN_CLOSE"}
      BY <1>6, <2>4 DEF Receive
    <2>7. handling'.type = "CONN_CLOSE" => Head(queue).type = "CONN_CLOSE"
      BY <2>3, <2>4
    <2> QED
      BY <2>1, <2>2, <2>5, <2>6, <2>7 DEF NotLost
  <1>7. CASE primary_service_by_uuid_cfm \/ service_characteristic_cfm \/
             characteristic_descriptor_cfm
    <2>1. /\ handling.type \in DiscTypes /\ handling' = NoMessage
          /\ queue' = queue \/ queue' = Append(queue, Msg("COMPLETE", 0))
          /\ links' = links /\ pconn' = pconn /\ advertising' = advertising /\ seen' = seen
      BY <1>7, CfmSends DEF Cfm, linkVars
    <2>2. handling.type \notin {"idle", "CONN_CLOSE", "wild"} /\ handling'.type = "idle"
      BY <2>1 DEF DiscTypes, NoMessage
    <2>3. CASE queue' = queue
      BY <2>1, <2>3, CloseKept DEF NotLost
    <2>4. CASE queue' = Append(queue, Msg("COMPLETE", 0)) /\ NotLost
      <3>1. pconn # NoPhone /\ At({"CONN_CLOSE"}) = {} /\ ~advertising
        BY <2>2, <2>4 DEF LinkPhases
      <3>2. Msg("COMPLETE", 0) \in Messages /\ Msg("COMPLETE", 0).of = links
        BY MessageTypes
      <3>3. CloseLast' /\ Tokens' \subseteq Tokens \cup {Msg("COMPLETE", 0), handling'}
        BY <2>4, <3>1, <3>2, QueueAppended
      <3>4. OfLink'
        BY <2>1, <2>2, <2>4, <3>2, <3>3 DEF OfLink
      <3> QED
        BY <2>1, <2>2, <3>1, <3>3, <3>4
    <2> QED
      BY <2>1, <2>3, <2>4 DEF NotLost
  <1>8. CASE HandleClose
    <2>1. /\ queue' = queue /\ links' = links /\ handling' = NoMessage /\ seen' = seen
          /\ handling.type = "CONN_CLOSE"
      BY <1>8 DEF HandleClose, Handles
    <2>2. NoMessage.type = "idle"
      BY DEF NoMessage
    <2>3. OfLink => OfLink'
      BY <2>1, <2>2 DEF OfLink, Tokens
    <2> QED
      BY <2>1, <2>2, <2>3 DEF NotLost, CloseLast
  <1>9. CASE CopyFirst \/ CopyLast
    <2>1. /\ queue' = queue /\ links' = links /\ pconn' = pconn /\ advertising' = advertising
          /\ seen' = seen /\ handling.type \in {"ANCS_SERVICE", "copy"}
      BY <1>9 DEF CopyFirst, CopyLast, linkVars
    <2>2. handling'.of = handling.of /\ handling'.type \in {"copy", "params"}
      BY <1>9 DEF CopyFirst, CopyLast, QueueTypes
    <2>3. OfLink => OfLink'
      BY <2>1, <2>2 DEF OfLink, Tokens
    <2> QED
      BY <2>1, <2>2, <2>3 DEF NotLost, CloseLast
  <1>10. CASE Write
    <2>1. /\ queue' = queue /\ links' = links /\ pconn' = pconn /\ advertising' = advertising
          /\ seen' = seen /\ handling.type = "params"
      BY <1>10 DEF Write, linkVars
    <2>2. \/ handling' = NoMessage
          \/ handling'.of = handling.of /\ handling'.type = "flag"
      BY <1>10 DEF Write, QueueTypes
    <2>3. CASE handling' = NoMessage
      BY <2>1, <2>3, CloseKept DEF NotLost
    <2>4. CASE handling'.of = handling.of /\ handling'.type = "flag"
      <3>1. OfLink => OfLink'
        BY <2>1, <2>4 DEF OfLink, Tokens
      <3> QED
        BY <2>1, <2>4, <3>1 DEF NotLost, CloseLast
    <2> QED
      BY <2>2, <2>3, <2>4
  <1>11. CASE discover_func_found \/ start_gatt_database_discovery \/ HandleComplete \/
             SetPending
    <2>1. /\ queue' = queue /\ links' = links /\ pconn' = pconn /\ advertising' = advertising
          /\ NotLost' => NotLost
      BY <1>11 DEF discover_func_found, start_gatt_database_discovery, HandleComplete,
         SetPending, linkVars, NotLost
    <2>2. handling' \in {handling, NoMessage, [NoMessage EXCEPT !.type = "wild"]}
      BY <1>11 DEF discover_func_found, start_gatt_database_discovery, HandleComplete,
         SetPending, linkVars, Handles
    <2> QED
      BY <2>1, <2>2, CloseKept
  <1>12. CASE Confusion \/ write_func
    <2>1. /\ queue' = queue /\ links' = links /\ pconn' = pconn /\ advertising' = advertising
          /\ NotLost' => NotLost
      BY <1>12 DEF Confusion, write_func, linkVars, NotLost
    <2>2. handling' \in {handling, NoMessage, [NoMessage EXCEPT !.type = "wild"]}
      BY <1>12 DEF Confusion, write_func, linkVars, Handles
    <2> QED
      BY <2>1, <2>2, CloseKept
  <1>13. CASE AncsBoot
    BY <1>13 DEF AncsBoot, OfLink, Tokens, CloseLast, NoMessage
  <1>14. CASE UNCHANGED ancsVars
    BY <1>14, CloseKept DEF ancsVars, NotLost
  <1> QED
    BY <1>1, <1>2, <1>3, <1>4, <1>5, <1>6, <1>7, <1>8, <1>9, <1>10, <1>11, <1>12, <1>13, <1>14
       DEF AncsNext, AncsRx, AncsMain

-----------------------------------------------------------------------------
(***************************************************************************)
(* The request for attributes.                                             *)
(***************************************************************************)
\* The host lets a request go, or all of them: what is left was written before.
LEMMA WritingShifted ==
  ASSUME RequestTypes, writing # <<>>
  PROVE  /\ \A i \in DOMAIN Tail(writing) : \E j \in DOMAIN writing : Tail(writing)[i] = writing[j]
         /\ Len(Tail(writing)) = Len(writing) - 1 /\ Len(writing) \in Nat
  <1>1. \A i \in DOMAIN Tail(writing) : i + 1 \in DOMAIN writing /\ Tail(writing)[i] = writing[i + 1]
    BY Shifted DEF RequestTypes
  <1>2. Len(Tail(writing)) = Len(writing) - 1 /\ Len(writing) \in Nat
    BY DEF RequestTypes
  <1> QED
    BY <1>1, <1>2

LEMMA NoRequests == Len(<<>>) = 0 /\ Len(<<>>) <= 1
  OBVIOUS

LEMMA OneRequestLeft ==
  ASSUME NEW S, NEW w \in Seq(S), w # <<>>, Len(w) <= 1
  PROVE  Tail(w) = <<>>
  <1>0. Len(w) \in Nat /\ Len(w) # 0
    BY EmptySeq
  <1> DEFINE n == Len(w)
  <1>1. n \in Nat /\ n # 0 /\ n <= 1
    BY <1>0
  <1> HIDE DEF n
  <1>2. n = 1
    BY <1>1
  <1>3. Len(w) = 1
    BY <1>2 DEF n
  <1>4. Tail(w) \in Seq(S) /\ Len(Tail(w)) = 0
    BY <1>3
  <1> QED
    BY <1>4

LEMMA FirstRequest ==
  ASSUME NEW S, NEW x \in S
  PROVE  Len(Append(<<>>, x)) <= 1
  <1>1. <<>> \in Seq(S) /\ Len(<<>>) = 0
    OBVIOUS
  <1>2. Len(Append(<<>>, x)) = 1
    BY <1>1, AppendProperties
  <1> QED
    BY <1>2

LEMMA RequestReleased ==
  ASSUME RequestTypes
  PROVE  /\ NotPending(request).uuid = request.uuid /\ NotPending(request).first = request.first
         /\ NotPending(request).last = request.last /\ NotPending(request).write_params = FALSE
  BY DEF RequestTypes, Requests, NotPending

Services == {m \in Tokens : m.type = "ANCS_SERVICE"}

\* A step that adds no notification and copies nothing.
LEMMA UuidsKept ==
  ASSUME OwnUuids, links' = links, Services' = {} \/ Services # {},
         "torn" \notin seen' => "torn" \notin seen,
         request'.uuid = request.uuid, request'.first = request.first, request'.last = request.last,
         handling' = handling \/ handling'.type \notin {"copy", "params"},
         \A i \in DOMAIN writing' : \E j \in DOMAIN writing : writing'[i] = writing[j]
  PROVE  OwnUuids'
  <1>1. Services' # {} => request.uuid.of = links
    BY DEF OwnUuids, Services
  <1>2. \A m \in Tokens' : m.type = "ANCS_SERVICE" => Services' # {}
    BY DEF Services
  <1> QED
    BY <1>1, <1>2 DEF OwnUuids

LEMMA OwnUuidsStep == AncsTypes /\ LinkPhases /\ OwnUuids /\ [AncsNext]_ancsVars => OwnUuids'
  <1> SUFFICES ASSUME AncsTypes, LinkPhases, OwnUuids, [AncsNext]_ancsVars PROVE OwnUuids'
    OBVIOUS
  <1> USE DEF AncsTypes
  <1>1. ASSUME NEW p \in Phones, connected(p) PROVE OwnUuids'
    <2> DEFINE m == [type |-> OpenMsg, of |-> links + 1, status |-> 0]
    <2>1. /\ m \in Messages
          /\ queue' = Append(queue, m)
          /\ handling' = handling
          /\ m.type = "CONN_OPEN"
      BY <1>1, MessageTypes DEF connected, OpenMsg
    <2> HIDE DEF m
    <2>2. handling.type = "idle" /\ OnlyComplete
      BY <1>1 DEF connected, Alive, LinkPhases
    <2>3. writing' = <<>>
      BY <1>1 DEF connected, requestVars, LinkPhases
    <2>4. \A t \in Tokens' : t.type # "ANCS_SERVICE"
      BY <2>1, <2>2, QueueAppended DEF OnlyComplete, Tokens
    <2> QED
      BY <2>1, <2>2, <2>3, <2>4 DEF OwnUuids
  <1>2. CASE security_changed
    <2>1. /\ Msg("SEC_OPEN", 0) \in Messages
          /\ queue' = Append(queue, Msg("SEC_OPEN", 0))
          /\ handling' = handling
      BY <1>2, MessageTypes DEF security_changed, linkVars, discVars, requestVars
    <2>2. Msg("SEC_OPEN", 0).type # "ANCS_SERVICE"
      BY <1>2, MessageTypes DEF security_changed, DiscTypes
    <2>3. Services' = {} \/ Services # {}
      BY <2>1, <2>2, QueueAppended DEF Services, Tokens
    <2>4. /\ links' = links /\ request' = request /\ writing' = writing
          /\ "torn" \notin seen' => "torn" \notin seen
      BY <1>2 DEF security_changed, linkVars, discVars, requestVars
    <2> QED
      BY <2>1, <2>3, <2>4, UuidsKept
  <1>3. CASE discover_func_end
    <2>1. EndMsg \in Messages /\ queue' = Append(queue, EndMsg) /\ handling' = handling
      BY <1>3, MessageTypes DEF discover_func_end, linkVars, discVars, requestVars
    <2>2. EndMsg.type # "ANCS_SERVICE"
      BY <1>3, MessageTypes DEF discover_func_end, DiscTypes
    <2>3. Services' = {} \/ Services # {}
      BY <2>1, <2>2, QueueAppended DEF Services, Tokens
    <2>4. /\ links' = links /\ request' = request /\ writing' = writing
          /\ "torn" \notin seen' => "torn" \notin seen
      BY <1>3 DEF discover_func_end, linkVars, discVars, requestVars
    <2> QED
      BY <2>1, <2>3, <2>4, UuidsKept
  <1>4. CASE notify_func
    <2>1. /\ request'.uuid.of = links /\ request'.first = request.first
          /\ request'.last = request.last
      BY <1>4 DEF notify_func, Uuid, RequestTypes, Requests
    <2>2. /\ links' = links /\ handling' = handling /\ writing' = writing
          /\ "torn" \notin seen' => "torn" \notin seen /\ handling.type # "copy"
      BY <1>4 DEF notify_func, linkVars, discVars, requestVars
    <2> QED
      BY <2>1, <2>2 DEF OwnUuids
  <1>5. CASE disconnected
    <2>1. At({"CONN_CLOSE"}) = {}
      BY <1>5 DEF disconnected, LinkPhases
    <2>2. Tokens' \subseteq Tokens \cup {CloseMsg} \cup (IF discovering = <<>> THEN {} ELSE {EndMsg})
      BY <1>5, <2>1, QueueLost
    <2>3. /\ CloseMsg.type # "ANCS_SERVICE"
          /\ discovering # <<>> => EndMsg.type # "ANCS_SERVICE"
      BY <1>5, LinkEnds, MessageTypes DEF CloseMsg, DiscTypes
    <2>4. Services' = {} \/ Services # {}
      BY <2>2, <2>3 DEF Services
    <2>5. /\ links' = links /\ handling' = handling /\ writing' = <<>>
          /\ "torn" \notin seen' => "torn" \notin seen
          /\ request' = request \/ request' = NotPending(request)
      BY <1>5 DEF disconnected
    <2> QED
      BY <2>4, <2>5, RequestReleased, UuidsKept
  <1>6. CASE write_func
    <2>1. /\ links' = links /\ queue' = queue /\ writing' = Tail(writing) /\ writing # <<>>
          /\ "torn" \notin seen' => "torn" \notin seen
          /\ request' = NotPending(request)
      BY <1>6 DEF write_func, linkVars, discVars, requestVars
    <2>2. handling' = handling \/ handling'.type = "wild"
      BY <1>6 DEF write_func, NoMessage
    <2>3. Services' = {} \/ Services # {}
      BY <2>1, <2>2 DEF Services, Tokens
    <2>4. \A i \in DOMAIN writing' : \E j \in DOMAIN writing : writing'[i] = writing[j]
      BY <2>1, WritingShifted
    <2> QED
      BY <2>1, <2>2, <2>3, <2>4, RequestReleased, UuidsKept
  <1>7. CASE Receive
    <2>1. /\ Head(queue) \in Messages /\ Head(queue) \in Tokens
          /\ Tokens' \subseteq Tokens \cup {handling'}
      BY <1>7, QueueShifted DEF Receive
    <2>2. links' = links /\ writing' = writing /\ request' = request /\ seen' = seen
      BY <1>7 DEF Receive, linkVars, discVars, requestVars
    <2>3. handling' = NoMessage \/ handling' = Head(queue)
      BY <1>7 DEF Receive
    <2>4. NoMessage.type = "idle"
      BY DEF NoMessage
    <2>5. handling'.type \notin {"copy", "params"}
      BY <2>1, <2>3, <2>4 DEF Messages, MsgTypes, Starts, DiscTypes
    <2>6. Services' = {} \/ Services # {}
      BY <2>1, <2>3, <2>4 DEF Services
    <2> QED
      BY <2>2, <2>5, <2>6, UuidsKept
  <1>8. CASE primary_service_by_uuid_cfm \/ service_characteristic_cfm \/
             characteristic_descriptor_cfm
    <2>1. /\ handling' = NoMessage
          /\ queue' = queue \/ queue' = Append(queue, Msg("COMPLETE", 0))
          /\ links' = links /\ request' = request /\ writing' = writing /\ seen' = seen
      BY <1>8, CfmSends DEF Cfm, linkVars, requestVars
    <2>2. NoMessage.type = "idle"
      BY DEF NoMessage
    <2>3. Msg("COMPLETE", 0) \in Messages /\ Msg("COMPLETE", 0).type = "COMPLETE"
      BY MessageTypes
    <2>4. Tokens' \subseteq Tokens \cup {Msg("COMPLETE", 0), NoMessage}
      <3>1. CASE queue' = queue
        BY <2>1, <3>1 DEF Tokens
      <3>2. CASE queue' = Append(queue, Msg("COMPLETE", 0))
        BY <2>1, <2>3, <3>2, QueueAppended
      <3> QED
        BY <2>1, <3>1, <3>2
    <2>5. Services' = {} \/ Services # {}
      BY <2>2, <2>3, <2>4 DEF Services
    <2> QED
      BY <2>1, <2>2, <2>5, UuidsKept
  <1>9. CASE CopyFirst
    <2>1. /\ queue' = queue /\ links' = links /\ writing' = writing /\ seen' = seen
          /\ handling.type = "ANCS_SERVICE" /\ handling \in Tokens
      BY <1>9 DEF CopyFirst, linkVars, discVars, requestVars, Tokens
    <2>2. handling'.type = "copy"
      BY <1>9 DEF CopyFirst, QueueTypes
    <2>3. request'.uuid = request.uuid /\ request'.first = request.uuid
      BY <1>9 DEF CopyFirst, RequestTypes, Requests
    <2>4. request.uuid.of = links
      BY <2>1 DEF OwnUuids
    <2> QED
      BY <2>1, <2>2, <2>3, <2>4 DEF OwnUuids
  <1>10. CASE CopyLast
    <2>1. /\ queue' = queue /\ links' = links /\ writing' = writing /\ seen' = seen
          /\ handling.type = "copy"
      BY <1>10 DEF CopyLast, linkVars, discVars, requestVars
    <2>2. handling'.type = "params"
      BY <1>10 DEF CopyLast, QueueTypes
    <2>3. /\ request'.uuid = request.uuid /\ request'.first = request.first
          /\ request'.last = request.uuid
      BY <1>10 DEF CopyLast, RequestTypes, Requests
    <2> QED
      BY <2>1, <2>2, <2>3 DEF OwnUuids, Tokens
  <1>11. CASE Write
    <2>1. /\ queue' = queue /\ links' = links /\ request' = request /\ seen' = seen
          /\ handling.type = "params"
      BY <1>11 DEF Write, linkVars, discVars, requestVars
    <2>2. handling'.type \in {"idle", "flag"}
      BY <1>11 DEF Write, QueueTypes, NoMessage
    <2>3. writing' = writing \/ writing' = Append(writing, RequestCopied)
      BY <1>11 DEF Write
    <2>4. CASE writing' = writing
      BY <2>1, <2>2, <2>4 DEF OwnUuids, Tokens
    <2>5. CASE writing' = Append(writing, RequestCopied)
      <3>1. RequestCopied \in Uuids \X Uuids
        BY DEF RequestCopied, RequestTypes, Requests
      <3>2. /\ DOMAIN writing' = DOMAIN writing \cup {Len(writing) + 1}
            /\ writing'[Len(writing) + 1] = RequestCopied
            /\ \A i \in DOMAIN writing : writing'[i] = writing[i]
        BY <2>5, <3>1, Appended DEF RequestTypes
      <3>3. RequestCopied[1] = request.first /\ RequestCopied[2] = request.last
        BY DEF RequestCopied
      <3> QED
        BY <2>1, <2>2, <3>2, <3>3 DEF OwnUuids, Tokens
    <2> QED
      BY <2>3, <2>4, <2>5
  <1>12. CASE SetPending
    <2>1. /\ queue' = queue /\ links' = links /\ writing' = writing /\ seen' = seen
          /\ handling' = NoMessage
      BY <1>12 DEF SetPending, linkVars, discVars, requestVars
    <2>2. /\ request'.uuid = request.uuid /\ request'.first = request.first
          /\ request'.last = request.last
      BY <1>12 DEF SetPending, RequestTypes, Requests
    <2>3. Services' = {} \/ Services # {}
      BY <2>1 DEF Services, Tokens, NoMessage
    <2> QED
      BY <2>1, <2>2, <2>3, UuidsKept DEF NoMessage
  <1>13. CASE Confusion \/ discover_func_found \/ HandleClose \/ start_gatt_database_discovery
             \/ HandleComplete
    <2>1. /\ queue' = queue /\ links' = links /\ writing' = writing /\ request' = request
          /\ "torn" \notin seen' => "torn" \notin seen
      BY <1>13 DEF Confusion, discover_func_found, HandleClose, start_gatt_database_discovery,
         HandleComplete, linkVars, discVars, requestVars
    <2>2. handling' \in {handling, NoMessage, [NoMessage EXCEPT !.type = "wild"]}
      BY <1>13 DEF Confusion, discover_func_found, HandleClose, start_gatt_database_discovery,
         HandleComplete, linkVars, discVars, requestVars, Handles
    <2>3. handling' = handling \/ handling'.type \in {"idle", "wild"}
      BY <2>2 DEF NoMessage
    <2>4. Services' = {} \/ Services # {}
      BY <2>1, <2>3 DEF Services, Tokens
    <2> QED
      BY <2>1, <2>3, <2>4, UuidsKept
  <1>14. CASE AncsBoot
    BY <1>14 DEF AncsBoot, OwnUuids, Tokens, NoMessage
  <1>15. CASE UNCHANGED ancsVars
    BY <1>15 DEF ancsVars, OwnUuids, Tokens
  <1> QED
    BY <1>1, <1>2, <1>3, <1>4, <1>5, <1>6, <1>7, <1>8, <1>9, <1>10, <1>11, <1>12, <1>13, <1>14,
       <1>15 DEF AncsNext, AncsRx, AncsMain

LEMMA OneRequestStep ==
  AncsTypes /\ LinkPhases /\ OneRequest /\ [AncsNext]_ancsVars => OneRequest'
  <1> SUFFICES ASSUME AncsTypes, LinkPhases, OneRequest, [AncsNext]_ancsVars PROVE OneRequest'
    OBVIOUS
  <1> USE DEF AncsTypes, OneRequest
  <1>1. ASSUME NEW p \in Phones, connected(p) PROVE OneRequest'
    BY <1>1 DEF connected, requestVars, LinkPhases, Alive
  <1>2. CASE notify_func
    <2>1. /\ request'.write_params = request.write_params /\ request'.pending = request.pending
          /\ UNCHANGED <<writing, handling, pconn>> /\ ("early answer" \notin seen' => "early answer" \notin seen)
      BY <1>2 DEF notify_func, RequestTypes, Requests, linkVars, discVars, requestVars
    <2> QED
      BY <2>1
  <1>3. CASE disconnected
    <2>1. writing' = <<>> /\ pconn' = NoPhone
      BY <1>3 DEF disconnected
    <2> QED
      BY <2>1, NoRequests
  <1>4. CASE write_func
    <2>1. SUFFICES ASSUME "early answer" \notin seen' PROVE OneRequest'
      OBVIOUS
    <2>2. "early answer" \notin seen /\ handling.type \notin {"params", "flag"} /\ writing # <<>>
      BY <1>4, <2>1 DEF write_func
    <2>3. writing' = <<>>
      <3>1. Len(writing) <= 1 /\ writing' = Tail(writing)
        BY <1>4, <2>2 DEF write_func
      <3> QED
        BY <2>2, <3>1, OneRequestLeft DEF RequestTypes
    <2>4. handling'.type # "params"
      BY <1>4, <2>2 DEF write_func, NoMessage
    <2> QED
      BY <2>3, <2>4, NoRequests
  <1>5. CASE Receive
    <2>1. Head(queue) \in Messages
      BY <1>5, QueueShifted DEF Receive
    <2>2. handling = NoMessage /\ handling'.type \notin {"params", "flag", "wild"}
      BY <1>5, <2>1 DEF Receive, NoMessage, Messages, MsgTypes, Starts, DiscTypes
    <2>3. UNCHANGED <<request, writing, pconn, seen>>
      BY <1>5 DEF Receive, linkVars, discVars, requestVars
    <2> QED
      BY <2>2, <2>3 DEF NoMessage
  <1>6. CASE HandleClose \/ start_gatt_database_discovery \/ primary_service_by_uuid_cfm \/
             service_characteristic_cfm \/ characteristic_descriptor_cfm \/ HandleComplete
    <2>1. handling.type \notin {"flag", "wild", "params"} /\ handling' = NoMessage
      BY <1>6 DEF HandleClose, start_gatt_database_discovery, primary_service_by_uuid_cfm,
         service_characteristic_cfm, characteristic_descriptor_cfm, HandleComplete, Handles
    <2>2. UNCHANGED <<request, writing, pconn>> /\ ("early answer" \notin seen' => "early answer" \notin seen)
      BY <1>6 DEF HandleClose, start_gatt_database_discovery, primary_service_by_uuid_cfm,
         service_characteristic_cfm, characteristic_descriptor_cfm, HandleComplete, linkVars,
         discVars, requestVars
    <2> QED
      BY <2>1, <2>2 DEF NoMessage
  <1>7. CASE CopyFirst
    <2>1. /\ request'.write_params = request.write_params /\ request'.pending = request.pending
          /\ UNCHANGED <<writing, pconn, seen>> /\ handling.type = "ANCS_SERVICE"
      BY <1>7 DEF CopyFirst, RequestTypes, Requests, linkVars, discVars, requestVars
    <2>2. handling'.type = "copy"
      BY <1>7 DEF CopyFirst, QueueTypes
    <2> QED
      BY <2>1, <2>2
  <1>8. CASE CopyLast
    <2>1. /\ request'.write_params = TRUE /\ request'.pending = request.pending
          /\ UNCHANGED <<writing, pconn, seen>> /\ handling.type = "copy"
      BY <1>8 DEF CopyLast, RequestTypes, Requests, linkVars, discVars, requestVars
    <2>2. handling'.type = "params"
      BY <1>8 DEF CopyLast, QueueTypes
    <2> QED
      BY <2>1, <2>2
  <1>9. CASE Write
    <2>1. UNCHANGED <<request, pconn, seen>> /\ handling.type = "params"
      BY <1>9 DEF Write, linkVars, discVars, requestVars
    <2>2. CASE ~MayWrite
      BY <1>9, <2>1, <2>2 DEF Write, NoMessage
    <2>3. CASE MayWrite
      <3>1. SUFFICES ASSUME "early answer" \notin seen PROVE OneRequest'
        BY <2>1
      <3>2. writing = <<>> /\ request.write_params
        BY <2>1, <2>3, <3>1 DEF MayWrite
      <3>3. writing' = Append(<<>>, RequestCopied)
        BY <1>9, <2>3, <3>2 DEF Write
      <3>4. RequestCopied \in Uuids \X Uuids
        BY DEF RequestCopied, RequestTypes, Requests
      <3>5. handling'.type = "flag"
        BY <1>9, <2>3 DEF Write, QueueTypes
      <3>6. Len(writing') <= 1
        BY <3>3, <3>4, FirstRequest
      <3> QED
        BY <2>1, <3>2, <3>5, <3>6
    <2> QED
      BY <2>2, <2>3
  <1>10. CASE SetPending
    <2>1. /\ request'.write_params = request.write_params /\ request'.pending = TRUE
          /\ UNCHANGED <<writing, pconn, seen>>
      BY <1>10 DEF SetPending, RequestTypes, Requests, linkVars, discVars, requestVars
    <2>2. handling'.type = "idle"
      BY <1>10 DEF SetPending, NoMessage
    <2> QED
      BY <2>1, <2>2
  <1>11. CASE Confusion
    BY <1>11 DEF Confusion, linkVars, discVars, requestVars, NoMessage
  <1>12. CASE AncsBoot
    BY <1>12, NoRequests DEF AncsBoot, NoMessage
  <1>13. CASE security_changed \/ discover_func_found \/ discover_func_end \/ UNCHANGED ancsVars
    <2>1. UNCHANGED <<request, writing, pconn, handling>> /\ ("early answer" \notin seen' => "early answer" \notin seen)
      BY <1>13 DEF security_changed, discover_func_found, discover_func_end, ancsVars, linkVars,
         discVars, requestVars
    <2> QED
      BY <2>1
  <1> QED
    BY <1>1, <1>2, <1>3, <1>4, <1>5, <1>6, <1>7, <1>8, <1>9, <1>10, <1>11, <1>12, <1>13 DEF
       AncsNext, AncsRx, AncsMain

-----------------------------------------------------------------------------
(***************************************************************************)
(* The discovery goes from hand to hand: at most one message of it is on   *)
(* its way, or one discovery, if the link was secured once.                *)
(***************************************************************************)
\* The steps of OneOf: nothing is sent of these types, ...
LEMMA OneKept ==
  ASSUME NEW types, OneOf(types), At(types)' = At(types), discovering' = discovering,
         handling' = handling \/ handling'.type \notin types,
         pconn' # NoPhone /\ count'.security = 0 => pconn # NoPhone /\ count.security = 0
  PROVE  OneOf(types)'
  BY DEF OneOf, NoneOf

\* ... the message in hand is replaced by a discovery or by another message, ...
LEMMA OneMoved ==
  ASSUME NEW types, OneOf(types), handling.type \in types, handling'.type \notin types,
         NEW n, \/ At(types)' = At(types)
                \/ At(types)' = At(types) \cup {n} /\ discovering' = discovering,
         pconn' = pconn, count' = count
  PROVE  OneOf(types)'
  BY DEF OneOf, NoneOf

\* ... the discovery by its answer, ...
LEMMA OneAnswered ==
  ASSUME NEW types, OneOf(types), discovering # <<>>, discovering' = <<>>, handling' = handling,
         NEW n, At(types)' = At(types) \cup {n},
         pconn' = NoPhone \/ (pconn' = pconn /\ count' = count)
  PROVE  OneOf(types)'
  BY DEF OneOf, NoneOf

\* ... the first message is sent, or the first in the queue is received.
LEMMA OneStarted ==
  ASSUME NEW types, NoneOf(types), discovering' = <<>>, handling' = handling,
         NEW n, At(types)' = At(types) \cup {n}, count'.security # 0
  PROVE  OneOf(types)'
  BY DEF OneOf, NoneOf

LEMMA OneReceived ==
  ASSUME QueueTypes, NEW types, OneOf(types), queue # <<>>, queue' = Tail(queue),
         handling = NoMessage, "idle" \notin types,
         handling' = Head(queue) \/ handling' = NoMessage,
         discovering' = discovering, pconn' = pconn, count' = count
  PROVE  OneOf(types)'
  <1>1. /\ \A i \in At(types)' : i + 1 \in At(types) /\ 1 # i + 1
        /\ Head(queue).type \in types => 1 \in At(types)
        /\ \A i \in DOMAIN queue' : i \in Nat
    BY QueueShifted
  <1>2. \A i \in At(types)' : i \in Nat
    BY <1>1 DEF At
  <1>3. handling.type \notin types
    BY DEF NoMessage
  <1>4. handling'.type \in types => At(types)' = {}
    BY <1>1, <1>3 DEF OneOf
  <1>5. At(types) = {} => At(types)' = {} /\ handling'.type \notin types
    BY <1>1, <1>3
  <1>6. \A i, j \in At(types)' : i = j
    BY <1>1, <1>2 DEF OneOf
  <1> QED
    BY <1>4, <1>5, <1>6 DEF OneOf, NoneOf

\* The two sets of types.
LEMMA TypeSets ==
  /\ Starts \subseteq Chain
  /\ \A types \in {Starts, Chain} :
        /\ {"SEC_OPEN", "PRIMARY", "CHARACTERISTIC", "DESCRIPTOR"} \subseteq types
        /\ types \cap {"idle", "wild", "copy", "params", "flag", "CONN_OPEN", "CONN_CLOSE",
                       "ANCS_SERVICE"} = {}
  BY DEF Starts, Chain, DiscTypes

LEMMA EmptyQueue ==
  /\ \A types : queue = <<>> => At(types) = {}
  /\ \A types : queue' = <<>> => At(types)' = {}
  <1>1. DOMAIN <<>> = {}
    OBVIOUS
  <1> QED
    BY <1>1 DEF At

LEMMA WildType == NoMessage.type = "idle" /\ [NoMessage EXCEPT !.type = "wild"].type = "wild"
  BY DEF NoMessage

LEMMA FirstTime == ASSUME NEW n \in Nat, ~(n > 0) PROVE n = 0 /\ n + 1 # 0
  OBVIOUS

LEMMA OneTail ==
  ASSUME NEW d, NEW s, s # <<>>, s = <<>> \/ s = <<d>>
  PROVE  Tail(s) = <<>> /\ Head(s) = d
  <1>1. s = <<d>>
    OBVIOUS
  <1>2. <<d>> \in Seq({d}) /\ <<d>> # <<>> /\ Len(<<d>>) = 1
    OBVIOUS
  <1>3. Tail(<<d>>) = <<>>
    BY <1>2, OneRequestLeft
  <1> QED
    BY <1>1, <1>3

LEMMA OneStep ==
  ASSUME AncsTypes, LinkPhases, CloseIsLast, OneDiscovery, [AncsNext]_ancsVars, NEW types \in {Starts, Chain},
         "secured twice" \notin seen', types = Chain => NotLost',
         "secured twice" \notin seen => OneOf(types)
  PROVE  OneOf(types)'
  <1> USE DEF AncsTypes
  <1>s. /\ {"SEC_OPEN", "PRIMARY", "CHARACTERISTIC", "DESCRIPTOR"} \subseteq types
        /\ types \cap {"idle", "wild", "copy", "params", "flag", "CONN_OPEN", "CONN_CLOSE",
                       "ANCS_SERVICE"} = {}
    BY TypeSets
  <1>d. "secured twice" \notin seen => discovering = <<>> \/ discovering = <<params>>
    BY DEF OneDiscovery
  <1>1. ASSUME NEW p \in Phones, connected(p) PROVE OneOf(types)'
    <2> DEFINE m == [type |-> OpenMsg, of |-> links + 1, status |-> 0]
    <2>1. /\ m \in Messages
          /\ queue' = Append(queue, m)
          /\ handling' = handling
          /\ m.type = "CONN_OPEN"
      BY <1>1, MessageTypes DEF connected, OpenMsg
    <2> HIDE DEF m
    <2>2. handling.type = "idle" /\ OnlyComplete /\ pconn = NoPhone
      BY <1>1 DEF connected, Alive, LinkPhases
    <2>3. discovering' = <<>> /\ seen' = seen /\ advertising
      BY <1>1, <2>2 DEF connected, discVars, LinkPhases
    <2>4. types = Chain => queue = <<>>
      BY <2>3 DEF CloseIsLast, NotLost
    <2>5. At(types) = {}
      <3>1. CASE types = Chain
        <4>1. queue = <<>>
          BY <2>4, <3>1
        <4> QED
          BY <4>1, EmptyQueue
      <3>2. CASE types = Starts
        BY <2>2, <3>2 DEF At, OnlyComplete, Starts, DiscTypes
      <3> QED
        BY <3>1, <3>2
    <2>6. At(types)' = {}
      <3>1. m.type \notin types
        BY <2>1, <1>s
      <3>2. At(types)' = At(types) \cup (IF m.type \in types THEN {Len(queue) + 1} ELSE {})
        BY <2>1, QueueAppended
      <3> QED
        BY <2>5, <3>1, <3>2
    <2> QED
      BY <2>1, <2>2, <2>3, <2>6, <1>s DEF OneOf, NoneOf
  <1>2. CASE security_changed
    <2>1. /\ Msg("SEC_OPEN", 0) \in Messages /\ queue' = Append(queue, Msg("SEC_OPEN", 0))
          /\ Msg("SEC_OPEN", 0).type \in types
      BY ZenonT(60), <1>2, <1>s, MessageTypes DEF security_changed
    <2>2. /\ handling' = handling /\ discovering' = discovering
          /\ "secured twice" \notin seen /\ ~(count.security > 0)
      BY <1>2 DEF security_changed, linkVars, discVars, requestVars
    <2>3. count' = [count EXCEPT !.security = @ + 1] /\ pconn # NoPhone
      BY <1>2 DEF security_changed
    <2>4. count.security = 0 /\ count'.security # 0
      <3> DEFINE n == count.security
      <3>1. n \in Nat /\ count'.security = n + 1 /\ ~(n > 0)
        BY <2>2, <2>3 DEF LinkTypes
      <3> HIDE DEF n
      <3>2. n = 0 /\ n + 1 # 0
        BY <3>1, FirstTime
      <3> QED
        BY <3>1, <3>2 DEF n
    <2>5. NoneOf(types)
      BY <2>2, <2>3, <2>4 DEF OneOf
    <2>6. At(types)' = At(types) \cup {Len(queue) + 1}
      BY <2>1, QueueAppended
    <2> QED
      BY <2>2, <2>4, <2>5, <2>6, OneStarted DEF NoneOf
  <1>3. CASE notify_func
    <2> DEFINE m == Msg("ANCS_SERVICE", 0)
    <2>1. m \in Messages /\ queue' = Append(queue, m) /\ m.type = "ANCS_SERVICE"
      BY <1>3, MessageTypes DEF notify_func
    <2> HIDE DEF m
    <2>2. At(types)' = At(types)
      <3>1. m.type \notin types
        BY <2>1, <1>s
      <3>2. At(types)' = At(types) \cup (IF m.type \in types THEN {Len(queue) + 1} ELSE {})
        BY <2>1, QueueAppended
      <3> QED
        BY <3>1, <3>2
    <2>3. /\ handling' = handling /\ discovering' = discovering /\ pconn' = pconn
          /\ "secured twice" \notin seen
          /\ count' = [count EXCEPT !.notification = @ + 1]
      BY <1>3 DEF notify_func, linkVars, discVars, requestVars
    <2>4. count'.security = count.security
      BY <2>3 DEF LinkTypes
    <2> QED
      BY <2>2, <2>3, <2>4, OneKept
  <1>4. CASE disconnected
    <2>1. At({"CONN_CLOSE"}) = {}
      BY <1>4 DEF disconnected, LinkPhases
    <2>2. At(types)' = At(types) \cup
                   (IF discovering # <<>> /\ params \in types THEN {Len(queue) + 1} ELSE {})
      BY <1>4, <1>s, <2>1, QueueLost
    <2>3. discovering # <<>> => params \in types
      BY <1>4, <1>s, LinkEnds DEF DiscTypes
    <2>4. /\ handling' = handling /\ discovering' = <<>> /\ pconn' = NoPhone
          /\ "secured twice" \notin seen
      BY <1>4 DEF disconnected
    <2>5. CASE discovering = <<>>
      BY <2>2, <2>4, <2>5, OneKept
    <2>6. CASE discovering # <<>>
      BY <2>2, <2>3, <2>4, <2>6, OneAnswered
    <2> QED
      BY <2>5, <2>6
  <1>5. CASE discover_func_end
    <2>1. /\ EndMsg \in Messages /\ queue' = Append(queue, EndMsg) /\ EndMsg.type \in types
      BY ZenonT(60), <1>5, <1>s, MessageTypes DEF discover_func_end, DiscTypes
    <2>2. At(types)' = At(types) \cup {Len(queue) + 1}
      BY <2>1, QueueAppended
    <2>3. /\ handling' = handling /\ pconn' = pconn /\ count' = count
          /\ "secured twice" \notin seen /\ discovering # <<>> /\ discovering' = Tail(discovering)
      BY <1>5 DEF discover_func_end, linkVars, discVars, requestVars
    <2>4. discovering' = <<>>
      BY <2>3, <1>d, OneTail
    <2> QED
      BY <2>2, <2>3, <2>4, OneAnswered
  <1>6. CASE Receive
    <2>1. /\ handling = NoMessage /\ queue # <<>> /\ queue' = Tail(queue)
          /\ handling' = Head(queue) \/ handling' = NoMessage
          /\ discovering' = discovering /\ pconn' = pconn /\ count' = count /\ seen' = seen
      BY <1>6 DEF Receive, linkVars, discVars, requestVars
    <2>2. "idle" \notin types
      BY <1>s
    <2> QED
      BY <2>1, <2>2, OneReceived
  <1>7. CASE start_gatt_database_discovery
    <2>1. /\ handling.type = "SEC_OPEN" /\ handling' = NoMessage /\ queue' = queue
          /\ pconn' = pconn /\ count' = count /\ seen' = seen
      BY <1>7 DEF start_gatt_database_discovery, Handles, linkVars, discVars, requestVars
    <2>2. handling.type \in types /\ handling'.type \notin types
      BY <1>s, <2>1 DEF NoMessage
    <2>3. At(types)' = At(types)
      BY <2>1 DEF At
    <2> QED
      BY <2>1, <2>2, <2>3, OneMoved
  <1>8. CASE primary_service_by_uuid_cfm \/ service_characteristic_cfm \/
             characteristic_descriptor_cfm
    <2>1. /\ handling.type \in DiscTypes /\ handling' = NoMessage
          /\ \/ queue' = queue
             \/ queue' = Append(queue, Msg("COMPLETE", 0)) /\ UNCHANGED <<params, discovering>>
          /\ pconn' = pconn /\ count' = count /\ seen' = seen
      BY <1>8, CfmSends DEF Cfm, linkVars
    <2>2. handling.type \in types /\ handling'.type \notin types
      BY <1>s, <2>1 DEF NoMessage, DiscTypes
    <2>3. CASE queue' = queue
      <3>1. At(types)' = At(types)
        BY <2>3 DEF At
      <3> QED
        BY <2>1, <2>2, <3>1, OneMoved
    <2>4. CASE queue' = Append(queue, Msg("COMPLETE", 0)) /\ discovering' = discovering
      <3>1. Msg("COMPLETE", 0) \in Messages
        BY MessageTypes
      <3>2. \/ At(types)' = At(types) \cup {Len(queue) + 1}
            \/ At(types)' = At(types)
        <4> DEFINE m == Msg("COMPLETE", 0)
        <4>1. At(types)' = At(types) \cup (IF m.type \in types THEN {Len(queue) + 1} ELSE {})
          BY <2>4, <3>1, QueueAppended
        <4> HIDE DEF m
        <4> QED
          BY <4>1
      <3> QED
        BY <2>1, <2>2, <2>4, <3>2, OneMoved
    <2> QED
      BY <2>1, <2>3, <2>4
  <1>9. CASE Confusion \/ write_func \/ discover_func_found \/ HandleClose \/ HandleComplete
    <2>1. /\ queue' = queue /\ pconn' = pconn /\ count' = count /\ discovering' = discovering
          /\ "secured twice" \notin seen
      BY <1>9 DEF Confusion, write_func, discover_func_found, HandleClose, HandleComplete,
         linkVars, discVars, requestVars
    <2>2. handling' \in {handling, NoMessage, [NoMessage EXCEPT !.type = "wild"]}
      BY <1>9 DEF Confusion, write_func, discover_func_found, HandleClose, HandleComplete,
         Handles, linkVars, discVars, requestVars
    <2>3. handling' = handling \/ handling'.type \notin types
      <3>1. handling' = handling \/ handling'.type \in {"idle", "wild"}
        BY <2>2, WildType
      <3> QED
        BY <1>s, <3>1
    <2>4. At(types)' = At(types)
      BY <2>1 DEF At
    <2> QED
      BY <2>1, <2>3, <2>4, OneKept
  <1>10. CASE CopyFirst
    <2>1. /\ queue' = queue /\ pconn' = pconn /\ count' = count /\ discovering' = discovering
          /\ seen' = seen
      BY <1>10 DEF CopyFirst, linkVars, discVars, requestVars
    <2>2. handling'.type \in {"copy", "params", "flag", "idle"}
      BY <1>10, WildType DEF CopyFirst, QueueTypes
    <2>3. handling'.type \notin types
      BY <1>s, <2>2
    <2>4. At(types)' = At(types)
      BY <2>1 DEF At
    <2> QED
      BY <2>1, <2>3, <2>4, OneKept
  <1>11. CASE CopyLast
    <2>1. /\ queue' = queue /\ pconn' = pconn /\ count' = count /\ discovering' = discovering
          /\ seen' = seen
      BY <1>11 DEF CopyLast, linkVars, discVars, requestVars
    <2>2. handling'.type \in {"copy", "params", "flag", "idle"}
      BY <1>11, WildType DEF CopyLast, QueueTypes
    <2>3. handling'.type \notin types
      BY <1>s, <2>2
    <2>4. At(types)' = At(types)
      BY <2>1 DEF At
    <2> QED
      BY <2>1, <2>3, <2>4, OneKept
  <1>12. CASE Write
    <2>1. /\ queue' = queue /\ pconn' = pconn /\ count' = count /\ discovering' = discovering
          /\ seen' = seen
      BY <1>12 DEF Write, linkVars, discVars, requestVars
    <2>2. handling'.type \in {"copy", "params", "flag", "idle"}
      BY <1>12, WildType DEF Write, QueueTypes
    <2>3. handling'.type \notin types
      BY <1>s, <2>2
    <2>4. At(types)' = At(types)
      BY <2>1 DEF At
    <2> QED
      BY <2>1, <2>3, <2>4, OneKept
  <1>13. CASE SetPending
    <2>1. /\ queue' = queue /\ pconn' = pconn /\ count' = count /\ discovering' = discovering
          /\ seen' = seen
      BY <1>13 DEF SetPending, linkVars, discVars, requestVars
    <2>2. handling'.type \in {"copy", "params", "flag", "idle"}
      BY <1>13, WildType DEF SetPending, QueueTypes
    <2>3. handling'.type \notin types
      BY <1>s, <2>2
    <2>4. At(types)' = At(types)
      BY <2>1 DEF At
    <2> QED
      BY <2>1, <2>3, <2>4, OneKept
  <1>14. CASE AncsBoot
    <2>1. queue' = <<>> /\ handling' = NoMessage /\ discovering' = <<>>
      BY <1>14 DEF AncsBoot
    <2>2. At(types)' = {}
      BY <2>1, EmptyQueue
    <2>3. handling'.type = "idle"
      BY <2>1 DEF NoMessage
    <2> QED
      BY <1>s, <2>1, <2>2, <2>3 DEF OneOf, NoneOf
  <1>15. CASE UNCHANGED ancsVars
    BY <1>15 DEF ancsVars, OneOf, NoneOf, At
  <1> QED
    BY <1>1, <1>2, <1>3, <1>4, <1>5, <1>6, <1>7, <1>8, <1>9, <1>10, <1>11, <1>12, <1>13, <1>14,
       <1>15 DEF AncsNext, AncsRx, AncsMain

LEMMA AppendedFirst == \A x : Append(<<>>, x) = <<x>> /\ <<x>> # <<>>
  OBVIOUS

LEMMA OneDiscoveryStep ==
  AncsTypes /\ LinkPhases /\ CloseIsLast /\ OneDiscovery /\ [AncsNext]_ancsVars => OneDiscovery'
  <1> SUFFICES ASSUME AncsTypes, LinkPhases, CloseIsLast, OneDiscovery, [AncsNext]_ancsVars PROVE OneDiscovery'
    OBVIOUS
  <1> USE DEF AncsTypes, OneDiscovery
  <1>a. SUFFICES ASSUME "secured twice" \notin seen' PROVE OneDiscovery'
    OBVIOUS
  <1>o. OneOf(Starts)'
    <2>1. "COMPLETE" \in Chain /\ "COMPLETE" \notin Starts
      BY DEF Chain, Starts, DiscTypes
    <2>2. Starts # Chain
      BY <2>1
    <2> QED
      BY <1>a, <2>2, OneStep
  <1>1. CASE disconnected
    <2>1. discovering' = <<>> /\ ~disc'.found
      BY <1>1 DEF disconnected, DiscoveryTypes, Discoveries
    <2> QED
      BY <1>o, <2>1
  <1>2. CASE discover_func_found
    <2>1. /\ discovering' = discovering
          /\ params' = params
          /\ discovering # <<>>
          /\ "secured twice" \notin seen
      BY <1>2, <1>a DEF discover_func_found, linkVars, discVars, requestVars
    <2> QED
      BY <1>o, <2>1
  <1>3. CASE discover_func_end
    <2>1. ~disc'.found
      BY <1>3 DEF discover_func_end, DiscoveryTypes, Discoveries
    <2>2. discovering' = Tail(discovering) /\ discovering # <<>> /\ "secured twice" \notin seen
      BY <1>3, <1>a DEF discover_func_end
    <2>3. discovering' = <<>>
      BY <2>2, OneTail
    <2> QED
      BY <1>o, <2>1, <2>3
  <1>4. CASE start_gatt_database_discovery
    <2>1. handling.type \in Starts /\ "secured twice" \notin seen
      BY <1>4, <1>a DEF start_gatt_database_discovery, Handles, Starts, DiscTypes
    <2>2. discovering = <<>> /\ ~disc.found
      <3>1. discovering = <<>>
        BY <2>1 DEF OneOf
      <3> QED
        BY <2>1, <3>1, AppendedFirst
    <2>3. disc'.found = disc.found
      BY <1>4 DEF start_gatt_database_discovery, DiscoveryTypes, Discoveries
    <2>4. \/ discovering' = discovering
          \/ discovering' = Append(discovering, params')
      BY <1>4 DEF start_gatt_database_discovery, Discover, stop_gatt_database_discovery
    <2>5. discovering' = <<>> \/ discovering' = <<params'>>
      BY <2>2, <2>4, AppendedFirst
    <2> QED
      BY <1>o, <2>2, <2>3, <2>5
  <1>5. CASE primary_service_by_uuid_cfm
    <2>1. handling.type \in Starts /\ "secured twice" \notin seen
      BY <1>5, <1>a DEF primary_service_by_uuid_cfm, Handles, Starts, DiscTypes
    <2>2. discovering = <<>> /\ ~disc.found
      <3>1. discovering = <<>>
        BY <2>1 DEF OneOf
      <3> QED
        BY <2>1, <3>1, AppendedFirst
    <2>3. disc'.found = disc.found
      BY <1>5 DEF primary_service_by_uuid_cfm, DiscoveryTypes, Discoveries
    <2>4. \/ discovering' = discovering
          \/ discovering' = Append(discovering, params')
      BY <1>5 DEF primary_service_by_uuid_cfm, Discover, stop_gatt_database_discovery
    <2>5. discovering' = <<>> \/ discovering' = <<params'>>
      BY <2>2, <2>4, AppendedFirst
    <2> QED
      BY <1>o, <2>2, <2>3, <2>5
  <1>6. CASE service_characteristic_cfm
    <2>1. handling.type \in Starts /\ "secured twice" \notin seen
      BY <1>6, <1>a DEF service_characteristic_cfm, Handles, Starts, DiscTypes
    <2>2. discovering = <<>> /\ ~disc.found
      <3>1. discovering = <<>>
        BY <2>1 DEF OneOf
      <3> QED
        BY <2>1, <3>1, AppendedFirst
    <2>3. disc'.found = disc.found
      BY <1>6 DEF service_characteristic_cfm, DiscoveryTypes, Discoveries
    <2>4. \/ discovering' = discovering
          \/ discovering' = Append(discovering, params')
      BY <1>6 DEF service_characteristic_cfm, Discover, stop_gatt_database_discovery
    <2>5. discovering' = <<>> \/ discovering' = <<params'>>
      BY <2>2, <2>4, AppendedFirst
    <2> QED
      BY <1>o, <2>2, <2>3, <2>5
  <1>7. CASE characteristic_descriptor_cfm
    <2>1. handling.type \in Starts /\ "secured twice" \notin seen
      BY <1>7, <1>a DEF characteristic_descriptor_cfm, Handles, Starts, DiscTypes
    <2>2. discovering = <<>> /\ ~disc.found
      <3>1. discovering = <<>>
        BY <2>1 DEF OneOf
      <3> QED
        BY <2>1, <3>1, AppendedFirst
    <2>3. disc'.found = disc.found
      BY <1>7 DEF characteristic_descriptor_cfm, DiscoveryTypes, Discoveries
    <2>4. \/ discovering' = discovering
          \/ discovering' = Append(discovering, params')
      BY <1>7 DEF characteristic_descriptor_cfm, Discover, stop_gatt_database_discovery
    <2>5. discovering' = <<>> \/ discovering' = <<params'>>
      BY <2>2, <2>4, AppendedFirst
    <2> QED
      BY <1>o, <2>2, <2>3, <2>5
  <1>8. CASE AncsBoot
    <2>1. discovering' = <<>> /\ disc'.found = FALSE
      BY <1>8 DEF AncsBoot, NoDisc
    <2> QED
      BY <1>o, <2>1
  <1>9. CASE (\E p \in Phones : connected(p)) \/ security_changed \/ notify_func \/ Confusion \/
             write_func \/ Receive \/ HandleClose \/ HandleComplete \/ CopyFirst \/ CopyLast \/
             Write \/ SetPending \/ UNCHANGED ancsVars
    <2>1. /\ discovering' = discovering
          /\ params' = params
          /\ disc' = disc
          /\ "secured twice" \notin seen
      BY <1>9, <1>a DEF connected, security_changed, notify_func, Confusion, write_func,
         Receive, HandleClose, HandleComplete, CopyFirst, CopyLast, Write, SetPending, ancsVars,
         linkVars, discVars, requestVars
    <2> QED
      BY <1>o, <2>1
  <1> QED
    BY <1>1, <1>2, <1>3, <1>4, <1>5, <1>6, <1>7, <1>8, <1>9 DEF AncsNext, AncsRx, AncsMain

LEMMA OneChainStep ==
  AncsTypes /\ LinkPhases /\ CloseIsLast /\ OneDiscovery /\ OneChain /\ [AncsNext]_ancsVars => OneChain'
  <1> SUFFICES ASSUME AncsTypes, LinkPhases, CloseIsLast, OneDiscovery, OneChain,
                      [AncsNext]_ancsVars, "secured twice" \notin seen', NotLost'
               PROVE  OneOf(Chain)'
    BY DEF OneChain
  <1>1. CASE NotLost
    BY <1>1, OneStep DEF OneChain
  <1>2. CASE ~NotLost
    <2>1. AncsBoot
      BY <1>2 DEF NotLost, AncsNext, AncsRx, AncsMain, connected, security_changed, disconnected,
         notify_func, Confusion, discover_func_found, discover_func_end, write_func, Receive,
         HandleClose, start_gatt_database_discovery, primary_service_by_uuid_cfm,
         service_characteristic_cfm, characteristic_descriptor_cfm, HandleComplete, CopyFirst,
         CopyLast, Write, SetPending, ancsVars
    <2>2. queue' = <<>> /\ handling'.type = "idle" /\ discovering' = <<>>
      BY <2>1 DEF AncsBoot, NoMessage
    <2>3. At(Chain)' = {} /\ "idle" \notin Chain
      BY <2>2, EmptyQueue, TypeSets
    <2> QED
      BY <2>2, <2>3 DEF OneOf, NoneOf
  <1> QED
    BY <1>1, <1>2

-----------------------------------------------------------------------------
(***************************************************************************)
(* The handles found.                                                      *)
(***************************************************************************)
LEMMA SentLast ==
  /\ \A m \in Messages : queue \in Seq(Messages) /\ queue' = Append(queue, m) =>
        /\ DOMAIN queue' = DOMAIN queue \cup {Len(queue) + 1} /\ queue'[Len(queue) + 1] = m
        /\ \A i \in DOMAIN queue : queue'[i] = queue[i]
  /\ DOMAIN <<>> = {}
  <1>1. ASSUME NEW m \in Messages, queue \in Seq(Messages), queue' = Append(queue, m)
        PROVE  /\ DOMAIN queue' = DOMAIN queue \cup {Len(queue) + 1} /\ queue'[Len(queue) + 1] = m
               /\ \A i \in DOMAIN queue : queue'[i] = queue[i]
    BY <1>1, Appended
  <1>2. DOMAIN <<>> = {}
    OBVIOUS
  <1> QED
    BY <1>1, <1>2

\* A message outside the chain tells nothing, and neither does its first.
LEMMA OutsideChain ==
  ASSUME NEW m, m.type \notin Chain \/ m.type = "SEC_OPEN"
  PROVE  Tells(m) /\ Tells(m)'
  <1>1. m.type \notin {"CHARACTERISTIC", "DESCRIPTOR", "COMPLETE"}
    BY DEF Chain, Starts, DiscTypes
  <1> QED
    BY <1>1 DEF Tells

\* No handle changes and no message of the chain is sent.
LEMMA ToldKept ==
  ASSUME TokensTell, AnswersTell, pconn' = pconn, disc' = disc, params' = params,
         discovering' = discovering,
         \A m \in Tokens' : m \in Tokens \/ m.type \notin Chain \/ m.type = "SEC_OPEN"
  PROVE  TokensTell' /\ AnswersTell'
  <1>1. ASSUME NEW m \in Tokens' PROVE Tells(m)'
    <2>1. CASE m \in Tokens
      BY <2>1 DEF TokensTell, Tells
    <2>2. CASE m.type \notin Chain \/ m.type = "SEC_OPEN"
      BY <2>2, OutsideChain
    <2> QED
      BY <2>1, <2>2
  <1> QED
    BY <1>1 DEF TokensTell, AnswersTell

\* While a discovery or a message in hand is the one of the chain, the queue holds none.
LEMMA ChainElsewhere ==
  ASSUME OneOf(Chain), discovering # <<>> \/ handling.type \in Chain
  PROVE  /\ \A i \in DOMAIN queue : queue[i].type \notin Chain
         /\ discovering # <<>> => handling.type \notin Chain
  BY DEF OneOf, At

\* A message of the chain was in hand; if one is sent in its place, it alone tells.
LEMMA ChainMoved ==
  ASSUME QueueTypes, OneOf(Chain), handling.type \in Chain, handling' = NoMessage,
         \/ queue' = queue
         \/ \E m \in Messages : queue' = Append(queue, m) /\ Tells(m)'
  PROVE  TokensTell'
  <1>1. \A i \in DOMAIN queue : queue[i].type \notin Chain
    BY ChainElsewhere
  <1>2. NoMessage.type \notin Chain
    BY WildType, TypeSets
  <1>3. CASE queue' = queue
    <2>1. \A m \in Tokens' : m.type \notin Chain
      BY <1>1, <1>2, <1>3 DEF Tokens
    <2> QED
      BY <2>1, OutsideChain DEF TokensTell
  <1>4. ASSUME NEW m \in Messages, queue' = Append(queue, m), Tells(m)' PROVE TokensTell'
    <2>1. /\ DOMAIN queue' = DOMAIN queue \cup {Len(queue) + 1} /\ queue'[Len(queue) + 1] = m
          /\ \A i \in DOMAIN queue : queue'[i] = queue[i]
      BY <1>4, Appended DEF QueueTypes
    <2>2. \A t \in Tokens' : t = m \/ t.type \notin Chain
      BY <1>1, <1>2, <2>1 DEF Tokens
    <2> QED
      BY <1>4, <2>2, OutsideChain DEF TokensTell
  <1> QED
    BY <1>3, <1>4

\* The subscription of a step that does not subscribe.
SubscriptionFound == subscription # {} /\ "failed" \notin seen => subscription = {pconn}

LEMMA ToldStep ==
  ASSUME AncsTypes, OneDiscovery, OneOf(Chain), TokensTell, AnswersTell, [AncsNext]_ancsVars,
         "secured twice" \notin seen, pconn # NoPhone, pconn' = pconn, ~advertising, ~AncsBoot
  PROVE  TokensTell' /\ AnswersTell'
  <1> USE DEF AncsTypes
  <1>1. CASE (\E p \in Phones : connected(p)) \/ disconnected
    BY <1>1 DEF connected, disconnected
  <1>3. CASE security_changed
    <2>1. /\ queue' = Append(queue, Msg("SEC_OPEN", 0))
          /\ Msg("SEC_OPEN", 0) \in Messages
          /\ Msg("SEC_OPEN", 0).type = "SEC_OPEN"
      BY <1>3, MessageTypes DEF security_changed, OpenMsg
    <2>2. /\ disc' = disc /\ params' = params /\ discovering' = discovering /\ handling' = handling
      BY <1>3 DEF security_changed, linkVars, discVars, requestVars
    <2>m. PICK m \in Messages : queue' = Append(queue, m) /\ m.type = "SEC_OPEN"
      BY <2>1
    <2>3. Tokens' \subseteq Tokens \cup {m, handling'} /\ handling \in Tokens
      BY <2>m, QueueAppended DEF Tokens
    <2>4. m.type = "SEC_OPEN"
      BY <2>m
    <2>5. TokensTell' /\ AnswersTell'
      BY <2>2, <2>3, <2>4, ToldKept
    <2> QED
      BY <2>5
  <1>4. CASE notify_func
    <2>1. /\ queue' = Append(queue, Msg("ANCS_SERVICE", 0))
          /\ Msg("ANCS_SERVICE", 0) \in Messages
          /\ Msg("ANCS_SERVICE", 0).type = "ANCS_SERVICE"
      BY <1>4, MessageTypes DEF notify_func, OpenMsg
    <2>2. /\ disc' = disc /\ params' = params /\ discovering' = discovering /\ handling' = handling
      BY <1>4 DEF notify_func, linkVars, discVars, requestVars
    <2>m. PICK m \in Messages : queue' = Append(queue, m) /\ m.type = "ANCS_SERVICE"
      BY <2>1
    <2>3. Tokens' \subseteq Tokens \cup {m, handling'} /\ handling \in Tokens
      BY <2>m, QueueAppended DEF Tokens
    <2>4. m.type \notin Chain
      BY <2>m, TypeSets
    <2>5. TokensTell' /\ AnswersTell'
      BY <2>2, <2>3, <2>4, ToldKept
    <2> QED
      BY <2>5
  <1>5. CASE discover_func_found
    <2>0. /\ discovering # <<>> /\ discovering' = discovering /\ params' = params
          /\ queue' = queue /\ handling' = handling
          /\ disc' = [disc EXCEPT !.found = TRUE, !.handles[Field(params)] = pconn]
      BY <1>5 DEF discover_func_found, linkVars, discVars, requestVars
    <2>1. \A m \in Tokens' : m.type \notin Chain
      BY <2>0, ChainElsewhere DEF Tokens
    <2>2. TokensTell'
      BY <2>1, OutsideChain DEF TokensTell
    <2>3. /\ disc \in Discoveries /\ disc.char \in {"ns_ccd", "ds_ccd"}
          /\ disc.handles \in HandleSets
      BY DEF DiscoveryTypes, Discoveries
    <2>4. disc'.char = disc.char /\ disc'.handles = [disc.handles EXCEPT ![Field(params)] = pconn]
      BY <2>0, <2>3 DEF Discoveries
    <2>5. CASE params = "CHARACTERISTIC"
      <3>1. Field(params) = "chars"
        BY <2>5 DEF Field
      <3>2. disc'.handles.chars = pconn
        BY <2>3, <2>4, <3>1 DEF HandleSets
      <3>3. AnswersTell'
        BY <2>0, <2>5, <3>2 DEF AnswersTell
      <3> QED
        BY <2>2, <3>3
    <2>6. CASE params = "DESCRIPTOR"
      <3>1. Field(params) = disc.char
        BY <2>6 DEF Field
      <3>2. disc.handles.chars = pconn /\ (disc.char = "ds_ccd" => disc.handles.ns_ccd = pconn)
        BY <2>0, <2>6 DEF AnswersTell
      <3>3. /\ disc'.handles.chars = pconn
            /\ disc.char = "ds_ccd" => disc'.handles.ns_ccd = pconn
            /\ disc'.handles[disc.char] = pconn
        BY <2>3, <2>4, <3>1, <3>2 DEF HandleSets
      <3>4. AnswersTell'
        BY <2>0, <2>4, <2>6, <3>3 DEF AnswersTell
      <3> QED
        BY <2>2, <3>4
    <2>7. CASE params \notin {"CHARACTERISTIC", "DESCRIPTOR"}
      <3>1. AnswersTell'
        BY <2>0, <2>7 DEF AnswersTell
      <3> QED
        BY <2>2, <3>1
    <2> QED
      BY <2>5, <2>6, <2>7
  <1>6. CASE discover_func_end
    <2>0. /\ discovering # <<>> /\ discovering' = Tail(discovering)
          /\ queue' = Append(queue, EndMsg) /\ handling' = handling
          /\ disc' = [disc EXCEPT !.found = FALSE]
      BY <1>6 DEF discover_func_end, linkVars, discVars, requestVars
    <2>1. discovering' = <<>>
      BY <2>0, OneTail DEF OneDiscovery
    <2>2. AnswersTell'
      BY <2>1 DEF AnswersTell
    <2>3. /\ EndMsg \in Messages /\ params \in DiscTypes
          /\ EndMsg.type = params /\ (EndMsg.status = 0 <=> disc.found)
      BY <1>6, MessageTypes
    <2>4. disc'.handles = disc.handles /\ disc'.char = disc.char
      BY <2>0 DEF DiscoveryTypes, Discoveries
    <2>e. PICK e : e = EndMsg
      OBVIOUS
    <2>5. Tells(e)'
      <3>1. e.type = params /\ e.type # "COMPLETE" /\ (e.status = 0 <=> disc.found)
        BY <2>e, <2>3 DEF DiscTypes
      <3> QED
        BY <2>0, <2>4, <3>1 DEF Tells, AnswersTell
    <2>6. /\ DOMAIN queue' = DOMAIN queue \cup {Len(queue) + 1} /\ queue'[Len(queue) + 1] = e
          /\ \A i \in DOMAIN queue : queue'[i] = queue[i]
      <3>1. queue' = Append(queue, e) /\ e \in Messages /\ queue \in Seq(Messages)
        BY <2>e, <2>0, <2>3 DEF QueueTypes
      <3> QED
        BY <3>1, SentLast
    <2>7. \A t \in Tokens' : t = e \/ t.type \notin Chain
      BY <2>0, <2>6, ChainElsewhere DEF Tokens
    <2>8. TokensTell'
      BY <2>5, <2>7, OutsideChain DEF TokensTell
    <2> QED
      BY <2>2, <2>8
  <1>7. CASE start_gatt_database_discovery
    <2>0. /\ handling.type = "SEC_OPEN" /\ handling' = NoMessage /\ queue' = queue
          /\ discovering' = discovering \/ params' = "PRIMARY"
      BY <1>7 DEF start_gatt_database_discovery, Handles, Discover
    <2>1. handling.type \in Chain
      BY <2>0, TypeSets
    <2>2. TokensTell'
      BY <2>0, <2>1, ChainMoved
    <2>3. discovering = <<>>
      BY <2>1, ChainElsewhere
    <2>4. AnswersTell'
      BY <2>0, <2>3 DEF AnswersTell
    <2> QED
      BY <2>2, <2>4
  <1>8. CASE primary_service_by_uuid_cfm
    <2>0. handling.type = "PRIMARY" /\ handling' = NoMessage
      BY <1>8 DEF primary_service_by_uuid_cfm, Handles
    <2>1. handling.type \in Chain /\ handling \in Tokens
      BY <2>0, TypeSets DEF Tokens
    <2>2. discovering = <<>> /\ ~disc.found
      <3>1. discovering = <<>>
        BY <2>1, ChainElsewhere
      <3> QED
        BY <3>1, AppendedFirst DEF OneDiscovery
    <2>3. Tells(handling) /\ disc \in Discoveries /\ pconn # NoPhone
      BY <2>1 DEF TokensTell, DiscoveryTypes
    <2>4. CASE handling.status = 0 /\ disc.handles.service # NoPhone
      <3>1. params' = "CHARACTERISTIC" /\ disc' = disc /\ queue' = queue
        BY <1>8, <2>3, <2>4 DEF primary_service_by_uuid_cfm, Discover
      <3>2. ~disc'.found
        BY <2>2, <3>1
      <3>3. TokensTell'
        BY <2>0, <2>1, <3>1, ChainMoved
      <3>4. AnswersTell'
        BY <3>1, <3>2 DEF AnswersTell
      <3> QED
        BY <3>3, <3>4
    <2>5. CASE ~(handling.status = 0 /\ disc.handles.service # NoPhone)
      <3>1. /\ disc' = [disc EXCEPT !.result = FALSE] /\ queue' = Append(queue, Msg("COMPLETE", 0))
            /\ discovering' = discovering
        BY <1>8, <2>5 DEF primary_service_by_uuid_cfm, stop_gatt_database_discovery
      <3>2. ~disc'.result
        BY <2>3, <3>1 DEF Discoveries
      <3>s. Msg("COMPLETE", 0) \in Messages /\ Msg("COMPLETE", 0).type = "COMPLETE"
        BY MessageTypes
      <3>m. PICK m \in Messages : m = Msg("COMPLETE", 0) /\ m.type = "COMPLETE"
        BY <3>s
      <3>3. Tells(m)'
        BY <3>m, <3>2 DEF Tells
      <3>4. TokensTell'
        BY <2>0, <2>1, <3>m, <3>1, <3>3, ChainMoved
      <3>5. AnswersTell'
        BY <2>2, <3>1 DEF AnswersTell
      <3> QED
        BY <3>4, <3>5
    <2> QED
      BY <2>4, <2>5
  <1>9. CASE service_characteristic_cfm
    <2>0. handling.type = "CHARACTERISTIC" /\ handling' = NoMessage
      BY <1>9 DEF service_characteristic_cfm, Handles
    <2>1. handling.type \in Chain /\ handling \in Tokens
      BY <2>0, TypeSets DEF Tokens
    <2>2. discovering = <<>> /\ ~disc.found
      <3>1. discovering = <<>>
        BY <2>1, ChainElsewhere
      <3> QED
        BY <3>1, AppendedFirst DEF OneDiscovery
    <2>3. Tells(handling) /\ disc \in Discoveries /\ pconn # NoPhone
      BY <2>1 DEF TokensTell, DiscoveryTypes
    <2>4. CASE handling.status = 0 /\ disc.handles.chars # NoPhone
      <3>0. /\ params' = "DESCRIPTOR" /\ disc' = [disc EXCEPT !.char = "ns_ccd"] /\ queue' = queue
        BY <1>9, <2>3, <2>4 DEF service_characteristic_cfm, Discover
      <3>1. queue' = queue /\ params' = "DESCRIPTOR"
        BY <3>0
      <3>2. /\ disc'.found = disc.found /\ disc'.found = FALSE /\ disc'.char = "ns_ccd"
            /\ disc'.handles = disc.handles /\ disc.handles.chars = pconn
        BY <2>0, <2>2, <2>3, <2>4, <3>0 DEF Discoveries, Tells
      <3>3. TokensTell'
        BY <2>0, <2>1, <3>1, ChainMoved
      <3>4. AnswersTell'
        BY <3>1, <3>2 DEF AnswersTell
      <3> QED
        BY <3>3, <3>4
    <2>5. CASE ~(handling.status = 0 /\ disc.handles.chars # NoPhone)
      <3>0. handling.status # 0
        BY <2>0, <2>3, <2>5 DEF Tells
      <3>1. /\ disc' = [disc EXCEPT !.char = "ns_ccd", !.result = FALSE]
            /\ queue' = Append(queue, Msg("COMPLETE", 0)) /\ discovering' = discovering
        BY <1>9, <2>5, <3>0 DEF service_characteristic_cfm, stop_gatt_database_discovery
      <3>2. ~disc'.result
        BY <2>3, <3>1 DEF Discoveries
      <3>s. Msg("COMPLETE", 0) \in Messages /\ Msg("COMPLETE", 0).type = "COMPLETE"
        BY MessageTypes
      <3>m. PICK m \in Messages : m = Msg("COMPLETE", 0) /\ m.type = "COMPLETE"
        BY <3>s
      <3>3. Tells(m)'
        BY <3>m, <3>2 DEF Tells
      <3>4. TokensTell'
        BY <2>0, <2>1, <3>m, <3>1, <3>3, ChainMoved
      <3>5. AnswersTell'
        BY <2>2, <3>1 DEF AnswersTell
      <3> QED
        BY <3>4, <3>5
    <2> QED
      BY <2>4, <2>5
  <1>10. CASE characteristic_descriptor_cfm
    <2>0. handling.type = "DESCRIPTOR" /\ handling' = NoMessage
      BY <1>10 DEF characteristic_descriptor_cfm, Handles
    <2>1. handling.type \in Chain /\ handling \in Tokens
      BY <2>0, TypeSets DEF Tokens
    <2>2. discovering = <<>> /\ ~disc.found
      <3>1. discovering = <<>>
        BY <2>1, ChainElsewhere
      <3> QED
        BY <3>1, AppendedFirst DEF OneDiscovery
    <2>3. Tells(handling) /\ disc \in Discoveries /\ pconn # NoPhone
      BY <2>1 DEF TokensTell, DiscoveryTypes
    <2>4. CASE handling.status = 0 /\ disc.char = "ns_ccd"
      <3>0. /\ params' = "DESCRIPTOR" /\ disc' = [disc EXCEPT !.char = "ds_ccd"] /\ queue' = queue
        BY <1>10, <2>3, <2>4 DEF characteristic_descriptor_cfm, Discover
      <3>1. queue' = queue /\ params' = "DESCRIPTOR"
        BY <3>0
      <3>2. /\ disc'.found = disc.found /\ disc'.found = FALSE /\ disc'.char = "ds_ccd"
            /\ disc'.handles = disc.handles /\ disc.handles.chars = pconn
            /\ disc.handles.ns_ccd = pconn
        BY <2>0, <2>2, <2>3, <2>4, <3>0 DEF Discoveries, Tells
      <3>3. TokensTell'
        BY <2>0, <2>1, <3>1, ChainMoved
      <3>4. AnswersTell'
        BY <3>1, <3>2 DEF AnswersTell
      <3> QED
        BY <3>3, <3>4
    <2>5. CASE ~(handling.status = 0 /\ disc.char = "ns_ccd")
      <3>0. /\ disc' = [disc EXCEPT !.result = IF handling.status = 0 THEN @ ELSE FALSE]
            /\ queue' = Append(queue, Msg("COMPLETE", 0)) /\ discovering' = discovering
        BY <1>10, <2>5 DEF characteristic_descriptor_cfm, stop_gatt_database_discovery
      <3>1. queue' = Append(queue, Msg("COMPLETE", 0)) /\ discovering' = discovering
        BY <3>0
      <3>6. disc'.handles = disc.handles /\ (handling.status # 0 => disc'.result = FALSE)
        BY <2>3, <3>0 DEF Discoveries
      <3>7. handling.status = 0 => disc.char = "ds_ccd"
        BY <2>3, <2>5 DEF Discoveries
      <3>2. disc'.result => /\ disc'.handles.chars = pconn
                            /\ disc'.handles.ns_ccd = pconn /\ disc'.handles.ds_ccd = pconn
        BY <2>0, <2>3, <3>6, <3>7 DEF Tells
      <3>s. Msg("COMPLETE", 0) \in Messages /\ Msg("COMPLETE", 0).type = "COMPLETE"
        BY MessageTypes
      <3>m. PICK m \in Messages : m = Msg("COMPLETE", 0) /\ m.type = "COMPLETE"
        BY <3>s
      <3>3. Tells(m)'
        BY <3>m, <3>2 DEF Tells
      <3>4. TokensTell'
        BY <2>0, <2>1, <3>m, <3>1, <3>3, ChainMoved
      <3>5. AnswersTell'
        BY <2>2, <3>1 DEF AnswersTell
      <3> QED
        BY <3>4, <3>5
    <2> QED
      BY <2>4, <2>5
  <1>11. CASE HandleComplete
    <2>0. /\ handling.type = "COMPLETE" /\ handling' = NoMessage /\ queue' = queue
          /\ disc' = disc /\ params' = params /\ discovering' = discovering
      BY <1>11 DEF HandleComplete, Handles, linkVars, discVars, requestVars
    <2>1. handling \in Tokens /\ \A m \in Tokens' : m \in Tokens \/ m.type \notin Chain
      BY <2>0, WildType, TypeSets DEF Tokens
    <2>2. TokensTell' /\ AnswersTell'
      BY <2>0, <2>1, ToldKept
    <2> QED
      BY <2>2
  <1>12. CASE Receive
    <2>1. disc' = disc /\ params' = params /\ discovering' = discovering
      BY <1>12 DEF Receive, linkVars, discVars, requestVars
    <2>2. /\ Tokens' \subseteq Tokens \cup {handling'}
          /\ (handling' \in Tokens \/ handling'.type \notin Chain)
      <3>1. /\ queue # <<>>
            /\ queue' = Tail(queue)
            /\ (handling' = Head(queue) \/ handling' = NoMessage)
        BY <1>12 DEF Receive
      <3>2. Head(queue) \in Tokens /\ Tokens' \subseteq Tokens \cup {handling'}
        BY <3>1, QueueShifted
      <3> QED
        BY <3>1, <3>2, WildType, TypeSets
    <2>3. TokensTell' /\ AnswersTell'
      BY <2>1, <2>2, ToldKept
    <2> QED
      BY <2>3
  <1>13. CASE Confusion \/ write_func \/ HandleClose
    <2>1. disc' = disc /\ params' = params /\ discovering' = discovering
      BY <1>13 DEF Confusion, write_func, HandleClose, linkVars, discVars, requestVars
    <2>2. /\ Tokens' \subseteq Tokens \cup {handling'}
          /\ (handling' \in Tokens \/ handling'.type \notin Chain)
      <3>1. /\ queue' = queue
            /\ handling' \in {handling, NoMessage, [NoMessage EXCEPT !.type = "wild"]}
        BY <1>13 DEF Confusion, write_func, HandleClose, Handles, linkVars, discVars, requestVars
      <3>2. handling' = handling \/ handling'.type \in {"idle", "wild"}
        BY <3>1, WildType
      <3> QED
        BY <3>1, <3>2, TypeSets DEF Tokens
    <2>3. TokensTell' /\ AnswersTell'
      BY <2>1, <2>2, ToldKept
    <2> QED
      BY <2>3
  <1>14. CASE CopyFirst
    <2>1. disc' = disc /\ params' = params /\ discovering' = discovering
      BY <1>14 DEF CopyFirst, linkVars, discVars, requestVars
    <2>2. /\ Tokens' \subseteq Tokens \cup {handling'}
          /\ (handling' \in Tokens \/ handling'.type \notin Chain)
      <3>1. queue' = queue /\ handling'.type \in {"copy", "params", "flag", "idle"}
        BY <1>14, WildType DEF CopyFirst, QueueTypes
      <3> QED
        BY <3>1, TypeSets DEF Tokens
    <2>3. TokensTell' /\ AnswersTell'
      BY <2>1, <2>2, ToldKept
    <2> QED
      BY <2>3
  <1>15. CASE CopyLast
    <2>1. disc' = disc /\ params' = params /\ discovering' = discovering
      BY <1>15 DEF CopyLast, linkVars, discVars, requestVars
    <2>2. /\ Tokens' \subseteq Tokens \cup {handling'}
          /\ (handling' \in Tokens \/ handling'.type \notin Chain)
      <3>1. queue' = queue /\ handling'.type \in {"copy", "params", "flag", "idle"}
        BY <1>15, WildType DEF CopyLast, QueueTypes
      <3> QED
        BY <3>1, TypeSets DEF Tokens
    <2>3. TokensTell' /\ AnswersTell'
      BY <2>1, <2>2, ToldKept
    <2> QED
      BY <2>3
  <1>16. CASE Write
    <2>1. disc' = disc /\ params' = params /\ discovering' = discovering
      BY <1>16 DEF Write, linkVars, discVars, requestVars
    <2>2. /\ Tokens' \subseteq Tokens \cup {handling'}
          /\ (handling' \in Tokens \/ handling'.type \notin Chain)
      <3>1. queue' = queue /\ handling'.type \in {"copy", "params", "flag", "idle"}
        BY <1>16, WildType DEF Write, QueueTypes
      <3> QED
        BY <3>1, TypeSets DEF Tokens
    <2>3. TokensTell' /\ AnswersTell'
      BY <2>1, <2>2, ToldKept
    <2> QED
      BY <2>3
  <1>17. CASE SetPending
    <2>1. disc' = disc /\ params' = params /\ discovering' = discovering
      BY <1>17 DEF SetPending, linkVars, discVars, requestVars
    <2>2. /\ Tokens' \subseteq Tokens \cup {handling'}
          /\ (handling' \in Tokens \/ handling'.type \notin Chain)
      <3>1. queue' = queue /\ handling'.type \in {"copy", "params", "flag", "idle"}
        BY <1>17, WildType DEF SetPending, QueueTypes
      <3> QED
        BY <3>1, TypeSets DEF Tokens
    <2>3. TokensTell' /\ AnswersTell'
      BY <2>1, <2>2, ToldKept
    <2> QED
      BY <2>3
  <1>18. CASE UNCHANGED ancsVars
    <2>1. /\ disc' = disc /\ params' = params /\ discovering' = discovering /\ Tokens' = Tokens
          /\ subscription' = subscription /\ seen' = seen
      BY <1>18 DEF ancsVars, Tokens
    <2>2. TokensTell' /\ AnswersTell'
      BY <2>1, ToldKept
    <2> QED
      BY <2>2
  <1> QED
    BY <1>1, <1>3, <1>4, <1>5, <1>6, <1>7, <1>8, <1>9, <1>10, <1>11, <1>12, <1>13, <1>14, <1>15,
       <1>16, <1>17, <1>18
       DEF AncsNext, AncsRx, AncsMain

LEMMA HandlesFoundStep ==
  AncsTypes /\ LinkPhases /\ CloseIsLast /\ OneDiscovery /\ OneChain /\ HandlesFound
     /\ [AncsNext]_ancsVars => HandlesFound'
  <1> SUFFICES ASSUME AncsTypes, LinkPhases, CloseIsLast, OneDiscovery, OneChain, HandlesFound,
                      [AncsNext]_ancsVars, "secured twice" \notin seen', NotLost', pconn' # NoPhone
               PROVE  TokensTell' /\ AnswersTell' /\ SubscriptionFound'
    BY DEF HandlesFound, SubscriptionFound
  <1>1. ASSUME NEW p \in Phones, connected(p)
        PROVE  TokensTell' /\ AnswersTell' /\ SubscriptionFound'
    <2> DEFINE m == [type |-> OpenMsg, of |-> links + 1, status |-> 0]
    <2>1. /\ queue' = Append(queue, m) /\ handling' = handling /\ advertising /\ seen' = seen
          /\ discovering' = discovering /\ subscription' = subscription
      BY <1>1 DEF connected, linkVars, discVars, requestVars
    <2>2. queue = <<>> /\ handling.type \in {"idle", "wild"} /\ pconn = NoPhone
      BY <2>1 DEF CloseIsLast, LinkPhases, NotLost
    <2>3. discovering = <<>> /\ subscription = {}
      BY <2>2 DEF LinkPhases
    <2>4. m \in Messages /\ m.type = "CONN_OPEN"
      BY MessageTypes DEF AncsTypes, OpenMsg
    <2> HIDE DEF m
    <2>5. DOMAIN queue = {} /\ queue \in Seq(Messages)
      BY <2>2, SentLast DEF AncsTypes, QueueTypes
    <2>6. DOMAIN queue' = DOMAIN queue \cup {Len(queue) + 1} /\ queue'[Len(queue) + 1] = m
      BY <2>1, <2>4, <2>5, SentLast
    <2>7. \A t \in Tokens' : t.type \in {"idle", "wild", "CONN_OPEN"}
      BY <2>1, <2>2, <2>4, <2>5, <2>6 DEF Tokens
    <2>8. \A t \in Tokens' : t.type \notin Chain
      BY <2>7, TypeSets
    <2>9. TokensTell'
      BY <2>8, OutsideChain DEF TokensTell
    <2> QED
      BY <2>1, <2>3, <2>9 DEF AnswersTell, SubscriptionFound
  <1>2. ~disconnected /\ ~AncsBoot
    BY DEF disconnected, AncsBoot
  <1>3. CASE ~(\E p \in Phones : connected(p))
    <2>1. /\ pconn' = pconn
          /\ seen \subseteq seen'
          /\ (HandleComplete \/ subscription' = subscription)
      BY <1>2, <1>3 DEF AncsNext, AncsRx, AncsMain, security_changed, notify_func, Confusion,
         discover_func_found, discover_func_end, write_func, Receive, HandleClose,
         start_gatt_database_discovery, primary_service_by_uuid_cfm, service_characteristic_cfm,
         characteristic_descriptor_cfm, HandleComplete, CopyFirst, CopyLast, Write, SetPending,
         ancsVars, linkVars, discVars, requestVars
    <2>2. pconn # NoPhone /\ "secured twice" \notin seen /\ NotLost /\ ~advertising
      BY <2>1 DEF NotLost, LinkPhases
    <2>3. TokensTell /\ AnswersTell /\ SubscriptionFound /\ OneOf(Chain)
      BY <2>2 DEF HandlesFound, SubscriptionFound, OneChain
    <2>4. TokensTell' /\ AnswersTell'
      BY <1>2, <2>1, <2>2, <2>3, ToldStep
    <2>5. CASE subscription' = subscription
      BY <2>1, <2>3, <2>4, <2>5 DEF SubscriptionFound
    <2>6. CASE HandleComplete
      <3>1. /\ handling.type = "COMPLETE" /\ ("failed" \notin seen' => disc.result)
            /\ \/ subscription' = subscription
               \/ subscription' = {disc.handles.chars, disc.handles.ns_ccd, disc.handles.ds_ccd}
        BY <2>2, <2>6 DEF HandleComplete, Handles
      <3>2. Tells(handling)
        BY <2>3 DEF TokensTell, Tokens
      <3>3. disc.result => {disc.handles.chars, disc.handles.ns_ccd, disc.handles.ds_ccd} = {pconn}
        BY <3>1, <3>2 DEF Tells
      <3>4. SubscriptionFound'
        BY <2>1, <2>3, <3>1, <3>3 DEF SubscriptionFound
      <3> QED
        BY <2>4, <3>4
    <2> QED
      BY <2>1, <2>5, <2>6
  <1> QED
    BY <1>1, <1>3

-----------------------------------------------------------------------------
(***************************************************************************)
(* The invariant, and what follows from it.                                *)
(***************************************************************************)
AncsInv ==
    /\ AncsTypes /\ LinkPhases /\ CloseIsLast /\ OwnUuids /\ OneRequest
    /\ OneDiscovery /\ OneChain /\ HandlesFound

LEMMA NoMore == ASSUME NEW n \in Nat, n <= 1 PROVE ~(n > 1)
  OBVIOUS

LEMMA OneDiscoveryClear ==
  ASSUME NEW d, NEW s, s = <<>> \/ s = <<d>>
  PROVE  (s # <<>> => d = Head(s)) /\ ~(Len(s) > 1)
  OBVIOUS

LEMMA AncsInvInit == AncsInit => AncsInv
  <1> SUFFICES ASSUME AncsInit PROVE AncsInv
    OBVIOUS
  <1>1. AncsTypes
    BY AncsTypesInit
  <1>2. /\ queue = <<>> /\ handling = NoMessage /\ pconn = NoPhone /\ writing = <<>>
        /\ discovering = <<>> /\ subscription = {} /\ disc.found = FALSE
    BY DEF AncsInit, NoDisc
  <1>3. DOMAIN queue = {} /\ DOMAIN writing = {} /\ handling.type = "idle" /\ Len(writing) <= 1
    BY <1>2, SentLast, NoRequests, WildType
  <1>4. Tokens = {NoMessage}
    BY <1>2, <1>3 DEF Tokens
  <1>5. \A types : At(types) = {}
    BY <1>3 DEF At
  <1>6. LinkPhases
    BY <1>2, <1>3, <1>5 DEF LinkPhases, OnlyComplete, CloseOrder
  <1>7. CloseIsLast
    BY <1>2, <1>3, <1>4 DEF CloseIsLast, OfLink, CloseLast
  <1>8. OwnUuids
    BY <1>2, <1>3, <1>4 DEF OwnUuids
  <1>9. OneRequest
    BY <1>2, <1>3 DEF OneRequest
  <1>10. OneOf(Starts) /\ OneOf(Chain)
    BY <1>2, <1>3, <1>5, TypeSets DEF OneOf, NoneOf
  <1> QED
    BY <1>1, <1>2, <1>6, <1>7, <1>8, <1>9, <1>10
       DEF AncsInv, OneDiscovery, OneChain, HandlesFound

LEMMA AncsInvariant == AncsSpec => []AncsInv
  <1>1. AncsInv /\ [AncsNext]_ancsVars => AncsInv'
    BY AncsTypesStep, LinkPhasesStep, CloseIsLastStep, OwnUuidsStep, OneRequestStep,
       OneDiscoveryStep, OneChainStep, HandlesFoundStep DEF AncsInv
  <1> QED
    BY AncsInvInit, <1>1, PTL DEF AncsSpec

\* discover_func and write_func clear the parameters that the next discovery and the
\* next request share with them: with one secured link and no early answer no answer
\* is ever taken for another's, whatever the number of links and of notifications.
THEOREM AncsNoConfusion == AncsSpec => []NoConfusion
  <1>1. AncsInv => NoConfusion
    <2> SUFFICES ASSUME AncsInv PROVE NoConfusion
      OBVIOUS
    <2>1. Confused => "secured twice" \in seen
      <3> SUFFICES ASSUME "secured twice" \notin seen PROVE ~Confused
        OBVIOUS
      <3>1. discovering = <<>> \/ discovering = <<params>>
        BY DEF AncsInv, OneDiscovery
      <3> QED
        BY <3>1, OneDiscoveryClear DEF Confused
    <2>2. "early answer" \notin seen => Len(writing) <= 1
      BY DEF AncsInv, OneRequest
    <2>3. Len(writing) \in Nat
      BY DEF AncsInv, AncsTypes, RequestTypes
    <2>4. Len(writing) > 1 => "early answer" \in seen
      <3> DEFINE n == Len(writing)
      <3> HIDE DEF n
      <3>1. n \in Nat /\ ("early answer" \notin seen => n <= 1)
        BY <2>2, <2>3 DEF n
      <3>2. n > 1 => "early answer" \in seen
        BY <3>1, NoMore
      <3> QED
        BY <3>2 DEF n
    <2> QED
      BY <2>1, <2>4 DEF NoConfusion, AncsInv, OneRequest
  <1> QED
    BY AncsInvariant, <1>1, PTL

\* BLE_DISCOVERY_COMPELTE_IND: after a discovery that found the service the client is
\* subscribed with the handles of the phone that is connected, however many phones
\* came before it.
THEOREM AncsOwnHandles == AncsSpec => []OwnHandles
  <1>1. AncsInv => OwnHandles
    BY DEF AncsInv, LinkPhases, HandlesFound, NotLost, OwnHandles
  <1> QED
    BY AncsInvariant, <1>1, PTL

\* app_disc_send_msg_to_app: a message of a lost link is never handled on a later one.
THEOREM AncsStaleMessageDropped == AncsSpec => []StaleMessageDropped
  <1>1. AncsInv => StaleMessageDropped
    BY DEF AncsInv, AncsTypes, QueueTypes, CloseIsLast, NotLost, OfLink, Tokens, Alive,
           StaleMessageDropped
  <1> QED
    BY AncsInvariant, <1>1, PTL

\* ancs_get_notification_attribute_cmd: the attributes asked for are those of one
\* notification, and of this link.
THEOREM AncsAsksForOwn == AncsSpec => []AsksForOwn
  <1>1. AncsInv => AsksForOwn
    BY DEF AncsInv, OwnUuids, AsksForOwn
  <1> QED
    BY AncsInvariant, <1>1, PTL

=============================================================================
