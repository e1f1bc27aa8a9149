-------------------------------- MODULE Ancs --------------------------------
(***************************************************************************)
(* The ANCS client (samples/ancs/src/ancs: app_ble.c, app_disc.c,          *)
(* ancs_service.c, ancs_service_disc.c, main.c): a phone connects, its     *)
(* notification service is discovered and subscribed to, and the           *)
(* attributes of each notification are asked for.                          *)
(*                                                                         *)
(* The BT RX thread runs its callbacks to the end.  They send messages to  *)
(* the main thread, which tests app_cb.pconn, and may lose the processor   *)
(* between that test and the work, and where the request for attributes    *)
(* is put together.  A handle is named by the phone it was discovered on.  *)
(* A phone offers the whole service or nothing.  The Bluetooth host, in    *)
(* ROM, ends the requests of a link that is lost before it reports that.   *)
(***************************************************************************)
EXTENDS Naturals, Sequences

CONSTANTS Phones, NoPhone,
          HasAncs,            \* the phones that offer the service
          MaxLinks,           \* bound: connections
          MaxSecurityChanges, \* bound: for one link
          MaxNotifications    \* bound: for one link

ASSUME AncsAssumption ==
    /\ NoPhone \notin Phones
    /\ HasAncs \subseteq Phones
    /\ {MaxLinks, MaxSecurityChanges, MaxNotifications} \subseteq Nat

VARIABLES
    pconn,        \* app_cb.pconn, the link as the RX thread sees it
    links,        \* the number of the link
    advertising,
    queue,        \* the messages to the main thread
    handling,     \* the message that the main thread is handling, and how far
    params,       \* discover_params: the type, or "cleared"
    discovering,  \* the discoveries that the host carries out
    disc,         \* found, char_index, discovery_result, and the handles
    nvm,          \* disc_h_present and the handles
    notif_configuring,
    subscription, \* the handles used to subscribe on this link
    request,      \* uuid_data, notif_attr_req, write_params, pending_flag
    writing,      \* the requests that the host is writing
    count,        \* security changes and notifications of this link
    seen          \* history: what the properties exclude
ancsVars == <<pconn, links, advertising, queue, handling, params, discovering, disc, nvm,
              notif_configuring, subscription, request, writing, count, seen>>

linkVars == <<pconn, links, advertising, count>>
discVars == <<params, discovering, disc, nvm, notif_configuring, subscription>>
requestVars == <<request, writing>>

NoHandles == [service |-> NoPhone, chars |-> NoPhone, ns_ccd |-> NoPhone, ds_ccd |-> NoPhone]
NoMessage == [type |-> "idle", of |-> 0, status |-> 0]
NoDisc(h) == [found |-> FALSE, char |-> "ns_ccd", result |-> FALSE, handles |-> h]
\* The UUID of a notification: the n-th of a link.
Uuid(link, n) == [of |-> link, n |-> n]
NoAncsRequest ==
    [uuid |-> Uuid(0, 0), first |-> Uuid(0, 0), last |-> Uuid(0, 0), write_params |-> FALSE,
     pending |-> FALSE]

AncsInit ==
    /\ links = 0
    /\ nvm = [present |-> FALSE, handles |-> NoHandles]
    /\ pconn = NoPhone
    /\ advertising = TRUE
    /\ queue = <<>>
    /\ handling = NoMessage
    /\ params = "cleared"
    /\ discovering = <<>>
    /\ disc = NoDisc(NoHandles)
    /\ notif_configuring = FALSE
    /\ subscription = {}
    /\ request = NoAncsRequest
    /\ writing = <<>>
    /\ count = [security |-> 0, notification |-> 0]
    /\ seen = {}

Alive == handling.type # "wild"

\* app_ble_send_msg_to_app, app_disc_send_msg_to_app
Msg(type, status) == [type |-> type, of |-> links, status |-> status]

-----------------------------------------------------------------------------
(***************************************************************************)
(* The BT RX thread.                                                       *)
(***************************************************************************)
SecureAtOnce == "SEC_OPEN"
OpenMsg == "CONN_OPEN"

connected(p) ==
    /\ Alive /\ advertising /\ links < MaxLinks
    /\ pconn' = p
    /\ links' = links + 1
    /\ advertising' = FALSE
    /\ count' = [security |-> 0, notification |-> 0]
    /\ queue' = Append(queue, [type |-> OpenMsg, of |-> links + 1, status |-> 0])
    /\ UNCHANGED <<handling, discVars, requestVars, seen>>

security_changed ==
    /\ Alive /\ pconn # NoPhone /\ count.security < MaxSecurityChanges
    /\ count' = [count EXCEPT !.security = @ + 1]
    /\ queue' = Append(queue, Msg("SEC_OPEN", 0))
    /\ seen' = IF count.security > 0 THEN seen \cup {"secured twice"} ELSE seen
    /\ UNCHANGED <<pconn, links, advertising, handling, discVars, requestVars>>

\* discover_func with an attribute: the handle is stored.
FieldOnce(type) ==
    CASE type = "PRIMARY" -> "service" [] type = "CHARACTERISTIC" -> "chars" [] OTHER -> "ns_ccd"
Field(type) ==
    CASE type = "PRIMARY" -> "service" [] type = "CHARACTERISTIC" -> "chars" [] OTHER -> disc.char

discover_func_found ==
    /\ Alive /\ discovering # <<>> /\ params = Head(discovering)
    /\ pconn \in HasAncs /\ ~disc.found
    /\ disc' = [disc EXCEPT !.found = TRUE, !.handles[Field(params)] = pconn]
    /\ UNCHANGED <<linkVars, queue, handling, params, discovering, nvm, notif_configuring,
                   subscription, requestVars, seen>>

\* discover_func without an attribute: the discovery has ended.
EndMsg == Msg(params, IF disc.found THEN 0 ELSE 1)

discover_func_end ==
    /\ Alive /\ discovering # <<>> /\ params = Head(discovering)
    /\ pconn \in HasAncs => disc.found
    /\ queue' = Append(queue, EndMsg)
    /\ disc' = [disc EXCEPT !.found = FALSE]
    /\ params' = "cleared"
    /\ discovering' = Tail(discovering)
    /\ UNCHANGED <<linkVars, handling, nvm, notif_configuring, subscription, requestVars, seen>>

\* The parameters are not those of the discovery that the answer is for: another
\* has been started, or they were cleared, the callback included.
Confused ==
    \/ discovering # <<>> /\ params # Head(discovering)
    \/ Len(discovering) > 1
Confusion ==
    /\ Alive /\ Confused
    /\ handling' = [NoMessage EXCEPT !.type = "wild"]
    /\ UNCHANGED <<linkVars, queue, discVars, requestVars, seen>>

AdvertisingAtOnce == TRUE
AdvertisingLater == advertising

StillPending(q) == [q EXCEPT !.write_params = FALSE]
NotPending(q) == [q EXCEPT !.pending = FALSE, !.write_params = FALSE]

\* The link is lost: the host ends what it was doing, then disconnected.
disconnected ==
    /\ Alive /\ pconn # NoPhone /\ ~Confused
    /\ queue' = queue \o (IF discovering = <<>> THEN <<>> ELSE <<EndMsg>>) \o <<Msg("CONN_CLOSE", 0)>>
    /\ params' = IF discovering = <<>> THEN params ELSE "cleared"
    /\ disc' = [disc EXCEPT !.found = FALSE]
    /\ discovering' = <<>>
    /\ request' = IF writing = <<>> THEN request ELSE NotPending(request)
    /\ writing' = <<>>
    /\ pconn' = NoPhone
    /\ subscription' = {}
    /\ seen' = seen \cup (IF handling # NoMessage THEN {"lost while handling"} ELSE {})
                     \cup (IF handling.type = "flag" /\ writing # <<>> THEN {"early answer"} ELSE {})
    /\ advertising' = AdvertisingLater
    /\ UNCHANGED <<links, count, handling, nvm, notif_configuring>>

\* notify_func, ancs_handle_notification_source_data: a notification was added.
notify_func ==
    /\ Alive /\ pconn # NoPhone /\ subscription = {pconn}
    /\ count.notification < MaxNotifications
    /\ count' = [count EXCEPT !.notification = @ + 1]
    /\ request' = [request EXCEPT !.uuid = Uuid(links, count.notification)]
    /\ queue' = Append(queue, Msg("ANCS_SERVICE", 0))
    /\ seen' = IF handling.type = "copy" THEN seen \cup {"torn"} ELSE seen
    /\ UNCHANGED <<pconn, links, advertising, handling, discVars, writing>>

\* write_func, called through write_params.
write_func ==
    /\ Alive /\ writing # <<>>
    /\ request' = NotPending(request)
    /\ writing' = Tail(writing)
    /\ handling' = IF request.write_params THEN handling ELSE [NoMessage EXCEPT !.type = "wild"]
    /\ seen' = IF handling.type \in {"params", "flag"} THEN seen \cup {"early answer"} ELSE seen
    /\ UNCHANGED <<linkVars, queue, discVars>>

-----------------------------------------------------------------------------
(***************************************************************************)
(* The main thread.                                                        *)
(***************************************************************************)
NeedsLink == {"SEC_OPEN", "PRIMARY", "CHARACTERISTIC", "DESCRIPTOR", "COMPLETE", "ANCS_SERVICE"}

\* app_ble_event_handle, app_main: take a message, test pconn.
Receive ==
    /\ handling = NoMessage /\ queue # <<>>
    /\ queue' = Tail(queue)
    /\ handling' = IF \/ Head(queue).type \in NeedsLink /\ pconn # NoPhone
                      \/ Head(queue).type = "CONN_CLOSE"
                   THEN Head(queue) ELSE NoMessage
    /\ UNCHANGED <<linkVars, discVars, requestVars, seen>>

Handles(type) == handling.type = type /\ handling' = NoMessage

\* GattDiscoverPrimaryServiceByUuid and its kind: bt_gatt_discover fails without a link.
Discover(type) ==
    IF pconn = NoPhone THEN UNCHANGED <<params, discovering>>
    ELSE params' = type /\ discovering' = Append(discovering, type)

\* stop_gatt_database_discovery
stop_gatt_database_discovery ==
    /\ nvm' = [nvm EXCEPT !.handles = disc.handles]
    /\ queue' = Append(queue, Msg("COMPLETE", 0))
    /\ UNCHANGED <<params, discovering>>

ConfiguringKept == notif_configuring
ConfiguringReset == FALSE

\* BLE_CONN_CLOSE_IND; advertising starts last.
HandleClose ==
    /\ Handles("CONN_CLOSE")
    /\ notif_configuring' = ConfiguringReset
    /\ advertising' = TRUE
    /\ UNCHANGED <<pconn, links, count, queue, params, discovering, disc, nvm, subscription,
                   requestVars, seen>>

start_gatt_database_discovery ==
    /\ Handles("SEC_OPEN")
    /\ disc' = [disc EXCEPT !.result = TRUE]
    /\ Discover("PRIMARY")
    /\ UNCHANGED <<linkVars, queue, nvm, notif_configuring, subscription, requestVars, seen>>

primary_service_by_uuid_cfm ==
    /\ Handles("PRIMARY")
    /\ IF handling.status = 0 /\ disc.handles.service # NoPhone
       THEN Discover("CHARACTERISTIC") /\ UNCHANGED <<disc, nvm, queue>>
       ELSE disc' = [disc EXCEPT !.result = FALSE] /\ stop_gatt_database_discovery
    /\ UNCHANGED <<linkVars, notif_configuring, subscription, requestVars, seen>>

service_characteristic_cfm ==
    /\ Handles("CHARACTERISTIC")
    /\ IF handling.status = 0 /\ disc.handles.chars # NoPhone
       THEN /\ disc' = [disc EXCEPT !.char = "ns_ccd"]
            /\ Discover("DESCRIPTOR")
            /\ UNCHANGED <<nvm, queue>>
       ELSE /\ disc' = [disc EXCEPT !.char = "ns_ccd",
                                    !.result = IF handling.status = 0 THEN @ ELSE FALSE]
            /\ stop_gatt_database_discovery
    /\ UNCHANGED <<linkVars, notif_configuring, subscription, requestVars, seen>>

characteristic_descriptor_cfm ==
    /\ Handles("DESCRIPTOR")
    /\ IF handling.status = 0 /\ disc.char = "ns_ccd"
       THEN /\ disc' = [disc EXCEPT !.char = "ds_ccd"]
            /\ Discover("DESCRIPTOR")
            /\ UNCHANGED <<nvm, queue>>
       ELSE /\ disc' = [disc EXCEPT !.result = IF handling.status = 0 THEN @ ELSE FALSE]
            /\ stop_gatt_database_discovery
    /\ UNCHANGED <<linkVars, notif_configuring, subscription, requestVars, seen>>

\* BLE_DISCOVERY_COMPELTE_IND, configure_ancs_notifications and
\* configure_ancs_data_source_notification.
HandleComplete ==
    /\ Handles("COMPLETE")
    /\ nvm' = [nvm EXCEPT !.present = TRUE]
    /\ IF disc.handles.ns_ccd # NoPhone /\ ~notif_configuring
       THEN /\ notif_configuring' = TRUE
            /\ subscription' = IF pconn = NoPhone THEN {}
                               ELSE {disc.handles.chars, disc.handles.ns_ccd, disc.handles.ds_ccd}
       ELSE UNCHANGED <<notif_configuring, subscription>>
    /\ seen' = IF disc.result THEN seen ELSE seen \cup {"failed"}
    /\ UNCHANGED <<linkVars, queue, params, discovering, disc, requestVars>>

\* ancs_get_notification_attribute_cmd copies the UUID byte by byte, ...
CopyFirst ==
    /\ handling.type = "ANCS_SERVICE"
    /\ request' = [request EXCEPT !.first = request.uuid]
    /\ handling' = [handling EXCEPT !.type = "copy"]
    /\ UNCHANGED <<linkVars, queue, discVars, writing, seen>>

\* ... and ancs_write_request fills write_params, ...
CopyLast ==
    /\ handling.type = "copy"
    /\ request' = [request EXCEPT !.last = request.uuid, !.write_params = TRUE]
    /\ handling' = [handling EXCEPT !.type = "params"]
    /\ UNCHANGED <<linkVars, queue, discVars, writing, seen>>

MayWrite == ~request.pending /\ pconn # NoPhone

RequestByReference == <<request.first, request.uuid>>
RequestCopied == <<request.first, request.last>>

\* ... writes it unless a request is pending, ...
Write ==
    /\ handling.type = "params"
    /\ IF MayWrite
       THEN /\ handling' = [handling EXCEPT !.type = "flag"]
            /\ writing' = Append(writing, RequestCopied)
       ELSE handling' = NoMessage /\ UNCHANGED writing
    /\ UNCHANGED <<linkVars, queue, discVars, request, seen>>

\* ... and notes that.
SetPending ==
    /\ handling.type = "flag"
    /\ request' = [request EXCEPT !.pending = TRUE]
    /\ handling' = NoMessage
    /\ UNCHANGED <<linkVars, queue, discVars, writing, seen>>

-----------------------------------------------------------------------------
\* Power fails; bt_ready reads the handles with read_persistent_store.
AncsBoot ==
    /\ links > 0
    /\ pconn' = NoPhone
    /\ advertising' = TRUE
    /\ queue' = <<>>
    /\ handling' = NoMessage
    /\ params' = "cleared"
    /\ discovering' = <<>>
    /\ disc' = NoDisc(IF nvm.present THEN nvm.handles ELSE NoHandles)
    /\ notif_configuring' = FALSE
    /\ subscription' = {}
    /\ request' = NoAncsRequest
    /\ writing' = <<>>
    /\ count' = [security |-> 0, notification |-> 0]
    /\ seen' = {}
    /\ UNCHANGED <<links, nvm>>

AncsRx == discover_func_found \/ discover_func_end \/ write_func
AncsMain ==
    \/ Receive \/ HandleClose \/ start_gatt_database_discovery
    \/ primary_service_by_uuid_cfm \/ service_characteristic_cfm \/ characteristic_descriptor_cfm
    \/ HandleComplete \/ CopyFirst \/ CopyLast \/ Write \/ SetPending

AncsNext ==
    \/ \E p \in Phones : connected(p)
    \/ security_changed \/ disconnected \/ notify_func \/ Confusion
    \/ AncsRx \/ AncsMain \/ AncsBoot

\* The main thread runs, and a phone that stays connected answers.
AncsFairness == WF_ancsVars(AncsMain) /\ WF_ancsVars(AncsRx)
AncsSpec == AncsInit /\ [][AncsNext]_ancsVars /\ AncsFairness

-----------------------------------------------------------------------------
\* discover_func and write_func clear the parameters that the next discovery
\* and the next request share with them.  No answer is taken for that of another
\* discovery or finds cleared parameters, and one request is written at a time,
\* as long as the link becomes secure once and no answer comes while a request
\* is put together.
NoConfusion ==
    /\ Confused => "secured twice" \in seen
    /\ Len(writing) > 1 => "early answer" \in seen
    /\ writing # <<>> /\ ~request.write_params => "early answer" \in seen

\* BLE_DISCOVERY_COMPELTE_IND subscribes with whatever handles there are.  After
\* a discovery that found the service they are those of the phone that is
\* connected, never those of an earlier phone or of the NVRAM; unless a link was
\* lost while its last message was being handled.
OwnHandles ==
    subscription # {} /\ seen \cap {"failed", "lost while handling", "secured twice"} = {}
        => subscription = {pconn}

\* app_disc_send_msg_to_app: messages carry no connection.  Because advertising
\* starts when CONN_CLOSE is handled, a message of a lost link finds pconn NULL
\* and has no effect on the next.
StaleMessageDropped ==
    handling # NoMessage /\ pconn # NoPhone /\ "lost while handling" \notin seen /\ Alive
        => handling.of = links

\* ancs_get_notification_attribute_cmd: the attributes asked for are those of a
\* notification of this link, whatever is added while the request is put
\* together, unless the UUID is overwritten while it is copied.
AsksForOwn ==
    "torn" \notin seen => \A i \in DOMAIN writing :
        writing[i][1] = writing[i][2] /\ writing[i][1].of = links

\* BLE_CONN_SEC_OPEN_IND: the service of a phone that stays connected and has
\* become secure is discovered and subscribed to.
Subscribed ==
    \A p \in HasAncs : pconn = p /\ count.security = 1 ~>
        subscription = {p} \/ pconn # p \/ seen # {} \/ ~Alive

\* ancs_write_request: a pending request does not stay pending, or no attributes
\* are asked for any more; unless the answer came before pending_flag was set.
Released == request.pending ~> ~request.pending \/ "early answer" \in seen \/ ~Alive
=============================================================================
