------------------------------ MODULE BondStore ------------------------------
(***************************************************************************)
(* What the voice remote keeps of a host, in RAM and in the NVRAM:         *)
(* the bond (subsys/bluetooth/host/storage.c, the build with one           *)
(* connection), the client characteristic configuration, CCC               *)
(* (subsys/bluetooth/host/bt_host_patch.c, gatt/hid/hog.c), and the        *)
(* address to reconnect to (system_app_ble.c).                             *)
(*                                                                         *)
(* The BT RX thread runs its handlers to the end; the main thread can be   *)
(* preempted between the accesses that its steps are split at.  Power can  *)
(* fail at any time.  A host stands for its address: the comparison of     *)
(* addresses and the resolution of private ones give the same answer.      *)
(***************************************************************************)
EXTENDS Naturals, FiniteSets

CONSTANTS Hosts, None,
          Handles,              \* the CCC descriptors
          HidHandles,           \* those of the three input reports
          CONFIG_CCC_STORE_MAX

ASSUME BondAssumption ==
    /\ None \notin Hosts
    /\ HidHandles \subseteq Handles
    /\ CONFIG_CCC_STORE_MAX \in Nat \ {0}

\* The remote has ten descriptors (five in hog.c, one in bas.c, four in
\* ota_profile.c), and the table ten entries.
ASSUME TableAssumption ==
    IsFiniteSet(Handles) /\ Cardinality(Handles) <= CONFIG_CCC_STORE_MAX

VARIABLES
    nv,                \* NVRAM: BT_KEYS and BT_CCC
    ccc_save_storage,  \* the RAM copy of BT_CCC
    cfg,               \* cfg[0] of each CCC: the peer and its value
    live,              \* ccc->value of each CCC, and hids_ccc_table
    keys,              \* the host whose keys the Bluetooth host has in RAM
    direct_addr,       \* hid_app_cb.direct_addr
    conn,              \* the link
    adv,               \* "off", "direct" or "open"
    main,              \* what the main thread is about to do
    host,              \* the hosts that believe in a bond
    owed,              \* what each host has subscribed to and was not forgotten
    odd                \* history: the ways in which the copies came apart
bondVars == <<nv, ccc_save_storage, cfg, live, keys, direct_addr, conn, adv, main, host, owed, odd>>

NoCcc == [addr |-> None, store |-> <<>>]
NoConn == [peer |-> None, enc |-> FALSE, pairing |-> FALSE, sec |-> FALSE, closing |-> FALSE]

BondInit ==
    /\ nv = [keys |-> None, ccc |-> NoCcc]
    /\ ccc_save_storage = NoCcc
    /\ cfg = [h \in Handles |-> [peer |-> None, value |-> 0]]
    /\ live = [h \in Handles |-> 0]
    /\ keys = None
    /\ direct_addr = None
    /\ conn = NoConn
    /\ adv = "off"
    /\ main = "idle"
    /\ host = {}
    /\ owed = [p \in Hosts |-> {}]
    /\ odd = {}

-----------------------------------------------------------------------------
(***************************************************************************)
(* The CCC values (bt_host_patch.c).                                       *)
(***************************************************************************)
bt_addr_le_is_bonded(p) == keys = p

\* The table old with the value v for the handle h.
With(old, h, v) == [x \in DOMAIN old \cup {h} |-> IF x = h THEN v ELSE old[x]]

CccStoredOneLess(save, p, h, v) ==
    LET old == IF save.addr = p THEN save.store ELSE <<>>
    IN  IF h \in DOMAIN old \/ Cardinality(DOMAIN old) < CONFIG_CCC_STORE_MAX - 1
        THEN [addr |-> p, store |-> With(old, h, v)]
        ELSE [addr |-> p, store |-> old]

\* bt_gatt_store_ccc with ccc_store_find: the table after the value of a
\* handle was stored for an address.  A full table stays as it is.
CccStored(save, p, h, v) ==
    LET old == IF save.addr = p THEN save.store ELSE <<>>
    IN  IF h \in DOMAIN old \/ Cardinality(DOMAIN old) < CONFIG_CCC_STORE_MAX
        THEN [addr |-> p, store |-> With(old, h, v)]
        ELSE [addr |-> p, store |-> old]

bt_gatt_store_ccc(p, h, v) ==
    /\ ccc_save_storage' = CccStored(ccc_save_storage, p, h, v)
    /\ nv' = IF ccc_save_storage' # ccc_save_storage
             THEN [nv EXCEPT !.ccc = ccc_save_storage'] ELSE nv

ccc_changed_compared_late(p, h, v) ==
    /\ live' = [live EXCEPT ![h] = v]
    /\ IF v # live'[h] /\ bt_addr_le_is_bonded(p)
       THEN bt_gatt_store_ccc(p, h, v)
       ELSE UNCHANGED <<nv, ccc_save_storage>>

\* gatt_ccc_changed_new for a value that the peer p has in cfg[0].
gatt_ccc_changed(p, h, v) ==
    /\ live' = [live EXCEPT ![h] = v]
    /\ IF v # live[h] /\ bt_addr_le_is_bonded(p)
       THEN bt_gatt_store_ccc(p, h, v)
       ELSE UNCHANGED <<nv, ccc_save_storage>>

\* all_hid_ccc_is_enabled
all_hid_ccc_is_enabled == \A h \in HidHandles : live[h] = 1

-----------------------------------------------------------------------------
(***************************************************************************)
(* The bond.                                                               *)
(***************************************************************************)
\* is_paired: true if the address is cached or if there are keys, whose
\* address is then cached.
is_paired == direct_addr # None \/ nv.keys # None
DirectAddr == IF direct_addr # None THEN direct_addr ELSE nv.keys

\* storage_read for an address, as the Bluetooth host uses it for encryption.
storage_read(p) == nv.keys = p

-----------------------------------------------------------------------------
(***************************************************************************)
(* The BT RX thread.                                                       *)
(***************************************************************************)
\* The controller accepts a host; the Bluetooth host announces the CCC values
\* that it has for this peer.  Directed advertising only admits one host.
Connect(p) ==
    /\ conn = NoConn
    /\ adv = "open" \/ (adv = "direct" /\ p = direct_addr)
    /\ conn' = [NoConn EXCEPT !.peer = p]
    /\ adv' = "off"
    /\ live' = [h \in Handles |-> IF cfg[h].peer = p THEN cfg[h].value ELSE live[h]]
    /\ UNCHANGED <<nv, ccc_save_storage, cfg, keys, direct_addr, main, host, owed, odd>>

\* The link is gone; ccc->value is 0 while nobody is connected.
Disconnect ==
    /\ conn # NoConn
    /\ conn' = NoConn
    /\ live' = [h \in Handles |-> 0]
    /\ UNCHANGED <<nv, ccc_save_storage, cfg, keys, direct_addr, adv, main, host, owed, odd>>

clear_keeps_values ==
    /\ ccc_save_storage' = NoCcc
    /\ nv' = [keys |-> None, ccc |-> NoCcc]
    /\ UNCHANGED <<cfg, live>>
    /\ direct_addr' = None
    /\ owed' = [p \in Hosts |-> {}]

clear_keeps_address ==
    /\ ccc_save_storage' = NoCcc
    /\ nv' = [keys |-> None, ccc |-> NoCcc]
    /\ cfg' = [h \in Handles |-> [cfg[h] EXCEPT !.value = 0]]
    /\ live' = [h \in Handles |-> 0]
    /\ UNCHANGED direct_addr
    /\ owed' = [p \in Hosts |-> {}]

\* rmc_clear_pair_info in one go, as the RX thread runs it.
\* bt_storage_clear(NULL) also closes the link and clears the keys in RAM.
rmc_clear_pair_info ==
    /\ ccc_save_storage' = NoCcc
    /\ nv' = [keys |-> None, ccc |-> NoCcc]
    /\ cfg' = [h \in Handles |-> [cfg[h] EXCEPT !.value = 0]]
    /\ live' = [h \in Handles |-> 0]
    /\ direct_addr' = None
    /\ owed' = [p \in Hosts |-> {}]

\* security_changed for the link c: a host that is bonded but has not enabled
\* all reports is forgotten.
security_changed(c) ==
    IF is_paired /\ ~all_hid_ccc_is_enabled
    THEN /\ rmc_clear_pair_info
         /\ conn' = [c EXCEPT !.closing = TRUE]
    ELSE /\ conn' = [c EXCEPT !.sec = TRUE]
         /\ direct_addr' = DirectAddr
         /\ UNCHANGED <<nv, ccc_save_storage, cfg, live, owed>>

Unencrypted == conn # NoConn /\ ~conn.enc /\ ~conn.pairing /\ ~conn.closing

\* A bonded host encrypts the link; the keys come from the storage.
Encrypt ==
    /\ Unencrypted
    /\ conn.peer \in host
    /\ keys = conn.peer \/ storage_read(conn.peer)
    /\ security_changed([conn EXCEPT !.enc = TRUE])
    /\ keys' = IF conn'.closing THEN None ELSE conn.peer
    /\ UNCHANGED <<adv, main, host, odd>>

\* The remote has no keys for a host that believes in a bond: the host drops it.
KeyMissing ==
    /\ Unencrypted
    /\ conn.peer \in host /\ keys # conn.peer /\ ~storage_read(conn.peer)
    /\ host' = host \ {conn.peer}
    /\ UNCHANGED <<nv, ccc_save_storage, cfg, live, keys, direct_addr, conn, adv, main, owed, odd>>

\* A host without a bond pairs: the link is encrypted with a temporary key ...
Pair ==
    /\ Unencrypted
    /\ conn.peer \notin host
    /\ security_changed([conn EXCEPT !.enc = TRUE, !.pairing = TRUE])
    /\ keys' = None
    /\ odd' = IF is_paired /\ DirectAddr # conn.peer /\ ~conn'.closing
              THEN odd \cup {"second host"} ELSE odd
    /\ UNCHANGED <<adv, main, host>>

\* ... and then the keys are exchanged: smp_reset_new writes them.
KeysExchanged ==
    /\ conn.pairing /\ conn.enc /\ ~conn.closing
    /\ conn' = [conn EXCEPT !.pairing = FALSE]
    /\ keys' = conn.peer
    /\ nv' = [nv EXCEPT !.keys = conn.peer]
    /\ host' = host \cup {conn.peer}
    /\ UNCHANGED <<ccc_save_storage, cfg, live, direct_addr, adv, main, owed, odd>>

\* The peer writes a CCC descriptor, which needs encryption.
WriteCcc(h, v) ==
    LET p == conn.peer IN
    /\ conn.enc /\ ~conn.closing
    /\ cfg' = [cfg EXCEPT ![h] = [peer |-> p, value |-> v]]
    /\ gatt_ccc_changed(p, h, v)
    /\ owed' = [owed EXCEPT ![p] = IF v = 1 THEN @ \cup {h} ELSE @ \ {h}]
    /\ odd' = odd \cup (IF keys # p THEN {"not bonded"} ELSE {})
                   \cup (IF main # "idle" THEN {"while clearing"} ELSE {})
    /\ UNCHANGED <<keys, direct_addr, conn, adv, main, host>>

-----------------------------------------------------------------------------
(***************************************************************************)
(* The main thread.                                                        *)
(***************************************************************************)
\* rmc_sm_act_start_direct_adv: reconnect while there are attempts left, else
\* give up, or advertise to anybody while the pairing keys are held.
Reconnect ==
    /\ main = "idle" /\ conn = NoConn
    /\ direct_addr' = DirectAddr
    /\ \/ is_paired /\ adv' = "direct"
       \/ adv' \in {"off", "open"}
    /\ UNCHANGED <<nv, ccc_save_storage, cfg, live, keys, conn, main, host, owed, odd>>

\* The pairing keys were held for five seconds: rmc_clear_pair_info, step by
\* step.  bt_gatt_clear_ccc clears the copy in RAM, ...
ClearCopy ==
    /\ main = "idle"
    /\ ccc_save_storage' = NoCcc
    /\ main' = "clear_nv"
    /\ UNCHANGED <<nv, cfg, live, keys, direct_addr, conn, adv, host, owed, odd>>

\* ... writes it to the NVRAM, ...
ClearNv ==
    /\ main = "clear_nv"
    /\ nv' = [nv EXCEPT !.ccc = ccc_save_storage]
    /\ main' = "clear_ccc"
    /\ owed' = [p \in Hosts |-> {}]
    /\ UNCHANGED <<ccc_save_storage, cfg, live, keys, direct_addr, conn, adv, host, odd>>

\* ... and resets every CCC.
ClearCcc ==
    /\ main = "clear_ccc"
    /\ cfg' = [h \in Handles |-> [cfg[h] EXCEPT !.value = 0]]
    /\ live' = [h \in Handles |-> 0]
    /\ main' = "clear_keys"
    /\ UNCHANGED <<nv, ccc_save_storage, keys, direct_addr, conn, adv, host, owed, odd>>

\* bt_storage_clear(NULL) closes the link, clears the keys in RAM and calls
\* storage_clear.
ClearKeys ==
    /\ main = "clear_keys"
    /\ conn' = IF conn = NoConn THEN conn ELSE [conn EXCEPT !.closing = TRUE]
    /\ keys' = None
    /\ nv' = [nv EXCEPT !.keys = None]
    /\ main' = "clear_addr"
    /\ owed' = [p \in Hosts |-> {}]
    /\ UNCHANGED <<ccc_save_storage, cfg, live, direct_addr, adv, host, odd>>

\* The cached address; then the state machine enters pairing mode.
ClearAddr ==
    /\ main = "clear_addr"
    /\ direct_addr' = None
    /\ adv' = IF conn = NoConn THEN "open" ELSE adv
    /\ main' = "idle"
    /\ UNCHANGED <<nv, ccc_save_storage, cfg, live, keys, conn, host, owed, odd>>

-----------------------------------------------------------------------------
\* Power fails, and the remote starts again: bt_gatt_load_ccc restores the CCC
\* values, without a connection.
Boot ==
    /\ ccc_save_storage' = nv.ccc
    /\ LET Saved(h) == h \in DOMAIN nv.ccc.store
       IN  /\ cfg' = [h \in Handles |-> IF Saved(h)
                         THEN [peer |-> nv.ccc.addr, value |-> nv.ccc.store[h]]
                         ELSE [peer |-> None, value |-> 0]]
           /\ live' = [h \in Handles |-> IF Saved(h) THEN nv.ccc.store[h] ELSE 0]
    /\ keys' = None
    /\ direct_addr' = None
    /\ conn' = NoConn
    /\ adv' = "off"
    /\ main' = "idle"
    /\ UNCHANGED <<nv, host, owed, odd>>

BondRx ==
    \/ \E p \in Hosts : Connect(p)
    \/ Disconnect
    \/ Encrypt
    \/ KeyMissing
    \/ Pair
    \/ KeysExchanged
    \/ \E h \in Handles, v \in 0 .. 1 : WriteCcc(h, v)

BondMain == Reconnect \/ ClearCopy \/ ClearNv \/ ClearCcc \/ ClearKeys \/ ClearAddr

BondNext == BondRx \/ BondMain \/ Boot

BondSpec == BondInit /\ [][BondNext]_bondVars

-----------------------------------------------------------------------------
\* The variables have their types, and the keys in RAM are those of the bond.
BondTypeOK ==
    /\ nv.keys \in Hosts \cup {None}
    /\ nv.ccc.addr \in Hosts \cup {None}
    /\ \A h \in DOMAIN nv.ccc.store : h \in Handles /\ nv.ccc.store[h] \in 0 .. 1
    /\ ccc_save_storage.addr \in Hosts \cup {None}
    /\ \A h \in Handles : cfg[h].peer \in Hosts \cup {None} /\ cfg[h].value \in 0 .. 1
    /\ live \in [Handles -> 0 .. 1]
    /\ keys \in {nv.keys, None}
    /\ direct_addr \in Hosts \cup {None}
    /\ conn.peer \in Hosts \cup {None}

\* is_paired caches the address of the bond in direct_addr.  The cached address
\* is that of the bond in the NVRAM, unless a second host was let in while
\* there was one: the remote would look for a host that it has no keys for.
ReconnectsToBond ==
    direct_addr # None /\ main # "clear_addr" /\ "second host" \notin odd
        => direct_addr = nv.keys

\* gatt_ccc_changed_new: what the bonded host has subscribed to is in the NVRAM
\* under its address, whenever power fails; unless it subscribed before the keys
\* were exchanged, or a second host found the values of the first.
SubscriptionsKept ==
    nv.keys # None /\ odd = {} =>
        \A h \in owed[nv.keys] : /\ nv.ccc.addr = nv.keys
                                 /\ h \in DOMAIN nv.ccc.store /\ nv.ccc.store[h] = 1

\* hog.c keeps one table for all hosts: an input report is only enabled on a
\* secure link if this host has subscribed to it, although bt_gatt_load_ccc
\* enables what another may have asked for.
ReportsAskedFor ==
    conn.sec /\ main = "idle" /\ odd \cap {"second host", "while clearing"} = {} =>
        \A h \in Handles : live[h] = 1 => h \in owed[conn.peer]

\* security_changed forgets a host that is bonded but not ready.  A host that
\* has subscribed to all input reports is not forgotten when it comes back,
\* however often the power failed since.
ReadyHostKept ==
    [][nv.keys # None /\ odd = {} /\ main = "idle"
       /\ conn.peer = nv.keys /\ HidHandles \subseteq owed[nv.keys]
        => nv'.keys = nv.keys]_bondVars
=============================================================================
