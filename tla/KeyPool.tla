------------------------------- MODULE KeyPool -------------------------------
(***************************************************************************)
(* The bond storage of the builds without NVRAM or with several links      *)
(* (subsys/bluetooth/host/storage.c, the #else part): a pool of            *)
(* key_pool_count records in RAM, found by identity address or, for a      *)
(* resolvable private address (RPA), by the identity resolving key (IRK).  *)
(*                                                                         *)
(* A key is named by the host it belongs to and by what it is for.  Of the *)
(* fields of struct bt_keys two are kept: slave_ltk and local_csrk are     *)
(* handled as ltk is.                                                      *)
(***************************************************************************)
EXTENDS Naturals, FiniteSets

CONSTANTS PoolHosts, ANY, key_pool_count

ASSUME PoolAssumption ==
    /\ ANY \notin PoolHosts
    /\ key_pool_count \in Nat \ {0}

VARIABLES
    storage_key_pool,
    removeCnt,  \* modulo key_pool_count
    irregular   \* history: a field was written alone
poolVars == <<storage_key_pool, removeCnt, irregular>>

Slots == 1 .. key_pool_count
Address == [host : PoolHosts, rpa : BOOLEAN]
Key(p, kind) == [of |-> p, kind |-> kind]
NoKey == [of |-> ANY, kind |-> "none"]
EmptySlot == [addr |-> ANY, irk |-> ANY, ltk |-> NoKey, remote_csrk |-> NoKey]

PoolInit ==
    /\ storage_key_pool = [i \in Slots |-> EmptySlot]
    /\ removeCnt = 0
    /\ irregular = FALSE

\* The entries that find_bt_keys accepts for an address.
Matches(a) ==
    {i \in Slots : IF a.rpa THEN storage_key_pool[i].irk = a.host ELSE storage_key_pool[i].addr = a.host}

First(S) == CHOOSE i \in S : \A j \in S : i <= j

\* find_bt_keys for writing: the entry found, else the first free one, else the
\* one whose turn it is.
FreeSlots == {i \in Slots : storage_key_pool[i].addr = ANY}
WriteSlotFreeFirst(a) ==
    IF FreeSlots # {} THEN First(FreeSlots)
    ELSE IF Matches(a) # {} THEN First(Matches(a))
    ELSE removeCnt + 1

WriteSlot(a) ==
    IF Matches(a) # {} THEN First(Matches(a))
    ELSE IF FreeSlots # {} THEN First(FreeSlots)
    ELSE removeCnt + 1

Turn(a) == IF Matches(a) = {} /\ FreeSlots = {} THEN (removeCnt + 1) % key_pool_count ELSE removeCnt

\* storage_write of BT_STORAGE_BT_KEYS: the whole record, with its address.
\* smp_reset_new writes it under the identity address.
WriteRecord(p, irk) ==
    LET a == [host |-> p, rpa |-> FALSE]
        i == WriteSlot(a)
    IN  /\ storage_key_pool' = [storage_key_pool EXCEPT ![i] = [addr |-> p, irk |-> IF irk THEN p ELSE ANY,
                                        ltk |-> Key(p, "ltk"),
                                        remote_csrk |-> Key(p, "csrk")]]
        /\ removeCnt' = Turn(a)
        /\ UNCHANGED irregular

\* storage_write of one key.  The address is only written when a new entry is
\* taken, and REMOTE_CSRK falls through into LTK_P256.
WriteField(p, kind) ==
    LET a == [host |-> p, rpa |-> FALSE]
        i == WriteSlot(a)
    IN  /\ storage_key_pool' = [storage_key_pool EXCEPT ![i].addr = p,
                                ![i].ltk = Key(p, kind),
                                ![i].remote_csrk = IF kind = "csrk" THEN Key(p, kind) ELSE @]
        /\ removeCnt' = Turn(a)
        /\ irregular' = TRUE

\* storage_clear of a host.  BT_ADDR_LE_ANY, which storage.h defines as "all
\* remote devices", finds only a free entry, and nothing is cleared.
Clear(a) ==
    /\ Matches(a) # {}
    /\ storage_key_pool' = [storage_key_pool EXCEPT ![First(Matches(a))] = EmptySlot]
    /\ UNCHANGED <<removeCnt, irregular>>

PoolNext ==
    \/ \E p \in PoolHosts, irk \in BOOLEAN : WriteRecord(p, irk)
    \/ \E p \in PoolHosts, kind \in {"ltk", "csrk"} : WriteField(p, kind)
    \/ \E a \in Address : Clear(a)

PoolSpec == PoolInit /\ [][PoolNext]_poolVars

-----------------------------------------------------------------------------
\* Entries hold records, and the turn is an index of the pool.
PoolTypeOK ==
    /\ \A i \in Slots : /\ storage_key_pool[i].addr \in PoolHosts \cup {ANY}
                        /\ storage_key_pool[i].irk \in PoolHosts \cup {ANY}
    /\ removeCnt \in 0 .. key_pool_count - 1

\* find_bt_keys returns the first entry that matches.  While whole records are
\* written there is one entry for an address, private or not, and it holds keys of
\* the host that has this address: no stale record hides a newer one, also after
\* entries were evicted, cleared and taken again.
OwnKeys ==
    ~irregular => \A a \in Address, i \in Slots : i \in Matches(a) =>
        /\ Cardinality(Matches(a)) = 1
        /\ storage_key_pool[i].addr = a.host
        /\ storage_key_pool[i].ltk = Key(a.host, "ltk")
        /\ storage_key_pool[i].remote_csrk = Key(a.host, "csrk")
=============================================================================
