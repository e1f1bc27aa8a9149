----------------------------- MODULE StoreProofs -----------------------------
(***************************************************************************)
(* What is stored, for every size of the stores: KeyPool, the pool of      *)
(* bonds in RAM; BondStore, the bond of the voice remote with its copies   *)
(* in RAM and NVRAM, for every number of hosts and descriptors; and Racp,  *)
(* the records of the glucose services, for every set of requests.         *)
(***************************************************************************)
EXTENDS BondStore, KeyPool, Racp, TLAPS, FiniteSetTheorems, WellFoundedInduction

-----------------------------------------------------------------------------
(***************************************************************************)
(* KeyPool.                                                                *)
(***************************************************************************)
LEMMA LeastElement ==
  ASSUME NEW S \in SUBSET Nat, S # {}
  PROVE  \E n \in S : \A m \in S : n <= m
  <1> DEFINE R == OpToRel(<, Nat)
  <1>1. IsWellFoundedOn(R, Nat)
    BY NatLessThanWellFounded
  <1>2. \A m, n \in S : m < n => <<m, n>> \in R
    BY DEF OpToRel
  <1> HIDE DEF R
  <1>3. PICK n \in S : \A m \in S : ~(<<m, n>> \in R)
    BY <1>1, WFMin
  <1>4. \A m \in S : ~(m < n)
    BY <1>2, <1>3
  <1>5. \A m \in S : n <= m
    BY <1>4
  <1> QED
    BY <1>5

LEMMA FirstInSet ==
  ASSUME NEW S \in SUBSET Slots, S # {}
  PROVE  First(S) \in S
  <1>1. \E n \in S : \A m \in S : n <= m
    BY LeastElement, PoolAssumption DEF Slots
  <1> QED
    BY <1>1 DEF First

\* find_bt_keys for writing returns an entry of the pool, and the turn stays one.
LEMMA WriteSlotInPool ==
  ASSUME removeCnt \in 0 .. key_pool_count - 1, NEW a
  PROVE  WriteSlot(a) \in Slots /\ Turn(a) \in 0 .. key_pool_count - 1
  <1>1. Matches(a) \subseteq Slots /\ FreeSlots \subseteq Slots
    BY DEF Matches, FreeSlots
  <1>2. removeCnt + 1 \in Slots
    BY PoolAssumption DEF Slots
  <1>3. WriteSlot(a) \in Slots
    BY <1>1, <1>2, FirstInSet DEF WriteSlot
  <1>4. (removeCnt + 1) % key_pool_count \in 0 .. key_pool_count - 1
    BY PoolAssumption
  <1> QED
    BY <1>3, <1>4 DEF Turn

\* A record as storage_write of BT_STORAGE_BT_KEYS leaves it: all of one host.
WholeRecord(r) ==
    /\ r.irk \in {r.addr, ANY}
    /\ r.ltk = Key(r.addr, "ltk")
    /\ r.remote_csrk = Key(r.addr, "csrk")

PoolKeys == [of : PoolHosts \cup {ANY}, kind : {"none", "ltk", "csrk"}]
PoolRecord == [addr : PoolHosts \cup {ANY}, irk : PoolHosts \cup {ANY},
               ltk : PoolKeys, remote_csrk : PoolKeys]

(***************************************************************************)
(* The inductive invariant: as long as whole records are written, an entry *)
(* is free and empty, or holds the record of one host, and no two entries  *)
(* hold the same host.                                                     *)
(***************************************************************************)
PoolTypes ==
    /\ storage_key_pool \in [Slots -> PoolRecord]
    /\ removeCnt \in 0 .. key_pool_count - 1
    /\ irregular \in BOOLEAN

EntriesWhole ==
    ~irregular => \A i \in Slots : \/ storage_key_pool[i] = EmptySlot
                                   \/ /\ storage_key_pool[i].addr \in PoolHosts
                                      /\ WholeRecord(storage_key_pool[i])

EntriesDiffer ==
    ~irregular => \A i, j \in Slots :
        storage_key_pool[i].addr \in PoolHosts /\ storage_key_pool[j].addr = storage_key_pool[i].addr
            => i = j

PoolInv == PoolTypes /\ EntriesWhole /\ EntriesDiffer

LEMMA PoolInvInit == PoolInit => PoolInv
  <1> SUFFICES ASSUME PoolInit PROVE PoolInv
    OBVIOUS
  <1>1. PoolTypes
    <2>1. EmptySlot \in PoolRecord
      BY DEF PoolRecord, PoolKeys, EmptySlot, NoKey
    <2>2. 0 \in 0 .. key_pool_count - 1
      BY PoolAssumption
    <2> QED
      BY <2>1, <2>2 DEF PoolInit, PoolTypes
  <1>2. EntriesWhole /\ EntriesDiffer
    BY PoolAssumption DEF PoolInit, EntriesWhole, EntriesDiffer, EmptySlot
  <1> QED
    BY <1>1, <1>2 DEF PoolInv

\* The whole record of a host replaces the one it has, or else takes an entry
\* that holds another host or none.
LEMMA WriteRecordStep ==
  ASSUME PoolInv, NEW p \in PoolHosts, NEW irk \in BOOLEAN, WriteRecord(p, irk)
  PROVE  PoolInv'
  <1> DEFINE a == [host |-> p, rpa |-> FALSE]
             i == WriteSlot(a)
             r == [addr |-> p, irk |-> IF irk THEN p ELSE ANY,
                   ltk |-> Key(p, "ltk"), remote_csrk |-> Key(p, "csrk")]
  <1>1. i \in Slots /\ Turn(a) \in 0 .. key_pool_count - 1
    BY WriteSlotInPool DEF PoolInv, PoolTypes
  <1>2. storage_key_pool' = [storage_key_pool EXCEPT ![i] = r]
    BY DEF WriteRecord
  <1>3. r \in PoolRecord /\ WholeRecord(r)
    BY DEF PoolRecord, PoolKeys, Key, WholeRecord
  <1>4. PoolTypes'
    BY <1>1, <1>2, <1>3 DEF PoolInv, PoolTypes, WriteRecord
  <1>5. EntriesWhole'
    BY <1>1, <1>2, <1>3 DEF PoolInv, PoolTypes, EntriesWhole, WriteRecord
  <1>6. ASSUME ~irregular, NEW j \in Slots, storage_key_pool[j].addr = p PROVE j = i
    <2>1. j \in Matches(a)
      BY <1>6 DEF Matches
    <2>2. i = First(Matches(a)) /\ Matches(a) \subseteq Slots
      BY <2>1 DEF WriteSlot, Matches
    <2>3. i \in Matches(a)
      BY <2>1, <2>2, FirstInSet
    <2>4. storage_key_pool[i].addr = p
      BY <2>3 DEF Matches
    <2> QED
      BY <1>1, <1>6, <2>4 DEF PoolInv, EntriesDiffer
  <1>7. EntriesDiffer'
    <2>1. \A j \in Slots : storage_key_pool'[j].addr
                              = IF j = i THEN p ELSE storage_key_pool[j].addr
      BY <1>1, <1>2 DEF PoolInv, PoolTypes
    <2>2. irregular' = irregular
      BY DEF WriteRecord
    <2> HIDE DEF i
    <2> QED
      BY <1>1, <1>6, <2>1, <2>2 DEF PoolInv, EntriesDiffer
  <1> QED
    BY <1>4, <1>5, <1>7 DEF PoolInv

LEMMA WriteFieldStep ==
  ASSUME PoolInv, NEW p \in PoolHosts, NEW kind \in {"ltk", "csrk"}, WriteField(p, kind)
  PROVE  PoolInv'
  <1> DEFINE a == [host |-> p, rpa |-> FALSE]
             i == WriteSlot(a)
  <1>1. i \in Slots /\ Turn(a) \in 0 .. key_pool_count - 1
    BY WriteSlotInPool DEF PoolInv, PoolTypes
  <1>2. Key(p, kind) \in PoolKeys
    BY DEF PoolKeys, Key
  <1>3. PoolTypes'
    BY ZenonT(60), <1>1, <1>2 DEF PoolInv, PoolTypes, PoolRecord, WriteField
  <1> QED
    BY <1>3 DEF PoolInv, EntriesWhole, EntriesDiffer, WriteField

LEMMA ClearStep ==
  ASSUME PoolInv, NEW a \in Address, Clear(a)
  PROVE  PoolInv'
  <1>1. First(Matches(a)) \in Slots
    BY FirstInSet DEF Clear, Matches
  <1>2. EmptySlot \in PoolRecord /\ EmptySlot.addr = ANY
    BY DEF EmptySlot, NoKey, PoolRecord, PoolKeys
  <1>3. PoolTypes'
    BY <1>1, <1>2 DEF PoolInv, PoolTypes, Clear
  <1>4. EntriesWhole'
    BY <1>1 DEF PoolInv, PoolTypes, EntriesWhole, Clear
  <1>5. EntriesDiffer'
    BY <1>1, <1>2, PoolAssumption DEF PoolInv, PoolTypes, EntriesDiffer, Clear
  <1> QED
    BY <1>3, <1>4, <1>5 DEF PoolInv

LEMMA PoolInvStep == PoolInv /\ [PoolNext]_poolVars => PoolInv'
  <1> SUFFICES ASSUME PoolInv, [PoolNext]_poolVars PROVE PoolInv'
    OBVIOUS
  <1>1. CASE UNCHANGED poolVars
    BY <1>1 DEF poolVars, PoolInv, PoolTypes, EntriesWhole, EntriesDiffer
  <1> QED
    BY <1>1, WriteRecordStep, WriteFieldStep, ClearStep DEF PoolNext

\* One entry for an address, and it holds keys of the host that has it.
LEMMA PoolInvOwnKeys == PoolInv => PoolTypeOK /\ OwnKeys
  <1> SUFFICES ASSUME PoolInv PROVE PoolTypeOK /\ OwnKeys
    OBVIOUS
  <1>1. PoolTypeOK
    BY DEF PoolInv, PoolTypes, PoolTypeOK, PoolRecord
  <1>2. ASSUME ~irregular, NEW a \in Address, NEW i \in Slots, i \in Matches(a)
        PROVE  /\ storage_key_pool[i].addr = a.host
               /\ WholeRecord(storage_key_pool[i])
    BY <1>2, PoolAssumption
       DEF Matches, Address, PoolInv, EntriesWhole, EmptySlot, WholeRecord
  <1>3. ASSUME ~irregular, NEW a \in Address, NEW i \in Slots, i \in Matches(a)
        PROVE  Cardinality(Matches(a)) = 1
    <2>1. \A j \in Matches(a) : j = i
      BY <1>2, <1>3 DEF Matches, Address, PoolInv, EntriesDiffer
    <2>2. Matches(a) = {i}
      BY <1>3, <2>1
    <2> QED
      BY <2>2, FS_Singleton
  <1>4. OwnKeys
    BY <1>2, <1>3 DEF OwnKeys, WholeRecord
  <1> QED
    BY <1>1, <1>4

\* find_bt_keys: for any number of hosts and entries, there is at most one entry
\* for an address, private or not, and it holds the keys of its host, as long as
\* whole records are written.
THEOREM PoolOwnKeys == PoolSpec => [](PoolTypeOK /\ OwnKeys)
  <1>1. PoolSpec => []PoolInv
    BY PoolInvInit, PoolInvStep, PTL DEF PoolSpec
  <1> QED
    BY <1>1, PoolInvOwnKeys, PTL

-----------------------------------------------------------------------------
(***************************************************************************)
(* BondStore.  The inductive invariant has three parts: whose bond it is,  *)
(* what the copies of the CCC values hold, and what they say of the hosts' *)
(* subscriptions.  The last two hold while no second host was let in and   *)
(* no value was written while the bond was being cleared.                  *)
(***************************************************************************)
Peers == Hosts \cup {None}
Calm == odd \cap {"second host", "while clearing"} = {}
OneHost == "second host" \notin odd

CccTable(t) == /\ t.addr \in Peers
               /\ \A h \in DOMAIN t.store : h \in Handles /\ t.store[h] \in 0 .. 1

BondTypes ==
    /\ nv = [keys |-> nv.keys, ccc |-> nv.ccc]
    /\ nv.keys \in Peers /\ keys \in {nv.keys, None} /\ direct_addr \in Peers
    /\ CccTable(nv.ccc) /\ CccTable(ccc_save_storage)
    /\ cfg \in [Handles -> [peer : Peers, value : 0 .. 1]]
    /\ live \in [Handles -> 0 .. 1]
    /\ conn \in [peer : Peers, enc : BOOLEAN, pairing : BOOLEAN, sec : BOOLEAN, closing : BOOLEAN]
    /\ conn.peer = None => conn = NoConn
    /\ main \in {"idle", "clear_nv", "clear_ccc", "clear_keys", "clear_addr"}
    /\ owed \in [Hosts -> SUBSET Handles]

\* Whose bond it is: the cached address is that of the bond, a host with keys
\* here believes in them, and a link that is encrypted is that of the bond or
\* is still exchanging keys.
AddrOfBond ==
    direct_addr # None /\ OneHost =>
        nv.keys = direct_addr \/ (main = "clear_addr" /\ nv.keys = None)
HostKnows == nv.keys \in host \cup {None}
LinkOfBond ==
    /\ conn.sec => conn.enc
    /\ conn.enc /\ ~conn.closing =>
          IF conn.pairing THEN OneHost => nv.keys = None /\ direct_addr \in {None, conn.peer}
          ELSE keys = conn.peer

\* What the copies of the CCC values hold: cfg is what is live for the peer that
\* is connected; the NVRAM holds the copy in RAM, for the bonded host alone; its
\* values are in cfg too; what is live comes from one of them; and what the
\* main thread has cleared stays so.
LiveIsCfg ==
    \A h \in Handles : conn # NoConn /\ cfg[h].peer = conn.peer => live[h] = cfg[h].value
NvIsCopy == main # "clear_nv" => nv.ccc = ccc_save_storage
Stored(h) == h \in DOMAIN nv.ccc.store /\ nv.ccc.store[h] = 1
StoreOfBond == Calm /\ DOMAIN nv.ccc.store # {} => nv.ccc.addr = nv.keys /\ nv.keys # None
StoreInCfg ==
    Calm => \A h \in Handles : Stored(h) => cfg[h].peer = nv.ccc.addr /\ cfg[h].value = 1
LiveFromCopy ==
    Calm /\ main # "clear_ccc" => \A h \in Handles : live[h] = 1 =>
        Stored(h) \/ (conn # NoConn /\ cfg[h].peer = conn.peer /\ cfg[h].value = 1)
Cleared ==
    Calm => /\ main # "idle" => ccc_save_storage = NoCcc
            /\ main \in {"clear_keys", "clear_addr"} =>
                  \A h \in Handles : live[h] = 0 /\ cfg[h].value = 0

\* What the copies say: a value that is set was asked for by the host it is kept
\* for, and nobody but the bonded host has asked for any.
StoreAskedFor == Calm => \A h \in Handles : Stored(h) => h \in owed[nv.ccc.addr]
CfgAskedFor ==
    Calm /\ main # "clear_ccc" => \A h \in Handles :
        cfg[h].value = 1 => cfg[h].peer \in Hosts /\ h \in owed[cfg[h].peer]
OthersAskedNothing == odd = {} => \A p \in Hosts : p # nv.keys => owed[p] = {}

BondInv ==
    /\ BondTypes
    /\ AddrOfBond /\ HostKnows /\ LinkOfBond
    /\ LiveIsCfg /\ NvIsCopy /\ StoreOfBond /\ StoreInCfg /\ LiveFromCopy /\ Cleared
    /\ StoreAskedFor /\ CfgAskedFor /\ OthersAskedNothing
    /\ SubscriptionsKept /\ ReportsAskedFor

LEMMA Nobody ==
    /\ NoCcc.addr = None /\ DOMAIN NoCcc.store = {} /\ CccTable(NoCcc)
    /\ NoConn \in [peer : Peers, enc : BOOLEAN, pairing : BOOLEAN, sec : BOOLEAN, closing : BOOLEAN]
    /\ NoConn.peer = None /\ NoConn.enc = FALSE /\ NoConn.sec = FALSE
  BY DEF NoCcc, CccTable, NoConn, Peers

LEMMA BondInvInit == BondInit => BondInv
  <1> SUFFICES ASSUME BondInit PROVE BondInv
    OBVIOUS
  <1> USE BondAssumption, Nobody DEF BondInit, Peers
  <1>1. BondTypes
    BY DEF BondTypes
  <1>2. AddrOfBond /\ HostKnows /\ LinkOfBond
    BY DEF AddrOfBond, HostKnows, LinkOfBond
  <1>3. LiveIsCfg /\ NvIsCopy /\ StoreOfBond
    BY DEF LiveIsCfg, NvIsCopy, StoreOfBond
  <1>4. StoreInCfg /\ LiveFromCopy /\ Cleared
    BY DEF StoreInCfg, Stored, LiveFromCopy, Cleared
  <1>5. StoreAskedFor /\ CfgAskedFor /\ OthersAskedNothing
    BY DEF StoreAskedFor, Stored, CfgAskedFor, OthersAskedNothing
  <1>6. SubscriptionsKept /\ ReportsAskedFor
    BY DEF SubscriptionsKept, ReportsAskedFor
  <1> QED
    BY <1>1, <1>2, <1>3, <1>4, <1>5, <1>6 DEF BondInv

LEMMA ConnectStep ==
  ASSUME BondInv, NEW p \in Hosts, Connect(p)
  PROVE  BondInv'
  <1> USE BondAssumption, Nobody DEF BondInv, Peers, Calm, OneHost
  <1>1. BondTypes'
    BY DEF Connect, BondTypes
  <1>2. AddrOfBond' /\ HostKnows' /\ LinkOfBond'
    BY DEF Connect, AddrOfBond, HostKnows, LinkOfBond, BondTypes
  <1>3. LiveIsCfg' /\ NvIsCopy' /\ StoreOfBond'
    BY DEF Connect, LiveIsCfg, NvIsCopy, StoreOfBond, BondTypes
  <1>4. StoreInCfg' /\ LiveFromCopy' /\ Cleared'
    BY DEF Connect, StoreInCfg, LiveFromCopy, Cleared, BondTypes, Stored
  <1>5. StoreAskedFor' /\ CfgAskedFor' /\ OthersAskedNothing'
    BY DEF Connect, StoreAskedFor, CfgAskedFor, OthersAskedNothing, BondTypes, Stored
  <1>6. SubscriptionsKept' /\ ReportsAskedFor'
    BY DEF Connect, SubscriptionsKept, ReportsAskedFor, BondTypes
  <1> QED
    BY <1>1, <1>2, <1>3, <1>4, <1>5, <1>6

LEMMA DisconnectStep ==
  ASSUME BondInv, Disconnect
  PROVE  BondInv'
  <1> USE BondAssumption, Nobody DEF BondInv, Peers, Calm, OneHost
  <1>1. \A h \in Handles : live'[h] # 1
    BY DEF Disconnect
  <1>2. BondTypes'
    BY DEF Disconnect, BondTypes
  <1>3. LiveFromCopy'
    BY <1>1 DEF LiveFromCopy
  <1>4. AddrOfBond' /\ HostKnows' /\ LinkOfBond'
    BY DEF Disconnect, AddrOfBond, HostKnows, LinkOfBond, BondTypes
  <1>5. LiveIsCfg' /\ NvIsCopy' /\ StoreOfBond'
    BY DEF Disconnect, LiveIsCfg, NvIsCopy, StoreOfBond, BondTypes
  <1>6. StoreInCfg' /\ Cleared' /\ StoreAskedFor'
    BY DEF Disconnect, StoreInCfg, Cleared, StoreAskedFor, BondTypes, Stored
  <1>7. CfgAskedFor' /\ OthersAskedNothing' /\ SubscriptionsKept'
    BY DEF Disconnect, CfgAskedFor, OthersAskedNothing, SubscriptionsKept, BondTypes
  <1>8. ReportsAskedFor'
    BY DEF Disconnect, ReportsAskedFor, BondTypes
  <1> QED
    BY <1>2, <1>3, <1>4, <1>5, <1>6, <1>7, <1>8

LEMMA KeyMissingStep ==
  ASSUME BondInv, KeyMissing
  PROVE  BondInv'
  <1> USE BondAssumption, Nobody DEF BondInv, Peers, Calm, OneHost
  <1>1. BondTypes'
    BY DEF KeyMissing, Unencrypted, storage_read, BondTypes
  <1>2. AddrOfBond' /\ HostKnows' /\ LinkOfBond'
    BY DEF KeyMissing, Unencrypted, storage_read, AddrOfBond, HostKnows, LinkOfBond, BondTypes
  <1>3. LiveIsCfg' /\ NvIsCopy' /\ StoreOfBond'
    BY DEF KeyMissing, Unencrypted, storage_read, LiveIsCfg, NvIsCopy, StoreOfBond, BondTypes
  <1>4. StoreInCfg' /\ LiveFromCopy' /\ Cleared'
    BY
    DEF KeyMissing, Unencrypted, storage_read, StoreInCfg, LiveFromCopy, Cleared, BondTypes, Stored
  <1>5. StoreAskedFor' /\ CfgAskedFor' /\ OthersAskedNothing'
    BY
    DEF KeyMissing, Unencrypted, storage_read, StoreAskedFor, CfgAskedFor, OthersAskedNothing, BondTypes, Stored
  <1>6. SubscriptionsKept' /\ ReportsAskedFor'
    BY DEF KeyMissing, Unencrypted, storage_read, SubscriptionsKept, ReportsAskedFor, BondTypes
  <1> QED
    BY <1>1, <1>2, <1>3, <1>4, <1>5, <1>6

LEMMA KeysExchangedStep ==
  ASSUME BondInv, KeysExchanged
  PROVE  BondInv'
  <1> USE BondAssumption, Nobody DEF BondInv, Peers, Calm, OneHost
  <1>1. conn.peer \in Hosts
    BY DEF KeysExchanged, BondTypes
  <1>2. OneHost => nv.keys = None /\ direct_addr \in {None, conn.peer}
    BY DEF KeysExchanged, LinkOfBond, BondTypes
  <1>3. nv'.keys = conn.peer /\ nv'.ccc = nv.ccc
    BY DEF KeysExchanged, BondTypes
  <1>4. BondTypes'
    BY DEF KeysExchanged, BondTypes
  <1>5. AddrOfBond'
    BY <1>2, <1>3 DEF KeysExchanged, AddrOfBond
  <1>6. StoreOfBond'
    BY <1>2, <1>3 DEF KeysExchanged, StoreOfBond
  <1>7. OthersAskedNothing'
    BY <1>2, <1>3 DEF KeysExchanged, OthersAskedNothing
  <1>8. SubscriptionsKept'
    BY <1>1, <1>2, <1>3 DEF KeysExchanged, SubscriptionsKept, OthersAskedNothing
  <1>9. HostKnows' /\ LinkOfBond' /\ LiveIsCfg'
    BY DEF KeysExchanged, HostKnows, LinkOfBond, LiveIsCfg, BondTypes
  <1>10. NvIsCopy' /\ StoreInCfg' /\ LiveFromCopy'
    BY DEF KeysExchanged, NvIsCopy, StoreInCfg, LiveFromCopy, BondTypes, Stored
  <1>11. Cleared' /\ StoreAskedFor' /\ CfgAskedFor'
    BY DEF KeysExchanged, Cleared, StoreAskedFor, CfgAskedFor, BondTypes, Stored
  <1>12. ReportsAskedFor'
    BY DEF KeysExchanged, ReportsAskedFor, BondTypes
  <1> QED
    BY <1>4, <1>5, <1>6, <1>7, <1>8, <1>9, <1>10, <1>11, <1>12

LEMMA ReconnectStep ==
  ASSUME BondInv, Reconnect
  PROVE  BondInv'
  <1> USE BondAssumption, Nobody DEF BondInv, Peers, Calm, OneHost
  <1>1. BondTypes'
    BY DEF Reconnect, is_paired, DirectAddr, BondTypes
  <1>2. AddrOfBond' /\ HostKnows' /\ LinkOfBond'
    BY DEF Reconnect, is_paired, DirectAddr, AddrOfBond, HostKnows, LinkOfBond, BondTypes
  <1>3. LiveIsCfg' /\ NvIsCopy' /\ StoreOfBond'
    BY DEF Reconnect, is_paired, DirectAddr, LiveIsCfg, NvIsCopy, StoreOfBond, BondTypes
  <1>4. StoreInCfg' /\ LiveFromCopy' /\ Cleared'
    BY
    DEF Reconnect, is_paired, DirectAddr, StoreInCfg, LiveFromCopy, Cleared, BondTypes, Stored
  <1>5. StoreAskedFor' /\ CfgAskedFor' /\ OthersAskedNothing'
    BY
    DEF Reconnect, is_paired, DirectAddr, StoreAskedFor, CfgAskedFor, OthersAskedNothing, BondTypes, Stored
  <1>6. SubscriptionsKept' /\ ReportsAskedFor'
    BY DEF Reconnect, is_paired, DirectAddr, SubscriptionsKept, ReportsAskedFor, BondTypes
  <1> QED
    BY <1>1, <1>2, <1>3, <1>4, <1>5, <1>6

LEMMA ClearCopyStep ==
  ASSUME BondInv, ClearCopy
  PROVE  BondInv'
  <1> USE BondAssumption, Nobody DEF BondInv, Peers, Calm, OneHost
  <1>1. BondTypes'
    BY DEF ClearCopy, BondTypes
  <1>2. AddrOfBond' /\ HostKnows' /\ LinkOfBond'
    BY DEF ClearCopy, AddrOfBond, HostKnows, LinkOfBond, BondTypes
  <1>3. LiveIsCfg' /\ NvIsCopy' /\ StoreOfBond'
    BY DEF ClearCopy, LiveIsCfg, NvIsCopy, StoreOfBond, BondTypes
  <1>4. StoreInCfg' /\ LiveFromCopy' /\ Cleared'
    BY DEF ClearCopy, StoreInCfg, LiveFromCopy, Cleared, BondTypes, Stored
  <1>5. StoreAskedFor' /\ CfgAskedFor' /\ OthersAskedNothing'
    BY DEF ClearCopy, StoreAskedFor, CfgAskedFor, OthersAskedNothing, BondTypes, Stored
  <1>6. SubscriptionsKept' /\ ReportsAskedFor'
    BY DEF ClearCopy, SubscriptionsKept, ReportsAskedFor, BondTypes
  <1> QED
    BY <1>1, <1>2, <1>3, <1>4, <1>5, <1>6

LEMMA ClearNvStep ==
  ASSUME BondInv, ClearNv
  PROVE  BondInv'
  <1> USE BondAssumption, Nobody DEF BondInv, Peers, Calm, OneHost
  <1>1. nv'.keys = nv.keys /\ nv'.ccc = ccc_save_storage /\ (Calm => ccc_save_storage = NoCcc)
    BY DEF ClearNv, BondTypes, Cleared
  <1>2. BondTypes'
    BY DEF ClearNv, BondTypes
  <1>3. StoreOfBond'
    BY <1>1 DEF ClearNv, StoreOfBond
  <1>4. StoreInCfg'
    BY <1>1 DEF ClearNv, StoreInCfg, Stored
  <1>5. StoreAskedFor'
    BY <1>1 DEF ClearNv, StoreAskedFor, Stored
  <1>6. AddrOfBond' /\ HostKnows' /\ LinkOfBond'
    BY DEF ClearNv, AddrOfBond, HostKnows, LinkOfBond, BondTypes
  <1>7. LiveIsCfg' /\ NvIsCopy' /\ LiveFromCopy'
    BY DEF ClearNv, LiveIsCfg, NvIsCopy, LiveFromCopy, BondTypes, Stored
  <1>8. Cleared' /\ CfgAskedFor' /\ OthersAskedNothing'
    BY DEF ClearNv, Cleared, CfgAskedFor, OthersAskedNothing, BondTypes
  <1>9. SubscriptionsKept' /\ ReportsAskedFor'
    BY DEF ClearNv, SubscriptionsKept, ReportsAskedFor, BondTypes
  <1> QED
    BY <1>2, <1>3, <1>4, <1>5, <1>6, <1>7, <1>8, <1>9

LEMMA ClearCccStep ==
  ASSUME BondInv, ClearCcc
  PROVE  BondInv'
  <1> USE BondAssumption, Nobody DEF BondInv, Peers, Calm, OneHost
  <1>1. nv'.ccc = nv.ccc /\ (Calm => nv.ccc = NoCcc)
    BY DEF ClearCcc, BondTypes, NvIsCopy, Cleared
  <1>2. \A h \in Handles : live'[h] = 0 /\ live'[h] # 1
    BY DEF ClearCcc
  <1>3. \A h \in Handles : cfg'[h].value = 0 /\ cfg'[h].value # 1
    BY DEF ClearCcc, BondTypes
  <1>4. BondTypes'
    BY DEF ClearCcc, BondTypes
  <1>5. StoreInCfg'
    BY <1>1 DEF ClearCcc, StoreInCfg, Stored
  <1>6. LiveFromCopy'
    BY <1>2 DEF LiveFromCopy
  <1>7. Cleared'
    BY <1>2, <1>3 DEF ClearCcc, Cleared
  <1>8. StoreAskedFor'
    BY <1>1 DEF ClearCcc, StoreAskedFor, Stored
  <1>9. CfgAskedFor'
    BY <1>3 DEF CfgAskedFor
  <1>10. AddrOfBond' /\ HostKnows' /\ LinkOfBond'
    BY DEF ClearCcc, AddrOfBond, HostKnows, LinkOfBond, BondTypes
  <1>11. LiveIsCfg' /\ NvIsCopy' /\ StoreOfBond'
    BY DEF ClearCcc, LiveIsCfg, NvIsCopy, StoreOfBond, BondTypes
  <1>12. OthersAskedNothing' /\ SubscriptionsKept' /\ ReportsAskedFor'
    BY DEF ClearCcc, OthersAskedNothing, SubscriptionsKept, ReportsAskedFor, BondTypes
  <1> QED
    BY <1>4, <1>5, <1>6, <1>7, <1>8, <1>9, <1>10, <1>11, <1>12

LEMMA ClearKeysStep ==
  ASSUME BondInv, ClearKeys
  PROVE  BondInv'
  <1> USE BondAssumption, Nobody DEF BondInv, Peers, Calm, OneHost
  <1>1. nv'.ccc = nv.ccc /\ (Calm => nv.ccc = NoCcc)
    BY DEF ClearKeys, BondTypes, NvIsCopy, Cleared
  <1>2. Calm' => \A h \in Handles : cfg'[h].value # 1
    <2>1. Calm => \A h \in Handles : cfg[h].value = 0
      BY DEF ClearKeys, Cleared
    <2>2. \A h \in Handles : cfg[h].value = 0 => cfg[h].value # 1
      OBVIOUS
    <2> QED
      BY <2>1, <2>2 DEF ClearKeys
  <1>3. BondTypes'
    BY DEF ClearKeys, BondTypes
  <1>4. StoreOfBond'
    BY <1>1 DEF ClearKeys, StoreOfBond
  <1>5. StoreAskedFor'
    BY <1>1 DEF ClearKeys, StoreAskedFor, Stored
  <1>6. CfgAskedFor'
    BY <1>2 DEF CfgAskedFor
  <1>7. AddrOfBond' /\ HostKnows' /\ LinkOfBond'
    BY DEF ClearKeys, AddrOfBond, HostKnows, LinkOfBond, BondTypes
  <1>8. LiveIsCfg' /\ NvIsCopy' /\ StoreInCfg'
    BY DEF ClearKeys, LiveIsCfg, NvIsCopy, StoreInCfg, BondTypes, Stored
  <1>9. LiveFromCopy' /\ Cleared' /\ OthersAskedNothing'
    BY DEF ClearKeys, LiveFromCopy, Cleared, OthersAskedNothing, BondTypes, Stored
  <1>10. SubscriptionsKept' /\ ReportsAskedFor'
    BY DEF ClearKeys, SubscriptionsKept, ReportsAskedFor, BondTypes
  <1> QED
    BY <1>3, <1>4, <1>5, <1>6, <1>7, <1>8, <1>9, <1>10

LEMMA ClearAddrStep ==
  ASSUME BondInv, ClearAddr
  PROVE  BondInv'
  <1> USE BondAssumption, Nobody DEF BondInv, Peers, Calm, OneHost
  <1>1. Calm' => \A h \in Handles : live'[h] # 1
    <2>1. Calm => \A h \in Handles : live[h] = 0
      BY DEF ClearAddr, Cleared
    <2>2. \A h \in Handles : live[h] = 0 => live[h] # 1
      OBVIOUS
    <2> QED
      BY <2>1, <2>2 DEF ClearAddr
  <1>2. BondTypes'
    BY DEF ClearAddr, BondTypes
  <1>3. ReportsAskedFor'
    BY <1>1 DEF ReportsAskedFor
  <1>4. AddrOfBond' /\ HostKnows' /\ LinkOfBond'
    BY DEF ClearAddr, AddrOfBond, HostKnows, LinkOfBond, BondTypes
  <1>5. LiveIsCfg' /\ NvIsCopy' /\ StoreOfBond'
    BY DEF ClearAddr, LiveIsCfg, NvIsCopy, StoreOfBond, BondTypes
  <1>6. StoreInCfg' /\ LiveFromCopy' /\ Cleared'
    BY DEF ClearAddr, StoreInCfg, LiveFromCopy, Cleared, BondTypes, Stored
  <1>7. StoreAskedFor' /\ CfgAskedFor' /\ OthersAskedNothing'
    BY DEF ClearAddr, StoreAskedFor, CfgAskedFor, OthersAskedNothing, BondTypes, Stored
  <1>8. SubscriptionsKept'
    BY DEF ClearAddr, SubscriptionsKept, BondTypes
  <1> QED
    BY <1>2, <1>3, <1>4, <1>5, <1>6, <1>7, <1>8

LEMMA BootStep ==
  ASSUME BondInv, Boot
  PROVE  BondInv'
  <1> USE BondAssumption, Nobody DEF BondInv, Peers, Calm, OneHost
  <1>1. \A h \in Handles : Stored(h) => cfg'[h].peer = nv.ccc.addr /\ cfg'[h].value = 1 /\ live'[h] = 1
    BY DEF Boot, Stored
  <1>2. \A h \in Handles : ~Stored(h) => cfg'[h].value # 1 /\ live'[h] # 1
    BY DEF Boot, Stored, BondTypes, CccTable
  <1>3. nv' = nv /\ conn' = NoConn /\ odd' = odd /\ owed' = owed
    BY DEF Boot
  <1>4. BondTypes'
    BY DEF Boot, BondTypes, CccTable
  <1>5. LiveFromCopy'
    <2>1. \A h \in Handles : live'[h] = 1 => Stored(h)'
      BY <1>2, <1>3 DEF Stored
    <2> QED
      BY <2>1 DEF LiveFromCopy
  <1>6. CfgAskedFor'
    <2>1. Calm => \A h \in Handles : Stored(h) => nv.ccc.addr \in Hosts /\ h \in owed[nv.ccc.addr]
      BY DEF StoreAskedFor, StoreOfBond, Stored, BondTypes
    <2> QED
      BY <1>1, <1>2, <1>3, <2>1 DEF CfgAskedFor
  <1>7. AddrOfBond' /\ HostKnows' /\ LinkOfBond'
    BY DEF Boot, AddrOfBond, HostKnows, LinkOfBond, BondTypes
  <1>8. LiveIsCfg' /\ NvIsCopy' /\ StoreOfBond'
    BY DEF Boot, LiveIsCfg, NvIsCopy, StoreOfBond, BondTypes
  <1>9. StoreInCfg' /\ Cleared' /\ StoreAskedFor'
    BY DEF Boot, StoreInCfg, Cleared, StoreAskedFor, BondTypes, Stored
  <1>10. OthersAskedNothing' /\ SubscriptionsKept' /\ ReportsAskedFor'
    BY DEF Boot, OthersAskedNothing, SubscriptionsKept, ReportsAskedFor, BondTypes
  <1> QED
    BY <1>4, <1>5, <1>6, <1>7, <1>8, <1>9, <1>10

LEMMA BondUnchanged ==
  ASSUME BondInv, UNCHANGED bondVars
  PROVE  BondInv'
  <1> USE BondAssumption, Nobody DEF BondInv, Peers, Calm, OneHost
  <1>1. BondTypes'
    BY DEF bondVars, BondTypes
  <1>2. AddrOfBond' /\ HostKnows' /\ LinkOfBond'
    BY DEF bondVars, AddrOfBond, HostKnows, LinkOfBond, BondTypes
  <1>3. LiveIsCfg' /\ NvIsCopy' /\ StoreOfBond'
    BY DEF bondVars, LiveIsCfg, NvIsCopy, StoreOfBond, BondTypes
  <1>4. StoreInCfg' /\ LiveFromCopy' /\ Cleared'
    BY DEF bondVars, StoreInCfg, LiveFromCopy, Cleared, BondTypes, Stored
  <1>5. StoreAskedFor' /\ CfgAskedFor' /\ OthersAskedNothing'
    BY DEF bondVars, StoreAskedFor, CfgAskedFor, OthersAskedNothing, BondTypes, Stored
  <1>6. SubscriptionsKept' /\ ReportsAskedFor'
    BY DEF bondVars, SubscriptionsKept, ReportsAskedFor, BondTypes
  <1> QED
    BY <1>1, <1>2, <1>3, <1>4, <1>5, <1>6

\* rmc_clear_pair_info, run by the RX thread for a host that is not ready.
LEMMA ForgetStep ==
  ASSUME BondInv, rmc_clear_pair_info, keys' = None,
         conn' \in [peer : Peers, enc : BOOLEAN, pairing : BOOLEAN, sec : BOOLEAN, closing : BOOLEAN],
         conn'.peer \in Hosts, conn'.closing, ~conn'.sec,
         UNCHANGED <<adv, main, host, odd>>
  PROVE  BondInv'
  <1> USE BondAssumption, Nobody DEF BondInv, Peers, Calm, OneHost
  <1>1. nv'.keys = None /\ nv'.ccc = NoCcc /\ nv' = [keys |-> None, ccc |-> NoCcc]
    BY DEF rmc_clear_pair_info
  <1>2. \A h \in Handles : live'[h] = 0 /\ live'[h] # 1
    BY DEF rmc_clear_pair_info
  <1>3. \A h \in Handles : cfg'[h].value = 0 /\ cfg'[h].value # 1
    BY DEF rmc_clear_pair_info, BondTypes
  <1>4. BondTypes'
    <2>1. cfg' \in [Handles -> [peer : Peers, value : 0 .. 1]]
      <3>1. cfg \in [Handles -> [peer : Peers, value : 0 .. 1]]
        BY DEF BondTypes
      <3>2. \A h \in Handles : [cfg[h] EXCEPT !.value = 0] \in [peer : Peers, value : 0 .. 1]
        BY <3>1
      <3> QED
        BY <3>2 DEF rmc_clear_pair_info
    <2>2. CccTable(nv.ccc)' /\ CccTable(ccc_save_storage)'
      BY <1>1 DEF rmc_clear_pair_info, CccTable
    <2> QED
      BY <1>1, <2>1, <2>2 DEF rmc_clear_pair_info, BondTypes
  <1>5. AddrOfBond' /\ HostKnows' /\ LinkOfBond'
    BY <1>1 DEF rmc_clear_pair_info, AddrOfBond, HostKnows, LinkOfBond, BondTypes
  <1>6. LiveIsCfg' /\ LiveFromCopy' /\ CfgAskedFor' /\ ReportsAskedFor'
    BY <1>2, <1>3 DEF LiveIsCfg, LiveFromCopy, CfgAskedFor, ReportsAskedFor
  <1>7. Cleared'
    BY <1>2, <1>3 DEF rmc_clear_pair_info, Cleared
  <1>8. NvIsCopy' /\ StoreOfBond' /\ SubscriptionsKept'
    BY <1>1 DEF rmc_clear_pair_info, NvIsCopy, StoreOfBond, SubscriptionsKept
  <1>9. StoreInCfg' /\ StoreAskedFor'
    BY <1>1 DEF StoreInCfg, StoreAskedFor, Stored
  <1>10. OthersAskedNothing'
    BY DEF rmc_clear_pair_info, OthersAskedNothing
  <1> QED
    BY <1>4, <1>5, <1>6, <1>7, <1>8, <1>9, <1>10

LEMMA EncryptKeeps ==
  ASSUME BondInv, Encrypt, ~(is_paired /\ ~all_hid_ccc_is_enabled)
  PROVE  BondInv'
  <1> USE BondAssumption, Nobody DEF BondInv, Peers, Calm, OneHost
  <1>1. conn.peer \in Hosts /\ ~conn.pairing /\ nv.keys = conn.peer
    BY DEF Encrypt, Unencrypted, storage_read, BondTypes
  <1>2. /\ conn' = [conn EXCEPT !.enc = TRUE, !.sec = TRUE]
        /\ keys' = conn.peer
        /\ direct_addr' = DirectAddr
        /\ UNCHANGED <<nv, ccc_save_storage, cfg, live, owed, adv, main, host, odd>>
    BY DEF Encrypt, Unencrypted, security_changed, BondTypes
  <1>3. /\ conn' \in [peer : Peers, enc : BOOLEAN, pairing : BOOLEAN, sec : BOOLEAN, closing : BOOLEAN]
        /\ conn'.peer = conn.peer /\ conn'.enc /\ ~conn'.pairing /\ conn'.sec
        /\ conn # NoConn
    BY <1>1, <1>2 DEF BondTypes
  <1>4. BondTypes'
    BY <1>1, <1>2, <1>3 DEF BondTypes, DirectAddr
  <1>5. AddrOfBond'
    BY <1>1, <1>2 DEF AddrOfBond, DirectAddr
  <1>6. HostKnows'
    BY <1>2 DEF HostKnows
  <1>7. LinkOfBond'
    BY <1>2, <1>3 DEF LinkOfBond
  <1>8. LiveIsCfg'
    BY <1>2, <1>3 DEF LiveIsCfg
  <1>9. NvIsCopy'
    BY <1>2 DEF NvIsCopy
  <1>10. StoreOfBond'
    BY <1>2 DEF StoreOfBond
  <1>11. StoreInCfg'
    BY <1>2 DEF StoreInCfg, Stored
  <1>12. LiveFromCopy'
    BY <1>1, <1>2, <1>3 DEF LiveFromCopy, Stored
  <1>13. Cleared'
    BY <1>2 DEF Cleared
  <1>14. StoreAskedFor'
    BY <1>2 DEF StoreAskedFor, Stored
  <1>15. CfgAskedFor'
    BY <1>2 DEF CfgAskedFor
  <1>16. OthersAskedNothing'
    BY <1>2 DEF OthersAskedNothing
  <1>17. SubscriptionsKept'
    BY <1>2 DEF SubscriptionsKept
  <1>18. ReportsAskedFor'
    <2>1. ASSUME Calm, main = "idle", NEW h \in Handles, live[h] = 1
          PROVE  h \in owed[conn.peer]
      <3>1. CASE Stored(h)
        BY <1>1, <2>1, <3>1 DEF Stored, StoreOfBond, StoreAskedFor
      <3>2. CASE cfg[h].peer = conn.peer /\ cfg[h].value = 1
        BY <2>1, <3>2 DEF CfgAskedFor
      <3> QED
        BY <2>1, <3>1, <3>2 DEF LiveFromCopy
    <2> QED
      BY <1>2, <1>3, <2>1 DEF ReportsAskedFor
  <1> QED
    BY <1>4, <1>5, <1>6, <1>7, <1>8, <1>9, <1>10, <1>11, <1>12, <1>13, <1>14, <1>15,
       <1>16, <1>17, <1>18

LEMMA PairKeeps ==
  ASSUME BondInv, Pair, ~(is_paired /\ ~all_hid_ccc_is_enabled)
  PROVE  BondInv'
  <1> USE BondAssumption, Nobody DEF BondInv, Peers, Calm, OneHost
  <1>1. conn.peer \in Hosts /\ nv.keys # conn.peer
    BY DEF Pair, Unencrypted, HostKnows, BondTypes
  <1>2. /\ conn' = [conn EXCEPT !.enc = TRUE, !.pairing = TRUE, !.sec = TRUE]
        /\ keys' = None
        /\ direct_addr' = DirectAddr
        /\ UNCHANGED <<nv, ccc_save_storage, cfg, live, owed, adv, main, host>>
    BY DEF Pair, Unencrypted, security_changed, BondTypes
  <1>3. /\ conn' \in [peer : Peers, enc : BOOLEAN, pairing : BOOLEAN, sec : BOOLEAN, closing : BOOLEAN]
        /\ conn'.peer = conn.peer /\ conn'.enc /\ conn'.pairing /\ conn'.sec /\ ~conn'.closing
        /\ conn # NoConn
    BY <1>1, <1>2 DEF BondTypes, Pair, Unencrypted
  <1>4. /\ OneHost' => OneHost /\ nv.keys = None /\ direct_addr' \in {None, conn.peer}
        /\ Calm' => Calm /\ OneHost'
        /\ odd' = {} => odd = {}
    <2>1. /\ OneHost' => OneHost /\ (is_paired => DirectAddr = conn.peer)
          /\ Calm' => Calm /\ OneHost'
          /\ odd' = {} => odd = {}
      BY <1>3 DEF Pair
    <2>2. OneHost /\ (is_paired => DirectAddr = conn.peer)
            => nv.keys = None /\ DirectAddr \in {None, conn.peer}
      BY <1>1 DEF is_paired, DirectAddr, AddrOfBond
    <2> QED
      BY <1>2, <2>1, <2>2
  <1>5. BondTypes'
    BY <1>1, <1>2, <1>3 DEF BondTypes, DirectAddr
  <1>6. AddrOfBond'
    BY <1>2, <1>4 DEF AddrOfBond, DirectAddr
  <1>7. HostKnows'
    BY <1>2 DEF HostKnows
  <1>8. LinkOfBond'
    BY <1>2, <1>3, <1>4 DEF LinkOfBond
  <1>9. LiveIsCfg'
    BY <1>2, <1>3 DEF LiveIsCfg
  <1>10. NvIsCopy'
    BY <1>2 DEF NvIsCopy
  <1>11. StoreOfBond'
    BY <1>2, <1>4 DEF StoreOfBond
  <1>12. StoreInCfg'
    BY <1>2, <1>4 DEF StoreInCfg, Stored
  <1>13. LiveFromCopy'
    BY <1>1, <1>2, <1>3, <1>4 DEF LiveFromCopy, Stored
  <1>14. Cleared'
    BY <1>2, <1>4 DEF Cleared
  <1>15. StoreAskedFor'
    BY <1>2, <1>4 DEF StoreAskedFor, Stored
  <1>16. CfgAskedFor'
    BY <1>2, <1>4 DEF CfgAskedFor
  <1>17. OthersAskedNothing'
    BY <1>2, <1>4 DEF OthersAskedNothing
  <1>18. SubscriptionsKept'
    BY <1>2, <1>4 DEF SubscriptionsKept
  <1>19. ReportsAskedFor'
    <2>1. ASSUME Calm, nv.keys = None, main = "idle", NEW h \in Handles, live[h] = 1
          PROVE  h \in owed[conn.peer]
      <3>1. ~Stored(h)
        BY <2>1 DEF Stored, StoreOfBond
      <3>2. cfg[h].peer = conn.peer /\ cfg[h].value = 1
        BY <2>1, <3>1 DEF LiveFromCopy
      <3> QED
        BY <2>1, <3>2 DEF CfgAskedFor
    <2> QED
      BY <1>2, <1>3, <1>4, <2>1 DEF ReportsAskedFor
  <1> QED
    BY <1>5, <1>6, <1>7, <1>8, <1>9, <1>10, <1>11, <1>12, <1>13, <1>14, <1>15, <1>16,
       <1>17, <1>18, <1>19

LEMMA EncryptStep ==
  ASSUME BondInv, Encrypt
  PROVE  BondInv'
  <1>1. CASE is_paired /\ ~all_hid_ccc_is_enabled
    <2>1. conn.peer \in Hosts /\ ~conn.sec
      BY BondAssumption, Nobody DEF Encrypt, Unencrypted, BondInv, BondTypes, Peers, LinkOfBond
    <2>2. rmc_clear_pair_info /\ conn' = [conn EXCEPT !.enc = TRUE, !.closing = TRUE]
      BY <1>1 DEF Encrypt, security_changed, BondInv, BondTypes
    <2> QED
      BY <2>1, <2>2, ForgetStep DEF Encrypt, BondInv, BondTypes
  <1>2. CASE ~(is_paired /\ ~all_hid_ccc_is_enabled)
    BY <1>2, EncryptKeeps
  <1> QED
    BY <1>1, <1>2

LEMMA PairStep ==
  ASSUME BondInv, Pair
  PROVE  BondInv'
  <1>1. CASE is_paired /\ ~all_hid_ccc_is_enabled
    <2>1. conn.peer \in Hosts /\ ~conn.sec
      BY BondAssumption, Nobody DEF Pair, Unencrypted, BondInv, BondTypes, Peers, LinkOfBond
    <2>2. /\ rmc_clear_pair_info
          /\ conn' = [conn EXCEPT !.enc = TRUE, !.pairing = TRUE, !.closing = TRUE]
      BY <1>1 DEF Pair, security_changed, BondInv, BondTypes
    <2>3. conn'.closing
      BY <2>2 DEF BondInv, BondTypes
    <2> QED
      BY <2>1, <2>2, <2>3, ForgetStep DEF Pair, BondInv, BondTypes
  <1>2. CASE ~(is_paired /\ ~all_hid_ccc_is_enabled)
    BY <1>2, PairKeeps
  <1> QED
    BY <1>1, <1>2

-----------------------------------------------------------------------------
\* ccc_store_find always finds an entry: the table has one for each descriptor.
LEMMA EntryFound ==
  ASSUME NEW save, CccTable(save), NEW p \in Hosts, NEW h \in Handles, NEW v \in 0 .. 1
  PROVE  LET old == IF save.addr = p THEN save.store ELSE <<>>
         IN  CccStored(save, p, h, v) = [addr |-> p, store |-> With(old, h, v)]
  <1> DEFINE old == IF save.addr = p THEN save.store ELSE <<>>
  <1>1. DOMAIN old \subseteq Handles
    BY DEF CccTable
  <1>2. ASSUME h \notin DOMAIN old PROVE Cardinality(DOMAIN old) < CONFIG_CCC_STORE_MAX
    <2> DEFINE D == DOMAIN old
    <2>1. IsFiniteSet(Handles \ {h}) /\ Cardinality(Handles \ {h}) = Cardinality(Handles) - 1
      BY TableAssumption, FS_RemoveElement
    <2>2. D \subseteq Handles \ {h}
      BY <1>1, <1>2
    <2> HIDE DEF D
    <2>3. IsFiniteSet(D) /\ Cardinality(D) <= Cardinality(Handles \ {h})
      BY <2>1, <2>2, FS_Subset
    <2>4. Cardinality(D) \in Nat /\ Cardinality(Handles) \in Nat
      BY <2>3, TableAssumption, FS_CardinalityType
    <2>5. Cardinality(D) < CONFIG_CCC_STORE_MAX
      BY <2>1, <2>3, <2>4, TableAssumption, BondAssumption
    <2> QED
      BY <2>5 DEF D
  <1> HIDE DEF old
  <1>3. h \in DOMAIN old \/ Cardinality(DOMAIN old) < CONFIG_CCC_STORE_MAX
    BY <1>2
  <1> QED
    BY <1>3 DEF CccStored, old

\* bt_gatt_store_ccc: the copy and the NVRAM hold the value, for this host alone.
LEMMA ValueStored ==
  ASSUME BondTypes, NvIsCopy, NEW p \in Hosts, NEW h \in Handles, NEW v \in 0 .. 1,
         bt_gatt_store_ccc(p, h, v)
  PROVE  /\ nv' = [keys |-> nv.keys, ccc |-> nv'.ccc] /\ nv'.keys = nv.keys
         /\ CccTable(ccc_save_storage)' /\ CccTable(nv.ccc)'
         /\ main # "clear_nv" =>
              /\ nv'.ccc = ccc_save_storage'
              /\ nv'.ccc.addr = p
              /\ h \in DOMAIN nv'.ccc.store /\ nv'.ccc.store[h] = v
              /\ \A x \in Handles \ {h} :
                    /\ Stored(x)' => nv.ccc.addr = p /\ Stored(x)
                    /\ nv.ccc.addr = p /\ Stored(x) => Stored(x)'
  <1> DEFINE old == IF ccc_save_storage.addr = p THEN ccc_save_storage.store ELSE <<>>
  <1>1. ccc_save_storage' = [addr |-> p, store |-> With(old, h, v)]
    BY EntryFound DEF bt_gatt_store_ccc, BondTypes
  <1>2. \A x \in DOMAIN old : x \in Handles /\ old[x] \in 0 .. 1
    BY DEF BondTypes, CccTable
  <1>3. ccc_save_storage.addr = p => old = ccc_save_storage.store
    OBVIOUS
  <1>4. ccc_save_storage.addr # p => DOMAIN old = {}
    OBVIOUS
  <1> HIDE DEF old
  <1>5. CccTable(ccc_save_storage)'
    BY <1>1, <1>2 DEF CccTable, With, Peers
  <1>6. nv'.keys = nv.keys /\ nv' = [keys |-> nv.keys, ccc |-> nv'.ccc]
        /\ (nv'.ccc = ccc_save_storage' \/ (nv'.ccc = nv.ccc /\ ccc_save_storage' = ccc_save_storage))
    BY DEF bt_gatt_store_ccc, BondTypes
  <1>7. CccTable(nv.ccc)'
    BY <1>5, <1>6 DEF BondTypes, CccTable
  <1>8. ASSUME main # "clear_nv"
        PROVE  /\ nv'.ccc = ccc_save_storage'
               /\ nv'.ccc.addr = p
               /\ h \in DOMAIN nv'.ccc.store /\ nv'.ccc.store[h] = v
               /\ \A x \in Handles \ {h} :
                     /\ Stored(x)' => nv.ccc.addr = p /\ Stored(x)
                     /\ nv.ccc.addr = p /\ Stored(x) => Stored(x)'
    <2>1. nv'.ccc = ccc_save_storage' /\ nv.ccc = ccc_save_storage
      BY <1>6, <1>8 DEF NvIsCopy
    <2>2. nv'.ccc.addr = p /\ nv'.ccc.store = With(old, h, v)
      BY <1>1, <2>1
    <2>3. h \in DOMAIN nv'.ccc.store /\ nv'.ccc.store[h] = v
      BY <2>2 DEF With
    <2>4. \A x \in Handles \ {h} : Stored(x)' <=> x \in DOMAIN old /\ old[x] = 1
      BY <2>2 DEF With, Stored
    <2> QED
      BY <1>3, <1>4, <2>1, <2>2, <2>3, <2>4 DEF Stored
  <1> QED
    BY <1>5, <1>6, <1>7, <1>8

LEMMA WriteCccStep ==
  ASSUME BondInv, NEW h \in Handles, NEW v \in 0 .. 1, WriteCcc(h, v)
  PROVE  BondInv'
  <1> USE BondAssumption, Nobody DEF BondInv, Peers, Calm, OneHost
  <1> DEFINE p == conn.peer
             stores == v # live[h] /\ keys = p
  <1>1. p \in Hosts /\ conn # NoConn /\ conn.enc /\ ~conn.closing
    BY DEF WriteCcc, BondTypes
  <1>2. /\ cfg' = [cfg EXCEPT ![h] = [peer |-> p, value |-> v]]
        /\ live' = [live EXCEPT ![h] = v]
        /\ owed' = [owed EXCEPT ![p] = IF v = 1 THEN @ \cup {h} ELSE @ \ {h}]
        /\ UNCHANGED <<keys, direct_addr, conn, adv, main, host>>
    BY DEF WriteCcc, gatt_ccc_changed
  <1>3. IF stores THEN bt_gatt_store_ccc(p, h, v) ELSE UNCHANGED <<nv, ccc_save_storage>>
    BY DEF WriteCcc, gatt_ccc_changed, bt_addr_le_is_bonded
  <1>4. /\ Calm' => Calm /\ main = "idle"
        /\ OneHost' <=> OneHost
        /\ odd' = {} => odd = {} /\ keys = p /\ nv.keys = p /\ main = "idle"
    BY <1>1 DEF WriteCcc, BondTypes
  <1>5. stores => nv.keys = p
    BY <1>1 DEF BondTypes
  <1>6. /\ nv' = [keys |-> nv.keys, ccc |-> nv'.ccc] /\ nv'.keys = nv.keys
        /\ CccTable(ccc_save_storage)' /\ CccTable(nv.ccc)'
    <2>1. CASE stores
      BY <1>1, <1>3, <2>1, ValueStored
    <2>2. CASE ~stores
      BY <1>3, <2>2 DEF BondTypes, CccTable
    <2> QED
      BY <2>1, <2>2
  <1>7. /\ ~stores => nv' = nv /\ ccc_save_storage' = ccc_save_storage
        /\ stores /\ main = "idle" =>
              /\ nv'.ccc = ccc_save_storage'
              /\ nv'.ccc.addr = p
              /\ h \in DOMAIN nv'.ccc.store /\ nv'.ccc.store[h] = v
              /\ \A x \in Handles \ {h} :
                    /\ Stored(x)' => nv.ccc.addr = p /\ Stored(x)
                    /\ nv.ccc.addr = p /\ Stored(x) => Stored(x)'
    BY <1>1, <1>3, ValueStored
  <1> HIDE DEF p, stores
  <1>8. \A x \in Handles : /\ cfg'[x].peer = IF x = h THEN p ELSE cfg[x].peer
                           /\ cfg'[x].value = IF x = h THEN v ELSE cfg[x].value
                           /\ live'[x] = IF x = h THEN v ELSE live[x]
    BY <1>2 DEF BondTypes
  <1>9. /\ \A q \in Hosts \ {p} : owed'[q] = owed[q]
        /\ v = 1 => owed'[p] = owed[p] \cup {h}
        /\ v # 1 => owed'[p] = owed[p] \ {h}
        /\ \A q \in Hosts : \A x \in Handles \ {h} : x \in owed'[q] <=> x \in owed[q]
        /\ v = 1 => h \in owed'[p]
    BY <1>1, <1>2 DEF BondTypes
  \* what is stored for h
  <1>10. Calm' /\ Stored(h)' => nv'.ccc.addr = p /\ v = 1
    <2>1. CASE stores
      BY <1>4, <1>7, <2>1 DEF Stored
    <2>2. ASSUME ~stores, Calm', Stored(h)' PROVE nv'.ccc.addr = p /\ v = 1
      <3>1. Calm /\ Stored(h) /\ nv' = nv
        BY <1>4, <1>7, <2>2 DEF Stored
      <3>2. nv.ccc.addr = nv.keys /\ nv.keys # None
        BY <3>1 DEF StoreOfBond, Stored
      <3>3. keys = p
        BY <1>1, <1>4, <3>1, <3>2 DEF LinkOfBond, p
      <3>4. nv.keys = p
        BY <1>1, <3>3 DEF BondTypes
      <3>5. cfg[h].peer = p /\ cfg[h].value = 1
        BY <3>1, <3>2, <3>4 DEF StoreInCfg
      <3>6. live[h] = 1
        BY <1>1, <3>5 DEF LiveIsCfg, p
      <3> QED
        BY <2>2, <3>1, <3>2, <3>3, <3>4, <3>6 DEF stores
    <2> QED
      BY <2>1, <2>2
  \* what is stored for another descriptor
  <1>11. Calm' => \A x \in Handles \ {h} :
            /\ Stored(x)' => Stored(x) /\ nv'.ccc.addr = nv.ccc.addr
            /\ Stored(x) => Stored(x)'
    <2>1. CASE stores
      <3>1. Calm => \A x \in Handles : Stored(x) => nv.ccc.addr = p
        BY <1>5, <2>1 DEF StoreOfBond, Stored
      <3> QED
        BY <1>4, <1>7, <2>1, <3>1
    <2>2. CASE ~stores
      BY <1>7, <2>2 DEF Stored
    <2> QED
      BY <2>1, <2>2
  <1>12. BondTypes'
    BY <1>1, <1>2, <1>6 DEF BondTypes, p
  <1>13. AddrOfBond' /\ HostKnows' /\ LinkOfBond'
    BY <1>2, <1>4, <1>6 DEF AddrOfBond, HostKnows, LinkOfBond
  <1>14. LiveIsCfg'
    BY <1>2, <1>8 DEF LiveIsCfg
  <1>15. NvIsCopy'
    <2>1. CASE stores
      BY <1>1, <1>2, <1>3, <2>1, ValueStored DEF NvIsCopy, p, stores
    <2>2. CASE ~stores
      BY <1>2, <1>7, <2>2 DEF NvIsCopy
    <2> QED
      BY <2>1, <2>2
  <1>16. StoreOfBond'
    <2>1. CASE stores
      BY <1>1, <1>4, <1>5, <1>6, <1>7, <2>1 DEF StoreOfBond
    <2>2. CASE ~stores
      BY <1>4, <1>7, <2>2 DEF StoreOfBond
    <2> QED
      BY <2>1, <2>2
  <1>17. StoreInCfg'
    <2> SUFFICES ASSUME Calm', NEW x \in Handles, Stored(x)'
                 PROVE  cfg'[x].peer = nv'.ccc.addr /\ cfg'[x].value = 1
      BY DEF StoreInCfg
    <2>1. CASE x = h
      BY <1>8, <1>10, <2>1
    <2>2. CASE x # h
      BY <1>4, <1>8, <1>11, <2>2 DEF StoreInCfg
    <2> QED
      BY <2>1, <2>2
  <1>18. LiveFromCopy'
    <2> SUFFICES ASSUME Calm', NEW x \in Handles, live'[x] = 1
                 PROVE  Stored(x)' \/ (conn' # NoConn /\ cfg'[x].peer = conn'.peer /\ cfg'[x].value = 1)
      BY DEF LiveFromCopy
    <2>1. CASE x = h
      BY ZenonT(60), <1>1, <1>2, <1>8, <2>1 DEF p
    <2>2. CASE x # h
      <3>1. Stored(x) \/ (cfg[x].peer = conn.peer /\ cfg[x].value = 1)
        BY <1>4, <1>8, <2>2 DEF LiveFromCopy
      <3> QED
        BY <1>1, <1>2, <1>8, <1>11, <2>2, <3>1
    <2> QED
      BY <2>1, <2>2
  <1>19. Cleared'
    BY <1>2, <1>4 DEF Cleared
  <1>20. StoreAskedFor'
    <2> SUFFICES ASSUME Calm', NEW x \in Handles, Stored(x)'
                 PROVE  x \in owed'[nv'.ccc.addr]
      BY DEF StoreAskedFor
    <2>1. CASE x = h
      BY <1>9, <1>10, <2>1
    <2>2. CASE x # h
      <3>1. Calm /\ Stored(x) /\ nv'.ccc.addr = nv.ccc.addr
        BY <1>4, <1>11, <2>2
      <3>2. nv.ccc.addr \in Hosts
        BY <3>1 DEF StoreOfBond, Stored, BondTypes
      <3>3. x \in owed[nv.ccc.addr]
        BY <3>1 DEF StoreAskedFor
      <3> QED
        BY <1>9, <2>2, <3>1, <3>2, <3>3
    <2> QED
      BY <2>1, <2>2
  <1>21. CfgAskedFor'
    <2> SUFFICES ASSUME Calm', NEW x \in Handles, cfg'[x].value = 1
                 PROVE  cfg'[x].peer \in Hosts /\ x \in owed'[cfg'[x].peer]
      BY DEF CfgAskedFor
    <2>1. CASE x = h
      BY <1>1, <1>8, <1>9, <2>1
    <2>2. CASE x # h
      <3>1. cfg[x].peer \in Hosts /\ x \in owed[cfg[x].peer]
        BY <1>4, <1>8, <2>2 DEF CfgAskedFor
      <3> QED
        BY <1>8, <1>9, <2>2, <3>1
    <2> QED
      BY <2>1, <2>2
  <1>22. OthersAskedNothing'
    BY <1>4, <1>6, <1>9 DEF OthersAskedNothing
  <1>23. SubscriptionsKept'
    <2> SUFFICES ASSUME odd' = {}, NEW x \in owed'[p]
                 PROVE  nv'.ccc.addr = p /\ Stored(x)'
      BY <1>4, <1>6 DEF SubscriptionsKept, Stored
    <2>1. Calm' /\ odd = {} /\ nv.keys = p /\ nv.keys # None /\ main = "idle" /\ keys = p
      BY <1>1, <1>4
    <2>2. \A y \in owed[p] : nv.ccc.addr = p /\ y \in Handles /\ Stored(y)
      BY <1>1, <2>1 DEF SubscriptionsKept, Stored, BondTypes
    <2>3. CASE stores
      <3>1. nv'.ccc.addr = p
        BY <1>7, <2>1, <2>3
      <3>2. CASE x = h
        BY <1>7, <1>9, <2>1, <2>3, <3>1, <3>2 DEF Stored
      <3>3. CASE x # h
        <4>1. x \in owed[p]
          BY <1>9, <3>3
        <4> QED
          BY <1>11, <2>1, <2>2, <3>1, <3>3, <4>1
      <3> QED
        BY <3>2, <3>3
    <2>4. CASE ~stores
      <3>1. x \in owed[p]
        <4>1. CASE x # h
          BY <1>9, <4>1
        <4>2. CASE x = h
          <5>1. live[h] = 1
            BY <1>9, <2>1, <2>4, <4>2 DEF stores
          <5>2. CASE Stored(h)
            BY <2>1, <4>2, <5>2 DEF StoreOfBond, StoreAskedFor, Stored
          <5>3. CASE cfg[h].peer = p /\ cfg[h].value = 1
            BY <1>4, <2>1, <4>2, <5>3 DEF CfgAskedFor
          <5> QED
            BY <1>4, <2>1, <5>1, <5>2, <5>3 DEF LiveFromCopy, p
        <4> QED
          BY <4>1, <4>2
      <3> QED
        BY <1>7, <2>2, <2>4, <3>1 DEF Stored
    <2> QED
      BY <2>3, <2>4
  <1>24. ReportsAskedFor'
    <2> SUFFICES ASSUME conn.sec, Calm', NEW x \in Handles, live'[x] = 1
                 PROVE  x \in owed'[p]
      BY <1>2 DEF ReportsAskedFor, p
    <2>1. CASE x = h
      BY <1>8, <1>9, <2>1
    <2>2. CASE x # h
      <3>1. x \in owed[p]
        BY <1>4, <1>8, <2>2 DEF ReportsAskedFor, p
      <3> QED
        BY <1>1, <1>9, <2>2, <3>1
    <2> QED
      BY <2>1, <2>2
  <1> QED
    BY <1>12, <1>13, <1>14, <1>15, <1>16, <1>17, <1>18, <1>19, <1>20, <1>21, <1>22, <1>23, <1>24

LEMMA BondInvStep == BondInv /\ [BondNext]_bondVars => BondInv'
  BY ConnectStep, DisconnectStep, EncryptStep, KeyMissingStep, PairStep, KeysExchangedStep,
     WriteCccStep, ReconnectStep, ClearCopyStep, ClearNvStep, ClearCccStep, ClearKeysStep,
     ClearAddrStep, BootStep, BondUnchanged
  DEF BondNext, BondRx, BondMain

LEMMA BondInvariant == BondSpec => []BondInv
  BY BondInvInit, BondInvStep, PTL DEF BondSpec

\* The variables keep their types: the keys in RAM are those of the bond or none.
THEOREM BondTypesKept == BondSpec => []BondTypeOK
  <1>1. BondInv => BondTypeOK
    BY DEF BondInv, BondTypes, BondTypeOK, CccTable, Peers
  <1> QED
    BY <1>1, BondInvariant, PTL

\* is_paired: whatever the order of the steps of the two threads and wherever the
\* power fails, the address that is cached is that of the bond, for any number
\* of hosts, unless a second host was let in.
THEOREM BondReconnects == BondSpec => []ReconnectsToBond
  <1>1. BondInv => ReconnectsToBond
    BY DEF BondInv, AddrOfBond, OneHost, ReconnectsToBond
  <1> QED
    BY <1>1, BondInvariant, PTL

\* gatt_ccc_changed_new and bt_gatt_store_ccc: what the bonded host has
\* subscribed to is in the NVRAM under its address at every moment, for any
\* number of hosts, and of descriptors that fit into the table.
THEOREM BondSubscriptions == BondSpec => []SubscriptionsKept
  <1>1. BondInv => SubscriptionsKept
    BY DEF BondInv
  <1> QED
    BY <1>1, BondInvariant, PTL

\* hog.c, bt_gatt_load_ccc: no report is enabled on a secure link that the host
\* of this link has not asked for, although the table is shared by all hosts.
THEOREM BondReports == BondSpec => []ReportsAskedFor
  <1>1. BondInv => ReportsAskedFor
    BY DEF BondInv
  <1> QED
    BY <1>1, BondInvariant, PTL

\* security_changed and smp_reset_new never take the bond of a host that has
\* subscribed to all input reports.
LEMMA ReadyHostStep ==
  ASSUME BondInv, BondNext, nv.keys # None, odd = {}, main = "idle",
         conn.peer = nv.keys, HidHandles \subseteq owed[nv.keys]
  PROVE  nv'.keys = nv.keys
  <1> USE BondAssumption, Nobody DEF BondInv, Peers, Calm, OneHost
  <1>1. all_hid_ccc_is_enabled
    <2>1. \A h \in HidHandles : h \in Handles /\ nv.ccc.addr = nv.keys /\ Stored(h)
      BY DEF SubscriptionsKept, Stored
    <2>2. \A h \in HidHandles : cfg[h].peer = conn.peer /\ cfg[h].value = 1
      BY <2>1 DEF StoreInCfg
    <2>3. conn # NoConn
      OBVIOUS
    <2> QED
      BY <2>1, <2>2, <2>3 DEF LiveIsCfg, all_hid_ccc_is_enabled
  <1>2. CASE Encrypt
    BY <1>1, <1>2 DEF Encrypt, security_changed
  <1>3. CASE Pair
    BY <1>3 DEF Pair, HostKnows
  <1>4. CASE KeysExchanged
    BY <1>4 DEF KeysExchanged, BondTypes
  <1>5. CASE \E h \in Handles, v \in 0 .. 1 : WriteCcc(h, v)
    BY <1>5 DEF WriteCcc, gatt_ccc_changed, bt_gatt_store_ccc, BondTypes
  <1>6. CASE BondMain
    BY <1>6 DEF BondMain, Reconnect, ClearCopy, ClearNv, ClearCcc, ClearKeys, ClearAddr
  <1> QED
    BY <1>2, <1>3, <1>4, <1>5, <1>6
    DEF BondNext, BondRx, Connect, Disconnect, KeyMissing, Boot

\* A host that has subscribed to all input reports keeps its bond until the user
\* clears it: when it comes back its values are found enabled, so that
\* security_changed does not forget it, however often the power failed.
THEOREM BondReadyHostKept == BondSpec => ReadyHostKept
  <1>1. BondInv /\ [BondNext]_bondVars =>
          [nv.keys # None /\ odd = {} /\ main = "idle"
           /\ conn.peer = nv.keys /\ HidHandles \subseteq owed[nv.keys]
            => nv'.keys = nv.keys]_bondVars
    BY ReadyHostStep DEF bondVars
  <1> QED
    BY <1>1, BondInvariant, PTL DEF BondSpec, ReadyHostKept

-----------------------------------------------------------------------------
(***************************************************************************)
(* Racp: the number of records is right, a response ends its procedure, no *)
(* accepted request is forgotten, and a report is complete.                *)
(***************************************************************************)
Operators == {r.operator : r \in Requests \cup {NoRequest}}
Operands == {r.operand : r \in Requests \cup {NoRequest}}
Procs == [state : {"NO_COMM", "ACTIVE"}, operator : Operators, operand : Operands, idx : 0 .. 255]

-----------------------------------------------------------------------------
(***************************************************************************)
(* The database.                                                           *)
(***************************************************************************)
LEMMA LowestInSet ==
  ASSUME NEW S \in SUBSET Nat, S # {}
  PROVE  LowestOf(S) \in S /\ \A m \in S : LowestOf(S) <= m
  <1>1. \E n \in S : \A m \in S : n <= m
    BY LeastElement
  <1> QED
    BY <1>1 DEF LowestOf

Database == [Entries -> [is_in_use : BOOLEAN, record : 0 .. MaxRecord]]

LEMMA InUseFinite ==
  /\ IsFiniteSet(InUse) /\ InUse \subseteq Entries
  /\ Cardinality(InUse) \in 0 .. DB_MAX_RECORDS
  <1>1. IsFiniteSet(Entries) /\ Cardinality(Entries) = DB_MAX_RECORDS
    <2>1. 1 \in Int /\ DB_MAX_RECORDS \in Int /\ 1 <= DB_MAX_RECORDS
      BY RacpAssumption
    <2> QED
      BY <2>1, FS_Interval DEF Entries
  <1>2. InUse \subseteq Entries
    BY DEF InUse
  <1>3. IsFiniteSet(InUse) /\ Cardinality(InUse) <= DB_MAX_RECORDS
    BY <1>1, <1>2, FS_Subset
  <1>4. Cardinality(InUse) \in Nat
    BY <1>3, FS_CardinalityType
  <1> QED
    BY <1>2, <1>3, <1>4, RacpAssumption

\* The lists of entries in use after a record was added, freed, or all were.
LEMMA InUseAdded ==
  ASSUME db \in Database, NEW i \in Entries \ InUse, NEW r \in 0 .. MaxRecord,
         db' = [db EXCEPT ![i] = [is_in_use |-> TRUE, record |-> r]]
  PROVE  db' \in Database /\ Cardinality(InUse') = Cardinality(InUse) + 1
  <1>1. Entries' = Entries
    BY DEF Entries
  <1>2. InUse' = InUse \cup {i}
    BY <1>1 DEF InUse, Database
  <1>3. db' \in Database
    BY DEF Database
  <1> QED
    BY <1>2, <1>3, InUseFinite, FS_AddElement

LEMMA InUseFreed ==
  ASSUME db \in Database, NEW i \in InUse, db' = Freed(i)
  PROVE  db' \in Database /\ Cardinality(InUse') = Cardinality(InUse) - 1
  <1>1. Entries' = Entries
    BY DEF Entries
  <1>2. i \in Entries
    BY DEF InUse
  <1>3. InUse' = InUse \ {i}
    BY <1>1, <1>2 DEF InUse, Database, Freed
  <1>4. db' \in Database
    BY <1>2 DEF Database, Freed
  <1> QED
    BY <1>3, <1>4, InUseFinite, FS_RemoveElement

LEMMA InUseEmptied ==
  ASSUME db \in Database, db' = EmptyDb
  PROVE  db' \in Database /\ Cardinality(InUse') = 0
  <1>1. Entries' = Entries
    BY DEF Entries
  <1>2. InUse' = {}
    BY <1>1 DEF InUse, Database, EmptyDb
  <1>3. db' \in Database
    BY DEF Database, EmptyDb
  <1> QED
    BY <1>2, <1>3, FS_EmptySet

\* The index of the next record to report is one of a record, or records_num.
LEMMA NextIdxBounded ==
  ASSUME racp \in Procs, records_num \in 0 .. DB_MAX_RECORDS
  PROVE  NextIdx \in 0 .. records_num
  <1>1. ASSUME NEW from \in 0 .. 255
        PROVE  Scan(from) \in 0 .. records_num
    <2> DEFINE hits == {i \in from .. records_num - 1 : db_record_get(i + 1) >= racp.operand}
    <2>1. hits \in SUBSET Nat /\ \A i \in hits : i \in 0 .. records_num
      BY RacpAssumption
    <2> HIDE DEF hits
    <2>2. hits # {} => LowestOf(hits) \in 0 .. records_num
      BY <2>1, LowestInSet
    <2>3. Scan(from) = IF hits = {} THEN records_num ELSE LowestOf(hits)
      BY DEF Scan, hits
    <2> QED
      BY <2>2, <2>3, RacpAssumption
  <1>2. racp.idx \in 0 .. 255 /\ records_num \in Nat
    BY RacpAssumption DEF Procs
  <1>3. Scan(IF racp.idx > records_num THEN 0 ELSE racp.idx) \in 0 .. records_num
    BY <1>1, <1>2
  <1>4. CASE racp.operator = "ALL"
    BY <1>2, <1>4 DEF NextIdx
  <1>5. CASE racp.operator = "FIRST"
    BY <1>2, <1>5 DEF NextIdx
  <1>6. CASE racp.operator = "LAST"
    BY <1>2, <1>6 DEF NextIdx
  <1>7. CASE racp.operator \notin NoFilter
    <2>1. NextIdx = Scan(IF racp.idx > records_num THEN 0 ELSE racp.idx)
      BY <1>7 DEF NextIdx, NoFilter
    <2> QED
      BY <2>1, <1>3
  <1> QED
    BY <1>4, <1>5, <1>6, <1>7 DEF NoFilter

-----------------------------------------------------------------------------
(***************************************************************************)
(* The types.                                                              *)
(***************************************************************************)
RacpTypes ==
    /\ db \in Database
    /\ records_num = Cardinality(InUse)
    /\ taken \in 0 .. MaxRecord
    /\ racp_request \in Requests \cup {NoRequest}
    /\ racp \in Procs
    /\ pc \in {"idle", "loop", "sent", "wild"}
    /\ work \in BOOLEAN /\ link \in BOOLEAN /\ polite \in BOOLEAN /\ stale \in BOOLEAN

LEMMA RacpTypesInit == RacpInit => RacpTypes
  <1> SUFFICES ASSUME RacpInit PROVE RacpTypes
    OBVIOUS
  <1>1. db \in Database
    BY RacpAssumption DEF RacpInit, Database
  <1>2. InUse = {}
    BY DEF RacpInit, InUse
  <1>3. records_num = Cardinality(InUse)
    BY <1>2, FS_EmptySet DEF RacpInit
  <1>4. NoRequest.operator = "NULL" /\ NoRequest.operand = NoOperand
    BY DEF NoRequest, Request
  <1>5. "NULL" \in Operators /\ NoOperand \in Operands
    BY <1>4 DEF Operators, Operands
  <1>6. racp \in Procs
    BY <1>5 DEF RacpInit, NoProc, Procs
  <1>7. taken \in 0 .. MaxRecord
    BY RacpAssumption DEF RacpInit
  <1> QED
    BY <1>1, <1>3, <1>6, <1>7 DEF RacpInit, RacpTypes

\* The database changes in four ways; the number of records goes with it.
LEMMA MeasureTypes ==
  ASSUME RacpTypes, Measure
  PROVE  db' \in Database /\ records_num' = Cardinality(InUse') /\ taken' \in 0 .. MaxRecord
  <1>1. taken + 1 \in 0 .. MaxRecord
    BY RacpAssumption DEF RacpTypes, Measure
  <1>2. CASE InUse # Entries
    <2> DEFINE i == LowestOf(Entries \ InUse)
    <2>1. Entries \ InUse \in SUBSET Nat /\ Entries \ InUse # {}
      <3>1. InUse \subseteq Entries
        BY InUseFinite
      <3>2. Entries \subseteq Nat
        BY RacpAssumption DEF Entries
      <3> QED
        BY <1>2, <3>1, <3>2
    <2>2. i \in Entries \ InUse
      BY <2>1, LowestInSet
    <2>3. /\ db' = [db EXCEPT ![i] = [is_in_use |-> TRUE, record |-> taken + 1]]
          /\ records_num' = records_num + 1 /\ taken' = taken + 1
      BY <1>2 DEF Measure
    <2> HIDE DEF i
    <2> QED
      BY <1>1, <2>2, <2>3, InUseAdded DEF RacpTypes
  <1>3. CASE InUse = Entries
    <2>1. db' = db /\ records_num' = records_num /\ taken' = taken + 1
      BY <1>3 DEF Measure
    <2>2. InUse' = InUse
      BY <2>1 DEF InUse, Entries
    <2> QED
      BY <1>1, <2>1, <2>2 DEF RacpTypes
  <1> QED
    BY <1>2, <1>3

LEMMA DeleteTypes ==
  ASSUME RacpTypes, Delete
  PROVE  db' \in Database /\ records_num' = Cardinality(InUse')
  <1>1. \/ db' = EmptyDb /\ records_num' = 0
        \/ \E i \in InUse : db' = Freed(i) /\ records_num' = records_num - 1
        \/ db' = db /\ records_num' = records_num
    <2>1. InUse # {} => LowestOf(InUse) \in InUse
      <3>1. InUse \in SUBSET Nat
        BY InUseFinite DEF Entries
      <3> QED
        BY <3>1, LowestInSet
    <2> QED
      BY <2>1 DEF Delete
  <1>2. CASE db' = EmptyDb /\ records_num' = 0
    BY <1>2, InUseEmptied DEF RacpTypes
  <1>3. ASSUME NEW i \in InUse, db' = Freed(i), records_num' = records_num - 1
        PROVE  db' \in Database /\ records_num' = Cardinality(InUse')
    BY <1>3, InUseFreed DEF RacpTypes
  <1>4. CASE db' = db /\ records_num' = records_num
    <2>1. InUse' = InUse
      BY <1>4 DEF InUse, Entries
    <2> QED
      BY <1>4, <2>1 DEF RacpTypes
  <1> QED
    BY <1>1, <1>2, <1>3, <1>4

\* The changes of the procedure keep its type.
LEMMA ProcTypes ==
  ASSUME RacpTypes
  PROVE  /\ [racp EXCEPT !.state = "NO_COMM"] \in Procs
         /\ [racp EXCEPT !.state = "NO_COMM", !.idx = records_num] \in Procs
         /\ [racp EXCEPT !.idx = NextIdx] \in Procs
         /\ [racp EXCEPT !.idx = (@ + 1) % 256] \in Procs
         /\ [state |-> "ACTIVE", operator |-> racp_request.operator,
             operand |-> racp_request.operand, idx |-> 0] \in Procs
  <1>1. records_num \in 0 .. DB_MAX_RECORDS
    BY InUseFinite DEF RacpTypes
  <1>2. NextIdx \in 0 .. records_num
    BY <1>1, NextIdxBounded DEF RacpTypes
  <1>3. records_num \in 0 .. 255 /\ NextIdx \in 0 .. 255
    BY <1>1, <1>2, RacpAssumption
  <1>4. racp_request.operator \in Operators /\ racp_request.operand \in Operands
    BY DEF RacpTypes, Operators, Operands
  <1>5. (racp.idx + 1) % 256 \in 0 .. 255
    BY DEF RacpTypes, Procs
  <1>6. racp \in Procs
    BY DEF RacpTypes
  <1>7. /\ [racp EXCEPT !.state = "NO_COMM"] \in Procs
        /\ [racp EXCEPT !.state = "NO_COMM", !.idx = records_num] \in Procs
    BY <1>3, <1>6 DEF Procs
  <1>8. [racp EXCEPT !.idx = NextIdx] \in Procs
    BY <1>3, <1>6 DEF Procs
  <1>9. [racp EXCEPT !.idx = (@ + 1) % 256] \in Procs
    BY <1>5, <1>6 DEF Procs
  <1>10. [state |-> "ACTIVE", operator |-> racp_request.operator,
          operand |-> racp_request.operand, idx |-> 0] \in Procs
    BY <1>4 DEF Procs
  <1> QED
    BY <1>7, <1>8, <1>9, <1>10

LEMMA RacpTypesStep == RacpTypes /\ [RacpNext]_racpVars => RacpTypes'
  <1> SUFFICES ASSUME RacpTypes, [RacpNext]_racpVars PROVE RacpTypes'
    OBVIOUS
  <1> USE DEF RacpTypes
  <1>0. UNCHANGED db => InUse' = InUse
    BY DEF InUse, Entries
  <1>d. db' \in Database <=> (db \in Database)'
    BY DEF Database, Entries
  <1>q. Procs' = Procs
    BY DEF Procs, Operators, Operands, NoRequest, Request, NoOperand
  <1>1. CASE Measure
    <2>1. db' \in Database /\ records_num' = Cardinality(InUse') /\ taken' \in 0 .. MaxRecord
      BY <1>1, MeasureTypes
    <2> QED
      BY <1>1, <1>d, <1>q, <2>1 DEF Measure
  <1>2. ASSUME NEW r \in Requests, racp_write(r) PROVE RacpTypes'
    BY <1>0, <1>2, <1>d, <1>q DEF racp_write
  <1>3. CASE indicate_rsp
    BY <1>0, <1>3, <1>d, <1>q, ProcTypes DEF indicate_rsp
  <1>4. CASE RacpConnect
    BY <1>0, <1>4, <1>d, <1>q DEF RacpConnect
  <1>5. CASE RacpDisconnect
    <2>1. racp' \in Procs
      BY <1>5, ProcTypes DEF RacpDisconnect
    <2> QED
      BY <1>0, <1>5, <1>d, <1>q, <2>1 DEF RacpDisconnect
  <1>6. CASE StartSession
    <2>1. db' \in Database /\ records_num' = Cardinality(InUse')
      BY <1>6, InUseEmptied DEF StartSession
    <2> QED
      BY <1>6, <1>d, <1>q, <2>1 DEF StartSession
  <1>7. CASE Refuse
    BY ZenonT(60), <1>0, <1>7, <1>d, <1>q, ProcTypes DEF Refuse, StateReset
  <1>8. CASE ReportNum
    BY <1>0, <1>8, <1>d, <1>q DEF ReportNum, Accepted
  <1>9. CASE Delete
    <2>1. db' \in Database /\ records_num' = Cardinality(InUse')
      BY <1>9, DeleteTypes
    <2> QED
      BY <1>9, <1>d, <1>q, <2>1 DEF Delete, Accepted
  <1>10. CASE Report
    <2>1. racp' \in Procs
      BY <1>10, ProcTypes DEF Report
    <2> QED
      BY <1>0, <1>10, <1>d, <1>q, <2>1 DEF Report, Accepted
  <1>11. CASE LoopEnds
    BY <1>0, <1>11, <1>d, <1>q DEF LoopEnds
  <1>12. CASE LoopDone
    BY <1>0, <1>12, <1>d, <1>q, ProcTypes DEF LoopDone
  <1>13. CASE LoopSend
    BY <1>0, <1>13, <1>d, <1>q, ProcTypes DEF LoopSend
  <1>14. CASE LoopNext
    BY <1>0, <1>14, <1>d, <1>q, ProcTypes DEF LoopNext
  <1>15. CASE UNCHANGED racpVars
    BY <1>0, <1>15, <1>d, <1>q DEF racpVars
  <1> QED
    BY <1>1, <1>2, <1>3, <1>4, <1>5, <1>6, <1>7, <1>8, <1>9, <1>10, <1>11, <1>12, <1>13,
       <1>14, <1>15 DEF RacpNext, RacpWork

-----------------------------------------------------------------------------
(***************************************************************************)
(* The procedures of a client that waits for the response.  The argument:  *)
(* while it is connected, exactly the time from its request to the         *)
(* response is busy (work is pending, a report runs, or the state is       *)
(* active), and in a report the only write that is still to be handled is  *)
(* the abort, which stops the loop without a response and then answers     *)
(* for both.                                                               *)
(***************************************************************************)
Busy == work \/ pc # "idle" \/ racp.state # "NO_COMM"

\* A response is on its way only when nothing else is.
ResponseAlone == indicating # NoResponse => ~Busy /\ asked = NoRequest

\* Work that is being done was asked for, and what was asked for is being done.
BusyIfAsked == (asked # NoRequest) <=> Busy

\* A report that runs is active; it was not disturbed, or is to be aborted, and
\* it is still active if it has stopped for that.
ReportOrAbort ==
    /\ pc \in {"loop", "sent"} => /\ racp.state = "ACTIVE"
                                  /\ racp_request.opcode = IF work THEN "ABORT" ELSE "REPORT"
    /\ pc = "idle" /\ racp.state = "ACTIVE" => work /\ racp_request.opcode = "ABORT"

Procedure ==
    /\ indicating # NoResponse /\ polite /\ ~stale => link
    /\ polite /\ ~stale /\ link => ResponseAlone /\ BusyIfAsked /\ ReportOrAbort

LEMMA ProcedureInit == RacpInit => Procedure
  BY DEF RacpInit, Procedure, ResponseAlone, BusyIfAsked, ReportOrAbort, Busy, NoProc

\* What a work item that is not an abort sees.
LEMMA CodeSplit ==
  ASSUME RacpTypes
  PROVE  /\ response_code(racp_request) = "IN_PROGRESS"
              => racp_request.opcode # "ABORT" /\ racp.state # "NO_COMM"
         /\ response_code(racp_request) = "RESERVED" => racp.state = "NO_COMM"
  <1>1. racp.state \in {"NO_COMM", "ACTIVE"}
    BY DEF RacpTypes, Procs
  <1>2. OperatorCode(racp_request) # "IN_PROGRESS"
    BY DEF OperatorCode
  <1>3. CASE racp_request.opcode = "ABORT"
    BY <1>3 DEF response_code
  <1>4. CASE racp_request.opcode # "ABORT" /\ racp.state # "NO_COMM"
    BY <1>4 DEF response_code
  <1>5. CASE racp_request.opcode # "ABORT" /\ racp.state = "NO_COMM"
    BY <1>2, <1>5 DEF response_code
  <1> QED
    BY <1>3, <1>4, <1>5

LEMMA ProcedureStep == RacpTypes /\ Procedure /\ [RacpNext]_racpVars => Procedure'
  <1> SUFFICES ASSUME RacpTypes, Procedure, [RacpNext]_racpVars PROVE Procedure'
    OBVIOUS
  <1> USE DEF Procedure
  <1>s. racp \in Procs /\ racp.state \in {"NO_COMM", "ACTIVE"}
    BY DEF RacpTypes, Procs
  <1>1. CASE Measure
    BY <1>1 DEF Measure, ResponseAlone, BusyIfAsked, ReportOrAbort, Busy
  <1>2. ASSUME NEW r \in Requests, racp_write(r) PROVE Procedure'
    <2>1. r # NoRequest
      BY RacpAssumption DEF NoRequest, Request
    <2>2. SUFFICES ASSUME polite, ~stale PROVE Procedure'
      BY <1>2 DEF racp_write
    <2>3. link /\ indicating = NoResponse /\ indicating' = NoResponse /\ racp' = racp
      BY <1>2, <2>2 DEF racp_write
    <2>4. CASE asked = NoRequest
      <3>1. ~Busy
        BY <2>2, <2>3, <2>4 DEF BusyIfAsked
      <3>2. asked' = r /\ work' = TRUE
        BY <1>2, <2>2, <3>1 DEF racp_write, RefusedAtOnce, Busy
      <3> QED
        BY <1>2, <2>1, <2>2, <2>3, <3>1, <3>2
           DEF racp_write, ResponseAlone, BusyIfAsked, ReportOrAbort, Busy
    <2>5. CASE asked # NoRequest
      <3>1. r.opcode = "ABORT"
        BY <1>2, <2>2, <2>5 DEF racp_write
      <3>2. asked' = r /\ work' = TRUE /\ racp_request' = r
        BY <1>2, <2>2, <3>1 DEF racp_write, RefusedAtOnce
      <3> QED
        BY <1>2, <2>1, <2>2, <2>3, <3>1, <3>2
           DEF racp_write, ResponseAlone, BusyIfAsked, ReportOrAbort, Busy
    <2> QED
      BY <2>4, <2>5
  <1>3. CASE indicate_rsp
    BY <1>3, <1>s DEF indicate_rsp, ResponseAlone, BusyIfAsked, ReportOrAbort, Busy, Procs
  <1>4. CASE RacpConnect
    BY <1>4 DEF RacpConnect, ResponseAlone, BusyIfAsked, ReportOrAbort, Busy
  <1>5. CASE RacpDisconnect
    BY <1>5 DEF RacpDisconnect
  <1>6. CASE StartSession
    BY <1>6 DEF StartSession, ResponseAlone, BusyIfAsked, ReportOrAbort, Busy
  <1>7. CASE Refuse
    <2>1. CASE response_code(racp_request) = "IN_PROGRESS"
      <3>1. racp_request.opcode # "ABORT" /\ racp.state = "ACTIVE" /\ pc = "idle"
        BY <1>7, <1>s, <2>1, CodeSplit DEF Refuse
      <3>2. ~(polite /\ ~stale /\ link)
        BY <3>1 DEF ReportOrAbort
      <3> QED
        BY <1>7, <2>1, <3>2 DEF Refuse
    <2>2. CASE response_code(racp_request) # "IN_PROGRESS"
      BY <1>7, <1>s, <2>2
         DEF Refuse, racp_send, StateReset, ResponseAlone, BusyIfAsked, ReportOrAbort, Busy, Procs
    <2> QED
      BY <2>1, <2>2
  <1>8. CASE ReportNum
    <2>1. racp.state = "NO_COMM"
      BY <1>8, CodeSplit DEF ReportNum, Accepted
    <2> QED
      BY <1>8, <2>1
         DEF ReportNum, Accepted, racp_send, ResponseAlone, BusyIfAsked, ReportOrAbort, Busy
  <1>9. CASE Delete
    <2>1. racp.state = "NO_COMM"
      BY <1>9, CodeSplit DEF Delete, Accepted
    <2> QED
      BY <1>9, <2>1
         DEF Delete, Accepted, racp_send, ResponseAlone, BusyIfAsked, ReportOrAbort, Busy
  <1>10. CASE Report
    BY <1>10 DEF Report, Accepted, ResponseAlone, BusyIfAsked, ReportOrAbort, Busy
  <1>11. CASE LoopEnds
    BY <1>11 DEF LoopEnds, ResponseAlone, BusyIfAsked, ReportOrAbort, Busy
  <1>12. CASE LoopDone
    <2>1. racp' = [racp EXCEPT !.state = "NO_COMM", !.idx = records_num] /\ racp'.state = "NO_COMM"
      BY <1>12, <1>s DEF LoopDone, Procs
    <2> QED
      BY <1>12, <2>1
         DEF LoopDone, Looping, completed, racp_send, ResponseAlone, BusyIfAsked, ReportOrAbort, Busy
  <1>13. CASE LoopSend
    <2>1. link => racp'.state = racp.state
      BY <1>13, <1>s DEF LoopSend, Procs
    <2> QED
      BY <1>13, <2>1 DEF LoopSend, Looping, ResponseAlone, BusyIfAsked, ReportOrAbort, Busy
  <1>14. CASE LoopNext
    <2>1. racp.state = "ACTIVE" => racp'.state = "ACTIVE"
      BY <1>14, <1>s DEF LoopNext, Procs
    <2> QED
      BY <1>14, <2>1
         DEF LoopNext, completed, racp_send, ResponseAlone, BusyIfAsked, ReportOrAbort, Busy
  <1>15. CASE UNCHANGED racpVars
    BY <1>15 DEF racpVars, ResponseAlone, BusyIfAsked, ReportOrAbort, Busy
  <1> QED
    BY <1>1, <1>2, <1>3, <1>4, <1>5, <1>6, <1>7, <1>8, <1>9, <1>10, <1>11, <1>12, <1>13,
       <1>14, <1>15 DEF RacpNext, RacpWork

-----------------------------------------------------------------------------
(***************************************************************************)
(* The reports.  The argument: a report that is not disturbed finds the    *)
(* database without a hole, and a measurement taken meanwhile goes behind  *)
(* the records that were reported; so what was sent is what a report of    *)
(* the entries before the index would send.                                *)
(***************************************************************************)
\* The number of entries that were looked at.
Seen == IF pc = "sent" THEN racp.idx + 1 ELSE racp.idx

\* What was sent of the first n entries, by operator.
ReportedAll(n) == Len(sent) = n /\ \A i \in 1 .. n : sent[i] = db[i].record
ReportedFirst == sent = <<>> \/ (records_num > 0 /\ sent = <<db[1].record>>)
ReportedLast == Len(sent) <= 1
ReportedFrom(n) ==
    /\ Len(sent) = Place(n)
    /\ \A i \in 1 .. n : db[i].record >= racp.operand => sent[Place(i)] = db[i].record

Reported ==
    /\ sent \in Seq(0 .. MaxRecord)
    /\ pc \in {"loop", "sent"} /\ ~disturbed =>
         /\ ~HasHole
         /\ racp.operator \notin {"FIRST", "LAST"} => Seen <= records_num
         /\ racp.operator = "ALL" => ReportedAll(Seen)
         /\ racp.operator = "FIRST" => ReportedFirst
         /\ racp.operator = "LAST" => ReportedLast
         /\ racp.operator \notin NoFilter => ReportedFrom(Seen)
         /\ pc = "sent" => sent # <<>>

\* The place of a record in a report.
LEMMA PlaceTypes ==
  ASSUME NEW n \in Nat
  PROVE  Place(n) \in Nat /\ IsFiniteSet({j \in 1 .. n : db[j].record >= racp.operand})
  <1> DEFINE S == {j \in 1 .. n : db[j].record >= racp.operand}
  <1>1. IsFiniteSet(1 .. n)
    BY FS_Interval
  <1>2. S \subseteq 1 .. n
    OBVIOUS
  <1> HIDE DEF S
  <1>3. IsFiniteSet(S)
    BY <1>1, <1>2, FS_Subset
  <1>4. Cardinality(S) \in Nat
    BY <1>3, FS_CardinalityType
  <1> QED
    BY <1>3, <1>4 DEF Place, S

LEMMA PlaceNext ==
  ASSUME NEW n \in Nat
  PROVE  Place(n + 1) = IF db[n + 1].record >= racp.operand THEN Place(n) + 1 ELSE Place(n)
  <1> DEFINE S(k) == {j \in 1 .. k : db[j].record >= racp.operand}
  <1>1. CASE db[n + 1].record >= racp.operand
    <2>1. S(n + 1) = S(n) \cup {n + 1} /\ n + 1 \notin S(n)
      BY <1>1
    <2>2. IsFiniteSet(S(n))
      BY PlaceTypes
    <2> HIDE DEF S
    <2>3. Cardinality(S(n + 1)) = Cardinality(S(n)) + 1
      BY <2>1, <2>2, FS_AddElement
    <2> QED
      BY <1>1, <2>3 DEF Place, S
  <1>2. CASE ~(db[n + 1].record >= racp.operand)
    <2>1. S(n + 1) = S(n)
      BY <1>2
    <2> QED
      BY <1>2, <2>1 DEF Place
  <1> QED
    BY <1>1, <1>2

LEMMA PlaceGrows ==
  ASSUME NEW m \in Nat, NEW n \in Nat, m <= n
  PROVE  /\ Place(m) <= Place(n)
         /\ (\A j \in m + 1 .. n : ~(db[j].record >= racp.operand)) => Place(m) = Place(n)
  <1> DEFINE S(k) == {j \in 1 .. k : db[j].record >= racp.operand}
  <1>1. S(m) \subseteq S(n)
    OBVIOUS
  <1>2. IsFiniteSet(S(n))
    BY PlaceTypes
  <1>3. (\A j \in m + 1 .. n : ~(db[j].record >= racp.operand)) => S(m) = S(n)
    OBVIOUS
  <1>4. Place(m) = Cardinality(S(m)) /\ Place(n) = Cardinality(S(n))
    BY DEF Place
  <1> HIDE DEF S
  <1>5. Cardinality(S(m)) <= Cardinality(S(n))
    BY <1>1, <1>2, FS_Subset
  <1> QED
    BY <1>3, <1>4, <1>5

\* Without a hole the records are in the first entries.
LEMMA NoHole ==
  ASSUME db \in Database, ~HasHole
  PROVE  InUse = 1 .. Cardinality(InUse)
  <1>d. DB_MAX_RECORDS \in Nat /\ Entries = 1 .. DB_MAX_RECORDS
    BY RacpAssumption DEF Entries
  <1>i. InUse = {i \in Entries : db[i].is_in_use}
    BY DEF InUse
  <1>1. \E k \in 0 .. DB_MAX_RECORDS : InUse = 1 .. k
    <2>1. CASE InUse = Entries
      BY <1>d, <2>1
    <2>2. CASE InUse # Entries
      <3> DEFINE F == Entries \ InUse
                 m == LowestOf(F)
      <3>1. F \in SUBSET Nat /\ F # {}
        BY <1>d, <1>i, <2>2
      <3>2. m \in F /\ \A j \in F : m <= j
        BY <3>1, LowestInSet
      <3> HIDE DEF m
      <3>3. \A j \in Entries : j < m => j \in InUse
        BY <1>d, <3>2
      <3>4. \A j \in Entries : j > m => j \notin InUse
        BY <1>d, <1>i, <3>2 DEF HasHole
      <3>5. m \in Entries /\ m \notin InUse
        BY <3>2
      <3>6. \A j \in Nat : j \in InUse <=> j \in 1 .. m - 1
        BY <1>d, <1>i, <3>3, <3>4, <3>5
      <3>7. InUse \subseteq Nat /\ m - 1 \in 0 .. DB_MAX_RECORDS
        BY <1>d, <1>i, <3>5
      <3>8. InUse = 1 .. m - 1
        <4>1. 1 .. m - 1 \subseteq Nat
          BY <3>7
        <4> QED
          BY Zenon, <3>6, <3>7, <4>1
      <3> QED
        BY <3>7, <3>8
    <2> QED
      BY <2>1, <2>2
  <1>2. PICK k \in 0 .. DB_MAX_RECORDS : InUse = 1 .. k
    BY <1>1
  <1>3. k \in Nat
    BY <1>d
  <1>4. Cardinality(1 .. k) = k
    <2>1. CASE k = 0
      BY <2>1, FS_EmptySet
    <2>2. CASE k # 0
      BY <1>3, <2>2, FS_Interval
    <2> QED
      BY <2>1, <2>2
  <1> QED
    BY <1>2, <1>4

\* The steps of a report.
LEMMA ReportBegun ==
  ASSUME RacpTypes, Report
  PROVE  Reported'
  <1>1. sent' = <<>> /\ pc' = "loop" /\ racp'.idx = 0 /\ disturbed' = HasHole /\ db' = db
        /\ records_num' = records_num
    BY DEF Report
  <1>2. HasHole' = HasHole
    BY <1>1 DEF HasHole, Entries
  <1>3. Seen' = 0 /\ records_num' \in Nat
    BY <1>1, InUseFinite, RacpAssumption DEF Seen, RacpTypes
  <1>4. Place(0)' = 0
    <2>1. {j \in 1 .. 0 : db'[j].record >= racp'.operand} = {}
      OBVIOUS
    <2> QED
      BY <2>1, FS_EmptySet DEF Place
  <1>5. ReportedAll(0)' /\ ReportedFirst' /\ ReportedLast'
    BY <1>1 DEF ReportedAll, ReportedFirst, ReportedLast
  <1>6. ReportedFrom(0)'
    BY <1>1, <1>4 DEF ReportedFrom
  <1>7. ReportedAll(Seen)' /\ ReportedFrom(Seen)' /\ (Seen <= records_num)'
    BY <1>3, <1>5, <1>6 DEF ReportedAll, ReportedFrom
  <1> QED
    BY <1>1, <1>2, <1>5, <1>7 DEF Reported

\* A measurement goes to the entry behind the last record.
LEMMA MeasuredBehind ==
  ASSUME RacpTypes, Measure, ~HasHole
  PROVE  /\ records_num \in Nat /\ records_num' = records_num + 1
         /\ ~HasHole'
         /\ \A i \in 1 .. records_num : db'[i] = db[i]
  <1>d. DB_MAX_RECORDS \in Nat /\ Entries = 1 .. DB_MAX_RECORDS /\ Entries' = Entries
    BY RacpAssumption DEF Entries
  <1>1. InUse = 1 .. records_num /\ records_num \in 0 .. DB_MAX_RECORDS
    BY NoHole, InUseFinite DEF RacpTypes
  <1>2. records_num < DB_MAX_RECORDS /\ records_num \in Nat
    BY <1>1, <1>d DEF Measure
  <1>3. InUse # Entries
    BY <1>1, <1>2, <1>d
  <1> DEFINE F == Entries \ InUse
             m == LowestOf(F)
  <1>4. F \in SUBSET Nat /\ F # {} /\ records_num + 1 \in F
    <2>1. F \subseteq Nat
      BY <1>d
    <2>2. records_num + 1 \in Entries /\ records_num + 1 \notin InUse
      BY <1>1, <1>2, <1>d
    <2> QED
      BY <2>1, <2>2
  <1>5. m \in F /\ \A j \in F : m <= j
    BY <1>4, LowestInSet
  <1>6. db' = [db EXCEPT ![m] = [is_in_use |-> TRUE, record |-> taken + 1]]
        /\ records_num' = records_num + 1
    BY <1>3 DEF Measure
  <1> HIDE DEF m
  <1>7. m = records_num + 1
    BY <1>1, <1>2, <1>4, <1>5, <1>d
  <1>8. db \in Database /\ \A i \in Entries : db[i].is_in_use <=> i \in 1 .. records_num
    BY <1>1 DEF RacpTypes, InUse
  <1>9. \A i \in Entries : i # m => db'[i] = db[i]
    BY <1>6, <1>8 DEF Database
  <1>10. db'[m].is_in_use /\ m \in Entries
    BY <1>2, <1>6, <1>7, <1>8, <1>d DEF Database
  <1>11. \A i \in Entries : db'[i].is_in_use <=> i \in 1 .. records_num + 1
    BY <1>2, <1>7, <1>8, <1>9, <1>10, <1>d
  <1>12. ~HasHole'
    BY <1>2, <1>11, <1>d DEF HasHole
  <1>13. \A i \in 1 .. records_num : db'[i] = db[i]
    BY <1>2, <1>7, <1>9, <1>d
  <1> QED
    BY <1>2, <1>6, <1>12, <1>13

LEMMA ReportedFromKept ==
  ASSUME NEW n \in Nat, sent' = sent, racp' = racp, \A i \in 1 .. n : db'[i] = db[i],
         ReportedFrom(n)
  PROVE  ReportedFrom(n)'
  <1>1. ASSUME NEW k \in 0 .. n PROVE Place(k)' = Place(k)
    <2>1. {j \in 1 .. k : db'[j].record >= racp'.operand} = {j \in 1 .. k : db[j].record >= racp.operand}
      OBVIOUS
    <2> QED
      BY <2>1 DEF Place
  <1> QED
    BY <1>1 DEF ReportedFrom

LEMMA ReportMeasured ==
  ASSUME RacpTypes, Reported, Measure
  PROVE  Reported'
  <1>1. UNCHANGED <<racp, pc, sent, disturbed>>
    BY DEF Measure
  <1>2. sent' \in Seq(0 .. MaxRecord)
    BY <1>1 DEF Reported
  <1>3. CASE ~(pc \in {"loop", "sent"} /\ ~disturbed)
    BY <1>1, <1>2, <1>3 DEF Reported
  <1>4. CASE pc \in {"loop", "sent"} /\ ~disturbed
    <2>1. /\ ~HasHole
          /\ racp.operator \notin {"FIRST", "LAST"} => Seen <= records_num
          /\ racp.operator = "ALL" => ReportedAll(Seen)
          /\ racp.operator = "FIRST" => ReportedFirst
          /\ racp.operator = "LAST" => ReportedLast
          /\ racp.operator \notin NoFilter => ReportedFrom(Seen)
          /\ pc = "sent" => sent # <<>>
      BY <1>4 DEF Reported
    <2>2. /\ records_num \in Nat /\ records_num' = records_num + 1
          /\ ~HasHole' /\ \A i \in 1 .. records_num : db'[i] = db[i]
      BY <2>1, MeasuredBehind
    <2>3. Seen' = Seen /\ Seen \in Nat
      BY <1>1 DEF Seen, RacpTypes, Procs
    <2>4. racp.operator = "ALL" => ReportedAll(Seen)'
      BY <1>1, <2>1, <2>2, <2>3 DEF ReportedAll
    <2>5. racp.operator = "FIRST" => ReportedFirst'
      BY <1>1, <2>1, <2>2 DEF ReportedFirst
    <2>6. racp.operator = "LAST" => ReportedLast'
      BY <1>1, <2>1 DEF ReportedLast
    <2>7. racp.operator \notin NoFilter => ReportedFrom(Seen)'
      <3>1. SUFFICES ASSUME racp.operator \notin NoFilter PROVE ReportedFrom(Seen)'
        OBVIOUS
      <3>2. ReportedFrom(Seen) /\ \A i \in 1 .. Seen : db'[i] = db[i]
        BY <2>1, <2>2, <2>3, <3>1 DEF NoFilter
      <3> HIDE DEF Seen
      <3>3. \A n \in Nat : (\A i \in 1 .. n : db'[i] = db[i]) /\ ReportedFrom(n) => ReportedFrom(n)'
        BY <1>1, ReportedFromKept
      <3> QED
        BY <2>3, <3>2, <3>3 DEF ReportedFrom
    <2>8. racp.operator \notin {"FIRST", "LAST"} => Seen' <= records_num'
      BY <2>1, <2>2, <2>3
    <2> QED
      BY <1>1, <1>2, <2>1, <2>2, <2>4, <2>5, <2>6, <2>7, <2>8 DEF Reported
  <1> QED
    BY <1>3, <1>4

\* The next record that matches follows the records that were sent.
LEMMA ReportedNext ==
  ASSUME NEW n \in Nat, NEW m \in Nat, n <= m, sent \in Seq(0 .. MaxRecord), ReportedFrom(n),
         \A j \in n + 1 .. m : ~(db[j].record >= racp.operand),
         db[m + 1].record >= racp.operand, db[m + 1].record \in 0 .. MaxRecord,
         db' = db, racp'.operand = racp.operand, sent' = Append(sent, db[m + 1].record)
  PROVE  ReportedFrom(m + 1)'
  <1>1. \A k \in Nat : Place(k)' = Place(k)
    BY DEF Place
  <1>2. Place(n) \in Nat /\ Place(m) = Place(n) /\ Place(m + 1) = Place(n) + 1
    BY PlaceTypes, PlaceGrows, PlaceNext
  <1>3. Len(sent) = Place(n)
    BY DEF ReportedFrom
  <1>4. Len(sent') = Place(m + 1)
    BY <1>2, <1>3
  <1>5. ASSUME NEW i \in 1 .. m + 1, db[i].record >= racp.operand
        PROVE  sent'[Place(i)] = db[i].record
    <2>1. CASE i = m + 1
      BY <1>2, <1>3, <2>1
    <2>2. CASE i # m + 1
      <3>1. i \in 1 .. n /\ i - 1 \in Nat /\ i \in Nat /\ i <= n
        BY <1>5, <2>2
      <3>2. sent[Place(i)] = db[i].record
        BY <1>5, <3>1 DEF ReportedFrom
      <3>3. Place(i - 1) \in Nat /\ Place(i) \in Nat /\ Place(i) <= Place(n)
        BY <3>1, PlaceTypes, PlaceGrows
      <3>4. Place(i) = Place(i - 1) + 1
        <4>1. (i - 1) + 1 = i
          BY <3>1
        <4>2. Place((i - 1) + 1) = Place(i - 1) + 1
          BY <1>5, <3>1, <4>1, PlaceNext
        <4> QED
          BY <4>1, <4>2
      <3>5. Place(i) \in 1 .. Len(sent)
        BY <1>2, <1>3, <3>3, <3>4
      <3>6. sent'[Place(i)] = sent[Place(i)]
        BY <3>5
      <3> QED
        BY <3>2, <3>6
    <2> QED
      BY <2>1, <2>2
  <1>6. m + 1 \in Nat /\ \A i \in 1 .. m + 1 : i \in Nat
    OBVIOUS
  <1> QED
    BY <1>1, <1>4, <1>5, <1>6 DEF ReportedFrom

\* The index the report goes on with: the next record that matches, or the end.
LEMMA ScanFinds ==
  ASSUME NEW from \in Nat, records_num \in Nat, from <= records_num
  PROVE  /\ Scan(from) \in from .. records_num
         /\ \A j \in from + 1 .. Scan(from) : ~(db[j].record >= racp.operand)
         /\ Scan(from) # records_num => db[Scan(from) + 1].record >= racp.operand
  <1> DEFINE hits == {i \in from .. records_num - 1 : db_record_get(i + 1) >= racp.operand}
  <1>1. hits \in SUBSET Nat
    OBVIOUS
  <1>2. Scan(from) = IF hits = {} THEN records_num ELSE LowestOf(hits)
    BY DEF Scan
  <1>3. \A i \in from .. records_num - 1 : i \in hits <=> db[i + 1].record >= racp.operand
    BY DEF db_record_get
  <1>4. \A i \in hits : i \in from .. records_num - 1
    OBVIOUS
  <1> HIDE DEF hits
  <1>5. \A j \in from + 1 .. records_num : j - 1 \in from .. records_num - 1 /\ (j - 1) + 1 = j
    OBVIOUS
  <1>6. CASE hits = {}
    <2>1. \A j \in from + 1 .. records_num : ~(db[j].record >= racp.operand)
      BY <1>3, <1>5, <1>6
    <2> QED
      BY <1>2, <1>6, <2>1
  <1>7. CASE hits # {}
    <2> DEFINE m == LowestOf(hits)
    <2>1. m \in hits /\ \A i \in hits : m <= i
      BY <1>1, <1>7, LowestInSet
    <2> HIDE DEF m
    <2>2. m \in from .. records_num - 1 /\ db[m + 1].record >= racp.operand
      BY <1>3, <1>4, <2>1
    <2>3. ASSUME NEW j \in from + 1 .. m PROVE ~(db[j].record >= racp.operand)
      <3>1. j \in from + 1 .. records_num /\ j - 1 < m /\ j - 1 \in Nat
        BY <2>2
      <3>2. j - 1 \notin hits
        BY <2>1, <2>2, <3>1
      <3> QED
        BY <1>3, <1>5, <3>1, <3>2
    <2>4. Scan(from) = m
      BY <1>2, <1>7 DEF m
    <2> QED
      BY <2>2, <2>3, <2>4
  <1> QED
    BY <1>6, <1>7

LEMMA ReportSends ==
  ASSUME RacpTypes, Reported, LoopSend
  PROVE  Reported'
  <1>r. records_num \in Nat /\ records_num <= DB_MAX_RECORDS /\ records_num <= 255
    BY InUseFinite, RacpAssumption DEF RacpTypes
  <1>n. NextIdx \in 0 .. records_num
    BY <1>r, InUseFinite, NextIdxBounded DEF RacpTypes
  <1>1. CASE ~link
    BY <1>1 DEF LoopSend, Forget, Reported
  <1>2. CASE link
    <2>0. PICK i \in 0 .. records_num : i = NextIdx
      BY <1>n
    <2>1. /\ sent' = Append(sent, db[i + 1].record) /\ racp' = [racp EXCEPT !.idx = i]
          /\ pc = "loop" /\ pc' = "sent" /\ UNCHANGED <<db, records_num, disturbed>> /\ i # records_num
      BY <1>2, <2>0 DEF LoopSend, Looping, db_record_get
    <2>2. i \in Nat /\ i < records_num /\ i + 1 \in 1 .. records_num /\ i + 1 \in Entries
      <3>a. i # records_num
        BY <2>1
      <3>b. DB_MAX_RECORDS \in Nat
        BY RacpAssumption
      <3>1. i \in Nat /\ i < records_num /\ DB_MAX_RECORDS \in Nat
        BY <1>r, <3>a, <3>b
      <3> QED
        BY <1>r, <3>1 DEF Entries
    <2>3. db[i + 1].record \in 0 .. MaxRecord /\ sent \in Seq(0 .. MaxRecord)
      BY <2>2 DEF RacpTypes, Database, Reported
    <2>4. sent' \in Seq(0 .. MaxRecord) /\ sent' # <<>> /\ Len(sent') = Len(sent) + 1
          /\ sent'[Len(sent) + 1] = db[i + 1].record
          /\ \A j \in 1 .. Len(sent) : sent'[j] = sent[j]
      BY <2>1, <2>3
    <2>5. racp'.operator = racp.operator /\ racp'.operand = racp.operand /\ racp'.idx = i
      BY <2>1 DEF RacpTypes, Procs
    <2>6. Seen' = i + 1 /\ Seen = racp.idx /\ racp.idx \in Nat
      <3>1. racp.idx \in Nat
        BY DEF RacpTypes, Procs
      <3>2. Seen = racp.idx
        BY <2>1 DEF Seen
      <3>3. Seen' = racp'.idx + 1
        BY <2>1 DEF Seen
      <3> QED
        BY <2>5, <3>1, <3>2, <3>3
    <2>7. CASE disturbed
      BY <2>1, <2>4, <2>7 DEF Reported
    <2>8. CASE ~disturbed
      <3>1. /\ ~HasHole
            /\ racp.operator \notin {"FIRST", "LAST"} => racp.idx <= records_num
            /\ racp.operator = "ALL" => ReportedAll(racp.idx)
            /\ racp.operator = "FIRST" => ReportedFirst
            /\ racp.operator = "LAST" => ReportedLast
            /\ racp.operator \notin NoFilter => ReportedFrom(racp.idx)
        BY <2>1, <2>6, <2>8 DEF Reported
      <3>2. ~HasHole'
        BY <2>1, <3>1 DEF HasHole, Entries
      <3>3. Seen' <= records_num'
        BY <1>r, <2>1, <2>2, <2>6
      <3>4. racp.operator = "ALL" => ReportedAll(i + 1)'
        <4>1. SUFFICES ASSUME racp.operator = "ALL" PROVE ReportedAll(i + 1)'
          OBVIOUS
        <4>2. i = racp.idx
          BY <1>r, <2>0, <2>1, <2>2, <2>6, <4>1 DEF NextIdx
        <4>3. Len(sent) = i /\ \A j \in 1 .. i : sent[j] = db[j].record
          BY <3>1, <4>1, <4>2 DEF ReportedAll
        <4>4. Len(sent') = i + 1
          BY <2>4, <4>3
        <4>5. \A j \in 1 .. i + 1 : sent'[j] = db[j].record
          BY <2>2, <2>4, <4>3
        <4> QED
          BY <2>1, <4>4, <4>5 DEF ReportedAll
      <3>5. racp.operator = "FIRST" => ReportedFirst'
        <4>1. SUFFICES ASSUME racp.operator = "FIRST" PROVE ReportedFirst'
          OBVIOUS
        <4>2. NextIdx = IF sent # <<>> THEN records_num ELSE 0
          BY <4>1 DEF NextIdx
        <4>3. sent = <<>> /\ i = 0
          BY <2>0, <2>1, <4>2
        <4> QED
          BY <1>r, <2>1, <2>2, <4>3 DEF ReportedFirst
      <3>6. racp.operator = "LAST" => ReportedLast'
        <4>1. SUFFICES ASSUME racp.operator = "LAST" PROVE ReportedLast'
          OBVIOUS
        <4>2. NextIdx = IF sent # <<>> \/ records_num = 0 THEN records_num ELSE records_num - 1
          BY <4>1 DEF NextIdx
        <4>3. sent = <<>>
          BY <2>0, <2>1, <4>2
        <4> QED
          BY <2>4, <4>3 DEF ReportedLast
      <3>7. racp.operator \notin NoFilter => ReportedFrom(i + 1)'
        <4>1. SUFFICES ASSUME racp.operator \notin NoFilter PROVE ReportedFrom(i + 1)'
          OBVIOUS
        <4>2. racp.idx <= records_num /\ ReportedFrom(racp.idx)
          BY <3>1, <4>1 DEF NoFilter
        <4>3. NextIdx = Scan(IF racp.idx > records_num THEN 0 ELSE racp.idx)
          BY <4>1 DEF NextIdx, NoFilter
        <4>4. ~(racp.idx > records_num)
          BY <1>r, <2>6, <4>2
        <4>5. i = Scan(racp.idx)
          BY <2>0, <4>3, <4>4
        <4>6. /\ i \in racp.idx .. records_num
              /\ \A j \in racp.idx + 1 .. i : ~(db[j].record >= racp.operand)
              /\ db[i + 1].record >= racp.operand
          BY <1>r, <2>1, <2>6, <4>2, <4>5, ScanFinds
        <4>7. racp.idx <= i
          BY <4>6, <2>6, <2>2
        <4> QED
          BY <2>1, <2>2, <2>3, <2>5, <2>6, <4>2, <4>6, <4>7, ReportedNext
      <3>8. ReportedAll(Seen)' <=> ReportedAll(i + 1)'
        BY <2>6 DEF ReportedAll
      <3>9. ReportedFrom(Seen)' <=> ReportedFrom(i + 1)'
        BY <2>6 DEF ReportedFrom
      <3> QED
        BY <2>4, <2>5, <3>2, <3>3, <3>4, <3>5, <3>6, <3>7, <3>8, <3>9 DEF Reported
    <2> QED
      BY <2>7, <2>8
  <1> QED
    BY <1>1, <1>2 DEF RacpTypes

LEMMA ReportGoesOn ==
  ASSUME RacpTypes, Reported, LoopNext
  PROVE  Reported'
  <1>1. CASE racp.state # "ACTIVE"
    BY <1>1 DEF LoopNext, Forget, Reported
  <1>2. CASE racp.state = "ACTIVE"
    <2>1. /\ racp' = [racp EXCEPT !.idx = (@ + 1) % 256] /\ pc = "sent" /\ pc' = "loop"
          /\ UNCHANGED <<db, records_num, sent, disturbed>>
      BY <1>2 DEF LoopNext
    <2>2. /\ racp'.operator = racp.operator /\ racp'.operand = racp.operand
          /\ racp'.idx = (racp.idx + 1) % 256 /\ racp.idx \in 0 .. 255
      BY <2>1 DEF RacpTypes, Procs
    <2>3. CASE disturbed
      BY <2>1, <2>3 DEF Reported
    <2>4. CASE ~disturbed
      <3>1. /\ ~HasHole
            /\ racp.operator \notin {"FIRST", "LAST"} => Seen <= records_num
            /\ racp.operator = "ALL" => ReportedAll(Seen)
            /\ racp.operator = "FIRST" => ReportedFirst
            /\ racp.operator = "LAST" => ReportedLast
            /\ racp.operator \notin NoFilter => ReportedFrom(Seen)
        BY <2>1, <2>4 DEF Reported
      <3>2. ~HasHole' /\ ReportedFirst' = ReportedFirst /\ ReportedLast' = ReportedLast
        BY <2>1, <3>1 DEF HasHole, Entries, ReportedFirst, ReportedLast
      <3>3. racp.operator \notin {"FIRST", "LAST"} => Seen' = Seen
        <4>1. SUFFICES ASSUME racp.operator \notin {"FIRST", "LAST"} PROVE Seen' = Seen
          OBVIOUS
        <4>2. Seen = racp.idx + 1 /\ Seen' = (racp.idx + 1) % 256
          BY <2>1, <2>2 DEF Seen
        <4>3. records_num \in Nat /\ records_num <= 255 /\ Seen <= records_num
          BY <3>1, <4>1, InUseFinite, RacpAssumption DEF RacpTypes
        <4> QED
          BY <2>2, <4>2, <4>3
      <3>4. Seen' = Seen => ReportedAll(Seen)' = ReportedAll(Seen)
        BY <2>1 DEF ReportedAll
      <3>5. Seen' = Seen => ReportedFrom(Seen)' = ReportedFrom(Seen)
        BY <2>1, <2>2 DEF ReportedFrom, Place
      <3> QED
        BY <2>1, <2>2, <3>1, <3>2, <3>3, <3>4, <3>5 DEF Reported, NoFilter
    <2> QED
      BY <2>3, <2>4
  <1> QED
    BY <1>1, <1>2

LEMMA ReportedStep == RacpTypes /\ Reported /\ [RacpNext]_racpVars => Reported'
  <1> SUFFICES ASSUME RacpTypes, Reported, [RacpNext]_racpVars PROVE Reported'
    OBVIOUS
  <1>0. pc' \notin {"loop", "sent"} \/ disturbed' => (sent' \in Seq(0 .. MaxRecord) => Reported')
    BY DEF Reported
  <1>s. sent \in Seq(0 .. MaxRecord) /\ <<>> \in Seq(0 .. MaxRecord)
    BY DEF Reported
  <1>k. UNCHANGED <<db, records_num, racp, pc, sent, disturbed>> => Reported'
    BY DEF Reported, Seen, HasHole, Entries, ReportedAll, ReportedFirst, ReportedLast, ReportedFrom, Place
  <1>1. CASE Measure
    BY <1>1, ReportMeasured
  <1>2. ASSUME NEW r \in Requests, racp_write(r) PROVE Reported'
    BY <1>0, <1>2, <1>s DEF racp_write, RxRuns
  <1>3. CASE indicate_rsp
    BY <1>0, <1>3, <1>s DEF indicate_rsp, RxRuns
  <1>4. CASE RacpConnect
    BY <1>4, <1>k DEF RacpConnect
  <1>5. CASE RacpDisconnect
    BY <1>0, <1>5, <1>s DEF RacpDisconnect, RxRuns
  <1>6. CASE StartSession
    BY <1>0, <1>6, <1>s DEF StartSession, RxRuns
  <1>7. CASE Refuse
    BY <1>0, <1>7, <1>s DEF Refuse
  <1>8. CASE ReportNum
    BY <1>0, <1>8, <1>s DEF ReportNum, Accepted
  <1>9. CASE Delete
    BY <1>0, <1>9, <1>s DEF Delete, Accepted
  <1>10. CASE Report
    BY <1>10, ReportBegun
  <1>11. CASE LoopEnds
    BY <1>0, <1>11, <1>s DEF LoopEnds, Forget
  <1>12. CASE LoopDone
    BY <1>0, <1>12, <1>s DEF LoopDone, Forget
  <1>13. CASE LoopSend
    BY <1>13, ReportSends
  <1>14. CASE LoopNext
    BY <1>14, ReportGoesOn
  <1>15. CASE UNCHANGED racpVars
    BY <1>15, <1>k DEF racpVars
  <1> QED
    BY <1>1, <1>2, <1>3, <1>4, <1>5, <1>6, <1>7, <1>8, <1>9, <1>10, <1>11, <1>12, <1>13,
       <1>14, <1>15 DEF RacpNext, RacpWork

\* When the index is at the end, everything was sent.
LEMMA ReportEnds ==
  ASSUME RacpTypes, Reported, LoopDone, ~disturbed
  PROVE  AllReported
  <1>r. records_num \in Nat
    BY InUseFinite, RacpAssumption DEF RacpTypes
  <1>1. pc = "loop" /\ NextIdx = records_num /\ racp.idx \in Nat /\ Seen = racp.idx
    BY DEF LoopDone, Looping, Seen, RacpTypes, Procs
  <1>2. /\ racp.operator \notin {"FIRST", "LAST"} => racp.idx <= records_num
        /\ racp.operator = "ALL" => ReportedAll(racp.idx)
        /\ racp.operator = "FIRST" => ReportedFirst
        /\ racp.operator = "LAST" => ReportedLast
        /\ racp.operator \notin NoFilter => ReportedFrom(racp.idx)
        /\ sent \in Seq(0 .. MaxRecord)
    BY <1>1 DEF Reported
  <1>3. CASE racp.operator = "ALL"
    <2>1. racp.idx = records_num
      BY <1>1, <1>2, <1>3, <1>r DEF NextIdx
    <2>2. Len(sent) = records_num /\ \A i \in 1 .. records_num : sent[i] = db[i].record
      BY <1>2, <1>3, <2>1 DEF ReportedAll
    <2>3. sent = [i \in 1 .. records_num |-> db[i].record]
      BY <1>2, <2>2
    <2> QED
      BY <1>3, <2>3 DEF AllReported, StoredRecords
  <1>4. CASE racp.operator = "FIRST"
    <2>1. sent # <<>> \/ records_num = 0
      BY <1>1, <1>4 DEF NextIdx
    <2>2. sent = <<>> \/ (records_num > 0 /\ sent = <<db[1].record>>)
      BY <1>2, <1>4 DEF ReportedFirst
    <2>3. records_num > 0 => Head(StoredRecords) = db[1].record
      BY <1>r DEF StoredRecords
    <2>4. sent = IF records_num = 0 THEN <<>> ELSE <<Head(StoredRecords)>>
      BY <1>r, <2>1, <2>2, <2>3
    <2> QED
      BY <1>4, <2>4 DEF AllReported
  <1>5. CASE racp.operator = "LAST"
    <2>1. sent # <<>> \/ records_num = 0
      BY <1>1, <1>5, <1>r DEF NextIdx
    <2>2. Len(sent) = 1 \/ records_num = 0
      <3>1. Len(sent) <= 1 /\ Len(sent) \in Nat
        BY <1>2, <1>5 DEF ReportedLast
      <3>2. sent # <<>> => Len(sent) # 0
        BY <1>2
      <3>3. \A l \in Nat : l <= 1 => l = 0 \/ l = 1
        OBVIOUS
      <3> QED
        BY <2>1, <3>1, <3>2, <3>3
    <2> QED
      BY <1>5, <2>2 DEF AllReported
  <1>6. CASE racp.operator \notin NoFilter
    <2>1. racp.idx <= records_num /\ ReportedFrom(racp.idx)
      BY <1>2, <1>6 DEF NoFilter
    <2>2. NextIdx = Scan(IF racp.idx > records_num THEN 0 ELSE racp.idx)
      BY <1>6 DEF NextIdx, NoFilter
    <2>3. Scan(racp.idx) = records_num
      BY <1>1, <1>r, <2>1, <2>2
    <2>4. \A j \in racp.idx + 1 .. records_num : ~(db[j].record >= racp.operand)
      BY <1>1, <1>r, <2>1, <2>3, ScanFinds
    <2>5. Place(records_num) = Place(racp.idx)
      BY <1>1, <1>r, <2>1, <2>4, PlaceGrows
    <2>6. ASSUME NEW i \in 1 .. records_num, db[i].record >= racp.operand
          PROVE  sent[Place(i)] = db[i].record
      <3>1. i \in 1 .. racp.idx
        BY <1>1, <1>r, <2>4, <2>6
      <3> QED
        BY <2>1, <2>6, <3>1 DEF ReportedFrom
    <2>7. Len(sent) = Place(records_num)
      BY <2>1, <2>5 DEF ReportedFrom
    <2> QED
      BY <1>6, <2>6, <2>7 DEF AllReported, NoFilter
  <1> QED
    BY <1>3, <1>4, <1>5, <1>6 DEF NoFilter

-----------------------------------------------------------------------------
LEMMA RacpInvariant == RacpSpec => [](RacpTypes /\ Procedure /\ Reported)
  <1>1. RacpInit => Reported
    BY DEF RacpInit, Reported
  <1>2. RacpInit => RacpTypes /\ Procedure
    BY RacpTypesInit, ProcedureInit
  <1>3. (RacpTypes /\ Procedure /\ Reported) /\ [RacpNext]_racpVars => (RacpTypes /\ Procedure /\ Reported)'
    BY RacpTypesStep, ProcedureStep, ReportedStep
  <1> QED
    BY <1>1, <1>2, <1>3, PTL DEF RacpSpec

\* The types; and records_num, which db_record_add, the deletions, a new session
\* and the interrupt of the timer count, is the number of entries in use.
THEOREM RacpCounts == RacpSpec => []RacpTypeOK
  <1>1. RacpTypes => RacpTypeOK
    BY DEF RacpTypes, RacpTypeOK, Database, Procs
  <1> QED
    BY <1>1, RacpInvariant, PTL

\* racp_report_records_procedure: for a client that waits for each response, a
\* response goes out only when its procedure has ended.
THEOREM RacpResponseEnds == RacpSpec => []ResponseEndsProcedure
  <1>1. Procedure => ResponseEndsProcedure
    BY DEF Procedure, ResponseAlone, Busy, ResponseEndsProcedure
  <1> QED
    BY <1>1, RacpInvariant, PTL

\* racp_write, is_request_to_be_executed: for such a client an accepted request
\* stays with the work queue until it is answered.
THEOREM RacpNotForgotten == RacpSpec => []NotForgotten
  <1>1. RacpTypes /\ Procedure => NotForgotten
    BY DEF RacpTypes, Procs, Procedure, BusyIfAsked, ReportOrAbort, Busy, NotForgotten
  <1> QED
    BY <1>1, RacpInvariant, PTL

\* racp_report_records_procedure: whatever was measured meanwhile, a report that
\* was not disturbed and ends with its response has notified every record that
\* matches, once and in order.
THEOREM RacpReportComplete == RacpSpec => ReportComplete
  <1>1. (RacpTypes /\ Procedure /\ Reported) /\ [RacpNext]_racpVars
          => [LoopDone /\ ~disturbed => AllReported]_racpVars
    BY ReportEnds
  <1> QED
    BY <1>1, RacpInvariant, PTL DEF RacpSpec, ReportComplete
=============================================================================
