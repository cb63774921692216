-------------------------- MODULE BleCentral_proofs --------------------------
(***************************************************************************)
(* Proofs about BleCentral for any set of storages: its types, and that    *)
(* what it remembers of a link never outlives the link, in whatever order  *)
(* callbacks and calls come.                                               *)
(***************************************************************************)
EXTENDS BleCentral, TLAPS

\* Neither half is inductive alone: closing stays within Links only because
\* ble_gap_terminate is called on a handle that names a link.
BleInv == BleTypeOK /\ KnownLinkIsUp /\ NothingLeftOver

LEMMA BleInitInv == BleInit => BleInv
  BY BleAssumption
     DEF BleInit, BleInv, BleTypeOK, KnownLinkIsUp, NothingLeftOver, Links, Procs

LEMMA PlumbingKeepsInv ==
  ASSUME BleInv, HostSync \/ HostReset
  PROVE  BleInv'
<1> USE DEF BleInv, BleTypeOK, KnownLinkIsUp, NothingLeftOver, Links, Procs, States,
            handles, stack
<1>1. CASE HostSync
  BY <1>1 DEF HostSync
<1>2. CASE HostReset
  BY <1>2 DEF HostReset
<1> QED BY <1>1, <1>2

LEMMA GapEventKeepsInv ==
  ASSUME BleInv, DiscComplete \/ ConnectFailed \/ Connected \/ \E s \in Storages : LinkLost(s)
  PROVE  BleInv'
<1> USE BleAssumption DEF BleInv, BleTypeOK, KnownLinkIsUp, NothingLeftOver, Links,
                          Procs, States, handles
<1>1. CASE DiscComplete
  BY <1>1 DEF DiscComplete
<1>2. CASE ConnectFailed
  BY <1>2 DEF ConnectFailed
<1>3. CASE Connected
  BY <1>3 DEF Connected
<1>4. ASSUME NEW s \in Storages, LinkLost(s)
      PROVE  BleInv'
  BY <1>4 DEF LinkLost
<1> QED BY <1>1, <1>2, <1>3, <1>4

LEMMA DiscoveryKeepsInv ==
  ASSUME BleInv, NEW s \in Storages, Discovery(s)
  PROVE  BleInv'
<1> USE DEF BleInv, BleTypeOK, KnownLinkIsUp, NothingLeftOver, Links,
            Procs, States, handles, stack, api
<1>1. CASE ServiceFound(s)
  BY <1>1 DEF ServiceFound, Proceed
<1>2. CASE ServiceMissing(s)
  BY <1>2 DEF ServiceMissing, Proceed, GiveUp
<1>3. CASE CharacteristicFound(s)
  <2>1. proc[s] = "chr" /\ proc' = [proc EXCEPT ![s] = "chr"]
    BY <1>3 DEF CharacteristicFound, Proceed
  <2>2. /\ tx' \in BOOLEAN /\ rx' \in BOOLEAN /\ said' = <<>>
        /\ UNCHANGED <<api, connHandle, cccd, subscribed, name, gap, closing>>
    BY <1>3 DEF CharacteristicFound, Proceed
  <2> QED BY <2>1, <2>2
<1>4. CASE CharacteristicsDone(s)
  BY <1>4 DEF CharacteristicsDone, Proceed, GiveUp
<1>5. CASE DescriptorFound(s)
  BY <1>5 DEF DescriptorFound, Proceed
<1>6. CASE DescriptorsDone(s)
  BY <1>6 DEF DescriptorsDone, Proceed, GiveUp
<1>7. CASE DiscoveryError(s)
  BY <1>7 DEF DiscoveryError, Proceed
<1>8. CASE SubscribeRefused(s)
  BY <1>8 DEF SubscribeRefused, GiveUp
<1>9. CASE SubscribeDone(s)
  BY <1>9 DEF SubscribeDone
<1>10. CASE NameRead(s)
  BY <1>10 DEF NameRead
<1>11. CASE NameDone(s)
  BY <1>11 DEF NameDone
<1> QED BY <1>1, <1>2, <1>3, <1>4, <1>5, <1>6, <1>7, <1>8, <1>9, <1>10, <1>11
        DEF Discovery

LEMMA ApiKeepsInv == BleInv /\ Api => BleInv'
<1> SUFFICES ASSUME BleInv, Api PROVE BleInv'
  OBVIOUS
<1> USE BleAssumption DEF BleInv, BleTypeOK, KnownLinkIsUp, NothingLeftOver, Links,
                          States, handles, stack, api
<1>1. CASE Scan
  BY <1>1 DEF Scan
<1>2. CASE Disconnect
  BY <1>2 DEF Disconnect, Released
<1>3. ASSUME NEW s \in Storages, Connect(s)
      PROVE  BleInv'
  BY <1>3 DEF Connect, DialRefused
<1>4. ASSUME NEW s \in Storages, SetDeviceName(s)
      PROVE  BleInv'
  BY <1>4 DEF SetDeviceName
<1> QED BY <1>1, <1>2, <1>3, <1>4 DEF Api

LEMMA BleStepKeepsInv == BleInv /\ [BleNext]_bleVars => BleInv'
<1> SUFFICES ASSUME BleInv, [BleNext]_bleVars PROVE BleInv'
  OBVIOUS
<1>1. CASE HostTask
  BY <1>1, PlumbingKeepsInv, GapEventKeepsInv, DiscoveryKeepsInv DEF HostTask
<1>2. CASE Api
  BY <1>2, ApiKeepsInv
<1>3. CASE UNCHANGED bleVars
  BY <1>3 DEF bleVars, BleInv, BleTypeOK, KnownLinkIsUp, NothingLeftOver, Links
<1> QED BY <1>1, <1>2, <1>3 DEF BleNext

THEOREM BleInvariant == BleSpec => []BleInv
  BY BleInitInv, BleStepKeepsInv, PTL DEF BleSpec

\* Every variable of ble_central.c keeps its type.
THEOREM BleTypeCorrect == BleSpec => []BleTypeOK
<1>1. BleInv => BleTypeOK
  BY DEF BleInv
<1> QED BY <1>1, BleInvariant, PTL

\* s_conn_handle names a link that is up, or none.
THEOREM KnownLinkCorrect == BleSpec => []KnownLinkIsUp
<1>1. BleInv => KnownLinkIsUp
  BY DEF BleInv
<1> QED BY <1>1, BleInvariant, PTL

\* With no link up no handle and no subscription is left.
THEOREM NothingLeftCorrect == BleSpec => []NothingLeftOver
<1>1. BleInv => NothingLeftOver
  BY DEF BleInv
<1> QED BY <1>1, BleInvariant, PTL

-----------------------------------------------------------------------------
(* With one storage *)

OneStorage == \A s, t \in Storages : s = t

\* What s_subscribed says follows from the order of discovery: a link only gets
\* past its characteristics with the write characteristic found.
BooksInv == /\ BooksMatchStack
            /\ \A s \in Storages : proc[s] \in {"dsc", "sub", "name"} => tx

LEMMA BooksInit == BleInit => BooksInv
  BY BleAssumption DEF BleInit, BooksInv, BooksMatchStack, Links, Released

LEMMA GapEventKeepsBooks ==
  ASSUME OneStorage, BleInv, BooksInv,
         DiscComplete \/ ConnectFailed \/ Connected \/ \E s \in Storages : LinkLost(s)
  PROVE  BooksInv'
<1> USE BleAssumption DEF BleInv, BleTypeOK, BooksInv, BooksMatchStack, KnownLinkIsUp,
                          NothingLeftOver, Links, Released, OneStorage, handles
<1>1. CASE DiscComplete
  BY <1>1 DEF DiscComplete
<1>2. CASE ConnectFailed
  BY <1>2 DEF ConnectFailed
<1>3. CASE Connected
  BY <1>3 DEF Connected
<1>4. ASSUME NEW s \in Storages, LinkLost(s)
      PROVE  BooksInv'
  BY <1>4 DEF LinkLost
<1> QED BY <1>1, <1>2, <1>3, <1>4

LEMMA DiscoveryKeepsBooks ==
  ASSUME OneStorage, BleInv, BooksInv, NEW s \in Storages, Discovery(s)
  PROVE  BooksInv'
<1> USE DEF BleInv, BleTypeOK, BooksInv, BooksMatchStack, Links, Released, OneStorage,
            handles, stack, api
<1>1. CASE ServiceFound(s)
  BY <1>1 DEF ServiceFound, Proceed
<1>2. CASE ServiceMissing(s)
  BY <1>2 DEF ServiceMissing, Proceed, GiveUp
<1>3. CASE CharacteristicFound(s)
  BY <1>3 DEF CharacteristicFound, Proceed
<1>4. CASE CharacteristicsDone(s)
  BY <1>4 DEF CharacteristicsDone, Proceed, GiveUp
<1>5. CASE DescriptorFound(s)
  BY <1>5 DEF DescriptorFound, Proceed
<1>6. CASE DescriptorsDone(s)
  BY <1>6 DEF DescriptorsDone, Proceed, GiveUp
<1>7. CASE DiscoveryError(s)
  BY <1>7 DEF DiscoveryError, Proceed
<1>8. CASE SubscribeRefused(s)
  BY <1>8 DEF SubscribeRefused, GiveUp
<1>9. CASE SubscribeDone(s)
  BY <1>9 DEF SubscribeDone
<1>10. CASE NameRead(s)
  BY <1>10 DEF NameRead
<1>11. CASE NameDone(s)
  BY <1>11 DEF NameDone
<1> QED BY <1>1, <1>2, <1>3, <1>4, <1>5, <1>6, <1>7, <1>8, <1>9, <1>10, <1>11
        DEF Discovery

LEMMA ApiKeepsBooks ==
  ASSUME OneStorage, BleInv, BooksInv, Api
  PROVE  BooksInv'
<1> USE BleAssumption DEF BleInv, BleTypeOK, BooksInv, BooksMatchStack, KnownLinkIsUp,
                          Links, Released, OneStorage, handles, stack, api
<1>1. CASE Scan
  BY <1>1 DEF Scan
<1>2. CASE Disconnect
  BY <1>2 DEF Disconnect
<1>3. ASSUME NEW s \in Storages, Connect(s)
      PROVE  BooksInv'
  BY <1>3 DEF Connect, DialRefused, IsConnected
<1>4. ASSUME NEW s \in Storages, SetDeviceName(s)
      PROVE  BooksInv'
  BY <1>4 DEF SetDeviceName
<1> QED BY <1>1, <1>2, <1>3, <1>4 DEF Api

LEMMA BooksStep ==
  ASSUME OneStorage, BleInv, BooksInv, [BleNext]_bleVars
  PROVE  BooksInv'
<1>1. CASE HostSync \/ HostReset
  BY <1>1 DEF HostSync, HostReset, BooksInv, BooksMatchStack, Links, Released, handles, stack
<1>2. CASE HostTask /\ ~(HostSync \/ HostReset)
  BY <1>2, GapEventKeepsBooks, DiscoveryKeepsBooks DEF HostTask
<1>3. CASE Api
  BY <1>3, ApiKeepsBooks
<1>4. CASE UNCHANGED bleVars
  BY <1>4 DEF bleVars, BooksInv, BooksMatchStack, Links, Released
<1> QED BY <1>1, <1>2, <1>3, <1>4 DEF BleNext

\* With one storage in range the link s_conn_handle names is the only one, and
\* s_connect_pending and s_subscribed say what the stack is doing.
THEOREM BooksCorrect ==
  ASSUME OneStorage
  PROVE  BleSpec => []BooksMatchStack
<1>1. BleInv /\ BooksInv /\ [BleNext]_bleVars => BooksInv'
  BY BooksStep
<1>2. BooksInv => BooksMatchStack
  BY DEF BooksInv
<1> QED BY <1>1, <1>2, BooksInit, BleInvariant, PTL DEF BleSpec
==============================================================================
