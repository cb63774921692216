---------------------------- MODULE WsBridge_proofs ----------------------------
(***************************************************************************)
(* Proofs about WsBridge for any number of sockets, clients and retries:   *)
(* the types whatever the storages, and how long the link is held with one *)
(* storage in range, which is what the bridge is built for; and that it is *)
(* not shown to be connecting when it is not.                              *)
(***************************************************************************)
EXTENDS WsBridge, BleCentral_proofs

\* A usable link found with nobody watching was being held on purpose: that is
\* known as long as the grace period runs only on a link that counts as
\* abandoned, and as long as no link is held, or dialled, outside it.
HeldOnPurpose ==
    clients = {} /\ (gap \in Storages \/ Links \ closing # {}) => linger \/ orphaned

IdleIsKnown ==
    idled => /\ subscribed /\ connHandle # None
             /\ connHandle \in closing \/ abandoned

RelayInv ==
    /\ ClockOnlyWhenUnwatched
    /\ orphaned => clients = {}
    /\ linger => abandoned
    /\ HeldOnPurpose
    /\ IdleIsKnown
    /\ ShownConnectedIsUp

-----------------------------------------------------------------------------
(* The relay drives the Bluetooth central only through its operations *)

LEMMA RelayDrivesBle == RelayTypeOK /\ [Next]_vars => [BleNext]_bleVars
<1> SUFFICES ASSUME RelayTypeOK, [Next]_vars PROVE [BleNext]_bleVars
  OBVIOUS
<1> USE DEF BleNext, Api
<1>1. CASE BleEvent
  BY <1>1 DEF BleEvent, Hosted
<1>2. CASE Notification
  BY <1>2 DEF Notification
<1>3. CASE Timers
  BY <1>3 DEF Timers, LingerExpired, RefreshLink, RelayTypeOK
<1>4. CASE Messages
  BY <1>4 DEF Messages, ConnectMessage, DisconnectMessage, ScanMessage, BindMessage,
              Refused, RelayTypeOK
<1>5. CASE SocketsChange
  BY <1>5 DEF SocketsChange, PostHandshake, RefreshAbandoned, CloseFrame, SessionClosed, Jam
<1>6. CASE UNCHANGED vars
  BY <1>6 DEF vars
<1> QED BY <1>1, <1>2, <1>3, <1>4, <1>5, <1>6 DEF Next

-----------------------------------------------------------------------------
(* Types, for any storages *)

LEMMA HeardType ==
  ASSUME BleTypeOK', NEW r \in Refreshes
  PROVE  Heard(r, said') \in Refreshes
<1>1. ASSUME NEW q \in Refreshes, NEW st
      PROVE  OnBleState(q, st) \in Refreshes
  BY <1>1, RelayAssumption DEF OnBleState, Refreshes
<1>2. CASE said' = <<>>
  BY <1>2 DEF Heard
<1>3. ASSUME NEW a \in States, said' = <<a>>
      PROVE  Heard(r, said') \in Refreshes
  BY <1>1, <1>3 DEF Heard
<1>4. ASSUME NEW a \in States, NEW b \in States, said' = <<a, b>>
      PROVE  Heard(r, said') \in Refreshes
  <2>1. Heard(r, said') = OnBleState(OnBleState(r, a), b)
    BY <1>4 DEF Heard
  <2> QED BY <1>1, <2>1
<1> QED BY <1>2, <1>3, <1>4 DEF BleTypeOK

LEMMA RelayType ==
  ASSUME BleTypeOK', NEW r \in Refreshes, Relay(r), RelayTypeOK
  PROVE  refresh' \in Refreshes /\ shown' \in States
<1>1. refresh' \in Refreshes
  BY HeardType DEF Relay
<1>2. shown' \in States
  BY DEF Relay, RelayTypeOK, BleTypeOK
<1> QED BY <1>1, <1>2

LEMMA TypeInit == Init => TypeOK
<1> SUFFICES ASSUME Init PROVE TypeOK
  OBVIOUS
<1>1. BleTypeOK /\ name \in Storages \cup {None}
  BY BleInitInv DEF Init, BleInv, BleInit
<1>2. refresh \in Refreshes
  BY RelayAssumption DEF Init, Refreshes
<1>3. clients = {} /\ open = {} /\ jammed = {} /\ shown \in States
  BY DEF Init, States
<1>4. /\ linger \in BOOLEAN /\ abandoned \in BOOLEAN
      /\ orphaned \in BOOLEAN /\ idled \in BOOLEAN
  BY DEF Init
<1>5. bound = name
  BY DEF Init
<1> QED BY <1>1, <1>2, <1>3, <1>4, <1>5 DEF TypeOK, RelayTypeOK

LEMMA TypeStep ==
  ASSUME BleInv, TypeOK, [Next]_vars
  PROVE  BleInv' /\ TypeOK'
<1> USE DEF TypeOK
<1>1. BleInv' /\ BleTypeOK'
  BY RelayDrivesBle, BleStepKeepsInv DEF BleInv
<1> SUFFICES RelayTypeOK'
  BY <1>1
<1> USE DEF RelayTypeOK, NoteIdle
<1>2. CASE BleEvent
  BY <1>1, <1>2, RelayType DEF BleEvent, Hosted, Report, Broadcast, Reached
<1>3. CASE Notification
  BY <1>3 DEF Notification, Broadcast, Reached
<1>4. CASE LingerExpired
  BY <1>4 DEF LingerExpired
<1>5. CASE RefreshLink
  <2>1. [refresh EXCEPT !.armed = FALSE] \in Refreshes
    BY DEF Refreshes
  <2> QED BY <1>1, <1>5, <2>1, RelayType DEF RefreshLink, Broadcast, Reached
<1>6. CASE ConnectMessage
  BY <1>1, <1>6, RelayType DEF ConnectMessage, Reached
<1>7. CASE DisconnectMessage
  BY <1>7 DEF DisconnectMessage
<1>8. CASE ScanMessage
  BY <1>1, <1>8, RelayType DEF ScanMessage, Broadcast, Reached
<1>9. CASE BindMessage
  BY <1>9 DEF BindMessage, Broadcast, Reached, States
<1>10. CASE Refused
  BY <1>10 DEF Refused, Broadcast, Reached
<1>11. ASSUME NEW f \in Sockets, PostHandshake(f)
       PROVE  RelayTypeOK'
  <2>1. [left |-> RefreshRetries, armed |-> TRUE] \in Refreshes
    BY RelayAssumption DEF Refreshes
  <2>2. refresh' \in Refreshes /\ abandoned' = FALSE
    BY <1>11, <2>1 DEF PostHandshake, RefreshAbandoned
  <2> QED BY <1>11, <2>2 DEF PostHandshake, Reached, States
<1>12. ASSUME NEW f \in Sockets, CloseFrame(f)
       PROVE  RelayTypeOK'
  BY <1>12 DEF CloseFrame, StartLinger
<1>13. ASSUME NEW f \in Sockets, SessionClosed(f)
       PROVE  RelayTypeOK'
  BY <1>13 DEF SessionClosed, StartLinger
<1>14. ASSUME NEW f \in Sockets, Jam(f)
       PROVE  RelayTypeOK'
  BY <1>14 DEF Jam
<1>15. CASE UNCHANGED vars
  BY <1>15 DEF vars, relayVars
<1> QED BY <1>2, <1>3, <1>4, <1>5, <1>6, <1>7, <1>8, <1>9, <1>10, <1>11, <1>12, <1>13,
           <1>14, <1>15
        DEF Next, Timers, Messages, SocketsChange

\* Every variable of ble_central.c and ws_bridge.c keeps its type: in particular
\* s_refresh_left stays within 0 .. REFRESH_RETRIES however many errors come.
THEOREM RelayTypeCorrect == Spec => []TypeOK
<1>1. Init => BleInv /\ TypeOK
  BY TypeInit, BleInitInv DEF Init
<1>2. BleInv /\ TypeOK /\ [Next]_vars => (BleInv /\ TypeOK)'
  BY TypeStep
<1> QED BY <1>1, <1>2, PTL DEF Spec

-----------------------------------------------------------------------------
(* How long the link is held, with one storage *)

\* What a step of the central does to the facts RelayInv speaks of, whoever
\* takes it: a link that is up stays the same link, stays subscribed and stays
\* told to close; and whoever hears "connected" last finds it so.
LinkKept ==
    connHandle # None /\ connHandle' # None =>
        /\ connHandle' = connHandle
        /\ subscribed => subscribed'
        /\ connHandle \in closing => connHandle' \in closing'

SaysTheTruth ==
    /\ said' = <<>> /\ IsConnected => IsConnected'
    /\ said' # <<>> /\ said'[Len(said')] = "connected" => IsConnected'

NothingNew ==
    /\ gap' \in Storages => gap \in Storages
    /\ Links' \ closing' # {} => gap \in Storages \/ Links \ closing # {}

\* A link that is up and subscribed was up before.
NotAtOnce == connHandle' # None /\ subscribed' => connHandle # None

Effects == LinkKept /\ SaysTheTruth /\ NotAtOnce

LEMMA GapEventEffects ==
  ASSUME OneStorage, BleInv, BooksInv,
         \/ HostSync \/ HostReset \/ DiscComplete \/ ConnectFailed \/ Connected
         \/ \E s \in Storages : LinkLost(s)
  PROVE  Effects /\ NothingNew
<1> USE BleAssumption DEF Effects, LinkKept, SaysTheTruth, NotAtOnce, NothingNew,
        IsConnected, BleInv, BleTypeOK, BooksInv, BooksMatchStack, KnownLinkIsUp,
        NothingLeftOver, Links, Released, OneStorage, handles, stack
<1>1. CASE HostSync
  BY <1>1 DEF HostSync
<1>2. CASE HostReset
  BY <1>2 DEF HostReset
<1>3. CASE DiscComplete
  BY <1>3 DEF DiscComplete
<1>4. CASE ConnectFailed
  BY <1>4 DEF ConnectFailed
<1>5. CASE Connected
  BY <1>5 DEF Connected
<1>6. ASSUME NEW s \in Storages, LinkLost(s)
      PROVE  Effects /\ NothingNew
  BY <1>6 DEF LinkLost
<1> QED BY <1>1, <1>2, <1>3, <1>4, <1>5, <1>6

LEMMA DiscoveryEffects ==
  ASSUME OneStorage, BleInv, BooksInv, NEW s \in Storages, Discovery(s)
  PROVE  Effects /\ NothingNew
<1> USE BleAssumption DEF Effects, LinkKept, SaysTheTruth, NotAtOnce, NothingNew,
        IsConnected, BleInv, BleTypeOK, BooksInv, BooksMatchStack, KnownLinkIsUp,
        Links, Released, OneStorage, handles, stack, api
<1>1. CASE ServiceFound(s)
  BY <1>1 DEF ServiceFound, Proceed
<1>2. CASE ServiceMissing(s)
  BY <1>2 DEF ServiceMissing, Proceed, GiveUp
<1>3. CASE CharacteristicFound(s)
  BY <1>3 DEF CharacteristicFound, Proceed
<1>4. CASE CharacteristicsDone(s)
  BY <1>4 DEF CharacteristicsDone, Proceed, GiveUp
<1>5. CASE DescriptorFound(s)
  BY <1>5 DEF DescriptorFound, Proceed
<1>6. CASE DescriptorsDone(s)
  BY <1>6 DEF DescriptorsDone, Proceed, GiveUp
<1>7. CASE DiscoveryError(s)
  BY <1>7 DEF DiscoveryError, Proceed
<1>8. CASE SubscribeRefused(s)
  BY <1>8 DEF SubscribeRefused, GiveUp
<1>9. CASE SubscribeDone(s)
  BY <1>9 DEF SubscribeDone
<1>10. CASE NameRead(s)
  BY <1>10 DEF NameRead
<1>11. CASE NameDone(s)
  BY <1>11 DEF NameDone
<1> QED BY <1>1, <1>2, <1>3, <1>4, <1>5, <1>6, <1>7, <1>8, <1>9, <1>10, <1>11
        DEF Discovery

LEMMA HostTaskEffects ==
  ASSUME OneStorage, BleInv, BooksInv, HostTask
  PROVE  Effects /\ NothingNew
BY GapEventEffects, DiscoveryEffects DEF HostTask

LEMMA ApiEffects ==
  ASSUME OneStorage, BleInv, BooksInv, Api
  PROVE  Effects
<1> USE BleAssumption DEF Effects, LinkKept, SaysTheTruth, NotAtOnce, IsConnected,
        BleInv, BleTypeOK, KnownLinkIsUp, Released, handles, stack, api
<1>1. CASE Scan
  BY <1>1 DEF Scan
<1>2. CASE Disconnect
  BY <1>2 DEF Disconnect
<1>3. ASSUME NEW s \in Storages, Connect(s)
      PROVE  Effects
  BY <1>3 DEF Connect
<1>4. ASSUME NEW s \in Storages, SetDeviceName(s)
      PROVE  Effects
  BY <1>4 DEF SetDeviceName
<1> QED BY <1>1, <1>2, <1>3, <1>4 DEF Api

\* The parts of RelayInv that speak of the books and the clock only.
BooksAndClock == /\ ClockOnlyWhenUnwatched
                 /\ orphaned => clients = {}
                 /\ linger => abandoned

\* A link that was idle before stays known as such.
StillKnown == idled /\ connHandle' # None =>
                  subscribed' /\ (connHandle' \in closing' \/ abandoned')

LEMMA IdleFollows ==
  ASSUME BleInv', BooksAndClock', HeldOnPurpose', StillKnown, NoteIdle
  PROVE  IdleIsKnown'
BY DEF BleInv, BleTypeOK, KnownLinkIsUp, BooksAndClock, HeldOnPurpose, StillKnown, NoteIdle,
       IdleIsKnown, Links

LEMMA ShownFollows ==
  ASSUME NEW r, Relay(r), SaysTheTruth, ShownConnectedIsUp
  PROVE  ShownConnectedIsUp'
<1>1. CASE said' = <<>>
  BY <1>1 DEF Relay, SaysTheTruth, ShownConnectedIsUp
<1>2. CASE said' # <<>>
  BY <1>2 DEF Relay, SaysTheTruth, ShownConnectedIsUp
<1> QED BY <1>1, <1>2

LEMMA RelayInit == Init => RelayInv
  BY BleAssumption
     DEF Init, BleInit, RelayInv, ClockOnlyWhenUnwatched, HeldOnPurpose, IdleIsKnown,
         ShownConnectedIsUp, Links

LEMMA BleEventKeepsRelay ==
  ASSUME OneStorage, BleInv, BooksInv, BleInv', RelayInv, BleEvent
  PROVE  RelayInv'
<1>1. HostTask /\ Report /\ NoteIdle /\ UNCHANGED <<linger, abandoned>>
  BY DEF BleEvent, Hosted
<1>2. Effects /\ NothingNew
  BY <1>1, HostTaskEffects
<1>3. BooksAndClock'
  BY <1>1 DEF Report, Broadcast, Reached, RelayInv, BooksAndClock, ClockOnlyWhenUnwatched
<1>4. HeldOnPurpose'
  BY <1>1, <1>2 DEF Report, Broadcast, Reached, RelayInv, HeldOnPurpose, NothingNew
<1>5. StillKnown
  BY <1>1, <1>2 DEF StillKnown, RelayInv, IdleIsKnown, Effects, LinkKept
<1>6. ShownConnectedIsUp'
  BY <1>1, <1>2, ShownFollows DEF Report, RelayInv, Effects
<1> QED BY <1>1, <1>3, <1>4, <1>5, <1>6, IdleFollows DEF RelayInv, BooksAndClock

\* An action that leaves the central alone and broadcasts.
LEMMA BroadcastKeepsRelay ==
  ASSUME BleInv', RelayInv, Broadcast, NoteIdle,
         UNCHANGED <<bleVars, linger, abandoned, shown>>
  PROVE  RelayInv'
<1> USE DEF RelayInv
<1>1. BooksAndClock'
  BY DEF Broadcast, Reached, BooksAndClock, ClockOnlyWhenUnwatched
<1>2. HeldOnPurpose'
  BY DEF Broadcast, Reached, HeldOnPurpose, Links, bleVars
<1>3. StillKnown
  BY DEF StillKnown, IdleIsKnown, bleVars
<1>4. ShownConnectedIsUp'
  BY DEF ShownConnectedIsUp, IsConnected, bleVars
<1> QED BY <1>1, <1>2, <1>3, <1>4, IdleFollows DEF BooksAndClock

LEMMA LingerExpiredKeepsRelay ==
  ASSUME BleInv, BooksInv, BleInv', RelayInv, LingerExpired
  PROVE  RelayInv'
<1> USE DEF RelayInv, LingerExpired
<1>1. BooksAndClock'
  BY DEF BooksAndClock, ClockOnlyWhenUnwatched
<1>2. CASE clients # {}
  BY <1>2 DEF ClockOnlyWhenUnwatched
<1>3. CASE clients = {} /\ Disconnect
  <2>1. gap \notin Storages
    BY RelayAssumption
  <2>2. HeldOnPurpose'
    BY <1>3, <2>1 DEF HeldOnPurpose, Disconnect, BooksInv, BooksMatchStack, Links
  <2>3. StillKnown
    BY <1>3 DEF StillKnown, IdleIsKnown, Disconnect, Released
  <2>4. ShownConnectedIsUp'
    BY <1>3 DEF ShownConnectedIsUp, IsConnected, Disconnect, handles
  <2> QED BY <1>1, <2>2, <2>3, <2>4, IdleFollows DEF BooksAndClock
<1> QED BY <1>2, <1>3

\* An action that calls the central and tells everybody what came of it, with
\* somebody on the books or nobody left who could have noticed.
LEMMA CallKeepsRelay ==
  ASSUME OneStorage, BleInv, BooksInv, BleInv', RelayInv, NoteIdle, abandoned' = abandoned,
         NEW r, Api, Relay(r),
         BooksAndClock', HeldOnPurpose'
  PROVE  RelayInv'
<1> USE DEF RelayInv
<1>1. Effects
  BY ApiEffects
<1>2. StillKnown
  BY <1>1 DEF StillKnown, IdleIsKnown, Effects, LinkKept
<1>3. ShownConnectedIsUp'
  BY <1>1, ShownFollows DEF Effects
<1> QED BY <1>2, <1>3, IdleFollows DEF BooksAndClock

LEMMA RefreshLinkKeepsRelay ==
  ASSUME OneStorage, BleInv, BooksInv, BleInv', RelayInv, RelayTypeOK, RefreshLink
  PROVE  RelayInv'
<1> DEFINE fired == [refresh EXCEPT !.armed = FALSE]
<1>1. CASE UNCHANGED <<bleVars, clients, shown, orphaned>>
  BY <1>1, IdleFollows
     DEF RefreshLink, RelayInv, BooksAndClock, ClockOnlyWhenUnwatched, HeldOnPurpose,
         IdleIsKnown, StillKnown, ShownConnectedIsUp, IsConnected, Links, bleVars
<1>2. CASE clients # {} /\ bound # None /\ Connect(bound) /\ Relay(fired) /\ Broadcast
  <2>1. Api
    BY <1>2 DEF Api, RelayTypeOK
  <2>2. BooksAndClock' /\ HeldOnPurpose'
    BY <1>2 DEF RefreshLink, Broadcast, Reached, RelayInv, BooksAndClock,
                ClockOnlyWhenUnwatched, HeldOnPurpose
  <2> QED BY <1>2, <2>1, <2>2, CallKeepsRelay DEF RefreshLink
<1> QED BY <1>1, <1>2 DEF RefreshLink

LEMMA ConnectMessageKeepsRelay ==
  ASSUME OneStorage, BleInv, BooksInv, BleInv', RelayInv, RelayTypeOK, ConnectMessage
  PROVE  RelayInv'
<1>1. BooksAndClock' /\ HeldOnPurpose'
  BY DEF ConnectMessage, Reached, RelayInv, BooksAndClock, ClockOnlyWhenUnwatched,
         HeldOnPurpose
<1>2. CASE UNCHANGED <<bleVars, refresh, shown>>
  BY <1>1, <1>2, IdleFollows
     DEF ConnectMessage, RelayInv, BooksAndClock, IdleIsKnown, StillKnown,
         ShownConnectedIsUp, IsConnected, bleVars
<1>3. CASE bound # None /\ Connect(bound) /\ Relay(refresh)
  <2>1. Api
    BY <1>3 DEF Api, RelayTypeOK
  <2> QED BY <1>1, <1>3, <2>1, CallKeepsRelay DEF ConnectMessage
<1> QED BY <1>2, <1>3 DEF ConnectMessage

LEMMA OtherMessagesKeepRelay ==
  ASSUME OneStorage, BleInv, BooksInv, BleInv', RelayInv,
         DisconnectMessage \/ ScanMessage \/ BindMessage \/ Refused
  PROVE  RelayInv'
<1>1. CASE DisconnectMessage
  <2>1. BooksAndClock' /\ HeldOnPurpose'
    BY <1>1 DEF DisconnectMessage, Disconnect, RelayInv, BooksAndClock,
                ClockOnlyWhenUnwatched, HeldOnPurpose, Links
  <2>2. StillKnown
    BY <1>1 DEF DisconnectMessage, Disconnect, StillKnown, RelayInv, IdleIsKnown
  <2>3. ShownConnectedIsUp'
    BY <1>1 DEF DisconnectMessage, Disconnect, RelayInv, ShownConnectedIsUp, IsConnected,
                handles
  <2> QED BY <1>1, <2>1, <2>2, <2>3, IdleFollows
          DEF DisconnectMessage, RelayInv, BooksAndClock
<1>2. CASE ScanMessage
  <2>1. CASE Scan /\ Relay(refresh)
    <3>1. BooksAndClock' /\ HeldOnPurpose'
      BY <1>2, <2>1, BleAssumption
         DEF ScanMessage, Broadcast, Reached, Scan, RelayInv, BooksAndClock,
             ClockOnlyWhenUnwatched, HeldOnPurpose, Links
    <3> QED BY <1>2, <2>1, <3>1, CallKeepsRelay DEF ScanMessage, Api
  <2>2. CASE UNCHANGED <<bleVars, refresh, shown>>
    BY <1>2, <2>2, BroadcastKeepsRelay DEF ScanMessage
  <2> QED BY <1>2, <2>1, <2>2 DEF ScanMessage
<1>3. CASE BindMessage
  <2>1. Broadcast /\ NoteIdle /\ shown' = "idle" /\ UNCHANGED <<linger, abandoned>>
    BY <1>3 DEF BindMessage
  <2>2. UNCHANGED <<connHandle, subscribed, gap, proc, closing>>
    BY <1>3 DEF BindMessage, SetDeviceName, stack
  <2>3. BooksAndClock' /\ HeldOnPurpose'
    BY <2>1, <2>2 DEF Broadcast, Reached, RelayInv, BooksAndClock,
                      ClockOnlyWhenUnwatched, HeldOnPurpose, Links
  <2>4. StillKnown
    BY <2>1, <2>2 DEF StillKnown, RelayInv, IdleIsKnown
  <2> QED BY <2>1, <2>3, <2>4, IdleFollows DEF RelayInv, BooksAndClock, ShownConnectedIsUp
<1>4. CASE Refused
  BY <1>4, BroadcastKeepsRelay DEF Refused
<1> QED BY <1>1, <1>2, <1>3, <1>4

\* A link taken over from nobody is either told to close, or was not usable.
LEMMA PostHandshakeKeepsRelay ==
  ASSUME BleInv, BooksInv, BleInv', RelayInv, NEW f \in Sockets, PostHandshake(f)
  PROVE  RelayInv'
<1>1. /\ clients' # {} /\ linger' = FALSE /\ orphaned' = FALSE /\ abandoned' = FALSE
      /\ shown' = IF IsConnected THEN "connected" ELSE "idle"
      /\ NoteIdle /\ RefreshAbandoned
  BY DEF PostHandshake, RefreshAbandoned
<1>2. UNCHANGED <<connHandle, tx, subscribed>>
  BY <1>1 DEF RefreshAbandoned, Disconnect, handles, bleVars
<1>3. StillKnown
  <2>1. CASE abandoned /\ IsConnected
    BY <1>1, <1>2, <2>1
       DEF RefreshAbandoned, Disconnect, Released, StillKnown, RelayInv, IdleIsKnown
  <2>2. CASE ~(abandoned /\ IsConnected)
    <3>1. UNCHANGED bleVars
      BY <1>1, <2>2 DEF RefreshAbandoned
    <3> QED BY <2>2, <3>1 DEF bleVars, StillKnown, RelayInv, IdleIsKnown, IsConnected,
                              BooksInv, BooksMatchStack
  <2> QED BY <2>1, <2>2
<1>4. BooksAndClock' /\ HeldOnPurpose'
  BY <1>1 DEF BooksAndClock, ClockOnlyWhenUnwatched, HeldOnPurpose
<1>5. ShownConnectedIsUp'
  BY <1>1, <1>2 DEF ShownConnectedIsUp, IsConnected
<1> QED BY <1>1, <1>3, <1>4, <1>5, IdleFollows DEF RelayInv, BooksAndClock

LEMMA SocketGoneKeepsRelay ==
  ASSUME BleInv', RelayInv, NEW f \in Sockets, CloseFrame(f) \/ SessionClosed(f)
  PROVE  RelayInv'
<1> USE DEF RelayInv
<1>1. /\ clients' = clients \ {f} /\ NoteIdle
      /\ UNCHANGED <<bleVars, shown>>
  <2>1. CASE CloseFrame(f)
    BY <2>1, Zenon DEF CloseFrame
  <2>2. CASE SessionClosed(f)
    BY <2>2, Zenon DEF SessionClosed
  <2> QED BY <2>1, <2>2
<1>2. /\ \/ linger' = TRUE /\ abandoned' = TRUE /\ clients' = {}
         \/ UNCHANGED <<linger, abandoned>>
      /\ orphaned' = FALSE \/ orphaned' = orphaned
  <2>1. CASE CloseFrame(f)
    BY <2>1, Zenon DEF CloseFrame, StartLinger
  <2>2. CASE SessionClosed(f)
    BY <2>2, Zenon DEF SessionClosed, StartLinger
  <2> QED BY <2>1, <2>2
<1>3. clients' = {} => linger' = TRUE \/ (clients = {} /\ UNCHANGED <<linger, orphaned>>)
  <2>1. CASE CloseFrame(f)
    BY <2>1, Zenon DEF CloseFrame, StartLinger
  <2>2. CASE SessionClosed(f) /\ f \in clients
    BY <2>2, Zenon DEF SessionClosed, StartLinger
  <2>3. CASE SessionClosed(f) /\ f \notin clients
    <3>1. UNCHANGED <<linger, orphaned>>
      BY <2>3, Zenon DEF SessionClosed
    <3> QED BY <1>1, <2>3, <3>1
  <2> QED BY <2>1, <2>2, <2>3
<1>4. BooksAndClock'
  BY <1>1, <1>2, <1>3 DEF BooksAndClock, ClockOnlyWhenUnwatched
<1>5. HeldOnPurpose'
  BY <1>1, <1>3 DEF HeldOnPurpose, Links, bleVars
<1>6. StillKnown
  BY <1>1, <1>2 DEF StillKnown, IdleIsKnown, bleVars
<1>7. ShownConnectedIsUp'
  BY <1>1 DEF ShownConnectedIsUp, IsConnected, bleVars
<1> QED BY <1>1, <1>4, <1>5, <1>6, <1>7, IdleFollows DEF BooksAndClock

LEMMA UnchangedKeepsRelay ==
  ASSUME RelayInv,
         UNCHANGED <<bleVars, clients, linger, abandoned, shown, orphaned, idled>>
  PROVE  RelayInv'
BY DEF RelayInv, ClockOnlyWhenUnwatched, HeldOnPurpose, IdleIsKnown, ShownConnectedIsUp,
       IsConnected, Links, bleVars

LEMMA RelayStep ==
  ASSUME OneStorage, BleInv, BooksInv, TypeOK, RelayInv, [Next]_vars
  PROVE  BleInv' /\ BooksInv' /\ TypeOK' /\ RelayInv'
<1>1. BleInv' /\ TypeOK'
  BY TypeStep
<1>2. BooksInv'
  BY RelayDrivesBle, BooksStep DEF TypeOK
<1> SUFFICES RelayInv'
  BY <1>1, <1>2
<1>3. CASE BleEvent
  BY <1>1, <1>3, BleEventKeepsRelay
<1>4. CASE Notification
  BY <1>1, <1>4, BroadcastKeepsRelay DEF Notification
<1>5. CASE Timers
  BY <1>1, <1>5, LingerExpiredKeepsRelay, RefreshLinkKeepsRelay DEF Timers, TypeOK
<1>6. CASE Messages
  BY <1>1, <1>6, ConnectMessageKeepsRelay, OtherMessagesKeepRelay DEF Messages, TypeOK
<1>7. ASSUME NEW f \in Sockets, PostHandshake(f) \/ CloseFrame(f) \/ SessionClosed(f)
      PROVE  RelayInv'
  BY <1>1, <1>7, PostHandshakeKeepsRelay, SocketGoneKeepsRelay
<1>8. ASSUME NEW f \in Sockets, Jam(f)
      PROVE  RelayInv'
  BY <1>8, UnchangedKeepsRelay DEF Jam
<1>9. CASE UNCHANGED vars
  BY <1>9, UnchangedKeepsRelay DEF vars, relayVars
<1> QED BY <1>1, <1>2, <1>3, <1>4, <1>5, <1>6, <1>7, <1>8, <1>9 DEF Next, SocketsChange

LEMMA RelayInvariant ==
  ASSUME OneStorage
  PROVE  Spec => [](BooksInv /\ RelayInv /\ BleInv)
<1>1. Init => BleInv /\ BooksInv /\ TypeOK /\ RelayInv
  BY BleInitInv, BooksInit, TypeInit, RelayInit DEF Init
<1>2. BleInv /\ BooksInv /\ TypeOK /\ RelayInv /\ [Next]_vars
        => (BleInv /\ BooksInv /\ TypeOK /\ RelayInv)'
  BY RelayStep
<1> QED BY <1>1, <1>2, PTL DEF Spec

\* The relay never gets the books of the central out of step with the stack.
THEOREM RelayBooksCorrect ==
  ASSUME OneStorage
  PROVE  Spec => []BooksMatchStack
<1>1. BooksInv => BooksMatchStack
  BY DEF BooksInv
<1> QED BY <1>1, RelayInvariant, PTL

UnwatchedLinkEnds == clients = {} /\ Links \ closing # {} => linger \/ orphaned

\* With nobody on the books a link is on its way out or on the clock, unless the
\* books emptied unnoticed: however many browsers come and go, in whatever order
\* with what the central reports.
THEOREM UnwatchedLinkEndsCorrect ==
  ASSUME OneStorage
  PROVE  Spec => []UnwatchedLinkEnds
<1>1. RelayInv => UnwatchedLinkEnds
  BY DEF RelayInv, HeldOnPurpose, UnwatchedLinkEnds
<1> QED BY <1>1, RelayInvariant, PTL

\* A link that was left running with nobody on it is never handed to a browser
\* without being told to close first.
THEOREM IdleLinkIsCycledCorrect ==
  ASSUME OneStorage
  PROVE  Spec => []IdleLinkIsCycled
<1>1. RelayInv => IdleLinkIsCycled
  BY DEF RelayInv, IdleIsKnown, ClockOnlyWhenUnwatched, IdleLinkIsCycled
<1> QED BY <1>1, RelayInvariant, PTL

\* The grace period, and the mark of an abandoned link, end with the first
\* browser that comes back.
THEOREM ClockOnlyWhenUnwatchedCorrect ==
  ASSUME OneStorage
  PROVE  Spec => []ClockOnlyWhenUnwatched
<1>1. RelayInv => ClockOnlyWhenUnwatched
  BY DEF RelayInv
<1> QED BY <1>1, RelayInvariant, PTL

\* A last status of "connected" is never out of date.
THEOREM ShownConnectedIsUpCorrect ==
  ASSUME OneStorage
  PROVE  Spec => []ShownConnectedIsUp
<1>1. RelayInv => ShownConnectedIsUp
  BY DEF RelayInv
<1> QED BY <1>1, RelayInvariant, PTL

-----------------------------------------------------------------------------
(* The relay implements LinkHold: every step maps to one of its actions *)

\* How a step of the central may move the link LinkHold speaks of.
LinkMoves ==
    \/ Link' = Link
    \/ Link = "free" /\ Link' = "taken" /\ gap \in Storages
    \/ Link = "taken" /\ Link' = "leaving"
    \/ Link # "free" /\ Link' = "free"

LEMMA GapEventMovesLink ==
  ASSUME BleInv, BooksInv,
         \/ HostSync \/ HostReset \/ DiscComplete \/ ConnectFailed \/ Connected
         \/ \E s \in Storages : LinkLost(s)
  PROVE  LinkMoves
<1> USE DEF LinkMoves, Link, Links
<1>1. CASE HostSync
  BY <1>1 DEF HostSync, stack
<1>2. CASE HostReset
  BY <1>2 DEF HostReset, stack
<1>3. CASE DiscComplete
  BY <1>3 DEF DiscComplete
<1>4. CASE ConnectFailed
  BY <1>4 DEF ConnectFailed
<1>5. CASE Connected
  <2>1. Links = {} /\ closing = {}
    BY <1>5 DEF Connected, BooksInv, BooksMatchStack, BleInv, BleTypeOK
  <2>2. gap \in Links' /\ closing' = {} /\ gap \in Storages
    BY <1>5, <2>1 DEF Connected, BleInv, BleTypeOK
  <2> QED BY <2>1, <2>2
<1>6. ASSUME NEW s \in Storages, LinkLost(s)
      PROVE  LinkMoves
  <2>1. Links # {}
    BY <1>6 DEF LinkLost
  <2>2. Links' = {}
    BY <1>6 DEF LinkLost, BooksInv, BooksMatchStack, Released, BleInv, BleTypeOK
  <2> QED BY <2>1, <2>2
<1> QED BY <1>1, <1>2, <1>3, <1>4, <1>5, <1>6

LEMMA DiscoveryMovesLink ==
  ASSUME BleInv, BooksInv, NEW s \in Storages, Discovery(s)
  PROVE  LinkMoves
<1>1. Links' = Links /\ closing \subseteq closing'
  BY DEF Links, Discovery, ServiceFound, ServiceMissing, CharacteristicFound,
         CharacteristicsDone, DescriptorFound, DescriptorsDone, DiscoveryError,
         SubscribeRefused, SubscribeDone, NameRead, NameDone, Proceed, GiveUp, stack,
         BleInv, BleTypeOK
<1> QED BY <1>1 DEF LinkMoves, Link

LEMMA HostTaskMovesLink == ASSUME BleInv, BooksInv, HostTask PROVE LinkMoves
BY GapEventMovesLink, DiscoveryMovesLink DEF HostTask

\* A disconnect reaches the only link there is.
LEMMA DisconnectFreesLink ==
  ASSUME BooksInv, Disconnect
  PROVE  /\ Link' = IF Link = "free" THEN "free" ELSE "leaving"
         /\ Link # "free" => Link \in {"taken", "leaving"}
<1>1. Links' = Links /\ closing' = closing \cup Links
  BY DEF Disconnect, Links, BooksInv, BooksMatchStack
<1> QED BY <1>1 DEF Link

\* The other calls do not touch a link that is up.
LEMMA CallKeepsLink ==
  ASSUME \/ Scan
         \/ \E s \in Storages : Connect(s) \/ SetDeviceName(s)
         \/ UNCHANGED bleVars
  PROVE  Link' = Link
BY DEF Link, Links, Scan, Connect, SetDeviceName, bleVars, stack

\* A broadcast changes who the link is held for only by losing the last client.
LEMMA BroadcastAudience ==
  ASSUME RelayInv, Broadcast, linger' = linger
  PROVE  Audience' = Audience \/ Audience' = "unnoticed"
BY DEF RelayInv, Broadcast, Reached, Audience

HoldStep == Hold!HoldNext \/ UNCHANGED Hold!holdVars

LEMMA HoldBroadcast ==
  ASSUME RelayInv, Broadcast, linger' = linger, Link' = Link
  PROVE  HoldStep
<1>1. Link' \in {"free", "taken", "leaving"}
  BY DEF Link
<1> QED BY <1>1, BroadcastAudience
        DEF HoldStep, Hold!HoldNext, Hold!holdVars, Hold!GoUnnoticed

LEMMA HoldBleEvent ==
  ASSUME BleInv, BooksInv, RelayInv, BleEvent
  PROVE  HoldStep
<1>1. LinkMoves /\ linger' = linger /\ Report
  BY HostTaskMovesLink DEF BleEvent, Hosted
<1>2. Audience' = Audience \/ Audience' = "unnoticed"
  BY <1>1, BroadcastAudience DEF Report, Audience
<1>3. Link' \in {"free", "taken", "leaving"}
  BY DEF Link
<1>4. gap \in Storages => Audience # "nobody"
  BY DEF Audience, RelayInv, HeldOnPurpose
<1> QED BY <1>1, <1>2, <1>3, <1>4
        DEF HoldStep, LinkMoves, Hold!HoldNext, Hold!holdVars, Hold!GoUnnoticed, Hold!Take,
            Hold!LetGo, Hold!End

LEMMA HoldTimers ==
  ASSUME BleInv, BooksInv, RelayInv, RelayTypeOK, Timers
  PROVE  HoldStep
<1>1. CASE LingerExpired
  <2>1. clients = {} /\ clients' = {} /\ Disconnect /\ orphaned' = orphaned /\ linger /\ ~linger'
    BY <1>1 DEF LingerExpired, RelayInv, ClockOnlyWhenUnwatched
  <2>2. CASE orphaned
    <3>1. Audience' = Audience
      BY <2>1, <2>2 DEF Audience
    <3> QED BY <2>1, <3>1, DisconnectFreesLink
            DEF HoldStep, Hold!HoldNext, Hold!holdVars, Hold!LetGo
  <2>3. CASE ~orphaned
    <3>1. Audience = "grace" /\ Audience' = "nobody"
      BY <2>1, <2>3 DEF Audience
    <3> QED BY <2>1, <3>1, DisconnectFreesLink DEF HoldStep, Hold!HoldNext, Hold!Expire
  <2> QED BY <2>2, <2>3
<1>2. CASE RefreshLink /\ UNCHANGED <<bleVars, clients, shown, orphaned>>
  <2>1. Audience' = Audience /\ Link' = Link
    BY <1>2, CallKeepsLink DEF RefreshLink, Audience, bleVars
  <2> QED BY <2>1 DEF HoldStep, Hold!holdVars
<1>3. CASE RefreshLink /\ bound # None /\ Connect(bound) /\ Broadcast
  BY <1>3, CallKeepsLink, HoldBroadcast DEF RefreshLink, RelayTypeOK
<1> QED BY <1>1, <1>2, <1>3 DEF Timers, RefreshLink

LEMMA HoldMessages ==
  ASSUME BleInv, BooksInv, RelayInv, RelayTypeOK, Messages
  PROVE  HoldStep
<1>1. CASE ConnectMessage
  <2>1. Link' = Link
    BY <1>1, CallKeepsLink DEF ConnectMessage, RelayTypeOK
  <2>2. Audience' = "unnoticed" \/ (Audience' = "watching" /\ Audience = "watching")
    BY <1>1 DEF ConnectMessage, Reached, Audience
  <2>3. Link' \in {"free", "taken", "leaving"}
    BY DEF Link
  <2> QED BY <2>1, <2>2, <2>3 DEF HoldStep, Hold!HoldNext, Hold!holdVars, Hold!GoUnnoticed
<1>2. CASE DisconnectMessage
  <2>1. Audience' = Audience /\ Disconnect
    BY <1>2 DEF DisconnectMessage, Audience
  <2> QED BY <2>1, DisconnectFreesLink DEF HoldStep, Hold!HoldNext, Hold!holdVars, Hold!LetGo
<1>3. CASE ScanMessage
  BY <1>3, CallKeepsLink, HoldBroadcast DEF ScanMessage
<1>4. CASE BindMessage
  BY <1>4, CallKeepsLink, HoldBroadcast DEF BindMessage
<1>5. CASE Refused
  BY <1>5, CallKeepsLink, HoldBroadcast DEF Refused
<1> QED BY <1>1, <1>2, <1>3, <1>4, <1>5 DEF Messages

LEMMA HoldSockets ==
  ASSUME BleInv, BooksInv, RelayInv, NEW f \in Sockets,
         PostHandshake(f) \/ CloseFrame(f) \/ SessionClosed(f) \/ Jam(f)
  PROVE  HoldStep
<1>1. CASE PostHandshake(f)
  <2>1. Audience' = "watching"
    BY <1>1 DEF PostHandshake, Audience
  <2>2. Link' = Link \/ (Link = "taken" /\ Link' = "leaving")
    BY <1>1, DisconnectFreesLink, CallKeepsLink DEF PostHandshake, RefreshAbandoned
  <2> QED BY <2>1, <2>2 DEF HoldStep, Hold!HoldNext, Hold!Arrive
<1>2. CASE CloseFrame(f) \/ SessionClosed(f)
  <2>1. Link' = Link
    BY <1>2, CallKeepsLink DEF CloseFrame, SessionClosed
  <2>2. Audience' = Audience \/ Audience' = "grace"
    BY <1>2 DEF CloseFrame, SessionClosed, StartLinger, Audience, RelayInv
  <2> QED BY <2>1, <2>2 DEF HoldStep, Hold!HoldNext, Hold!holdVars, Hold!Leave
<1>3. CASE Jam(f)
  <2>1. Audience' = Audience /\ Link' = Link
    BY <1>3, CallKeepsLink DEF Jam, Audience
  <2> QED BY <2>1 DEF HoldStep, Hold!holdVars
<1> QED BY <1>1, <1>2, <1>3

\* With one storage in range, the relay does with the link what LinkHold allows
\* and nothing else: it takes it only for somebody, lets it go when the grace
\* period ends, and keeps it past that only when the books emptied unnoticed.
\* This is the safety part of KeepsPromise.
THEOREM RelayImplementsLinkHold ==
  ASSUME OneStorage
  PROVE  Spec => Hold!HoldInit /\ [][Hold!HoldNext]_(Hold!holdVars)
<1>1. Init => Hold!HoldInit
  BY DEF Init, BleInit, Hold!HoldInit, Audience, Link, Links
<1>2. BooksInv /\ RelayInv /\ BleInv /\ TypeOK /\ [Next]_vars
        => [Hold!HoldNext]_(Hold!holdVars)
  <2> SUFFICES ASSUME BooksInv, RelayInv, BleInv, TypeOK, [Next]_vars PROVE HoldStep
    BY DEF HoldStep
  <2>1. CASE BleEvent
    BY <2>1, HoldBleEvent
  <2>2. CASE Notification
    BY <2>2, HoldBroadcast, CallKeepsLink DEF Notification
  <2>3. CASE Timers
    BY <2>3, HoldTimers DEF TypeOK
  <2>4. CASE Messages
    BY <2>4, HoldMessages DEF TypeOK
  <2>5. CASE SocketsChange
    BY <2>5, HoldSockets DEF SocketsChange
  <2>6. CASE UNCHANGED vars
    <3>1. Audience' = Audience /\ Link' = Link
      BY <2>6, CallKeepsLink DEF vars, relayVars, Audience
    <3> QED BY <3>1 DEF HoldStep, Hold!holdVars
  <2> QED BY <2>1, <2>2, <2>3, <2>4, <2>5, <2>6 DEF Next
<1> QED BY <1>1, <1>2, RelayInvariant, RelayTypeCorrect, PTL DEF Spec

\* What LinkHold promises holds of the relay: the storage is never held for
\* nobody.
THEOREM NeverHeldForNobodyCorrect ==
  ASSUME OneStorage
  PROVE  Spec => []Hold!NeverHeldForNobody
<1>1. RelayInv => Hold!NeverHeldForNobody
  BY DEF RelayInv, HeldOnPurpose, Hold!NeverHeldForNobody, Audience, Link
<1> QED BY <1>1, RelayInvariant, PTL

-----------------------------------------------------------------------------
(* A press of connect is answered: the part of it that is no liveness *)

\* What a step of the central has to say when nothing is under way any more.
EndIsSaid ==
    /\ said' = <<>> /\ DialUnderWay => DialUnderWay'
    /\ said' # <<>> /\ said'[Len(said')] = "connecting" => DialUnderWay'

LEMMA HostTaskSaysEnd ==
  ASSUME OneStorage, BleInv, BooksInv, HostTask
  PROVE  EndIsSaid
<1> USE BleAssumption DEF EndIsSaid, DialUnderWay, BleInv, BleTypeOK, BooksInv, BooksMatchStack,
        Links, OneStorage, handles, stack, api
<1>1. CASE HostSync
  BY <1>1 DEF HostSync
<1>2. CASE HostReset
  BY <1>2 DEF HostReset
<1>3. CASE DiscComplete
  BY <1>3 DEF DiscComplete
<1>4. CASE ConnectFailed
  BY <1>4 DEF ConnectFailed
<1>5. CASE Connected
  BY <1>5 DEF Connected
<1>6. ASSUME NEW s \in Storages, LinkLost(s)
      PROVE  EndIsSaid
  BY <1>6 DEF LinkLost
<1>7. ASSUME NEW s \in Storages, Discovery(s)
      PROVE  EndIsSaid
  <2>1. CASE \/ ServiceFound(s) \/ CharacteristicFound(s) \/ DescriptorFound(s)
    BY <2>1 DEF ServiceFound, CharacteristicFound, DescriptorFound, Proceed
  <2>2. CASE ServiceMissing(s)
    BY <2>2 DEF ServiceMissing, Proceed, GiveUp
  <2>3. CASE CharacteristicsDone(s) \/ DescriptorsDone(s)
    BY <2>3 DEF CharacteristicsDone, DescriptorsDone, Proceed, GiveUp
  <2>4. CASE DiscoveryError(s)
    BY <2>4 DEF DiscoveryError, Proceed
  <2>5. CASE SubscribeRefused(s)
    BY <2>5 DEF SubscribeRefused, GiveUp
  <2>6. CASE SubscribeDone(s)
    BY <2>6 DEF SubscribeDone
  <2>7. CASE NameRead(s)
    BY <2>7 DEF NameRead
  <2>8. CASE NameDone(s)
    BY <2>8 DEF NameDone
  <2> QED
    BY <1>7, <2>1, <2>2, <2>3, <2>4, <2>5, <2>6, <2>7, <2>8 DEF Discovery
<1> QED
  BY <1>1, <1>2, <1>3, <1>4, <1>5, <1>6, <1>7 DEF HostTask

LEMMA ApiSaysEnd ==
  ASSUME BleInv, BooksInv, Scan \/ \E s \in Storages : Connect(s)
  PROVE  EndIsSaid
<1> USE BleAssumption DEF EndIsSaid, DialUnderWay, BooksInv, BooksMatchStack
<1>1. CASE Scan
  BY <1>1 DEF Scan
<1>2. ASSUME NEW s \in Storages, Connect(s)
      PROVE  EndIsSaid
  BY SMTT(40), <1>2 DEF Connect
<1> QED
  BY <1>1, <1>2

\* A step broadcasts what the central says, or something else, or leaves the
\* status and what goes on in the central as they are.
LEMMA StatusComesFrom ==
  ASSUME TypeOK, [Next]_vars
  PROVE  \/ shown' \in {"idle", "connected"}
         \/ shown' = shown /\ UNCHANGED <<gap, proc, subscribed>>
         \/ /\ \E r \in {refresh, [refresh EXCEPT !.armed = FALSE]} : Relay(r)
            /\ HostTask \/ Scan \/ \E s \in Storages : Connect(s)
<1> USE DEF TypeOK, RelayTypeOK
<1>1. CASE BleEvent
  BY <1>1 DEF BleEvent, Hosted, Report
<1>2. CASE Notification
  BY <1>2 DEF Notification, bleVars
<1>3. CASE LingerExpired
  BY <1>3 DEF LingerExpired, Disconnect, bleVars
<1>4. CASE RefreshLink
  BY <1>4 DEF RefreshLink, bleVars
<1>5. CASE ConnectMessage
  BY <1>5 DEF ConnectMessage, bleVars
<1>6. CASE DisconnectMessage \/ BindMessage \/ Refused
  BY <1>6 DEF DisconnectMessage, Disconnect, BindMessage, Refused, bleVars
<1>7. CASE ScanMessage
  BY <1>7 DEF ScanMessage, bleVars
<1>8. ASSUME NEW f \in Sockets, PostHandshake(f)
      PROVE  shown' \in {"idle", "connected"}
  BY <1>8 DEF PostHandshake
<1>9. ASSUME NEW f \in Sockets, CloseFrame(f) \/ SessionClosed(f) \/ Jam(f)
      PROVE  shown' = shown /\ UNCHANGED <<gap, proc, subscribed>>
  BY <1>9 DEF CloseFrame, SessionClosed, Jam, bleVars
<1>10. CASE UNCHANGED vars
  BY <1>10 DEF vars, bleVars, relayVars
<1> QED
  BY <1>1, <1>2, <1>3, <1>4, <1>5, <1>6, <1>7, <1>8, <1>9, <1>10
  DEF Next, Timers, Messages, SocketsChange

\* ble_central.c:573: browsers that are shown "connecting" are never shown it of a dial
\* that is over or of a link that is ready: whatever ends the one or makes the
\* other says so.  ConnectingEnds needs no more than that what runs comes to an end.
THEOREM ConnectingIsUnderWayCorrect ==
  ASSUME OneStorage
  PROVE  Spec => []ConnectingIsUnderWay
<1>1. Init => BleInv /\ BooksInv /\ TypeOK /\ RelayInv /\ ConnectingIsUnderWay
  BY BleInitInv, BooksInit, TypeInit, RelayInit DEF Init, ConnectingIsUnderWay
<1>2. BleInv /\ BooksInv /\ TypeOK /\ RelayInv /\ ConnectingIsUnderWay /\ [Next]_vars
        => (BleInv /\ BooksInv /\ TypeOK /\ RelayInv /\ ConnectingIsUnderWay)'
  <2> SUFFICES ASSUME BleInv, BooksInv, TypeOK, RelayInv, ConnectingIsUnderWay, [Next]_vars
               PROVE  ConnectingIsUnderWay'
    BY RelayStep
  <2>1. CASE shown' \in {"idle", "connected"}
    BY <2>1 DEF ConnectingIsUnderWay
  <2>2. CASE shown' = shown /\ UNCHANGED <<gap, proc, subscribed>>
    BY <2>2 DEF ConnectingIsUnderWay, DialUnderWay, Links
  <2>3. ASSUME NEW r, Relay(r), HostTask \/ Scan \/ \E s \in Storages : Connect(s)
        PROVE  ConnectingIsUnderWay'
    <3>1. EndIsSaid
      BY <2>3, HostTaskSaysEnd, ApiSaysEnd
    <3>2. CASE said' = <<>>
      BY <2>3, <3>1, <3>2 DEF Relay, EndIsSaid, ConnectingIsUnderWay
    <3>3. CASE said' # <<>>
      BY <2>3, <3>1, <3>3 DEF Relay, EndIsSaid, ConnectingIsUnderWay
    <3> QED
      BY <3>2, <3>3
  <2> QED
    BY <2>1, <2>2, <2>3, StatusComesFrom
<1> QED
  BY <1>1, <1>2, PTL DEF Spec
================================================================================
