------------------------------ MODULE Wifi_proofs ------------------------------
(***************************************************************************)
(* Proofs about Wifi, for any networks, callers and bounds: its types, that *)
(* an address is not reported for longer than its loss takes to be handled, *)
(* that only credentials that worked are stored, that the driver is         *)
(* configured for the network that is shown, and that nothing but an        *)
(* address or the access point ends the wait for one of them.               *)
(***************************************************************************)
EXTENDS Wifi, TLAPS

Kinds == {"start", "lost", "ip"}

\* An address on its way to on_got_ip is still there, or its loss is behind it.
AddressIsTrue ==
    \A i \in 1 .. Len(events) : events[i] = "ip" =>
        sta = "up" \/ \E j \in 1 .. Len(events) : i < j /\ events[j] = "lost"

\* A bridge that has not started reports nothing.
OffIsSilent == sta = "off" => ~connected /\ events = <<>>

\* A trial that runs alone owns the station: what it waits for is its own.
TrialIsAlone ==
    ~overlapped => \A c, d \in Callers : pc[c] # "idle" /\ pc[d] # "idle" => c = d

TrialOwnsStation ==
    ~overlapped => \A c \in Callers : pc[c] = "wait" =>
        /\ config = want[c]
        /\ sta # "idle" => net = want[c]
        /\ Contains(events, "ip") \/ "connected" \in bits => want[c] \in worked

TrialIsForNetwork ==
    \A c \in Callers : pc[c] # "idle" => want[c] \in Networks /\ sta # "off"

\* Outside the wait for a trial's result the driver has the settings shown, or
\* has refused them.
SettingsAreBack ==
    ~overlapped /\ sta # "off" /\ (\A c \in Callers : pc[c] # "wait")
        => config = ssid \/ refused

BuiltInUntilStored == ~fromNvs => ssid \in {None, BuiltIn}

\* What will in the end lead to another attempt, or never has to.
UnderWay == sta # "idle" \/ events # <<>> \/ retryTimer \/ lostInTrial

\* KeepsTrying, said of what is under way.
NotGivenUp == ssid # None /\ (\A c \in Callers : pc[c] = "idle") => UnderWay

\* s_trying is only set while somebody will clear it.
SomebodyTries == trying => \E c \in Callers : pc[c] # "idle"

\* STA_START has been handled long before anything is tried.
StartIsOver == (\E c \in Callers : pc[c] = "wait") => ~Contains(events, "start")

\* A trial that returns with an address leaves a station that is up, or whose
\* loss will be noticed.
TrialLeavesTrack ==
    \A c \in Callers : pc[c] = "wait" /\ "connected" \in bits =>
        UnderWay \/ \E d \in Callers : pc[d] = "settle"

WfInv ==
    /\ WfTypeOK
    /\ ConnectedIsTrue /\ AddressIsTrue /\ OffIsSilent
    /\ TrialIsAlone /\ TrialOwnsStation /\ TrialIsForNetwork
    /\ SettingsAreBack /\ BuiltInUntilStored /\ StoredWorked
    /\ SomebodyTries /\ StartIsOver /\ TrialLeavesTrack /\ NotGivenUp

-----------------------------------------------------------------------------
(* The event queue *)

LEMMA AppendKeeps ==
  ASSUME NEW S, NEW s \in Seq(S), NEW x \in S, NEW e
  PROVE  Contains(Append(s, x), e) <=> Contains(s, e) \/ x = e
<1>1. /\ Len(Append(s, x)) = Len(s) + 1 /\ Len(s) \in Nat
      /\ Append(s, x)[Len(s) + 1] = x
      /\ \A i \in 1 .. Len(s) : Append(s, x)[i] = s[i]
  OBVIOUS
<1> QED BY <1>1 DEF Contains

LEMMA TailKeeps ==
  ASSUME NEW S, NEW s \in Seq(S), s # <<>>, NEW e
  PROVE  /\ Contains(Tail(s), e) => Contains(s, e)
         /\ Contains(s, e) => Contains(Tail(s), e) \/ Head(s) = e
<1>1. /\ Len(Tail(s)) = Len(s) - 1 /\ Len(s) \in Nat \ {0}
      /\ Head(s) = s[1]
      /\ \A i \in 1 .. Len(s) - 1 : Tail(s)[i] = s[i + 1]
  OBVIOUS
<1>2. Contains(Tail(s), e) => Contains(s, e)
  <2> SUFFICES ASSUME NEW i \in 1 .. Len(s) - 1, Tail(s)[i] = e
               PROVE  Contains(s, e)
    BY <1>1 DEF Contains
  <2> i + 1 \in 1 .. Len(s) /\ s[i + 1] = e
    BY <1>1
  <2> QED BY DEF Contains
<1>3. Contains(s, e) => Contains(Tail(s), e) \/ Head(s) = e
  <2> SUFFICES ASSUME NEW i \in 1 .. Len(s), s[i] = e, i # 1
               PROVE  Contains(Tail(s), e)
    BY <1>1 DEF Contains
  <2> i - 1 \in 1 .. Len(s) - 1 /\ Tail(s)[i - 1] = e
    BY <1>1
  <2> QED BY <1>1 DEF Contains
<1> QED BY <1>2, <1>3

-----------------------------------------------------------------------------
(* Types *)

LEMMA DriverTypes ==
  ASSUME WfTypeOK, Driver
  PROVE  WfTypeOK'
<1> USE WifiAssumption DEF WfTypeOK, Known, trial, timers, history, driver
<1>1. CASE Lose
  <2>1. FlagsOK'
    BY <1>1, Zenon DEF Lose, FlagsOK
  <2>2. DataOK'
    BY <1>1 DEF Lose, DataOK
  <2> QED BY <2>1, <2>2
<1>2. CASE Associate
  <2>1. FlagsOK'
    BY <1>2, Zenon DEF Associate, FlagsOK
  <2>2. DataOK'
    BY <1>2 DEF Associate, DataOK
  <2> QED BY <2>1, <2>2
<1>3. CASE GetAddress
  <2>1. FlagsOK'
    BY <1>3, Zenon DEF GetAddress, FlagsOK
  <2>2. DataOK'
    BY <1>3 DEF GetAddress, DataOK
  <2> QED BY <2>1, <2>2
<1> QED BY <1>1, <1>2, <1>3 DEF Driver

LEMMA EventTypes ==
  ASSUME WfTypeOK, EventLoop
  PROVE  WfTypeOK'
<1> USE WifiAssumption DEF WfTypeOK, Known, trial, timers, history, driver
<1>1. CASE OnStart
  <2>1. FlagsOK'
    BY <1>1, Zenon DEF OnStart, Handle, Connect, FlagsOK
  <2>2. DataOK'
    BY <1>1 DEF OnStart, Handle, Connect, DataOK
  <2> QED BY <2>1, <2>2
<1>2. CASE LostInTrial
  <2>1. FlagsOK'
    BY <1>2, Zenon DEF LostInTrial, Handle, FlagsOK
  <2>2. DataOK'
    BY <1>2 DEF LostInTrial, Handle, DataOK
  <2> QED BY <2>1, <2>2
<1>3. CASE Lost
  <2>1. FlagsOK'
    BY <1>3, Zenon DEF Lost, Handle, Connect, FlagsOK
  <2>2. DataOK'
    BY <1>3 DEF Lost, Handle, Connect, DataOK
  <2> QED BY <2>1, <2>2
<1>4. CASE OnGotIp
  <2>1. FlagsOK'
    BY <1>4, Zenon DEF OnGotIp, Handle, FlagsOK
  <2>2. DataOK'
    BY <1>4 DEF OnGotIp, Handle, DataOK
  <2> QED BY <2>1, <2>2
<1> QED BY <1>1, <1>2, <1>3, <1>4 DEF EventLoop

LEMMA TrialTypes ==
  ASSUME WfTypeOK, Trial
  PROVE  WfTypeOK'
<1> USE WifiAssumption DEF WfTypeOK, Known, trial, timers, history, driver
<1>1. ASSUME NEW c \in Callers, NEW n \in Networks, Provision(c, n)
      PROVE  WfTypeOK'
  <2>1. FlagsOK'
    BY <1>1, Zenon DEF Provision, FlagsOK
  <2>2. DataOK'
    BY <1>1 DEF Provision, DataOK
  <2> QED BY <2>1, <2>2
<1>2. ASSUME NEW c \in Callers, Settled(c)
      PROVE  WfTypeOK'
  <2>1. FlagsOK'
    BY <1>2, Zenon DEF Settled, GiveUpOn, FlagsOK
  <2>2. DataOK'
    BY <1>2 DEF Settled, GiveUpOn, DataOK
  <2> QED BY <2>1, <2>2
<1>3. ASSUME NEW c \in Callers, Kept(c)
      PROVE  WfTypeOK'
  <2>1. FlagsOK'
    BY <1>3, Zenon DEF Kept, FlagsOK
  <2>2. DataOK'
    BY <1>3 DEF Kept, DataOK
  <2> QED BY <2>1, <2>2
<1>4. ASSUME NEW c \in Callers, GivenUp(c)
      PROVE  WfTypeOK'
  <2>1. FlagsOK'
    BY <1>4, Zenon DEF GivenUp, GiveUpOn, FlagsOK
  <2>2. DataOK'
    BY <1>4 DEF GivenUp, GiveUpOn, DataOK
  <2> QED BY <2>1, <2>2
<1> QED BY <1>1, <1>2, <1>3, <1>4 DEF Trial

LEMMA OtherTypes ==
  ASSUME WfTypeOK, Start \/ RetryNow \/ FallbackExpired \/ Forget \/ Restart
  PROVE  WfTypeOK'
<1> USE WifiAssumption DEF WfTypeOK, Known, trial, timers, history, driver
<1>1. CASE Start
  <2>1. FlagsOK'
    BY <1>1, Zenon DEF Start, FlagsOK
  <2>2. DataOK'
    BY <1>1 DEF Start, DataOK
  <2> QED BY <2>1, <2>2
<1>2. CASE RetryNow
  <2>1. FlagsOK'
    BY <1>2, Zenon DEF RetryNow, Connect, FlagsOK
  <2>2. DataOK'
    BY <1>2 DEF RetryNow, Connect, DataOK
  <2> QED BY <2>1, <2>2
<1>3. CASE FallbackExpired
  <2>1. FlagsOK'
    BY <1>3, Zenon DEF FallbackExpired, FlagsOK
  <2>2. DataOK'
    BY <1>3 DEF FallbackExpired, DataOK
  <2> QED BY <2>1, <2>2
<1>4. CASE Forget
  <2>1. FlagsOK'
    BY <1>4, Zenon DEF Forget, FlagsOK
  <2>2. DataOK'
    BY <1>4 DEF Forget, DataOK
  <2> QED BY <2>1, <2>2
<1>5. CASE Restart
  <2>1. FlagsOK'
    BY <1>5, Zenon DEF Restart, RamLost, FlagsOK
  <2>2. DataOK'
    BY <1>5 DEF Restart, RamLost, DataOK
  <2> QED BY <2>1, <2>2
<1> QED BY <1>1, <1>2, <1>3, <1>4, <1>5

-----------------------------------------------------------------------------
(* What is reported as connected *)

Reported == AddressIsTrue /\ ConnectedIsTrue

LEMMA NothingReported ==
  ASSUME Reported, UNCHANGED <<events, connected>>, sta = "up" => sta' = "up"
  PROVE  Reported'
  BY DEF Reported, AddressIsTrue, ConnectedIsTrue

LEMMA LossQueued ==
  ASSUME WfTypeOK, events' = Append(events, "lost")
  PROVE  Reported'
<1>1. events \in Seq(Kinds) /\ "lost" \in Kinds
  BY DEF WfTypeOK, DataOK, Kinds
<1>2. /\ Len(events') = Len(events) + 1 /\ Len(events) \in Nat
      /\ events'[Len(events) + 1] = "lost"
  BY <1>1
<1>3. ConnectedIsTrue'
  BY <1>1, AppendKeeps DEF ConnectedIsTrue
<1>4. AddressIsTrue'
  <2> SUFFICES ASSUME NEW i \in 1 .. Len(events'), events'[i] = "ip"
               PROVE  \E j \in 1 .. Len(events') : i < j /\ events'[j] = "lost"
    BY DEF AddressIsTrue
  <2>1. i # Len(events) + 1
    BY <1>2
  <2>2. i < Len(events) + 1 /\ Len(events) + 1 \in 1 .. Len(events')
    BY <2>1, <1>2
  <2> QED BY <2>2, <1>2
<1> QED BY <1>3, <1>4 DEF Reported

LEMMA HandledKeepsAddress ==
  ASSUME WfTypeOK, AddressIsTrue, events # <<>>, events' = Tail(events),
         sta = "up" => sta' = "up"
  PROVE  AddressIsTrue'
<1>1. /\ Len(events') = Len(events) - 1 /\ Len(events) \in Nat \ {0}
      /\ \A i \in 1 .. Len(events) - 1 : events'[i] = events[i + 1]
  BY DEF WfTypeOK, DataOK
<1> SUFFICES ASSUME NEW i \in 1 .. Len(events'), events'[i] = "ip", sta' # "up"
             PROVE  \E j \in 1 .. Len(events') : i < j /\ events'[j] = "lost"
  BY DEF AddressIsTrue
<1>2. i + 1 \in 1 .. Len(events) /\ events[i + 1] = "ip" /\ sta # "up"
  BY <1>1
<1>3. PICK j \in 1 .. Len(events) : i + 1 < j /\ events[j] = "lost"
  BY <1>2 DEF AddressIsTrue
<1>4. j - 1 \in 1 .. Len(events') /\ i < j - 1 /\ events'[j - 1] = "lost"
  BY <1>1, <1>3
<1> QED BY <1>4

LEMMA HandledKeepsReported ==
  ASSUME WfTypeOK, Reported, EventLoop
  PROVE  Reported'
<1>1. events # <<>> /\ events' = Tail(events) /\ (sta = "up" => sta' = "up")
  BY DEF EventLoop, OnStart, LostInTrial, Lost, OnGotIp, Handle, Connect, driver
<1>2. AddressIsTrue'
  BY <1>1, HandledKeepsAddress DEF Reported
<1>3. events \in Seq(Kinds)
  BY DEF WfTypeOK, DataOK, Kinds
<1>4. CASE OnStart
  <2>1. connected' = connected /\ Head(events) = "start"
    BY <1>4 DEF OnStart, Handle
  <2>2. Contains(events, "lost") => Contains(Tail(events), "lost")
    BY <2>1, <1>1, <1>3, TailKeeps
  <2> QED BY <2>1, <2>2, <1>1, <1>2 DEF Reported, ConnectedIsTrue
<1>5. CASE LostInTrial \/ Lost
  <2>1. connected' = FALSE
    BY <1>5 DEF LostInTrial, Lost
  <2> QED BY <2>1, <1>2 DEF Reported, ConnectedIsTrue
<1>6. CASE OnGotIp
  <2>1. events[1] = "ip" /\ 1 \in 1 .. Len(events) /\ sta' = sta
    BY <1>6, <1>1, <1>3 DEF OnGotIp, Handle, driver
  <2>2. CASE sta = "up"
    BY <2>1, <2>2, <1>2 DEF Reported, ConnectedIsTrue
  <2>3. CASE sta # "up"
    <3>1. PICK j \in 1 .. Len(events) : 1 < j /\ events[j] = "lost"
      BY <2>1, <2>3 DEF Reported, AddressIsTrue
    <3>2. j - 1 \in 1 .. Len(Tail(events)) /\ Tail(events)[j - 1] = "lost"
      BY <3>1, <1>1, <1>3
    <3> QED BY <3>2, <1>1, <1>2 DEF Reported, ConnectedIsTrue, Contains
  <2> QED BY <2>2, <2>3
<1> QED BY <1>4, <1>5, <1>6 DEF EventLoop

LEMMA DriverKeepsReported ==
  ASSUME WfTypeOK, Reported, Driver
  PROVE  Reported'
<1>1. CASE Lose
  BY <1>1, LossQueued DEF Lose
<1>2. CASE Associate
  BY <1>2, NothingReported DEF Associate
<1>3. CASE GetAddress
  BY <1>3 DEF GetAddress, Reported, AddressIsTrue, ConnectedIsTrue
<1> QED BY <1>1, <1>2, <1>3 DEF Driver

LEMMA TrialKeepsReported ==
  ASSUME WfTypeOK, Reported, Trial
  PROVE  Reported'
<1>1. ASSUME NEW c \in Callers, NEW n \in Networks, Provision(c, n)
      PROVE  Reported'
  <2>1. CASE sta = "idle" /\ UNCHANGED <<sta, events>>
    BY <2>1, <1>1, NothingReported DEF Provision
  <2>2. CASE events' = Append(events, "lost")
    BY <2>2, LossQueued
  <2> QED BY <1>1, <2>1, <2>2 DEF Provision
<1>2. ASSUME NEW c \in Callers, Settled(c) \/ Kept(c) \/ GivenUp(c)
      PROVE  Reported'
  <2>1. UNCHANGED <<events, connected>> /\ (sta = "up" => sta' = "up")
    BY <1>2 DEF Settled, Kept, GivenUp, GiveUpOn, driver
  <2> QED BY <2>1, NothingReported
<1> QED BY <1>1, <1>2 DEF Trial

LEMMA OtherKeepsReported ==
  ASSUME WfTypeOK, Reported, OffIsSilent, Start \/ RetryNow \/ FallbackExpired \/ Forget \/ Restart
  PROVE  Reported'
<1>1. CASE Start
  <2>1. ~connected' /\ events' = <<"start">>
    BY <1>1 DEF Start, OffIsSilent
  <2> QED BY <2>1 DEF Reported, AddressIsTrue, ConnectedIsTrue
<1>2. CASE RetryNow \/ FallbackExpired \/ Forget
  <2>1. UNCHANGED <<events, connected>> /\ (sta = "up" => sta' = "up")
    BY <1>2 DEF RetryNow, FallbackExpired, Forget, Connect, driver
  <2> QED BY <2>1, NothingReported
<1>3. CASE Restart
  BY <1>3 DEF Restart, RamLost, Reported, AddressIsTrue, ConnectedIsTrue
<1> QED BY <1>1, <1>2, <1>3

LEMMA NextKeepsSilent ==
  ASSUME OffIsSilent, Next
  PROVE  OffIsSilent'
<1> SUFFICES ASSUME sta' = "off"
             PROVE  ~connected' /\ events' = <<>>
  BY DEF OffIsSilent
<1>1. CASE Restart
  BY <1>1 DEF Restart, RamLost
<1>2. CASE sta = "off"
  <2>1. ~connected /\ events = <<>>
    BY <1>2 DEF OffIsSilent
  <2>2. CASE Start
    BY <2>2, <1>2 DEF Start
  <2>3. CASE Driver \/ EventLoop
    BY <2>3, <2>1, <1>2 DEF Driver, Lose, Associate, GetAddress, EventLoop, OnStart,
       LostInTrial, Lost, OnGotIp, Handle
  <2>4. CASE RetryNow \/ FallbackExpired \/ Forget
    BY <2>4, <2>1 DEF RetryNow, FallbackExpired, Forget
  <2>5. CASE Trial
    BY <2>5, <2>1, <1>2 DEF Trial, Provision, Settled, Kept, GivenUp
  <2> QED BY <1>1, <2>2, <2>3, <2>4, <2>5 DEF Next
<1>3. CASE sta # "off" /\ ~Restart
  BY <1>3 DEF Next, Start, Driver, Lose, Associate, GetAddress, EventLoop, OnStart,
     LostInTrial, Lost, OnGotIp, Connect, RetryNow, FallbackExpired, Forget, Trial,
     Provision, Settled, Kept, GivenUp, GiveUpOn, driver
<1> QED BY <1>1, <1>2, <1>3

-----------------------------------------------------------------------------
(* Trials, settings and what is stored *)

TrialInv ==
    /\ TrialIsAlone /\ TrialOwnsStation /\ TrialIsForNetwork
    /\ SettingsAreBack /\ BuiltInUntilStored /\ StoredWorked

\* Steps that leave trials and settings alone, and the station with its network.
LEMMA NothingTried ==
  ASSUME TrialInv,
         UNCHANGED <<stored, ssid, fromNvs, config, refused, pc, want, overlapped>>,
         worked \subseteq worked',
         sta # "off" /\ sta' # "off",
         sta' # "idle" => (sta # "idle" /\ net' = net) \/ net' = config,
         \A c \in Callers : ~overlapped /\ pc[c] = "wait" =>
             (Contains(events', "ip") \/ "connected" \in bits' => want[c] \in worked')
  PROVE  TrialInv'
<1>1. (TrialIsAlone /\ TrialIsForNetwork)'
  BY DEF TrialInv, TrialIsAlone, TrialIsForNetwork
<1>2. TrialOwnsStation'
  BY DEF TrialInv, TrialOwnsStation
<1>3. (SettingsAreBack /\ BuiltInUntilStored /\ StoredWorked)'
  BY DEF TrialInv, SettingsAreBack, BuiltInUntilStored, StoredWorked
<1> QED BY <1>1, <1>2, <1>3 DEF TrialInv

LEMMA DriverKeepsTrial ==
  ASSUME WfTypeOK, TrialInv, Driver
  PROVE  TrialInv'
<1>1. events \in Seq(Kinds) /\ {"lost", "ip"} \subseteq Kinds
  BY DEF WfTypeOK, DataOK, Kinds
<1>2. CASE Lose
  <2>1. Contains(events', "ip") => Contains(events, "ip")
    BY <1>1, <1>2, AppendKeeps DEF Lose
  <2> QED BY <1>2, <2>1, NothingTried DEF Lose, trial, history, TrialInv, TrialOwnsStation
<1>3. CASE Associate
  BY <1>3, NothingTried DEF Associate, trial, history, TrialInv, TrialOwnsStation
<1>4. CASE GetAddress
  <2>1. ASSUME NEW c \in Callers, ~overlapped, pc[c] = "wait"
        PROVE  want[c] \in worked'
    <3>1. net = want[c] /\ want[c] \in Networks
      BY <1>4, <2>1 DEF GetAddress, TrialInv, TrialOwnsStation, TrialIsForNetwork
    <3> QED BY <3>1, <1>4, WifiAssumption DEF GetAddress
  <2> QED BY <1>4, <2>1, NothingTried DEF GetAddress, trial
<1> QED BY <1>2, <1>3, <1>4 DEF Driver

LEMMA HandledKeepsTrial ==
  ASSUME WfTypeOK, TrialInv, OffIsSilent, EventLoop
  PROVE  TrialInv'
<1>1. events # <<>> /\ events' = Tail(events) /\ sta # "off" /\ sta' # "off"
  BY DEF EventLoop, OnStart, LostInTrial, Lost, OnGotIp, Handle, Connect, driver, OffIsSilent
<1>2. events \in Seq(Kinds)
  BY DEF WfTypeOK, DataOK, Kinds
<1>3. Contains(events', "ip") => Contains(events, "ip")
  BY <1>1, <1>2, TailKeeps
<1>4. CASE OnStart
  BY <1>4, <1>1, <1>3, NothingTried
     DEF OnStart, Connect, trial, history, TrialInv, TrialOwnsStation
<1>5. CASE LostInTrial
  BY <1>5, <1>1, <1>3, NothingTried
     DEF LostInTrial, driver, trial, TrialInv, TrialOwnsStation
<1>6. CASE Lost
  BY <1>6, <1>1, <1>3, NothingTried
     DEF Lost, Connect, trial, history, TrialInv, TrialOwnsStation
<1>7. CASE OnGotIp
  <2>1. Contains(events, "ip")
    <3>1. 1 \in 1 .. Len(events) /\ events[1] = "ip"
      BY <1>7, <1>1, <1>2 DEF OnGotIp, Handle
    <3> QED BY <3>1 DEF Contains
  <2>2. /\ UNCHANGED <<ssid, config, refused, sta, net, pc, want, overlapped, worked>>
        /\ \/ ssid # None /\ stored' = ssid /\ fromNvs' = TRUE /\ ~fromNvs
           \/ UNCHANGED <<stored, fromNvs>>
    BY <1>7 DEF OnGotIp, driver, trial
  <2>3. (TrialIsAlone /\ TrialIsForNetwork /\ SettingsAreBack)'
    BY <2>2 DEF TrialInv, TrialIsAlone, TrialIsForNetwork, SettingsAreBack
  <2>4. TrialOwnsStation'
    BY <2>1, <2>2 DEF TrialInv, TrialOwnsStation
  <2>5. (BuiltInUntilStored /\ StoredWorked)'
    BY <2>2 DEF TrialInv, BuiltInUntilStored, StoredWorked
  <2> QED BY <2>3, <2>4, <2>5 DEF TrialInv
<1> QED BY <1>4, <1>5, <1>6, <1>7 DEF EventLoop

LEMMA OtherKeepsTrial ==
  ASSUME WfTypeOK, TrialInv, Start \/ RetryNow \/ FallbackExpired \/ Forget \/ Restart
  PROVE  TrialInv'
<1>1. CASE Start
  <2>1. /\ sta = "off" /\ sta' = "idle" /\ config' = ssid'
        /\ fromNvs' = (stored # None)
        /\ ssid' = IF stored # None THEN stored ELSE BuiltIn
        /\ UNCHANGED <<stored, pc, want, overlapped, worked>>
    BY <1>1 DEF Start, trial, history
  <2>2. \A c \in Callers : pc[c] = "idle"
    BY <2>1 DEF TrialInv, TrialIsForNetwork
  <2> QED BY <2>1, <2>2 DEF TrialInv, TrialIsAlone, TrialOwnsStation, TrialIsForNetwork,
             SettingsAreBack, BuiltInUntilStored, StoredWorked
<1>2. CASE RetryNow
  BY <1>2 DEF RetryNow, Connect, trial, history, TrialInv, TrialIsAlone, TrialOwnsStation,
     TrialIsForNetwork, SettingsAreBack, BuiltInUntilStored, StoredWorked
<1>3. CASE FallbackExpired
  BY <1>3 DEF FallbackExpired, driver, trial, history, TrialInv, TrialIsAlone,
     TrialOwnsStation, TrialIsForNetwork, SettingsAreBack, BuiltInUntilStored, StoredWorked
<1>4. CASE Forget
  BY <1>4 DEF Forget, driver, trial, history, TrialInv, TrialIsAlone, TrialOwnsStation,
     TrialIsForNetwork, SettingsAreBack, BuiltInUntilStored, StoredWorked
<1>5. CASE Restart
  BY <1>5 DEF Restart, RamLost, TrialInv, TrialIsAlone, TrialOwnsStation,
     TrialIsForNetwork, SettingsAreBack, BuiltInUntilStored, StoredWorked
<1> QED BY <1>1, <1>2, <1>3, <1>4, <1>5

LEMMA ProvisionKeepsTrial ==
  ASSUME WfTypeOK, TrialInv, NEW c \in Callers, NEW n \in Networks, Provision(c, n)
  PROVE  TrialInv'
<1>1. /\ pc' = [pc EXCEPT ![c] = "settle"] /\ want' = [want EXCEPT ![c] = n]
      /\ pc[c] = "idle" /\ pc \in [Callers -> {"idle", "settle", "wait"}]
      /\ want \in [Callers -> Known]
      /\ sta # "off" /\ sta' = "idle"
      /\ UNCHANGED <<stored, ssid, fromNvs, bits, config, refused, net, worked>>
  BY DEF Provision, WfTypeOK, DataOK, history
<1>2. ~overlapped' => ~overlapped /\ \A d \in Callers : pc[d] = "idle"
  BY Zenon DEF Provision
<1>3. ~overlapped' => \A d \in Callers : pc'[d] # "wait"
  BY <1>1, <1>2
<1>4. TrialIsAlone' /\ TrialIsForNetwork'
  BY <1>1, <1>2 DEF TrialInv, TrialIsAlone, TrialIsForNetwork
<1>5. TrialOwnsStation'
  BY <1>3 DEF TrialOwnsStation
<1>6. (SettingsAreBack /\ BuiltInUntilStored /\ StoredWorked)'
  BY <1>1, <1>2 DEF TrialInv, SettingsAreBack, BuiltInUntilStored, StoredWorked
<1> QED BY <1>4, <1>5, <1>6 DEF TrialInv

LEMMA SettledKeepsTrial ==
  ASSUME WfTypeOK, TrialInv, NEW c \in Callers, Settled(c)
  PROVE  TrialInv'
<1> USE DEF TrialInv, TrialIsAlone, TrialOwnsStation, TrialIsForNetwork, SettingsAreBack,
            BuiltInUntilStored, StoredWorked
<1>1. /\ pc[c] = "settle" /\ pc \in [Callers -> {"idle", "settle", "wait"}]
      /\ sta # "off"
      /\ events' = <<>> /\ bits' = {} /\ ~Contains(events', "ip")
      /\ UNCHANGED <<stored, ssid, fromNvs, want, overlapped, worked>>
  BY DEF Settled, GiveUpOn, WfTypeOK, DataOK, history, Contains
<1>2. CASE sta = "idle"
  <2>1. /\ pc' = [pc EXCEPT ![c] = "wait"] /\ config' = want[c]
        /\ sta' = "joining" /\ net' = want[c]
    BY <1>2 DEF Settled
  <2> QED BY <1>1, <2>1
<1>3. CASE sta # "idle"
  <2>1. /\ pc' = [pc EXCEPT ![c] = "idle"] /\ config' \in {config, ssid}
        /\ refused' = (config' # ssid)
        /\ sta' = sta /\ net' = net
    BY <1>3 DEF Settled, GiveUpOn
  <2> QED BY <1>1, <2>1
<1> QED BY <1>2, <1>3

LEMMA ResultKeepsTrial ==
  ASSUME WfTypeOK, TrialInv, NEW c \in Callers, Kept(c) \/ GivenUp(c)
  PROVE  TrialInv'
<1> USE DEF TrialInv, TrialIsAlone, TrialOwnsStation, TrialIsForNetwork, SettingsAreBack,
            BuiltInUntilStored, StoredWorked
<1>1. /\ pc[c] = "wait" /\ pc \in [Callers -> {"idle", "settle", "wait"}]
      /\ pc' = [pc EXCEPT ![c] = "idle"]
      /\ sta # "off" /\ sta' # "off"
      /\ UNCHANGED <<bits, events, want, overlapped, worked>>
  BY DEF Kept, GivenUp, GiveUpOn, WfTypeOK, DataOK, history, driver
<1>2. ~overlapped => \A d \in Callers : pc'[d] = "idle"
  BY <1>1
<1>3. CASE Kept(c)
  <2>1. /\ ssid' = want[c] /\ fromNvs' = TRUE /\ stored' \in {stored, want[c]}
        /\ "connected" \in bits /\ UNCHANGED <<config, sta, net>>
    BY <1>3 DEF Kept, driver
  <2> QED BY <1>1, <1>2, <2>1
<1>4. CASE GivenUp(c)
  <2>1. (config' = ssid \/ refused') /\ UNCHANGED <<stored, ssid, fromNvs>>
    BY <1>4 DEF GivenUp, GiveUpOn
  <2> QED BY <1>1, <1>2, <2>1
<1> QED BY <1>3, <1>4

-----------------------------------------------------------------------------
(* The configured network is not given up *)

TrackInv == SomebodyTries /\ StartIsOver /\ TrialLeavesTrack /\ NotGivenUp

\* Steps that are no part of a trial and lead somewhere.
LEMMA StaysUnderWay ==
  ASSUME TrackInv, UNCHANGED <<pc, trying, bits, ssid>>, UnderWay => UnderWay',
         Contains(events', "start") => Contains(events, "start")
  PROVE  TrackInv'
  BY DEF TrackInv, SomebodyTries, StartIsOver, TrialLeavesTrack, NotGivenUp

LEMMA DriverKeepsTrack ==
  ASSUME WfTypeOK, TrackInv, Driver
  PROVE  TrackInv'
<1>1. events \in Seq(Kinds) /\ {"lost", "ip"} \subseteq Kinds
  BY DEF WfTypeOK, DataOK, Kinds
<1>2. CASE Lose
  <2>1. Contains(events', "start") => Contains(events, "start")
    BY <1>1, <1>2, AppendKeeps DEF Lose
  <2>2. events' # <<>>
    BY <1>1, <1>2 DEF Lose
  <2> QED BY <1>2, <2>1, <2>2, StaysUnderWay DEF Lose, trial, UnderWay
<1>3. CASE Associate
  BY <1>3, StaysUnderWay DEF Associate, trial, UnderWay
<1>4. CASE GetAddress
  <2>1. Contains(events', "start") => Contains(events, "start")
    BY <1>1, <1>4, AppendKeeps DEF GetAddress
  <2> QED BY <1>4, <2>1, StaysUnderWay DEF GetAddress, trial, UnderWay
<1> QED BY <1>2, <1>3, <1>4 DEF Driver

LEMMA HandledKeepsTrack ==
  ASSUME WfTypeOK, Reported, TrackInv, EventLoop
  PROVE  TrackInv'
<1>1. /\ events # <<>> /\ events' = Tail(events) /\ events \in Seq(Kinds)
      /\ UNCHANGED <<pc, trying, ssid>>
  BY DEF EventLoop, OnStart, LostInTrial, Lost, OnGotIp, Handle, WfTypeOK, DataOK, Kinds, trial
<1>2. Contains(events', "start") => Contains(events, "start")
  BY <1>1, TailKeeps
<1>3. SomebodyTries' /\ StartIsOver'
  BY <1>1, <1>2 DEF TrackInv, SomebodyTries, StartIsOver
<1>4. CASE OnStart
  <2>1. Contains(events, "start")
    <3>1. 1 \in 1 .. Len(events) /\ events[1] = "start"
      BY <1>4, <1>1 DEF OnStart, Handle
    <3> QED BY <3>1 DEF Contains
  <2>2. TrialLeavesTrack'
    BY <1>1, <2>1 DEF TrackInv, StartIsOver, TrialLeavesTrack
  <2>3. NotGivenUp'
    BY <1>1, <1>4 DEF OnStart, Connect, NotGivenUp, UnderWay
  <2> QED BY <1>3, <2>2, <2>3 DEF TrackInv
<1>5. CASE LostInTrial
  <2>1. \E c \in Callers : pc'[c] # "idle"
    BY <1>1, <1>5 DEF LostInTrial, TrackInv, SomebodyTries
  <2>2. ASSUME NEW c \in Callers, pc'[c] = "wait", "connected" \in bits'
        PROVE  lostInTrial'
    BY <1>1, <1>5, <2>2 DEF LostInTrial
  <2> QED BY <1>3, <2>1, <2>2 DEF TrackInv, TrialLeavesTrack, NotGivenUp, UnderWay
<1>6. CASE Lost
  <2>1. UnderWay'
    BY <1>6 DEF Lost, Connect, UnderWay
  <2> QED BY <1>3, <2>1 DEF TrackInv, TrialLeavesTrack, NotGivenUp
<1>7. CASE OnGotIp
  <2>1. 1 \in 1 .. Len(events) /\ events[1] = "ip" /\ sta' = sta
    BY <1>7, <1>1 DEF OnGotIp, Handle, driver
  <2>2. sta = "up" \/ \E j \in 1 .. Len(events) : 1 < j
    BY <2>1 DEF Reported, AddressIsTrue
  <2>3. UnderWay'
    BY <1>1, <2>1, <2>2 DEF UnderWay
  <2> QED BY <1>3, <2>3 DEF TrackInv, TrialLeavesTrack, NotGivenUp
<1> QED BY <1>4, <1>5, <1>6, <1>7 DEF EventLoop

LEMMA TrialKeepsTrack ==
  ASSUME WfTypeOK, TrackInv, Trial
  PROVE  TrackInv'
<1>1. /\ pc \in [Callers -> {"idle", "settle", "wait"}]
      /\ events \in Seq(Kinds) /\ "lost" \in Kinds
  BY DEF WfTypeOK, DataOK, Kinds
<1>2. ASSUME NEW c \in Callers, NEW n \in Networks, Provision(c, n)
      PROVE  TrackInv'
  <2>1. pc' = [pc EXCEPT ![c] = "settle"] /\ bits' = bits
    BY <1>2 DEF Provision
  <2>2. pc'[c] = "settle" /\ \A d \in Callers : pc'[d] = "wait" => pc[d] = "wait"
    BY <1>1, <2>1
  <2>3. Contains(events', "start") => Contains(events, "start")
    <3>1. events' = events \/ events' = Append(events, "lost")
      BY <1>2 DEF Provision
    <3> QED BY <1>1, <3>1, AppendKeeps
  <2>4. SomebodyTries' /\ NotGivenUp' /\ TrialLeavesTrack'
    BY <2>2 DEF SomebodyTries, NotGivenUp, TrialLeavesTrack
  <2>5. StartIsOver'
    BY <2>2, <2>3 DEF TrackInv, StartIsOver
  <2> QED BY <2>4, <2>5 DEF TrackInv
<1>3. ASSUME NEW c \in Callers, Settled(c)
      PROVE  TrackInv'
  <2>1. events' = <<>> /\ bits' = {} /\ ~Contains(events', "start")
    BY <1>3 DEF Settled, Contains
  <2>2. StartIsOver' /\ TrialLeavesTrack'
    BY <2>1 DEF StartIsOver, TrialLeavesTrack
  <2>3. CASE sta = "idle"
    <3>1. pc'[c] = "wait"
      BY <1>1, <1>3, <2>3 DEF Settled
    <3> QED BY <2>2, <3>1 DEF TrackInv, SomebodyTries, NotGivenUp
  <2>4. CASE sta # "idle"
    <3>1. trying' = FALSE /\ sta' # "idle"
      BY <1>3, <2>4 DEF Settled, GiveUpOn
    <3> QED BY <2>2, <3>1 DEF TrackInv, SomebodyTries, NotGivenUp, UnderWay
  <2> QED BY <2>3, <2>4
<1>4. ASSUME NEW c \in Callers, Kept(c) \/ GivenUp(c)
      PROVE  TrackInv'
  <2>1. /\ pc[c] = "wait" /\ pc' = [pc EXCEPT ![c] = "idle"]
        /\ trying' = FALSE /\ UNCHANGED <<bits, events, retryTimer, lostInTrial>>
    BY <1>4 DEF Kept, GivenUp, GiveUpOn, timers, history
  <2>2. \A d \in Callers : (pc'[d] = "wait" => pc[d] = "wait")
                         /\ (pc[d] = "settle" => pc'[d] = "settle")
    BY <1>1, <2>1
  <2>3. SomebodyTries' /\ StartIsOver'
    BY <2>1, <2>2 DEF TrackInv, SomebodyTries, StartIsOver
  <2>4. CASE Kept(c)
    <3>1. "connected" \in bits /\ sta' = sta
      BY <2>4 DEF Kept, driver
    <3>2. UnderWay \/ \E d \in Callers : pc[d] = "settle"
      BY <2>1, <3>1 DEF TrackInv, TrialLeavesTrack
    <3>3. UnderWay' \/ \E d \in Callers : pc'[d] = "settle"
      BY <2>1, <2>2, <3>1, <3>2 DEF UnderWay
    <3> QED BY <2>3, <3>3 DEF TrackInv, TrialLeavesTrack, NotGivenUp
  <2>5. CASE GivenUp(c)
    <3>1. "connected" \notin bits' /\ (ssid' # None => sta' # "idle")
      BY <2>1, <2>5 DEF GivenUp, GiveUpOn
    <3> QED BY <2>3, <3>1 DEF TrackInv, TrialLeavesTrack, NotGivenUp, UnderWay
  <2> QED BY <1>4, <2>4, <2>5
<1> QED BY <1>2, <1>3, <1>4 DEF Trial

LEMMA OtherKeepsTrack ==
  ASSUME WfTypeOK, TrackInv, TrialIsForNetwork,
         Start \/ RetryNow \/ FallbackExpired \/ Forget \/ Restart
  PROVE  TrackInv'
<1>1. CASE Start
  <2>1. \A c \in Callers : pc'[c] = "idle"
    BY <1>1 DEF Start, TrialIsForNetwork, trial
  <2>2. events' # <<>> /\ trying' = trying
    BY <1>1 DEF Start, trial
  <2>3. SomebodyTries'
    BY <1>1 DEF Start, trial, TrackInv, SomebodyTries
  <2> QED BY <2>1, <2>2, <2>3 DEF TrackInv, StartIsOver, TrialLeavesTrack, NotGivenUp, UnderWay
<1>2. CASE RetryNow
  BY <1>2, StaysUnderWay DEF RetryNow, Connect, trial, UnderWay
<1>3. CASE FallbackExpired \/ Forget
  BY <1>3, StaysUnderWay DEF FallbackExpired, Forget, driver, trial, timers, history, UnderWay
<1>4. CASE Restart
  <2>1. /\ \A c \in Callers : pc'[c] = "idle"
        /\ trying' = FALSE /\ sta' = "off"
    BY <1>4 DEF Restart, RamLost
  <2> QED BY <2>1 DEF TrackInv, SomebodyTries, StartIsOver, TrialLeavesTrack, NotGivenUp, UnderWay
<1> QED BY <1>1, <1>2, <1>3, <1>4

-----------------------------------------------------------------------------

LEMMA WfInitInv == Init => WfInv
<1> SUFFICES ASSUME Init
             PROVE  WfInv
  OBVIOUS
<1>1. FlagsOK
  BY DEF Init, FlagsOK
<1>2. DataOK
  BY WifiAssumption DEF Init, DataOK, Known
<1>3. ConnectedIsTrue /\ AddressIsTrue /\ OffIsSilent
  BY DEF Init, ConnectedIsTrue, AddressIsTrue, OffIsSilent
<1>4. TrialInv
  BY DEF Init, TrialInv, TrialIsAlone, TrialOwnsStation, TrialIsForNetwork,
     SettingsAreBack, BuiltInUntilStored, StoredWorked
<1>5. TrackInv
  BY DEF Init, TrackInv, SomebodyTries, StartIsOver, TrialLeavesTrack, NotGivenUp, UnderWay
<1> QED BY <1>1, <1>2, <1>3, <1>4, <1>5 DEF WfInv, WfTypeOK, TrialInv, TrackInv

LEMMA WfStepInv == WfInv /\ [Next]_vars => WfInv'
<1> SUFFICES ASSUME WfInv, [Next]_vars
             PROVE  WfInv'
  OBVIOUS
<1>1. WfTypeOK /\ Reported /\ OffIsSilent /\ TrialInv /\ TrackInv
  BY DEF WfInv, Reported, TrialInv, TrackInv
<1>2. CASE Next
  <2>1. WfTypeOK'
    BY <1>1, <1>2, DriverTypes, EventTypes, TrialTypes, OtherTypes DEF Next
  <2>2. Reported'
    BY <1>1, <1>2, DriverKeepsReported, HandledKeepsReported, TrialKeepsReported,
       OtherKeepsReported DEF Next
  <2>3. OffIsSilent'
    BY <1>1, <1>2, NextKeepsSilent
  <2>4. TrialInv'
    <3>1. CASE Driver
      BY <1>1, <3>1, DriverKeepsTrial
    <3>2. CASE EventLoop
      BY <1>1, <3>2, HandledKeepsTrial
    <3>3. CASE Start \/ RetryNow \/ FallbackExpired \/ Forget \/ Restart
      BY <1>1, <3>3, OtherKeepsTrial
    <3>4. ASSUME NEW c \in Callers, NEW n \in Networks, Provision(c, n)
          PROVE  TrialInv'
      BY <1>1, <3>4, ProvisionKeepsTrial
    <3>5. ASSUME NEW c \in Callers, Settled(c)
          PROVE  TrialInv'
      BY <1>1, <3>5, SettledKeepsTrial
    <3>6. ASSUME NEW c \in Callers, Kept(c) \/ GivenUp(c)
          PROVE  TrialInv'
      BY <1>1, <3>6, ResultKeepsTrial
    <3> QED BY <1>2, <3>1, <3>2, <3>3, <3>4, <3>5, <3>6 DEF Next, Trial
  <2>5. TrialIsForNetwork
    BY <1>1 DEF TrialInv
  <2>6. TrackInv'
    BY <1>1, <1>2, <2>5, DriverKeepsTrack, HandledKeepsTrack, TrialKeepsTrack,
       OtherKeepsTrack DEF Next
  <2> QED BY <2>1, <2>2, <2>3, <2>4, <2>6 DEF WfInv, Reported, TrialInv, TrackInv
<1>3. CASE UNCHANGED vars
  BY <1>3 DEF vars, driver, trial, timers, history, WfInv, WfTypeOK, FlagsOK, DataOK, Known,
     ConnectedIsTrue, AddressIsTrue, OffIsSilent, TrialIsAlone, TrialOwnsStation,
     TrialIsForNetwork, SettingsAreBack, BuiltInUntilStored, StoredWorked,
     SomebodyTries, StartIsOver, TrialLeavesTrack, NotGivenUp, UnderWay
<1> QED BY <1>2, <1>3

LEMMA WfAlwaysInv == Spec => []WfInv
<1> QED BY WfInitInv, WfStepInv, PTL DEF Spec

\* The types, s_retries within its limit.
THEOREM WfTypeCorrect == Spec => []WfTypeOK
<1>1. WfInv => WfTypeOK
  BY DEF WfInv
<1> QED BY <1>1, WfAlwaysInv, PTL

\* wifi.h:30: wifi_is_connected is true of the station, or its loss is queued.
THEOREM ConnectedIsTrueCorrect == Spec => []ConnectedIsTrue
<1>1. WfInv => ConnectedIsTrue
  BY DEF WfInv
<1> QED BY <1>1, WfAlwaysInv, PTL

\* wifi.h:49: whatever is stored was built in or has worked, for any callers
\* that did not overlap.
THEOREM StoredWorkedCorrect == Spec => []StoredWorked
<1>1. WfInv => StoredWorked
  BY DEF WfInv
<1> QED BY <1>1, WfAlwaysInv, PTL

\* wifi.h:53: after a trial the driver has the settings that are shown, but for
\* those it refused.
THEOREM ConfigIsShownCorrect == Spec => []ConfigIsShown
<1>1. WfInv => ConfigIsShown
  BY DEF WfInv, SettingsAreBack, ConfigIsShown
<1> QED BY <1>1, WfAlwaysInv, PTL

\* wifi.c:30: the configured network is never given up, but for one that is lost
\* while the trial that joined it returns.
THEOREM KeepsTryingCorrect == Spec => []KeepsTrying
<1>1. WfInv => KeepsTrying
  BY DEF WfInv, NotGivenUp, UnderWay, KeepsTrying, Stuck
<1> QED BY <1>1, WfAlwaysInv, PTL

-----------------------------------------------------------------------------
(* The LED *)

\* A bridge with nothing to join has its access point, and one that has not
\* started shows nothing.
ShownAtStart ==
    /\ sta # "off" /\ ssid = None => ap
    /\ sta = "off" => led # "online"

\* s_trying is only set while somebody tries.
TryingIsTrial == trying => \E c \in Callers : pc[c] # "idle"

\* An address that came and went before its trial returned leaves a trace.
LossLeavesTrace ==
    \A c \in Callers : pc[c] = "wait" /\ "connected" \in bits /\ led = "online"
                          => connected \/ ap \/ lostInTrial

LedInv == ShownAtStart /\ TryingIsTrial /\ LossLeavesTrace /\ LedIsTrue

LEMMA LedInitInv == Init => LedInv
BY DEF Init, LedInv, ShownAtStart, TryingIsTrial, LossLeavesTrace, LedIsTrue

\* Steps that leave the trials, the event bits and what is shown alone.
LEMMA OtherKeepsLed ==
  ASSUME WfTypeOK, LedInv, UNCHANGED <<pc, bits, led, connected, trying, ssid, lostInTrial>>,
         ap => ap', sta = "off" <=> sta' = "off",
         sta' = "idle" /\ events' = <<>> => sta = "idle" /\ events = <<>>
  PROVE  LedInv'
BY DEF LedInv, ShownAtStart, TryingIsTrial, LossLeavesTrace, LedIsTrue

LEMMA EventKeepsLed ==
  ASSUME WfTypeOK, LedInv, EventLoop, sta # "off"
  PROVE  LedInv'
<1> USE DEF LedInv, ShownAtStart, TryingIsTrial, LossLeavesTrace, LedIsTrue
<1>1. CASE OnStart
  <2>1. /\ UNCHANGED <<pc, bits, led, connected, trying, ssid, lostInTrial, ap>>
        /\ ssid = None => ap
        /\ ssid # None => sta' # "idle" /\ sta' # "off"
        /\ ssid = None => sta' = sta
    BY <1>1 DEF OnStart, Connect, trial, history
  <2> QED BY <2>1
<1>2. CASE LostInTrial
  <2>1. /\ trying /\ UNCHANGED <<pc, led, trying, ssid, ap, sta>>
        /\ bits' = bits \cup {"failed"}
        /\ lostInTrial' = (lostInTrial \/ \E c \in Callers : pc[c] = "wait" /\ "connected" \in bits)
    BY <1>2 DEF LostInTrial, trial, driver
  <2>2. \E c \in Callers : pc[c] # "idle"
    BY <2>1
  <2>3. LossLeavesTrace'
    BY <2>1
  <2> QED BY <2>1, <2>2, <2>3
<1>3. CASE Lost
  <2>1. /\ UNCHANGED <<pc, bits, trying, ssid, lostInTrial, ap>>
        /\ ~trying /\ (~ap => led' = "no_wifi") /\ sta' # "off"
    BY <1>3 DEF Lost, Connect, trial, history
  <2> QED BY <2>1
<1>4. CASE OnGotIp
  <2>1. /\ connected' = TRUE /\ UNCHANGED <<pc, trying, ssid, ap, sta>>
    BY <1>4 DEF OnGotIp, trial, driver
  <2> QED BY <2>1
<1> QED BY <1>1, <1>2, <1>3, <1>4 DEF EventLoop
LEMMA TrialKeepsLed ==
  ASSUME WfTypeOK, LedInv, TrialIsForNetwork, Trial
  PROVE  LedInv'
<1> USE DEF LedInv, ShownAtStart, TryingIsTrial, LossLeavesTrace, LedIsTrue
<1>0. pc \in [Callers -> {"idle", "settle", "wait"}]
  BY DEF WfTypeOK, DataOK
<1>1. ASSUME NEW c \in Callers, NEW n \in Networks, Provision(c, n)
      PROVE  LedInv'
  <2>1. /\ pc' = [pc EXCEPT ![c] = "settle"] /\ sta # "off" /\ sta' # "off"
        /\ UNCHANGED <<bits, led, connected, ssid, lostInTrial, ap>>
    BY <1>1 DEF Provision, history
  <2>2. pc'[c] = "settle" /\ \A d \in Callers : pc'[d] = "wait" => pc[d] = "wait"
    BY <1>0, <2>1
  <2> QED BY <2>1, <2>2
<1>2. ASSUME NEW c \in Callers, Settled(c)
      PROVE  LedInv'
  <2>1. /\ bits' = {} /\ events = <<>> /\ sta # "off" /\ sta' # "off" /\ pc[c] = "settle"
        /\ UNCHANGED <<led, connected, ssid, lostInTrial, ap, events>>
    BY <1>2 DEF Settled, GiveUpOn, history, TrialIsForNetwork
  <2>2. CASE sta = "idle"
    <3>1. pc' = [pc EXCEPT ![c] = "wait"] /\ sta' = "joining"
      BY <1>2, <2>2 DEF Settled
    <3>2. pc'[c] # "idle"
      BY <1>0, <3>1
    <3> QED BY <2>1, <3>1, <3>2
  <2>3. CASE sta # "idle"
    <3>1. ~trying' /\ sta' = sta
      BY <1>2, <2>3 DEF Settled, GiveUpOn
    <3> QED BY <2>1, <2>3, <3>1
  <2> QED BY <2>2, <2>3
<1>3. ASSUME NEW c \in Callers, Kept(c)
      PROVE  LedInv'
  <2>1. /\ pc[c] = "wait" /\ "connected" \in bits /\ pc' = [pc EXCEPT ![c] = "idle"]
        /\ ~trying' /\ ssid' = want[c] /\ sta # "off"
        /\ UNCHANGED <<bits, led, connected, lostInTrial, ap, sta, events>>
    BY <1>3 DEF Kept, driver, timers, history, TrialIsForNetwork
  <2>2. ssid' # None
    BY <2>1, WifiAssumption DEF TrialIsForNetwork
  <2>3. \A d \in Callers : pc'[d] = "wait" => pc[d] = "wait"
    BY <1>0, <2>1
  <2>4. led = "online" => connected \/ ap \/ lostInTrial
    BY <2>1
  <2> QED BY <2>1, <2>2, <2>3, <2>4
<1>4. ASSUME NEW c \in Callers, GivenUp(c)
      PROVE  LedInv'
  <2>1. /\ pc[c] = "wait" /\ pc' = [pc EXCEPT ![c] = "idle"]
        /\ ~trying' /\ sta # "off"
        /\ UNCHANGED <<bits, led, connected, ssid, lostInTrial, ap, events>>
    BY <1>4 DEF GivenUp, GiveUpOn, timers, history, TrialIsForNetwork
  <2>2. sta' # "off" /\ (sta' = "idle" => ssid = None)
    BY <1>4, <2>1 DEF GivenUp, GiveUpOn
  <2>3. \A d \in Callers : pc'[d] = "wait" => pc[d] = "wait"
    BY <1>0, <2>1
  <2> QED BY <2>1, <2>2, <2>3
<1> QED BY <1>1, <1>2, <1>3, <1>4 DEF Trial

LEMMA LedStepInv == LedInv /\ WfInv /\ [Next]_vars => LedInv'
<1> SUFFICES ASSUME LedInv, WfInv, [Next]_vars
             PROVE  LedInv'
  OBVIOUS
<1>1. /\ WfTypeOK /\ OffIsSilent /\ TrialIsForNetwork /\ TrialLeavesTrack
      /\ sta \in {"off", "idle", "joining", "joined", "up"} /\ ap \in BOOLEAN
      /\ events \in Seq({"start", "lost", "ip"})
  BY DEF WfInv, WfTypeOK, FlagsOK, DataOK
<1>2. CASE EventLoop
  <2>1. sta # "off"
    BY <1>1, <1>2 DEF EventLoop, OnStart, LostInTrial, Lost, OnGotIp, Handle, OffIsSilent
  <2> QED BY <1>1, <1>2, <2>1, EventKeepsLed
<1>3. CASE Trial
  BY <1>1, <1>3, TrialKeepsLed
<1>4. CASE Driver
  <2>1. /\ UNCHANGED <<pc, bits, led, connected, trying, ssid, lostInTrial, ap>>
        /\ sta # "off" /\ sta' # "off"
        /\ sta' = "idle" => events' = Append(events, "lost")
    BY <1>4 DEF Driver, Lose, Associate, GetAddress, trial, history
  <2>2. Append(events, "lost") # <<>>
    BY <1>1
  <2> QED BY <1>1, <2>1, <2>2, OtherKeepsLed
<1>5. CASE RetryNow
  <2>1. /\ UNCHANGED <<pc, bits, led, connected, trying, ssid, lostInTrial, ap, events>>
        /\ sta' = "idle" => sta = "idle"
        /\ sta = "off" <=> sta' = "off"
    BY <1>5 DEF RetryNow, Connect, trial, history
  <2> QED BY <1>1, <2>1, OtherKeepsLed
<1>6. CASE FallbackExpired
  <2>1. /\ UNCHANGED <<pc, bits, connected, trying, ssid, lostInTrial, events, sta>>
        /\ ap' = (ap \/ ~connected) /\ led' = IF ap \/ connected THEN led ELSE "ap"
    BY <1>6 DEF FallbackExpired, driver, trial, history
  <2> QED BY <1>1, <2>1 DEF LedInv, ShownAtStart, TryingIsTrial, LossLeavesTrace, LedIsTrue
<1>7. CASE Forget
  BY <1>1, <1>7, OtherKeepsLed DEF Forget, driver, trial, history
<1>8. CASE Start
  <2>1. /\ sta = "off" /\ sta' = "idle" /\ events' = <<"start">> /\ led # "online"
        /\ ssid' = None => ap'
        /\ led' # "online"
        /\ UNCHANGED <<pc, trying>>
    BY <1>8 DEF Start, trial, LedInv, ShownAtStart
  <2> QED BY <2>1 DEF LedInv, ShownAtStart, TryingIsTrial, LossLeavesTrace, LedIsTrue
<1>9. CASE Restart
  BY <1>9 DEF Restart, RamLost, LedInv, ShownAtStart, TryingIsTrial, LossLeavesTrace, LedIsTrue
<1>10. CASE UNCHANGED vars
  BY <1>1, <1>10, OtherKeepsLed DEF vars, driver, trial, history
<1> QED BY <1>2, <1>3, <1>4, <1>5, <1>6, <1>7, <1>8, <1>9, <1>10 DEF Next

\* status_led.h:18: the LED does not go on flashing online without a network,
\* but for the access point, and for a network that is lost as its trial returns.
THEOREM LedIsTrueCorrect == Spec => []LedIsTrue
<1>1. LedInv => LedIsTrue
  BY DEF LedInv
<1> QED BY <1>1, LedInitInv, LedStepInv, WfAlwaysInv, PTL DEF Spec

-----------------------------------------------------------------------------
(* Reachable after every start: the part of it that is no liveness *)

\* main.c:49: from a start on the bridge waits with the fallback timer running, and
\* stops waiting only for an address or for its access point: no event, no retry
\* and no trial stops the timer in between.  ReachableAfterStart needs no more
\* than that the timer goes off.
FallbackIsKept ==
    [][(fallbackTimer \/ sta = "off") /\ sta' # "off" => fallbackTimer' \/ connected' \/ ap']_vars

THEOREM FallbackIsKeptCorrect == Spec => FallbackIsKept
<1>1. ASSUME WfTypeOK, Next, fallbackTimer \/ sta = "off", sta' # "off"
      PROVE  fallbackTimer' \/ connected' \/ ap'
  <2>1. CASE Start
    BY <2>1 DEF Start
  <2>2. CASE Driver
    BY <1>1, <2>2 DEF Driver, Lose, Associate, GetAddress, timers
  <2>3. CASE OnGotIp
    BY <2>3 DEF OnGotIp
  <2>4. CASE FallbackExpired
    BY <2>4, <1>1 DEF FallbackExpired, WfTypeOK, FlagsOK, driver
  <2>5. CASE OnStart \/ LostInTrial \/ Lost \/ RetryNow \/ Forget
    BY <1>1, <2>5 DEF OnStart, LostInTrial, Lost, RetryNow, Forget, Connect, driver, timers
  <2>6. CASE Trial
    <3>1. PICK c \in Callers : \/ \E n \in Networks : Provision(c, n)
                              \/ Settled(c) \/ Kept(c) \/ GivenUp(c)
      BY <2>6 DEF Trial
    <3>2. fallbackTimer' = fallbackTimer
      BY <3>1 DEF Provision, Settled, Kept, GivenUp, timers
    <3>3. CASE \E n \in Networks : Provision(c, n)
      BY <1>1, <3>2, <3>3 DEF Provision
    <3>4. CASE Settled(c) \/ GivenUp(c)
      BY <1>1, <3>2, <3>4 DEF Settled, GivenUp, GiveUpOn
    <3>5. CASE Kept(c)
      BY <1>1, <3>2, <3>5 DEF Kept, driver
    <3> QED
      BY <3>1, <3>3, <3>4, <3>5
  <2>7. CASE Restart
    BY <1>1, <2>7 DEF Restart, RamLost
  <2> QED
    BY <1>1, <2>1, <2>2, <2>3, <2>4, <2>5, <2>6, <2>7 DEF Next, EventLoop
<1>2. WfTypeOK /\ [Next]_vars
        => [(fallbackTimer \/ sta = "off") /\ sta' # "off" => fallbackTimer' \/ connected' \/ ap']_vars
  BY <1>1
<1> QED
  BY <1>2, WfTypeCorrect, PTL DEF Spec, FallbackIsKept
===============================================================================
