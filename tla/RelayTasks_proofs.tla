--------------------------- MODULE RelayTasks_proofs ---------------------------
(***************************************************************************)
(* What holds of the relay once every task has finished, for any number of *)
(* sockets and any budget of retries. It is proved from what holds while   *)
(* the tasks are at work: what the central believes and what the stack     *)
(* does (Central), whom the link is held for on the way from one section   *)
(* to the next (Books, Held, ExpiredInTime), who will see to it that a     *)
(* link nobody watched is not handed over (AbandonedIsNoted, Mute), and    *)
(* what each task has read of the link and is still to tell (StatusInv).   *)
(* The last part proves from the same invariant that the tasks implement   *)
(* LinkHold, section by section.                                           *)
(***************************************************************************)
EXTENDS RelayTasks, TLAPS

\* What a task comes to, and what may follow it there.
Places ==
    /\ pc["host"] \in {"idle", "tell", "strike", "react", "spend", "down"}
    /\ after["host"] \in {"idle", "react"}
    /\ pc["timer"] \in {"idle", "nobody", "forget", "hang up", "somebody", "look",
                        "tell", "strike", "claim", "dial", "react", "spend"}
    /\ after["timer"] \in {"idle", "claim", "react"}
    /\ pc["timer"] = "hang up" => after["timer"] = "idle"
    /\ pc["http"] \notin {"nobody", "forget", "somebody", "down"}
    /\ pc["http"] = "drop" => after["http"] \in {"idle", "last"}
    /\ pc["http"] \in {"tell", "strike"} => after["http"] \in {"idle", "claim", "react"}
    /\ pc["http"] = "hang up" => after["http"] \in {"idle", "arm"}

\* What was left when a task looked may have been spent by the other two.
Spending(t) == IF pc[t] = "spend" THEN 1 ELSE 0
AboutToSpend == Spending("http") + Spending("timer") + Spending("host")
Budget ==
    /\ left \in Int /\ left <= RefreshRetries
    /\ AboutToSpend <= left + 2

\* There is no dial beside a link, s_connect_pending is set for a dial that runs or
\* is about to, and s_conn_handle is set from one end of the link to the other.
Central ==
    /\ gap = "dial" => link = "none"
    /\ pc["host"] = "down" => link = "none"
    /\ conn # "none" <=> (link # "none" \/ pc["host"] = "down")
    /\ pending => gap = "dial" \/ pc["http"] = "dial" \/ pc["timer"] = "dial"
    /\ gap = "dial" => (pending /\ pc["host"] # "down") \/ crossed

Readers == {"http", "timer"}

\* What a reader that nobody has overtaken is about to tell is so, or a dial that
\* will be refused tells otherwise; past its test whether to dial it is overtaken
\* as soon as there is a link to write to.
Reads(t) ==
    /\ pc[t] = "tell" /\ t \notin late =>
           IF IsConnected THEN after[t] # "claim" /\ (said[t] = "connected" \/ pending)
                          ELSE said[t] # "connected"
    /\ IsConnected /\ (pc[t] \in {"claim", "dial"} \/ (pc[t] = "strike" /\ after[t] = "claim")) =>
           t \in late

\* Only the host announces a link, and the link stays announced while it tells so.
HostReads == pc["host"] = "tell" => (said["host"] = "connected" <=> conn = "usable")

\* An overtaken reader has yet to tell that it could not dial.
Owes(t) == t \in late /\ (pc[t] = "dial" \/ (pc[t] = "tell" /\ said[t] # "connected"))
Owed    == Owes("http") \/ Owes("timer")

Shown ==
    /\ shown => IsConnected \/ overtaken \/ pc["host"] = "tell"
    /\ conn = "usable" => shown \/ overtaken \/ pc["host"] \in {"tell", "down"} \/ Owed

\* On the way to ble_gap_connect, after the test of whether to.
Dialling(t) ==
    \/ pc[t] \in {"look", "claim", "dial"}
    \/ pc[t] \in {"tell", "strike"} /\ after[t] = "claim"

\* There is a link to hold, or one may come about.
Exposed == link = "up" \/ gap = "dial" \/ Dialling("http") \/ Dialling("timer")

Watched == clients # {} \/ orphaned

\* A handler that goes on without the books has seen to it that it may.
Books ==
    /\ pc["http"] = "add" => who["http"] # {}
    /\ pc["http"] = "drop" /\ after["http"] = "idle" => who["http"] \cap clients = {}
    /\ pc["http"] \in {"abandon", "clock"} => clients = {}
    /\ pc["http"] = "refresh" \/ Dialling("http") => Watched

\* Whoever leaves last starts the clock, and the clock hangs up.
Held == Exposed => Watched \/ linger \/ Leaving \/ Expired

\* Once the clock has run out, a dial belongs to somebody who came since.
ExpiredInTime ==
    /\ Expired /\ (gap = "dial" \/ Dialling("http")) => Watched \/ linger \/ Leaving
    /\ pc["timer"] \in {"nobody", "forget"} /\ gap = "dial" =>
           Watched /\ pc["http"] \notin {"drop", "last", "abandon", "clock"}

\* With nobody there, s_link_abandoned is set, or about to be, or the link ends.
AbandonedIsNoted ==
    /\ Exposed /\ ~Watched => \/ abandoned \/ pc["http"] \in {"last", "abandon"}
                              \/ pc["timer"] = "hang up"
    /\ pc["http"] = "clock" /\ Exposed => abandoned \/ pc["timer"] = "hang up"
    /\ pc["timer"] = "hang up" /\ gap = "dial" =>
           /\ pc["http"] = "clock" => abandoned
           /\ ~Watched => abandoned \/ pc["http"] \in {"last", "abandon"}

\* A link that was unwatched is hung up, or is still marked for whoever comes.
Mute ==
    /\ idled => Subscribed
    /\ idled /\ link = "up" =>
           \/ pc["timer"] = "hang up" \/ pc["http"] \in {"refill", "hang up"}
           \/ clients = {} /\ pc["http"] \in {"last", "abandon"}
           \/ abandoned /\ (clients = {} \/ pc["http"] = "refresh")

StatusInv   == Reads("http") /\ Reads("timer") /\ HostReads /\ Shown
AudienceInv == Books /\ Held /\ ExpiredInTime /\ AbandonedIsNoted /\ Mute

TasksInv == TasksTypeOK /\ Places /\ Budget /\ Central /\ AudienceInv /\ StatusInv

-----------------------------------------------------------------------------
(* Where the tasks go *)

Controls ==
    /\ pc \in [Tasks -> Sections] /\ after \in [Tasks -> Sections]
    /\ said \in [Tasks -> Statuses] /\ who \in [Tasks -> SUBSET Sockets]

\* Task t comes to section s, with n to follow and fs to drop or to add; task u
\* is that one, or stays where it is.
Now(u, t, s, n, fs) ==
    /\ pc'[u] = IF u = t THEN s ELSE pc[u]
    /\ after'[u] = IF u = t THEN n ELSE after[u]
    /\ who'[u] = IF u = t THEN fs ELSE who[u]

Moved(t, s, n, fs) ==
    Controls' /\ Now("http", t, s, n, fs) /\ Now("timer", t, s, n, fs) /\ Now("host", t, s, n, fs)

LEMMA Names ==
  /\ Tasks = {"http", "timer", "host"}
  /\ "idle" \in Sections /\ "tell" \in Sections /\ "strike" \in Sections /\ "react" \in Sections
  /\ "claim" \in Sections /\ "" \in Statuses
  /\ {} \in SUBSET Sockets
BY DEF Tasks, Sections, Statuses

LEMMA Entered ==
  ASSUME Controls, NEW t \in Tasks, NEW s \in Sections, NEW n \in Sections, NEW st \in Statuses,
         NEW fs \in SUBSET Sockets, Enter(t, s, n, st, fs)
  PROVE  Moved(t, s, n, fs)
BY Names DEF Controls, Enter, Now, Moved

LEMMA GoneTo ==
  ASSUME Controls, NEW t \in Tasks, NEW s \in Sections, Goto(t, s)
  PROVE  Moved(t, s, "idle", {})
BY Entered, Names DEF Goto

LEMMA Proceeded ==
  ASSUME Controls, NEW t \in Tasks, Proceed(t)
  PROVE  Moved(t, after[t], "idle", {})
<1>1. Kept(t) \in Statuses /\ after[t] \in Sections
  BY Names DEF Kept, Controls
<1> QED
  BY <1>1, Entered, Names DEF Proceed

LEMMA Told ==
  ASSUME Controls, NEW t \in Tasks, NEW st \in Statuses, NEW n \in Sections, Status(t, st, n)
  PROVE  Moved(t, "tell", n, {})
BY Entered, Names DEF Status

LEMMA Announced ==
  ASSUME Controls, NEW t \in Tasks, NEW st \in Statuses, Say(t, st)
  PROVE  \E n \in {"idle", "react"} : Moved(t, "tell", n, {})
BY Told, Names DEF Say

LEMMA TellMoves ==
  ASSUME Controls, clients \in SUBSET Sockets, NEW t \in Tasks, Tell(t)
  PROVE  \/ Moved(t, after[t], "idle", {})
         \/ \E bad \in SUBSET clients : Moved(t, "strike", after[t], bad)
<1>1. Kept(t) \in Statuses /\ after[t] \in Sections
  BY Names DEF Kept, Controls
<1>2. PICK bad \in Failures : IF bad = {} THEN Proceed(t) ELSE Enter(t, "strike", after[t], Kept(t), bad)
  BY DEF Tell
<1>3. CASE bad = {}
  BY <1>2, <1>3, Proceeded
<1>4. CASE bad # {}
  BY <1>1, <1>2, <1>4, Entered, Names DEF Failures
<1> QED
  BY <1>3, <1>4

\* The sections any task may come to; only those a task left for the right reason
\* are told apart.
LEMMA SharedMoves ==
  ASSUME Controls, NEW t \in Tasks
  PROVE  /\ Strike(t) \/ HangUp(t) => Moved(t, after[t], "idle", {})
         /\ React(t) => \/ Moved(t, "idle", "idle", {})
                        \/ Moved(t, "spend", "idle", {}) /\ left > 0 /\ left' = left
         /\ Spend(t) => Moved(t, "idle", "idle", {})
         /\ Look(t) => pc[t] = "look" /\ \E n \in {"idle", "react", "claim"} : Moved(t, "tell", n, {})
         /\ Claim(t) => Moved(t, "dial", "idle", {})
         /\ Dial(t) => \/ /\ Moved(t, "idle", "idle", {})
                          /\ gap = "idle" /\ link = "none" /\ gap' = "dial" /\ pending' = pending
                       \/ /\ \E n \in {"idle", "react"} : Moved(t, "tell", n, {})
                          /\ gap' = gap /\ pending' = FALSE
<1> {"idle", "spend", "dial", "claim"} \subseteq Sections /\ {"connecting", "connected", "error"} \subseteq Statuses
  BY DEF Sections, Statuses
<1>1. Strike(t) \/ HangUp(t) => Moved(t, after[t], "idle", {})
  BY Proceeded DEF Strike, HangUp
<1>2. React(t) => \/ Moved(t, "idle", "idle", {})
                  \/ Moved(t, "spend", "idle", {}) /\ left > 0 /\ left' = left
  BY GoneTo DEF React
<1>3. Spend(t) => Moved(t, "idle", "idle", {})
  BY GoneTo DEF Spend
<1>4. Look(t) => pc[t] = "look" /\ \E n \in {"idle", "react", "claim"} : Moved(t, "tell", n, {})
  BY Announced, Told DEF Look, At
<1>5. Claim(t) => Moved(t, "dial", "idle", {})
  BY GoneTo DEF Claim
<1>6. Dial(t) => \/ /\ Moved(t, "idle", "idle", {})
                    /\ gap = "idle" /\ link = "none" /\ gap' = "dial" /\ pending' = pending
                 \/ /\ \E n \in {"idle", "react"} : Moved(t, "tell", n, {})
                    /\ gap' = gap /\ pending' = FALSE
  BY Announced, GoneTo DEF Dial
<1> QED
  BY <1>1, <1>2, <1>3, <1>4, <1>5, <1>6

LEMMA HttpMoves ==
  ASSUME Controls
  PROVE  /\ \A f \in Sockets : PostHandshake(f) => Moved("http", "add", "idle", {f})
         /\ \A f \in Sockets, counts \in BOOLEAN :
                Close(f, counts) => Moved("http", "drop", IF counts THEN "last" ELSE "idle", {f})
         /\ Add => Moved("http", "refresh", "idle", {})
         /\ Cancel => Moved("http", "look", "idle", {})
         /\ Refresh => Moved("http", IF abandoned /\ IsConnected THEN "refill" ELSE "greet", "idle", {})
         /\ Refill => Moved("http", "hang up", "arm", {})
         /\ Arm => Moved("http", "greet", "idle", {})
         /\ Greet => Moved("http", "tell", "idle", {})
         /\ Drop => Moved("http", after["http"], "idle", {})
         /\ LastOne => Moved("http", IF clients = {} THEN "abandon" ELSE "idle", "idle", {})
         /\ Abandon => Moved("http", "clock", "idle", {})
         /\ StartClock => Moved("http", "idle", "idle", {})
         /\ Message => Moved("http", "cancel", "idle", {}) \/ Moved("http", "hang up", "idle", {})
<1> USE GoneTo, Entered, Names
<1> "http" \in Tasks
  OBVIOUS
<1>0. /\ {"add", "drop", "last", "refresh", "look", "refill", "greet", "hang up", "arm", "abandon",
          "clock", "cancel", "idle"} \subseteq Sections
      /\ {"", "connected", "idle"} \subseteq Statuses
  BY DEF Sections, Statuses
<1>1. \A f \in Sockets : PostHandshake(f) => Moved("http", "add", "idle", {f})
  BY <1>0 DEF PostHandshake
<1>2. \A f \in Sockets, counts \in BOOLEAN :
          Close(f, counts) => Moved("http", "drop", IF counts THEN "last" ELSE "idle", {f})
  BY <1>0 DEF Close
<1>3. /\ Add => Moved("http", "refresh", "idle", {})
      /\ Cancel => Moved("http", "look", "idle", {})
  BY <1>0 DEF Add, Cancel
<1>4. Refresh => Moved("http", IF abandoned /\ IsConnected THEN "refill" ELSE "greet", "idle", {})
  BY <1>0 DEF Refresh
<1>5. /\ Refill => Moved("http", "hang up", "arm", {})
      /\ Arm => Moved("http", "greet", "idle", {})
  BY <1>0 DEF Refill, Arm
<1>6. /\ Greet => Moved("http", "tell", "idle", {})
      /\ Drop => Moved("http", after["http"], "idle", {})
  BY <1>0, Told, Proceeded DEF Greet, Drop
<1>7. LastOne => Moved("http", IF clients = {} THEN "abandon" ELSE "idle", "idle", {})
  BY <1>0 DEF LastOne
<1>8. /\ Abandon => Moved("http", "clock", "idle", {})
      /\ StartClock => Moved("http", "idle", "idle", {})
  BY <1>0 DEF Abandon, StartClock
<1>9. Message => Moved("http", "cancel", "idle", {}) \/ Moved("http", "hang up", "idle", {})
  BY <1>0 DEF Message
<1> QED
  BY <1>1, <1>2, <1>3, <1>4, <1>5, <1>6, <1>7, <1>8, <1>9

LEMMA TimerMoves ==
  ASSUME Controls
  PROVE  /\ LingerExpired => Moved("timer", "nobody", "idle", {})
         /\ Nobody => Moved("timer", IF clients = {} THEN "forget" ELSE "idle", "idle", {})
         /\ Forget => Moved("timer", "hang up", "idle", {})
         /\ RefreshLink => Moved("timer", "somebody", "idle", {})
         /\ Somebody => Moved("timer", IF clients = {} THEN "idle" ELSE "look", "idle", {})
<1> "timer" \in Tasks /\ {"nobody", "forget", "idle", "hang up", "somebody", "look"} \subseteq Sections
  BY DEF Tasks, Sections
<1>1. LingerExpired => Moved("timer", "nobody", "idle", {})
  BY GoneTo DEF LingerExpired
<1>2. Nobody => Moved("timer", IF clients = {} THEN "forget" ELSE "idle", "idle", {})
  BY GoneTo DEF Nobody
<1>3. Forget => Moved("timer", "hang up", "idle", {})
  BY GoneTo DEF Forget
<1>4. RefreshLink => Moved("timer", "somebody", "idle", {})
  BY GoneTo DEF RefreshLink
<1>5. Somebody => Moved("timer", IF clients = {} THEN "idle" ELSE "look", "idle", {})
  BY GoneTo DEF Somebody
<1> QED
  BY <1>1, <1>2, <1>3, <1>4, <1>5

LEMMA HostMoves ==
  ASSUME Controls, clients \in SUBSET Sockets
  PROVE  /\ DialFailed \/ GiveUp \/ Announce \/ Down => \E n \in {"idle", "react"} : Moved("host", "tell", n, {})
         /\ LinkLost => Moved("host", "down", "idle", {})
         /\ Notification => \E bad \in SUBSET clients : Moved("host", "strike", "idle", bad)
<1> /\ "host" \in Tasks /\ {"down", "strike", "idle"} \subseteq Sections
    /\ {"", "error", "connected", "disconnected"} \subseteq Statuses
  BY DEF Tasks, Sections, Statuses
<1>1. DialFailed \/ GiveUp \/ Announce \/ Down => \E n \in {"idle", "react"} : Moved("host", "tell", n, {})
  BY Announced DEF DialFailed, GiveUp, Announce, Down
<1>2. LinkLost => Moved("host", "down", "idle", {})
  BY GoneTo DEF LinkLost
<1>3. Notification => \E bad \in SUBSET clients : Moved("host", "strike", "idle", bad)
  BY Entered DEF Notification, Failures
<1> QED
  BY <1>1, <1>2, <1>3

-----------------------------------------------------------------------------
HttpStep ==
    \/ Add \/ Cancel \/ Refresh \/ Refill \/ Arm \/ Greet \/ Drop \/ LastOne \/ Abandon \/ StartClock
    \/ Message
    \/ \E f \in Sockets : PostHandshake(f)
    \/ \E f \in Sockets, counts \in BOOLEAN : Close(f, counts)
TimerStep == LingerExpired \/ RefreshLink \/ Nobody \/ Forget \/ Somebody
HostStep  == Down \/ DialFailed \/ GiveUp \/ Announce \/ LinkLost \/ Notification

\* The host's task goes on without a word.
Silently == LinkUp \/ CharacteristicFound \/ Stall \/ SubscribeDone

LEMMA Steps ==
  ASSUME Next
  PROVE  (\E t \in Tasks : Shared(t)) \/ HttpStep \/ TimerStep \/ HostStep \/ Silently
<1> "http" \in Tasks /\ "timer" \in Tasks /\ "host" \in Tasks
  BY Names
<1> QED
  BY DEF Next, Http, TimerTask, Host, Requests, Stack, HttpStep, TimerStep, HostStep, Silently

LEMMA PlacesNext ==
  ASSUME TasksTypeOK, Places, Next
  PROVE  Places'
<1> USE Names DEF Moved, Now, Places, At, Idle
<1>1. Controls /\ clients \in SUBSET Sockets
  BY DEF TasksTypeOK, Controls
<1>2. ASSUME NEW t \in Tasks, Shared(t)
      PROVE  Places'
  <2>1. CASE Tell(t)
    BY ZenonT(60), <1>1, <2>1, TellMoves DEF Tell
  <2>2. CASE Strike(t) \/ HangUp(t)
    <3>1. Moved(t, after[t], "idle", {})
      BY <1>1, <2>2, SharedMoves
    <3>2. CASE t = "http"
      BY <2>2, <3>1, <3>2 DEF Strike, HangUp
    <3>3. CASE t = "timer"
      BY <2>2, <3>1, <3>3 DEF Strike, HangUp
    <3>4. CASE t = "host"
      BY <2>2, <3>1, <3>4 DEF Strike, HangUp
    <3> QED
      BY <3>2, <3>3, <3>4
  <2>3. CASE React(t) \/ Spend(t) \/ Claim(t)
    <3>1. \E s \in {"idle", "spend", "dial"} : Moved(t, s, "idle", {}) /\ (s = "dial" => Claim(t))
      BY ZenonT(60), <1>1, <2>3, SharedMoves
    <3> QED
      BY ZenonT(60), <3>1 DEF Claim
  <2>4. CASE Look(t)
    <3>1. pc[t] = "look" /\ \E n \in {"idle", "react", "claim"} : Moved(t, "tell", n, {})
      BY <1>1, <2>4, SharedMoves
    <3> QED
      BY <3>1
  <2>5. CASE Dial(t)
    <3>1. \/ Moved(t, "idle", "idle", {})
          \/ \E n \in {"idle", "react"} : Moved(t, "tell", n, {})
      BY ZenonT(60), <1>1, <2>5, SharedMoves
    <3> QED
      BY ZenonT(60), <3>1
  <2> QED
    BY <1>2, <2>1, <2>2, <2>3, <2>4, <2>5 DEF Shared
<1>3. CASE HttpStep
  <2>1. CASE Drop
    BY <1>1, <2>1, HttpMoves DEF Drop
  <2>2. CASE Add \/ Cancel \/ Refresh \/ Refill \/ Arm \/ Greet
    BY ZenonT(60), <1>1, <2>2, HttpMoves
  <2>3. CASE LastOne \/ Abandon \/ StartClock \/ Message
    BY ZenonT(60), <1>1, <2>3, HttpMoves
  <2>4. CASE \E f \in Sockets : PostHandshake(f)
    BY <1>1, <2>4, HttpMoves
  <2>5. CASE \E f \in Sockets, counts \in BOOLEAN : Close(f, counts)
    BY ZenonT(60), <1>1, <2>5, HttpMoves
  <2> QED
    BY <1>3, <2>1, <2>2, <2>3, <2>4, <2>5 DEF HttpStep
<1>4. CASE TimerStep
  BY <1>1, <1>4, TimerMoves DEF TimerStep
<1>5. CASE HostStep
  BY ZenonT(60), <1>1, <1>5, HostMoves DEF HostStep
<1>6. CASE Silently
  BY <1>6 DEF Silently, LinkUp, CharacteristicFound, Stall, SubscribeDone, control
<1> QED
  BY <1>2, <1>3, <1>4, <1>5, <1>6, Steps

LEMMA InRange ==
  ASSUME Budget
  PROVE  left \in -2 .. RefreshRetries
BY TasksAssumption DEF Budget, AboutToSpend, Spending

LEMMA SpendersMove ==
  ASSUME NEW t \in Tasks, NEW s, NEW n, NEW fs, Moved(t, s, n, fs)
  PROVE  /\ AboutToSpend \in 0 .. 3 /\ AboutToSpend' \in 0 .. 3
         /\ s # "spend" => AboutToSpend' <= AboutToSpend /\ AboutToSpend' <= 2
         /\ s # "spend" /\ pc[t] = "spend" => AboutToSpend' = AboutToSpend - 1
<1>1. CASE t = "http"
  BY <1>1 DEF AboutToSpend, Spending, Moved, Now
<1>2. CASE t = "timer"
  BY <1>2 DEF AboutToSpend, Spending, Moved, Now
<1>3. CASE t = "host"
  BY <1>3 DEF AboutToSpend, Spending, Moved, Now
<1> QED
  BY <1>1, <1>2, <1>3, Names

\* Whoever spends had found something left; the other two may have found the same.
LEMMA BudgetNext ==
  ASSUME TasksTypeOK, Places, Budget, Next
  PROVE  Budget'
<1> USE TasksAssumption DEF Budget
<1>1. Controls /\ "http" \in Tasks /\ "timer" \in Tasks /\ "host" \in Tasks
  BY Names DEF TasksTypeOK, Controls
<1>2. ASSUME NEW t \in Tasks, NEW s, NEW n, NEW fs, Moved(t, s, n, fs), s # "spend",
             left' = left \/ left' \in {0, RefreshRetries}
      PROVE  Budget'
  BY <1>2, SpendersMove
<1>3. ASSUME NEW t \in Tasks, Shared(t)
      PROVE  Budget'
  <2>1. CASE React(t)
    <3>1. CASE Moved(t, "spend", "idle", {}) /\ left > 0 /\ left' = left
      BY <3>1, SpendersMove
    <3>2. CASE Moved(t, "idle", "idle", {})
      <4>1. left' = left \/ left' = 0
        BY <2>1 DEF React
      <4> QED
        BY <1>2, <3>2, <4>1
    <3> QED
      BY <1>1, <2>1, <3>1, <3>2, SharedMoves
  <2>2. CASE Spend(t)
    <3>1. Moved(t, "idle", "idle", {})
      BY <1>1, <2>2, SharedMoves
    <3>2. left' = left - 1 /\ pc[t] = "spend"
      BY <2>2 DEF Spend, At
    <3> QED
      BY <3>1, <3>2, SpendersMove
  <2>3. CASE Tell(t)
    <3>1. \E s \in {after[t], "strike"} : \E n, fs : Moved(t, s, n, fs)
      BY <1>1, <2>3, TellMoves DEF TasksTypeOK
    <3>2. after[t] # "spend" /\ left' = left
      BY <2>3, Names DEF Places, Tell, At, refresh
    <3> QED
      BY <1>2, <3>1, <3>2
  <2>4. CASE Strike(t) \/ HangUp(t)
    <3>1. Moved(t, after[t], "idle", {})
      BY <1>1, <2>4, SharedMoves
    <3>2. after[t] # "spend" /\ left' = left
      BY <2>4, Names DEF Places, Strike, HangUp, At, refresh
    <3> QED
      BY <1>2, <3>1, <3>2
  <2>5. CASE Look(t) \/ Claim(t) \/ Dial(t)
    <3>1. \E s \in {"tell", "dial", "idle"} : \E n : Moved(t, s, n, {})
      BY <1>1, <2>5, SharedMoves
    <3>2. left' = left
      BY <2>5 DEF Look, Claim, Dial, refresh
    <3> QED
      BY <1>2, <3>1, <3>2
  <2> QED
    BY <1>3, <2>1, <2>2, <2>3, <2>4, <2>5 DEF Shared
<1>4. CASE HttpStep
  <2>1. \E s, n, fs : s # "spend" /\ Moved("http", s, n, fs)
    BY <1>1, <1>4, HttpMoves DEF HttpStep, Places, Drop, At
  <2>2. left' = left \/ left' = RefreshRetries
    BY <1>4 DEF HttpStep, Add, Cancel, Refresh, Refill, Arm, Greet, Drop, LastOne, Abandon, StartClock,
                Message, PostHandshake, Close, refresh
  <2> QED
    BY <1>1, <1>2, <2>1, <2>2
<1>5. CASE TimerStep
  <2>1. \E s, n, fs : s # "spend" /\ Moved("timer", s, n, fs)
    BY <1>1, <1>5, TimerMoves DEF TimerStep
  <2>2. left' = left
    BY <1>5 DEF TimerStep, LingerExpired, RefreshLink, Nobody, Forget, Somebody, refresh
  <2> QED
    BY <1>1, <1>2, <2>1, <2>2
<1>6. CASE HostStep
  <2>1. \E s, n, fs : s # "spend" /\ Moved("host", s, n, fs)
    BY <1>1, <1>6, HostMoves DEF HostStep, TasksTypeOK
  <2>2. left' = left
    BY <1>6 DEF HostStep, Down, DialFailed, GiveUp, Announce, LinkLost, Notification, refresh
  <2> QED
    BY <1>1, <1>2, <2>1, <2>2
<1>7. CASE Silently
  BY <1>7 DEF Silently, LinkUp, CharacteristicFound, Stall, SubscribeDone, refresh, control,
              AboutToSpend, Spending
<1> QED
  BY <1>3, <1>4, <1>5, <1>6, <1>7, Steps

LEMMA ControlsNext ==
  ASSUME TasksTypeOK, Next
  PROVE  Controls'
<1>1. Controls /\ clients \in SUBSET Sockets
  BY DEF TasksTypeOK, Controls
<1>2. ASSUME NEW t \in Tasks, Shared(t)
      PROVE  Controls'
  BY <1>1, <1>2, TellMoves, SharedMoves DEF Shared, Moved
<1>3. CASE HttpStep
  BY <1>1, <1>3, HttpMoves DEF HttpStep, Moved
<1>4. CASE TimerStep
  BY <1>1, <1>4, TimerMoves DEF TimerStep, Moved
<1>5. CASE HostStep
  BY <1>1, <1>5, HostMoves DEF HostStep, Moved
<1>6. CASE Silently
  BY <1>1, <1>6 DEF Silently, LinkUp, CharacteristicFound, Stall, SubscribeDone, control, Controls
<1> QED
  BY <1>2, <1>3, <1>4, <1>5, <1>6, Steps

LEMMA IdledNext ==
  ASSUME TasksTypeOK, Next
  PROVE  idled' \in BOOLEAN
<1>1. idled' = (conn' # "none" /\ (idled \/ (Subscribed' /\ clients' = {} /\ ~orphaned')))
  BY DEF Next, NoteIdle
<1> QED
  BY <1>1

\* The variables but those a task keeps for itself and the budget.
Plain ==
    /\ clients \subseteq Sockets /\ open \subseteq Sockets
    /\ linger \in BOOLEAN /\ armed \in BOOLEAN /\ abandoned \in BOOLEAN /\ pending \in BOOLEAN
    /\ conn \in Progress
    /\ gap \in {"idle", "dial"} /\ link \in {"none", "up", "closing"}
    /\ shown \in BOOLEAN
    /\ orphaned \in BOOLEAN /\ overtaken \in BOOLEAN /\ crossed \in BOOLEAN

LEMMA PlainNext ==
  ASSUME TasksTypeOK, Next
  PROVE  Plain'
<1> USE DEF Plain, books, timers, refresh, stack, central, status
<1>0. Plain
  BY DEF TasksTypeOK
<1>1. ASSUME NEW t \in Tasks, Shared(t)
      PROVE  Plain'
  <2>1. CASE Tell(t)
    <3>1. /\ shown' = (said[t] = "connected")
          /\ overtaken' = (t \in late /\ IF shown' THEN ~IsConnected ELSE conn = "usable")
      BY <2>1 DEF Tell
    <3>2. shown' \in BOOLEAN /\ overtaken' \in BOOLEAN
      BY <3>1
    <3> QED
      BY <1>0, <2>1, <3>2 DEF Tell
  <2>2. CASE Strike(t)
    <3>1. orphaned' = (orphaned \/ (clients # {} /\ clients' = {}))
      BY <2>2 DEF Strike
    <3>2. orphaned' \in BOOLEAN
      BY <3>1
    <3> QED
      BY <1>0, <2>2, <3>2 DEF Strike
  <2>3. CASE Dial(t)
    <3>1. crossed' = (~pending \/ At("host", "down")) \/ crossed' = (crossed \/ gap = "dial")
      BY <2>3 DEF Dial
    <3>2. crossed' \in BOOLEAN
      BY <3>1
    <3> QED
      BY <1>0, <2>3, <3>2 DEF Dial
  <2>4. CASE HangUp(t)
    BY <1>0, <2>4 DEF HangUp
  <2>5. CASE React(t)
    BY <1>0, <2>5 DEF React
  <2>6. CASE Spend(t)
    BY <1>0, <2>6 DEF Spend
  <2>7. CASE Look(t)
    BY <1>0, <2>7 DEF Look
  <2>8. CASE Claim(t)
    BY <1>0, <2>8 DEF Claim
  <2> QED
    BY <1>1, <2>1, <2>2, <2>3, <2>4, <2>5, <2>6, <2>7, <2>8 DEF Shared
<1>2. CASE Cancel
  <2>1. orphaned' = (clients = {})
    BY <1>2 DEF Cancel
  <2>2. orphaned' \in BOOLEAN
    BY <2>1
  <2> QED
    BY <1>0, <1>2, <2>2 DEF Cancel
<1>3. CASE Add
  <2>1. who["http"] \subseteq Sockets
    BY Names DEF TasksTypeOK
  <2> QED
    BY <1>0, <1>3, <2>1 DEF Add
<1>4. CASE Refresh
  BY <1>0, <1>4 DEF Refresh
<1>5. CASE Refill
  BY ZenonT(60), <1>0, <1>5 DEF Refill
<1>6. CASE Arm
  BY <1>0, <1>6 DEF Arm
<1>7. CASE Greet
  BY <1>0, <1>7 DEF Greet
<1>8. CASE Drop
  BY <1>0, <1>8 DEF Drop
<1>9. CASE LastOne
  BY <1>0, <1>9 DEF LastOne
<1>10. CASE Abandon
  BY <1>0, <1>10 DEF Abandon
<1>11. CASE StartClock
  BY <1>0, <1>11 DEF StartClock
<1>12. CASE Message
  BY ZenonT(60), <1>0, <1>12 DEF Message
<1>13. CASE \E f \in Sockets : PostHandshake(f)
  BY ZenonT(60), <1>0, <1>13 DEF PostHandshake
<1>14. CASE \E f \in Sockets, counts \in BOOLEAN : Close(f, counts)
  BY ZenonT(60), <1>0, <1>14 DEF Close
<1>15. CASE LingerExpired \/ RefreshLink
  <2>1. CASE LingerExpired
    BY ZenonT(60), <1>0, <2>1 DEF LingerExpired
  <2>2. CASE RefreshLink
    BY ZenonT(60), <1>0, <2>2 DEF RefreshLink
  <2> QED
    BY <1>15, <2>1, <2>2
<1>16. CASE Nobody \/ Somebody
  BY <1>0, <1>16 DEF Nobody, Somebody
<1>23. CASE Forget
  BY <1>0, <1>23 DEF Forget
<1>17. CASE Down
  BY <1>0, <1>17 DEF Down, Progress
<1>18. CASE DialFailed
  BY <1>0, <1>18 DEF DialFailed, Progress
<1>19. CASE LinkUp
  BY <1>0, <1>19 DEF LinkUp, Progress
<1>20. CASE GiveUp \/ Stall
  <2>1. conn' \in {"failed", "stuck"}
    BY <1>20 DEF GiveUp, Stall
  <2> QED
    BY <1>0, <1>20, <2>1 DEF GiveUp, Stall, Progress
<1>24. CASE CharacteristicFound
  BY <1>0, <1>24 DEF CharacteristicFound, Progress
<1>25. CASE SubscribeDone
  BY <1>0, <1>25 DEF SubscribeDone, Progress
<1>26. CASE Announce
  BY <1>0, <1>26 DEF Announce, Progress
<1>21. CASE LinkLost
  BY <1>0, <1>21 DEF LinkLost
<1>22. CASE Notification
  BY <1>0, <1>22 DEF Notification
<1> QED
  BY <1>1, <1>2, <1>3, <1>4, <1>5, <1>6, <1>7, <1>8, <1>9, <1>10, <1>11, <1>12,
     <1>13, <1>14, <1>15, <1>16, <1>17, <1>18, <1>19, <1>20, <1>21, <1>22, <1>23,
     <1>24, <1>25, <1>26, Steps
  DEF HttpStep, TimerStep, HostStep, Silently

LEMMA LateNext ==
  ASSUME Next
  PROVE  late' \subseteq {"http", "timer"}
BY DEF Next, NoteLate

LEMMA TypesNext ==
  ASSUME TasksTypeOK, Places, Budget, Next
  PROVE  TasksTypeOK'
<1>1. left' \in -2 .. RefreshRetries
  BY BudgetNext, TasksAssumption DEF Budget, AboutToSpend, Spending
<1> QED
  BY <1>1, ControlsNext, IdledNext, LateNext, PlainNext DEF TasksTypeOK, Controls, Plain

-----------------------------------------------------------------------------
(* What the steps keep *)

\* The sections that more than one task comes to.
LEMMA SharedKeeps ==
  ASSUME TasksInv, NoteIdle, NEW t \in Tasks, Shared(t)
  PROVE  Central' /\ AudienceInv'
<1> USE Names DEF TasksInv, AudienceInv, Moved, Now, At, Idle, Dialling, Exposed, Watched, Leaving, Expired,
              books, timers, refresh, stack, central, status, Subscribed
<1>0. Controls /\ clients \in SUBSET Sockets
  BY DEF TasksTypeOK, Controls
<1>1. CASE Tell(t)
  <2>1. \/ Moved(t, after[t], "idle", {})
        \/ \E bad \in SUBSET clients : Moved(t, "strike", after[t], bad)
    BY <1>0, <1>1, TellMoves
  <2>2. Central'
    BY <1>1, <2>1 DEF Tell, Central, Places
  <2>3. Books'
    BY <1>1, <2>1 DEF Tell, Books, Places
  <2>4. Held'
    BY ZenonT(60), <1>1, <2>1 DEF Tell, Held, Places
  <2>5. ExpiredInTime'
    BY <1>1, <2>1 DEF Tell, ExpiredInTime, Places
  <2>6. AbandonedIsNoted'
    <3> USE DEF AbandonedIsNoted, Places
    <3>1. CASE Moved(t, after[t], "idle", {})
      BY ZenonT(60), <1>1, <3>1 DEF Tell
    <3>2. CASE \E bad \in SUBSET clients : Moved(t, "strike", after[t], bad)
      BY <1>1, <3>2 DEF Tell
    <3> QED
      BY <2>1, <3>1, <3>2
  <2>7. Mute'
    BY <1>1, <2>1 DEF Tell, Mute, NoteIdle, AbandonedIsNoted
  <2> QED
    BY <2>2, <2>3, <2>4, <2>5, <2>6, <2>7
<1>2. CASE Strike(t)
  <2>1. Moved(t, after[t], "idle", {})
    BY <1>0, <1>2, SharedMoves
  <2>2. Central'
    BY <1>2, <2>1 DEF Strike, Central, Places
  <2>3. Books' /\ Held'
    BY ZenonT(60), <1>2, <2>1 DEF Strike, Books, Places, Held
  <2>4. ExpiredInTime'
    BY <1>2, <2>1 DEF Strike, ExpiredInTime, Places
  <2>5. AbandonedIsNoted'
    BY ZenonT(60), <1>2, <2>1 DEF Strike, AbandonedIsNoted, Places
  <2>6. Mute'
    BY <1>2, <2>1 DEF Strike, Mute, NoteIdle, AbandonedIsNoted
  <2> QED
    BY <2>2, <2>3, <2>4, <2>5, <2>6
<1>3. CASE React(t)
  <2>1. \E s \in {"idle", "spend"} : Moved(t, s, "idle", {})
    BY ZenonT(60), <1>0, <1>3, SharedMoves
  <2>2. Central'
    BY <1>3, <2>1 DEF React, Central
  <2>3. Books'
    BY <1>3, <2>1 DEF React, Books
  <2>4. Held'
    BY <1>3, <2>1 DEF React, Held
  <2>5. ExpiredInTime'
    BY <1>3, <2>1 DEF React, ExpiredInTime
  <2>6. AbandonedIsNoted'
    BY <1>3, <2>1 DEF React, AbandonedIsNoted
  <2>7. Mute'
    BY <1>3, <2>1 DEF React, Mute, NoteIdle, AbandonedIsNoted
  <2> QED
    BY <2>2, <2>3, <2>4, <2>5, <2>6, <2>7
<1>4. CASE Spend(t)
  <2>1. Moved(t, "idle", "idle", {})
    BY <1>0, <1>4, SharedMoves
  <2>2. Central'
    BY <1>4, <2>1 DEF Spend, Central
  <2>3. Books' /\ Held'
    BY <1>4, <2>1 DEF Spend, Books, Held
  <2>4. ExpiredInTime' /\ AbandonedIsNoted'
    BY <1>4, <2>1 DEF Spend, ExpiredInTime, AbandonedIsNoted
  <2>5. Mute'
    BY <1>4, <2>1 DEF Spend, Mute, NoteIdle, AbandonedIsNoted
  <2> QED
    BY <2>2, <2>3, <2>4, <2>5
<1>5. CASE Look(t)
  <2>1. \E n \in {"idle", "react", "claim"} : Moved(t, "tell", n, {})
    BY <1>0, <1>5, SharedMoves
  <2>2. Central'
    BY <1>5, <2>1 DEF Look, Central
  <2>3. Books' /\ Held'
    BY <1>5, <2>1 DEF Look, Books, Held
  <2>4. ExpiredInTime' /\ AbandonedIsNoted'
    BY <1>5, <2>1 DEF Look, ExpiredInTime, AbandonedIsNoted
  <2>5. Mute'
    BY <1>5, <2>1 DEF Look, Mute, NoteIdle, AbandonedIsNoted
  <2> QED
    BY <2>2, <2>3, <2>4, <2>5
<1>6. CASE Claim(t)
  <2>1. Moved(t, "dial", "idle", {})
    BY <1>0, <1>6, SharedMoves
  <2>2. Central'
    BY <1>6, <2>1 DEF Claim, Central, Places
  <2>3. Books' /\ Held'
    BY <1>6, <2>1 DEF Claim, Books, Held
  <2>4. ExpiredInTime' /\ AbandonedIsNoted'
    BY <1>6, <2>1 DEF Claim, ExpiredInTime, AbandonedIsNoted
  <2>5. Mute'
    BY <1>6, <2>1 DEF Claim, Mute, NoteIdle, AbandonedIsNoted
  <2> QED
    BY <2>2, <2>3, <2>4, <2>5
<1>7. CASE Dial(t)
  <2>1. \/ /\ Moved(t, "idle", "idle", {})
           /\ gap = "idle" /\ link = "none" /\ gap' = "dial" /\ pending' = pending
        \/ /\ \E n \in {"idle", "react"} : Moved(t, "tell", n, {})
           /\ gap' = gap /\ pending' = FALSE
    BY <1>0, <1>7, SharedMoves
  <2>2. Central'
    <3>1. CASE gap = "idle" /\ gap' = "dial" /\ link = "none" /\ pending' = pending
      <4>1. crossed' = (~pending \/ pc["host"] = "down") /\ conn' = conn /\ link' = link
        BY <1>7, <3>1 DEF Dial
      <4>2. pc[t] = "dial" /\ pc["host"] # "dial"
        BY <1>7 DEF Dial, Places
      <4>3. pc'["host"] = pc["host"]
        BY <2>1, <4>2
      <4> QED
        BY <3>1, <4>1, <4>3 DEF Central
    <3>2. CASE (\E n \in {"idle", "react"} : Moved(t, "tell", n, {})) /\ gap' = gap /\ pending' = FALSE
      <4>1. conn' = conn /\ link' = link /\ (gap = "dial" => crossed')
        BY <1>7, <3>2 DEF Dial
      <4>2. pc[t] = "dial"
        BY <1>7 DEF Dial
      <4> QED
        BY <3>2, <4>1, <4>2 DEF Central
    <3> QED
      BY <2>1, <3>1, <3>2
  <2>3. Books' /\ Held'
    BY <1>7, <2>1 DEF Dial, Books, Places, Held
  <2>4. ExpiredInTime' /\ AbandonedIsNoted'
    BY <1>7, <2>1 DEF Dial, ExpiredInTime, Books, Places, AbandonedIsNoted
  <2>5. Mute'
    BY <1>7, <2>1 DEF Dial, Mute, NoteIdle, AbandonedIsNoted
  <2> QED
    BY <2>2, <2>3, <2>4, <2>5
<1>8. CASE HangUp(t)
  <2>1. Moved(t, after[t], "idle", {})
    BY <1>0, <1>8, SharedMoves
  <2>2. Central'
    BY <1>8, <2>1 DEF HangUp, Central, Places
  <2>3. Books' /\ Held'
    BY ZenonT(60), <1>8, <2>1 DEF HangUp, Books, Places, Held, ExpiredInTime, Central
  <2>4. ExpiredInTime' /\ AbandonedIsNoted'
    BY ZenonT(60), <1>8, <2>1 DEF HangUp, ExpiredInTime, Central, Books, Places, AbandonedIsNoted
  <2>5. Mute'
    BY <1>8, <2>1 DEF HangUp, Mute, NoteIdle
  <2> QED
    BY <2>2, <2>3, <2>4, <2>5
<1> QED
  BY <1>1, <1>2, <1>3, <1>4, <1>5, <1>6, <1>7, <1>8 DEF Shared

\* The HTTP server's task.
LEMMA HttpKeeps ==
  ASSUME TasksInv, NoteIdle, HttpStep
  PROVE  Central' /\ AudienceInv'
<1> USE Names DEF TasksInv, AudienceInv, Moved, Now, At, Idle, Dialling, Exposed, Watched, Leaving, Expired,
              books, timers, refresh, stack, central, status, Subscribed
<1>0. Controls /\ clients \in SUBSET Sockets
  BY DEF TasksTypeOK, Controls
<1>1. CASE \E f \in Sockets : PostHandshake(f)
  <2>0. PICK f \in Sockets : PostHandshake(f)
    BY <1>1
  <2>1. Moved("http", "add", "idle", {f})
    BY <1>0, <2>0, HttpMoves
  <2>2. Central'
    BY <2>0, <2>1 DEF PostHandshake, Central
  <2>3. AudienceInv'
    BY <2>0, <2>1 DEF PostHandshake, Books, Held, ExpiredInTime, AbandonedIsNoted, Mute, NoteIdle
  <2> QED
    BY <2>2, <2>3
<1>2. CASE \E f \in Sockets, counts \in BOOLEAN : Close(f, counts)
  <2>0. PICK f \in Sockets, counts \in BOOLEAN : Close(f, counts)
    BY <1>2
  <2>1. Moved("http", "drop", IF counts THEN "last" ELSE "idle", {f})
    BY <1>0, <2>0, HttpMoves
  <2>2. Central'
    BY <2>0, <2>1 DEF Close, Central
  <2>3. Books' /\ Held'
    BY <2>0, <2>1 DEF Close, Books, Held
  <2>4. ExpiredInTime' /\ AbandonedIsNoted'
    BY <2>0, <2>1 DEF Close, ExpiredInTime, AbandonedIsNoted, Expiring
  <2>5. Mute'
    BY <2>0, <2>1 DEF Close, Mute, NoteIdle, AbandonedIsNoted
  <2> QED
    BY <2>2, <2>3, <2>4, <2>5
<1>3. CASE Add
  <2>1. Moved("http", "refresh", "idle", {})
    BY <1>0, <1>3, HttpMoves
  <2>2. Central'
    BY <1>3, <2>1 DEF Add, Central
  <2>3. AudienceInv'
    BY <1>3, <2>1 DEF Add, Books, Held, ExpiredInTime, AbandonedIsNoted, Mute, NoteIdle
  <2> QED
    BY <2>2, <2>3
<1>4. CASE Cancel
  <2>1. Moved("http", "look", "idle", {})
    BY <1>0, <1>4, HttpMoves
  <2>2. Central'
    BY <1>4, <2>1 DEF Cancel, Central
  <2>3. AudienceInv'
    BY <1>4, <2>1 DEF Cancel, Books, Held, ExpiredInTime, AbandonedIsNoted, Mute, NoteIdle
  <2> QED
    BY <2>2, <2>3
<1>5. CASE Refresh
  <2>1. Moved("http", IF abandoned /\ IsConnected THEN "refill" ELSE "greet", "idle", {})
    BY <1>0, <1>5, HttpMoves
  <2>2. Central'
    BY <1>5, <2>1 DEF Refresh, Central
  <2>3. AudienceInv'
    BY <1>5, <2>1 DEF Refresh, IsConnected, Books, Held, ExpiredInTime, AbandonedIsNoted, Mute, NoteIdle
  <2> QED
    BY <2>2, <2>3
<1>6. CASE Refill
  <2>1. Moved("http", "hang up", "arm", {})
    BY <1>0, <1>6, HttpMoves
  <2>2. Central'
    BY <1>6, <2>1 DEF Refill, Central
  <2>3. AudienceInv'
    BY <1>6, <2>1 DEF Refill, Books, Held, ExpiredInTime, AbandonedIsNoted, Mute, NoteIdle
  <2> QED
    BY <2>2, <2>3
<1>7. CASE Arm
  <2>1. Moved("http", "greet", "idle", {})
    BY <1>0, <1>7, HttpMoves
  <2>2. Central'
    BY <1>7, <2>1 DEF Arm, Central
  <2>3. AudienceInv'
    BY <1>7, <2>1 DEF Arm, Books, Held, ExpiredInTime, AbandonedIsNoted, Mute, NoteIdle
  <2> QED
    BY <2>2, <2>3
<1>8. CASE Greet
  <2>1. Moved("http", "tell", "idle", {})
    BY <1>0, <1>8, HttpMoves
  <2>2. Central'
    BY <1>8, <2>1 DEF Greet, Central
  <2>3. AudienceInv'
    BY <1>8, <2>1 DEF Greet, Books, Held, ExpiredInTime, AbandonedIsNoted, Mute, NoteIdle
  <2> QED
    BY <2>2, <2>3
<1>9. CASE Drop
  <2>1. Moved("http", after["http"], "idle", {})
    BY <1>0, <1>9, HttpMoves
  <2>2. Central'
    BY <1>9, <2>1 DEF Drop, Central
  <2>3. AudienceInv'
    BY ZenonT(60), <1>9, <2>1 DEF Drop, Books, Places, Held, ExpiredInTime, AbandonedIsNoted, Mute, NoteIdle
  <2> QED
    BY <2>2, <2>3
<1>10. CASE LastOne
  <2>1. Moved("http", IF clients = {} THEN "abandon" ELSE "idle", "idle", {})
    BY <1>0, <1>10, HttpMoves
  <2>2. Central'
    BY <1>10, <2>1 DEF LastOne, Central
  <2>3. AudienceInv'
    BY <1>10, <2>1 DEF LastOne, Books, Held, ExpiredInTime, AbandonedIsNoted, Mute, NoteIdle
  <2> QED
    BY <2>2, <2>3
<1>11. CASE Abandon
  <2>1. Moved("http", "clock", "idle", {})
    BY <1>0, <1>11, HttpMoves
  <2>2. Central'
    BY <1>11, <2>1 DEF Abandon, Central
  <2>3. AudienceInv'
    BY <1>11, <2>1 DEF Abandon, Books, Held, ExpiredInTime, AbandonedIsNoted, Mute, NoteIdle
  <2> QED
    BY <2>2, <2>3
<1>12. CASE StartClock
  <2>1. Moved("http", "idle", "idle", {})
    BY <1>0, <1>12, HttpMoves
  <2>2. Central'
    BY <1>12, <2>1 DEF StartClock, Central
  <2>3. AudienceInv'
    BY <1>12, <2>1 DEF StartClock, Books, Held, ExpiredInTime, AbandonedIsNoted, Mute, NoteIdle
  <2> QED
    BY <2>2, <2>3
<1>13. CASE Message
  <2>1. Moved("http", "cancel", "idle", {}) \/ Moved("http", "hang up", "idle", {})
    BY <1>0, <1>13, HttpMoves
  <2>2. Central'
    BY <1>13, <2>1 DEF Message, Central
  <2>3. AudienceInv'
    BY <1>13, <2>1 DEF Message, Books, Held, ExpiredInTime, AbandonedIsNoted, Mute, NoteIdle
  <2> QED
    BY <2>2, <2>3
<1> QED
  BY <1>1, <1>2, <1>3, <1>4, <1>5, <1>6, <1>7, <1>8, <1>9, <1>10, <1>11, <1>12, <1>13 DEF HttpStep

\* The timer task.
LEMMA TimerKeeps ==
  ASSUME TasksInv, NoteIdle, TimerStep
  PROVE  Central' /\ AudienceInv'
<1> USE Names DEF TasksInv, AudienceInv, Moved, Now, At, Idle, Dialling, Exposed, Watched, Leaving, Expired,
              books, timers, refresh, stack, central, status, Subscribed
<1>0. Controls /\ clients \in SUBSET Sockets
  BY DEF TasksTypeOK, Controls
<1>1. CASE LingerExpired
  <2>1. Moved("timer", "nobody", "idle", {})
    BY <1>0, <1>1, TimerMoves
  <2>2. Central'
    BY <1>1, <2>1 DEF LingerExpired, Central, DialIsOver
  <2>3. AudienceInv'
    BY <1>1, <2>1 DEF LingerExpired, Books, Held, ExpiredInTime, AbandonedIsNoted, Mute, NoteIdle, DialIsOver
  <2> QED
    BY <2>2, <2>3
<1>2. CASE Nobody
  <2>1. Moved("timer", IF clients = {} THEN "forget" ELSE "idle", "idle", {})
    BY <1>0, <1>2, TimerMoves
  <2>2. Central'
    BY <1>2, <2>1 DEF Nobody, Central
  <2>3. AudienceInv'
    BY ZenonT(60), <1>2, <2>1 DEF Nobody, Books, Held, ExpiredInTime, AbandonedIsNoted, Mute, NoteIdle
  <2> QED
    BY <2>2, <2>3
<1>3. CASE Forget
  <2>1. Moved("timer", "hang up", "idle", {})
    BY <1>0, <1>3, TimerMoves
  <2>2. Central'
    BY <1>3, <2>1 DEF Forget, Central
  <2>3. AudienceInv'
    BY <1>3, <2>1 DEF Forget, Books, Held, ExpiredInTime, AbandonedIsNoted, Mute, NoteIdle
  <2> QED
    BY <2>2, <2>3
<1>4. CASE RefreshLink
  <2>1. Moved("timer", "somebody", "idle", {})
    BY <1>0, <1>4, TimerMoves DEF TimerStep
  <2>2. Central'
    BY <1>4, <2>1 DEF RefreshLink, Central
  <2>3. AudienceInv'
    BY ZenonT(60), <1>4, <2>1 DEF RefreshLink, Books, Held, ExpiredInTime, AbandonedIsNoted, Mute, NoteIdle
  <2> QED
    BY <2>2, <2>3
<1>5. CASE Somebody
  <2>1. Moved("timer", IF clients = {} THEN "idle" ELSE "look", "idle", {})
    BY <1>0, <1>5, TimerMoves
  <2>2. Central'
    BY <1>5, <2>1 DEF Somebody, Central
  <2>3. AudienceInv'
    BY ZenonT(60), <1>5, <2>1 DEF Somebody, Books, Held, ExpiredInTime, AbandonedIsNoted, Mute, NoteIdle
  <2> QED
    BY <2>2, <2>3
<1> QED
  BY <1>1, <1>2, <1>3, <1>4, <1>5 DEF TimerStep

\* The Bluetooth host's task, and the stack.
LEMMA HostKeeps ==
  ASSUME TasksInv, NoteIdle, HostStep \/ Silently
  PROVE  Central' /\ AudienceInv'
<1> USE Names DEF TasksInv, AudienceInv, Moved, Now, At, Idle, Dialling, Exposed, Watched, Leaving, Expired,
              books, timers, refresh, stack, central, status, Subscribed
<1>0. Controls /\ clients \in SUBSET Sockets
  BY DEF TasksTypeOK, Controls
<1>1. CASE Down
  <2>1. \E n \in {"idle", "react"} : Moved("host", "tell", n, {})
    BY <1>0, <1>1, HostMoves
  <2>2. Central'
    BY <1>1, <2>1 DEF Down, Central
  <2>3. Books' /\ Held'
    BY <1>1, <2>1 DEF Down, Books, Held
  <2>4. ExpiredInTime' /\ AbandonedIsNoted'
    BY <1>1, <2>1 DEF Down, ExpiredInTime, AbandonedIsNoted
  <2>5. Mute'
    BY <1>1, <2>1 DEF Down, Mute, NoteIdle
  <2> QED
    BY <2>2, <2>3, <2>4, <2>5
<1>2. CASE DialFailed
  <2>1. \E n \in {"idle", "react"} : Moved("host", "tell", n, {})
    BY <1>0, <1>2, HostMoves
  <2>2. Central'
    BY <1>2, <2>1 DEF DialFailed, Central
  <2>3. Books' /\ Held' /\ ExpiredInTime' /\ AbandonedIsNoted'
    BY <1>2, <2>1 DEF DialFailed, Books, Held, ExpiredInTime, AbandonedIsNoted
  <2>4. Mute'
    BY <1>2, <2>1 DEF DialFailed, Mute, NoteIdle
  <2> QED
    BY <2>2, <2>3, <2>4
<1>3. CASE GiveUp \/ Announce
  <2>1. \E n \in {"idle", "react"} : Moved("host", "tell", n, {})
    BY <1>0, <1>3, HostMoves
  <2>2. Central'
    <3>1. /\ link # "none" /\ link' # "none" /\ conn' # "none"
          /\ UNCHANGED <<gap, pending, crossed>> /\ pc["host"] = "idle"
      BY <1>3 DEF GiveUp, Announce, Discovers
    <3> QED
      BY <2>1, <3>1 DEF Central
  <2>3. Books' /\ Held'
    BY <1>3, <2>1 DEF GiveUp, Announce, Books, Held
  <2>4. ExpiredInTime' /\ AbandonedIsNoted'
    BY <1>3, <2>1 DEF GiveUp, Announce, ExpiredInTime, AbandonedIsNoted
  <2>5. Mute'
    BY <1>3, <2>1 DEF GiveUp, Announce, Mute, NoteIdle, AbandonedIsNoted
  <2> QED
    BY <2>2, <2>3, <2>4, <2>5
<1>4. CASE LinkLost
  <2>1. Moved("host", "down", "idle", {})
    BY <1>0, <1>4, HostMoves
  <2>2. Central'
    BY <1>4, <2>1 DEF LinkLost, Central
  <2>3. Books' /\ Held' /\ ExpiredInTime' /\ AbandonedIsNoted'
    BY <1>4, <2>1 DEF LinkLost, Books, Held, ExpiredInTime, Central, AbandonedIsNoted
  <2>4. Mute'
    BY <1>4, <2>1 DEF LinkLost, Mute, NoteIdle
  <2> QED
    BY <2>2, <2>3, <2>4
<1>5. CASE Notification
  <2>1. \E bad \in SUBSET clients : Moved("host", "strike", "idle", bad)
    BY <1>0, <1>5, HostMoves DEF HostStep
  <2>2. Central'
    BY <1>5, <2>1 DEF Notification, Central
  <2>3. Books' /\ Held'
    BY <1>5, <2>1 DEF Notification, Books, Held
  <2>4. ExpiredInTime' /\ AbandonedIsNoted'
    BY <1>5, <2>1 DEF Notification, ExpiredInTime, AbandonedIsNoted
  <2>5. Mute'
    BY <1>5, <2>1 DEF Notification, Mute, NoteIdle, AbandonedIsNoted
  <2> QED
    BY <2>2, <2>3, <2>4, <2>5
<1>6. CASE LinkUp
  <2>2. Central'
    BY <1>6 DEF LinkUp, Central, control
  <2>3. Books' /\ Held' /\ ExpiredInTime' /\ AbandonedIsNoted'
    BY <1>6 DEF LinkUp, Books, Held, ExpiredInTime, AbandonedIsNoted, control
  <2>4. Mute'
    BY <1>6 DEF LinkUp, Mute, NoteIdle, Central, control
  <2> QED
    BY <2>2, <2>3, <2>4
<1>7. CASE CharacteristicFound \/ Stall \/ SubscribeDone
  <2> USE <1>7 DEF CharacteristicFound, Stall, SubscribeDone, Discovers, control
  <2>2. Central'
    <3>1. /\ link # "none" /\ conn' # "none"
          /\ UNCHANGED <<gap, link, pending, crossed, pc>> /\ pc["host"] = "idle"
      OBVIOUS
    <3> QED
      BY <3>1 DEF Central
  <2>3. Books' /\ Held'
    BY DEF Books, Held
  <2>4. ExpiredInTime' /\ AbandonedIsNoted'
    BY DEF ExpiredInTime, AbandonedIsNoted
  <2>5. Mute'
    BY DEF Mute, NoteIdle, AbandonedIsNoted
  <2> QED
    BY <2>2, <2>3, <2>4, <2>5
<1> QED
  BY <1>1, <1>2, <1>3, <1>4, <1>5, <1>6, <1>7 DEF HostStep, Silently

-----------------------------------------------------------------------------
(* What is told *)

\* Task t comes to section s with status st to tell; the others are where they were.
Goes(t, s, n, st) ==
    /\ pc'[t] = s /\ after'[t] = n /\ said'[t] = st
    /\ \A u \in Tasks \ {t} : pc'[u] = pc[u] /\ after'[u] = after[u] /\ said'[u] = said[u]

LEMMA Going ==
  ASSUME Controls, NEW t \in Tasks, NEW s, NEW n, NEW st, NEW fs, Enter(t, s, n, st, fs)
  PROVE  Goes(t, s, n, st)
BY DEF Controls, Enter, Goes

\* What a reader has read stays so, or it is overtaken.
LEMMA ReadsKept ==
  ASSUME NoteLate, NEW u \in Readers, Reads(u),
         pc'[u] = pc[u], after'[u] = after[u], said'[u] = said[u]
  PROVE  Reads(u)' /\ (u \in late /\ ToTell(u) => u \in late')
<1> USE DEF NoteLate, Readers
<1>1. u \in late /\ ToTell(u) => u \in late'
  BY DEF ToTell
<1>2. ToTell(u) /\ u \notin late' => u \notin late /\ pending' = pending /\ IsConnected' = IsConnected
  BY DEF ToTell
<1>3. (pc[u] \in {"tell", "claim", "dial"} \/ (pc[u] = "strike" /\ after[u] = "claim")) => ToTell(u)
  BY DEF ToTell
<1>4. CASE ToTell(u) /\ u \notin late'
  BY <1>2, <1>4 DEF Reads
<1>5. CASE ToTell(u) /\ u \in late'
  BY <1>5 DEF Reads
<1>6. CASE ~ToTell(u)
  BY <1>3, <1>6 DEF Reads
<1> QED
  BY <1>1, <1>4, <1>5, <1>6

\* A reader that goes on stays overtaken until it has told.
LEMMA LateKept ==
  ASSUME NoteLate, NEW t \in Readers, pc'[t] # pc[t], pc[t] \notin {"look", "greet"}
  PROVE  t \in late' <=> t \in late /\ ToTell(t)'
BY DEF NoteLate, Readers

LEMMA OthersKept ==
  ASSUME StatusInv, NoteLate, NEW t \in Tasks, NEW s, NEW n, NEW st, Goes(t, s, n, st)
  PROVE  \A u \in Readers \ {t} : Reads(u)' /\ (Owes(u) => Owes(u)')
<1> SUFFICES ASSUME NEW u \in Readers \ {t}
             PROVE  Reads(u)' /\ (Owes(u) => Owes(u)')
  OBVIOUS
<1>1. pc'[u] = pc[u] /\ after'[u] = after[u] /\ said'[u] = said[u] /\ Reads(u)
  BY Names DEF Goes, Readers, StatusInv
<1>2. Reads(u)' /\ (u \in late /\ ToTell(u) => u \in late')
  BY <1>1, ReadsKept
<1>3. Owes(u) => Owes(u)'
  BY <1>1, <1>2 DEF Owes, ToTell
<1> QED
  BY <1>2, <1>3

\* The status is as true as it was when a reader comes from nothing it had to tell
\* to nothing it has to.
LEMMA Passes ==
  ASSUME StatusInv, NoteLate, NEW t \in Readers, NEW s, NEW n, NEW st, Goes(t, s, n, st),
         s \notin {"tell", "claim", "dial", "strike"}, pc[t] \notin {"tell", "dial"},
         UNCHANGED <<conn, shown, overtaken>>
  PROVE  StatusInv'
<1>1. t \in Tasks /\ t # "host" /\ "host" \in Tasks
  BY Names DEF Readers
<1>2. Reads(t)'
  BY DEF Goes, Reads
<1>3. \A u \in Readers \ {t} : Reads(u)' /\ (Owes(u) => Owes(u)')
  BY <1>1, OthersKept
<1>4. HostReads'
  BY <1>1 DEF Goes, HostReads, StatusInv
<1>5. ~Owes(t)
  BY DEF Owes
<1>6. Owed => Owed'
  BY <1>3, <1>5 DEF Owed, Readers
<1>7. Shown'
  BY <1>1, <1>6 DEF Shown, StatusInv, IsConnected, Goes
<1> QED
  BY <1>2, <1>3, <1>4, <1>7 DEF StatusInv, Readers

LEMMA SharedTells ==
  ASSUME TasksInv, NoteLate, NEW t \in Tasks, Shared(t)
  PROVE  StatusInv'
<1> USE DEF TasksInv, At, status, central
<1>0. /\ Controls /\ Places /\ StatusInv /\ conn' = conn
      /\ t \in Readers => Reads(t)
      /\ t = "host" \/ t \in Readers
      /\ IsConnected' = IsConnected
  BY Names DEF TasksTypeOK, Controls, Readers, StatusInv, Shared, Tell, Strike, React, Spend, Look,
               Claim, Dial, HangUp, IsConnected
<1>1. ASSUME NEW s, NEW n, NEW st, Goes(t, s, n, st)
      PROVE  /\ \A u \in Readers \ {t} : Reads(u)' /\ (Owes(u) => Owes(u)')
             /\ t # "host" \/ s # "tell" => HostReads'
             /\ ~Owes(t) \/ Owes(t)' => (Owed => Owed')
  <2>1. \A u \in Readers \ {t} : Reads(u)' /\ (Owes(u) => Owes(u)')
    BY <1>0, <1>1, OthersKept
  <2>2. t # "host" \/ s # "tell" => HostReads'
    BY <1>0, <1>1, Names DEF Goes, HostReads, StatusInv
  <2> QED
    BY <2>1, <2>2 DEF Owed, Readers
<1>2. ASSUME Reads(t)' \/ t = "host", HostReads', Shown', NEW s, NEW n, NEW st, Goes(t, s, n, st)
      PROVE  StatusInv'
  BY <1>0, <1>1, <1>2 DEF StatusInv, Readers
<1>3. CASE Tell(t)
  <2>1. /\ pc[t] = "tell"
        /\ shown' = (said[t] = "connected")
        /\ overtaken' = (t \in late /\ IF shown' THEN ~IsConnected ELSE conn = "usable")
        /\ pending' = pending
    BY <1>3 DEF Tell
  <2>2. \/ Goes(t, after[t], "idle", Kept(t))
        \/ Goes(t, "strike", after[t], Kept(t))
    BY <1>0, <1>3, Going DEF Tell, Proceed
  <2>3. PICK s, n, st : /\ Goes(t, s, n, st)
                        /\ s = after[t] \/ (s = "strike" /\ n = after[t])
    BY <2>2
  <2>4. after[t] \in {"idle", "claim", "react"}
    BY <1>0, <2>1 DEF Places, Readers
  <2>5. Reads(t)' \/ t = "host"
    <3>1. SUFFICES ASSUME t \in Readers, IsConnected, after[t] = "claim"
                   PROVE  t \in late'
      BY <1>0, <2>3, <2>4 DEF Goes, Reads
    <3>2. t \in late
      BY <1>0, <2>1, <3>1 DEF Reads
    <3> QED
      BY <2>1, <2>3, <3>1, <3>2, LateKept DEF Goes, ToTell
  <2>6. shown' => IsConnected' \/ overtaken'
    <3>1. CASE t = "host"
      BY <1>0, <2>1, <3>1 DEF HostReads, StatusInv, IsConnected
    <3>2. CASE t \in Readers
      BY <1>0, <2>1, <3>2 DEF Reads
    <3> QED
      BY <1>0, <3>1, <3>2
  <2>7. conn' = "usable" => shown' \/ overtaken' \/ pc'["host"] \in {"tell", "down"} \/ Owed'
    <3>1. SUFFICES ASSUME conn = "usable", ~shown', ~overtaken', pc["host"] # "down"
                   PROVE  Owed'
      <4>1. pc["host"] = "down" => t # "host"
        BY <2>1
      <4>2. pc["host"] = "down" => pc'["host"] = "down"
        BY <2>3, <4>1, Names DEF Goes
      <4> QED
        BY <1>0, <3>1, <4>2
    <3>2. t \notin late /\ said[t] # "connected" /\ IsConnected
      BY <2>1, <3>1 DEF IsConnected
    <3>3. t \in Readers
      BY <1>0, <2>1, <3>1, <3>2 DEF HostReads, StatusInv
    <3>4. pending
      BY <1>0, <2>1, <3>2, <3>3 DEF Reads
    <3>5. PICK u \in Readers : pc[u] = "dial"
      BY <3>1, <3>4 DEF Central, Readers
    <3>6. Owes(u) /\ u # t
      BY <1>0, <2>1, <3>2, <3>5 DEF Owes, Reads, StatusInv, Readers
    <3>7. Owes(u)'
      BY <1>1, <2>3, <3>6
    <3> QED
      BY <3>7 DEF Owed, Readers
  <2>8. s # "tell"
    BY <2>3, <2>4
  <2> QED
    BY <1>1, <1>2, <2>3, <2>5, <2>6, <2>7, <2>8 DEF Shown
<1>4. CASE Strike(t) \/ HangUp(t) \/ React(t) \/ Spend(t)
  <2>1. PICK s, n, st : /\ Goes(t, s, n, st)
                        /\ s \in {"idle", "spend"} \/ (s = after[t] /\ (Strike(t) \/ HangUp(t)))
                        /\ n = "idle"
    BY <1>0, <1>4, Going DEF Strike, HangUp, React, Spend, Proceed, Goto
  <2>2. shown' = shown /\ overtaken' = overtaken
    BY <1>4 DEF Strike, HangUp, React, Spend
  <2>3. pc[t] \in {"strike", "hang up", "react", "spend"}
    BY <1>4 DEF Strike, HangUp, React, Spend
  <2>4. /\ s \in {"idle", "spend", "claim", "react", "arm"}
        /\ s = "claim" => pc[t] = "strike" /\ after[t] = "claim"
    BY <1>0, <1>4, <2>1, <2>3 DEF Places, Readers, Strike, HangUp
  <2>5. Reads(t)' \/ t = "host"
    <3>1. SUFFICES ASSUME t \in Readers, IsConnected, s = "claim"
                   PROVE  t \in late'
      BY <1>0, <2>1, <2>4 DEF Goes, Reads
    <3>2. t \in late
      BY <1>0, <2>4, <3>1 DEF Reads
    <3> QED
      BY <2>1, <2>3, <3>1, <3>2, LateKept DEF Goes, ToTell
  <2>6. Owed => Owed'
    BY <1>1, <2>1, <2>3 DEF Owes
  <2>7. pc["host"] \in {"tell", "down"} => pc'["host"] = pc["host"]
    BY <1>0, <2>1, <2>3, Names DEF Goes
  <2>8. Shown'
    BY <1>0, <2>2, <2>6, <2>7 DEF Shown, StatusInv
  <2> QED
    BY <1>1, <1>2, <2>1, <2>4, <2>5, <2>8
<1>5. CASE Look(t)
  <2>1. pc[t] = "look" /\ shown' = shown /\ overtaken' = overtaken /\ pending' = pending
    BY <1>5 DEF Look
  <2>2. t \in Readers
    BY <1>0, <2>1 DEF Places
  <2>3. PICK n, st : /\ Goes(t, "tell", n, st)
                     /\ IF IsConnected THEN n # "claim" /\ (st = "connected" \/ pending)
                                       ELSE st # "connected"
    BY <1>0, <1>5, Going DEF Look, Say, Status
  <2>4. Reads(t)'
    BY <1>0, <2>1, <2>3 DEF Goes, Reads
  <2>5. Owed => Owed'
    BY <1>1, <2>1, <2>3 DEF Owes
  <2>6. t # "host" /\ pc'["host"] = pc["host"]
    BY <2>2, <2>3, Names DEF Goes, Readers
  <2>7. Shown'
    BY <1>0, <2>1, <2>5, <2>6 DEF Shown, StatusInv
  <2> QED
    BY <1>1, <1>2, <2>3, <2>4, <2>6, <2>7
<1>6. CASE Claim(t)
  <2>1. pc[t] = "claim" /\ shown' = shown /\ overtaken' = overtaken
    BY <1>6 DEF Claim
  <2>2. t \in Readers
    BY <1>0, <2>1 DEF Places
  <2>3. Goes(t, "dial", "idle", "")
    BY <1>0, <1>6, Going DEF Claim, Goto
  <2>4. Reads(t)'
    BY <1>0, <2>1, <2>2, <2>3, LateKept DEF Goes, Reads, ToTell
  <2>5. Owed => Owed'
    BY <1>1, <2>1, <2>3 DEF Owes
  <2>6. t # "host" /\ pc'["host"] = pc["host"]
    BY <2>2, <2>3, Names DEF Goes, Readers
  <2>7. Shown'
    BY <1>0, <2>1, <2>5, <2>6 DEF Shown, StatusInv
  <2> QED
    BY <1>1, <1>2, <2>3, <2>4, <2>6, <2>7
<1>7. CASE Dial(t)
  <2>1. pc[t] = "dial" /\ shown' = shown /\ overtaken' = overtaken
    BY <1>7 DEF Dial
  <2>2. t \in Readers
    BY <1>0, <2>1 DEF Places
  <2>3. \/ Goes(t, "idle", "idle", "") /\ link = "none"
        \/ Goes(t, "tell", "react", "error")
    BY <1>0, <1>7, Going DEF Dial, Goto, Say, Status
  <2>4. t # "host" /\ pc'["host"] = pc["host"]
    BY <2>2, <2>3, Names DEF Goes, Readers
  <2>5. CASE Goes(t, "idle", "idle", "") /\ link = "none"
    <3>1. Reads(t)'
      BY <2>5 DEF Goes, Reads
    <3>2. conn = "usable" => pc["host"] = "down"
      BY <2>5 DEF Central
    <3>3. Shown'
      BY <1>0, <2>1, <2>4, <3>2 DEF Shown, StatusInv
    <3> QED
      BY <1>1, <1>2, <2>4, <2>5, <3>1, <3>3
  <2>6. CASE Goes(t, "tell", "react", "error")
    <3>1. t \in late' <=> t \in late
      BY <2>1, <2>2, <2>6, LateKept DEF Goes, ToTell
    <3>2. Reads(t)'
      BY <1>0, <2>1, <2>2, <2>6, <3>1 DEF Goes, Reads
    <3>3. Owes(t) => Owes(t)'
      BY <2>6, <3>1 DEF Goes, Owes
    <3>4. Owed => Owed'
      BY <1>1, <2>6, <3>3
    <3>5. Shown'
      BY <1>0, <2>1, <2>4, <3>4 DEF Shown, StatusInv
    <3> QED
      BY <1>1, <1>2, <2>4, <2>6, <3>2, <3>5
  <2> QED
    BY <2>3, <2>5, <2>6
<1> QED
  BY <1>3, <1>4, <1>5, <1>6, <1>7 DEF Shared

LEMMA HttpTells ==
  ASSUME TasksInv, NoteLate, HttpStep
  PROVE  StatusInv'
<1> USE DEF TasksInv, At, Idle, status, central
<1>0. /\ Controls /\ Places /\ StatusInv
      /\ "http" \in Readers /\ "http" \in Tasks
      /\ conn' = conn /\ shown' = shown /\ overtaken' = overtaken
  BY Names DEF TasksTypeOK, Controls, Readers, HttpStep, Add, Cancel, Refresh, Refill, Arm, Greet, Drop,
               LastOne, Abandon, StartClock, Message, PostHandshake, Close
<1>1. CASE Greet
  <2>1. pc["http"] = "greet" /\ pending' = pending /\ IsConnected' = IsConnected
    BY <1>0, <1>1 DEF Greet, IsConnected
  <2>2. Goes("http", "tell", "idle", IF IsConnected THEN "connected" ELSE "idle")
    BY <1>0, <1>1, Going DEF Greet, Status
  <2>3. Reads("http")'
    BY <2>1, <2>2 DEF Goes, Reads
  <2>4. \A u \in Readers \ {"http"} : Reads(u)' /\ (Owes(u) => Owes(u)')
    BY <1>0, <2>2, OthersKept
  <2>5. ~Owes("http")
    BY <2>1 DEF Owes
  <2>6. pc'["host"] = pc["host"] /\ said'["host"] = said["host"]
    BY <2>2, Names DEF Goes
  <2>7. HostReads'
    BY <1>0, <2>6 DEF HostReads, StatusInv
  <2>8. Owed => Owed'
    BY <2>4, <2>5 DEF Owed, Readers
  <2>9. Shown'
    BY <1>0, <2>1, <2>6, <2>8 DEF Shown, StatusInv
  <2> QED
    BY <2>3, <2>4, <2>7, <2>9 DEF StatusInv, Readers
<1>2. CASE ~Greet
  <2>1. pc["http"] \notin {"tell", "dial"}
    BY <1>2 DEF HttpStep, Add, Cancel, Refresh, Refill, Arm, Drop, LastOne, Abandon, StartClock,
                Message, PostHandshake, Close
  <2>2. ASSUME NEW s, NEW n, NEW st, NEW fs, Enter("http", s, n, st, fs),
               s \notin {"tell", "claim", "dial", "strike"}
        PROVE  StatusInv'
    BY <1>0, <2>1, <2>2, Going, Passes
  <2>3. ASSUME NEW s, Goto("http", s), s \notin {"tell", "claim", "dial", "strike"}
        PROVE  StatusInv'
    BY <2>2, <2>3 DEF Goto
  <2>4. CASE Drop
    <3>1. after["http"] \in {"idle", "last"}
      BY <1>0, <2>4 DEF Drop, Places
    <3> QED
      BY <2>2, <2>4, <3>1 DEF Drop, Proceed
  <2>5. CASE Add \/ Cancel \/ Arm
    BY <2>3, <2>5 DEF Add, Cancel, Arm
  <2>6. CASE Refresh
    BY <2>3, <2>6 DEF Refresh
  <2>7. CASE Refill
    BY <2>2, <2>7 DEF Refill
  <2>8. CASE LastOne
    BY <2>3, <2>8 DEF LastOne
  <2>9. CASE Abandon \/ StartClock \/ Message
    BY <2>3, <2>9 DEF Abandon, StartClock, Message
  <2>10. CASE \E f \in Sockets : PostHandshake(f)
    BY <2>2, <2>10 DEF PostHandshake
  <2>11. CASE \E f \in Sockets, counts \in BOOLEAN : Close(f, counts)
    BY <2>2, <2>11 DEF Close
  <2> QED
    BY <1>2, <2>4, <2>5, <2>6, <2>7, <2>8, <2>9, <2>10, <2>11 DEF HttpStep
<1> QED
  BY <1>1, <1>2

LEMMA TimerTells ==
  ASSUME TasksInv, NoteLate, TimerStep
  PROVE  StatusInv'
<1> USE DEF TasksInv, At, Idle, status, central
<1>0. /\ Controls /\ StatusInv
      /\ "timer" \in Readers /\ "timer" \in Tasks
      /\ conn' = conn /\ shown' = shown /\ overtaken' = overtaken
      /\ pc["timer"] \notin {"tell", "dial"}
  BY Names DEF TasksTypeOK, Controls, Readers, TimerStep, LingerExpired, RefreshLink, Nobody, Forget, Somebody
<1>1. ASSUME NEW s, Goto("timer", s), s \notin {"tell", "claim", "dial", "strike"}
      PROVE  StatusInv'
  BY ZenonT(60), <1>0, <1>1, Going, Passes DEF Goto
<1>2. CASE LingerExpired \/ RefreshLink \/ Forget
  BY <1>1, <1>2 DEF LingerExpired, RefreshLink, Forget
<1>3. CASE Nobody
  BY <1>1, <1>3 DEF Nobody
<1>4. CASE Somebody
  BY <1>1, <1>4 DEF Somebody
<1> QED
  BY <1>2, <1>3, <1>4 DEF TimerStep

LEMMA HostTells ==
  ASSUME TasksInv, NoteLate, HostStep \/ Silently
  PROVE  StatusInv'
<1> USE DEF TasksInv, At, Idle, Discovers, status, central
<1>0. /\ Controls /\ StatusInv /\ "host" \in Tasks
      /\ shown' = shown /\ overtaken' = overtaken
  BY Names DEF TasksTypeOK, Controls, HostStep, Down, DialFailed, GiveUp, Announce, LinkLost, Notification,
               Silently, LinkUp, CharacteristicFound, Stall, SubscribeDone
<1>1. ASSUME NEW s, NEW n, NEW st, Goes("host", s, n, st)
      PROVE  Reads("http")' /\ Reads("timer")' /\ (Owed => Owed') /\ pc'["host"] = s /\ said'["host"] = st
  <2>1. \A u \in Readers \ {"host"} : Reads(u)' /\ (Owes(u) => Owes(u)')
    BY <1>0, <1>1, OthersKept
  <2> QED
    BY <1>1, <2>1, Names DEF Readers, Owed, Goes
<1>2. CASE DialFailed \/ Down \/ GiveUp
  <2>1. PICK st \in {"error", "disconnected"}, n \in {"react", "idle"} : Goes("host", "tell", n, st)
    BY <1>0, <1>2, Going DEF DialFailed, Down, GiveUp, Say, Status
  <2>2. conn' # "usable"
    BY <1>2 DEF DialFailed, Down, GiveUp
  <2> QED
    BY <1>1, <2>1, <2>2 DEF StatusInv, HostReads, Shown
<1>3. CASE Announce
  <2>1. Goes("host", "tell", "react", "connected")
    BY <1>0, <1>3, Going DEF Announce, Say, Status
  <2>2. conn' = "usable"
    BY <1>3 DEF Announce
  <2> QED
    BY <1>1, <2>1, <2>2 DEF StatusInv, HostReads, Shown
<1>4. CASE LinkLost \/ Notification
  <2>1. \E s \in {"down", "strike"} : Goes("host", s, "idle", "")
    BY <1>0, <1>4, Going DEF LinkLost, Notification, Goto
  <2>2. conn' = conn /\ IsConnected' = IsConnected /\ pc["host"] = "idle"
    BY <1>4 DEF LinkLost, Notification, IsConnected
  <2> QED
    BY <1>0, <1>1, <2>1, <2>2 DEF StatusInv, HostReads, Shown
<1>5. CASE Silently
  <2>1. UNCHANGED <<pc, after, said>> /\ pc["host"] = "idle"
    BY <1>5 DEF Silently, LinkUp, CharacteristicFound, Stall, SubscribeDone, control
  <2>2. \A u \in Readers : Reads(u)' /\ (Owes(u) => Owes(u)')
    <3> SUFFICES ASSUME NEW u \in Readers
                 PROVE  Reads(u)' /\ (Owes(u) => Owes(u)')
      OBVIOUS
    <3>1. Reads(u)' /\ (u \in late /\ ToTell(u) => u \in late')
      BY <1>0, <2>1, ReadsKept DEF StatusInv, Readers
    <3> QED
      BY <2>1, <3>1 DEF Owes, ToTell
  <2>3. conn' # "usable" /\ (IsConnected => IsConnected')
    <3>1. CASE LinkUp
      BY <2>1, <3>1 DEF LinkUp, Central, IsConnected
    <3>2. CASE CharacteristicFound \/ Stall \/ SubscribeDone
      BY <3>2 DEF CharacteristicFound, Stall, SubscribeDone, IsConnected
    <3> QED
      BY <1>5, <3>1, <3>2 DEF Silently
  <2>4. Shown'
    BY <1>0, <2>1, <2>3 DEF Shown, StatusInv
  <2> QED
    BY <2>1, <2>2, <2>4 DEF StatusInv, HostReads, Readers
<1> QED
  BY <1>2, <1>3, <1>4, <1>5 DEF HostStep

LEMMA StatusNext ==
  ASSUME TasksInv, Next
  PROVE  StatusInv'
<1>1. NoteLate
  BY DEF Next
<1> QED
  BY <1>1, Steps, SharedTells, HttpTells, TimerTells, HostTells

-----------------------------------------------------------------------------
(* The theorems *)

LEMMA TasksInvInit == Init => TasksInv
<1> SUFFICES ASSUME Init
             PROVE  TasksInv
  OBVIOUS
<1>1. /\ Controls /\ left = 0
      /\ after["http"] = "idle" /\ after["timer"] = "idle" /\ after["host"] = "idle"
      /\ pc["http"] = "idle" /\ pc["timer"] = "idle" /\ pc["host"] = "idle"
  BY Names DEF Controls, Init
<1>2. Places
  BY <1>1 DEF Places
<1>3. Budget
  BY <1>1, TasksAssumption DEF Budget, AboutToSpend, Spending
<1>4. TasksTypeOK
  BY <1>1, <1>3, InRange DEF TasksTypeOK, Controls, Init, Progress
<1>5. Central /\ StatusInv
  BY <1>1 DEF Central, StatusInv, Reads, HostReads, Shown, Owed, Owes, IsConnected, Init
<1>6. AudienceInv
  BY <1>1 DEF AudienceInv, Books, Held, ExpiredInTime, AbandonedIsNoted, Mute,
              Exposed, Dialling, Expired, Subscribed, Init
<1> QED
  BY <1>2, <1>3, <1>4, <1>5, <1>6 DEF TasksInv

LEMMA TasksInvNext == TasksInv /\ [Next]_vars => TasksInv'
<1> SUFFICES ASSUME TasksInv, [Next]_vars
             PROVE  TasksInv'
  OBVIOUS
<1>1. CASE Next
  <2>1. TasksTypeOK' /\ Places' /\ Budget'
    BY <1>1, TypesNext, PlacesNext, BudgetNext DEF TasksInv
  <2>2. Central' /\ AudienceInv'
    <3>1. NoteIdle
      BY <1>1 DEF Next
    <3> QED
      BY <1>1, <3>1, Steps, SharedKeeps, HttpKeeps, TimerKeeps, HostKeeps
  <2>3. StatusInv'
    BY <1>1, StatusNext
  <2> QED
    BY <2>1, <2>2, <2>3 DEF TasksInv
<1>2. CASE UNCHANGED vars
  <2> USE <1>2 DEF vars, control, books, timers, refresh, stack, central, status
  <2>1. TasksTypeOK'
    BY DEF TasksInv, TasksTypeOK
  <2>4. Places' /\ Budget'
    <3>1. Places'
      BY ZenonT(60) DEF TasksInv, Places
    <3>2. Budget'
      BY ZenonT(60) DEF TasksInv, Budget, AboutToSpend, Spending
    <3> QED
      BY <3>1, <3>2
  <2>2. Central' /\ StatusInv'
    BY DEF TasksInv, Central, StatusInv, Reads, HostReads, Shown, Owed, Owes, IsConnected
  <2>3. AudienceInv'
    <3>1. Books' /\ Held'
      BY ZenonT(60) DEF TasksInv, AudienceInv, Books, Held, Exposed, Dialling, Watched, Leaving, Expired
    <3>2. ExpiredInTime' /\ AbandonedIsNoted' /\ Mute'
      BY ZenonT(60) DEF TasksInv, AudienceInv, ExpiredInTime, AbandonedIsNoted, Mute, Exposed,
             Dialling, Watched, Leaving, Expired, Subscribed
    <3> QED
      BY <3>1, <3>2 DEF AudienceInv
  <2> QED
    BY <2>1, <2>2, <2>3, <2>4 DEF TasksInv
<1> QED
  BY <1>1, <1>2

\* TasksInv is inductive: it holds however the tasks interrupt one another.
THEOREM TasksInvCorrect == Spec => []TasksInv
BY TasksInvInit, TasksInvNext, PTL DEF Spec

\* Types, and the budget of retries: s_refresh_left is never more than two below
\* zero (ws_bridge.c:387), for any REFRESH_RETRIES.
THEOREM TasksTypeCorrect == Spec => []TasksTypeOK
<1>1. TasksInv => TasksTypeOK
  BY DEF TasksInv
<1> QED
  BY <1>1, TasksInvCorrect, PTL

\* Once the tasks have finished, of a link that is up with nobody on the books one
\* of them has started the clock: ws_bridge.c:567.
NoneHeldForNobody == Quiet /\ clients = {} /\ link = "up" => linger \/ orphaned

THEOREM NoneHeldForNobodyCorrect == Spec => []NoneHeldForNobody
<1>1. TasksInv => NoneHeldForNobody
  BY Names DEF TasksInv, AudienceInv, Held, Exposed, Watched, Leaving, Expired,
               NoneHeldForNobody, Quiet, Idle
<1> QED
  BY <1>1, TasksInvCorrect, PTL

\* A link that was usable while nobody watched is not handed over: ws_bridge.c:157.
THEOREM NoneHandedOverMuteCorrect == Spec => []NoneHandedOverMute
<1>1. TasksInv => NoneHandedOverMute
  BY Names DEF TasksInv, AudienceInv, Mute, NoneHandedOverMute, Quiet, Idle
<1> QED
  BY <1>1, TasksInvCorrect, PTL

\* s_connect_pending and s_conn_handle tell what the stack does: ble_central.c:570.
THEOREM DialIsKnownCorrect == Spec => []DialIsKnown
<1>1. TasksInv => DialIsKnown
  BY Names DEF TasksInv, Central, DialIsKnown, Quiet, Idle
<1> QED
  BY <1>1, TasksInvCorrect, PTL

\* The last status is no link's that is gone, and a usable link is told, unless
\* another task changed the link since it was read: ws_bridge.c:496.
THEOREM StatusIsTrueCorrect == Spec => []StatusIsTrue
<1>1. TasksInv => StatusIsTrue
  BY Names DEF TasksInv, StatusInv, Shown, Owed, Owes, StatusIsTrue, Quiet, Idle
<1> QED
  BY <1>1, TasksInvCorrect, PTL

-----------------------------------------------------------------------------
(* The tasks implement LinkHold: every section maps to one of its actions *)

HoldStep == Hold!HoldNext \/ UNCHANGED Hold!holdVars

LEMMA Stays ==
  ASSUME Audience' = Audience, link' = link
  PROVE  HoldStep
BY DEF HoldStep, Hold!holdVars, Link

\* How the link may go on whoever it is held for.
LEMMA LinkGoes ==
  ASSUME Audience' = Audience, \/ link = "up" /\ link' = "closing"
                               \/ link # "none" /\ link' = "none"
  PROVE  HoldStep
BY DEF HoldStep, Hold!HoldNext, Hold!LetGo, Hold!End, Link

LEMMA Comes ==
  ASSUME Audience' = "watching", link' = link
  PROVE  HoldStep
BY DEF HoldStep, Hold!HoldNext, Hold!Arrive, Link

LEMMA GraceBegins ==
  ASSUME Audience' = "grace", link' = link
  PROVE  HoldStep
BY DEF HoldStep, Hold!HoldNext, Hold!Leave, Link

LEMMA Unnoticed ==
  ASSUME Audience' = "unnoticed"
  PROVE  HoldStep
BY DEF HoldStep, Hold!HoldNext, Hold!GoUnnoticed, Link

\* The sections in which a task neither ends nor begins a grace period.
Aside == {"idle", "tell", "strike", "react", "spend", "look", "claim", "dial", "somebody",
          "add", "cancel", "refresh", "refill", "arm", "greet", "down"}

\* Between two of these, on any task, the grace period is what it was.
LEMMA GraceKept ==
  ASSUME NEW t \in Tasks, pc[t] \in Aside \/ t = "host", pc'[t] \in Aside \/ t = "host",
         \A u \in Tasks \ {t} : pc'[u] = pc[u] /\ after'[u] = after[u]
  PROVE  Leaving' = Leaving /\ (Expired' <=> Expired)
<1>1. (pc'["http"] = pc["http"] /\ after'["http"] = after["http"])
      \/ (pc["http"] \in Aside /\ pc'["http"] \in Aside)
  BY Names
<1>2. pc'["timer"] = pc["timer"] \/ (pc["timer"] \in Aside /\ pc'["timer"] \in Aside)
  BY Names
<1>3. Leaving' = Leaving
  BY <1>1 DEF Leaving, Aside
<1>4. Expired' <=> Expired
  BY <1>2 DEF Expired, Aside
<1> QED
  BY <1>3, <1>4

LEMMA AudienceKept ==
  ASSUME Leaving' = Leaving, Expired' <=> Expired, UNCHANGED <<clients, orphaned, linger>>
  PROVE  Audience' = Audience
BY DEF Audience

LEMMA Others ==
  ASSUME NEW t \in Tasks, NEW s, NEW n, NEW fs, Moved(t, s, n, fs)
  PROVE  /\ pc'[t] = s /\ after'[t] = n
         /\ \A u \in Tasks \ {t} : pc'[u] = pc[u] /\ after'[u] = after[u]
BY Names DEF Moved, Now

\* A task goes on to a section that says nothing of the link, and the books and
\* the clock are left alone.
LEMMA GoesOn ==
  ASSUME NEW t \in Tasks, NEW s, NEW n, NEW fs, Moved(t, s, n, fs),
         pc[t] \in Aside \/ t = "host", s \in Aside \/ t = "host",
         UNCHANGED <<clients, orphaned, linger>>
  PROVE  Audience' = Audience
BY Others, GraceKept, AudienceKept

LEMMA SharedHolds ==
  ASSUME TasksInv, NEW t \in Tasks, Shared(t)
  PROVE  HoldStep
<1> USE DEF books, timers, refresh, stack, central, status
<1>0. /\ Controls /\ clients \in SUBSET Sockets /\ Places
      /\ link \in {"none", "up", "closing"}
  BY DEF TasksInv, TasksTypeOK, Controls
<1>1. pc[t] \in {"tell", "strike"} => after[t] \in Aside
  BY <1>0, Names DEF Places, Aside
<1>2. CASE Tell(t)
  <2>1. pc[t] \in Aside /\ after[t] \in Aside /\ UNCHANGED <<clients, orphaned, linger, link>>
    BY <1>1, <1>2 DEF Tell, At, Aside
  <2>2. \/ Moved(t, after[t], "idle", {})
        \/ \E bad \in SUBSET clients : Moved(t, "strike", after[t], bad)
    BY <1>0, <1>2, TellMoves
  <2>3. "strike" \in Aside
    BY DEF Aside
  <2> QED
    BY <2>1, <2>2, <2>3, GoesOn, Stays
<1>3. CASE Strike(t)
  <2>1. /\ pc[t] \in Aside /\ after[t] \in Aside /\ UNCHANGED <<linger, link>>
        /\ clients' \subseteq clients
        /\ orphaned' = (orphaned \/ (clients # {} /\ clients' = {}))
    BY <1>1, <1>3 DEF Strike, At, Aside
  <2>2. Moved(t, after[t], "idle", {})
    BY <1>0, <1>3, SharedMoves
  <2>3. Leaving' = Leaving /\ (Expired' <=> Expired)
    BY <2>1, <2>2, Others, GraceKept
  <2>4. CASE clients = {} \/ clients' # {}
    <3>1. Audience' = Audience
      BY <2>1, <2>3, <2>4 DEF Audience
    <3> QED
      BY <2>1, <3>1, Stays
  <2>5. CASE clients # {} /\ clients' = {}
    <3>1. Audience' = "unnoticed"
      BY <2>1, <2>5 DEF Audience
    <3> QED
      BY <3>1, Unnoticed
  <2> QED
    BY <2>4, <2>5
<1>4. CASE React(t) \/ Spend(t) \/ Claim(t)
  <2>1. pc[t] \in Aside /\ UNCHANGED <<clients, orphaned, linger, link>>
    BY <1>4 DEF React, Spend, Claim, At, Aside
  <2>2. \E s \in {"idle", "spend", "dial"} : Moved(t, s, "idle", {})
    BY ZenonT(60), <1>0, <1>4, SharedMoves
  <2>3. {"idle", "spend", "dial"} \subseteq Aside
    BY DEF Aside
  <2> QED
    BY <2>1, <2>2, <2>3, GoesOn, Stays
<1>5. CASE Look(t) \/ Dial(t)
  <2>1. pc[t] \in Aside /\ UNCHANGED <<clients, orphaned, linger, link>>
    BY <1>5 DEF Look, Dial, At, Aside
  <2>2. \/ Moved(t, "idle", "idle", {})
        \/ \E n \in {"idle", "react", "claim"} : Moved(t, "tell", n, {})
    BY ZenonT(60), <1>0, <1>5, SharedMoves
  <2>3. {"idle", "tell"} \subseteq Aside
    BY DEF Aside
  <2> QED
    BY <2>1, <2>2, <2>3, GoesOn, Stays
<1>6. CASE HangUp(t)
  <2>1. /\ pc[t] = "hang up" /\ UNCHANGED <<clients, orphaned, linger>>
        /\ link' = IF conn # "none" /\ link = "up" THEN "closing" ELSE link
    BY <1>6 DEF HangUp, At
  <2>2. Moved(t, after[t], "idle", {})
    BY <1>0, <1>6, SharedMoves
  <2>3. pc'[t] = after[t] /\ \A u \in Tasks \ {t} : pc'[u] = pc[u] /\ after'[u] = after[u]
    BY <2>2, Others
  <2>4. CASE t = "http"
    <3>1. ~Leaving /\ ~Leaving'
      BY <1>0, <2>1, <2>3, <2>4 DEF Places, Leaving
    <3>2. Expired' = Expired
      BY <2>3, <2>4, Names DEF Expired
    <3>3. Audience' = Audience
      BY <2>1, <3>1, <3>2 DEF Audience
    <3> QED
      BY <2>1, <3>3, Stays, LinkGoes
  <2>5. CASE t = "timer"
    <3>1. Leaving' = Leaving
      BY <2>3, <2>5, Names DEF Leaving
    <3>2. Expired /\ ~Expired'
      BY <1>0, <2>1, <2>3, <2>5 DEF Places, Expired
    <3>3. link = "up" => conn # "none"
      BY DEF TasksInv, Central
    <3>4. CASE Audience' = Audience
      BY <2>1, <3>4, Stays, LinkGoes
    <3>5. CASE Audience' # Audience
      <4>1. Audience = "grace" /\ Audience' = "nobody"
        BY <2>1, <3>1, <3>2, <3>5 DEF Audience
      <4>2. Link' = IF Link = "free" THEN "free" ELSE "leaving"
        BY <1>0, <2>1, <3>3 DEF Link
      <4> QED
        BY <4>1, <4>2 DEF HoldStep, Hold!HoldNext, Hold!Expire
    <3> QED
      BY <3>4, <3>5
  <2>6. t # "host"
    BY <1>0, <2>1 DEF Places
  <2> QED
    BY <2>4, <2>5, <2>6, Names
<1> QED
  BY <1>2, <1>3, <1>4, <1>5, <1>6 DEF Shared

LEMMA HttpHolds ==
  ASSUME TasksInv, HttpStep
  PROVE  HoldStep
<1> USE DEF books, timers, refresh, stack, central, status
<1>0. /\ Controls /\ clients \in SUBSET Sockets /\ Places /\ Books
      /\ "http" \in Tasks
  BY Names DEF TasksInv, TasksTypeOK, AudienceInv, Controls
<1>1. CASE \E f \in Sockets : PostHandshake(f)
  <2>1. PICK f \in Sockets : PostHandshake(f)
    BY <1>1
  <2>2. pc["http"] = "idle" /\ UNCHANGED <<clients, orphaned, linger, link>>
    BY <2>1 DEF PostHandshake, Idle
  <2>3. Moved("http", "add", "idle", {f})
    BY <1>0, <2>1, HttpMoves
  <2> QED
    BY <1>0, <2>2, <2>3, GoesOn, Stays DEF Aside
<1>2. CASE \E f \in Sockets, counts \in BOOLEAN : Close(f, counts)
  <2>1. PICK f \in Sockets, counts \in BOOLEAN : Close(f, counts)
    BY <1>2
  <2>2. pc["http"] = "idle" /\ UNCHANGED <<clients, orphaned, linger, link>>
    BY <2>1 DEF Close, Idle
  <2>3. Moved("http", "drop", IF counts THEN "last" ELSE "idle", {f})
    BY <1>0, <2>1, HttpMoves
  <2>4. /\ pc'["http"] = "drop" /\ after'["http"] = IF counts THEN "last" ELSE "idle"
        /\ pc'["timer"] = pc["timer"]
    BY ZenonT(60), <1>0, <2>3, Others, Names
  <2>5. ~Leaving /\ Leaving' = counts /\ Expired' = Expired
    BY <2>2, <2>4 DEF Leaving, Expired
  <2>6. Audience' = Audience \/ Audience' = "grace"
    BY <2>2, <2>5 DEF Audience
  <2> QED
    BY <2>2, <2>6, Stays, GraceBegins
<1>3. CASE Message \/ Refresh \/ Refill \/ Arm \/ Greet
  <2>1. /\ pc["http"] \in {"idle", "refresh", "refill", "arm", "greet"}
        /\ UNCHANGED <<clients, orphaned, linger, link>>
    BY <1>3 DEF Message, Refresh, Refill, Arm, Greet, At, Idle
  <2>2. \E s \in {"cancel", "hang up", "refill", "greet", "tell"} : \E n \in {"idle", "arm"} :
            Moved("http", s, n, {})
    BY ZenonT(60), <1>0, <1>3, HttpMoves
  <2>3. /\ pc'["http"] \in {"cancel", "hang up", "refill", "greet", "tell"}
        /\ pc'["timer"] = pc["timer"]
    BY <1>0, <2>2, Others, Names
  <2>4. Leaving' = Leaving /\ Expired' = Expired
    BY <2>1, <2>3 DEF Leaving, Expired
  <2> QED
    BY <2>1, <2>4, AudienceKept, Stays
<1>4. CASE Add
  <2>1. clients' # {} /\ link' = link
    BY <1>0, <1>4 DEF Add, At, Books
  <2>2. Audience' = "watching"
    BY <2>1 DEF Audience
  <2> QED
    BY <2>1, <2>2, Comes
<1>5. CASE Cancel
  <2>1. clients' = clients /\ orphaned' = (clients = {}) /\ link' = link
    BY <1>5 DEF Cancel
  <2>2. Audience' = "watching" \/ Audience' = "unnoticed"
    BY <2>1 DEF Audience
  <2> QED
    BY <2>1, <2>2, Comes, Unnoticed
<1>6. CASE Drop
  <2>1. /\ pc["http"] = "drop" /\ UNCHANGED <<orphaned, linger, link>>
        /\ clients' = clients \ who["http"]
    BY <1>6 DEF Drop, At
  <2>2. Moved("http", after["http"], "idle", {})
    BY <1>0, <1>6, HttpMoves
  <2>3. pc'["http"] = after["http"] /\ pc'["timer"] = pc["timer"]
    BY <1>0, <2>2, Others, Names
  <2>4. Expired' = Expired
    BY <2>3 DEF Expired
  <2>5. CASE after["http"] = "idle"
    <3>1. clients' = clients
      BY <1>0, <2>1, <2>5 DEF Books
    <3>2. ~Leaving /\ ~Leaving'
      BY <2>1, <2>3, <2>5 DEF Leaving
    <3>3. Audience' = Audience
      BY <2>1, <2>4, <3>1, <3>2 DEF Audience
    <3> QED
      BY <2>1, <3>3, Stays
  <2>6. CASE after["http"] = "last"
    <3>1. Leaving'
      BY <2>3, <2>6 DEF Leaving
    <3>2. Audience' \in {"watching", "unnoticed", "grace"}
      BY <3>1 DEF Audience
    <3> QED
      BY <2>1, <3>2, Comes, Unnoticed, GraceBegins
  <2> QED
    BY <1>0, <2>1, <2>5, <2>6 DEF Places
<1>7. CASE LastOne
  <2>1. pc["http"] = "last" /\ UNCHANGED <<clients, orphaned, linger, link>>
    BY <1>7 DEF LastOne, At
  <2>2. Moved("http", IF clients = {} THEN "abandon" ELSE "idle", "idle", {})
    BY <1>0, <1>7, HttpMoves
  <2>3. pc'["http"] = (IF clients = {} THEN "abandon" ELSE "idle") /\ pc'["timer"] = pc["timer"]
    BY <1>0, <2>2, Others, Names
  <2>4. Expired' = Expired /\ Leaving /\ (clients = {} => Leaving')
    BY <2>1, <2>3 DEF Expired, Leaving
  <2>5. Audience' = Audience
    BY <2>1, <2>4 DEF Audience
  <2> QED
    BY <2>1, <2>5, Stays
<1>8. CASE Abandon
  <2>1. pc["http"] = "abandon" /\ UNCHANGED <<clients, orphaned, linger, link>>
    BY <1>8 DEF Abandon, At
  <2>2. Moved("http", "clock", "idle", {})
    BY <1>0, <1>8, HttpMoves
  <2>3. pc'["http"] = "clock" /\ pc'["timer"] = pc["timer"]
    BY <1>0, <2>2, Others, Names
  <2>4. Expired' = Expired /\ Leaving /\ Leaving'
    BY <2>1, <2>3 DEF Expired, Leaving
  <2> QED
    BY <2>1, <2>4, AudienceKept, Stays
<1>9. CASE StartClock
  <2>1. clients = {} /\ clients' = clients /\ linger' /\ ~orphaned' /\ link' = link
    BY <1>0, <1>9 DEF StartClock, At, Books
  <2>2. Audience' = "grace"
    BY <2>1 DEF Audience
  <2> QED
    BY <2>1, <2>2, GraceBegins
<1> QED
  BY <1>1, <1>2, <1>3, <1>4, <1>5, <1>6, <1>7, <1>8, <1>9 DEF HttpStep

LEMMA TimerHolds ==
  ASSUME TasksInv, TimerStep
  PROVE  HoldStep
<1> USE DEF books, timers, refresh, stack, central, status
<1>0. Controls /\ "timer" \in Tasks
  BY Names DEF TasksInv, TasksTypeOK, Controls
<1>1. CASE LingerExpired
  <2>1. linger /\ UNCHANGED <<clients, orphaned, link>>
    BY <1>1 DEF LingerExpired
  <2>2. Moved("timer", "nobody", "idle", {})
    BY <1>0, <1>1, TimerMoves
  <2>3. pc'["timer"] = "nobody" /\ pc'["http"] = pc["http"] /\ after'["http"] = after["http"]
    BY <1>0, <2>2, Others, Names
  <2>4. Expired'
    BY <2>3 DEF Expired
  <2>5. Audience' = Audience
    BY <2>1, <2>4 DEF Audience
  <2> QED
    BY <2>1, <2>5, Stays
<1>2. CASE Nobody \/ Forget
  <2>1. pc["timer"] \in {"nobody", "forget"} /\ UNCHANGED <<clients, orphaned, linger, link>>
    BY <1>2 DEF Nobody, Forget, At
  <2>2. \E s \in {"forget", "hang up", "idle"} :
            Moved("timer", s, "idle", {}) /\ (s = "idle" => clients # {})
    BY ZenonT(60), <1>0, <1>2, TimerMoves
  <2>3. /\ pc'["timer"] \in {"forget", "hang up"} \/ clients # {}
        /\ pc'["http"] = pc["http"] /\ after'["http"] = after["http"]
    BY <1>0, <2>2, Others, Names
  <2>4. Expired /\ (Expired' \/ clients # {})
    BY <2>1, <2>3 DEF Expired
  <2>5. Audience' = Audience
    BY <2>1, <2>4 DEF Audience
  <2> QED
    BY <2>1, <2>5, Stays
<1>3. CASE RefreshLink \/ Somebody
  <2>1. pc["timer"] \in Aside /\ UNCHANGED <<clients, orphaned, linger, link>>
    BY <1>3 DEF RefreshLink, Somebody, At, Idle, Aside
  <2>2. \E s \in {"somebody", "idle", "look"} : Moved("timer", s, "idle", {})
    BY ZenonT(60), <1>0, <1>3, TimerMoves
  <2>3. {"somebody", "idle", "look"} \subseteq Aside
    BY DEF Aside
  <2> QED
    BY <1>0, <2>1, <2>2, <2>3, GoesOn, Stays
<1> QED
  BY <1>1, <1>2, <1>3 DEF TimerStep

LEMMA HostHolds ==
  ASSUME TasksInv, HostStep \/ Silently
  PROVE  HoldStep
<1> USE DEF books, timers, refresh, stack, central, status
<1>0. Controls /\ clients \in SUBSET Sockets /\ "host" \in Tasks
  BY Names DEF TasksInv, TasksTypeOK, Controls
<1>1. CASE HostStep
  <2>1. UNCHANGED <<clients, orphaned, linger>>
    BY <1>1 DEF HostStep, Down, DialFailed, GiveUp, Announce, LinkLost, Notification
  <2>2. \E s, n, fs : Moved("host", s, n, fs)
    BY <1>0, <1>1, HostMoves DEF HostStep
  <2>3. Audience' = Audience
    BY <1>0, <2>1, <2>2, GoesOn
  <2>4. \/ link' = link
        \/ link = "up" /\ link' = "closing"
        \/ link # "none" /\ link' = "none"
    BY <1>1 DEF HostStep, Down, DialFailed, GiveUp, Announce, Discovers, LinkLost, Notification,
                TasksInv, TasksTypeOK
  <2> QED
    BY <2>3, <2>4, Stays, LinkGoes
<1>2. CASE LinkUp
  <2>1. gap = "dial" /\ link' = "up" /\ UNCHANGED <<pc, after, clients, orphaned, linger>>
    BY <1>2 DEF LinkUp, control
  <2>2. link = "none" /\ (Watched \/ linger \/ Leaving \/ Expired)
    BY <2>1 DEF TasksInv, Central, AudienceInv, Held, Exposed
  <2>3. Leaving' = Leaving /\ Expired' = Expired
    BY <2>1 DEF Leaving, Expired
  <2>4. Audience' = Audience /\ Audience # "nobody"
    BY <2>1, <2>2, <2>3 DEF Audience, Watched
  <2>5. Link = "free" /\ Link' = "taken"
    BY <2>1, <2>2 DEF Link
  <2> QED
    BY <2>4, <2>5 DEF HoldStep, Hold!HoldNext, Hold!Take
<1>3. CASE CharacteristicFound \/ Stall \/ SubscribeDone
  <2>1. UNCHANGED <<pc, after, clients, orphaned, linger, link>>
    BY <1>3 DEF CharacteristicFound, Stall, SubscribeDone, control
  <2>2. Leaving' = Leaving /\ Expired' = Expired
    BY <2>1 DEF Leaving, Expired
  <2> QED
    BY <2>1, <2>2, AudienceKept, Stays
<1> QED
  BY <1>1, <1>2, <1>3 DEF Silently

\* ws_bridge.c:567: the promise WsBridge keeps with handlers that run to their end
\* holds of three tasks interrupting one another between any two accesses, for any
\* number of sockets.
THEOREM TasksImplementLinkHold == Spec => KeepsPromise
<1>1. Init => Hold!HoldInit
  BY Names DEF Init, Hold!HoldInit, Audience, Link, Leaving, Expired
<1>2. TasksInv /\ [Next]_vars => [Hold!HoldNext]_(Hold!holdVars)
  <2> SUFFICES ASSUME TasksInv, [Next]_vars PROVE HoldStep
    BY DEF HoldStep
  <2>1. CASE Next
    BY <2>1, Steps, SharedHolds, HttpHolds, TimerHolds, HostHolds
  <2>2. CASE UNCHANGED vars
    <3>1. UNCHANGED <<pc, after, clients, orphaned, linger, link>>
      BY <2>2 DEF vars, control, books, timers, stack
    <3>2. Leaving' = Leaving /\ Expired' = Expired
      BY <3>1 DEF Leaving, Expired
    <3> QED
      BY <3>1, <3>2, AudienceKept, Stays
  <2> QED
    BY <2>1, <2>2
<1> QED
  BY <1>1, <1>2, TasksInvCorrect, PTL DEF Spec, KeepsPromise
================================================================================
