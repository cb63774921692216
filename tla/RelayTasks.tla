------------------------------ MODULE RelayTasks ------------------------------
(***************************************************************************)
(* The relay with its tasks interrupting one another.  main/ws_bridge.c    *)
(* runs on the HTTP server's task, on the timer task and on the Bluetooth  *)
(* host's task, with no lock around what they share.  WsBridge has each    *)
(* handler run to its end; here a handler is cut into short sections       *)
(* wherever another task may read what it writes or write what it has      *)
(* read, and the tasks take turns in any order.                            *)
(*                                                                         *)
(* The Bluetooth central is brought down to one storage and to how far the *)
(* discovery of its link has come.  Left out are the messages scan and     *)
(* bind, and a host that is not ready.  A broadcast is one section, as     *)
(* browsers are told one and the same; a client its send failed on is      *)
(* dropped in a section of its own, after the send lock.                   *)
(***************************************************************************)
EXTENDS Integers

CONSTANTS
    Sockets,         \* socket descriptors, reused by the server
    RefreshRetries   \* REFRESH_RETRIES

ASSUME TasksAssumption == RefreshRetries \in Nat

VARIABLES
    pc,         \* per task, the section it is at
    after,      \* per task, the section that follows, if it is not the end
    said,       \* per task, the status it tells and reacts to
    who,        \* per task, the clients it is about to drop, or to add
    clients,    \* s_clients
    linger,     \* s_linger_timer is running
    armed,      \* s_refresh_timer is running
    left,       \* s_refresh_left
    abandoned,  \* s_link_abandoned
    pending,    \* s_connect_pending
    conn,       \* s_conn_handle, s_tx_handle, s_subscribed: see Progress
    gap,        \* the stack: "idle" or "dial"
    link,       \* the stack: "none", "up", or "closing" after ble_gap_terminate
    open,       \* the server: open WebSockets
    shown,      \* the last status broadcast said connected
    orphaned,   \* history: the books were emptied, or left empty, unnoticed
    idled,      \* history: this link was usable with nobody there to watch it
    late,       \* history: tasks whose reading of the link another task has overtaken
    overtaken,  \* history: such a task told the last status, and was wrong
    crossed     \* history: this dial met another one, or the end of the last link

control == <<pc, after, said, who>>
books   == <<clients, orphaned>>
timers  == <<linger, armed>>
refresh == <<left, abandoned>>
stack   == <<gap, link>>
central == <<pending, conn>>
status  == <<shown, overtaken>>
vars    == <<control, books, timers, refresh, stack, central, open, status,
             idled, late, crossed>>

Tasks == {"http", "timer", "host"}

Sections == {"idle", "tell", "strike", "react", "spend",
             "look", "claim", "dial", "hang up",
             "nobody", "forget", "somebody",
             "add", "cancel", "refresh", "refill", "arm", "greet",
             "drop", "last", "abandon", "clock", "down"}
Statuses == {"", "idle", "connecting", "connected", "disconnected", "error"}

\* How far a link has come: up without s_tx_handle, s_tx_handle found, subscribed
\* and its name being read, announced.  Discovery may also stop before or after
\* s_tx_handle is found, and then nothing follows.
Progress == {"none", "up", "found", "naming", "usable", "failed", "stuck"}

\* ble_central_is_connected asks for the handles alone.
IsConnected == conn \notin {"none", "up", "failed"}
Subscribed  == conn \in {"naming", "usable"}

\* Two tasks can take the last attempt, and a third one another: see Spend.
TasksTypeOK ==
    /\ pc \in [Tasks -> Sections] /\ after \in [Tasks -> Sections]
    /\ said \in [Tasks -> Statuses] /\ who \in [Tasks -> SUBSET Sockets]
    /\ clients \subseteq Sockets /\ open \subseteq Sockets
    /\ linger \in BOOLEAN /\ armed \in BOOLEAN /\ abandoned \in BOOLEAN /\ pending \in BOOLEAN
    /\ left \in -2 .. RefreshRetries
    /\ conn \in Progress
    /\ gap \in {"idle", "dial"} /\ link \in {"none", "up", "closing"}
    /\ shown \in BOOLEAN
    /\ orphaned \in BOOLEAN /\ idled \in BOOLEAN /\ overtaken \in BOOLEAN /\ crossed \in BOOLEAN
    /\ late \subseteq {"http", "timer"}

Init ==
    /\ pc = [t \in Tasks |-> "idle"] /\ after = [t \in Tasks |-> "idle"]
    /\ said = [t \in Tasks |-> ""] /\ who = [t \in Tasks |-> {}]
    /\ clients = {} /\ open = {}
    /\ linger = FALSE /\ armed = FALSE /\ left = 0 /\ abandoned = FALSE
    /\ pending = FALSE /\ conn = "none" /\ gap = "idle" /\ link = "none"
    /\ shown = FALSE
    /\ orphaned = FALSE /\ idled = FALSE /\ overtaken = FALSE /\ crossed = FALSE
    /\ late = {}

Idle(t)        == pc[t] = "idle"
At(t, section) == pc[t] = section

Enter(t, section, next, st, fs) ==
    /\ pc' = [pc EXCEPT ![t] = section]
    /\ after' = [after EXCEPT ![t] = next]
    /\ said' = [said EXCEPT ![t] = st]
    /\ who' = [who EXCEPT ![t] = fs]

Goto(t, section) == Enter(t, section, "idle", "", {})

\* Of the status only a reaction to it still reads something.
Kept(t)    == IF after[t] = "react" THEN said[t] ELSE ""
Proceed(t) == Enter(t, after[t], "idle", Kept(t), {})

-----------------------------------------------------------------------------
(* Telling the browsers *)

\* send_status alone, and on_ble_state, which goes on only after two of the states.
Status(t, st, next) == Enter(t, "tell", next, st, {})
Say(t, st)          == Status(t, st, IF st \in {"error", "connected"} THEN "react" ELSE "idle")

\* The sends that fail, to sockets that are closed or take no more data.
Failures == {bad \in SUBSET clients : clients \ open \subseteq bad}

\* send_status and send_frame
Tell(t) ==
    /\ At(t, "tell")
    /\ shown' = (said[t] = "connected")
    /\ overtaken' = (t \in late /\ IF shown' THEN ~IsConnected ELSE conn = "usable")
    /\ \E bad \in Failures : IF bad = {} THEN Proceed(t) ELSE Enter(t, "strike", after[t], Kept(t), bad)
    /\ UNCHANGED <<books, timers, refresh, stack, central, open, crossed>>

\* drop_client, once the send to it has failed.
Strike(t) ==
    /\ At(t, "strike")
    /\ clients' = clients \ who[t]
    /\ orphaned' = (orphaned \/ (clients # {} /\ clients' = {}))
    /\ Proceed(t)
    /\ UNCHANGED <<timers, refresh, stack, central, open, status, crossed>>

ReactWithoutEnd(t) ==  \* mutant: a refused refresh is retried however often it was
    /\ At(t, "react")
    /\ Goto(t, IF said[t] = "error" /\ clients # {} THEN "spend" ELSE "idle")
    /\ left' = IF said[t] = "connected" THEN 0 ELSE left
    /\ UNCHANGED <<books, timers, abandoned, stack, central, open, status, crossed>>

\* on_ble_state decides about a retry.
React(t) ==
    /\ At(t, "react")
    /\ \/ /\ said[t] = "error" /\ left > 0 /\ clients # {}
          /\ Goto(t, "spend")
          /\ UNCHANGED left
       \/ /\ said[t] = "connected"
          /\ Goto(t, "idle")
          /\ left' = 0
       \/ /\ said[t] = "error" /\ (left <= 0 \/ clients = {})
          /\ Goto(t, "idle")
          /\ UNCHANGED left
    /\ UNCHANGED <<books, timers, abandoned, stack, central, open, status, crossed>>

\* ... and counts it, after it has looked.
Spend(t) ==
    /\ At(t, "spend")
    /\ left' = left - 1
    /\ armed' = TRUE
    /\ Goto(t, "idle")
    /\ UNCHANGED <<books, linger, abandoned, stack, central, open, status, crossed>>

-----------------------------------------------------------------------------
(* ble_central_connect and ble_central_disconnect *)

\* Is a dial running, or the link up?
Look(t) ==
    /\ At(t, "look")
    /\ \/ pending /\ Say(t, "connecting")
       \/ ~pending /\ IsConnected /\ Say(t, "connected")
       \/ ~pending /\ ~IsConnected /\ Status(t, "connecting", "claim")
    /\ UNCHANGED <<books, timers, refresh, stack, central, open, status, crossed>>

Claim(t) ==
    /\ At(t, "claim")
    /\ pending' = TRUE
    /\ Goto(t, "dial")
    /\ UNCHANGED <<books, timers, refresh, stack, conn, open, status, crossed>>

DialStaysPending(t) ==  \* mutant: s_connect_pending stays set when the stack refuses
    /\ At(t, "dial")
    /\ \/ /\ gap = "idle" /\ link = "none"
          /\ gap' = "dial"
          /\ crossed' = (~pending \/ At("host", "down"))
          /\ Goto(t, "idle")
       \/ /\ gap = "dial" \/ link # "none"
          /\ crossed' = (crossed \/ gap = "dial")
          /\ Say(t, "error")
          /\ UNCHANGED gap
    /\ UNCHANGED <<books, timers, refresh, central, link, open, status>>

\* ble_gap_connect.  The error handle_control adds goes to those just told.
Dial(t) ==
    /\ At(t, "dial")
    /\ \/ /\ gap = "idle" /\ link = "none"
          /\ gap' = "dial"
          /\ crossed' = (~pending \/ At("host", "down"))
          /\ Goto(t, "idle")
          /\ UNCHANGED pending
       \/ /\ gap = "dial" \/ link # "none"
          /\ pending' = FALSE
          /\ crossed' = (crossed \/ gap = "dial")
          /\ Say(t, "error")
          /\ UNCHANGED gap
    /\ UNCHANGED <<books, timers, refresh, conn, link, open, status>>

HangUp(t) ==
    /\ At(t, "hang up")
    /\ link' = IF conn # "none" /\ link = "up" THEN "closing" ELSE link
    /\ Proceed(t)
    /\ UNCHANGED <<books, timers, refresh, gap, central, open, status, crossed>>

-----------------------------------------------------------------------------
(* The timer task *)

\* A dial takes 10 s at most, the grace period 15 s, and nobody dials in it.
DialIsOver == gap # "dial"

LingerForgetsFirst ==  \* mutant: s_link_abandoned is cleared before the books are read
    /\ linger /\ DialIsOver
    /\ Idle("timer") /\ Goto("timer", "nobody")
    /\ linger' = FALSE /\ abandoned' = FALSE
    /\ UNCHANGED <<books, armed, left, stack, central, open, status, crossed>>

\* linger_expired
LingerExpired ==
    /\ linger /\ DialIsOver
    /\ Idle("timer") /\ Goto("timer", "nobody")
    /\ linger' = FALSE
    /\ UNCHANGED <<books, armed, refresh, stack, central, open, status, crossed>>

Nobody ==
    /\ At("timer", "nobody")
    /\ Goto("timer", IF clients = {} THEN "forget" ELSE "idle")
    /\ UNCHANGED <<books, timers, refresh, stack, central, open, status, crossed>>

Forget ==
    /\ At("timer", "forget")
    /\ abandoned' = FALSE
    /\ Goto("timer", "hang up")
    /\ UNCHANGED <<books, timers, left, stack, central, open, status, crossed>>

\* refresh_link
RefreshLink ==
    /\ armed
    /\ Idle("timer") /\ Goto("timer", "somebody")
    /\ armed' = FALSE
    /\ UNCHANGED <<books, linger, refresh, stack, central, open, status, crossed>>

Somebody ==
    /\ At("timer", "somebody")
    /\ Goto("timer", IF clients = {} THEN "idle" ELSE "look")
    /\ UNCHANGED <<books, timers, refresh, stack, central, open, status, crossed>>

-----------------------------------------------------------------------------
(* The HTTP server's task *)

\* ws_post_handshake.  What add_client answers is left out: there is room.
PostHandshake(f) ==
    /\ f \notin open
    /\ Idle("http") /\ Enter("http", "add", "idle", "", {f})
    /\ open' = open \cup {f}
    /\ UNCHANGED <<books, timers, refresh, stack, central, status, crossed>>

\* add_client and cancel_linger: a clock that ran out in between finds the client.
Add ==
    /\ At("http", "add")
    /\ clients' = clients \cup who["http"]
    /\ linger' = FALSE
    /\ orphaned' = FALSE
    /\ Goto("http", "refresh")
    /\ UNCHANGED <<armed, refresh, stack, central, open, status, crossed>>

\* cancel_linger of a connect message, from a browser that may be off the books.
Cancel ==
    /\ At("http", "cancel")
    /\ linger' = FALSE
    /\ orphaned' = (clients = {})
    /\ Goto("http", "look")
    /\ UNCHANGED <<clients, armed, refresh, stack, central, open, status, crossed>>

\* refresh_abandoned_link, in three sections.
Refresh ==
    /\ At("http", "refresh")
    /\ abandoned' = FALSE
    /\ Goto("http", IF abandoned /\ IsConnected THEN "refill" ELSE "greet")
    /\ UNCHANGED <<books, timers, left, stack, central, open, status, crossed>>

Refill ==
    /\ At("http", "refill")
    /\ left' = RefreshRetries
    /\ Enter("http", "hang up", "arm", "", {})
    /\ UNCHANGED <<books, timers, abandoned, stack, central, open, status, crossed>>

Arm ==
    /\ At("http", "arm")
    /\ armed' = TRUE
    /\ Goto("http", "greet")
    /\ UNCHANGED <<books, linger, refresh, stack, central, open, status, crossed>>

\* ws_post_handshake reads how the link is, and tells.
Greet ==
    /\ At("http", "greet")
    /\ Status("http", IF IsConnected THEN "connected" ELSE "idle", "idle")
    /\ UNCHANGED <<books, timers, refresh, stack, central, open, status, crossed>>

\* linger_expired is a few instructions: no browser comes and leaves meanwhile.
Expiring == At("timer", "nobody") \/ At("timer", "forget")

CloseCountsFirst(f, counts) ==  \* mutant: the books are read before the client is dropped
    /\ f \in open /\ ~Expiring
    /\ counts \/ f \notin clients
    /\ Idle("http") /\ Enter("http", "drop", IF counts /\ clients = {} THEN "last" ELSE "idle", "", {f})
    /\ open' = open \ {f}
    /\ UNCHANGED <<books, timers, refresh, stack, central, status, crossed>>

\* The CLOSE case of ws_handler drops the client and looks whether it was the last;
\* ws_bridge_session_closed only looks when the socket was on the books.
Close(f, counts) ==
    /\ f \in open /\ ~Expiring
    /\ counts \/ f \notin clients
    /\ Idle("http") /\ Enter("http", "drop", IF counts THEN "last" ELSE "idle", "", {f})
    /\ open' = open \ {f}
    /\ UNCHANGED <<books, timers, refresh, stack, central, status, crossed>>

Drop ==
    /\ At("http", "drop")
    /\ clients' = clients \ who["http"]
    /\ Proceed("http")
    /\ UNCHANGED <<orphaned, timers, refresh, stack, central, open, status, crossed>>

LastOne ==
    /\ At("http", "last")
    /\ Goto("http", IF clients = {} THEN "abandon" ELSE "idle")
    /\ UNCHANGED <<books, timers, refresh, stack, central, open, status, crossed>>

\* start_linger
Abandon ==
    /\ At("http", "abandon")
    /\ abandoned' = TRUE
    /\ Goto("http", "clock")
    /\ UNCHANGED <<books, timers, left, stack, central, open, status, crossed>>

StartClock ==
    /\ At("http", "clock")
    /\ linger' = TRUE
    /\ orphaned' = FALSE
    /\ Goto("http", "idle")
    /\ UNCHANGED <<clients, armed, refresh, stack, central, open, status, crossed>>

\* handle_control: "connect" and "disconnect".
Message ==
    /\ open # {} /\ Idle("http")
    /\ Goto("http", "cancel") \/ Goto("http", "hang up")
    /\ UNCHANGED <<books, timers, refresh, stack, central, open, status, crossed>>

-----------------------------------------------------------------------------
(* The Bluetooth host's task: what the stack calls back with *)

DialFailed ==
    /\ gap = "dial"
    /\ Idle("host") /\ Say("host", "error")
    /\ gap' = "idle" /\ crossed' = FALSE
    /\ pending' = FALSE /\ conn' = "none"
    /\ UNCHANGED <<books, timers, refresh, link, open, status>>

\* CONNECT.  Until it is handled the stack refuses a dial as it does while dialling,
\* and a hang-up finds no handle, so there is nothing to tell apart in between.
LinkUp ==
    /\ gap = "dial" /\ Idle("host")
    /\ gap' = "idle" /\ crossed' = FALSE
    /\ link' = "up"
    /\ pending' = FALSE /\ conn' = "up"
    /\ UNCHANGED <<control, books, timers, refresh, open, status>>

\* A callback of discovery, which nothing but the end of the link calls off.
Discovers == link # "none" /\ Idle("host")

\* on_characteristics finds the characteristic written to, two procedures before
\* the link is any use.
CharacteristicFound ==
    /\ conn = "up" /\ Discovers
    /\ conn' = "found"
    /\ UNCHANGED <<control, books, timers, refresh, stack, pending, open, status, crossed>>

\* A callback lets go of a link it cannot use.
GiveUp ==
    /\ conn \in {"up", "found"} /\ Discovers
    /\ Say("host", "error")
    /\ link' = "closing"
    /\ conn' = IF conn = "up" THEN "failed" ELSE "stuck"
    /\ UNCHANGED <<books, timers, refresh, gap, pending, open, status, crossed>>

\* ... or returns on an error without a word, and the link stays as it is.
Stall ==
    /\ conn \in {"up", "found"} /\ Discovers
    /\ conn' = IF conn = "up" THEN "failed" ELSE "stuck"
    /\ UNCHANGED <<control, books, timers, refresh, stack, pending, open, status, crossed>>

SubscribeDone ==
    /\ conn = "found" /\ Discovers
    /\ conn' = "naming"
    /\ UNCHANGED <<control, books, timers, refresh, stack, pending, open, status, crossed>>

\* announce_connected: the name has been read, or cannot be.
Announce ==
    /\ conn = "naming" /\ Discovers
    /\ Say("host", "connected")
    /\ conn' = "usable"
    /\ UNCHANGED <<books, timers, refresh, stack, pending, open, status, crossed>>

\* The stack ends the reading of the name first, and that announces the link.
LinkLost ==
    /\ link # "none" /\ conn # "naming"
    /\ Idle("host") /\ Goto("host", "down")
    /\ link' = "none"
    /\ UNCHANGED <<books, timers, refresh, gap, central, open, status, crossed>>

DownInSilence ==  \* mutant: only a connection that did not come about is reported
    /\ At("host", "down")
    /\ pending' = FALSE /\ conn' = "none"
    /\ IF Subscribed THEN Goto("host", "idle") ELSE Say("host", "error")
    /\ UNCHANGED <<books, timers, refresh, stack, open, status, crossed>>

\* DISCONNECT
Down ==
    /\ At("host", "down")
    /\ pending' = FALSE /\ conn' = "none"
    /\ Say("host", IF Subscribed THEN "disconnected" ELSE "error")
    /\ UNCHANGED <<books, timers, refresh, stack, open, status, crossed>>

\* on_ble_notify, of which a failed send is all that is seen here.
Notification ==
    /\ IsConnected /\ link # "none"
    /\ Idle("host")
    /\ \E bad \in Failures \ {{}} : Enter("host", "strike", "idle", "", bad)
    /\ UNCHANGED <<books, timers, refresh, stack, central, open, status, crossed>>

-----------------------------------------------------------------------------

Shared(t) == \/ Tell(t) \/ Strike(t) \/ React(t) \/ Spend(t)
             \/ Look(t) \/ Claim(t) \/ Dial(t) \/ HangUp(t)

Http == \/ Shared("http") \/ Add \/ Cancel \/ Refresh \/ Refill \/ Arm \/ Greet
        \/ Drop \/ LastOne \/ Abandon \/ StartClock
TimerTask == Shared("timer") \/ Nobody \/ Forget \/ Somebody
Host == Shared("host") \/ Down

Requests == \/ Message
            \/ \E f \in Sockets : \/ PostHandshake(f)
                                  \/ \E counts \in BOOLEAN : Close(f, counts)
Stack == \/ DialFailed \/ LinkUp \/ LinkLost \/ Notification
         \/ CharacteristicFound \/ GiveUp \/ Stall \/ SubscribeDone \/ Announce

\* History: the link up after this step was subscribed to with nobody on the
\* books, who had left in good order.
NoteIdle == idled' = (conn' # "none" /\ (idled \/ (Subscribed' /\ clients' = {} /\ ~orphaned')))

\* Whether t still is to tell a status that rests on how it found the link.
ToTell(t) == \/ pc[t] \in {"tell", "claim", "dial"}
             \/ pc[t] = "strike" /\ after[t] = "claim"

\* History: since t looked how the link is, another task has changed that.
NoteLate == late' = {t \in {"http", "timer"} :
                        /\ ToTell(t)' /\ pc[t] \notin {"look", "greet"}
                        /\ \/ t \in late
                           \/ /\ pc'[t] = pc[t]
                              /\ pending' # pending \/ IsConnected' # IsConnected}

Next == /\ \/ Http \/ TimerTask \/ Host \/ LingerExpired \/ RefreshLink \/ Requests \/ Stack
        /\ NoteIdle /\ NoteLate

Spec == Init /\ [][Next]_vars

-----------------------------------------------------------------------------
(* Properties: whatever the tasks are at *)

\* The last browser has left and the server's task is about to start the clock.
Leaving == \/ pc["http"] \in {"last", "abandon", "clock"}
           \/ pc["http"] = "drop" /\ after["http"] = "last"

\* The clock has run out and the timer task is about to hang up.
Expired == pc["timer"] \in {"nobody", "forget", "hang up"}

Audience == IF clients # {} THEN "watching"
            ELSE IF orphaned THEN "unnoticed"
            ELSE IF linger \/ Leaving \/ Expired THEN "grace" ELSE "nobody"

Link == IF link = "none" THEN "free" ELSE IF link = "up" THEN "taken" ELSE "leaving"

Hold == INSTANCE LinkHold WITH audience <- Audience, link <- Link

\* ws_bridge.c:567, across tasks: no order of their sections takes the storage for
\* nobody, lets a browser go without a grace period, or lets that end without a
\* hang-up.  What HoldSpec says of fairness is left to WsBridge.
KeepsPromise == Hold!HoldInit /\ [][Hold!HoldNext]_(Hold!holdVars)

-----------------------------------------------------------------------------
(* Properties: once every task has finished what it was at *)

Quiet == \A t \in Tasks : Idle(t)

\* ws_bridge.c:157, across tasks: a link that went mute while nobody watched is
\* not handed over as it is, though linger_expired and a handshake overlap.
NoneHandedOverMute == Quiet /\ clients # {} /\ idled => link # "up"

\* ble_central.c:570: s_connect_pending tells whether the stack dials, and
\* s_conn_handle whether there is a link, whoever dialled or hung up in between.
\* Only a dial that met another one, or the end of the last link, goes unknown.
DialIsKnown == Quiet => /\ pending => gap = "dial"
                        /\ gap = "dial" => pending \/ crossed
                        /\ conn # "none" <=> link # "none"

\* ws_bridge.c:496, ble_central.c:144: browsers are not left with a link that is
\* not there, and do hear of one that is usable.  While a link is being discovered,
\* or for as long as it is stuck after its handle was found, either may be shown.
\* The last status is wrong for good only when another task changed the link
\* between the reading and the sending.
StatusIsTrue == Quiet => /\ shown => IsConnected \/ overtaken
                         /\ conn = "usable" => shown \/ overtaken
===============================================================================
