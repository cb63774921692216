------------------------------- MODULE WsBridge -------------------------------
(***************************************************************************)
(* The relay, main/ws_bridge.c, on top of the Bluetooth central: which     *)
(* browsers are on the books, how long the storage link outlives the last  *)
(* one, and how a link nobody watched is cycled before it is handed to a   *)
(* browser again.                                                          *)
(*                                                                         *)
(* A WebSocket handler runs on the HTTP server's task, a timer callback on *)
(* the timer task, a Bluetooth callback on the host task: each is one      *)
(* action, a BleCentral action with what on_ble_state does with the states *)
(* it reports.  The sockets are external: which ones are open, and on      *)
(* which ones sends fail.  Payloads, stats and wording are left out; a     *)
(* write only matters when it is refused, for the error it broadcasts.     *)
(***************************************************************************)
EXTENDS BleCentral

CONSTANTS
    Sockets,         \* socket descriptors of the HTTP server
    MaxClients,      \* MAX_CLIENTS
    RefreshRetries,  \* REFRESH_RETRIES
    LingerSeconds,   \* LINGER_AFTER_LAST_CLIENT_MS
    DialSeconds      \* the time ble_gap_connect is given

\* A dial is over before the grace period that began after it.
ASSUME RelayAssumption == /\ MaxClients \in Nat \ {0}
                          /\ RefreshRetries \in Nat
                          /\ LingerSeconds \in Nat /\ DialSeconds \in Nat
                          /\ DialSeconds < LingerSeconds

VARIABLES
    clients,    \* s_clients, the sockets on the books
    linger,     \* s_linger_timer is running
    refresh,    \* s_refresh_left, and whether s_refresh_timer is running
    abandoned,  \* s_link_abandoned
    bound,      \* s_bound_addr, None before the first bind
    shown,      \* the state in the last status broadcast
    open,       \* the server: WebSockets past the handshake and not yet closed
    jammed,     \* the server: open sockets a send fails on
    orphaned,   \* history: the books were emptied, or left empty, unnoticed
    idled       \* history: this link was usable with nobody there to watch it

relayVars == <<clients, linger, refresh, abandoned, bound, shown, open, jammed,
               orphaned, idled>>
vars      == <<bleVars, relayVars>>

Refreshes == [left : 0 .. RefreshRetries, armed : BOOLEAN]

RelayTypeOK ==
    /\ clients \subseteq open /\ jammed \subseteq open /\ open \subseteq Sockets
    /\ linger \in BOOLEAN /\ abandoned \in BOOLEAN
    /\ orphaned \in BOOLEAN /\ idled \in BOOLEAN
    /\ refresh \in Refreshes
    /\ bound \in Storages \cup {None}
    /\ shown \in States

TypeOK == BleTypeOK /\ RelayTypeOK

Init ==
    /\ BleInit
    /\ clients = {} /\ open = {} /\ jammed = {}
    /\ linger = FALSE
    /\ refresh = [left |-> 0, armed |-> FALSE]
    /\ abandoned = FALSE
    /\ bound = name
    /\ shown = "idle"
    /\ orphaned = FALSE /\ idled = FALSE

-----------------------------------------------------------------------------
(* What several handlers share *)

\* Who is left on the books once something was sent to everybody: send_to
\* drops a client its send fails on.
Reached == clients \ jammed

OnBleStateNoBudget(r, st) ==  \* mutant: an error is retried whatever is left
    IF st = "error" /\ Reached # {}
    THEN [left |-> r.left - 1, armed |-> TRUE]
    ELSE IF st = "connected" THEN [r EXCEPT !.left = 0] ELSE r

\* s_refresh_left and s_refresh_timer after on_ble_state has heard state st.
OnBleState(r, st) ==
    IF st = "error" /\ r.left > 0 /\ Reached # {}
    THEN [left |-> r.left - 1, armed |-> TRUE]
    ELSE IF st = "connected" THEN [r EXCEPT !.left = 0] ELSE r

Heard(r, states) ==
    CASE Len(states) = 0 -> r
      [] Len(states) = 1 -> OnBleState(r, states[1])
      [] OTHER           -> OnBleState(OnBleState(r, states[1]), states[2])

\* Something is broadcast, and the history variables take note: the books may
\* now be empty without the linger having been started.
Broadcast ==
    /\ clients' = Reached
    /\ orphaned' = (Reached = {} /\ (orphaned \/ clients # {}))

\* The states a Bluetooth action reports reach on_ble_state, which broadcasts
\* each of them; r is where the retry stood when it was called.
Relay(r) ==
    /\ refresh' = Heard(r, said')
    /\ shown' = IF said' = <<>> THEN shown ELSE said'[Len(said')]

\* The same for a callback of the host task, where nothing else is broadcast.
Report ==
    /\ Relay(refresh)
    /\ IF said' = <<>> THEN UNCHANGED <<clients, orphaned>> ELSE Broadcast

\* History: the link up after this step was usable with nobody on the books,
\* who had left in good order.
NoteIdle == idled' = (connHandle' # None /\ (idled \/ (subscribed' /\ clients' = {} /\ ~orphaned')))

StartLingerNotAbandoned == linger' = TRUE /\ UNCHANGED abandoned  \* mutant

\* start_linger
StartLinger == linger' = TRUE /\ abandoned' = TRUE

-----------------------------------------------------------------------------
(* The host task *)

Hosted(Callback) ==
    /\ Callback
    /\ Report
    /\ UNCHANGED <<linger, abandoned, bound, open, jammed>>
    /\ NoteIdle

BleEvent == Hosted(HostTask)

\* on_ble_notify: a notification goes to everybody.
Notification ==
    /\ \E s \in Links : proc[s] \in {"sub", "name", "done"}
    /\ Broadcast
    /\ UNCHANGED <<bleVars, linger, refresh, abandoned, bound, shown, open, jammed>>
    /\ NoteIdle

-----------------------------------------------------------------------------
(* The timer task *)

LingerExpiredKeepsLink ==  \* mutant: the link is not released
    /\ linger
    /\ gap \in Storages => LingerSeconds <= DialSeconds
    /\ linger' = FALSE
    /\ abandoned' = (abandoned /\ clients # {})
    /\ UNCHANGED <<bleVars, clients, refresh, bound, shown, open, jammed, orphaned>>
    /\ NoteIdle

\* linger_expired.  A dial begun before the last browser left is over by then.
LingerExpired ==
    /\ linger
    /\ gap \in Storages => LingerSeconds <= DialSeconds
    /\ linger' = FALSE
    /\ \/ clients # {} /\ UNCHANGED <<bleVars, abandoned>>
       \/ clients = {} /\ abandoned' = FALSE /\ Disconnect
    /\ UNCHANGED <<clients, refresh, bound, shown, open, jammed, orphaned>>
    /\ NoteIdle

\* refresh_link
RefreshLink ==
    /\ refresh.armed
    /\ LET fired == [refresh EXCEPT !.armed = FALSE] IN
       \/ /\ clients = {} \/ bound = None \/ ~hostReady
          /\ refresh' = fired
          /\ UNCHANGED <<bleVars, clients, shown, orphaned>>
       \/ /\ clients # {} /\ bound # None
          /\ Connect(bound)
          /\ Relay(fired)
          /\ Broadcast
    /\ UNCHANGED <<linger, abandoned, bound, open, jammed>>
    /\ NoteIdle

-----------------------------------------------------------------------------
(* The HTTP server's task: control messages from an open socket *)

\* "connect", with the error broadcast when the host is not ready or nothing
\* is bound.  A socket that is not on the books is heard as well.
ConnectMessage ==
    /\ open # {}
    /\ linger' = FALSE
    /\ \/ /\ bound = None \/ ~hostReady
          /\ UNCHANGED <<bleVars, refresh, shown>>
       \/ /\ bound # None
          /\ Connect(bound)
          /\ Relay(refresh)
    /\ clients' = Reached
    /\ orphaned' = (Reached = {})
    /\ UNCHANGED <<abandoned, bound, open, jammed>>
    /\ NoteIdle

DisconnectMessage ==
    /\ open # {}
    /\ Disconnect
    /\ UNCHANGED <<clients, linger, refresh, abandoned, bound, shown, open, jammed, orphaned>>
    /\ NoteIdle

ScanMessage ==
    /\ open # {}
    /\ \/ hostReady /\ Scan /\ Relay(refresh)
       \/ ~hostReady /\ UNCHANGED <<bleVars, refresh, shown>>
    /\ Broadcast
    /\ UNCHANGED <<linger, abandoned, bound, open, jammed>>
    /\ NoteIdle

\* The status broadcast at the end says idle whatever the link does.
BindMessage ==
    /\ open # {}
    /\ \E s \in Storages : bound' = s /\ SetDeviceName(s)
    /\ shown' = "idle"
    /\ Broadcast
    /\ UNCHANGED <<linger, refresh, abandoned, open, jammed>>
    /\ NoteIdle

\* A write while there is no link, and a message nobody understands.
Refused ==
    /\ open # {}
    /\ Broadcast
    /\ UNCHANGED <<bleVars, linger, refresh, abandoned, bound, shown, open, jammed>>
    /\ NoteIdle

-----------------------------------------------------------------------------
(* The HTTP server's task: sockets coming and going *)

\* refresh_abandoned_link
RefreshAbandoned ==
    /\ abandoned' = FALSE
    /\ \/ /\ abandoned /\ IsConnected
          /\ refresh' = [left |-> RefreshRetries, armed |-> TRUE]
          /\ Disconnect
       \/ ~(abandoned /\ IsConnected) /\ UNCHANGED <<bleVars, refresh>>

PostHandshakeKeepsClock(f) ==  \* mutant: cancel_linger is not called
    /\ f \in Sockets \ open
    /\ Cardinality(clients) < MaxClients
    /\ open' = open \cup {f}
    /\ RefreshAbandoned
    /\ shown' = IF IsConnected THEN "connected" ELSE "idle"
    /\ clients' = Reached \cup {f}
    /\ orphaned' = FALSE
    /\ UNCHANGED <<linger, bound, jammed>>
    /\ NoteIdle

\* ws_post_handshake; a client too many is turned away and its socket closed.
PostHandshake(f) ==
    /\ f \in Sockets \ open
    /\ Cardinality(clients) < MaxClients
    /\ open' = open \cup {f}
    /\ linger' = FALSE
    /\ RefreshAbandoned
    /\ shown' = IF IsConnected THEN "connected" ELSE "idle"
    /\ clients' = Reached \cup {f}
    /\ orphaned' = FALSE
    /\ UNCHANGED <<bound, jammed>>
    /\ NoteIdle

\* The CLOSE case of ws_handler.  The server reads nothing more from the socket
\* and closes it, and ws_bridge_session_closed finds it off the books.
CloseFrame(f) ==
    /\ f \in open
    /\ open' = open \ {f} /\ jammed' = jammed \ {f}
    /\ clients' = clients \ {f}
    /\ IF clients' = {} THEN StartLinger ELSE UNCHANGED <<linger, abandoned>>
    /\ orphaned' = FALSE
    /\ UNCHANGED <<bleVars, refresh, bound, shown>>
    /\ NoteIdle

\* ws_bridge_session_closed
SessionClosed(f) ==
    /\ f \in open
    /\ open' = open \ {f} /\ jammed' = jammed \ {f}
    /\ clients' = clients \ {f}
    /\ IF f \in clients /\ clients' = {} THEN StartLinger
                                         ELSE UNCHANGED <<linger, abandoned>>
    /\ UNCHANGED <<bleVars, refresh, bound, shown, orphaned>>
    /\ NoteIdle

\* A socket stops taking data.  One that takes it again before anything was
\* sent never stopped; one that was dropped stays dropped.
Jam(f) ==
    /\ f \in clients \ jammed
    /\ jammed' = jammed \cup {f}
    /\ UNCHANGED <<bleVars, clients, linger, refresh, abandoned, bound, shown, open,
                   orphaned, idled>>

-----------------------------------------------------------------------------

Timers   == LingerExpired \/ RefreshLink
Messages == ConnectMessage \/ DisconnectMessage \/ ScanMessage \/ BindMessage \/ Refused
SocketsChange == \E f \in Sockets : \/ PostHandshake(f) \/ CloseFrame(f)
                                    \/ SessionClosed(f) \/ Jam(f)

Next == BleEvent \/ Notification \/ Timers \/ Messages \/ SocketsChange

Spec == Init /\ [][Next]_vars

\* Timers that run go off, a dial ends within its ten seconds, a terminated
\* link and a scan end, and a procedure the peer has been asked for is
\* answered, if only by the stack's own timeout.
Fairness ==
    /\ WF_vars(LingerExpired) /\ WF_vars(RefreshLink)
    /\ WF_vars(Hosted(HostSync))
    /\ WF_vars(Hosted(DiscComplete))
    /\ WF_vars(Hosted(ConnectFailed \/ Connected))
    /\ WF_vars(Hosted(\E s \in closing : LinkLost(s)))
    /\ WF_vars(Hosted(\E s \in Storages : Answered(s)))

FairSpec == Spec /\ Fairness

-----------------------------------------------------------------------------
(* Properties *)

\* ws_bridge.c:157: a link left running with nobody on it, which no longer
\* answers, is not handed to the next browser as it is.
IdleLinkIsCycled == clients # {} /\ idled => connHandle \in closing

\* Browsers whose last status says "connected" are told when that ends.
ShownConnectedIsUp == shown = "connected" => IsConnected

\* ws_bridge.c:507: with a browser on the books the clock does not run, and the
\* link does not count as abandoned.
ClockOnlyWhenUnwatched == linger \/ abandoned => clients = {}

\* ble_central.c:573: whatever ends a dial, or makes a link usable, says so last.
\* Browsers see "connecting" only while a dial runs, or a link is up that is still
\* being discovered or, as Stalled says below, has stopped being.
DialUnderWay == gap \in Storages \/ \E s \in Links : proc[s] # "done" \/ ~subscribed
ConnectingIsUnderWay == shown = "connecting" => DialUnderWay

\* The detailed relay keeps the promise of LinkHold.
Audience == IF clients # {} THEN "watching"
            ELSE IF orphaned THEN "unnoticed"
            ELSE IF linger THEN "grace" ELSE "nobody"

Link == IF Links = {} THEN "free"
        ELSE IF Links \subseteq closing THEN "leaving" ELSE "taken"

Hold == INSTANCE LinkHold WITH audience <- Audience, link <- Link

KeepsPromise == Hold!HoldSpec

\* ble_central.c:573: a press of connect is answered.  The browsers do not see
\* "connecting" for good, save on a link whose discovery ended in an ATT error.
Stalled == \E s \in Links : proc[s] = "done" /\ ~subscribed
ConnectingEnds == shown = "connecting" ~> shown # "connecting" \/ Stalled

-----------------------------------------------------------------------------
(* What the source says of the program, and the code does not keep *)

\* ws_bridge.c:567: with nobody on the books a link is on its way out or on the
\* clock, by KeepsPromise without the exception it makes.  A send that fails takes the
\* last browser off the books and starts no clock.
NoLinkWithoutBrowser == clients = {} /\ Links \ closing # {} => linger

\* ble_central.h:60: the name of the connected device, once the link is up and
\* its name was read, is the name of the storage at the other end.
NameIsOfTheLink ==
    (subscribed /\ name # None /\ connHandle # None /\ proc[connHandle] = "done")
        => name = connHandle
===============================================================================
