------------------------------ MODULE WebSessions ------------------------------
(* The HTTPS server and its websocket endpoint (webserver.c, urihandlers_wss.c).
   One httpd task accepts connections, runs every handler and closes every
   session; the event task starts and stops the server; the USB tasks compete
   for the bus.  A browser holds several connections at once, for pages, REST
   requests and websockets, and all of them go through the same callbacks.    *)
EXTENDS Naturals, FiniteSets

CONSTANTS Socket,      \* socket descriptors of the server
          MaxClients,  \* MAX_WWW_CLIENTS, and max_open_sockets of httpd
          Free         \* sockfd 0: the slot is not in use

ASSUME SocketAssumption == IsFiniteSet(Socket) /\ Free \notin Socket
ASSUME ClientsAssumption == MaxClients \in Nat \ {0}

Slot == 1..MaxClients

VARIABLES running,   \* the server is started
          stopping,  \* httpd_ssl_stop waits for the httpd task
          sessions,  \* the sockets httpd has open
          sockfd,    \* open_clients[i].sockfd
          message,   \* open_clients[i].message # NULL
          spoken,    \* sockets that sent a websocket frame since they were opened
          pc,        \* where the httpd task is
          cur,       \* the session it works for
          bus,       \* the claim the bus manager records
          taker      \* history: the session whose command took the LIN claim

clients == <<sockfd, message>>
server == <<running, stopping>>
httpd == <<pc, cur>>
claim == <<bus, taker>>
vars == <<server, sessions, clients, spoken, httpd, claim>>

HttpdStep == {"select", "lin_claim", "lin_action", "btl_release", "btl_claim",
              "btl_action", "btl_done", "respond", "close_slot", "close_bus"}

TypeOK ==
    /\ running \in BOOLEAN
    /\ stopping \in BOOLEAN
    /\ sessions \subseteq Socket /\ Cardinality(sessions) <= MaxClients
    /\ sockfd \in [Slot -> Socket \cup {Free}]
    /\ message \in [Slot -> BOOLEAN]
    /\ spoken \subseteq Socket
    /\ pc \in HttpdStep
    /\ cur \in Socket \cup {Free}
    /\ bus \in {"free", "web_app", "web_btl", "usb"}
    /\ taker \in Socket \cup {Free}

Init ==
    /\ running = FALSE
    /\ stopping = FALSE
    /\ sessions = {}
    /\ sockfd = [i \in Slot |-> Free]
    /\ message = [i \in Slot |-> FALSE]
    /\ spoken = {}
    /\ pc = "select"
    /\ cur = Free
    /\ bus = "free"
    /\ taker = Free

Slots(fd) == {i \in Slot : sockfd[i] = fd}

\* wss_get_client_connection_info returns the first slot with this descriptor.
SlotOf(fd) == CHOOSE i \in Slots(fd) : \A j \in Slots(fd) : i <= j

\* busmngr_ReleaseInterface(USER_WIFI, MODE_APPLICATION)
ReleaseLin ==
    IF bus = "web_app" THEN bus' = "free" /\ taker' = Free ELSE UNCHANGED claim

Goto(l) == pc' = l /\ UNCHANGED cur
-----------------------------------------------------------------------------
(* The event task *)

\* start_webserver; wss_init clears the slots.
Start ==
    /\ ~running
    /\ running' = TRUE
    /\ sockfd' = [i \in Slot |-> Free]
    /\ message' = [i \in Slot |-> FALSE]
    /\ UNCHANGED <<stopping, sessions, spoken, httpd, claim>>

Stop ==
    /\ running /\ ~stopping
    /\ stopping' = TRUE
    /\ UNCHANGED <<running, sessions, clients, spoken, httpd, claim>>

\* The httpd task is gone: every session was closed.
Stopped ==
    /\ stopping /\ pc = "select" /\ sessions = {}
    /\ running' = FALSE
    /\ stopping' = FALSE
    /\ UNCHANGED <<sessions, clients, spoken, httpd, claim>>
-----------------------------------------------------------------------------
(* Sessions *)

Serving == running /\ ~stopping /\ pc = "select"

\* Mutant of Accept: httpd may open more sockets than there are slots.
AcceptUnbounded(s) ==
    /\ Serving
    /\ s \notin sessions
    /\ sessions' = sessions \cup {s}
    /\ IF Slots(Free) = {} THEN UNCHANGED clients
       ELSE /\ sockfd' = [sockfd EXCEPT ![SlotOf(Free)] = s]
            /\ message' = [message EXCEPT ![SlotOf(Free)] = FALSE]
    /\ UNCHANGED <<server, spoken, httpd, claim>>

\* wss_open_fd, for every connection httpd has a socket for.
Accept(s) ==
    /\ Serving
    /\ s \notin sessions /\ Cardinality(sessions) < MaxClients
    /\ sessions' = sessions \cup {s}
    /\ IF Slots(Free) = {} THEN UNCHANGED clients
       ELSE /\ sockfd' = [sockfd EXCEPT ![SlotOf(Free)] = s]
            /\ message' = [message EXCEPT ![SlotOf(Free)] = FALSE]
    /\ UNCHANGED <<server, spoken, httpd, claim>>

\* The peer closed, an error occurred or the server stops.
Closing(s) ==
    /\ pc = "select" /\ s \in sessions
    /\ cur' = s
    /\ pc' = "close_slot"
    /\ UNCHANGED <<server, sessions, clients, spoken, claim>>

\* Mutant of CloseSlot: the descriptor stays in its slot.
CloseKeepsSocket ==
    /\ pc = "close_slot"
    /\ IF Slots(cur) = {} THEN UNCHANGED clients
       ELSE /\ message' = [message EXCEPT ![SlotOf(cur)] = FALSE]
            /\ UNCHANGED sockfd
    /\ spoken' = spoken \ {cur}
    /\ Goto("close_bus")
    /\ UNCHANGED <<server, sessions, claim>>

\* Mutant of CloseSlot: the buffered message stays in its slot.
CloseKeepsMessage ==
    /\ pc = "close_slot"
    /\ IF Slots(cur) = {} THEN UNCHANGED clients
       ELSE /\ sockfd' = [sockfd EXCEPT ![SlotOf(cur)] = Free]
            /\ UNCHANGED message
    /\ spoken' = spoken \ {cur}
    /\ Goto("close_bus")
    /\ UNCHANGED <<server, sessions, claim>>

\* wss_close_fd frees the slot and closes the socket ...
CloseSlot ==
    /\ pc = "close_slot"
    /\ IF Slots(cur) = {} THEN UNCHANGED clients
       ELSE /\ sockfd' = [sockfd EXCEPT ![SlotOf(cur)] = Free]
            /\ message' = [message EXCEPT ![SlotOf(cur)] = FALSE]
    /\ spoken' = spoken \ {cur}
    /\ Goto("close_bus")
    /\ UNCHANGED <<server, sessions, claim>>

\* Mutant of CloseRelease: a lost connection keeps the bus.
CloseKeepsClaim ==
    /\ pc = "close_bus"
    /\ sessions' = sessions \ {cur}
    /\ pc' = "select" /\ cur' = Free
    /\ UNCHANGED <<server, clients, spoken, claim>>

\* ... and releases the LIN claim of the web server, whoever made it.
CloseRelease ==
    /\ pc = "close_bus"
    /\ ReleaseLin
    /\ sessions' = sessions \ {cur}
    /\ pc' = "select" /\ cur' = Free
    /\ UNCHANGED <<server, clients, spoken>>
-----------------------------------------------------------------------------
(* wss_handler *)

\* A websocket frame arrives.  A text frame starts a message; a continuation frame
\* extends it, or starts one where there is none: nothing looks for the text frame.
FrameFor(s) ==
    /\ Serving /\ s \in sessions
    /\ spoken' = spoken \cup {s}
    /\ UNCHANGED <<server, sessions, sockfd, claim>>

\* A client without a slot is refused, and httpd closes its session.  A text frame
\* without content leaves no buffer.
Buffers(s, content) ==
    IF Slots(s) = {} THEN UNCHANGED message
    ELSE message' = [message EXCEPT ![SlotOf(s)] = content]

Fragment(s) ==
    /\ FrameFor(s)
    /\ \E content \in BOOLEAN : Buffers(s, content)
    /\ IF Slots(s) = {} THEN cur' = s /\ pc' = "close_slot" ELSE UNCHANGED httpd

FirstStep == [lin |-> "lin_claim", bootloader |-> "btl_release", other |-> "respond"]

\* The final frame completes the message, of whatever frames it was made.
Command(s, endpoint) ==
    /\ FrameFor(s)
    /\ \E content \in BOOLEAN :
          Buffers(s, content) /\ (~content => endpoint = "other")
    /\ cur' = s
    /\ pc' = IF Slots(s) = {} THEN "close_slot" ELSE FirstStep[endpoint]

\* A continuation frame without a message is copied to a byte before the new
\* buffer, one without content from address 0: the device may fault and restart, at
\* once or when it meets the damaged heap.
FrameFault(s) ==
    /\ Serving /\ s \in sessions /\ Slots(s) # {}
    /\ running' = FALSE /\ stopping' = FALSE
    /\ sessions' = {}
    /\ sockfd' = [i \in Slot |-> Free] /\ message' = [i \in Slot |-> FALSE]
    /\ spoken' = {}
    /\ pc' = "select" /\ cur' = Free
    /\ bus' = "free" /\ taker' = Free

\* Answers the command, when it could be parsed, and drops the message.
Respond ==
    /\ pc = "respond"
    /\ message' = [message EXCEPT ![SlotOf(cur)] = FALSE]
    /\ pc' = "select" /\ cur' = Free
    /\ UNCHANGED <<server, sessions, sockfd, spoken, claim>>
-----------------------------------------------------------------------------
(* wss_lin_ifc_wake_up and wss_lin_handle_message_on_bus *)

\* Mutant of LinClaim: the result of the claim is ignored.
LinUnclaimed ==
    /\ pc = "lin_claim"
    /\ Goto("lin_action")
    /\ UNCHANGED <<server, sessions, clients, spoken, claim>>

LinClaim ==
    /\ pc = "lin_claim" /\ bus \in {"free", "web_app"}
    /\ bus' = "web_app"
    /\ taker' = IF bus = "free" THEN cur ELSE taker
    /\ Goto("lin_action")
    /\ UNCHANGED <<server, sessions, clients, spoken>>

\* Mutant of LinRefused: waits until the bus is free.
LinWaits ==
    /\ pc = "lin_claim" /\ bus # "web_app"
    /\ UNCHANGED vars

\* "interface not free"; the driver may also fail to start.
LinRefused ==
    /\ pc = "lin_claim" /\ bus # "web_app"
    /\ Goto("respond")
    /\ UNCHANGED <<server, sessions, clients, spoken, claim>>

LinAction ==
    /\ pc = "lin_action"
    /\ Goto("respond")
    /\ UNCHANGED <<server, sessions, clients, spoken, claim>>
-----------------------------------------------------------------------------
(* wss_btl_handler *)

\* Gives up the LIN claim of the web server first.
BtlRelease ==
    /\ pc = "btl_release"
    /\ ReleaseLin
    /\ Goto("btl_claim")
    /\ UNCHANGED <<server, sessions, clients, spoken>>

BtlClaim ==
    /\ pc = "btl_claim" /\ bus \in {"free", "web_btl"}
    /\ bus' = "web_btl"
    /\ Goto("btl_action")
    /\ UNCHANGED <<server, sessions, clients, spoken, taker>>

BtlRefused ==
    /\ pc = "btl_claim" /\ bus # "web_btl"
    /\ Goto("btl_done")
    /\ UNCHANGED <<server, sessions, clients, spoken, claim>>

BtlAction ==
    /\ pc = "btl_action"
    /\ Goto("btl_done")
    /\ UNCHANGED <<server, sessions, clients, spoken, claim>>

BtlDone ==
    /\ pc = "btl_done"
    /\ bus' = IF bus = "web_btl" THEN "free" ELSE bus
    /\ Goto("respond")
    /\ UNCHANGED <<server, sessions, clients, spoken, taker>>
-----------------------------------------------------------------------------
\* The USB tasks use the same bus manager.
UsbClaim ==
    /\ bus = "free"
    /\ bus' = "usb"
    /\ UNCHANGED <<server, sessions, clients, spoken, httpd, taker>>

UsbRelease ==
    /\ bus = "usb"
    /\ bus' = "free"
    /\ UNCHANGED <<server, sessions, clients, spoken, httpd, taker>>

Handling ==
    \/ CloseSlot \/ CloseRelease \/ Respond
    \/ LinClaim \/ LinRefused \/ LinAction
    \/ BtlRelease \/ BtlClaim \/ BtlRefused \/ BtlAction \/ BtlDone

\* While the server stops, the httpd task closes the sessions that are left.
ShutDown == stopping /\ \E s \in sessions : Closing(s)

Next ==
    \/ Start \/ Stop \/ Stopped
    \/ \E s \in Socket :
          \/ Accept(s) \/ Closing(s)
          \/ Fragment(s)
          \/ \E endpoint \in DOMAIN FirstStep : Command(s, endpoint)
          \/ FrameFault(s)
    \/ Handling
    \/ UsbClaim \/ UsbRelease

\* The httpd task runs; the drivers return in the end.
Fairness == WF_vars(Handling) /\ WF_vars(ShutDown) /\ WF_vars(Stopped)

Spec == Init /\ [][Next]_vars /\ Fairness
-----------------------------------------------------------------------------
(* Properties *)

\* Between two events every open session has one slot and no slot is lost: the
\* array has as many entries as httpd has sockets, and open and close are
\* called in pairs (webserver.c:57, urihandlers_wss.c:525-537, 556-567).
SessionsTracked ==
    pc = "select" /\ running =>
        /\ \A s \in sessions : Cardinality(Slots(s)) = 1
        /\ \A i \in Slot : sockfd[i] \in sessions \cup {Free}

\* A connection never continues the message of an earlier one that used its
\* slot or its descriptor (urihandlers_wss.c:441-462, 531-533, 561-567).
OwnFragments == \A i \in Slot : message[i] => sockfd[i] \in spoken

\* The web server uses the drivers under its claim, although other connections
\* close and the USB tasks claim and release meanwhile
\* (urihandlers_wss.c:111-118, 137-197, 242-286).
UsedUnderWebClaim ==
    /\ pc = "lin_action" => bus = "web_app"
    /\ pc = "btl_action" => bus = "web_btl"

\* The web server holds the bus for LIN only while the session that took it is
\* open, and for bootloading only during the command (urihandlers_wss.c:301, 573).
ClaimHasSession ==
    pc = "select" => (bus = "web_app" => taker \in sessions) /\ bus # "web_btl"

\* Stopping the server comes to an end, so the event task, which waits in
\* httpd_ssl_stop, goes on (webserver.c:95-108).
StopEnds == stopping ~> ~running
=============================================================================
