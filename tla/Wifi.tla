--------------------------------- MODULE Wifi ---------------------------------
(* The Wi-Fi link (networking/wifi.c): the event handler runs in the event task,
   wifi_tick in app_main's loop, wifi_set_ssid and wifi_set_password in a task
   of their caller; s_retry_num, the event group and the Wi-Fi driver are shared
   without a lock.  The web servers are started and stopped by the handler.    *)
EXTENDS Naturals, Sequences

CONSTANTS MaxRetry,     \* CONFIG_ESP_MAXIMUM_RETRY
          MaxEvents,    \* bound: events posted and not handled, for a new configuration
          SlowAttempts  \* whether an attempt to connect outlasts a period of wifi_tick
                        \* and the handling of the events before it

ASSUME RetryAssumption == MaxRetry \in Nat
ASSUME EventsAssumption == MaxEvents \in Nat
ASSUME TimeAssumption == SlowAttempts \in BOOLEAN

VARIABLES driver,  \* the Wi-Fi driver: "stopped", "idle", "connecting" or "up"
          ap,      \* the configured access point is in reach
          events,  \* the queue of the event loop
          retry,   \* s_retry_num
          bits,    \* s_wifi_event_group
          since,   \* discon_millis: -1, a time, or a time more than 30 s ago
          http,    \* the redirect server runs
          https,   \* the web server runs
          epc,     \* where the event task is
          loaded,  \* s_retry_num as its increment read it
          mpc,     \* where wifi_tick is
          cpc,     \* where the caller of wifi_set_ssid or wifi_set_password is
          ticked   \* wifi_tick ran since the last attempt to connect began

link == <<driver, ap, ticked>>
servers == <<http, https>>
main == <<since, mpc>>
vars == <<link, events, retry, bits, main, servers, epc, loaded, cpc>>

Event == {"STA_START", "STA_DISCONNECTED", "GOT_IP"}

TypeOK ==
    /\ driver \in {"stopped", "idle", "connecting", "up"}
    /\ ap \in BOOLEAN
    /\ events \in Seq(Event)
    /\ retry \in 0..MaxRetry
    /\ bits \subseteq {"CONNECTED", "FAIL"}
    /\ since \in {"never", "recent", "expired"}
    /\ http \in BOOLEAN
    /\ https \in BOOLEAN
    /\ epc \in {"wait", "retry", "load", "store", "connected"}
    /\ loaded \in 0..MaxRetry
    /\ mpc \in {"sleep", "reconnect", "rearm"}
    /\ cpc \in {"none", "start"}
    /\ ticked \in BOOLEAN

\* wifi_init starts the driver and returns; the first event is queued.
Init ==
    /\ driver = "idle"
    /\ ap \in BOOLEAN
    /\ events = <<"STA_START">>
    /\ retry = 0
    /\ bits = {}
    /\ since = "never"
    /\ http = FALSE
    /\ https = FALSE
    /\ epc = "wait"
    /\ loaded = 0
    /\ mpc = "sleep"
    /\ cpc = "none"
    /\ ticked = FALSE
-----------------------------------------------------------------------------
(* The driver and the access point *)

\* esp_wifi_connect; every caller ignores its result.
Connect ==
    /\ driver' = IF driver = "idle" THEN "connecting" ELSE driver
    /\ ticked' = (driver # "idle" /\ ticked)
    /\ UNCHANGED ap

Move ==
    /\ ap' = ~ap
    /\ UNCHANGED <<driver, ticked, events, retry, bits, main, servers, epc, loaded, cpc>>

Succeed ==
    /\ driver = "connecting" /\ ap
    /\ driver' = "up"
    /\ events' = Append(events, "GOT_IP")
    /\ UNCHANGED <<ap, ticked, retry, bits, main, servers, epc, loaded, cpc>>

\* An attempt fails, or a link is lost.
Disconnect ==
    /\ driver \in {"connecting", "up"} /\ ~ap
    /\ SlowAttempts => ticked /\ events = <<>> /\ epc = "wait"
    /\ driver' = "idle"
    /\ events' = Append(events, "STA_DISCONNECTED")
    /\ UNCHANGED <<ap, ticked, retry, bits, main, servers, epc, loaded, cpc>>

\* 30 seconds pass.
Elapse ==
    /\ since = "recent"
    /\ since' = "expired"
    /\ UNCHANGED <<link, events, retry, bits, mpc, servers, epc, loaded, cpc>>
-----------------------------------------------------------------------------
(* event_handler *)

Handle(e) ==
    /\ epc = "wait" /\ events # <<>> /\ Head(events) = e
    /\ events' = Tail(events)

OnStart ==
    /\ Handle("STA_START")
    /\ Connect
    /\ UNCHANGED <<retry, bits, main, servers, epc, loaded, cpc>>

\* Mutant of OnDisconnected: the servers go on.
DisconnectedKeepsServers ==
    /\ Handle("STA_DISCONNECTED")
    /\ epc' = "retry"
    /\ UNCHANGED <<link, retry, bits, main, servers, loaded, cpc>>

OnDisconnected ==
    /\ Handle("STA_DISCONNECTED")
    /\ http' = FALSE
    /\ https' = FALSE
    /\ epc' = "retry"
    /\ UNCHANGED <<link, retry, bits, main, loaded, cpc>>

\* Mutant of Retry: one attempt too many.
RetryOnceMore ==
    /\ epc = "retry"
    /\ IF retry <= MaxRetry
         THEN Connect /\ epc' = "load" /\ UNCHANGED bits
         ELSE bits' = bits \cup {"FAIL"} /\ epc' = "wait" /\ UNCHANGED link
    /\ UNCHANGED <<events, retry, main, servers, loaded, cpc>>

Retry ==
    /\ epc = "retry"
    /\ IF retry < MaxRetry
         THEN Connect /\ epc' = "load" /\ UNCHANGED bits
         ELSE bits' = bits \cup {"FAIL"} /\ epc' = "wait" /\ UNCHANGED link
    /\ UNCHANGED <<events, retry, main, servers, loaded, cpc>>

\* s_retry_num++ reads and writes; wifi_tick may reset it in between.
LoadRetry ==
    /\ epc = "load"
    /\ loaded' = retry
    /\ epc' = "store"
    /\ UNCHANGED <<link, events, retry, bits, main, servers, cpc>>

StoreRetry ==
    /\ epc = "store"
    /\ retry' = loaded + 1
    /\ loaded' = 0
    /\ epc' = "wait"
    /\ UNCHANGED <<link, events, bits, main, servers, cpc>>

OnGotIp ==
    /\ Handle("GOT_IP")
    /\ retry' = 0
    /\ http' = TRUE
    /\ https' = TRUE
    /\ epc' = "connected"
    /\ UNCHANGED <<link, bits, main, loaded, cpc>>

SetConnected ==
    /\ epc = "connected"
    /\ bits' = bits \cup {"CONNECTED"}
    /\ epc' = "wait"
    /\ UNCHANGED <<link, events, retry, main, servers, loaded, cpc>>
-----------------------------------------------------------------------------
(* wifi_tick *)

\* Mutant of TickBits: a failure is not remembered.
TickForgetsFail ==
    /\ mpc = "sleep"
    /\ since' = IF "CONNECTED" \in bits THEN "never" ELSE since
    /\ bits' = {}
    /\ mpc' = IF since' = "expired" THEN "reconnect" ELSE "sleep"
    /\ ticked' = TRUE
    /\ UNCHANGED <<driver, ap, events, retry, servers, epc, loaded, cpc>>

\* Takes and clears both bits; CONNECTED hides FAIL.
TickBits ==
    /\ mpc = "sleep"
    /\ since' = IF "CONNECTED" \in bits THEN "never"
                ELSE IF "FAIL" \in bits THEN "recent" ELSE since
    /\ bits' = {}
    /\ mpc' = IF since' = "expired" THEN "reconnect" ELSE "sleep"
    /\ ticked' = TRUE
    /\ UNCHANGED <<driver, ap, events, retry, servers, epc, loaded, cpc>>

\* Mutant of TickConnect: the timer expires and nothing connects.
TickIdle ==
    /\ mpc = "reconnect"
    /\ mpc' = "rearm"
    /\ UNCHANGED <<link, since, events, retry, bits, servers, epc, loaded, cpc>>

TickConnect ==
    /\ mpc = "reconnect"
    /\ Connect
    /\ mpc' = "rearm"
    /\ UNCHANGED <<since, events, retry, bits, servers, epc, loaded, cpc>>

TickRearm ==
    /\ mpc = "rearm"
    /\ since' = "never"
    /\ retry' = 0
    /\ mpc' = "sleep"
    /\ UNCHANGED <<link, events, bits, servers, epc, loaded, cpc>>
-----------------------------------------------------------------------------
(* wifi_set_ssid and wifi_set_password, applied at once *)

ConfigStop ==
    /\ cpc = "none" /\ Len(events) < MaxEvents
    /\ driver' = "stopped"
    /\ events' = IF driver \in {"connecting", "up"}
                   THEN Append(events, "STA_DISCONNECTED") ELSE events
    /\ cpc' = "start"
    /\ UNCHANGED <<ap, ticked, retry, bits, main, servers, epc, loaded>>

ConfigStart ==
    /\ cpc = "start"
    /\ driver' = "idle"
    /\ events' = Append(events, "STA_START")
    /\ cpc' = "none"
    /\ UNCHANGED <<ap, ticked, retry, bits, main, servers, epc, loaded>>
-----------------------------------------------------------------------------
EventTask ==
    \/ OnStart \/ OnDisconnected \/ Retry \/ LoadRetry \/ StoreRetry
    \/ OnGotIp \/ SetConnected

Tick == TickBits \/ TickConnect \/ TickRearm

Next == EventTask \/ Tick \/ Move \/ Succeed \/ Disconnect \/ Elapse
           \/ ConfigStop \/ ConfigStart

\* The tasks run, time passes, and an attempt in reach of the access point
\* succeeds unless the access point moves out of reach.
Fairness ==
    /\ WF_vars(EventTask) /\ WF_vars(Tick) /\ WF_vars(ConfigStart)
    /\ WF_vars(Succeed) /\ WF_vars(Elapse)

Spec == Init /\ [][Next]_vars /\ Fairness
-----------------------------------------------------------------------------
(* Properties *)

Handled == events = <<>> /\ epc = "wait"

\* When the handler has seen every event, the servers run exactly while the
\* link is up (wifi.c:59-60, 71-72).
ServersFollowLink == Handled => http = (driver = "up") /\ https = (driver = "up")

\* A station that gave up is on its way to the next attempt: the failure waits
\* for wifi_tick, or the timer runs, or wifi_tick is reconnecting
\* (wifi.c:61-67, 119-139).
NeverStranded ==
    Handled /\ driver = "idle" /\ cpc = "none"
        => "FAIL" \in bits \/ since # "never" \/ mpc # "sleep"

\* Once the access point stays in reach and nobody changes the configuration,
\* the link and the servers come up for good.
ComesBack == <>[](ap /\ cpc = "none") => <>[](driver = "up" /\ http /\ https)
=============================================================================
