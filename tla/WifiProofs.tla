------------------------------ MODULE WifiProofs ------------------------------
(* Proofs about the Wi-Fi link: whatever the access point does, whoever changes
   the configuration and however many events wait, the servers follow the link,
   for every number of retries; and a station with enough retries never gives up
   for good.                                                                  *)
EXTENDS Wifi, TLAPS

\* The increment that lost a race against wifi_tick does not pass the limit.
RetryBounded ==
    /\ epc = "load" => retry < MaxRetry
    /\ epc = "store" => loaded < MaxRetry

\* The events about the link, and what the last of them in the queue says of the
\* driver; when none waits, the servers say it.
IsLink(e) == e \in {"STA_DISCONNECTED", "GOT_IP"}
LastLink(q, k) == IsLink(q[k]) /\ \A j \in (k + 1)..Len(q) : ~IsLink(q[j])
Quiet(q) == \A k \in 1..Len(q) : ~IsLink(q[k])
LinkKnown ==
    /\ \A k \in 1..Len(events) : LastLink(events, k) => (events[k] = "GOT_IP" <=> driver = "up")
    /\ Quiet(events) => (http <=> driver = "up")
    /\ http <=> https
    /\ cpc = "start" => driver = "stopped"

IInv == TypeOK /\ RetryBounded /\ LinkKnown

LEMMA InitIInv == Init => IInv
<1> SUFFICES ASSUME Init PROVE IInv
  OBVIOUS
<1>1. /\ events \in Seq(Event) /\ Len(events) = 1 /\ events[1] = "STA_START"
      /\ 0 \in 0..MaxRetry
  BY RetryAssumption DEF Init, Event
<1>2. TypeOK /\ RetryBounded
  BY <1>1 DEF Init, TypeOK, RetryBounded
<1>3. \A k \in 1..Len(events) : events[k] = "STA_START"
  BY <1>1
<1> HIDE DEF Init
<1>4. /\ http = FALSE /\ https = FALSE /\ cpc = "none" /\ driver = "idle"
  BY DEF Init
<1>5. LinkKnown
  BY <1>3, <1>4 DEF LinkKnown, LastLink, IsLink
<1> QED
  BY <1>2, <1>5 DEF IInv
-----------------------------------------------------------------------------
(* The queue of the event loop *)

LEMMA Queued ==
    ASSUME NEW q \in Seq(Event), NEW e \in Event
    PROVE  /\ Append(q, e) \in Seq(Event)
           /\ Len(Append(q, e)) = Len(q) + 1 /\ Len(q) \in Nat
           /\ \A k \in 1..(Len(q) + 1) :
                 Append(q, e)[k] = IF k <= Len(q) THEN q[k] ELSE e
OBVIOUS

LEMMA Taken ==
    ASSUME NEW q \in Seq(Event), q # <<>>
    PROVE  /\ Tail(q) \in Seq(Event) /\ Head(q) = q[1]
           /\ Len(Tail(q)) = Len(q) - 1 /\ Len(q) \in Nat \ {0}
           /\ \A k \in 1..(Len(q) - 1) : Tail(q)[k] = q[k + 1]
OBVIOUS

\* An event about the link is the last one, and says what the driver did.
LEMMA LinkQueued ==
    ASSUME IInv, NEW e \in Event, IsLink(e), events' = Append(events, e),
           e = "GOT_IP" <=> driver' = "up", UNCHANGED servers,
           cpc' = "start" => driver' = "stopped"
    PROVE  LinkKnown'
<1>1. events \in Seq(Event)
  BY DEF IInv, TypeOK
<1>2. /\ Len(events') = Len(events) + 1 /\ Len(events) \in Nat
      /\ \A k \in 1..(Len(events) + 1) :
            events'[k] = IF k <= Len(events) THEN events[k] ELSE e
  BY <1>1, Queued
<1>3. ASSUME NEW k \in 1..Len(events'), LastLink(events', k) PROVE events'[k] = e
  <2>1. k = Len(events')
    BY <1>2, <1>3 DEF LastLink
  <2> QED
    BY <1>2, <2>1
<1>4. ~Quiet(events')
  BY <1>2 DEF Quiet
<1> QED
  BY <1>3, <1>4 DEF LinkKnown, IInv, servers

\* Another event, and steps that leave the queue alone, change nothing for it.
LEMMA StartQueued ==
    ASSUME IInv, events' = Append(events, "STA_START") \/ UNCHANGED events,
           driver' = "up" <=> driver = "up", UNCHANGED servers,
           cpc' = "start" => driver' = "stopped"
    PROVE  LinkKnown'
<1>1. CASE UNCHANGED events
  BY <1>1 DEF IInv, LinkKnown, servers
<1>2. CASE events' = Append(events, "STA_START")
  <2>1. events \in Seq(Event) /\ "STA_START" \in Event
    BY DEF IInv, TypeOK, Event
  <2>2. /\ Len(events') = Len(events) + 1 /\ Len(events) \in Nat
        /\ \A k \in 1..(Len(events) + 1) :
              events'[k] = IF k <= Len(events) THEN events[k] ELSE "STA_START"
    BY <1>2, <2>1, Queued
  <2>3. ASSUME NEW k \in 1..Len(events'), LastLink(events', k)
        PROVE  k \in 1..Len(events) /\ LastLink(events, k) /\ events'[k] = events[k]
    BY <2>2, <2>3 DEF LastLink, IsLink
  <2>4. Quiet(events') => Quiet(events)
    BY <2>2 DEF Quiet
  <2> QED
    BY <2>3, <2>4 DEF LinkKnown, IInv, servers
<1> QED
  BY <1>1, <1>2

LEMMA EventTaken ==
    ASSUME IInv, NEW e, Handle(e), driver' = "up" <=> driver = "up",
           IF IsLink(e) THEN http' = (e = "GOT_IP") /\ https' = (e = "GOT_IP")
                        ELSE UNCHANGED servers,
           cpc' = "start" => driver' = "stopped"
    PROVE  LinkKnown' /\ events' \in Seq(Event)
<1>1. events \in Seq(Event) /\ events # <<>> /\ events' = Tail(events) /\ Head(events) = e
  BY DEF IInv, TypeOK, Handle
<1>2. /\ events' \in Seq(Event) /\ events[1] = e
      /\ Len(events') = Len(events) - 1 /\ Len(events) \in Nat \ {0}
      /\ \A k \in 1..(Len(events) - 1) : events'[k] = events[k + 1]
  BY <1>1, Taken
<1>3. ASSUME NEW k \in 1..Len(events'), LastLink(events', k)
      PROVE  events'[k] = "GOT_IP" <=> driver' = "up"
  <2>1. k + 1 \in 1..Len(events) /\ events'[k] = events[k + 1]
    BY <1>2
  <2>2. ASSUME NEW j \in (k + 2)..Len(events) PROVE ~IsLink(events[j])
    <3>1. j - 1 \in (k + 1)..Len(events') /\ events'[j - 1] = events[j]
      BY <1>2
    <3> QED
      BY <1>3, <3>1 DEF LastLink
  <2>3. LastLink(events, k + 1)
    BY <1>2, <1>3, <2>1, <2>2 DEF LastLink
  <2> QED
    BY <2>1, <2>3 DEF IInv, LinkKnown
<1>4. ASSUME Quiet(events') PROVE http' <=> driver' = "up"
  <2>1. ASSUME NEW j \in 2..Len(events) PROVE ~IsLink(events[j])
    <3>1. j - 1 \in 1..Len(events') /\ events'[j - 1] = events[j]
      BY <1>2
    <3> QED
      BY <1>4, <3>1 DEF Quiet
  <2>2. CASE IsLink(e)
    <3>1. LastLink(events, 1) /\ 1 \in 1..Len(events)
      BY <1>2, <2>1, <2>2 DEF LastLink
    <3> QED
      BY <1>2, <2>2, <3>1 DEF IInv, LinkKnown
  <2>3. CASE ~IsLink(e)
    <3>1. Quiet(events)
      BY <1>2, <2>1, <2>3 DEF Quiet
    <3> QED
      BY <2>3, <3>1 DEF IInv, LinkKnown, servers
  <2> QED
    BY <2>2, <2>3
<1>5. http' <=> https'
  BY DEF IInv, LinkKnown, servers
<1> QED
  BY <1>2, <1>3, <1>4, <1>5 DEF LinkKnown
-----------------------------------------------------------------------------
(* The steps *)

\* What esp_wifi_connect leaves unchanged.
LEMMA Connected ==
    ASSUME IInv, Connect
    PROVE  /\ driver' \in {"stopped", "idle", "connecting", "up"}
           /\ driver' = "up" <=> driver = "up"
           /\ driver = "stopped" => driver' = "stopped"
           /\ ap' \in BOOLEAN /\ ticked' \in BOOLEAN
BY DEF Connect, IInv, TypeOK

LEMMA EventStep ==
    ASSUME IInv, EventTask
    PROVE  IInv'
<1> USE DEF IInv
<1>1. CASE OnStart
  <2>1. /\ Handle("STA_START") /\ ~IsLink("STA_START") /\ UNCHANGED <<servers, cpc, retry, loaded>>
        /\ epc = "wait" /\ epc' = "wait"
    BY <1>1 DEF OnStart, Handle, IsLink
  <2>2. Connect
    BY <1>1 DEF OnStart
  <2>3. LinkKnown' /\ events' \in Seq(Event)
    BY <2>1, <2>2, Connected, EventTaken DEF LinkKnown
  <2> QED
    BY <1>1, <2>1, <2>2, <2>3, Connected DEF OnStart, TypeOK, RetryBounded, servers, main
<1>2. CASE OnDisconnected
  <2>1. /\ Handle("STA_DISCONNECTED") /\ IsLink("STA_DISCONNECTED")
        /\ http' = FALSE /\ https' = FALSE /\ UNCHANGED <<driver, cpc, retry, loaded>>
        /\ epc' = "retry"
    BY <1>2 DEF OnDisconnected, link, IsLink
  <2>2. LinkKnown' /\ events' \in Seq(Event)
    BY <2>1, EventTaken DEF LinkKnown
  <2> QED
    BY <1>2, <2>1, <2>2 DEF OnDisconnected, TypeOK, RetryBounded, link, main
<1>3. CASE OnGotIp
  <2>1. /\ Handle("GOT_IP") /\ IsLink("GOT_IP")
        /\ http' = TRUE /\ https' = TRUE /\ UNCHANGED <<driver, cpc, loaded>>
        /\ epc' = "connected" /\ retry' = 0
    BY <1>3 DEF OnGotIp, link, IsLink
  <2>2. LinkKnown' /\ events' \in Seq(Event)
    BY <2>1, EventTaken DEF LinkKnown
  <2> QED
    BY <1>3, <2>1, <2>2, RetryAssumption DEF OnGotIp, TypeOK, RetryBounded, link, main
<1>4. CASE Retry
  <2>1. UNCHANGED <<events, servers, cpc>>
    BY <1>4 DEF Retry
  <2>2. CASE retry < MaxRetry
    <3>1. Connect /\ epc' = "load"
      BY <1>4, <2>2 DEF Retry
    <3>2. LinkKnown'
      BY <2>1, <3>1, Connected, StartQueued DEF LinkKnown
    <3> QED
      BY <1>4, <2>2, <3>1, <3>2, Connected DEF Retry, TypeOK, RetryBounded, servers, main
  <2>3. CASE ~(retry < MaxRetry)
    <3>1. /\ epc' = "wait" /\ bits' = bits \cup {"FAIL"} /\ UNCHANGED link
      BY <1>4, <2>3 DEF Retry
    <3>2. LinkKnown'
      BY <2>1, <3>1, StartQueued DEF LinkKnown, link
    <3> QED
      BY <1>4, <3>1, <3>2 DEF Retry, TypeOK, RetryBounded, link, servers, main
  <2> QED
    BY <2>2, <2>3
<1>5. CASE LoadRetry \/ StoreRetry \/ SetConnected
  <2>1. UNCHANGED <<events, driver, servers, cpc>>
    BY <1>5 DEF LoadRetry, StoreRetry, SetConnected, link
  <2>2. LinkKnown'
    BY <2>1, StartQueued DEF LinkKnown
  <2> USE DEF TypeOK, RetryBounded, link, servers, main
  <2>3. CASE LoadRetry
    BY <2>2, <2>3 DEF LoadRetry
  <2>4. CASE StoreRetry
    <3>1. loaded + 1 \in 0..MaxRetry /\ 0 \in 0..MaxRetry
      BY <2>4, RetryAssumption DEF StoreRetry
    <3> QED
      BY <2>2, <2>4, <3>1 DEF StoreRetry
  <2>5. CASE SetConnected
    BY <2>2, <2>5 DEF SetConnected
  <2> QED
    BY <1>5, <2>3, <2>4, <2>5
<1> QED
  BY <1>1, <1>2, <1>3, <1>4, <1>5 DEF EventTask

LEMMA TickStep ==
    ASSUME IInv, Tick
    PROVE  IInv'
<1> USE DEF IInv
<1>1. CASE TickBits \/ TickRearm
  <2>1. UNCHANGED <<events, driver, servers, cpc>>
    BY <1>1 DEF TickBits, TickRearm, link
  <2>2. LinkKnown'
    BY <2>1, StartQueued DEF LinkKnown
  <2>3. since' \in {"never", "recent", "expired"} /\ mpc' \in {"sleep", "reconnect", "rearm"}
    BY <1>1 DEF TickBits, TickRearm, TypeOK
  <2>4. retry' \in 0..MaxRetry /\ retry' <= retry /\ UNCHANGED <<epc, loaded>>
    BY <1>1, RetryAssumption DEF TickBits, TickRearm, TypeOK
  <2>5. RetryBounded'
    BY <2>4, RetryAssumption DEF RetryBounded, TypeOK
  <2>6. TypeOK'
    BY <1>1, <2>3, <2>4 DEF TickBits, TickRearm, TypeOK, link, servers
  <2> QED
    BY <2>2, <2>5, <2>6
<1>2. CASE TickConnect
  <2>1. Connect /\ UNCHANGED <<events, servers, cpc>>
    BY <1>2 DEF TickConnect
  <2>2. LinkKnown'
    BY <2>1, Connected, StartQueued DEF LinkKnown
  <2> QED
    BY <1>2, <2>1, <2>2, Connected DEF TickConnect, TypeOK, RetryBounded, servers
<1> QED
  BY <1>1, <1>2 DEF Tick

\* The driver posts an event with every change that matters to the servers.
LEMMA DriverStep ==
    ASSUME IInv, Succeed \/ Disconnect \/ ConfigStop \/ ConfigStart
    PROVE  IInv'
<1> USE DEF IInv
<1>1. events \in Seq(Event) /\ Event = {"STA_START", "STA_DISCONNECTED", "GOT_IP"}
  BY DEF TypeOK, Event
<1>2. events' \in Seq(Event)
  BY <1>1, Queued DEF Succeed, Disconnect, ConfigStop, ConfigStart
<1>3. LinkKnown'
  <2>1. CASE Succeed
    BY <1>1, <2>1, LinkQueued DEF Succeed, IsLink, LinkKnown
  <2>2. CASE Disconnect
    BY <1>1, <2>2, LinkQueued DEF Disconnect, IsLink, LinkKnown
  <2>3. CASE ConfigStop /\ driver \in {"connecting", "up"}
    BY <1>1, <2>3, LinkQueued DEF ConfigStop, IsLink
  <2>4. CASE ConfigStop /\ driver \notin {"connecting", "up"}
    BY <2>4, StartQueued DEF ConfigStop
  <2>5. CASE ConfigStart
    BY <2>5, StartQueued DEF ConfigStart, LinkKnown
  <2> QED
    BY <2>1, <2>2, <2>3, <2>4, <2>5
<1>4. TypeOK' /\ RetryBounded'
  BY <1>2 DEF Succeed, Disconnect, ConfigStop, ConfigStart, TypeOK, RetryBounded, servers, main
<1> QED
  BY <1>3, <1>4

LEMMA IInvStep == IInv /\ [Next]_vars => IInv'
<1> SUFFICES ASSUME IInv, [Next]_vars PROVE IInv'
  OBVIOUS
<1>1. CASE Move \/ Elapse \/ UNCHANGED vars
  <2>1. UNCHANGED <<events, driver, servers, cpc>>
    BY <1>1 DEF Move, Elapse, vars, link
  <2>2. LinkKnown'
    BY <2>1, StartQueued DEF IInv, LinkKnown
  <2> USE DEF IInv, TypeOK, RetryBounded, link, servers, main
  <2>3. CASE Move
    BY <2>2, <2>3 DEF Move
  <2>4. CASE Elapse
    BY <2>2, <2>4 DEF Elapse
  <2>5. CASE UNCHANGED vars
    BY <2>2, <2>5 DEF vars
  <2> QED
    BY <1>1, <2>3, <2>4, <2>5
<1> QED
  BY <1>1, EventStep, TickStep, DriverStep DEF Next

LEMMA Invariant == Spec => []IInv
BY InitIInv, IInvStep, PTL DEF Spec
-----------------------------------------------------------------------------
(* The theorems *)

\* The station's variables keep their types: the retries never pass their limit,
\* although wifi_tick resets the counter between the two halves of its increment
\* (wifi.c:61-67, 128-137).
THEOREM TypeCorrect == Spec => []TypeOK
<1>1. IInv => TypeOK
  BY DEF IInv
<1> QED
  BY <1>1, Invariant, PTL

\* When the handler has seen every event, the servers run exactly while the link is
\* up, for any number of retries and queued events (wifi.c:59-60, 71-72).
THEOREM ServersFollow == Spec => []ServersFollowLink
<1>1. ASSUME IInv, Handled PROVE http = (driver = "up") /\ https = (driver = "up")
  <2>1. Quiet(events)
    BY <1>1 DEF Handled, Quiet
  <2>2. (http <=> driver = "up") /\ (https <=> driver = "up")
    BY <1>1, <2>1 DEF IInv, LinkKnown
  <2>3. http \in BOOLEAN /\ https \in BOOLEAN
    BY <1>1 DEF IInv, TypeOK
  <2> QED
    BY <2>2, <2>3
<1>2. IInv => ServersFollowLink
  BY <1>1 DEF ServersFollowLink
<1> QED
  BY <1>2, Invariant, PTL
-----------------------------------------------------------------------------
(* Why a station that gave up is never forgotten: a failure that comes with a
   connection in one period is dropped by wifi_tick, so a connection whose bit
   still waits must leave more retries than the queue can hold events.         *)

Patient == SlowAttempts /\ MaxRetry > MaxEvents + 1

Lost == <<"STA_DISCONNECTED">>
StartWaits == \E k \in 1..Len(events) : events[k] = "STA_START"
OnlyStarts(n) == \A k \in n..Len(events) : events[k] = "STA_START"

QueueBounded ==
    /\ driver # "up" => Len(events) <= MaxEvents + 1
    /\ driver = "stopped" => Len(events) <= MaxEvents

\* The handler has yet to hear of a driver that is idle, or has just heard.
IdleNoticed ==
    driver = "idle" =>
        \/ StartWaits
        \/ events = Lost /\ epc = "wait"
        \/ events = <<>> /\ epc \in {"wait", "retry"}

\* A link that is up resets the retries, and nothing counts them again.
UpComes == \E k \in 1..Len(events) : events[k] = "GOT_IP" /\ OnlyStarts(k + 1)
UpSeen ==
    /\ epc = "connected" => retry = 0
    /\ driver = "up" => UpComes \/ (retry = 0 /\ epc \in {"wait", "connected"} /\ OnlyStarts(1))

\* s_retry_num as it will be, whatever wifi_tick resets meanwhile.
Counted ==
    CASE epc = "store" -> loaded + 1
      [] epc \in {"retry", "load"} -> retry + 1
      [] OTHER -> retry

\* While the bit of a connection waits, the next failure does not use up the retries.
Hidden == "CONNECTED" \in bits
RetriesLeft ==
    /\ driver = "connecting" /\ ticked /\ Hidden => Len(events) + Counted <= MaxEvents + 1
    /\ driver = "idle" /\ Hidden =>
          /\ events = Lost /\ epc = "wait" => retry <= MaxEvents + 1
          /\ events = <<>> => epc = "retry" /\ retry <= MaxEvents + 1

NextAttempt ==
    driver = "idle" /\ events = <<>> /\ epc = "wait" =>
        "FAIL" \in bits \/ (mpc # "rearm" /\ (since # "never" \/ mpc = "reconnect"))

AttemptInv == QueueBounded /\ IdleNoticed /\ UpSeen /\ RetriesLeft /\ NextAttempt

LEMMA InitAttempt == Init => AttemptInv
<1> SUFFICES ASSUME Init PROVE AttemptInv
  OBVIOUS
<1>1. Len(events) = 1 /\ events[1] = "STA_START" /\ events # <<>> /\ driver = "idle" /\ bits = {}
      /\ epc = "wait"
  BY DEF Init
<1>2. StartWaits
  BY <1>1 DEF StartWaits
<1> QED
  BY <1>1, <1>2, EventsAssumption
     DEF AttemptInv, QueueBounded, IdleNoticed, UpSeen, RetriesLeft, NextAttempt, Hidden

LEMMA Counts ==
    ASSUME IInv
    PROVE  /\ Len(events) \in Nat /\ retry \in Nat /\ loaded \in Nat /\ Counted \in Nat
           /\ MaxRetry \in Nat /\ MaxEvents \in Nat
           /\ events \in Seq(Event)
<1>1. /\ Len(events) \in Nat /\ retry \in Nat /\ loaded \in Nat /\ events \in Seq(Event)
  BY RetryAssumption DEF IInv, TypeOK
<1>2. Counted \in Nat
  BY <1>1 DEF Counted
<1> QED
  BY <1>1, <1>2, RetryAssumption, EventsAssumption

LEMMA StartExcludes ==
    /\ StartWaits => events # Lost /\ events # <<>>
    /\ StartWaits' => events' # Lost /\ events' # <<>>
BY DEF StartWaits, Lost

LEMMA Posted ==
    ASSUME IInv, NEW e \in Event, events' = Append(events, e)
    PROVE  /\ Len(events') = Len(events) + 1 /\ events' # <<>>
           /\ e = "STA_START" => StartWaits'
           /\ e = "GOT_IP" => UpComes'
<1>1. events \in Seq(Event)
  BY Counts
<1>2. /\ Len(events') = Len(events) + 1 /\ Len(events) \in Nat
      /\ \A k \in 1..(Len(events) + 1) :
            events'[k] = IF k <= Len(events) THEN events[k] ELSE e
  BY <1>1, Queued
<1>3. events'[Len(events')] = e /\ Len(events') \in 1..Len(events')
  BY <1>2
<1>4. events' # <<>>
  BY <1>2
<1>5. \A k \in (Len(events') + 1)..Len(events') : events'[k] = "STA_START"
  BY <1>2
<1>6. e = "GOT_IP" => UpComes'
  BY <1>3, <1>5 DEF UpComes, OnlyStarts
<1> QED
  BY <1>2, <1>3, <1>4, <1>6 DEF StartWaits

LEMMA Behind ==
    ASSUME IInv, NEW e, Handle(e)
    PROVE  /\ epc = "wait" /\ events # <<>> /\ Len(events') = Len(events) - 1
           /\ StartWaits /\ e # "STA_START" => StartWaits'
           /\ events = Lost => e = "STA_DISCONNECTED" /\ events' = <<>>
           /\ UpComes => UpComes' \/ (e = "GOT_IP" /\ OnlyStarts(1)')
           /\ OnlyStarts(1) => e = "STA_START" /\ OnlyStarts(1)'
<1>1. events \in Seq(Event) /\ events # <<>> /\ events' = Tail(events) /\ Head(events) = e
  BY Counts DEF Handle
<1>2. /\ events[1] = e /\ Len(events') = Len(events) - 1 /\ Len(events) \in Nat \ {0}
      /\ \A k \in 1..(Len(events) - 1) : events'[k] = events[k + 1]
  BY <1>1, Taken
<1>3. ASSUME NEW k \in 2..Len(events) PROVE k - 1 \in 1..Len(events') /\ events'[k - 1] = events[k]
  BY <1>2
<1>4. ASSUME StartWaits, e # "STA_START" PROVE StartWaits'
  <2>1. PICK k \in 1..Len(events) : events[k] = "STA_START"
    BY <1>4 DEF StartWaits
  <2>2. k \in 2..Len(events)
    BY <1>2, <1>4, <2>1
  <2> QED
    BY <1>3, <2>1, <2>2 DEF StartWaits
<1>5. ASSUME events = Lost PROVE e = "STA_DISCONNECTED" /\ events' = <<>>
  BY <1>1, <1>5 DEF Lost
<1>6. ASSUME NEW n \in 2..(Len(events) + 1), OnlyStarts(n) PROVE OnlyStarts(n - 1)'
  <2>1. ASSUME NEW j \in (n - 1)..Len(events') PROVE events'[j] = "STA_START"
    <3>1. j \in 1..(Len(events) - 1) /\ j + 1 \in n..Len(events)
      BY <1>2
    <3> QED
      BY <1>2, <1>6, <3>1 DEF OnlyStarts
  <2> QED
    BY <2>1 DEF OnlyStarts
<1>7. ASSUME UpComes PROVE UpComes' \/ (e = "GOT_IP" /\ OnlyStarts(1)')
  <2>1. PICK k \in 1..Len(events) : events[k] = "GOT_IP" /\ OnlyStarts(k + 1)
    BY <1>7 DEF UpComes
  <2>2. OnlyStarts((k + 1) - 1)' /\ (k + 1) - 1 = k
    <3>1. k + 1 \in 2..(Len(events) + 1)
      BY <1>2
    <3> QED
      BY <1>2, <1>6, <2>1, <3>1
  <2>3. CASE k = 1
    BY <1>2, <2>1, <2>2, <2>3
  <2>4. CASE k # 1
    <3>1. k \in 2..Len(events) /\ (k - 1) + 1 = k
      BY <2>4
    <3>2. k - 1 \in 1..Len(events') /\ events'[k - 1] = "GOT_IP"
      BY <1>3, <2>1, <3>1
    <3>3. OnlyStarts((k - 1) + 1)'
      BY <2>2, <3>1
    <3> QED
      BY <3>2, <3>3 DEF UpComes
  <2> QED
    BY <2>3, <2>4
<1>8. ASSUME OnlyStarts(1) PROVE e = "STA_START" /\ OnlyStarts(1)'
  BY <1>2, <1>8 DEF OnlyStarts
<1> QED
  BY <1>1, <1>2, <1>4, <1>5, <1>7, <1>8 DEF Handle

\* esp_wifi_connect leaves no driver idle, and an attempt it begins has not been
\* seen by wifi_tick.
LEMMA Connecting ==
    ASSUME IInv, Connect
    PROVE  /\ driver' # "idle"
           /\ driver' = "connecting" /\ ticked' => driver = "connecting" /\ ticked
           /\ driver' = "up" <=> driver = "up"
           /\ driver' = "stopped" <=> driver = "stopped"
BY DEF Connect, IInv, TypeOK

LEMMA AttemptHandled ==
    ASSUME IInv, AttemptInv, OnStart \/ OnDisconnected \/ OnGotIp
    PROVE  AttemptInv'
<1> USE DEF AttemptInv
<1>1. CASE OnStart
  <2>1. /\ Handle("STA_START") /\ Connect /\ UNCHANGED <<retry, bits, epc, loaded>>
    BY <1>1 DEF OnStart
  <2>2. epc = "wait" /\ Len(events') = Len(events) - 1 /\ Counted' = Counted /\ Hidden' = Hidden
    BY <2>1, Behind DEF Counted, Hidden
  <2>3. QueueBounded' /\ RetriesLeft'
    BY <2>1, <2>2, Connecting, Counts DEF QueueBounded, RetriesLeft
  <2>4. UpSeen'
    BY <2>1, <2>2, Connecting, Behind DEF UpSeen
  <2> QED
    BY <2>1, <2>3, <2>4, Connecting DEF IdleNoticed, NextAttempt
<1>2. CASE OnDisconnected
  <2>1. /\ Handle("STA_DISCONNECTED") /\ epc' = "retry"
        /\ UNCHANGED <<driver, ticked, retry, bits, loaded>>
    BY <1>2 DEF OnDisconnected, link
  <2>2. /\ epc = "wait" /\ Len(events') = Len(events) - 1 /\ events # <<>>
        /\ Counted' = retry + 1 /\ Counted = retry /\ Hidden' = Hidden
    BY <2>1, Behind DEF Counted, Hidden
  <2>3. driver = "idle" => StartWaits' \/ (events = Lost /\ events' = <<>>)
    BY <2>1, <2>2, Behind DEF IdleNoticed
  <2>4. QueueBounded'
    BY <2>1, <2>2, Counts DEF QueueBounded
  <2>5. RetriesLeft'
    <3>1. CASE driver = "connecting"
      BY <2>1, <2>2, <3>1, Counts DEF RetriesLeft
    <3>2. CASE driver = "idle"
      <4>1. Lost # <<>>
        BY DEF Lost
      <4> QED
        BY <2>1, <2>2, <2>3, <3>2, <4>1, StartExcludes DEF RetriesLeft
    <3> QED
      BY <2>1, <3>1, <3>2 DEF RetriesLeft
  <2>6. UpSeen'
    BY <2>1, <2>2, Behind DEF UpSeen
  <2> QED
    BY <2>1, <2>3, <2>4, <2>5, <2>6 DEF IdleNoticed, NextAttempt
<1>3. CASE OnGotIp
  <2>1. /\ Handle("GOT_IP") /\ epc' = "connected" /\ retry' = 0
        /\ UNCHANGED <<driver, ticked, bits, loaded>>
    BY <1>3 DEF OnGotIp, link
  <2>2. /\ epc = "wait" /\ Len(events') = Len(events) - 1 /\ events # <<>>
        /\ Counted' = 0 /\ Hidden' = Hidden
    BY <2>1, Behind DEF Counted, Hidden
  <2>3. driver = "idle" => StartWaits'
    BY <2>1, <2>2, Behind DEF IdleNoticed
  <2>4. QueueBounded'
    BY <2>1, <2>2, Counts DEF QueueBounded
  <2>5. RetriesLeft'
    <3>1. CASE driver = "connecting"
      BY <2>1, <2>2, <3>1, Counts DEF RetriesLeft
    <3> QED
      BY <2>1, <2>3, <3>1, StartExcludes DEF RetriesLeft
  <2>6. UpSeen'
    BY <2>1, <2>2, Behind DEF UpSeen
  <2> QED
    BY <2>1, <2>3, <2>4, <2>5, <2>6 DEF IdleNoticed, NextAttempt
<1> QED
  BY <1>1, <1>2, <1>3

LEMMA AttemptRetried ==
    ASSUME Patient, IInv, AttemptInv, Retry
    PROVE  AttemptInv'
<1> USE DEF AttemptInv
<1>1. epc = "retry" /\ UNCHANGED <<events, retry, since, mpc, loaded>>
  BY DEF Retry, main
<1>2. driver = "idle" => StartWaits \/ events = <<>>
  BY <1>1 DEF IdleNoticed
<1>3. driver = "up" => UpComes /\ UpComes'
  BY <1>1 DEF UpSeen, UpComes, OnlyStarts
<1>4. CASE retry < MaxRetry
  <2>1. Connect /\ epc' = "load" /\ bits' = bits
    BY <1>4 DEF Retry
  <2>2. Counted' = Counted /\ Hidden' = Hidden
    BY <1>1, <2>1 DEF Counted, Hidden
  <2> QED
    BY <1>1, <1>3, <2>1, <2>2, Connecting
       DEF QueueBounded, IdleNoticed, UpSeen, RetriesLeft, NextAttempt
<1>5. CASE ~(retry < MaxRetry)
  <2>1. /\ epc' = "wait" /\ bits' = bits \cup {"FAIL"} /\ UNCHANGED <<driver, ticked>>
    BY <1>5 DEF Retry, link
  <2>2. Counted' = retry /\ Counted = retry + 1 /\ Hidden' = Hidden
    BY <1>1, <2>1 DEF Counted, Hidden
  <2>3. driver = "idle" /\ events = <<>> => ~Hidden
    BY <1>1, <1>5, Counts DEF RetriesLeft, Patient
  <2>4. RetriesLeft'
    <3>1. CASE driver = "connecting"
      BY <1>1, <2>1, <2>2, <3>1, Counts DEF RetriesLeft
    <3>2. CASE driver = "idle"
      BY <1>1, <1>2, <2>1, <2>2, <2>3, <3>2, StartExcludes DEF RetriesLeft, Lost
    <3> QED
      BY <2>1, <3>1, <3>2 DEF RetriesLeft
  <2>5. QueueBounded' /\ NextAttempt'
    BY <1>1, <2>1 DEF QueueBounded, NextAttempt
  <2>6. IdleNoticed' /\ UpSeen'
    BY <1>1, <1>2, <1>3, <2>1 DEF IdleNoticed, UpSeen, StartWaits
  <2> QED
    BY <2>4, <2>5, <2>6
<1> QED
  BY <1>4, <1>5

LEMMA AttemptCounted ==
    ASSUME IInv, AttemptInv, LoadRetry \/ StoreRetry \/ SetConnected
    PROVE  AttemptInv'
<1> USE DEF AttemptInv
<1>1. UNCHANGED <<events, driver, ticked>> /\ epc \in {"load", "store", "connected"}
  BY DEF LoadRetry, StoreRetry, SetConnected, link
<1>2. driver = "idle" => StartWaits /\ StartWaits' /\ events # Lost /\ events # <<>>
  BY <1>1, StartExcludes DEF IdleNoticed, StartWaits
<1>3. QueueBounded' /\ IdleNoticed' /\ NextAttempt'
  BY <1>1, <1>2 DEF QueueBounded, IdleNoticed, NextAttempt
<1>4. CASE LoadRetry \/ StoreRetry
  <2>1. Counted' = Counted /\ Hidden' = Hidden /\ epc' # "connected" /\ epc # "connected"
    BY <1>4 DEF LoadRetry, StoreRetry, Counted, Hidden
  <2>2. UpSeen'
    BY <1>1, <1>4, <2>1 DEF UpSeen, UpComes, OnlyStarts, LoadRetry, StoreRetry
  <2>3. RetriesLeft'
    BY <1>1, <1>2, <2>1 DEF RetriesLeft
  <2> QED
    BY <1>3, <2>2, <2>3
<1>5. CASE SetConnected
  <2>1. epc = "connected" /\ epc' = "wait" /\ retry = 0 /\ retry' = 0 /\ Counted' = 0
    BY <1>5 DEF SetConnected, Counted, UpSeen
  <2>2. UpSeen'
    BY <1>1, <2>1 DEF UpSeen, UpComes, OnlyStarts
  <2>3. RetriesLeft'
    BY <1>1, <1>2, <2>1, Counts DEF RetriesLeft, QueueBounded
  <2> QED
    BY <1>3, <2>2, <2>3
<1> QED
  BY <1>4, <1>5

LEMMA AttemptTicked ==
    ASSUME IInv, AttemptInv, Tick
    PROVE  AttemptInv'
<1> USE DEF AttemptInv
<1>1. UNCHANGED <<events, epc, loaded>>
  BY DEF Tick, TickBits, TickConnect, TickRearm
<1>2. CASE TickBits
  <2>1. driver' = driver /\ retry' = retry /\ ~Hidden' /\ mpc = "sleep"
    BY <1>2 DEF TickBits, Hidden
  <2>2. driver = "idle" /\ events = <<>> /\ epc = "wait" => ~Hidden
    BY DEF RetriesLeft
  <2>3. NextAttempt'
    BY <1>1, <1>2, <2>1, <2>2 DEF NextAttempt, TickBits, Hidden
  <2>4. QueueBounded' /\ IdleNoticed' /\ UpSeen' /\ RetriesLeft'
    BY <1>1, <2>1 DEF QueueBounded, IdleNoticed, StartWaits, UpSeen, UpComes, OnlyStarts, RetriesLeft
  <2> QED
    BY <2>3, <2>4
<1>3. CASE TickConnect
  <2>1. Connect /\ retry' = retry /\ bits' = bits
    BY <1>3 DEF TickConnect
  <2>2. Counted' = Counted /\ Hidden' = Hidden
    BY <1>1, <2>1 DEF Counted, Hidden
  <2> QED
    BY <1>1, <2>1, <2>2, Connecting
       DEF QueueBounded, IdleNoticed, UpSeen, UpComes, OnlyStarts, RetriesLeft, NextAttempt
<1>4. CASE TickRearm
  <2>1. /\ retry' = 0 /\ bits' = bits /\ mpc = "rearm" /\ mpc' = "sleep"
        /\ UNCHANGED <<driver, ticked>>
    BY <1>4 DEF TickRearm, link
  <2>2. Counted' <= Counted /\ Counted' \in Nat /\ Hidden' = Hidden
    BY <1>1, <2>1, Counts DEF Counted, Hidden
  <2>3. RetriesLeft'
    BY <1>1, <2>1, <2>2, Counts DEF RetriesLeft
  <2>4. QueueBounded' /\ IdleNoticed' /\ UpSeen' /\ NextAttempt'
    BY <1>1, <2>1
       DEF QueueBounded, IdleNoticed, StartWaits, UpSeen, UpComes, OnlyStarts, NextAttempt
  <2> QED
    BY <2>3, <2>4
<1> QED
  BY <1>2, <1>3, <1>4 DEF Tick

LEMMA AttemptDriven ==
    ASSUME Patient, IInv, AttemptInv, Succeed \/ Disconnect \/ ConfigStop \/ ConfigStart
    PROVE  AttemptInv'
<1> USE DEF AttemptInv
<1>1. UNCHANGED <<ticked, retry, bits, since, mpc, epc, loaded>>
  BY DEF Succeed, Disconnect, ConfigStop, ConfigStart, main
<1>2. CASE Succeed
  <2>1. driver' = "up" /\ events' = Append(events, "GOT_IP") /\ "GOT_IP" \in Event
    BY <1>2 DEF Succeed, Event
  <2>2. UpComes'
    BY <2>1, Posted
  <2> QED
    BY <1>1, <2>1, <2>2
       DEF QueueBounded, IdleNoticed, UpSeen, RetriesLeft, NextAttempt
<1>3. CASE Disconnect
  <2>1. /\ driver \in {"connecting", "up"} /\ driver' = "idle"
        /\ ticked /\ events = <<>> /\ epc = "wait"
        /\ events' = Append(events, "STA_DISCONNECTED") /\ "STA_DISCONNECTED" \in Event
    BY <1>3 DEF Disconnect, Patient, Event
  <2>2. events' = Lost /\ events' # <<>> /\ Len(events') = 1
    BY <2>1 DEF Lost
  <2>3. Hidden => retry <= MaxEvents + 1
    <3>1. CASE driver = "connecting"
      <4>1. Len(events) = 0 /\ Counted = retry
        BY <2>1 DEF Counted
      <4> QED
        BY <2>1, <3>1, <4>1, Counts DEF RetriesLeft
    <3>2. CASE driver = "up"
      <4>1. ~UpComes
        BY <2>1 DEF UpComes
      <4> QED
        BY <3>2, <4>1, Counts DEF UpSeen
    <3> QED
      BY <2>1, <3>1, <3>2
  <2> QED
    BY <1>1, <2>1, <2>2, <2>3, Counts
       DEF QueueBounded, IdleNoticed, UpSeen, RetriesLeft, Hidden, NextAttempt
<1>4. CASE ConfigStop
  <2>1. driver' = "stopped" /\ Len(events) < MaxEvents
    BY <1>4 DEF ConfigStop
  <2>2. Len(events') <= Len(events) + 1
    <3>1. CASE driver \in {"connecting", "up"}
      <4>1. events' = Append(events, "STA_DISCONNECTED") /\ "STA_DISCONNECTED" \in Event
        BY <1>4, <3>1 DEF ConfigStop, Event
      <4> QED
        BY <4>1, Posted, Counts
    <3>2. CASE driver \notin {"connecting", "up"}
      BY <1>4, <3>2, Counts DEF ConfigStop
    <3> QED
      BY <3>1, <3>2
  <2>3. Len(events') \in Nat
    BY <1>4, Counts, Queued DEF ConfigStop, Event
  <2> QED
    BY <1>1, <2>1, <2>2, <2>3, Counts
       DEF QueueBounded, IdleNoticed, UpSeen, RetriesLeft, NextAttempt
<1>5. CASE ConfigStart
  <2>1. /\ driver = "stopped" /\ driver' = "idle"
        /\ events' = Append(events, "STA_START") /\ "STA_START" \in Event
    BY <1>5 DEF ConfigStart, IInv, LinkKnown, Event
  <2>2. StartWaits' /\ Len(events') = Len(events) + 1
    BY <2>1, Posted
  <2> QED
    BY <1>1, <2>1, <2>2, StartExcludes, Counts
       DEF QueueBounded, IdleNoticed, UpSeen, RetriesLeft, NextAttempt
<1> QED
  BY <1>2, <1>3, <1>4, <1>5

LEMMA AttemptStep == Patient /\ IInv /\ AttemptInv /\ [Next]_vars => AttemptInv'
<1> SUFFICES ASSUME Patient, IInv, AttemptInv, [Next]_vars PROVE AttemptInv'
  OBVIOUS
<1>1. CASE Move \/ Elapse \/ UNCHANGED vars
  <2>1. /\ UNCHANGED <<driver, ticked, events, retry, bits, epc, loaded, mpc>>
        /\ since # "never" => since' # "never"
    BY <1>1 DEF Move, Elapse, vars, link, main
  <2>2. Counted' = Counted /\ Hidden' = Hidden /\ StartWaits' = StartWaits /\ UpComes' = UpComes
        /\ OnlyStarts(1)' = OnlyStarts(1)
    BY <2>1 DEF Counted, Hidden, StartWaits, UpComes, OnlyStarts
  <2> QED
    BY <2>1, <2>2
       DEF AttemptInv, QueueBounded, IdleNoticed, UpSeen, RetriesLeft, NextAttempt
<1> QED
  BY <1>1, AttemptHandled, AttemptRetried, AttemptCounted, AttemptTicked, AttemptDriven
     DEF Next, EventTask

\* A station that gave up is always on its way to the next attempt, for any number
\* of queued events below that of the retries, when an attempt outlasts a period of
\* wifi_tick (wifi.c:61-67, 119-139).
THEOREM NeverForgotten == Patient /\ Spec => []NeverStranded
<1>1. IInv /\ AttemptInv => NeverStranded
  BY DEF AttemptInv, NextAttempt, NeverStranded, Handled
<1>2. Patient /\ IInv /\ AttemptInv /\ [Next]_vars => AttemptInv'
  BY AttemptStep
<1>3. CASE Patient
  <2>1. Init => AttemptInv
    BY InitAttempt
  <2>2. IInv /\ AttemptInv /\ [Next]_vars => AttemptInv'
    BY <1>2, <1>3
  <2>3. Spec => []NeverStranded
    BY <1>1, <2>1, <2>2, Invariant, PTL DEF Spec
  <2> QED
    BY <2>3
<1>4. CASE ~Patient
  BY <1>4
<1> QED
  BY <1>3, <1>4
=============================================================================
