--------------------------- MODULE WebSessionsProofs ---------------------------
(* Proofs about the web server's sessions: whatever clients connect, send and
   close, for every number of clients, each session keeps one slot, a message is
   never continued by a stranger, and the drivers are used under a claim that an
   open session answers for.                                                   *)
EXTENDS WebSessions, FiniteSetTheorems, TLAPS

\* The relation < on numbers, as the library's theorem has it.
LEMMA LessIsWellFounded ==
    IsWellFoundedOn({p \in Nat \X Nat : p[1] < p[2]}, Nat)
BY NatLessThanWellFounded DEF OpToRel

\* wss_get_client_connection_info finds the slot of a descriptor that has one.
LEMMA SlotFound ==
    ASSUME NEW fd, Slots(fd) # {}
    PROVE  SlotOf(fd) \in Slot /\ sockfd[SlotOf(fd)] = fd
<1>1. Slots(fd) \subseteq Nat
  BY ClientsAssumption DEF Slots, Slot
<1> DEFINE less == {p \in Nat \X Nat : p[1] < p[2]}
<1>2. IsWellFoundedOn(less, Nat)
  BY LessIsWellFounded
<1> HIDE DEF less
<1>3. PICK i \in Slots(fd) : \A j \in Slots(fd) : ~(<<j, i>> \in less)
  BY <1>1, <1>2, WFMin
<1>4. ASSUME NEW j \in Slots(fd) PROVE i <= j
  <2>1. i \in Nat /\ j \in Nat
    BY <1>1
  <2>2. j < i => <<j, i>> \in less
    BY <2>1 DEF less
  <2> QED
    BY <1>3, <2>1, <2>2
<1>5. SlotOf(fd) \in Slots(fd)
  BY <1>3, <1>4 DEF SlotOf
<1> QED
  BY <1>5 DEF Slots
-----------------------------------------------------------------------------
(* The inductive invariant *)

\* No descriptor is in two slots.
Distinct == \A i, j \in Slot : sockfd[i] = sockfd[j] /\ sockfd[i] # Free => i = j

\* While the server runs, the slots hold the open sessions, except the one that
\* is being closed and has given up its slot.
Tracked == IF pc = "close_bus" THEN sessions \ {cur} ELSE sessions
Tracking ==
    running =>
        /\ \A s \in Tracked : Slots(s) # {}
        /\ \A i \in Slot : sockfd[i] \in Tracked \cup {Free}

\* The httpd task works for an open session, on a command only for one with a slot.
Working ==
    /\ pc # "select" => running /\ cur \in sessions
    /\ pc \notin {"select", "close_slot", "close_bus"} => Slots(cur) # {}
    /\ ~running => sessions = {} /\ ~stopping

\* A claim has somebody to give it back.
Claimed ==
    /\ UsedUnderWebClaim
    /\ bus = "web_app" => taker \in sessions
    /\ bus = "web_btl" => pc \in {"btl_action", "btl_done"}

IInv == TypeOK /\ Distinct /\ Tracking /\ Working /\ OwnFragments /\ Claimed

LEMMA Sessions ==
    ASSUME TypeOK
    PROVE  IsFiniteSet(sessions) /\ Cardinality(sessions) \in Nat
BY SocketAssumption, FS_Subset, FS_CardinalityType DEF TypeOK

LEMMA InitIInv == Init => IInv
<1>1. IsFiniteSet({}) /\ Cardinality({}) = 0 /\ 0 <= MaxClients
  BY FS_EmptySet, ClientsAssumption
<1> QED
  BY <1>1, SocketAssumption DEF Init, IInv, TypeOK, HttpdStep, Distinct, Tracking, Tracked,
         Working, OwnFragments, Claimed, UsedUnderWebClaim

\* httpd opens no more sockets than there are slots: a slot is left for another.
LEMMA SlotLeft ==
    ASSUME IInv, running, pc = "select", Cardinality(sessions) < MaxClients
    PROVE  Slots(Free) # {}
<1> SUFFICES ASSUME Slots(Free) = {} PROVE FALSE
  OBVIOUS
<1>1. sockfd \in [Slot -> sessions]
  BY DEF IInv, TypeOK, Tracking, Tracked, Slots
<1>2. IsFiniteSet(Slot) /\ Cardinality(Slot) = MaxClients
  BY ClientsAssumption, FS_Interval DEF Slot
<1>3. IsFiniteSet(sessions)
  BY Sessions DEF IInv
<1>4. PICK i \in Slot, j \in Slot : i # j /\ sockfd[i] = sockfd[j]
  BY <1>1, <1>2, <1>3, FS_PigeonHole
<1>5. sockfd[i] # Free
  BY <1>1, SocketAssumption DEF IInv, TypeOK
<1> QED
  BY <1>4, <1>5 DEF IInv, Distinct
-----------------------------------------------------------------------------
(* Starting and stopping *)

LEMMA ServerStep ==
    ASSUME IInv, Start \/ Stop \/ Stopped
    PROVE  IInv'
<1> USE DEF IInv, TypeOK, Distinct, Tracking, Tracked, Working, OwnFragments, Claimed,
            UsedUnderWebClaim, Slots, httpd, claim, clients
<1>1. CASE Start
  BY <1>1 DEF Start
<1>2. CASE Stop
  BY <1>2 DEF Stop
<1>3. CASE Stopped
  BY <1>3 DEF Stopped
<1> QED
  BY <1>1, <1>2, <1>3
-----------------------------------------------------------------------------
(* Sessions *)

LEMMA AcceptStep ==
    ASSUME IInv, NEW s \in Socket, Accept(s)
    PROVE  IInv'
<1> DEFINE k == SlotOf(Free)
<1>1. /\ running /\ pc = "select" /\ s \notin sessions
      /\ Cardinality(sessions) < MaxClients
      /\ sessions' = sessions \cup {s}
      /\ UNCHANGED <<running, stopping, spoken, pc, cur, bus, taker>>
  BY DEF Accept, Serving, server, httpd, claim
<1>2. Slots(Free) # {}
  BY <1>1, SlotLeft
<1>3. k \in Slot /\ sockfd[k] = Free
  BY <1>2, SlotFound
<1>4. /\ sockfd' = [sockfd EXCEPT ![k] = s]
      /\ message' = [message EXCEPT ![k] = FALSE]
  BY <1>2 DEF Accept
<1> HIDE DEF k
<1>5. TypeOK'
  <2>1. Cardinality(sessions') = Cardinality(sessions) + 1
    BY <1>1, Sessions, FS_AddElement DEF IInv
  <2>2. Cardinality(sessions') <= MaxClients
    BY <1>1, <2>1, Sessions, ClientsAssumption DEF IInv
  <2> QED
    BY <1>1, <1>3, <1>4, <2>2 DEF IInv, TypeOK
<1>6. \A i \in Slot : sockfd'[i] = (IF i = k THEN s ELSE sockfd[i])
                      /\ message'[i] = (IF i = k THEN FALSE ELSE message[i])
  BY <1>3, <1>4 DEF IInv, TypeOK
<1>7. \A i \in Slot : sockfd[i] \in sessions \cup {Free}
  BY <1>1 DEF IInv, Tracking, Tracked
<1>8. Distinct'
  BY <1>1, <1>6, <1>7 DEF IInv, Distinct
<1>9. Tracking'
  <2>1. Tracked' = sessions \cup {s}
    BY <1>1 DEF Tracked
  <2>2. ASSUME NEW t \in sessions \cup {s} PROVE \E i \in Slot : sockfd'[i] = t
    <3>1. CASE t = s
      BY <1>3, <1>6, <3>1
    <3>2. CASE t \in sessions
      <4>1. PICK i \in Slot : sockfd[i] = t
        BY <1>1, <3>2 DEF IInv, Tracking, Tracked, Slots
      <4>2. t # Free
        BY <3>2, SocketAssumption DEF IInv, TypeOK
      <4> QED
        BY <1>3, <1>6, <4>1, <4>2
    <3> QED
      BY <3>1, <3>2
  <2> QED
    BY <1>6, <1>7, <2>1, <2>2 DEF Tracking, Slots
<1>10. Working'
  BY <1>1 DEF IInv, Working
<1>11. OwnFragments'
  BY <1>1, <1>6 DEF IInv, OwnFragments
<1>12. Claimed'
  BY <1>1 DEF IInv, Claimed, UsedUnderWebClaim
<1> QED
  BY <1>5, <1>8, <1>9, <1>10, <1>11, <1>12 DEF IInv

LEMMA ClosingStep ==
    ASSUME IInv, NEW s \in Socket, Closing(s)
    PROVE  IInv'
BY DEF Closing, IInv, TypeOK, HttpdStep, Distinct, Tracking, Tracked, Working, OwnFragments,
       Claimed, UsedUnderWebClaim, Slots, server, clients, claim

LEMMA CloseSlotStep ==
    ASSUME IInv, CloseSlot
    PROVE  IInv'
<1> DEFINE k == SlotOf(cur)
<1>1. /\ pc = "close_slot" /\ pc' = "close_bus" /\ running /\ cur \in sessions
      /\ spoken' = spoken \ {cur}
      /\ UNCHANGED <<running, stopping, sessions, cur, bus, taker>>
  BY DEF CloseSlot, Goto, server, claim, IInv, Working
<1>2. Slots(cur) # {} /\ cur \in Socket /\ cur # Free
  BY <1>1, SocketAssumption DEF IInv, TypeOK, Tracking, Tracked
<1>3. k \in Slot /\ sockfd[k] = cur
  BY <1>2, SlotFound
<1>4. /\ sockfd' = [sockfd EXCEPT ![k] = Free]
      /\ message' = [message EXCEPT ![k] = FALSE]
  BY <1>2 DEF CloseSlot
<1> HIDE DEF k
<1>5. \A i \in Slot : sockfd'[i] = (IF i = k THEN Free ELSE sockfd[i])
                      /\ message'[i] = (IF i = k THEN FALSE ELSE message[i])
  BY <1>3, <1>4 DEF IInv, TypeOK
<1>6. \A i \in Slot : sockfd[i] = cur => i = k
  BY <1>2, <1>3 DEF IInv, Distinct
<1>7. TypeOK'
  BY <1>1, <1>3, <1>4 DEF IInv, TypeOK, HttpdStep
<1>8. Distinct'
  BY <1>5 DEF IInv, Distinct
<1>9. Tracking'
  <2>1. Tracked = sessions /\ Tracked' = sessions \ {cur}
    BY <1>1 DEF Tracked
  <2>2. \A t \in sessions \ {cur} : \E i \in Slot : sockfd'[i] = t
    BY <1>1, <1>3, <1>5, <2>1 DEF IInv, Tracking, Slots
  <2>3. \A i \in Slot : sockfd'[i] \in (sessions \ {cur}) \cup {Free}
    BY <1>1, <1>5, <1>6, <2>1 DEF IInv, Tracking
  <2> QED
    BY <2>1, <2>2, <2>3 DEF Tracking, Slots
<1>10. Working'
  BY <1>1 DEF IInv, Working
<1>11. OwnFragments'
  BY <1>1, <1>5, <1>6 DEF IInv, OwnFragments
<1>12. Claimed'
  BY <1>1 DEF IInv, Claimed, UsedUnderWebClaim
<1> QED
  BY <1>7, <1>8, <1>9, <1>10, <1>11, <1>12 DEF IInv

LEMMA CloseReleaseStep ==
    ASSUME IInv, CloseRelease
    PROVE  IInv'
<1>1. /\ pc = "close_bus" /\ pc' = "select" /\ cur' = Free /\ sessions' = sessions \ {cur}
      /\ IF bus = "web_app" THEN bus' = "free" /\ taker' = Free
                            ELSE UNCHANGED <<bus, taker>>
      /\ UNCHANGED <<running, stopping, sockfd, message, spoken>>
  BY DEF CloseRelease, ReleaseLin, server, clients, claim
<1>2. TypeOK'
  <2>1. IsFiniteSet(sessions) /\ Cardinality(sessions) <= MaxClients
    BY Sessions DEF IInv, TypeOK
  <2>2. Cardinality(sessions') <= Cardinality(sessions) /\ IsFiniteSet(sessions')
    BY <1>1, <2>1, FS_Subset
  <2>3. Cardinality(sessions') <= MaxClients
    BY <2>1, <2>2, FS_CardinalityType, ClientsAssumption
  <2> QED
    BY <1>1, <2>3 DEF IInv, TypeOK, HttpdStep
<1>3. Tracking'
  BY <1>1 DEF IInv, Tracking, Tracked, Slots
<1>4. Distinct' /\ Working' /\ OwnFragments' /\ Claimed'
  BY <1>1 DEF IInv, Distinct, Working, OwnFragments, Claimed, UsedUnderWebClaim
<1> QED
  BY <1>2, <1>3, <1>4 DEF IInv
-----------------------------------------------------------------------------
(* Frames and commands *)

LEMMA FrameStep ==
    ASSUME IInv, NEW s \in Socket,
           Fragment(s) \/ \E endpoint \in DOMAIN FirstStep : Command(s, endpoint)
    PROVE  IInv'
<1>1. /\ running /\ pc = "select" /\ s \in sessions
      /\ spoken' = spoken \cup {s}
      /\ UNCHANGED <<running, stopping, sessions, sockfd, bus, taker>>
  BY DEF Fragment, Command, FrameFor, Serving, server, claim
<1>2. Slots(s) # {}
  BY <1>1 DEF IInv, Tracking, Tracked
<1>3. SlotOf(s) \in Slot /\ sockfd[SlotOf(s)] = s
  BY <1>2, SlotFound
<1>4. PICK content \in BOOLEAN : message' = [message EXCEPT ![SlotOf(s)] = content]
  BY <1>2 DEF Fragment, Command, Buffers
<1>5. \/ UNCHANGED <<pc, cur>>
      \/ cur' = s /\ pc' \in {"lin_claim", "btl_release", "respond"}
  BY <1>2 DEF Fragment, Command, httpd, FirstStep
<1>6. \A i \in Slot : message'[i] => message[i] \/ sockfd[i] = s
  BY <1>3, <1>4 DEF IInv, TypeOK
<1>7. TypeOK'
  BY <1>1, <1>4, <1>5 DEF IInv, TypeOK, HttpdStep
<1>8. Distinct' /\ Tracking' /\ Working'
  BY <1>1, <1>2, <1>5 DEF IInv, Distinct, Tracking, Tracked, Working, Slots
<1>9. OwnFragments'
  BY <1>1, <1>6 DEF IInv, OwnFragments
<1>10. Claimed'
  BY <1>1, <1>5 DEF IInv, Claimed, UsedUnderWebClaim
<1> QED
  BY <1>7, <1>8, <1>9, <1>10 DEF IInv

\* A restart takes the server back to where it began.
LEMMA FaultStep ==
    ASSUME IInv, NEW s \in Socket, FrameFault(s)
    PROVE  IInv'
<1>1. IsFiniteSet({}) /\ Cardinality({}) = 0 /\ 0 <= MaxClients
  BY FS_EmptySet, ClientsAssumption
<1>2. /\ running' = FALSE /\ stopping' = FALSE /\ sessions' = {} /\ spoken' = {}
      /\ sockfd' = [i \in Slot |-> Free] /\ message' = [i \in Slot |-> FALSE]
      /\ pc' = "select" /\ cur' = Free /\ bus' = "free" /\ taker' = Free
  BY DEF FrameFault
<1>3. TypeOK'
  BY <1>1, <1>2 DEF TypeOK, HttpdStep
<1>4. Distinct' /\ OwnFragments'
  BY <1>2 DEF Distinct, OwnFragments
<1>5. Tracking' /\ Working' /\ Claimed'
  BY <1>2 DEF Tracking, Working, Claimed, UsedUnderWebClaim
<1> QED
  BY <1>3, <1>4, <1>5 DEF IInv

LEMMA RespondStep ==
    ASSUME IInv, Respond
    PROVE  IInv'
<1>1. /\ pc = "respond" /\ pc' = "select" /\ cur' = Free
      /\ message' = [message EXCEPT ![SlotOf(cur)] = FALSE]
      /\ UNCHANGED <<running, stopping, sessions, sockfd, spoken, bus, taker>>
  BY DEF Respond, server, claim
<1>2. SlotOf(cur) \in Slot
  BY <1>1, SlotFound DEF IInv, Working
<1>3. \A i \in Slot : message'[i] => message[i]
  BY <1>1, <1>2 DEF IInv, TypeOK
<1>4. TypeOK' /\ Distinct' /\ Tracking' /\ Working'
  BY <1>1 DEF IInv, TypeOK, HttpdStep, Distinct, Tracking, Tracked, Working, Slots
<1>5. OwnFragments' /\ Claimed'
  BY <1>1, <1>3 DEF IInv, OwnFragments, Claimed, UsedUnderWebClaim
<1> QED
  BY <1>4, <1>5 DEF IInv

\* The steps on the bus leave the sessions and the slots alone.
LEMMA BusStep ==
    ASSUME IInv, \/ LinClaim \/ LinRefused \/ LinAction \/ BtlRelease \/ BtlClaim \/ BtlRefused
                 \/ BtlAction \/ BtlDone \/ UsbClaim \/ UsbRelease
    PROVE  IInv'
<1> USE DEF LinClaim, LinRefused, LinAction, BtlRelease, BtlClaim, BtlRefused, BtlAction, BtlDone,
            UsbClaim, UsbRelease, ReleaseLin, Goto, httpd, claim
<1>1. /\ UNCHANGED <<running, stopping, sessions, sockfd, message, spoken, cur>>
      /\ UNCHANGED pc \/ (pc \notin {"select", "close_slot", "close_bus"} /\
                          pc' \notin {"select", "close_slot", "close_bus"})
  BY DEF server, clients
<1>2. pc' \in HttpdStep
  BY DEF IInv, TypeOK, HttpdStep
<1>3. TypeOK'
  BY <1>1, <1>2 DEF IInv, TypeOK
<1>4. Distinct' /\ Tracking' /\ Working' /\ OwnFragments'
  <2> HIDE DEF LinClaim, LinRefused, LinAction, BtlRelease, BtlClaim, BtlRefused, BtlAction,
               BtlDone, UsbClaim, UsbRelease
  <2> QED
    BY <1>1 DEF IInv, Distinct, Tracking, Tracked, Working, OwnFragments, Slots
<1>5. Claimed'
  BY <1>1 DEF IInv, Claimed, UsedUnderWebClaim, Working, TypeOK
<1> QED
  BY <1>3, <1>4, <1>5 DEF IInv

LEMMA IInvStep == IInv /\ [Next]_vars => IInv'
<1> SUFFICES ASSUME IInv, [Next]_vars PROVE IInv'
  OBVIOUS
<1>1. CASE Start \/ Stop \/ Stopped
  BY <1>1, ServerStep
<1>2. ASSUME NEW s \in Socket, Accept(s) \/ Closing(s) PROVE IInv'
  BY <1>2, AcceptStep, ClosingStep
<1>3. ASSUME NEW s \in Socket,
             \/ Fragment(s) \/ FrameFault(s)
             \/ \E endpoint \in DOMAIN FirstStep : Command(s, endpoint)
      PROVE  IInv'
  BY <1>3, FrameStep, FaultStep
<1>4. CASE Handling \/ UsbClaim \/ UsbRelease
  BY <1>4, CloseSlotStep, CloseReleaseStep, RespondStep, BusStep DEF Handling
<1>5. CASE UNCHANGED vars
  BY <1>5 DEF vars, server, clients, httpd, claim, IInv, TypeOK, Distinct, Tracking, Tracked,
              Working, OwnFragments, Claimed, UsedUnderWebClaim, Slots
<1> QED
  BY <1>1, <1>2, <1>3, <1>4, <1>5 DEF Next

LEMMA Invariant == Spec => []IInv
BY InitIInv, IInvStep, PTL DEF Spec
-----------------------------------------------------------------------------
(* The theorems *)

\* The server's variables keep their types, and httpd never has more sessions open
\* than the array has slots (webserver.c:57, urihandlers_wss.c:441-456).
THEOREM TypeCorrect == Spec => []TypeOK
<1>1. IInv => TypeOK
  BY DEF IInv
<1> QED
  BY <1>1, Invariant, PTL

\* Between two events every open session has exactly one slot and no slot is lost,
\* for any number of slots and any order of connections and disconnections
\* (webserver.c:57, urihandlers_wss.c:525-537, 556-567).
THEOREM SessionsAreTracked == Spec => []SessionsTracked
<1>1. ASSUME IInv, pc = "select", running, NEW s \in sessions
      PROVE  Cardinality(Slots(s)) = 1
  <2>1. s # Free /\ Tracked = sessions
    BY <1>1, SocketAssumption DEF IInv, TypeOK, Tracked
  <2>2. PICK i \in Slot : sockfd[i] = s
    BY <1>1, <2>1 DEF IInv, Tracking, Slots
  <2>3. \A j \in Slot : sockfd[j] = s => j = i
    BY <1>1, <2>1, <2>2 DEF IInv, Distinct
  <2>4. Slots(s) = {i}
    BY <2>2, <2>3 DEF Slots
  <2> QED
    BY <2>4, FS_Singleton
<1>2. IInv => SessionsTracked
  BY <1>1 DEF IInv, SessionsTracked, Tracking, Tracked
<1> QED
  BY <1>2, Invariant, PTL

\* What a slot buffers was sent by the connection that has the slot now, although slots
\* and descriptors are used again and continuation frames come with and without a
\* message to continue (urihandlers_wss.c:441-462, 531-533, 561-567).
THEOREM FragmentsStayOwn == Spec => []OwnFragments
<1>1. IInv => OwnFragments
  BY DEF IInv
<1> QED
  BY <1>1, Invariant, PTL

\* The web server uses the drivers under its claim, whatever connections close and
\* the USB tasks claim meanwhile (urihandlers_wss.c:111-118, 137-197, 242-286).
THEOREM WebUsesUnderClaim == Spec => []UsedUnderWebClaim
<1>1. IInv => UsedUnderWebClaim
  BY DEF IInv, Claimed
<1> QED
  BY <1>1, Invariant, PTL

\* No claim of the web server outlives the session that took it, so a lost client
\* cannot keep the bus from the others (urihandlers_wss.c:301, 573).
THEOREM ClaimsHaveSessions == Spec => []ClaimHasSession
<1>1. IInv => ClaimHasSession
  BY DEF IInv, Claimed, ClaimHasSession
<1> QED
  BY <1>1, Invariant, PTL
=============================================================================
