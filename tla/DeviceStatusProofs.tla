-------------------------- MODULE DeviceStatusProofs --------------------------
(* Proofs about the LEDs, for every number of blinks and width of the counter. *)
EXTENDS DeviceStatus, TLAPS

\* Where the tick found no identification the status LED stays dark until it
\* starts one: the strengthening of StatusDark over the steps of the tick.
Dark ==
    pc \in {"sleep", "test", "beat"} /\ ~stopping /\ ~booting /\ identify = 0 => ~status

IInv == TypeOK /\ Dark

LEMMA ZeroCounts == 0 \in 0..(Width - 1) /\ 0 \in 0..3
  BY WidthAssumption

LEMMA InitIInv == Init => IInv
  BY ZeroCounts DEF Init, IInv, TypeOK, Dark

LEMMA NextIInv == IInv /\ [Next]_vars => IInv'
<1>. SUFFICES ASSUME IInv, [Next]_vars PROVE IInv'
  OBVIOUS
<1>. USE WidthAssumption DEF IInv, TypeOK, Dark, leds, tick
<1>1. CASE Wake
  BY <1>1 DEF Wake
<1>2. CASE Test
  BY <1>2 DEF Test
<1>3. CASE Beat
  <2>1. heartbeat' \in 0..3
    BY <1>3 DEF Beat
  <2>. QED BY <1>3, <2>1 DEF Beat
<1>4. CASE Blink
  BY <1>4 DEF Blink
<1>5. CASE Load
  BY <1>5 DEF Load
<1>6. CASE Store
  <2>1. (loaded + Width - 1) % Width \in 0..(Width - 1)
    OBVIOUS
  <2>. QED BY <1>6, <2>1 DEF Store
<1>7. CASE End
  <2>1. TypeOK'
    BY <1>7, ZeroCounts DEF End
  <2>2. ~status'
    BY <1>7 DEF End
  <2>. QED BY <2>1, <2>2
<1>8. CASE devstat_startIdentify
  BY <1>8 DEF devstat_startIdentify
<1>9. CASE StopCounters
  BY <1>9 DEF StopCounters
<1>10. CASE StopLeds
  BY <1>10 DEF StopLeds
<1>11. CASE LinkChanges
  BY <1>11 DEF LinkChanges
<1>12. CASE UNCHANGED vars
  BY <1>12 DEF vars
<1>. QED
  BY <1>1, <1>2, <1>3, <1>4, <1>5, <1>6, <1>7, <1>8, <1>9, <1>10, <1>11, <1>12
  DEF Next, devstat_tick, UsbIdentify, api_system_identify_handler

LEMMA IInvAlways == Spec => []IInv
  BY InitIInv, NextIInv, PTL DEF Spec

\* The counters stay in their width, however the tasks interleave
\* (device_status.c:29-110).
THEOREM TypeCorrect == Spec => []TypeOK
<1>1. IInv => TypeOK
  BY DEF IInv
<1>. QED BY <1>1, IInvAlways, PTL

\* Between two ticks the status LED is dark when no identification is under way,
\* for any number of starts and stops (device_status.c:92-97, 105-110).
THEOREM StatusIsDark == Spec => []StatusDark
<1>1. IInv => StatusDark
  BY DEF IInv, Dark, StatusDark, AtRest
<1>. QED BY <1>1, IInvAlways, PTL
=============================================================================
