----------------------------- MODULE DeviceStatus -----------------------------
(* The LEDs (device_status/device_status.c).  devstat_tick runs in app_main's
   loop, devstat_startIdentify in the httpd task (REST) and the tinyusb task
   (USB), devstat_stopIdentify in the tinyusb task and inside the tick.  They
   share identify_cnt, heartbeat_cnt and the LEDs without a lock.             *)
EXTENDS Integers

CONSTANTS Blinks,   \* ticks of an identification: 20
          Width,    \* identify_cnt counts modulo this: 256
          MayStop   \* whether a USB host stops identifications

ASSUME WidthAssumption == Width \in Nat /\ Blinks \in 1..(Width - 1)
ASSUME StopAssumption == MayStop \in BOOLEAN

VARIABLES booting,    \* booting
          identify,   \* identify_cnt
          heartbeat,  \* heartbeat_cnt
          green,      \* the heartbeat LED is lit
          status,     \* the status LED is lit
          linkUp,     \* wifi_link_up()
          pc,         \* where devstat_tick is
          loaded,     \* identify_cnt as the tick read it last
          stopping    \* the tinyusb task is inside devstat_stopIdentify

leds == <<green, status>>
tick == <<pc, loaded>>
vars == <<booting, identify, heartbeat, leds, linkUp, tick, stopping>>

TypeOK ==
    /\ booting \in BOOLEAN
    /\ identify \in 0..(Width - 1)
    /\ heartbeat \in 0..3
    /\ green \in BOOLEAN
    /\ status \in BOOLEAN
    /\ linkUp \in BOOLEAN
    /\ pc \in {"sleep", "test", "beat", "blink", "load", "store", "stop"}
    /\ loaded \in 0..(Width - 1)
    /\ stopping \in BOOLEAN

\* devstat_init lights both LEDs.
Init ==
    /\ booting = TRUE
    /\ identify = 0
    /\ heartbeat = 0
    /\ green = TRUE
    /\ status = TRUE
    /\ linkUp = FALSE
    /\ pc = "sleep"
    /\ loaded = 0
    /\ stopping = FALSE
-----------------------------------------------------------------------------
(* devstat_tick, in app_main's loop *)

Wake ==
    /\ pc = "sleep"
    /\ booting' = FALSE
    /\ IF booting THEN green' = FALSE /\ status' = FALSE ELSE UNCHANGED leds
    /\ pc' = "test"
    /\ UNCHANGED <<identify, heartbeat, linkUp, loaded, stopping>>

\* One load serves the test and the choice of the LED.
Test ==
    /\ pc = "test"
    /\ loaded' = identify
    /\ pc' = IF identify = 0 THEN "beat" ELSE "blink"
    /\ UNCHANGED <<booting, identify, heartbeat, leds, linkUp, stopping>>

Beat ==
    /\ pc = "beat"
    /\ green' = (heartbeat = 0 \/ (heartbeat # 1 /\ green))
    /\ heartbeat' = (heartbeat + 1) % (IF linkUp THEN 4 ELSE 2)
    /\ pc' = "sleep"
    /\ UNCHANGED <<booting, identify, status, linkUp, loaded, stopping>>

Blink ==
    /\ pc = "blink"
    /\ green' = (loaded % 2 = 1)
    /\ status' = (loaded % 2 = 0)
    /\ pc' = "load"
    /\ UNCHANGED <<booting, identify, heartbeat, linkUp, loaded, stopping>>

\* identify_cnt-- reads it again after the calls that switched the LEDs ...
Load ==
    /\ pc = "load"
    /\ loaded' = identify
    /\ pc' = "store"
    /\ UNCHANGED <<booting, identify, heartbeat, leds, linkUp, stopping>>

\* Mutant of Store: the counter sticks at one.
StoreSticks ==
    /\ pc = "store"
    /\ identify' = IF loaded = 1 THEN 1 ELSE (loaded + Width - 1) % Width
    /\ pc' = IF identify' = 0 THEN "stop" ELSE "sleep"
    /\ UNCHANGED <<booting, heartbeat, leds, linkUp, loaded, stopping>>

\* ... and writes it back, eight bits wide.
Store ==
    /\ pc = "store"
    /\ identify' = (loaded + Width - 1) % Width
    /\ pc' = IF identify' = 0 THEN "stop" ELSE "sleep"
    /\ UNCHANGED <<booting, heartbeat, leds, linkUp, loaded, stopping>>

\* The identification is over: devstat_stopIdentify in the main task.
End ==
    /\ pc = "stop"
    /\ identify' = 0
    /\ heartbeat' = 0
    /\ green' = FALSE
    /\ status' = FALSE
    /\ pc' = "sleep"
    /\ UNCHANGED <<booting, linkUp, loaded, stopping>>
-----------------------------------------------------------------------------
(* The other tasks *)

devstat_startIdentify ==
    /\ identify' = Blinks
    /\ UNCHANGED <<booting, heartbeat, leds, linkUp, tick, stopping>>

\* devstat_stopIdentify in the tinyusb task resets the counters ...
StopCounters ==
    /\ MayStop
    /\ identify' = 0
    /\ heartbeat' = 0
    /\ stopping' = TRUE
    /\ UNCHANGED <<booting, leds, linkUp, tick>>

\* Mutant of StopLeds: only the heartbeat LED is reset.
StopKeepsStatus ==
    /\ stopping
    /\ green' = FALSE
    /\ stopping' = FALSE
    /\ UNCHANGED <<booting, identify, heartbeat, status, linkUp, tick>>

\* ... and then the LEDs.
StopLeds ==
    /\ stopping
    /\ green' = FALSE
    /\ status' = FALSE
    /\ stopping' = FALSE
    /\ UNCHANGED <<booting, identify, heartbeat, linkUp, tick>>

\* A USB request starts or stops; the tinyusb task handles one at a time.
UsbIdentify ==
    /\ ~stopping
    /\ devstat_startIdentify \/ StopCounters

\* A REST request starts, once it could be answered.
api_system_identify_handler == devstat_startIdentify

LinkChanges ==
    /\ linkUp' = ~linkUp
    /\ UNCHANGED <<booting, identify, heartbeat, leds, tick, stopping>>
-----------------------------------------------------------------------------
devstat_tick == Wake \/ Test \/ Beat \/ Blink \/ Load \/ Store \/ End

Next ==
    \/ devstat_tick
    \/ UsbIdentify \/ StopLeds \/ api_system_identify_handler
    \/ LinkChanges

\* app_main's loop runs for ever, and a stop that began ends.
Spec == Init /\ [][Next]_vars /\ WF_vars(devstat_tick) /\ WF_vars(StopLeds)
-----------------------------------------------------------------------------
(* Properties *)

AtRest == pc = "sleep" /\ ~stopping /\ ~booting

\* Between two ticks the status LED is dark when no identification is under
\* way, whenever the USB host stopped it (device_status.c:92-97, 105-110).
StatusDark == AtRest /\ identify = 0 => ~status

\* Once nobody starts or stops identifications the heartbeat comes back for good,
\* however the last requests and the tick interleaved (device_status.c:66-97).
HeartbeatReturns ==
    <>[][devstat_tick \/ StopLeds \/ LinkChanges]_vars => <>[](identify = 0)
=============================================================================
