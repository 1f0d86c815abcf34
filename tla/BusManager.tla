------------------------------ MODULE BusManager ------------------------------
(* firmware/bus_manager/bus_manager.c, one step per access to shared state.
   Nothing locks bus_user and bus_mode: the tasks that call the manager (httpd,
   tinyusb, usb_vendor_bulk_task) run on two cores and interleave freely.     *)
CONSTANTS Task,           \* the tasks that call the bus manager
          ClaimsOf,       \* ClaimsOf[t]: the requests t passes to ClaimInterface
          ReleasesOf,     \* ReleasesOf[t]: those it passes to ReleaseInterface
          EnableMayFail   \* whether a driver's enable function can fail

User == {"WIFI", "USB_VENDOR"}
Driver == {"BOOTLOADER", "APPLICATION"}      \* modes that power and start a driver
Mode == Driver \cup {"OTA"}
Request == [user : User, mode : Mode]
NoRequest == [user |-> "UNKNOWN", mode |-> "UNKNOWN"]

ASSUME CallsAssumption ==
    /\ ClaimsOf \in [Task -> SUBSET Request]
    /\ ReleasesOf \in [Task -> SUBSET Request]
ASSUME FailAssumption == EnableMayFail \in BOOLEAN

VARIABLES busUser,      \* bus_user
          busMode,      \* bus_mode
          vout,         \* level of CONFIG_BUS_VOLTAGE_VOUT_CTRL
          enabled,      \* modes whose driver is enabled
          initialised,  \* busmngr_Init has run
          pc,           \* where task t is in the manager, "idle" outside of it
          req,          \* the arguments of its call
          picked,       \* the mode its release switches on
          granted       \* whether its last call returned ESP_OK

record == <<busUser, busMode>>
hardware == <<vout, enabled>>
vars == <<busUser, busMode, vout, enabled, initialised, pc, req, picked, granted>>

ClaimStep == {"claim_user", "claim_mode", "claim_free", "power_up", "enable",
              "write_user", "write_mode"}
ReleaseStep == {"release_user", "release_mode", "switch", "power_down",
                "disable", "clear_mode"}

TypeOK ==
    /\ busUser \in User \cup {"UNKNOWN"}
    /\ busMode \in Mode \cup {"UNKNOWN"}
    /\ vout \in BOOLEAN
    /\ enabled \in SUBSET Driver
    /\ initialised \in BOOLEAN
    /\ pc \in [Task -> {"idle"} \cup ClaimStep \cup ReleaseStep]
    /\ req \in [Task -> Request \cup {NoRequest}]
    /\ picked \in [Task -> Mode \cup {"UNKNOWN"}]
    /\ granted \in [Task -> BOOLEAN]
    /\ \A t \in Task : pc[t] # "idle" => req[t] \in Request

Init ==
    /\ busUser = "UNKNOWN"
    /\ busMode = "UNKNOWN"
    /\ vout = FALSE
    /\ enabled = {}
    /\ initialised = FALSE
    /\ pc = [t \in Task |-> "idle"]
    /\ req = [t \in Task |-> NoRequest]
    /\ picked = [t \in Task |-> "UNKNOWN"]
    /\ granted = [t \in Task |-> FALSE]

\* app_main runs busmngr_Init after the USB stack and the network are up.
busmngr_Init ==
    /\ ~initialised
    /\ initialised' = TRUE
    /\ vout' = FALSE
    /\ UNCHANGED <<record, enabled, pc, req, picked, granted>>

Goto(t, l) == pc' = [pc EXCEPT ![t] = l] /\ UNCHANGED <<initialised, req, granted>>

Return(t, ok) ==
    /\ pc' = [pc EXCEPT ![t] = "idle"]
    /\ req' = [req EXCEPT ![t] = NoRequest]
    /\ granted' = [granted EXCEPT ![t] = ok]
    /\ UNCHANGED initialised

Enter(t, requests, l) ==
    /\ pc[t] = "idle"
    /\ \E r \in requests : req' = [req EXCEPT ![t] = r]
    /\ pc' = [pc EXCEPT ![t] = l]
    /\ UNCHANGED <<record, hardware, initialised, picked, granted>>
-----------------------------------------------------------------------------
(* busmngr_ClaimInterface *)

CallClaim(t) == Enter(t, ClaimsOf[t], "claim_user")

\* busmngr_CheckClaim reads bus_user, and bus_mode only when the user matches.
ClaimTestUser(t) ==
    /\ pc[t] = "claim_user"
    /\ Goto(t, IF busUser = req[t].user THEN "claim_mode" ELSE "claim_free")
    /\ UNCHANGED <<record, hardware, picked>>

ClaimTestMode(t) ==
    /\ pc[t] = "claim_mode"
    /\ IF busMode = req[t].mode THEN Return(t, TRUE) ELSE Goto(t, "claim_free")
    /\ UNCHANGED <<record, hardware, picked>>

\* Faulty variants, one before the action each stands in for, show that the
\* properties below notice the bug they are about.
ClaimSkipsFree(t) ==
    /\ pc[t] = "claim_free"
    /\ Goto(t, IF req[t].mode \in Driver THEN "power_up" ELSE "write_user")
    /\ UNCHANGED <<record, hardware, picked>>

ClaimTestFree(t) ==
    /\ pc[t] = "claim_free"
    /\ IF busMode # "UNKNOWN"
         THEN Return(t, FALSE)
         ELSE Goto(t, IF req[t].mode \in Driver THEN "power_up" ELSE "write_user")
    /\ UNCHANGED <<record, hardware, picked>>

PowerUpApplicationOnly(t) ==
    /\ pc[t] = "power_up"
    /\ vout' = (vout \/ req[t].mode = "APPLICATION")
    /\ Goto(t, "enable")
    /\ UNCHANGED <<record, enabled, picked>>

PowerUp(t) ==
    /\ pc[t] = "power_up"
    /\ vout' = TRUE
    /\ Goto(t, "enable")
    /\ UNCHANGED <<record, enabled, picked>>

\* ppmbtl_enable or linmaster_enable; on failure VOUT stays on.
EnableDriver(t) ==
    /\ pc[t] = "enable"
    /\ \/ /\ enabled' = enabled \cup {req[t].mode}
          /\ Goto(t, "write_user")
       \/ /\ EnableMayFail
          /\ UNCHANGED enabled
          /\ Return(t, FALSE)
    /\ UNCHANGED <<record, vout, picked>>

WriteUserForgotten(t) ==
    /\ pc[t] = "write_user"
    /\ Goto(t, "write_mode")
    /\ UNCHANGED <<record, hardware, picked>>

WriteUser(t) ==
    /\ pc[t] = "write_user"
    /\ busUser' = req[t].user
    /\ Goto(t, "write_mode")
    /\ UNCHANGED <<busMode, hardware, picked>>

WriteMode(t) ==
    /\ pc[t] = "write_mode"
    /\ busMode' = req[t].mode
    /\ Return(t, TRUE)
    /\ UNCHANGED <<busUser, hardware, picked>>
-----------------------------------------------------------------------------
(* busmngr_ReleaseInterface *)

CallRelease(t) == Enter(t, ReleasesOf[t], "release_user")

ReleaseIgnoresUser(t) ==
    /\ pc[t] = "release_user"
    /\ Goto(t, "release_mode")
    /\ UNCHANGED <<record, hardware, picked>>

ReleaseTestUser(t) ==
    /\ pc[t] = "release_user"
    /\ IF busUser = req[t].user THEN Goto(t, "release_mode") ELSE Return(t, FALSE)
    /\ UNCHANGED <<record, hardware, picked>>

ReleaseTestMode(t) ==
    /\ pc[t] = "release_mode"
    /\ IF busMode = req[t].mode THEN Goto(t, "switch") ELSE Return(t, FALSE)
    /\ UNCHANGED <<record, hardware, picked>>

\* switch (bus_mode) reads the mode again.
ReleaseSwitch(t) ==
    /\ pc[t] = "switch"
    /\ picked' = [picked EXCEPT ![t] = busMode]
    /\ Goto(t, IF busMode \in Driver THEN "power_down" ELSE "clear_mode")
    /\ UNCHANGED <<record, hardware>>

PowerDownForgotten(t) ==
    /\ pc[t] = "power_down"
    /\ Goto(t, "disable")
    /\ UNCHANGED <<record, hardware, picked>>

PowerDown(t) ==
    /\ pc[t] = "power_down"
    /\ vout' = FALSE
    /\ Goto(t, "disable")
    /\ UNCHANGED <<record, enabled, picked>>

DisableForgotten(t) ==
    /\ pc[t] = "disable"
    /\ Goto(t, "clear_mode")
    /\ UNCHANGED <<record, hardware, picked>>

DisableDriver(t) ==
    /\ pc[t] = "disable"
    /\ enabled' = enabled \ {picked[t]}
    /\ Goto(t, "clear_mode")
    /\ UNCHANGED <<record, vout, picked>>

\* bus_user keeps the name of the last owner.
ClearMode(t) ==
    /\ pc[t] = "clear_mode"
    /\ busMode' = "UNKNOWN"
    /\ picked' = [picked EXCEPT ![t] = "UNKNOWN"]
    /\ Return(t, TRUE)
    /\ UNCHANGED <<busUser, hardware>>
-----------------------------------------------------------------------------
Claim(t) ==
    \/ ClaimTestUser(t) \/ ClaimTestMode(t) \/ ClaimTestFree(t)
    \/ PowerUp(t) \/ EnableDriver(t) \/ WriteUser(t) \/ WriteMode(t)

Release(t) ==
    \/ ReleaseTestUser(t) \/ ReleaseTestMode(t) \/ ReleaseSwitch(t)
    \/ PowerDown(t) \/ DisableDriver(t) \/ ClearMode(t)

Step(t) == CallClaim(t) \/ CallRelease(t) \/ Claim(t) \/ Release(t)

Next == busmngr_Init \/ \E t \in Task : Step(t)

Fairness == WF_vars(busmngr_Init) /\ \A t \in Task : WF_vars(Claim(t) \/ Release(t))

Spec == Init /\ [][Next]_vars /\ Fairness

\* The discipline under which the manager is a lock: no call before
\* busmngr_Init, and no call while another one is under way.
Alone(t) == \A u \in Task \ {t} : pc[u] = "idle"

SerialNext ==
    \/ busmngr_Init
    \/ \E t \in Task : initialised /\ Alone(t) /\ Step(t)

SerialSpec == Init /\ [][SerialNext]_vars
-----------------------------------------------------------------------------
(* Properties *)

Quiet == \A t \in Task : pc[t] = "idle"

\* A recorded mode always comes with a user, whatever the interleaving:
\* ClaimInterface writes bus_user before bus_mode and ReleaseInterface never
\* erases bus_user (bus_manager.c:67-68, 90), so CheckModeClaim never reports a
\* claim that CheckClaim cannot attribute.
RecordNamesUser == busMode # "UNKNOWN" => busUser # "UNKNOWN"

\* The "already claimed" answer of ClaimInterface (bus_manager.c:49-51) is given
\* only to the user the record names.
AlreadyClaimedIsOwn ==
    [][\A t \in Task :
          ClaimTestMode(t) /\ granted'[t] /\ pc'[t] = "idle"
              => busUser = req[t].user]_vars

\* The LIN master and the bootloader share the bus pins: at no moment, not even
\* inside a call, are both drivers enabled (bus_manager.c:52-64, 78-89).
DriversExclusive == \A d, e \in enabled : d = e

\* Between calls the enabled driver is exactly the one of the recorded mode.
DriverMatchesRecord == Quiet => enabled = {busMode} \cap Driver

\* Between calls a claimed driver has its bus supply on (bus_manager.c:55, 59).
HeldIsPowered == Quiet /\ busMode \in Driver => vout

\* A release that is granted to the user of a driver leaves every driver stopped
\* and the bus supply off (bus_manager.c:78-91).  A claim that fails does not: it
\* leaves the supply on, also for a claim without a driver after it
\* (bus_manager.c:55-56, 62-66).
ReleaseSwitchesOff ==
    [][\A t \in Task : ClearMode(t) /\ busMode \in Driver => ~vout /\ enabled = {}]_vars

\* The manager implements the lock when its callers are serialised.
owner == IF busMode = "UNKNOWN" THEN NoRequest ELSE [user |-> busUser, mode |-> busMode]

call == [t \in Task |->
            IF pc[t] = "idle" THEN [op |-> "none", req |-> NoRequest]
            ELSE [op |-> IF pc[t] \in ClaimStep THEN "claim" ELSE "release",
                  req |-> req[t]]]

Lock == INSTANCE BusLock WITH answer <- granted

\* Every step of the manager is a step of the lock or invisible to it: a claim
\* takes effect when bus_mode is written, a release when it is cleared.
ImplementsLock == Lock!Spec
=============================================================================
