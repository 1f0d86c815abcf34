--------------------------- MODULE BusManagerProofs ---------------------------
(* What the bus manager guarantees for every set of tasks and every set of
   calls they make.                                                          *)
EXTENDS BusManager, TLAPS

USE CallsAssumption, FailAssumption

-----------------------------------------------------------------------------
(* Any interleaving of the callers *)

\* TypeOK is not inductive by itself: a driver is enabled for the mode of the
\* request, which is one of Driver only because the switch of ClaimInterface
\* sends the other modes past the enable.
TypeInv ==
    /\ TypeOK
    /\ \A t \in Task : pc[t] \in {"power_up", "enable"} => req[t].mode \in Driver

LEMMA InitTyped == Init => TypeInv
BY DEF Init, TypeInv, TypeOK, NoRequest, Mode, Driver, User

LEMMA GotoTyped ==
    ASSUME TypeInv, NEW t \in Task, NEW l \in ClaimStep \cup ReleaseStep,
           pc[t] # "idle", Goto(t, l),
           l \in {"power_up", "enable"} => req[t].mode \in Driver,
           busUser' \in User \cup {"UNKNOWN"}, busMode' \in Mode \cup {"UNKNOWN"},
           vout' \in BOOLEAN, enabled' \in SUBSET Driver,
           picked' \in [Task -> Mode \cup {"UNKNOWN"}]
    PROVE  TypeInv'
BY DEF TypeInv, TypeOK, Goto

LEMMA ReturnTyped ==
    ASSUME TypeInv, NEW t \in Task, NEW ok \in BOOLEAN, Return(t, ok),
           busUser' \in User \cup {"UNKNOWN"}, busMode' \in Mode \cup {"UNKNOWN"},
           vout' \in BOOLEAN, enabled' \in SUBSET Driver,
           picked' \in [Task -> Mode \cup {"UNKNOWN"}]
    PROVE  TypeInv'
BY DEF TypeInv, TypeOK, Return

LEMMA ClaimTyped ==
    ASSUME TypeInv, NEW t \in Task, Claim(t)
    PROVE  TypeInv'
<1> USE DEF record, hardware, ClaimStep
<1>1. /\ busUser \in User \cup {"UNKNOWN"} /\ busMode \in Mode \cup {"UNKNOWN"}
      /\ vout \in BOOLEAN /\ enabled \in SUBSET Driver
      /\ picked \in [Task -> Mode \cup {"UNKNOWN"}]
      /\ pc[t] # "idle" => req[t].user \in User /\ req[t].mode \in Mode
  BY DEF TypeInv, TypeOK, Request
<1>2. CASE ClaimTestUser(t)  BY <1>1, <1>2, GotoTyped DEF ClaimTestUser
<1>3. CASE ClaimTestMode(t)  BY <1>1, <1>3, GotoTyped, ReturnTyped DEF ClaimTestMode
<1>4. CASE ClaimTestFree(t)  BY <1>1, <1>4, GotoTyped, ReturnTyped DEF ClaimTestFree
<1>5. CASE PowerUp(t)        BY <1>1, <1>5, GotoTyped DEF PowerUp, TypeInv
<1>6. CASE EnableDriver(t)
  BY <1>1, <1>6, GotoTyped, ReturnTyped DEF EnableDriver, TypeInv
<1>7. CASE WriteUser(t)      BY <1>1, <1>7, GotoTyped DEF WriteUser
<1>8. CASE WriteMode(t)      BY <1>1, <1>8, ReturnTyped DEF WriteMode
<1> QED BY <1>2, <1>3, <1>4, <1>5, <1>6, <1>7, <1>8 DEF Claim

LEMMA ReleaseTyped ==
    ASSUME TypeInv, NEW t \in Task, Release(t)
    PROVE  TypeInv'
<1> USE DEF record, hardware, ReleaseStep
<1>1. /\ busUser \in User \cup {"UNKNOWN"} /\ busMode \in Mode \cup {"UNKNOWN"}
      /\ vout \in BOOLEAN /\ enabled \in SUBSET Driver
      /\ picked \in [Task -> Mode \cup {"UNKNOWN"}]
  BY DEF TypeInv, TypeOK
<1>2. CASE ReleaseTestUser(t)
  BY <1>1, <1>2, GotoTyped, ReturnTyped DEF ReleaseTestUser
<1>3. CASE ReleaseTestMode(t)
  BY <1>1, <1>3, GotoTyped, ReturnTyped DEF ReleaseTestMode
<1>4. CASE ReleaseSwitch(t)    BY <1>1, <1>4, GotoTyped DEF ReleaseSwitch
<1>5. CASE PowerDown(t)        BY <1>1, <1>5, GotoTyped DEF PowerDown
<1>6. CASE DisableDriver(t)    BY <1>1, <1>6, GotoTyped DEF DisableDriver
<1>7. CASE ClearMode(t)        BY <1>1, <1>7, ReturnTyped DEF ClearMode
<1> QED BY <1>2, <1>3, <1>4, <1>5, <1>6, <1>7 DEF Release

LEMMA StepTyped == TypeInv /\ [Next]_vars => TypeInv'
<1> SUFFICES ASSUME TypeInv, [Next]_vars PROVE TypeInv'
  OBVIOUS
<1>1. CASE UNCHANGED vars
  BY <1>1 DEF vars, TypeInv, TypeOK
<1>2. CASE busmngr_Init
  BY <1>2 DEF busmngr_Init, record, TypeInv, TypeOK
<1>3. ASSUME NEW t \in Task, CallClaim(t) \/ CallRelease(t) PROVE TypeInv'
  BY <1>3 DEF CallClaim, CallRelease, Enter, record, hardware, TypeInv, TypeOK,
              ClaimStep, ReleaseStep
<1> QED BY <1>1, <1>2, <1>3, ClaimTyped, ReleaseTyped DEF Next, Step

\* Type correctness of the bus manager's state under any interleaving of its
\* callers (bus_manager.c:33-94).
THEOREM TypeCorrect == Spec => []TypeOK
<1>1. TypeInv => TypeOK
  BY DEF TypeInv
<1> QED BY <1>1, InitTyped, StepTyped, PTL DEF Spec

\* A task about to write the mode has written its user, and no step erases
\* bus_user: the strengthening that makes RecordNamesUser inductive.
NamedInv ==
    /\ RecordNamesUser
    /\ \A t \in Task : pc[t] = "write_mode" => busUser # "UNKNOWN"

LEMMA StepNamed == TypeInv /\ NamedInv /\ [Next]_vars => NamedInv'
<1> SUFFICES ASSUME TypeInv, NamedInv, [Next]_vars PROVE NamedInv'
  OBVIOUS
<1> USE DEF NamedInv, RecordNamesUser, record, TypeInv, TypeOK
<1>1. CASE UNCHANGED vars
  BY <1>1 DEF vars
<1>2. CASE busmngr_Init
  BY <1>2 DEF busmngr_Init
<1>3. ASSUME NEW t \in Task, CallClaim(t) \/ CallRelease(t) PROVE NamedInv'
  BY <1>3 DEF CallClaim, CallRelease, Enter
<1>4. ASSUME NEW t \in Task, Claim(t) PROVE NamedInv'
  <2>1. CASE WriteUser(t)
    BY <2>1 DEF WriteUser, Goto, Request, User
  <2>2. CASE WriteMode(t)
    BY <2>2 DEF WriteMode, Return
  <2>3. CASE \/ ClaimTestUser(t) \/ ClaimTestMode(t) \/ ClaimTestFree(t)
             \/ PowerUp(t) \/ EnableDriver(t)
    BY <2>3 DEF ClaimTestUser, ClaimTestMode, ClaimTestFree, PowerUp,
                EnableDriver, Goto, Return
  <2> QED BY <1>4, <2>1, <2>2, <2>3 DEF Claim
<1>5. ASSUME NEW t \in Task, Release(t) PROVE NamedInv'
  BY <1>5 DEF Release, ReleaseTestUser, ReleaseTestMode, ReleaseSwitch,
              PowerDown, DisableDriver, ClearMode, Goto, Return
<1> QED BY <1>1, <1>2, <1>3, <1>4, <1>5 DEF Next, Step

\* However the callers interleave, a recorded mode has a recorded user
\* (bus_manager.c:67-68, 90).
THEOREM RecordAttributed == Spec => []RecordNamesUser
<1>1. Init => NamedInv
  BY DEF Init, NamedInv, RecordNamesUser
<1>2. NamedInv => RecordNamesUser
  BY DEF NamedInv
<1> QED BY <1>1, <1>2, InitTyped, StepTyped, StepNamed, PTL DEF Spec
-----------------------------------------------------------------------------
(* Serialised callers *)

\* The record, the driver and the supply agree.
Settled ==
    /\ enabled = {busMode} \cap Driver
    /\ busMode \in Driver => vout

\* What a claim under way knows at each of its steps: the checks it passed still
\* hold, and the hardware is as far as the claim has brought it.
ClaimInv(t) ==
    /\ pc[t] \in {"claim_user", "claim_mode", "claim_free"} => Settled
    /\ pc[t] = "claim_mode" => busUser = req[t].user
    /\ pc[t] = "claim_free" => <<busUser, busMode>> # <<req[t].user, req[t].mode>>
    /\ pc[t] \in {"power_up", "enable"} => busMode = "UNKNOWN" /\ enabled = {}
    /\ pc[t] = "enable" => vout
    /\ pc[t] \in {"write_user", "write_mode"} =>
          /\ busMode = "UNKNOWN"
          /\ enabled = {req[t].mode} \cap Driver
          /\ req[t].mode \in Driver => vout
    /\ pc[t] = "write_mode" => busUser = req[t].user

ReleaseInv(t) ==
    /\ pc[t] \in {"release_user", "release_mode", "switch"} => Settled
    /\ pc[t] = "release_mode" => busUser = req[t].user
    /\ pc[t] \in {"switch", "power_down", "disable", "clear_mode"} =>
          busUser = req[t].user /\ busMode = req[t].mode
    /\ pc[t] \in {"power_down", "disable"} =>
          picked[t] = busMode /\ enabled = {busMode}
    /\ pc[t] = "clear_mode" => enabled = {}
    /\ pc[t] = "disable" \/ (pc[t] = "clear_mode" /\ busMode \in Driver) => ~vout

\* At most one call is under way, none before busmngr_Init, and the state is
\* settled outside of it.
SerialInv ==
    /\ TypeInv
    /\ \A t, u \in Task : pc[t] # "idle" /\ pc[u] # "idle" => t = u
    /\ ~initialised => Quiet /\ busMode = "UNKNOWN"
    /\ Quiet => Settled
    /\ \A t \in Task : ClaimInv(t) /\ ReleaseInv(t)

LEMMA InitSerial == Init => SerialInv
<1> SUFFICES ASSUME Init PROVE SerialInv
  OBVIOUS
<1>1. TypeInv
  BY InitTyped
<1>2. busMode = "UNKNOWN" /\ busMode \notin Driver /\ enabled = {}
  BY DEF Init, Driver
<1> QED BY <1>1, <1>2 DEF Init, SerialInv, Quiet, Settled, ClaimInv, ReleaseInv

\* With the other tasks outside the manager, the invariant after a step is a
\* matter of the stepping task alone.
LEMMA OnlyCallerMatters ==
    ASSUME SerialInv, NEW t \in Task, initialised, Alone(t), Step(t),
           pc'[t] = "idle" => Settled', ClaimInv(t)', ReleaseInv(t)'
    PROVE  SerialInv'
<1>1. TypeInv'
  BY StepTyped DEF SerialInv, Next
<1>2. initialised' /\ pc' \in [Task -> {"idle"} \cup ClaimStep \cup ReleaseStep]
  BY <1>1 DEF TypeInv, TypeOK, Step, CallClaim, CallRelease, Enter, Claim, Release,
          ClaimTestUser, ClaimTestMode, ClaimTestFree, PowerUp, EnableDriver,
          WriteUser, WriteMode, ReleaseTestUser, ReleaseTestMode, ReleaseSwitch,
          PowerDown, DisableDriver, ClearMode, Goto, Return
<1>3. \A u \in Task \ {t} : pc'[u] = "idle"
  BY DEF Alone, SerialInv, TypeInv, TypeOK, Step, CallClaim, CallRelease, Enter,
         Claim, Release, ClaimTestUser, ClaimTestMode, ClaimTestFree, PowerUp,
         EnableDriver, WriteUser, WriteMode, ReleaseTestUser, ReleaseTestMode,
         ReleaseSwitch, PowerDown, DisableDriver, ClearMode, Goto, Return
<1>4. \A u \in Task \ {t} : ClaimInv(u)' /\ ReleaseInv(u)'
  BY <1>3 DEF ClaimInv, ReleaseInv
<1>5. Quiet' => Settled'
  BY DEF Quiet
<1> QED BY <1>1, <1>2, <1>3, <1>4, <1>5 DEF SerialInv

LEMMA StepSerial ==
    ASSUME SerialInv, NEW t \in Task, initialised, Alone(t), Step(t)
    PROVE  SerialInv'
<1> DEFINE After == (pc'[t] = "idle" => Settled') /\ ClaimInv(t)' /\ ReleaseInv(t)'
<1> SUFFICES After
  BY OnlyCallerMatters
<1>1. /\ pc \in [Task -> {"idle"} \cup ClaimStep \cup ReleaseStep]
      /\ req \in [Task -> Request \cup {NoRequest}]
      /\ picked \in [Task -> Mode \cup {"UNKNOWN"}]
      /\ pc[t] # "idle" => req[t] \in Request /\ req[t].mode # "UNKNOWN"
      /\ pc[t] \in {"power_up", "enable"} => req[t].mode \in Driver
      /\ "UNKNOWN" \notin Driver
  BY DEF SerialInv, TypeInv, TypeOK, Request, Mode, Driver
<1>2. (pc[t] = "idle" => Settled) /\ ClaimInv(t) /\ ReleaseInv(t)
  BY DEF SerialInv, Alone, Quiet
<1> USE <1>1, <1>2 DEF ClaimInv, ReleaseInv, Settled, record, hardware, Goto, Return
<1>3. CASE CallClaim(t) \/ CallRelease(t)
  BY <1>3 DEF CallClaim, CallRelease, Enter
<1>4. CASE ClaimTestUser(t)    BY <1>4 DEF ClaimTestUser
<1>5. CASE ClaimTestMode(t)    BY <1>5 DEF ClaimTestMode
<1>6. CASE ClaimTestFree(t)
  <2>1. CASE busMode # "UNKNOWN"
    BY <1>6, <2>1 DEF ClaimTestFree
  <2>2. CASE busMode = "UNKNOWN"
    <3>1. enabled = {} /\ enabled' = enabled
      BY <1>6, <2>2 DEF ClaimTestFree
    <3>2. req[t].mode \notin Driver => {req[t].mode} \cap Driver = {}
      OBVIOUS
    <3> QED BY <1>6, <2>2, <3>1, <3>2 DEF ClaimTestFree
  <2> QED BY <2>1, <2>2
<1>7. CASE PowerUp(t)          BY <1>7 DEF PowerUp
<1>8. CASE EnableDriver(t)
  <2>1. {busMode} \cap Driver = {} /\ {req[t].mode} \cap Driver = {req[t].mode}
    BY <1>8 DEF EnableDriver
  <2> QED BY <1>8, <2>1 DEF EnableDriver
<1>9. CASE WriteUser(t)        BY <1>9 DEF WriteUser
<1>10. CASE WriteMode(t)       BY <1>10 DEF WriteMode
<1>11. CASE ReleaseTestUser(t) BY <1>11 DEF ReleaseTestUser
<1>12. CASE ReleaseTestMode(t) BY <1>12 DEF ReleaseTestMode
<1>13. CASE ReleaseSwitch(t)   BY <1>13 DEF ReleaseSwitch
<1>14. CASE PowerDown(t)       BY <1>14 DEF PowerDown
<1>15. CASE DisableDriver(t)   BY <1>15 DEF DisableDriver
<1>16. CASE ClearMode(t)       BY <1>16 DEF ClearMode
<1> QED
  BY <1>3, <1>4, <1>5, <1>6, <1>7, <1>8, <1>9, <1>10, <1>11, <1>12, <1>13, <1>14,
     <1>15, <1>16 DEF Step, Claim, Release

LEMMA NextSerial == SerialInv /\ [SerialNext]_vars => SerialInv'
<1> SUFFICES ASSUME SerialInv, [SerialNext]_vars PROVE SerialInv'
  OBVIOUS
<1>1. CASE UNCHANGED vars
  BY <1>1 DEF vars, SerialInv, TypeInv, TypeOK, Quiet, Settled, ClaimInv, ReleaseInv
<1>2. CASE busmngr_Init
  <2>1. TypeInv'
    BY <1>2, StepTyped DEF SerialInv, Next
  <2>2. Settled'
    BY <1>2 DEF SerialInv, busmngr_Init, record, Settled, Driver
  <2>3. Quiet /\ Quiet'
    BY <1>2 DEF SerialInv, busmngr_Init, Quiet
  <2>4. \A t \in Task : ClaimInv(t)' /\ ReleaseInv(t)'
    BY <2>3 DEF Quiet, ClaimInv, ReleaseInv
  <2> QED BY <1>2, <2>1, <2>2, <2>3, <2>4 DEF SerialInv, busmngr_Init, Quiet
<1>3. ASSUME NEW t \in Task, initialised, Alone(t), Step(t) PROVE SerialInv'
  BY <1>3, StepSerial
<1> QED BY <1>1, <1>2, <1>3 DEF SerialNext

LEMMA SerialInvariant == SerialSpec => []SerialInv
BY InitSerial, NextSerial, PTL DEF SerialSpec

LEMMA NoCallOrOneCall ==
    ASSUME SerialInv
    PROVE  Quiet \/ \E t \in Task : pc[t] # "idle" /\ ClaimInv(t) /\ ReleaseInv(t)
BY DEF SerialInv, Quiet

\* When the callers are serialised the two drivers are never enabled together,
\* not even inside a call (bus_manager.c:52-64, 78-89).
THEOREM SerialDriversExclusive == SerialSpec => []DriversExclusive
<1>1. SerialInv => DriversExclusive
  <2> SUFFICES ASSUME SerialInv PROVE DriversExclusive
    OBVIOUS
  <2>1. CASE Quiet
    BY <2>1 DEF SerialInv, Settled, DriversExclusive
  <2>2. ASSUME NEW t \in Task, pc[t] # "idle", ClaimInv(t), ReleaseInv(t)
        PROVE  DriversExclusive
    BY <2>2 DEF SerialInv, TypeInv, TypeOK, ClaimStep, ReleaseStep, ClaimInv,
                ReleaseInv, Settled, DriversExclusive
  <2> QED BY <2>1, <2>2, NoCallOrOneCall
<1> QED BY <1>1, SerialInvariant, PTL

\* When the callers are serialised, between calls the enabled driver is the one
\* of the recorded mode (bus_manager.c:52-64, 78-90).
THEOREM SerialDriverMatchesRecord == SerialSpec => []DriverMatchesRecord
<1>1. SerialInv => DriverMatchesRecord
  BY DEF SerialInv, Settled, DriverMatchesRecord
<1> QED BY <1>1, SerialInvariant, PTL

\* When the callers are serialised, a claimed driver has its bus supply on, even
\* when enabling a driver may fail (bus_manager.c:55, 59, 80, 84).
THEOREM SerialHeldIsPowered == SerialSpec => []HeldIsPowered
<1>1. SerialInv => HeldIsPowered
  BY DEF SerialInv, Settled, HeldIsPowered
<1> QED BY <1>1, SerialInvariant, PTL

\* When the callers are serialised, a release granted to the user of a driver
\* leaves the drivers stopped and the supply off (bus_manager.c:78-91).
THEOREM SerialReleaseSwitchesOff == SerialSpec => ReleaseSwitchesOff
<1>1. ASSUME SerialInv, NEW t \in Task, ClearMode(t), busMode \in Driver
      PROVE  ~vout /\ enabled = {}
  BY <1>1 DEF SerialInv, ReleaseInv, ClearMode
<1>2. SerialInv => [\A t \in Task : ClearMode(t) /\ busMode \in Driver
                                      => ~vout /\ enabled = {}]_vars
  BY <1>1
<1> QED BY <1>2, SerialInvariant, PTL DEF ReleaseSwitchesOff
-----------------------------------------------------------------------------
(* Refinement *)

\* A step that neither writes bus_mode nor leaves the manager is invisible to
\* the lock.
LEMMA InvisibleStep ==
    ASSUME SerialInv, NEW t \in Task, pc[t] # "idle", UNCHANGED busMode,
           busMode # "UNKNOWN" => UNCHANGED busUser,
           NEW l \in ClaimStep \cup ReleaseStep,
           pc[t] \in ClaimStep <=> l \in ClaimStep, Goto(t, l)
    PROVE  UNCHANGED <<owner, call, granted>>
<1>1. UNCHANGED owner
  BY DEF owner
<1>2. UNCHANGED call
  BY DEF SerialInv, TypeInv, TypeOK, Goto, call, ClaimStep, ReleaseStep
<1> QED BY <1>1, <1>2 DEF Goto

\* Leaving the manager is the answer of the lock.
LEMMA ReturnIsReply ==
    ASSUME SerialInv, NEW t \in Task, NEW ok \in BOOLEAN, Return(t, ok)
    PROVE  Lock!Reply(t, ok)
<1>1. call' = [call EXCEPT ![t] = Lock!NoCall]
  BY DEF SerialInv, TypeInv, TypeOK, Return, call, Lock!NoCall, Lock!NoOne, NoRequest
<1> QED BY <1>1 DEF Lock!Reply, SerialInv, TypeInv, TypeOK, Return

LEMMA CallIsPlaced ==
    ASSUME SerialInv, NEW t \in Task, CallClaim(t) \/ CallRelease(t)
    PROVE  Lock!Place(t)
<1>1. PICK r \in Request, l \in {"claim_user", "release_user"} :
          /\ pc[t] = "idle"
          /\ req' = [req EXCEPT ![t] = r]
          /\ pc' = [pc EXCEPT ![t] = l]
          /\ UNCHANGED <<record, granted>>
  BY DEF CallClaim, CallRelease, Enter, hardware
<1>2. call[t] = Lock!NoCall
  BY <1>1 DEF call, Lock!NoCall, Lock!NoOne, NoRequest
<1>3. PICK o \in {"claim", "release"} : call' = [call EXCEPT ![t] = [op |-> o, req |-> r]]
  <2>1. call' = [call EXCEPT ![t] =
                   [op |-> IF l = "claim_user" THEN "claim" ELSE "release", req |-> r]]
    BY <1>1 DEF SerialInv, TypeInv, TypeOK, call, ClaimStep, ReleaseStep
  <2> QED BY <2>1
<1>4. UNCHANGED owner
  BY <1>1 DEF owner, record
<1> QED BY <1>1, <1>2, <1>3, <1>4 DEF Lock!Place

\* The record of a task at one of its steps, as the lock sees it.
LEMMA OwnerOfRecord ==
    ASSUME SerialInv, NEW r \in Request
    PROVE  /\ owner = r <=> busUser = r.user /\ busMode = r.mode
           /\ busMode = "UNKNOWN" => owner = Lock!NoOne
<1>1. r.mode # "UNKNOWN" /\ r = [user |-> r.user, mode |-> r.mode]
  BY DEF Request, Mode, Driver
<1> QED BY <1>1 DEF owner, NoRequest, Lock!NoOne

LEMMA ClaimIsLockStep ==
    ASSUME SerialInv, NEW t \in Task, Claim(t)
    PROVE  Lock!Claim(t) \/ UNCHANGED <<owner, call, granted>>
<1> DEFINE r == req[t]
<1>1. pc[t] # "idle" /\ pc[t] \in ClaimStep /\ ClaimInv(t)
  BY DEF SerialInv, Claim, ClaimTestUser, ClaimTestMode, ClaimTestFree, PowerUp,
         EnableDriver, WriteUser, WriteMode, ClaimStep
<1>2. r \in Request /\ r.mode # "UNKNOWN"
  BY <1>1 DEF SerialInv, TypeInv, TypeOK, Request, Mode, Driver
<1>3. call[t].op = "claim" /\ call[t].req = r
  BY <1>1 DEF call
<1> USE DEF record, hardware, Lock!Claim
<1>4. CASE ClaimTestUser(t)
  BY <1>1, <1>4, InvisibleStep DEF ClaimTestUser, ClaimStep
<1>5. CASE ClaimTestMode(t)
  <2>1. CASE busMode = r.mode
    <3>1. owner = r /\ owner' = owner
      BY <1>1, <1>2, <1>5, <2>1, OwnerOfRecord DEF ClaimTestMode, ClaimInv, owner
    <3> QED BY <1>3, <1>5, <2>1, <3>1, ReturnIsReply DEF ClaimTestMode
  <2>2. CASE busMode # r.mode
    BY <1>1, <1>5, <2>2, InvisibleStep DEF ClaimTestMode, ClaimStep
  <2> QED BY <2>1, <2>2
<1>6. CASE ClaimTestFree(t)
  <2>1. CASE busMode # "UNKNOWN"
    <3>1. owner # r /\ owner' = owner
      BY <1>1, <1>2, <1>6, OwnerOfRecord DEF ClaimTestFree, ClaimInv, owner
    <3> QED BY <1>3, <1>6, <2>1, <3>1, ReturnIsReply DEF ClaimTestFree
  <2>2. CASE busMode = "UNKNOWN"
    BY <1>1, <1>6, <2>2, InvisibleStep DEF ClaimTestFree, ClaimStep
  <2> QED BY <2>1, <2>2
<1>7. CASE PowerUp(t)
  BY <1>1, <1>7, InvisibleStep DEF PowerUp, ClaimStep
<1>8. CASE EnableDriver(t)
  <2>1. CASE Goto(t, "write_user")
    BY <1>1, <1>8, <2>1, InvisibleStep DEF EnableDriver, ClaimStep
  <2>2. CASE Return(t, FALSE)
    <3>1. owner # r /\ owner' = owner
      BY <1>1, <1>2, <1>8, OwnerOfRecord DEF EnableDriver, ClaimInv, owner
    <3> QED BY <1>3, <2>2, <3>1, ReturnIsReply
  <2> QED BY <1>8, <2>1, <2>2 DEF EnableDriver
<1>9. CASE WriteUser(t)
  BY <1>1, <1>9, InvisibleStep DEF WriteUser, ClaimInv, ClaimStep
<1>10. CASE WriteMode(t)
  <2>1. owner = Lock!NoOne
    BY <1>1, <1>2, <1>10, OwnerOfRecord DEF WriteMode, ClaimInv
  <2>2. owner' = r
    <3>1. r = [user |-> r.user, mode |-> r.mode]
      BY <1>2 DEF Request
    <3> QED BY <1>1, <1>2, <1>10, <3>1 DEF WriteMode, ClaimInv, owner
  <2> QED BY <1>3, <1>10, <2>1, <2>2, ReturnIsReply DEF WriteMode
<1> QED
  BY <1>4, <1>5, <1>6, <1>7, <1>8, <1>9, <1>10 DEF Claim

LEMMA ReleaseIsLockStep ==
    ASSUME SerialInv, NEW t \in Task, Release(t)
    PROVE  Lock!Release(t) \/ UNCHANGED <<owner, call, granted>>
<1> DEFINE r == req[t]
<1>1. pc[t] # "idle" /\ pc[t] \in ReleaseStep \ ClaimStep /\ ReleaseInv(t)
  BY DEF SerialInv, Release, ReleaseTestUser, ReleaseTestMode, ReleaseSwitch,
         PowerDown, DisableDriver, ClearMode, ReleaseStep, ClaimStep
<1>2. r \in Request
  BY <1>1 DEF SerialInv, TypeInv, TypeOK
<1>3. call[t].op = "release" /\ call[t].req = r
  BY <1>1 DEF call
<1> USE DEF record, hardware, Lock!Release
<1>4. CASE ReleaseTestUser(t)
  <2>1. CASE busUser = r.user
    BY <1>1, <1>4, <2>1, InvisibleStep DEF ReleaseTestUser, ReleaseStep, ClaimStep
  <2>2. CASE busUser # r.user
    <3>1. owner # r /\ owner' = owner
      BY <1>2, <1>4, <2>2, OwnerOfRecord DEF ReleaseTestUser, owner
    <3> QED BY <1>3, <1>4, <2>2, <3>1, ReturnIsReply DEF ReleaseTestUser
  <2> QED BY <2>1, <2>2
<1>5. CASE ReleaseTestMode(t)
  <2>1. CASE busMode = r.mode
    BY <1>1, <1>5, <2>1, InvisibleStep DEF ReleaseTestMode, ReleaseStep, ClaimStep
  <2>2. CASE busMode # r.mode
    <3>1. owner # r /\ owner' = owner
      BY <1>2, <1>5, <2>2, OwnerOfRecord DEF ReleaseTestMode, owner
    <3> QED BY <1>3, <1>5, <2>2, <3>1, ReturnIsReply DEF ReleaseTestMode
  <2> QED BY <2>1, <2>2
<1>6. CASE ReleaseSwitch(t)
  BY <1>1, <1>6, InvisibleStep DEF ReleaseSwitch, ReleaseStep, ClaimStep
<1>7. CASE PowerDown(t)
  BY <1>1, <1>7, InvisibleStep DEF PowerDown, ReleaseStep, ClaimStep
<1>8. CASE DisableDriver(t)
  BY <1>1, <1>8, InvisibleStep DEF DisableDriver, ReleaseStep, ClaimStep
<1>9. CASE ClearMode(t)
  <2>1. owner = r
    BY <1>1, <1>2, <1>9, OwnerOfRecord DEF ClearMode, ReleaseInv
  <2>2. owner' = Lock!NoOne
    BY <1>9 DEF ClearMode, owner, NoRequest, Lock!NoOne
  <2> QED BY <1>3, <1>9, <2>1, <2>2, ReturnIsReply DEF ClearMode
<1> QED BY <1>4, <1>5, <1>6, <1>7, <1>8, <1>9 DEF Release

\* When the callers are serialised the manager implements the atomic lock of
\* BusLock: a claim takes effect where bus_mode is written, a release where it
\* is cleared, and every answer is the lock's (bus_manager.c:46-94).
THEOREM SerialImplementsLock == SerialSpec => ImplementsLock
<1>1. Init => Lock!Init
  BY DEF Init, Lock!Init, owner, call, Lock!NoOne, Lock!NoCall, NoRequest
<1>2. SerialInv /\ [SerialNext]_vars => [Lock!Next]_(Lock!vars)
  <2> SUFFICES ASSUME SerialInv, [SerialNext]_vars
               PROVE  Lock!Next \/ UNCHANGED <<owner, call, granted>>
    BY DEF Lock!vars
  <2>1. CASE UNCHANGED vars
    BY <2>1 DEF vars, owner, call
  <2>2. CASE busmngr_Init
    BY <2>2 DEF busmngr_Init, record, owner, call
  <2>3. ASSUME NEW t \in Task, Step(t)
        PROVE  Lock!Next \/ UNCHANGED <<owner, call, granted>>
    BY <2>3, CallIsPlaced, ClaimIsLockStep, ReleaseIsLockStep DEF Step, Lock!Next
  <2> QED BY <2>1, <2>2, <2>3 DEF SerialNext
<1> QED
  BY <1>1, <1>2, SerialInvariant, PTL DEF SerialSpec, ImplementsLock, Lock!Spec
=============================================================================
