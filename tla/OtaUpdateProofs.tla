--------------------------- MODULE OtaUpdateProofs ---------------------------
(* An update leaves the device recoverable at every point of it, for all
   images.                                                                    *)
EXTENDS OtaUpdate, TLAPS

LEMMA OtherPart ==
  ASSUME NEW p \in Part
  PROVE  Other(p) \in Part /\ Other(p) # p /\ Other(Other(p)) = p
                           /\ \A q \in Part : q # p => q = Other(p)
BY DEF Part, Other

-----------------------------------------------------------------------------
(* Types *)

\* Something is left in RAM of an update that esp_ota_begin granted.
Updating ==
    \/ tpc # "idle" \/ active \/ answer # None \/ update.state # "closed"

\* An update has chosen its partition.
TypeInv == TypeOK /\ (Updating => target \in Part)

LEMMA HandleTypes ==
  /\ Closed \in Handle
  /\ [Closed EXCEPT !.state = "empty"] \in Handle
BY ImageAssumption DEF Closed, Handle

LEMMA EmptySequence == <<>> \in Seq(Chunk)
OBVIOUS

LEMMA InitTypes == Init => TypeInv
<1> SUFFICES ASSUME Init PROVE TypeInv
  OBVIOUS
<1>1. /\ flash \in [Part -> Image \cup {Torn}]
      /\ verdict \in [Part -> {"new", "pending", "valid", "aborted"}]
      /\ selected \in Part /\ running \in Part
  BY ImageAssumption DEF Init, Part
<1> QED
  BY <1>1, HandleTypes, EmptySequence DEF Init, TypeInv, TypeOK, Updating, Closed

LEMMA ClearRamTypes ==
  ASSUME TypeInv, ClearRam, UNCHANGED <<flash, verdict, selected, running>>,
         mpc' \in {"off", "boot"}
  PROVE  TypeInv'
BY HandleTypes, EmptySequence DEF TypeInv, TypeOK, ClearRam, Updating, Closed

LEMMA AppMainTypes ==
  ASSUME TypeInv, AppMain
  PROVE  TypeInv'
<1>1. CASE Boot
  <2>1. Choice \in Part
    BY DEF TypeInv, TypeOK, Choice, Other, Part
  <2> QED
    BY <1>1, <2>1 DEF TypeInv, TypeOK, Updating, Boot, Judged, bulk
<1>2. CASE UsbUp
  BY <1>2 DEF TypeInv, TypeOK, Updating, UsbUp, persistent, bulk
<1>3. CASE Crash
  BY <1>3, ClearRamTypes DEF Crash, persistent
<1>4. CASE otasupport_ImageBootSuccess
  BY <1>4 DEF TypeInv, TypeOK, Updating, otasupport_ImageBootSuccess, bulk
<1> QED
  BY <1>1, <1>2, <1>3, <1>4 DEF AppMain

LEMMA UsbTaskTypes ==
  ASSUME TypeInv, UsbTask
  PROVE  TypeInv'
<1> USE DEF TypeInv, TypeOK, Updating
<1>1. CASE otasupport_Start
  <2>1. target' \in Part
    BY <1>1, OtherPart DEF otasupport_Start, NextUpdate
  <2>2. update' \in Handle
    BY <1>1, HandleTypes DEF otasupport_Start
  <2> QED
    BY <1>1, <2>1, <2>2 DEF otasupport_Start, persistent, bulk
<1>2. CASE StartMode
  BY <1>2 DEF StartMode, persistent, bulk
<1>3. CASE StartRaw
  BY <1>3 DEF StartRaw, persistent
<1>4. CASE StopTransfer
  BY <1>4 DEF StopTransfer, persistent, bulk
<1>5. ASSUME NEW c \in Chunk, Send(c)
      PROVE  TypeInv'
  BY <1>5 DEF Send, persistent
<1>6. CASE otasupport_UpdateBootPartition
  BY <1>6 DEF otasupport_UpdateBootPartition, bulk
<1>7. CASE Reset
  BY <1>7 DEF Reset, persistent, bulk
<1> QED
  BY <1>1, <1>2, <1>3, <1>4, <1>5, <1>6, <1>7 DEF UsbTask

LEMMA BulkTaskTypes ==
  ASSUME TypeInv, BulkTask
  PROVE  TypeInv'
<1> USE DEF TypeInv, TypeOK, Updating
<1>1. CASE Receive
  <2>1. Head(ring) \in Chunk /\ Tail(ring) \in Seq(Chunk)
    BY <1>1 DEF Receive
  <2>2. chunk' \in Seq(Chunk) /\ chunk' # <<>>
    BY <1>1, <2>1 DEF Receive
  <2> QED
    BY <1>1, <2>1, <2>2 DEF Receive, persistent
<1>2. CASE otasupport_Write
  <2>1. Head(chunk) \in Chunk
    BY <1>2 DEF otasupport_Write
  <2>2. Head(chunk).image \in Image
    BY <2>1 DEF Chunk
  <2>3. update' \in Handle /\ update'.image \in Image
    BY <1>2, <2>2 DEF otasupport_Write, Written, Handle
  <2>4. flash' \in [Part -> Image \cup {Torn}]
    BY <1>2, <2>3 DEF otasupport_Write
  <2> QED
    BY <1>2, <2>3, <2>4, EmptySequence DEF otasupport_Write
<1>3. CASE WriteFails
  <2>1. flash' \in [Part -> Image \cup {Torn}]
    BY <1>3 DEF WriteFails
  <2> QED
    BY <1>3, <2>1, EmptySequence DEF WriteFails, Runs
<1>4. CASE TransferDone
  BY <1>4 DEF TransferDone, persistent
<1>5. CASE ValidateEnd
  BY <1>5 DEF ValidateEnd, persistent
<1>6. CASE ValidateAnswer
  BY <1>6, HandleTypes DEF ValidateAnswer, Runs, persistent
<1> QED
  BY <1>1, <1>2, <1>3, <1>4, <1>5, <1>6 DEF BulkTask

LEMMA NextTypes == TypeInv /\ [Next]_vars => TypeInv'
<1> SUFFICES ASSUME TypeInv, [Next]_vars PROVE TypeInv'
  OBVIOUS
<1>1. CASE PowerLoss
  BY <1>1, ClearRamTypes DEF PowerLoss, persistent
<1>2. CASE PowerOn
  BY <1>2 DEF TypeInv, TypeOK, Updating, PowerOn, persistent, bulk
<1>3. CASE Restarted
  BY <1>3, ClearRamTypes DEF Restarted, persistent
<1>4. CASE Reboot
  BY <1>4 DEF TypeInv, TypeOK, Updating, Reboot, persistent, bulk
<1>5. CASE UNCHANGED vars
  BY <1>5 DEF TypeInv, TypeOK, Updating, vars, persistent, bulk
<1> QED
  BY <1>1, <1>2, <1>3, <1>4, <1>5, AppMainTypes, UsbTaskTypes, BulkTaskTypes DEF Next

\* The flash, the OTA data and the update keep their types, and a handler that
\* is installed has a partition to write (usb_vendor_ota.c:101-103).
THEOREM TypeCorrect == Spec => []TypeOK
<1>1. TypeInv => TypeOK
  BY DEF TypeInv
<1> QED
  BY InitTypes, NextTypes, <1>1, PTL DEF Spec
-----------------------------------------------------------------------------
(* Recovery *)

\* The types the argument needs.
Types ==
    /\ flash \in [Part -> Image \cup {Torn}]
    /\ verdict \in [Part -> {"new", "pending", "valid", "aborted"}]
    /\ selected \in Part
    /\ running \in Part

\* The running image has proved itself, and any other choice is on trial or
\* given up.
Confirmed ==
    /\ flash[running] \in Good /\ verdict[running] = "valid"
    /\ selected # running => verdict[selected] # "valid"

\* The running image is on trial, and the other one has proved itself.
OnTrial ==
    /\ selected = running /\ verdict[running] = "pending"
    /\ flash[Other(running)] \in Good /\ verdict[Other(running)] = "valid"

\* An update writes the partition that does not run, under a confirmed image,
\* and there is none before the requests are served.
Inv ==
    /\ Types
    /\ Confirmed \/ OnTrial
    /\ Updating => verdict[running] = "valid" /\ target = Other(running)
    /\ mpc \in {"off", "boot", "early"} => ~Updating

LEMMA InitInv == Init => Inv
<1> SUFFICES ASSUME Init PROVE Inv
  OBVIOUS
<1>1. Types
  BY ImageAssumption DEF Init, Types, Part
<1>2. Confirmed
  BY ImageAssumption DEF Init, Confirmed, Part
<1>3. ~Updating
  BY DEF Init, Updating, Closed
<1> QED
  BY <1>1, <1>2, <1>3 DEF Inv

\* What the flash and the record need to know of a step that leaves them alone.
LEMMA Kept ==
  ASSUME Inv, UNCHANGED <<flash, verdict, selected, running>>
  PROVE  Types' /\ (Confirmed \/ OnTrial)'
BY DEF Inv, Types, Confirmed, OnTrial, Other

\* A restart forgets the update.
LEMMA Forgets ==
  ASSUME Inv, ClearRam, UNCHANGED <<flash, verdict, selected, running>>
  PROVE  Inv'
<1>1. ~Updating'
  BY DEF ClearRam, Updating, Closed
<1> QED
  BY <1>1, Kept DEF Inv

LEMMA BootInv ==
  ASSUME Inv, Boot
  PROVE  Inv'
<1> DEFINE r == running
           o == Other(running)
<1>1. /\ r \in Part /\ o \in Part /\ o # r /\ Other(o) = r
      /\ selected = r \/ selected = o
  BY OtherPart DEF Inv, Types
<1>2. Good \subseteq Image
  BY ImageAssumption
<1>3. Types'
  BY <1>1 DEF Inv, Types, Boot, Choice, Judged, Other, Part
<1>4. ~Updating'
  BY DEF Inv, Boot, Updating, bulk
<1>5. Confirmed' \/ OnTrial'
  <2>1. CASE Confirmed /\ Choice = r
    <3>1. running' = r /\ selected' = r /\ flash' = flash
      BY <2>1 DEF Boot
    <3>2. verdict'[r] = "valid"
      BY <1>1, <2>1, <3>1 DEF Boot, Confirmed, Judged, Inv, Types
    <3> QED
      BY <2>1, <3>1, <3>2 DEF Confirmed
  <2>2. CASE Confirmed /\ Choice # r
    <3>1. selected = o /\ Choice = o
      <4>1. CASE selected = r
        BY <1>1, <1>2, <2>2, <4>1 DEF Choice, Judged, Confirmed, Inv, Types
      <4>2. CASE selected = o
        BY <1>1, <2>2, <4>2 DEF Choice
      <4> QED
        BY <1>1, <4>1, <4>2
    <3>2. verdict[o] = "new"
      BY <1>1, <2>2, <3>1 DEF Choice, Judged, Confirmed, Inv, Types
    <3>3. running' = o /\ selected' = o /\ flash' = flash
      BY <3>1 DEF Boot
    <3>4. verdict'[o] = "pending" /\ verdict'[r] = "valid"
      BY <1>1, <2>2, <3>1, <3>2, <3>3 DEF Boot, Confirmed, Judged, Inv, Types
    <3> QED
      BY <1>1, <2>2, <3>3, <3>4 DEF OnTrial, Confirmed
  <2>3. CASE OnTrial
    <3>1. Choice = o
      BY <1>1, <2>3 DEF OnTrial, Choice, Judged
    <3>2. running' = o /\ selected' = o /\ flash' = flash
      BY <3>1 DEF Boot
    <3>3. verdict'[o] = "valid"
      BY <1>1, <2>3, <3>1, <3>2 DEF Boot, OnTrial, Judged
    <3> QED
      BY <2>3, <3>2, <3>3 DEF OnTrial, Confirmed
  <2> QED
    BY <2>1, <2>2, <2>3 DEF Inv
<1> QED
  BY <1>3, <1>4, <1>5 DEF Inv

LEMMA AppMainInv ==
  ASSUME Inv, AppMain
  PROVE  Inv'
<1>1. CASE Boot
  BY <1>1, BootInv
<1>2. CASE UsbUp
  <2>1. ~Updating /\ ~Updating'
    BY <1>2 DEF UsbUp, Inv, Updating, bulk
  <2> QED
    BY <1>2, <2>1, Kept DEF UsbUp, persistent, Inv
<1>3. CASE Crash
  BY <1>3, Forgets DEF Crash, persistent
<1>4. CASE otasupport_ImageBootSuccess
  <2> USE <1>4 DEF otasupport_ImageBootSuccess
  <2>1. Types'
    BY DEF Inv, Types
  <2>2. Confirmed'
    BY OtherPart DEF Inv, Types, Confirmed, OnTrial
  <2>3. Updating' = Updating /\ target' = target /\ running' = running
    BY DEF Updating, bulk
  <2>4. mpc' = "loop" /\ (Updating' => verdict'[running'] = "valid")
    BY <2>3 DEF Inv, Types
  <2> QED
    BY <2>1, <2>2, <2>3, <2>4 DEF Inv, Other
<1> QED
  BY <1>1, <1>2, <1>3, <1>4 DEF AppMain

LEMMA RestartInv ==
  ASSUME Inv, mpc' = "restart",
         UNCHANGED <<persistent, running, target, update, mode, bulk, tpc, answer>>
  PROVE  Inv'
<1>1. UNCHANGED <<flash, verdict, selected, running, target>>
  BY DEF persistent
<1>2. Updating' => Updating
  BY DEF Updating, bulk
<1> QED
  BY <1>1, <1>2, Kept DEF Inv, Other

\* A careful host selects an image only under a confirmed one.
LEMMA UsbTaskInv ==
  ASSUME Careful, Inv, UsbTask
  PROVE  Inv'
<1>1. CASE otasupport_Start
  <2> USE <1>1 DEF otasupport_Start
  <2>1. UNCHANGED <<flash, verdict, selected, running>>
    BY DEF persistent
  <2>2. target' = Other(running) /\ mpc' = mpc /\ mpc \in {"late", "loop"}
    BY DEF NextUpdate, Serving
  <2>3. Updating' => verdict[running] = "valid"
    BY DEF Inv, Updating, Confirmed, OnTrial, bulk
  <2> QED
    BY <2>1, <2>2, <2>3, Kept DEF Inv, Other
<1>2. ASSUME StartMode \/ StartRaw \/ StopTransfer \/ (\E c \in Chunk : Send(c))
      PROVE  Inv'
  <2>1. UNCHANGED <<flash, verdict, selected, running, target, mpc>>
    BY <1>2 DEF StartMode, StartRaw, StopTransfer, Send, persistent
  <2>2. Updating' => Updating
    BY <1>2 DEF StartMode, StartRaw, StopTransfer, Send, Updating, bulk
  <2> QED
    BY <2>1, <2>2, Kept DEF Inv, Other
<1>3. CASE otasupport_UpdateBootPartition
  <2> USE <1>3 DEF otasupport_UpdateBootPartition
  <2>1. Updating /\ verdict[running] = "valid" /\ target = Other(running)
    BY DEF Updating, None, Inv
  <2>2. Confirmed
    BY <2>1 DEF Inv, OnTrial
  <2>3. target \in Part /\ target # running
    BY <2>1, OtherPart DEF Inv, Types
  <2>4. Types'
    BY <2>3 DEF Inv, Types
  <2>5. flash' = flash /\ running' = running /\ target' = target /\ mpc' = mpc
        /\ verdict'[running] = "valid" /\ verdict'[target] = "new" /\ selected' = target
    BY <2>1, <2>3 DEF Inv, Types
  <2>6. Confirmed'
    BY <2>2, <2>5 DEF Confirmed
  <2>7. mpc' \notin {"off", "boot", "early"}
    BY DEF Serving
  <2> QED
    BY <2>1, <2>4, <2>5, <2>6, <2>7 DEF Inv, Other
<1>4. CASE Reset
  BY <1>4, RestartInv DEF Reset
<1> QED
  BY <1>1, <1>2, <1>3, <1>4 DEF UsbTask

\* Only the partition that does not run is written, and only when the running
\* image is confirmed.
LEMMA WriteInv ==
  ASSUME Inv, Updating,
         TypeOK', NEW x,
         flash' = [flash EXCEPT ![target] = x],
         UNCHANGED <<verdict, selected, running>>
  PROVE  Types' /\ Confirmed'
<1>1. verdict[running] = "valid" /\ target = Other(running) /\ Confirmed
  BY DEF Inv, OnTrial
<1>2. target \in Part /\ target # running
  BY <1>1, OtherPart DEF Inv, Types
<1> QED
  BY <1>1, <1>2 DEF Inv, Types, TypeOK, Confirmed

LEMMA BulkTaskInv ==
  ASSUME Inv, BulkTask, TypeOK'
  PROVE  Inv'
<1>1. Updating /\ active /\ mpc \in {"late", "loop"}
  BY DEF BulkTask, Receive, otasupport_Write, WriteFails, TransferDone, ValidateEnd,
         ValidateAnswer, Runs, Updating
<1>2. UNCHANGED <<verdict, selected, running, target, mpc>>
  BY DEF BulkTask, Receive, otasupport_Write, WriteFails, TransferDone, ValidateEnd,
         ValidateAnswer, persistent
<1>3. (Confirmed \/ OnTrial)' /\ Types'
  <2>1. CASE UNCHANGED flash
    BY <2>1, <1>2, Kept
  <2>2. CASE otasupport_Write
    BY <2>2, <1>1, <1>2, WriteInv DEF otasupport_Write
  <2>3. CASE WriteFails /\ ~UNCHANGED flash
    BY <2>3, <1>1, <1>2, WriteInv DEF WriteFails
  <2> QED
    BY <2>1, <2>2, <2>3 DEF BulkTask, Receive, TransferDone, ValidateEnd,
       ValidateAnswer, persistent
<1> QED
  BY <1>1, <1>2, <1>3 DEF Inv, Other

LEMMA NextInv ==
  ASSUME Careful, Inv, TypeOK', [Next]_vars
  PROVE  Inv'
<1>1. CASE PowerLoss
  BY <1>1, Forgets DEF PowerLoss, persistent
<1>2. CASE PowerOn
  <2>1. UNCHANGED <<flash, verdict, selected, running>> /\ ~Updating'
    BY <1>2 DEF PowerOn, persistent, bulk, Inv, Updating
  <2> QED
    BY <2>1, Kept DEF Inv
<1>3. CASE AppMain
  BY <1>3, AppMainInv
<1>4. CASE Restarted
  BY <1>4, Forgets DEF Restarted, persistent
<1>5. CASE UsbTask
  BY <1>5, UsbTaskInv
<1>6. CASE BulkTask
  BY <1>6, BulkTaskInv
<1>7. CASE Reboot
  BY <1>7, RestartInv DEF Reboot
<1>8. CASE UNCHANGED vars
  <2>1. UNCHANGED <<flash, verdict, selected, running, target, mpc>> /\ Updating' = Updating
    BY <1>8 DEF vars, persistent, bulk, Updating
  <2> QED
    BY <2>1, Kept DEF Inv, Other
<1> QED
  BY <1>1, <1>2, <1>3, <1>4, <1>5, <1>6, <1>7, <1>8 DEF Next

\* Whenever power fails, an image crashes or a write goes wrong, a partition
\* with a proven image is what the bootloader ends at, if the host
\* selects only what was found valid (main.c:72,
\* ota_support.c:34-52).
THEOREM AlwaysRecoverable ==
  ASSUME Careful
  PROVE  Spec => []Recoverable
<1>1. Inv => Recoverable
  <2> SUFFICES ASSUME Inv PROVE Recoverable
    OBVIOUS
  <2>1. running \in Part /\ Other(running) \in Part
    BY OtherPart DEF Inv, Types
  <2>2. CASE Confirmed
    BY <2>1, <2>2 DEF Confirmed, Recoverable
  <2>3. CASE OnTrial
    BY <2>1, <2>3 DEF OnTrial, Recoverable
  <2> QED
    BY <2>2, <2>3 DEF Inv
<1>2. Inv /\ TypeOK' /\ [Next]_vars => Inv'
  BY NextInv
<1> QED
  BY InitInv, <1>1, <1>2, TypeCorrect, PTL DEF Spec
-----------------------------------------------------------------------------
(* The image switch *)

\* The two situations of the flash are those of the switch.
LEMMA Situations ==
  ASSUME Inv
  PROVE  /\ Trying => OnTrial
         /\ ~Trying => Confirmed
BY DEF Inv, Trying, Confirmed, OnTrial

\* What leaves the flash and the record alone is no step of the switch.
LEMMA NoSwitch ==
  ASSUME UNCHANGED <<flash, verdict, selected, running>>
  PROVE  UNCHANGED Switch!vars
BY DEF Switch!vars, Proven, Candidate, Selected, Trying, Other

\* A boot tries the candidate, gives it up, or finds none.
LEMMA BootSwitches ==
  ASSUME Inv, Boot
  PROVE  [Switch!Next]_(Switch!vars)
<1> DEFINE r == running
           o == Other(running)
<1>1. /\ r \in Part /\ o \in Part /\ o # r /\ Other(o) = r
      /\ selected = r \/ selected = o
  BY OtherPart DEF Inv, Types
<1>2. /\ running' = Choice /\ selected' = Choice /\ flash' = flash
      /\ flash[Choice] \in Image /\ Choice \in Part
  BY <1>1 DEF Boot, Choice
<1>3. verdict' = [p \in Part |-> IF p # Choice THEN IF p = selected THEN "aborted" ELSE Judged[p]
                                 ELSE IF verdict[p] = "new" THEN "pending" ELSE Judged[p]]
  BY DEF Boot
<1>4. CASE Trying
  <2>1. OnTrial
    BY <1>4, Situations
  <2>2. Choice = o /\ verdict'[o] = "valid"
    BY <1>1, <1>2, <1>3, <2>1 DEF OnTrial, Choice, Judged
  <2>3. /\ Proven = flash[o] /\ Proven' = flash[o] /\ ~Trying' /\ Candidate' = None
    BY <1>1, <1>2, <1>4, <2>2 DEF Proven, Candidate, Selected, Trying
  <2> QED
    BY <1>4, <2>3 DEF Switch!Next, Switch!GiveUp
<1>5. CASE ~Trying
  <2>1. Confirmed
    BY <1>5, Situations
  <2>2. Judged[r] = "valid" /\ flash[r] \in Image
    BY <1>1, <2>1, ImageAssumption DEF Confirmed, Judged
  <2>3. CASE Choice = r
    <3>1. verdict'[r] = "valid"
      BY <1>1, <1>3, <2>1, <2>2, <2>3 DEF Confirmed
    <3>2. ~Selected
      BY <1>1, <2>3 DEF Choice, Judged, Selected
    <3>3. ~Trying' /\ Proven' = Proven /\ Candidate = None /\ Candidate' = None
      BY <1>1, <1>2, <1>5, <2>3, <3>1, <3>2 DEF Proven, Candidate, Selected, Trying
    <3> QED
      BY <1>5, <3>3 DEF Switch!vars, Trying
  <2>4. CASE Choice = o
    <3>1. selected = o /\ verdict[o] = "new"
      BY <1>1, <2>1, <2>2, <2>4 DEF Choice, Judged, Confirmed, Inv, Types
    <3>2. verdict'[o] = "pending"
      BY <1>1, <1>3, <2>4, <3>1
    <3>3. Trying' /\ Proven' = flash[r] /\ Candidate' = flash[o]
      BY <1>1, <1>2, <2>4, <3>2 DEF Proven, Candidate, Trying
    <3>4. Proven = flash[r] /\ Candidate = flash[o] /\ flash[o] \in Image
      BY <1>1, <1>2, <1>5, <2>4, <3>1 DEF Proven, Candidate, Selected
    <3>5. Candidate # None
      BY <3>4, NameAssumption
    <3> QED
      BY <1>5, <3>3, <3>4, <3>5 DEF Switch!Next, Switch!Try
  <2> QED
    BY <1>1, <2>3, <2>4 DEF Choice
<1> QED
  BY <1>4, <1>5

\* app_main confirms the image on trial, or the one that is confirmed.
LEMMA SuccessSwitches ==
  ASSUME Inv, otasupport_ImageBootSuccess
  PROVE  [Switch!Next]_(Switch!vars)
<1>1. /\ running \in Part /\ UNCHANGED <<flash, selected, running>>
      /\ verdict' = [verdict EXCEPT ![running] = IF @ = "pending" THEN "valid" ELSE @]
      /\ flash[running] \in Good
  BY DEF Inv, Types, otasupport_ImageBootSuccess
<1>2. CASE Trying
  <2>1. OnTrial
    BY <1>2, Situations
  <2>2. ~Trying'
    BY <1>1, <1>2 DEF Trying, Inv, Types
  <2>3. Proven' = flash[running] /\ Candidate = flash[running] /\ Candidate' = None
    BY <1>1, <1>2, <2>1, <2>2 DEF Proven, Candidate, Selected, OnTrial
  <2> QED
    BY <1>1, <1>2, <2>2, <2>3 DEF Switch!Next, Switch!Confirm
<1>3. CASE ~Trying
  <2>1. UNCHANGED <<flash, verdict, selected, running>>
    BY <1>1, <1>3 DEF Trying, Inv, Types
  <2> QED
    BY <2>1, NoSwitch
<1> QED
  BY <1>2, <1>3

\* Whatever changes about the partition that does not run selects or withdraws the
\* candidate, as long as the running one is confirmed.
LEMMA OtherSwitches ==
  ASSUME Inv, Inv', ~Trying, ~Trying', UNCHANGED <<running>>,
         flash'[running] = flash[running]
  PROVE  [Switch!Next]_(Switch!vars)
<1>1. Proven' = Proven
  BY DEF Proven
<1>2. Candidate' \in Image \cup {None}
  BY DEF Candidate, Selected
<1>3. CASE Candidate' = None
  BY <1>1, <1>3 DEF Trying, Switch!Next, Switch!Withdraw
<1>4. CASE Candidate' \in Image
  <2>1. Switch!Select(Candidate')
    BY <1>1 DEF Trying, Switch!Select
  <2> QED
    BY <1>4, <2>1 DEF Switch!Next
<1> QED
  BY <1>2, <1>3, <1>4

LEMMA SwitchStep ==
  ASSUME Careful, Inv, Inv', TypeOK', [Next]_vars
  PROVE  [Switch!Next]_(Switch!vars)
<1>1. CASE UNCHANGED <<flash, verdict, selected, running>>
  BY <1>1, NoSwitch
<1>2. CASE Boot
  BY <1>2, BootSwitches
<1>3. CASE otasupport_ImageBootSuccess
  BY <1>3, SuccessSwitches
<1>4. CASE otasupport_UpdateBootPartition
  <2>1. Updating /\ UNCHANGED <<flash, running>>
    BY <1>4 DEF otasupport_UpdateBootPartition, Updating, None
  <2>2. verdict[running] = "valid" /\ target = Other(running) /\ running \in Part
    BY <2>1 DEF Inv, Types
  <2>3. verdict'[running] = "valid"
    BY <1>4, <2>2, OtherPart DEF otasupport_UpdateBootPartition, Inv, Types
  <2> QED
    BY <2>1, <2>2, <2>3, OtherSwitches DEF Trying
<1>5. CASE otasupport_Write \/ WriteFails
  <2>1. /\ Updating /\ UNCHANGED <<verdict, running>>
        /\ flash' = flash \/ \E x : flash' = [flash EXCEPT ![target] = x]
    BY <1>5 DEF otasupport_Write, WriteFails, Runs, Updating
  <2>2. verdict[running] = "valid" /\ target = Other(running) /\ running \in Part
    BY <2>1 DEF Inv, Types
  <2>3. flash'[running] = flash[running]
    BY <2>1, <2>2, OtherPart DEF Inv, Types
  <2> QED
    BY <2>1, <2>2, <2>3, OtherSwitches DEF Trying
<1> QED
  BY <1>1, <1>2, <1>3, <1>4, <1>5 DEF Next, AppMain, UsbTask, BulkTask, PowerLoss, PowerOn,
     UsbUp, Crash, Reboot, Restarted, otasupport_Start, StartMode, StartRaw, StopTransfer,
     Send, Reset, Receive, TransferDone, ValidateEnd, ValidateAnswer, persistent, vars

\* A careful host switches images the way ImageSwitch promises: an update replaces the
\* proven image only with one that got through its trial, and a failed one is not
\* tried again, wherever power fails (main.c:72, ota_support.c:34-98).
THEOREM UpdateImplementsSwitch ==
  ASSUME Careful
  PROVE  Spec => ImplementsSwitch
<1>1. Init => Switch!Init
  BY DEF Init, Switch!Init, Proven, Candidate, Selected, Trying, Part
<1>2. Inv /\ Inv' /\ TypeOK' /\ [Next]_vars => [Switch!Next]_(Switch!vars)
  BY SwitchStep
<1>3. Inv /\ TypeOK' /\ [Next]_vars => Inv'
  BY NextInv
<1> QED
  BY InitInv, <1>1, <1>2, <1>3, TypeCorrect, PTL DEF Spec, ImplementsSwitch, Switch!Spec
=============================================================================
