------------------------------ MODULE OtaUpdate ------------------------------
(* A firmware update over USB: the two partitions and their record in flash,
   which survive a restart; the update itself (ota_support.c, usb_vendor_ota.c),
   which does not; and app_main, which confirms a new image only after it has
   started everything.  The bootloader and the ESP-IDF calls are external, as
   CONFIG_BOOTLOADER_APP_ROLLBACK_ENABLE and ota_support.h describe them.  The
   steps of starting a handler of the bulk task are those of UsbBulk.          *)
EXTENDS Naturals, Sequences

CONSTANTS Image,   \* the firmware images a host may send
          Good,    \* those that get through app_main's initialisation
          Factory, \* the image of a new device
          RingCap, \* bound: chunks the rx ring holds
          Careful  \* the host asks for the new image only after "VALID"

ASSUME ImageAssumption == Good \subseteq Image /\ Factory \in Good
ASSUME RingAssumption == RingCap \in Nat
ASSUME HostAssumption == Careful \in BOOLEAN

VARIABLES flash,    \* what each partition holds
          verdict,  \* the state of each partition in the OTA data
          selected, \* the partition the OTA data selects
          running,  \* the partition the program runs from
          mpc,      \* where the device is between power off and app_main's loop
          target,   \* update_partition
          update,   \* update_handle, as what was written through it
          mode,     \* ota_transfer_mode
          active,   \* the OTA handler is the bulk task's
          ring,     \* chunks received and not read
          bpc,      \* where the bulk task is
          chunk,    \* the chunk it holds, if any
          tpc,      \* where the tinyusb task is
          answer    \* what the host was told of its last transfer

persistent == <<flash, verdict, selected>>
bulk == <<active, ring, bpc, chunk>>
vars == <<persistent, running, mpc, target, update, mode, bulk, tpc, answer>>

Part == {"ota_0", "ota_1"}
None == "none"      \* no partition, no answer
Torn == "torn"      \* no whole image
Chunk == [image : Image, part : {"first", "last"}]  \* the halves of an image
Handle == [state : {"closed", "empty", "first", "whole", "torn"}, image : Image]
Closed == [state |-> "closed", image |-> Factory]   \* no handle

ASSUME NameAssumption == Torn \notin Image /\ None \notin Image

TypeOK ==
    /\ flash \in [Part -> Image \cup {Torn}]
    /\ verdict \in [Part -> {"new", "pending", "valid", "aborted"}]
    /\ selected \in Part
    /\ running \in Part
    /\ mpc \in {"off", "restart", "boot", "early", "late", "loop"}
    /\ target \in Part \cup {None}
    /\ update \in Handle
    /\ mode \in BOOLEAN
    /\ active \in BOOLEAN
    /\ active => target \in Part
    /\ ring \in Seq(Chunk)
    /\ bpc \in {"poll", "write", "validate", "VALID", "FAIL"}
    /\ chunk \in Seq(Chunk)
    /\ bpc = "write" => chunk # <<>>
    /\ tpc \in {"idle", "mode", "start"}
    /\ answer \in {None, "VALID", "FAIL"}

Other(p) == IF p = "ota_0" THEN "ota_1" ELSE "ota_0"

\* The variables of the program when it starts.
ClearRam ==
    /\ target' = None /\ update' = Closed /\ mode' = FALSE
    /\ active' = FALSE /\ ring' = <<>> /\ bpc' = "poll" /\ chunk' = <<>>
    /\ tpc' = "idle" /\ answer' = None

Init ==
    /\ flash = [p \in Part |-> IF p = "ota_0" THEN Factory ELSE Torn]
    /\ verdict = [p \in Part |-> IF p = "ota_0" THEN "valid" ELSE "aborted"]
    /\ selected = "ota_0" /\ running = "ota_0"
    /\ mpc = "off"
    /\ target = None /\ update = Closed /\ mode = FALSE
    /\ active = FALSE /\ ring = <<>> /\ bpc = "poll" /\ chunk = <<>>
    /\ tpc = "idle" /\ answer = None
-----------------------------------------------------------------------------
(* Power, the bootloader, app_main *)

PowerLoss ==
    /\ mpc # "off"
    /\ mpc' = "off"
    /\ ClearRam
    /\ UNCHANGED <<persistent, running>>

PowerOn ==
    /\ mpc = "off"
    /\ mpc' = "boot"
    /\ UNCHANGED <<persistent, running, target, update, mode, bulk, tpc, answer>>

\* An image on trial that was not confirmed is given up, and one that is not
\* whole passed over: then the other partition is selected.
Judged == [p \in Part |-> IF verdict[p] = "pending" THEN "aborted" ELSE verdict[p]]

Choice == IF Judged[selected] # "aborted" /\ flash[selected] \in Image
            THEN selected ELSE Other(selected)

Boot ==
    /\ mpc = "boot"
    /\ flash[Choice] \in Image
    /\ mpc' = "early"
    /\ running' = Choice
    /\ selected' = Choice
    /\ verdict' = [p \in Part |-> IF p # Choice THEN IF p = selected THEN "aborted" ELSE Judged[p]
                                  ELSE IF verdict[p] = "new" THEN "pending" ELSE Judged[p]]
    /\ UNCHANGED <<flash, target, update, mode, bulk, tpc, answer>>

\* Mutant of UsbUp: the image is confirmed before the rest has started.
UsbUpConfirms ==
    /\ mpc = "early"
    /\ mpc' = "late"
    /\ verdict' = [verdict EXCEPT ![running] = "valid"]
    /\ UNCHANGED <<flash, selected, running, target, update, mode, bulk, tpc, answer>>

\* usbdevice_init: from here on the host's requests are served.
UsbUp ==
    /\ mpc = "early"
    /\ mpc' = "late"
    /\ UNCHANGED <<persistent, running, target, update, mode, bulk, tpc, answer>>

\* An image that is not good fails somewhere on the way, and the device restarts.
Crash ==
    /\ mpc \in {"early", "late"} /\ flash[running] \notin Good
    /\ mpc' = "boot"
    /\ ClearRam
    /\ UNCHANGED <<persistent, running>>

otasupport_ImageBootSuccess ==
    /\ mpc = "late" /\ flash[running] \in Good
    /\ mpc' = "loop"
    /\ verdict' = [verdict EXCEPT ![running] = IF @ = "pending" THEN "valid" ELSE @]
    /\ UNCHANGED <<flash, selected, running, target, update, mode, bulk, tpc, answer>>

AppMain == Boot \/ UsbUp \/ Crash \/ otasupport_ImageBootSuccess
-----------------------------------------------------------------------------
(* The requests of the host, in the tinyusb task *)

Serving == mpc \in {"late", "loop"} /\ tpc = "idle"

\* Mutant of NextUpdate: the running partition.
ThisOne(p) == p

\* esp_ota_get_next_update_partition
NextUpdate(p) == Other(p)

\* Takes the partition even where esp_ota_begin then refuses, as it does as long
\* as the running image is on trial.
otasupport_Start ==
    /\ Serving
    /\ target' = NextUpdate(running)
    /\ \/ /\ verdict[running] # "pending"
          /\ update' = [Closed EXCEPT !.state = "empty"]
          /\ tpc' = "mode"
          /\ answer' = None
       \/ UNCHANGED <<update, tpc, answer>>
    /\ UNCHANGED <<persistent, running, mpc, mode, bulk>>

StartMode ==
    /\ tpc = "mode"
    /\ mode' = TRUE
    /\ tpc' = "start"
    /\ UNCHANGED <<persistent, running, mpc, target, update, bulk, answer>>

\* A handler that is still there stays, and the ring with it.
StartRaw ==
    /\ tpc = "start"
    /\ tpc' = "idle"
    /\ active' = TRUE
    /\ ring' = IF active THEN ring ELSE <<>>
    /\ UNCHANGED <<persistent, running, mpc, target, update, mode, bpc, chunk, answer>>

StopTransfer ==
    /\ Serving
    /\ mode' = FALSE
    /\ UNCHANGED <<persistent, running, mpc, target, update, bulk, tpc, answer>>

Send(c) ==
    /\ Serving /\ active /\ Len(ring) < RingCap
    /\ ring' = Append(ring, c)
    /\ UNCHANGED <<persistent, running, mpc, target, update, mode, active, bpc, chunk,
                   tpc, answer>>

\* Mutant of otasupport_UpdateBootPartition: the image is selected without a trial, as
\* a build without CONFIG_BOOTLOADER_APP_ROLLBACK_ENABLE does.
UpdateBootUntried ==
    /\ Serving
    /\ Careful => answer = "VALID"
    /\ target \in Part /\ flash[target] \in Image
    /\ selected' = target
    /\ verdict' = [verdict EXCEPT ![target] = "valid"]
    /\ UNCHANGED <<flash, running, mpc, target, update, mode, bulk, tpc, answer>>

\* esp_ota_set_boot_partition checks the image again and refuses one that is not
\* whole, and a partition that was never taken.
otasupport_UpdateBootPartition ==
    /\ Serving
    /\ Careful => answer = "VALID"
    /\ target \in Part /\ flash[target] \in Image
    /\ selected' = target
    /\ verdict' = [verdict EXCEPT ![target] = "new"]
    /\ UNCHANGED <<flash, running, mpc, target, update, mode, bulk, tpc, answer>>

\* The USB request, in its ACK stage.
Reset ==
    /\ Serving
    /\ mpc' = "restart"
    /\ UNCHANGED <<persistent, running, target, update, mode, bulk, tpc, answer>>

\* The REST request, in the httpd task.
Reboot ==
    /\ mpc \in {"late", "loop"}
    /\ mpc' = "restart"
    /\ UNCHANGED <<persistent, running, target, update, mode, bulk, tpc, answer>>

\* esp_restart
Restarted ==
    /\ mpc = "restart"
    /\ mpc' = "boot"
    /\ ClearRam
    /\ UNCHANGED <<persistent, running>>
-----------------------------------------------------------------------------
(* The OTA handler, in the bulk task *)

Runs == active /\ mpc \in {"late", "loop"}

Receive ==
    /\ Runs /\ bpc = "poll" /\ ring # <<>>
    /\ chunk' = <<Head(ring)>>
    /\ ring' = Tail(ring)
    /\ bpc' = "write"
    /\ UNCHANGED <<persistent, running, mpc, target, update, mode, active, tpc, answer>>

\* What was written through a handle, after one more chunk.
Written(c) ==
    [state |-> CASE update.state = "empty" /\ c.part = "first" -> "first"
                 [] /\ update.state = "first" /\ update.image = c.image
                    /\ c.part = "last"                          -> "whole"
                 [] OTHER                                      -> "torn",
     image |-> c.image]

\* The first write through a handle erases what the partition held.
otasupport_Write ==
    /\ Runs /\ bpc = "write" /\ update.state # "closed"
    /\ update' = Written(Head(chunk))
    /\ flash' = [flash EXCEPT ![target] = IF update'.state = "whole" THEN update'.image ELSE Torn]
    /\ bpc' = "poll" /\ chunk' = <<>>
    /\ UNCHANGED <<verdict, selected, running, mpc, target, mode, active, ring, tpc, answer>>

\* The flash fails, or there is no handle any more.
WriteFails ==
    /\ Runs /\ bpc = "write"
    /\ \/ UNCHANGED flash
       \/ update.state # "closed" /\ flash' = [flash EXCEPT ![target] = Torn]
    /\ mode' = FALSE /\ active' = FALSE
    /\ answer' = "FAIL"
    /\ bpc' = "poll" /\ chunk' = <<>>
    /\ UNCHANGED <<verdict, selected, running, mpc, target, update, ring, tpc>>

TransferDone ==
    /\ Runs /\ bpc = "poll" /\ ring = <<>> /\ ~mode
    /\ bpc' = "validate"
    /\ UNCHANGED <<persistent, running, mpc, target, update, mode, active, ring, chunk,
                   tpc, answer>>

\* esp_ota_end closes the handle; update_handle is cleared after it.
ValidateEnd ==
    /\ Runs /\ bpc = "validate"
    /\ bpc' = IF update.state = "whole" THEN "VALID" ELSE "FAIL"
    /\ UNCHANGED <<persistent, running, mpc, target, update, mode, active, ring, chunk,
                   tpc, answer>>

ValidateAnswer ==
    /\ Runs /\ bpc \in {"VALID", "FAIL"}
    /\ update' = Closed
    /\ answer' = bpc
    /\ active' = FALSE
    /\ bpc' = "poll"
    /\ UNCHANGED <<persistent, running, mpc, target, mode, ring, chunk, tpc>>

BulkTask == Receive \/ otasupport_Write \/ WriteFails \/ TransferDone
              \/ ValidateEnd \/ ValidateAnswer
-----------------------------------------------------------------------------
UsbTask ==
    \/ otasupport_Start \/ StartMode \/ StartRaw \/ StopTransfer
    \/ \E c \in Chunk : Send(c)
    \/ otasupport_UpdateBootPartition \/ Reset

Next == PowerLoss \/ PowerOn \/ AppMain \/ Reboot \/ Restarted \/ UsbTask \/ BulkTask

\* The device runs while it has power.
Fairness == WF_vars(AppMain) /\ WF_vars(Restarted)

Spec == Init /\ [][Next]_vars /\ Fairness
-----------------------------------------------------------------------------
(* Properties *)

\* Whatever was written when the power went or an image failed, one partition
\* holds an image that has proved itself, and the bootloader gets to it: what it
\* would run before is on trial or given up (main.c:72, ota_support.c:34-52).
Recoverable ==
    \E p \in Part :
       /\ flash[p] \in Good /\ verdict[p] = "valid"
       /\ selected # p => verdict[selected] # "valid" \/ flash[selected] \in Good

\* A boot gets to app_main's loop unless power fails or somebody restarts the
\* device: no image makes it restart for ever (main.c:45-82).
BootEnds == mpc = "boot" ~> mpc \in {"loop", "off", "restart"}

\* The abstract switch: the running image is on trial, or it is the proven one and a
\* candidate may be selected next to it.
Trying == verdict[running] = "pending"
Proven == IF Trying THEN flash[Other(running)] ELSE flash[running]
Selected == selected # running /\ verdict[selected] = "new" /\ flash[selected] \in Image
Candidate ==
    IF Trying THEN flash[running] ELSE IF Selected THEN flash[selected] ELSE None

Switch == INSTANCE ImageSwitch
            WITH proven <- Proven, candidate <- Candidate, trial <- Trying, Nothing <- None

\* An update replaces the proven image only with one that got through its trial, and
\* tries none twice unless it is selected again, whatever the host sends and
\* wherever power fails (main.c:72, ota_support.c:34-98).
ImplementsSwitch == Switch!Spec
=============================================================================
