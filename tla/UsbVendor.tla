------------------------------- MODULE UsbVendor -------------------------------
(* UsbBulk driven by a host that keeps the protocol of the vendor interface: it
   opens one mode or transfer at a time, closes it before the next one, and
   waits for the answer to what it sent.  A "polite" host starts again as soon
   as it has the answer; an "idle" one also waits until the bulk task has
   suspended itself, which nothing tells it.                                  *)
EXTENDS UsbBulk, FiniteSets

CONSTANTS Host,       \* "polite" or "idle"
          Uses,       \* the sessions this host opens, and "power" if it switches the slaves
          HexItems,   \* what the hex files of this host are made of
          MaxSend,    \* bound: items sent in one hex or OTA transfer
          Timeouts,   \* the sessions in which the host stops waiting at last
          MayUnplug   \* whether the cable may be pulled

ASSUME HostAssumption ==
    /\ Host \in {"polite", "idle"}
    /\ HexItems \subseteq Item
    /\ MaxSend \in Nat
    /\ Uses \subseteq {"lin", "btl", "hex", "ota", "power"}
    /\ Timeouts \subseteq {"lin", "btl", "hex", "ota"}
    /\ MayUnplug \in BOOLEAN

VARIABLES session,   \* the mode or transfer the host has open, or "none"
          awaiting,  \* it waits for an answer on the bulk endpoint
          sent,      \* items sent in this transfer
          records,   \* data records among them that the ring took
          mounted    \* the device is configured by a host

host == <<session, awaiting, sent, records>>
allVars == <<vars, host, mounted>>

SessionOf == [lin_on |-> "lin", lin_off |-> "lin", btl_on |-> "btl", btl_off |-> "btl",
              hex_on |-> "hex", hex_off |-> "hex", ota_on |-> "ota", ota_off |-> "ota"]
Transfer == {"hex", "ota"}

VendorTypeOK ==
    /\ TypeOK
    /\ session \in {"none", "lin", "btl"} \cup Transfer
    /\ awaiting \in BOOLEAN
    /\ sent \in 0..MaxSend
    /\ records \in 0..sent
    /\ mounted \in BOOLEAN

VendorInit ==
    /\ Init
    /\ session = "none"
    /\ awaiting = FALSE
    /\ sent = 0
    /\ records = 0
    /\ mounted = TRUE

HostMay(r) ==
    /\ mounted /\ ~awaiting
    /\ SessionOf[r] \in Uses
    /\ session = IF r \in Starts THEN "none" ELSE SessionOf[r]
    /\ Host = "idle" /\ r \in Starts => bpc = "suspended" /\ suspended

\* The end of a transfer is answered on the bulk endpoint, that of a mode is not.
HostRequest(r) ==
    /\ HostMay(r)
    /\ Request(r)
    /\ session' = IF r \in {"lin_off", "btl_off"} THEN "none" ELSE SessionOf[r]
    /\ awaiting' = (r \in {"hex_off", "ota_off"})
    /\ IF r \in Starts THEN sent' = 0 /\ records' = 0 ELSE UNCHANGED <<sent, records>>
    /\ UNCHANGED mounted

\* A host in LIN mode leaves the slave power on.
HostPower(on) ==
    /\ mounted /\ "power" \in Uses
    /\ on \/ session # "lin"
    /\ SlavePower(on)
    /\ UNCHANGED <<host, mounted>>

\* A command is answered; the records of a transfer are not, and a host that
\* sends more than the ring holds loses some.
HostCommand ==
    /\ mounted /\ ~awaiting /\ session \in {"lin", "btl"}
    /\ RxCallback("frame")
    /\ awaiting' = TRUE
    /\ UNCHANGED <<session, sent, records, mounted>>

HostData(i) ==
    /\ mounted /\ ~awaiting /\ session \in Transfer
    /\ i \in (IF session = "hex" THEN HexItems ELSE {"junk"})
    /\ sent < MaxSend
    /\ RxCallback(i)
    /\ sent' = sent + 1
    /\ records' = IF i = "line" /\ Len(rx) < RxCap THEN records + 1 ELSE records
    /\ UNCHANGED <<session, awaiting, mounted>>

HostAnswered ==
    /\ session' = IF session \in Transfer THEN "none" ELSE session
    /\ awaiting' = FALSE
    /\ UNCHANGED <<sent, records, mounted>>

\* Its timeout is longer than anything the device does before it answers.
HostTimeout ==
    /\ awaiting /\ session \in Timeouts
    /\ tpc = "idle" /\ bpc = "suspended" /\ suspended
    /\ HostAnswered
    /\ UNCHANGED vars

\* The device restarts and disappears from the bus for a moment, and so does the
\* transfer that was open.
HostRestarted ==
    /\ DeviceFault
    /\ session' = "none"
    /\ awaiting' = FALSE
    /\ sent' = 0 /\ records' = 0
    /\ UNCHANGED mounted

HostStalled ==
    /\ OtaStall
    /\ session' = "none"
    /\ UNCHANGED <<awaiting, sent, records, mounted>>

\* tud_umount_cb and tud_suspend_cb run in the tinyusb task and do nothing.
Unplug ==
    /\ MayUnplug /\ mounted /\ tpc = "idle"
    /\ mounted' = FALSE
    /\ session' = "none"
    /\ awaiting' = FALSE
    /\ UNCHANGED <<vars, sent, records>>

Plug ==
    /\ ~mounted
    /\ mounted' = TRUE
    /\ UNCHANGED <<vars, host>>

VendorNext ==
    \/ BulkAnswer /\ HostAnswered
    \/ (BulkSilent \/ UsbStepNext \/ WebClaim \/ WebRelease) /\ UNCHANGED <<host, mounted>>
    \/ \E r \in Starts \cup Stops : HostRequest(r)
    \/ \E on \in BOOLEAN : HostPower(on)
    \/ HostCommand
    \/ \E i \in Item : HostData(i)
    \/ HostTimeout \/ HostRestarted \/ HostStalled
    \/ Unplug \/ Plug

\* The FreeRTOS scheduler lets both tasks run; the host promises nothing.
VendorSpec ==
    /\ VendorInit
    /\ [][VendorNext]_allVars
    /\ WF_allVars((BulkAnswer /\ HostAnswered) \/ (BulkSilent /\ UNCHANGED <<host, mounted>>))
    /\ WF_allVars(UsbStepNext /\ UNCHANGED <<host, mounted>>)
-----------------------------------------------------------------------------
(* Properties *)

\* The drivers are used under the claim of their mode, LIN on powered slaves
\* (usb_vendor_btl_ppm.c:66-93, usb_vendor_lin_comm.c:133-135).
UsedUnderClaim ==
    /\ bpc = "lin_action" => bus = "usb_app" /\ power
    /\ bpc = "btl_action" => bus = "usb_btl"

\* A host that closed its mode leaves no USB claim behind
\* (usb_vendor_lin_comm.c:140-141, usb_vendor_btl_ppm.c:157-158).
NoClaimLeft == session = "none" /\ tpc = "idle" => bus \in {"free", "web"}

\* The containers a bootloader action works on are not freed under it
\* (usb_vendor_hex_transfer.c:134-138, usb_vendor_btl_ppm.c:88-93).
FileLive == fileInUse # "freed"

\* A handler that was not running starts on an empty buffer at a valid write
\* position (usb_vendor_bulk.c:101-109).
StartsFresh ==
    bpc = "check" /\ handle \notin {"none", running} => buf = <<>> /\ ~negative

\* A request that starts a handler takes effect: it is not refused because the last
\* handler is still there, and when it is over, the task that is to run the handler
\* neither sleeps nor is about to (usb_vendor_bulk.c:101-109, 201-208).
StartsTakeEffect ==
    /\ tpc \in {"start_command", "start_raw"} => handle = "none"
    /\ tpc = "idle" /\ handle # "none" => ~suspended /\ bpc # "suspend"

\* Whenever "OK" ends a hex transfer, a record that the ring took and that is not
\* in the containers is still waiting in the ring (usb_vendor_hex_transfer.c:58-117,
\* usb_vendor_bulk.c:269-282).
Lines(q) == Cardinality({i \in 1..Len(q) : IsLine(q[i])})
NoRecordLost == [][HexDone => hexFile + Lines(rx) >= records]_allVars

\* A host that ends a transfer gets its answer, a hex transfer as long as all that
\* is left of it can be parsed: other text, also text that an earlier session left
\* in the ring, stops the parser for ever (usb_vendor_hex_transfer.c:82-117,
\* usb_vendor_ota.c:72-86).
Parsable == \A i \in 1..Len(buf \o rx) : (buf \o rx)[i] \in {"line", "ctrl"}
TransferAnswered ==
    (awaiting /\ session \in Transfer /\ (session = "hex" => Parsable)) ~> ~awaiting

\* A command the ring took is answered wherever its mode is really on: also next
\* to text of an earlier session, and to claims of the web server, but not where
\* the mode was acknowledged without a claim or a start (usb_vendor_bulk.c:116-180,
\* usb_vendor_lin_comm.c:133-137, usb_vendor_btl_ppm.c:66-139).
Framed == \E i \in 1..Len(buf \o rx) : (buf \o rx)[i] = "frame"
CommandAnswered ==
    (awaiting /\ session \in {"lin", "btl"} /\ handle = "cmd" /\ Framed) ~> ~awaiting
=============================================================================
