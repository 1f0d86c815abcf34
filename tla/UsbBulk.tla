-------------------------------- MODULE UsbBulk --------------------------------
(* The bulk endpoint of the vendor interface: usb_vendor_bulk_task (one task,
   usb_vendor_bulk.c) runs the handler that a control request on the tinyusb
   task installed (vendor_req_hndl/usb_vendor_{lin_comm,btl_ppm,hex_transfer,
   ota}.c).  The two tasks share bulk_task_handle, command_handle, the transfer
   modes, the hex file and the bus claim, and no lock.  The host here sends any
   request and any data at any time; UsbVendor adds hosts that keep a protocol. *)
EXTENDS Naturals, Sequences

CONSTANTS RxCap,       \* items bulk_rx_buf_handle holds
          BufCap,      \* items the task's buffer holds, with the 0 behind them
          MaxFile,     \* bound: records counted in the hex file
          OtaMayFail,  \* whether esp_ota_begin and esp_ota_write can fail
          WebUser      \* whether the web server competes for the bus

ASSUME BoundAssumption == {RxCap, BufCap, MaxFile} \subseteq Nat \ {0}
\* Both have the size BULK_TASK_BUFFER_LEN: what a call takes fits an empty buffer.
ASSUME SizeAssumption == RxCap <= BufCap
ASSUME ChoiceAssumption == {OtaMayFail, WebUser} \subseteq BOOLEAN

\* Bulk data by what the handlers tell apart: an intelhex data record, an
\* intelhex record without data, a command frame, anything else.
Item == {"line", "ctrl", "frame", "junk"}

Starts == {"lin_on", "btl_on", "hex_on", "ota_on"}
Stops == {"lin_off", "btl_off", "hex_off", "ota_off"}
Handler == {"cmd", "hex", "ota"}

VARIABLES handle,     \* bulk_task_handle: the installed handler, or "none"
          command,    \* command_handle: "lin", "btl" or "none"
          suspended,  \* the bulk task is suspended
          bpc,        \* where the bulk task is
          running,    \* the handler it loaded from bulk_task_handle
          buf,        \* the unconsumed items in its buffer
          negative,   \* buffer_wr_ptr < 0
          rx,         \* the items in bulk_rx_buf_handle
          head,       \* its read position: what lies beyond the end is not contiguous
          hexMode,    \* btl_transfer_mode
          hexFile,    \* data records in the intelhex containers
          fileInUse,  \* doAction's containers: "none", "live" or "freed"
          otaMode,    \* ota_transfer_mode
          otaOpen,    \* update_handle is an open esp_ota handle
          bus,        \* the claim the bus manager records
          power,      \* CONFIG_SLAVE_POWER_CTRL
          tpc,        \* where the tinyusb task is in a control request
          treq        \* the control request it handles, or "none"

task == <<bpc, running, buf, negative>>
ring == <<rx, head>>
handles == <<handle, command, suspended>>
hexVars == <<hexMode, hexFile, fileInUse>>
otaVars == <<otaMode, otaOpen>>
busVars == <<bus, power>>
usb == <<tpc, treq>>
vars == <<handles, task, ring, hexVars, otaVars, busVars, usb>>

BulkStep == {"check", "suspend", "suspended", "receive", "hex", "ota", "cmd",
             "lin_action", "btl_claim", "btl_action", "return", "clear"}
UsbStep == {"idle", "lin_claim", "start_command", "start_raw", "flush", "install",
            "resume", "stop_handle", "stop_command", "release", "hex_clear",
            "hex_mode", "ota_begin", "ota_mode", "ack"}

TypeOK ==
    /\ handle \in Handler \cup {"none"}
    /\ command \in {"lin", "btl", "none"}
    /\ suspended \in BOOLEAN
    /\ bpc \in BulkStep
    /\ running \in Handler \cup {"none"}
    /\ buf \in Seq(Item)
    /\ negative \in BOOLEAN
    /\ rx \in Seq(Item) /\ Len(rx) <= RxCap
    /\ head \in 0..(RxCap - 1)
    /\ hexMode \in BOOLEAN
    /\ hexFile \in 0..MaxFile
    /\ fileInUse \in {"none", "live", "freed"}
    /\ otaMode \in BOOLEAN
    /\ otaOpen \in BOOLEAN
    /\ bus \in {"free", "web", "usb_app", "usb_btl"}
    /\ power \in BOOLEAN
    /\ tpc \in UsbStep
    /\ treq \in Starts \cup Stops \cup {"none"}

Init ==
    /\ handle = "none"
    /\ command = "none"
    /\ suspended = FALSE
    /\ bpc = "check"
    /\ running = "none"
    /\ buf = <<>>
    /\ negative = FALSE
    /\ rx = <<>>
    /\ head = 0
    /\ hexMode = FALSE
    /\ hexFile = 0
    /\ fileInUse = "none"
    /\ otaMode = FALSE
    /\ otaOpen = FALSE
    /\ bus = "free"
    /\ power = FALSE
    /\ tpc = "idle"
    /\ treq = "none"
-----------------------------------------------------------------------------
(* usb_vendor_bulk_task *)

\* One load of bulk_task_handle serves the test and the call.
BulkCheck ==
    /\ bpc = "check"
    /\ running' = handle
    /\ bpc' = IF handle = "none" THEN "suspend" ELSE "receive"
    /\ UNCHANGED <<handles, buf, negative, ring, hexVars, otaVars, busVars, usb>>

BulkSuspend ==
    /\ bpc = "suspend"
    /\ suspended' = TRUE
    /\ bpc' = "suspended"
    /\ UNCHANGED <<handle, command, running, buf, negative, ring, hexVars, otaVars,
                   busVars, usb>>

\* Mutant of BulkWake: the write position and the buffer survive the suspension.
WakeKeepsBuffer ==
    /\ bpc = "suspended" /\ ~suspended
    /\ bpc' = "check"
    /\ UNCHANGED <<handles, running, buf, negative, ring, hexVars, otaVars, busVars, usb>>

BulkWake ==
    /\ bpc = "suspended" /\ ~suspended
    /\ bpc' = "check"
    /\ buf' = <<>>
    /\ negative' = FALSE
    /\ UNCHANGED <<handles, running, ring, hexVars, otaVars, busVars, usb>>

BulkReturn ==
    /\ bpc = "return"
    /\ bpc' = IF negative THEN "clear" ELSE "check"
    /\ UNCHANGED <<handles, running, buf, negative, ring, hexVars, otaVars, busVars, usb>>

\* Clears whatever is installed now.
BulkClear ==
    /\ bpc = "clear"
    /\ handle' = "none"
    /\ bpc' = "check"
    /\ UNCHANGED <<command, suspended, running, buf, negative, ring, hexVars, otaVars,
                   busVars, usb>>

\* A byte ring hands out what is contiguous, never what wraps around its end.
Contiguous == IF Len(rx) <= RxCap - head THEN Len(rx) ELSE RxCap - head

Take(n) ==
    /\ rx' = SubSeq(rx, n + 1, Len(rx))
    /\ head' = (head + n) % RxCap

\* After 25 ms without data the handler goes on without.
ReceiveNothing ==
    /\ bpc = "receive"
    /\ rx = <<>>
    /\ bpc' = running
    /\ UNCHANGED <<handles, running, buf, negative, ring, hexVars, otaVars, busVars, usb>>

\* Appends to the buffer, whether it has room or not: what the handler cannot consume
\* runs past its end.  A negative write position mangles the first item.
Receive ==
    /\ bpc = "receive" /\ running \in {"hex", "cmd"}
    /\ \E n \in 1..Contiguous :
          /\ buf' = buf \o (IF negative THEN <<"junk">> \o SubSeq(rx, 2, n)
                                        ELSE SubSeq(rx, 1, n))
          /\ Take(n)
    /\ negative' = FALSE
    /\ bpc' = running
    /\ UNCHANGED <<handles, running, hexVars, otaVars, busVars, usb>>
-----------------------------------------------------------------------------
(* usb_vendor_hex_transfer_handler *)

IsLine(i) == i = "line"

\* The parser takes the first n items of b as data records and stops there, at
\* the end, at a record without data or at text it cannot parse.
ParsesTo(b, n) ==
    /\ \A i \in 1..n : IsLine(b[i])
    /\ n < Len(b) => ~IsLine(b[n + 1])

\* A record without data is consumed.
Consumed(b, n) == IF n < Len(b) /\ b[n + 1] = "ctrl" THEN n + 1 ELSE n

\* Mutant of HexParse: what follows the record without data is not moved up.
HexParseDropsRest ==
    /\ bpc = "hex" /\ buf # <<>>
    /\ \E n \in 0..Len(buf) :
          /\ ParsesTo(buf, n)
          /\ hexFile + n <= MaxFile
          /\ hexFile' = hexFile + n
    /\ buf' = <<>>
    /\ bpc' = "return"
    /\ UNCHANGED <<handles, running, negative, ring, hexMode, fileInUse, otaVars, busVars, usb>>

HexParse ==
    /\ bpc = "hex" /\ buf # <<>>
    /\ \E n \in 0..Len(buf) :
          /\ ParsesTo(buf, n)
          /\ hexFile + n <= MaxFile
          /\ hexFile' = hexFile + n
          /\ buf' = SubSeq(buf, Consumed(buf, n) + 1, Len(buf))
    /\ bpc' = "return"
    /\ UNCHANGED <<handles, running, negative, ring, hexMode, fileInUse, otaVars, busVars, usb>>

HexWait ==
    /\ bpc = "hex" /\ buf = <<>> /\ hexMode
    /\ bpc' = "return"
    /\ UNCHANGED <<handles, running, buf, negative, ring, hexVars, otaVars, busVars, usb>>

\* Answers "OK" before the task clears the handle.
HexDone ==
    /\ bpc = "hex" /\ buf = <<>> /\ ~hexMode
    /\ negative' = TRUE
    /\ bpc' = "return"
    /\ UNCHANGED <<handles, running, buf, ring, hexVars, otaVars, busVars, usb>>
-----------------------------------------------------------------------------
(* usb_vendor_bulk_ota_task_handler *)

OtaWrite ==
    /\ bpc = "receive" /\ running = "ota"
    /\ otaOpen
    /\ \E n \in 1..Contiguous : Take(n)
    /\ bpc' = "return"
    /\ UNCHANGED <<handles, running, buf, negative, hexVars, otaVars, busVars, usb>>

\* Answers "FAIL"; the esp_ota handle stays open.
OtaWriteFails ==
    /\ bpc = "receive" /\ running = "ota"
    /\ OtaMayFail \/ ~otaOpen
    /\ \E n \in 1..Contiguous : Take(n)
    /\ negative' = TRUE /\ buf' = <<>>
    /\ otaMode' = FALSE
    /\ bpc' = "return"
    /\ UNCHANGED <<handles, running, hexVars, otaOpen, busVars, usb>>

OtaWait ==
    /\ bpc = "ota" /\ otaMode
    /\ bpc' = "return"
    /\ UNCHANGED <<handles, running, buf, negative, ring, hexVars, otaVars, busVars, usb>>

\* Ends the esp_ota handle and answers "VALID" or "FAIL".
OtaDone ==
    /\ bpc = "ota" /\ ~otaMode
    /\ negative' = TRUE /\ buf' = <<>>
    /\ otaOpen' = FALSE
    /\ bpc' = "return"
    /\ UNCHANGED <<handles, running, ring, hexVars, otaMode, busVars, usb>>
-----------------------------------------------------------------------------
(* usb_vendor_bulk_command_handler *)

IsFirstFrame(b, i) == b[i] = "frame" /\ \A j \in 1..(i - 1) : b[j] # "frame"
NoFrame(b) == \A i \in 1..Len(b) : b[i] # "frame"
DropFrame(b) ==
    \E i \in 1..Len(b) : IsFirstFrame(b, i) /\ buf' = SubSeq(b, i + 1, Len(b))

\* Mutant of CmdSkip: text before a frame is skipped with the frame.
CmdSkipAll ==
    /\ bpc = "cmd" /\ ~negative
    /\ buf # <<>> => buf[1] # "frame"
    /\ buf' = <<>>
    /\ bpc' = "return"
    /\ UNCHANGED <<handles, running, negative, ring, hexVars, otaVars, busVars, usb>>

\* Text without a frame is skipped.
CmdSkip ==
    /\ bpc = "cmd" /\ NoFrame(buf) /\ ~negative
    /\ buf' = <<>>
    /\ bpc' = "return"
    /\ UNCHANGED <<handles, running, negative, ring, hexVars, otaVars, busVars, usb>>

\* Nothing came for a handler called with -1: compared with sizeof, -1 passes
\* every test of the scan, which returns -1 when it meets an old header at once
\* and otherwise reads on until the device faults.
CmdUnderflow ==
    /\ bpc = "cmd" /\ negative
    /\ bpc' = "return"
    /\ UNCHANGED <<handles, running, buf, negative, ring, hexVars, otaVars, busVars, usb>>

\* The device restarts where that scan leaves the memory, or at any time after text
\* ran past the end of the buffer and over what the heap holds there.
DeviceFault ==
    /\ (bpc = "cmd" /\ negative) \/ Len(buf) > BufCap
    /\ handle' = "none" /\ command' = "none" /\ suspended' = FALSE
    /\ bpc' = "check" /\ running' = "none" /\ buf' = <<>> /\ negative' = FALSE
    /\ rx' = <<>> /\ head' = 0
    /\ hexMode' = FALSE /\ hexFile' = 0 /\ fileInUse' = "none"
    /\ otaMode' = FALSE /\ otaOpen' = FALSE
    /\ bus' = "free" /\ power' = FALSE
    /\ tpc' = "idle" /\ treq' = "none"

\* Dispatches the first frame; one load of command_handle serves test and call.
CmdDispatch ==
    /\ bpc = "cmd" /\ command # "none"
    /\ DropFrame(buf)
    /\ bpc' = IF command = "lin" THEN "lin_action" ELSE "btl_claim"
    /\ UNCHANGED <<handles, running, negative, ring, hexVars, otaVars, busVars, usb>>

\* Answers "command unknown" when no command handler is installed.
CmdRefused ==
    /\ bpc = "cmd" /\ command = "none"
    /\ DropFrame(buf)
    /\ bpc' = "return"
    /\ UNCHANGED <<handles, running, negative, ring, hexVars, otaVars, busVars, usb>>

\* bulk_lin_command_handler uses the LIN master without looking at the claim.
LinDone ==
    /\ bpc = "lin_action"
    /\ bpc' = "return"
    /\ UNCHANGED <<handles, running, buf, negative, ring, hexVars, otaVars, busVars, usb>>

\* Mutant of BtlClaim: the result of the claim is ignored.
BtlUnclaimed ==
    /\ bpc = "btl_claim"
    /\ fileInUse' = IF hexFile > 0 THEN "live" ELSE "none"
    /\ bpc' = "btl_action"
    /\ UNCHANGED <<handles, running, buf, negative, ring, hexMode, hexFile, otaVars, busVars, usb>>

\* bulk_btl_command_handler claims the bus for every command.
BtlClaim ==
    /\ bpc = "btl_claim" /\ bus \in {"free", "usb_btl"}
    /\ bus' = "usb_btl"
    /\ fileInUse' = IF hexFile > 0 THEN "live" ELSE "none"
    /\ bpc' = "btl_action"
    /\ UNCHANGED <<handles, running, buf, negative, ring, hexMode, hexFile, otaVars, power, usb>>

\* Answers "interface not free": another claim, or the driver did not start.
BtlRefused ==
    /\ bpc = "btl_claim" /\ bus # "usb_btl"
    /\ bpc' = "return"
    /\ UNCHANGED <<handles, running, buf, negative, ring, hexVars, otaVars, busVars, usb>>

\* Mutant of BtlDone: answers while the bootloader still works on the file.
BtlAnswersEarly ==
    /\ bpc = "btl_action"
    /\ bpc' = "return"
    /\ UNCHANGED <<handles, running, buf, negative, ring, hexVars, otaVars, busVars, usb>>

\* ppmbtl_doAction or ppmbtl_readChipInfo is over; answers its result.
BtlDone ==
    /\ bpc = "btl_action"
    /\ fileInUse' = "none"
    /\ bpc' = "return"
    /\ UNCHANGED <<handles, running, buf, negative, ring, hexMode, hexFile, otaVars, busVars, usb>>
-----------------------------------------------------------------------------
(* Control requests, in the tinyusb task *)

First == [lin_on |-> "lin_claim", btl_on |-> "start_command", hex_on |-> "hex_clear",
          ota_on |-> "ota_begin", lin_off |-> "stop_handle", btl_off |-> "stop_handle",
          hex_off |-> "hex_mode", ota_off |-> "ota_mode"]
HandlerOf == [lin_on |-> "cmd", btl_on |-> "cmd", hex_on |-> "hex", ota_on |-> "ota"]

Request(r) ==
    /\ tpc = "idle"
    /\ treq' = r
    /\ tpc' = First[r]
    /\ UNCHANGED <<handles, task, ring, hexVars, otaVars, busVars>>

UsbGoto(l) == tpc' = l /\ UNCHANGED treq

LinClaim ==
    /\ tpc = "lin_claim" /\ bus \in {"free", "usb_app"}
    /\ bus' = "usb_app"
    /\ power' = TRUE
    /\ UsbGoto("start_command")
    /\ UNCHANGED <<handles, task, ring, hexVars, otaVars>>

\* The request is acknowledged all the same.
LinRefused ==
    /\ tpc = "lin_claim" /\ bus # "usb_app"
    /\ UsbGoto("ack")
    /\ UNCHANGED <<handles, task, ring, hexVars, otaVars, busVars>>

\* usb_vendor_bulk_start_command
StartCommand ==
    /\ tpc = "start_command"
    /\ IF handle = "none"
         THEN /\ command' = IF treq = "lin_on" THEN "lin" ELSE "btl"
              /\ UsbGoto("start_raw")
         ELSE UNCHANGED command /\ UsbGoto("ack")
    /\ UNCHANGED <<handle, suspended, task, ring, hexVars, otaVars, busVars>>

\* Mutant of StartRaw: no test that the task is free.
StartRawUnchecked ==
    /\ tpc = "start_raw"
    /\ UsbGoto("flush")
    /\ UNCHANGED <<handles, task, ring, hexVars, otaVars, busVars>>

\* usb_vendor_bulk_start_raw; every caller ignores its result.
StartRaw ==
    /\ tpc = "start_raw"
    /\ UsbGoto(IF handle = "none" THEN "flush" ELSE "ack")
    /\ UNCHANGED <<handles, task, ring, hexVars, otaVars, busVars>>

\* usb_vendor_bulk_flush_buffers receives from the ring once.
Flush ==
    /\ tpc = "flush"
    /\ Take(Contiguous)
    /\ UsbGoto("install")
    /\ UNCHANGED <<handles, task, hexVars, otaVars, busVars>>

\* Mutant of Install: the task is not resumed.
InstallSleeping ==
    /\ tpc = "install"
    /\ handle' = HandlerOf[treq]
    /\ UsbGoto("ack")
    /\ UNCHANGED <<command, suspended, task, ring, hexVars, otaVars, busVars>>

Install ==
    /\ tpc = "install"
    /\ handle' = HandlerOf[treq]
    /\ UsbGoto("resume")
    /\ UNCHANGED <<command, suspended, task, ring, hexVars, otaVars, busVars>>

\* vTaskResume has no effect on a task that is not suspended.
Resume ==
    /\ tpc = "resume"
    /\ suspended' = FALSE
    /\ UsbGoto("ack")
    /\ UNCHANGED <<handle, command, task, ring, hexVars, otaVars, busVars>>

\* Mutant of StopHandle: the command handler is reset before the task's handler.
StopCommandFirst ==
    /\ tpc = "stop_handle"
    /\ command' = "none"
    /\ UsbGoto("stop_command")
    /\ UNCHANGED <<handle, suspended, task, ring, hexVars, otaVars, busVars>>

\* usb_vendor_bulk_stop
StopHandle ==
    /\ tpc = "stop_handle"
    /\ handle' = "none"
    /\ UsbGoto("stop_command")
    /\ UNCHANGED <<command, suspended, task, ring, hexVars, otaVars, busVars>>

StopCommand ==
    /\ tpc = "stop_command"
    /\ command' = "none"
    /\ UsbGoto("release")
    /\ UNCHANGED <<handle, suspended, task, ring, hexVars, otaVars, busVars>>

\* Mutant of Release: the claim stays.
ReleaseForgotten ==
    /\ tpc = "release"
    /\ UsbGoto("ack")
    /\ UNCHANGED <<handles, task, ring, hexVars, otaVars, busVars>>

\* Gives back the claim of the mode; leaving LIN mode cuts the slave power.
Release ==
    /\ tpc = "release"
    /\ bus' = IF bus = (IF treq = "lin_off" THEN "usb_app" ELSE "usb_btl")
                THEN "free" ELSE bus
    /\ power' = (power /\ treq # "lin_off")
    /\ UsbGoto("ack")
    /\ UNCHANGED <<handles, task, ring, hexVars, otaVars>>

HexClear ==
    /\ tpc = "hex_clear"
    /\ hexFile' = 0
    /\ fileInUse' = IF fileInUse = "live" THEN "freed" ELSE fileInUse
    /\ UsbGoto("hex_mode")
    /\ UNCHANGED <<handles, task, ring, hexMode, otaVars, busVars>>

HexMode ==
    /\ tpc = "hex_mode"
    /\ hexMode' = (treq = "hex_on")
    /\ UsbGoto(IF treq = "hex_on" THEN "start_raw" ELSE "ack")
    /\ UNCHANGED <<handles, task, ring, hexFile, fileInUse, otaVars, busVars>>

OtaBegin ==
    /\ tpc = "ota_begin"
    /\ otaOpen' = TRUE
    /\ UsbGoto("ota_mode")
    /\ UNCHANGED <<handles, task, ring, hexVars, otaMode, busVars>>

\* The one request that is stalled when it fails.
OtaStall ==
    /\ tpc = "ota_begin" /\ OtaMayFail
    /\ tpc' = "idle" /\ treq' = "none"
    /\ UNCHANGED <<handles, task, ring, hexVars, otaVars, busVars>>

\* Mutant of OtaMode: the end of the transfer does not reset the mode.
OtaModeStays ==
    /\ tpc = "ota_mode"
    /\ otaMode' = TRUE
    /\ UsbGoto(IF treq = "ota_on" THEN "start_raw" ELSE "ack")
    /\ UNCHANGED <<handles, task, ring, hexVars, otaOpen, busVars>>

OtaMode ==
    /\ tpc = "ota_mode"
    /\ otaMode' = (treq = "ota_on")
    /\ UsbGoto(IF treq = "ota_on" THEN "start_raw" ELSE "ack")
    /\ UNCHANGED <<handles, task, ring, hexVars, otaOpen, busVars>>

Ack ==
    /\ tpc = "ack"
    /\ tpc' = "idle" /\ treq' = "none"
    /\ UNCHANGED <<handles, task, ring, hexVars, otaVars, busVars>>

\* The slave power requests switch without a look at who uses the slaves.
SlavePower(on) ==
    /\ tpc = "idle"
    /\ power' = on
    /\ UNCHANGED <<handles, task, ring, hexVars, otaVars, bus, usb>>

\* Mutant of RxCallback: a full ring is not noticed.
RxUnchecked(i) ==
    /\ tpc = "idle"
    /\ rx' = Append(rx, i)
    /\ UNCHANGED <<handles, task, head, hexVars, otaVars, busVars, usb>>

\* tud_vendor_rx_cb runs in the tinyusb task too; a full ring drops the packet.
RxCallback(i) ==
    /\ tpc = "idle"
    /\ rx' = IF Len(rx) < RxCap THEN Append(rx, i) ELSE rx
    /\ UNCHANGED <<handles, task, head, hexVars, otaVars, busVars, usb>>
-----------------------------------------------------------------------------
\* The web server's use of the bus, through the same bus manager.
WebClaim ==
    /\ WebUser /\ bus = "free"
    /\ bus' = "web"
    /\ UNCHANGED <<handles, task, ring, hexVars, otaVars, power, usb>>

WebRelease ==
    /\ bus = "web"
    /\ bus' = "free"
    /\ UNCHANGED <<handles, task, ring, hexVars, otaVars, power, usb>>

\* Steps of the bulk task that answer the host, and those that do not.
BulkAnswer ==
    \/ HexDone \/ OtaWriteFails \/ OtaDone
    \/ CmdRefused \/ LinDone \/ BtlRefused \/ BtlDone

BulkSilent ==
    \/ BulkCheck \/ BulkSuspend \/ BulkWake \/ BulkReturn \/ BulkClear
    \/ ReceiveNothing \/ Receive \/ HexParse \/ HexWait \/ OtaWrite \/ OtaWait
    \/ CmdSkip \/ CmdUnderflow \/ CmdDispatch \/ BtlClaim

UsbStepNext ==
    \/ LinClaim \/ LinRefused \/ StartCommand \/ StartRaw \/ Flush \/ Install \/ Resume
    \/ StopHandle \/ StopCommand \/ Release \/ HexClear \/ HexMode
    \/ OtaBegin \/ OtaMode \/ Ack

Next ==
    \/ BulkAnswer \/ BulkSilent \/ DeviceFault
    \/ \E r \in Starts \cup Stops : Request(r)
    \/ UsbStepNext \/ OtaStall
    \/ \E on \in BOOLEAN : SlavePower(on)
    \/ \E i \in Item : RxCallback(i)
    \/ WebClaim \/ WebRelease

Fairness == WF_vars(BulkAnswer \/ BulkSilent) /\ WF_vars(UsbStepNext)

Spec == Init /\ [][Next]_vars /\ Fairness
-----------------------------------------------------------------------------
(* Properties that hold for every host *)

\* The bulk task reads command_handle only after it found the command handler
\* installed: start_command sets it before the handler, stop resets the handler
\* first (usb_vendor_bulk.c:214-216, 223-224).
CommandHandlerSet == handle = "cmd" => command # "none"

\* A running handler is never exchanged for another one: between the test of
\* bulk_task_handle in start_raw and its assignment only the bulk task writes
\* it, and it only clears it (usb_vendor_bulk.c:201-203, 104).
HandlerNeverReplaced == [][handle # "none" => handle' \in {handle, "none"}]_vars
=============================================================================
