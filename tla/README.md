# Formal model of the MCM LIN firmware

TLA+ specifications of the concurrent parts of the Melexis Compact Master
firmware (ESP32-S3, two cores, FreeRTOS), their TLC configurations and proofs
checked by TLAPS. Paths are relative to `src/firmware/` unless they begin with
`frontend/`.

## 1. The system

| Component | State | Operations | Interacts through |
|---|---|---|---|
| Bus manager `bus_manager/` | `bus_user`, `bus_mode`, supply pin VOUT, enabled driver | Claim, Release, CheckClaim | called by httpd, tinyusb and the bulk task |
| USB bulk task `usb_device/src/usb_vendor_bulk.c` | `bulk_task_handle`, `command_handle`, buffer and write position, rx ring | run the installed handler; start, stop, flush | control requests (tinyusb task) install handlers and resume the task |
| USB requests `usb_device/src/vendor_req_hndl/` | `btl_transfer_mode`, hex containers, `ota_transfer_mode` | LIN and bootloader mode, hex and OTA transfer | bulk task, bus manager, OTA support, slave power |
| HTTPS server `webserver/` | open sessions, `open_clients[]` slots with fragments | open, close, frames, LIN and bootloader commands | bus manager; started and stopped by the Wi-Fi events |
| Wi-Fi `networking/wifi.c` | `s_retry_num`, event group bits, `discon_millis` | event handler, `wifi_tick`, new configuration | starts and stops both web servers |
| LEDs `device_status/` | `identify_cnt`, `heartbeat_cnt`, two LEDs | tick, start, stop identification | main task, REST, USB |
| OTA support `ota_support/` | `update_handle`, partition | start, write, validate, boot | USB requests, `app_main` |
| Configuration `networking/`, `usb_vendor_config.c`, `urihandlers_rest.c`, `frontend/src/views/system/SystemConfig.vue` | driver's SSID and password, stored host name, names in use, `control_data`, the page's form | get and set over USB and REST; boot of the network; read, edit, save | tinyusb task, httpd task, main task, browser |
| Slave power `power_ctrl/` | switch | enable, disable | USB requests, web server |
| Main `main/main.c` | - | boot order, 250 ms loop | initialises everything |
| LIN commander page `frontend/src/views/lin/`, `js/` | schedule, script, socket, pending promises | load, start, stop, run a sequence, requests | websocket |
| Other pages `frontend/src/` | - | one request at a time | websocket, REST |

No mutex guards any of this state. What is hard about it: tasks on two cores
interleave between any two accesses (bus manager, bulk handles, retry counter,
LED counter); setters read a whole configuration, change a field and write it
back; one static buffer serves all USB control requests; one task suspends itself on a flag another one sets; hosts and
browsers vanish in the middle of a session; the event task blocks in the stop
of the server whose task may be inside a command; events pile up in a queue
while the driver has moved on.

What makes each component correct:

- bus manager: one holder at a time, its driver and no other enabled, the
  supply on while it is held;
- bulk task: the installed handler runs, on a clean buffer, with what it needs
  set; a host that ends a transfer is answered; nothing acknowledged is lost;
- USB requests: drivers are used under the claim; closing a mode returns it;
  the hex file outlives the bootloader action on it;
- web server: each session has its own slot, messages never mix, claims end
  with their session, stopping terminates;
- Wi-Fi: servers run exactly while the link is up; the station never gives up
  for good;
- LEDs: identification ends, and the LEDs then rest;
- LIN commander: a schedule shown as running polls every entry, and a sequence
  by hand ends;
- OTA: whatever is interrupted, an image that has proved itself stays within
  reach of the bootloader, and no image restarts the device for ever;
- configuration: a value is one a client sent for that field, whole; nothing an
  earlier request left behind, no other setter and no page changes it;
- slave power: the slaves are powered while USB uses them; nothing coordinates
  the USB requests with the web server.

## 2. Modules

**BusManager** translates `bus_manager.c` with one action per access to shared
state: `ClaimTestUser`/`ClaimTestMode` are the two reads of `busmngr_CheckClaim`,
`ClaimTestFree` the test of l.52, then `PowerUp`, `EnableDriver`, `WriteUser`,
`WriteMode`; a release tests, reads the mode again (`ReleaseSwitch`), switches
off and clears the mode. `pc[t]` says where task `t` is. `Spec` lets all tasks
interleave. `SerialSpec` is the discipline under which the manager is correct:
no call before `busmngr_Init` returned and no call while another is under way.
The code does not enforce that discipline; it holds when the callers happen not
to overlap. **BusLock** is the abstract promise, a lock with atomic answers;
`ImplementsLock` is the refinement, with `owner` and `call` as the mapping.
**MCBusManager** lists the calls the tasks really make.

**UsbBulk** composes `usb_vendor_bulk_task` (program counter `bpc`), the
handlers it runs (command frames, hex transfer, OTA), and the control requests
of the tinyusb task (`tpc`). One action is one access to what the two tasks
share: `bulk_task_handle` (`handle`), `command_handle` (`command`), the modes,
the hex containers, the claim. Bulk data are items: a data record, a record
without data, a command frame, anything else. The ring is a byte ring: it hands
out what is contiguous (`head`, `Contiguous`). A handler appends what it received to the
task's buffer without looking at the room left (`Receive`). Text beyond `BufCap` lies over
the heap behind the buffer: from then on the device may restart at any time
(`DeviceFault`), or go on with the text as it is. **UsbVendor** adds hosts that
follow the protocol (one session at a time, wait for answers), as a "polite"
host that starts again at once or an "idle" one that waits until the task is
suspended, plus unplugging and timeouts, a ring that drops what does not fit
(`records` counts the data records it took), and the slave power requests
(`SlavePower`, which looks at nobody; `HostPower` is a host that leaves the slaves
on in LIN mode).

**WebSessions** models the HTTPS server: the event task that starts and stops
it, the httpd task that opens, serves and closes sessions one at a time, the
slots and fragments of `open_clients`, and the LIN and bootloader commands with
their claims, competing with USB. A continuation frame extends whatever its slot holds, also
nothing; `FrameFault` is the restart that the copy to a wrong address may then cause.

**Wifi** models the event handler, `wifi_tick`, the driver, its event queue and
an immediate new configuration; the increment of `s_retry_num` is a load and a
store, since `wifi_tick` resets it from another task.

**DeviceStatus** models the tick with its separate reads of `identify_cnt`
(eight bits), the identify requests of USB and REST, and both LEDs.

**DeviceConfig** models SSID, password and host name from the client to the
driver and back. `buffer` is `control_data`: a request covers its beginning, the rest
is what earlier requests left (`Written`, `TextOf`, `Padded` are DATA stage, C string
and strncpy). `UsbLoad`/`UsbStore` and `RestLoad`/`RestStore` are the two halves of a
driver setter (read all, write all), `UsbNvs` and `UsbApply` those of
`networking_set_hostname`; the REST handler goes through the fields of its body
and then reads all (`RestRead`), at any point of which the other task or a restart
may come. `boot` follows `networking_init`, which spreads the name it read to
three services while USB is served. `meant`, `deferred` and `fresh` are history for the
properties. **Settings** is the abstract promise: one register per field, in which each
value a request asks for is stored whole, at one moment and at most once, or refused, or
dropped by a restart. The mapping takes the values from the driver and the store
(`Current`), and what is still to be stored from the two requests under way (`InUsb`,
`InRest`); the half of a setter that only reads is a stutter. **MCDeviceConfig** lists the
values of the clients.

**OtaUpdate** separates what survives a restart (`flash`, `verdict`, `selected`)
from the RAM of the program, which `ClearRam` resets at every power loss, crash
and restart. `mpc` follows the device from the bootloader through app_main:
`UsbUp` is `usbdevice_init` (main.c:62), after which the host is served although
the image is confirmed only at l.72. `Judged`, `Choice` and `Boot` are the external
bootloader with rollback enabled. The tinyusb task (`tpc`) starts and stops a
transfer, selects the new partition and restarts; the bulk task (`bpc`) writes
and validates. An image is two chunks; what a handle has written says whether
the partition holds a whole one. How a handler is installed and resumed is
UsbBulk's subject and one step here. **ImageSwitch** is the abstract promise: a proven
image, at most one candidate, and a trial that ends in `Confirm` or `GiveUp`. The mapping
reads it off the flash and its record alone (`Trying`, `Proven`, `Candidate`), so that
power losses and crashes are stutters and only `Boot`, `otasupport_ImageBootSuccess`,
`otasupport_UpdateBootPartition` and the writes are steps of it. An update written over a
selected image takes its place without being selected again; the abstract `Select` and
`Withdraw` say so.

**LinCommander** models the page and the transport under it. JavaScript runs one
task at a time, so an action is a whole event with the promise reactions it
sets off. A chain is one call of `handleSequence` and what it waits for:
`connect`, `power` (the acknowledgement of enableSlavePower), `frame` (an answer) or
`timer`; `socket` is the state of `master`. A chain that waits for an answer when the
socket closes is gone: nothing settles its promise. **MCLinCommander** lists the files.

In UsbBulk and WebSessions a claim or release is one step: these modules study
their own races on top of a manager that behaves as BusLock; BusManager studies
the manager's. Each one gives the other user of the bus as a competing task
(`WebClaim`, `UsbClaim`).

## 3. Runs

| Run | Question | Bounds |
|---|---|---|
| BusSerial | is the manager a lock, with drivers and supply following the record, when calls do not overlap? | 2 tasks, all 6 requests, drivers may fail |
| BusTornCheck (violated) | is "already claimed" (l.50) only told to the holder? | the three real tasks and their calls |
| UsbPolite | handlers, claims, slave power and hex file under a host that waits for answers | ring 3, buffer 3, 2 items per transfer; 577 k states |
| UsbIdle | starts that take effect, on an empty buffer, no record lost, every transfer and command answered | ring 3, buffer 3, 4 items per transfer, so that the ring drops items and unreadable text overruns the buffer; 931 k states |
| UsbLostStart (violated) | is a transfer answered when the host starts again at once? | ring 2 |
| WebServing | slots, fragments, claims, and termination of the stop | 4 sockets, 3 slots, frames of both kinds with and without content |
| WifiLink | servers follow the link, nobody is stranded, the link comes back | 5 retries (the default), 3 events queued for a new configuration |
| LedsStopped | do the LEDs rest and the heartbeat return? | 4 blinks, 4-bit counter |
| OtaRollback | does an update, cut off anywhere, leave an image that boots, and is an image replaced only by one that passed its trial? | two good and a bad image of two chunks, ring of 1; 200 k states |
| LinSchedule | does a running schedule poll all entries, and a sequence end? | 3 chains, files of 1 and 2 entries |
| ConfigKept | is every field a register that holds what was sent, and do names follow the store? | SSID of 2, password of 3 characters, refused stores, restarts; 2.5 M states |
| ConfigSave (violated) | does a save of the page keep what was not edited? | the same, no refusals |

The bounds are enough because the interesting cases need few participants: a
race needs two tasks; a stale descriptor needs one socket more than slots; a
wrapped ring needs two items beyond each other, an overrun one item more than
the ring; a getter with the bound of the SSID cuts a password one character longer, so widths
of 2 and 3 stand for 32 and 64; one character is enough because a stale tail shows in
the length; a lost update of a retry or
blink counter needs a counter above one; two chunks tell a part of an image from a whole; three chains are two schedules
started one after the other and a sequence by hand. `MaxFile`, `MaxSend`,
`MaxEvents`, OtaUpdate's `RingCap` and `Chains` are bounds of the model; the other constants are
parameters of the code. BusSerial's tasks call with every request, not only the
real ones, so any pair of callers is covered.

UsbPolite and UsbLostStart, and no other run, switch deadlock checking off
(`CHECK_DEADLOCK FALSE`): a polite host that is not answered and has no timeout
waits for ever, and there the system really stops.

### Deviations the violated runs show

- **BusTornCheck**: `bus_user` survives a release. A task reads it, another user
  claims, the task reads the new mode, and is told it already holds the bus.
- **UsbLostStart**: the start falls between the task's test and its
  `vTaskSuspend`, or finds the old handler still installed; the request is
  acknowledged and the transfer never answered.
- **ConfigSave**: the getter of the password copies 32 of up to 64 bytes. The page
  shows the cut password and submits all its fields, so that saving another
  field stores the cut one.

Other deviations met while modelling, in the modules but without a run of their
own: any connection that closes releases the LIN claim, whoever took it
(`CloseRelease`); nothing coordinates the slave power switch between USB and the web server
(`SlavePower`, `Release`); a USB stop between the tick's test and its decrement wraps `identify_cnt`
to 255, and the LEDs blink for a minute (`Load`, `Store`); `otasupport_Start`
takes the partition even where `esp_ota_begin` refuses, so a host that then asks
for it, while a new image is on trial, puts the proven image on trial as well
(with `Careful = FALSE` `Recoverable` fails); a handler installed before the task suspended is called with the write
position -1 (`negative`, `CmdUnderflow`, `DeviceFault`); text that the parser of a hex
transfer does not accept stays in the buffer, to which the handlers append without a
test of the room (usb_vendor_hex_transfer.c:64-69, usb_vendor_bulk.c:122-127), so that it
runs past the end (`Receive`, `DeviceFault`; UsbIdle reaches this with an OTA remainder
before a hex transfer); a continuation frame without a message is copied to the byte before its new
buffer, since `message_len` is 0, and one without content from address 0
(urihandlers_wss.c:456-462: `Fragment`, `FrameFault`); LIN mode is acknowledged
although the claim failed (`LinRefused`); `tud_umount_cb` and `tud_suspend_cb`
do not release the claims their comments name (`Unplug`); "OK" can precede the
last record, which then waits in the ring (`NoRecordLost` is what remains
true); `wifi_tick` drops a failure that comes with a connection in one period
(`TickBits`; `SlowAttempts` and more retries than queued events exclude it: with
2 retries and 3 events, new configurations and a handler that falls behind strand the
station); an
identification lasts 5 s, not the 20 s of REST_API.md:129 (20 ticks of 250 ms);
the flush before a new handler leaves what lies beyond the end of the ring
(`Flush`, `Contiguous`), and unreadable leftovers stop the parser of the next hex
transfer, which is why `TransferAnswered` is about text that can be parsed.

Of the configuration, in DeviceConfig: with `Overlap = TRUE` a USB setter between the
two halves of a REST setter is undone, and the reverse (`KeepsWhatWasSent` fails); a value
sent over USB without its Nul continues with what `control_data` held (`meant` is
`Absent` there); an SSID of 32 characters, and a longer password, is read over USB with such a tail
(`ReadsBack` is about shorter ones); a host name of 32 characters or more is stored, but after
a restart the array for it stays uninitialised and names the services
(`Garbage`; `NamesFollowStore` is about `Readable` names), and the page, which gets none, saves an empty one;
USB setters are acknowledged before wifi_init and when the driver or NVS refuses
(`UsbFails`); a rename while networking_init runs leaves mixed names until
the next restart (`deferred`); a page saves the form it read earlier over what another client
set since (`fresh`).

In the frontend: requests under way when the socket closes are never settled
(ethernetTransport.js:89-94); stopping and starting while a frame is under way
leaves two loops that share `schedulePosition` and may skip an entry for ever, so
`EveryEntryPolled` is about one loop alone; an entry that throws (a file loaded
while sequences run, an empty entry or file) leaves the schedule shown as
running without a loop (`Reject`), so `Scripts` has no such files and
`MayReload` is FALSE in LinSchedule.

## 4. Fairness

- Bulk task and tinyusb task (UsbBulk, UsbVendor): weak fairness for each as a
  whole. Both are ready whenever their action is enabled and FreeRTOS runs them
  (the bulk task has the highest priority but one); drivers return. Hosts get
  none: a host may always stay silent.
- httpd task, and the end of the stop (WebSessions): weak fairness of handling,
  of closing sessions while the server stops, and of `Stopped`.
- Wi-Fi: weak fairness of the event task, the main loop, the second half of a
  configuration, of time, and of an attempt in reach of the access point.
- LEDs: weak fairness of the main loop and of a stop that began.
- OtaUpdate: weak fairness of the boot up to app_main's loop and of a restart
  that was asked for: the device runs while it has power. Power, host and bulk
  task have none.
- LinCommander: timers fire, connections open or fail, a closing socket closes,
  and requests on an open socket are answered; `StopEnds` and `Respond` of
  WebSessions are the firmware's side of that. The user has none.
- DeviceConfig: no fairness; its properties are about single steps and states. A
  client may never finish, a restart come at any time.
- BusManager: `Spec` has fairness for calls under way; no property uses it, so
  `SerialSpec` states none.

## 5. Assumptions

- Accesses to one variable are atomic and in program order (aligned words on
  the ESP32-S3, calls between them). `bulk_task_handle` is loaded once for the
  test and the call at usb_vendor_bulk.c:101-102, `command_handle` at
  l.156-157: a second load that sees a stop would call a null pointer.
- Answers reach the host at once: the tx ring is not modelled, it is never full
  when a host waits for one answer at a time.
- An item is longer than nine bytes and arrives, or is dropped by a full ring, whole; a
  host's timeout is longer than any command. `TransferAnswered` is about text that can be
  parsed, `CommandAnswered` about a frame the ring took, in a mode whose handler is
  installed: an acknowledged mode without a claim or a start answers nothing.
- After a write beyond a buffer (`DeviceFault`, `FrameFault`) the device restarts, or goes on
  with the text it holds; other damage to the heap is not followed. The properties say
  nothing of a device that goes on with damaged data.
- A host name sent over USB ends within `control_data`; REST and the page send
  whole strings no longer than their field; the page's user waits for an answer
  before the next request; the web server answers only after networking_init.
  `Overlap = FALSE` keeps USB and REST setters apart.
- `SlowAttempts`: connecting takes longer than one 250 ms period and than the
  handling of earlier events. `NeverStranded` needs it, and at least two retries more
  than events are queued when a new configuration is applied: 5 and 3 in WifiLink.
- A page starts no second load while a file is being read.
- `Careful`: the host selects the new image only after "VALID". The bootloader
  gives an image one trial, passes over one that is not whole, and keeps the
  record of the other partition (CONFIG_BOOTLOADER_APP_ROLLBACK_ENABLE,
  sdkconfig.defaults:88); esp_ota_begin refuses while an image is on trial;
  a good image gets through app_main, a bad one crashes before l.72.
- External code is modelled from its use: byte ring, httpd, Wi-Fi driver,
  esp_ota, the LIN master and bootloader submodules (succeed or fail).

## 6. Proofs

**BusManagerProofs** (every set of tasks, every choice of requests):

- `TypeCorrect`: `Spec => []TypeOK`.
- `RecordAttributed`: `Spec => []RecordNamesUser`. `RecordNamesUser` alone is not
  inductive: the mode is written after the user. The strengthening says that a
  task about to write the mode finds a user recorded, whichever task wrote it
  last; no step erases `bus_user`.
- `SerialDriversExclusive`, `SerialDriverMatchesRecord`, `SerialHeldIsPowered`,
  `SerialReleaseSwitchesOff`: from an
  invariant of `SerialSpec` that says at most one task is inside, and for each
  `pc` what the record, the supply and the drivers are at that point.
- `SerialImplementsLock`: the initial states map to initial states, and each
  action to a step of BusLock or a stutter: a claim takes effect in `WriteMode`,
  a release in `ClearMode`, refusals where they are decided.

**UsbProofs** (every ring, buffer and file size).

Of UsbBulk, for every host:

- `CommandHandlerIsSet`: `CommandHandlerSet` is inductive only together with
  where the tinyusb task stands: between `start_command` and `Install`, and
  between the two writes of a stop.
- `HandlerIsNeverReplaced`: an action property; it needs that the handle stays
  empty between the test of `start_raw` and `Install`.
- `TypeCorrect`: the ring never holds more than its room. The buffer has no such bound: no
  test in the code gives it one. Lemmas say what taking from,
  skipping in and appending to the two sequences does to their lengths and
  types; the strengthening is that a task about to receive has a handler to pass
  the data to (`Loaded`).

Of UsbVendor:

- `VendorImplementsBulk`: a host that keeps the protocol is one of the hosts of
  UsbBulk, so that what holds there for every host holds here.
- `VendorTypes`, for every such host.
- `CommandsUnderClaim`, `ClaimsReturned`, `FileStaysLive`: for a host that is `Patient`:
  it waits for the answer to a command, is not unplugged, and puts no command frame
  into a hex file. Dropping any of the three breaks one of the properties (TLC finds a
  claim left behind by an unplug, a mode closed in the middle of a command after a
  timeout, and a command that a hex transfer left in the ring). None is inductive alone; they
  rest on one argument. A request under way belongs to the session of the host
  (`RequestSession`, `StartSession`); a command handler that is set, and a USB claim, belong to
  an open mode or one being left (`CommandClaimed`, `ClaimOwned`); a transfer's
  handler that outlived it is about to be cleared or asleep (`TransferOwned`); a frame in the
  buffers, or in execution, has its host waiting, in an open mode, with no
  request under way (`CommandAwaited`), and is the last thing sent (`FrameLast`).
  So no request can pull the claim or the file from under the action
  (`ActionClaimed`).
- `FreshStarts`: for an "idle" host. `FreshInv`: a start that is under way finds the task
  asleep until it resumes it, and the task wakes with an empty buffer.
- `StartsWork`, for an "idle" host: `StartsTakeEffect`. A task that sleeps with a handler
  installed is one whose request is about to resume it, and a task about to sleep has
  none (`Asleep`). This is what a "polite" host loses in UsbLostStart, and the safe half
  of `TransferAnswered`.
- `PlainFilesFit`: where the buffer cannot overrun although nothing tests its room, namely for an
  "idle" host that transfers files of data records, each arriving whole, and nothing else.
  `PlainInv` says that the parser leaves nothing behind, so that each call appends to an
  empty buffer, and a call takes less than that holds (`SizeAssumption`: the ring is as
  large as the buffer). UsbIdle, with OTA and records without data, has no such bound.
- `RecordsArrive`, for an "idle" host: `NoRecordLost`. `Accounted` says that the records the
  ring took are in the containers, in the buffer or in the ring; it is inductive because
  from the request of the transfer on the task runs no other handler, and the buffer is
  empty whenever it is thrown away (`Undisturbed`). `Lines` counts with a cardinality, and
  lemmas about it (`LinesConcat`, `LinesAppend`, `LinesSplit`, ...) say what appending,
  taking from and parsing the sequences does to the count.

**DeviceStatusProofs** (every width and number of blinks): `TypeCorrect`, and
`StatusIsDark`, from the fact that the LED is dark also at the points of the tick
where it found no identification (`Dark`).

**WebSessionsProofs** (every finite set of sockets, every number of slots): all five
invariants, from one. `Distinct` and `Tracking` say that the sessions own different slots,
with the exception of the one being opened or closed; `SlotLeft` counts, with the
pigeonhole principle, that a free slot is left whenever httpd accepts; `Working`
says which session the httpd task is serving; `Claimed` places the claims.

**WifiProofs** (every number of retries and events): `TypeCorrect`, which needs that a
loaded retry counter is below its limit (`RetryBounded`); `ServersFollow`, from
`LinkKnown`: the last link event in the queue tells what the driver did last, and
without one the servers already follow the driver. `NeverForgotten` proves
`NeverStranded` for `Patient`, slow attempts and `MaxRetry > MaxEvents + 1`: while the bit of
a connection waits for wifi_tick (`Hidden`), the events in the queue and the retries
counted so far stay below the limit (`RetriesLeft`, with the counter as it will be after
its torn increment, `Counted`), so that the next failure is retried, and the retry
gives wifi_tick time to take the bit.

**DeviceConfigProofs** (all values, widths and clients):

- Lemmas on arrays and strings: what `TextOf`, `Cut`, `Padded` and `Written` return; `BeginsWith`
  and `TakenAsMeant` are the reason a value that came with its end, or fills its field, is
  taken as it was meant, whatever `control_data` held.
- `TypeCorrect` and `StringsReadBack`, for overlapping setters too.
- `KeepsValues` and `NamesInUse`, with `~Overlap`: `SerialInv` says that between the two halves of a
  setter the copy is still the configuration; `NamesInv` how far networking_init has
  spread the stored name.
- `SavesKeep`, with `~Overlap`: `FormInv` says that the answer under way and the form hold the
  stored value of every field that fits, until another client sets one.
- `ConfigImplementsSettings`, with `~Overlap`: DeviceConfig implements Settings. The two halves of a
  setter are one step because its copy is still the configuration (`SerialInv`);
  `UsbSettles` and `RestSettles` are why a value is stored or refused once.

**OtaUpdateProofs** (all images, every ring size):

- `TypeCorrect`: with the types goes that an update under way has a partition.
- `AlwaysRecoverable`: under `Careful`, `Spec => []Recoverable`. The inductive
  invariant says which of two situations the flash is in: the running image is
  confirmed and any other choice is not, or it is on trial and the other one has
  proved itself; and that whatever is left in RAM of an update belongs to a
  confirmed image and aims at the other partition. `WriteInv` is then the reason
  no write can touch the last proven image, and `BootInv` why every boot moves
  between the two situations.
- `UpdateImplementsSwitch`: under `Careful`, OtaUpdate implements ImageSwitch. The two situations
  are those of the switch (`Situations`); `BootSwitches`, `SuccessSwitches` and `OtherSwitches`
  map the three kinds of steps that touch the flash or its record.

**LinCommanderProofs** (every set of scripts, number of chains):

- `TypeCorrect`: with the types goes that a socket connects exactly while a chain waits for it.
- `RunningIsPolled`: with `~MayReload`, `Spec => []RunningHasPoller`. `RunningHasPoller` alone is not
  inductive: a chain must find its entry and frame in the script, or it throws and the
  schedule loses its poller. `InPlay` says that the script stays while chains are alive,
  that each works on a frame of an entry it has, that only a poller waits for the timer,
  and that the position it comes back to is one of the script.

Left to TLC: liveness (`TransferAnswered`, `CommandAnswered`, `StopEnds`, `ComesBack`, `BootEnds`,
`HeartbeatReturns`, `EveryEntryPolled`, `SequenceEnds`), which is out of the prover's
reach. Every invariant and every action property of a passing run is proved. The type
invariants of BusManager, OtaUpdate, DeviceConfig, DeviceStatus and LinCommander are not
among the properties of the runs: they are proved for all constants.

## 7. Not modelled

Descriptors, device information and error names (constants); JSON, hex and
frame parsing character by character; ADC readings; TLS; the contents of REST and mDNS
answers; the static files and the redirect answers; the submodules under
`components/` (not in the repository); the verification tests (they need
hardware); pings and the disconnect of the transport (no page calls them), and the
pages that make single requests; the slave power switch of the web server, which
shares nothing with that of USB but the pin.

## 8. Plan

Done: bus manager, USB, web server, Wi-Fi, LEDs, OTA, LIN commander,
configuration; proofs of all safety properties; the refinements of BusLock, ImageSwitch
and Settings. Left:

1. That the claims and releases of UsbBulk and WebSessions are steps of BusLock, which
   would join the proofs about the manager to those about its users.
2. The safe halves of more liveness properties: who waits for whom while the server
   stops (`StopEnds`), and what keeps an entry from being skipped (`EveryEntryPolled`).
