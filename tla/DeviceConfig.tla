----------------------------- MODULE DeviceConfig -----------------------------
(* SSID, password and host name (networking/wifi.c, networking/networking.c) and
   who sets them: the USB config requests, in the tinyusb task, which share the
   static buffer control_data (usb_vendor_config.c, vendor_device.c); the REST
   handler, in the httpd task (urihandlers_rest.c); and the page that reads,
   edits and saves all three (SystemConfig.vue).  app_main serves USB before
   networking_init has read the host name.                                     *)
EXTENDS Naturals, Sequences

CONSTANTS Char,          \* the characters of a value
          Nul,           \* the byte that ends a C string
          Narrow,        \* 32: the SSID of the driver, the getters, the host name array
          Wide,          \* 64: the password of the driver, control_data
          Values,        \* the values clients send, by field
          Default,       \* CONFIG_LWIP_LOCAL_HOSTNAME
          Unset,         \* no host name is stored
          Absent,        \* a field is not in a body
          Garbage,       \* an uninitialised array
          StoreMayFail,  \* whether the driver and NVS may refuse to store
          Overlap        \* whether USB and REST set values at the same time

Wireless == {"ssid", "password"}
Field == Wireless \cup {"hostname"}
Name == {"netbios", "wifi", "mdns"}
Cell == Char \cup {Nul}
Text == {s \in Seq(Char) : Len(s) <= Wide}

ASSUME WidthAssumption == Narrow \in Nat \ {0} /\ Wide \in Nat /\ Narrow < Wide
ASSUME ValueAssumption ==
    /\ \A f \in Field : Values[f] \subseteq Text
    /\ \A s \in Values["ssid"] : Len(s) <= Narrow
    /\ Default \in Text /\ Len(Default) < Narrow
    /\ Nul \notin Char /\ {Unset, Absent, Garbage} \cap Text = {}
    /\ {StoreMayFail, Overlap} \subseteq BOOLEAN

VARIABLES boot,      \* where networking_init is: "read", "wifi", "mdns" or "run"
          bootName,  \* its local host name
          config,    \* SSID and password in the driver, kept over a restart
          stored,    \* the host name in NVS
          names,     \* the names the device answers to
          deferred,  \* history: a name was stored that takes a restart to be used
          buffer,    \* control_data
          usb,       \* the config request of the tinyusb task
          rest,      \* the request of the httpd task
          page,      \* the page: "closed", "loading", "open" or "saving"
          form,      \* what it shows
          edited,    \* the fields the user edited since they were read
          fresh      \* history: nobody else stored since they were read

kept == <<config, stored>>
naming == <<boot, bootName, names, deferred>>
browser == <<page, form, edited>>
vars == <<kept, naming, buffer, usb, rest, browser, fresh>>

Empty == [f \in Field |-> <<>>]
NoBody == [f \in Field |-> Absent]
NoUsb == [step |-> "idle", field |-> "ssid", text |-> <<>>, meant |-> Absent,
          copy |-> [f \in Wireless |-> <<>>]]
NoRest == [step |-> "idle", field |-> "ssid", client |-> "page", body |-> NoBody,
           copy |-> [f \in Wireless |-> <<>>], reply |-> NoBody, fresh |-> FALSE]
Configs == {c \in [Wireless -> Text] : Len(c["ssid"]) <= Narrow}

TypeOK ==
    /\ boot \in {"read", "wifi", "mdns", "run"}
    /\ bootName \in Text \cup {Garbage}
    /\ config \in Configs
    /\ stored \in Text \cup {Unset}
    /\ names \in [Name -> Text \cup {Garbage}]
    /\ {deferred, fresh} \subseteq BOOLEAN
    /\ buffer \in [1..Wide -> Cell]
    /\ usb \in [step : {"idle", "load", "store", "nvs", "apply", "answer"},
                field : Field, text : Text, meant : Text \cup {Absent}, copy : Configs]
    /\ rest \in [step : {"idle", "put", "store", "read", "answer"}, field : Field,
                 client : {"page", "api"}, body : [Field -> Text \cup {Absent}],
                 copy : Configs, reply : [Field -> Text \cup {Absent}], fresh : BOOLEAN]
    /\ page \in {"closed", "loading", "open", "saving"}
    /\ form \in [Field -> Text]
    /\ edited \subseteq Field

\* usbdevice_init has returned; nothing was ever configured.
Init ==
    /\ boot = "read"
    /\ bootName = Garbage
    /\ config = [f \in Wireless |-> <<>>]
    /\ stored = Unset
    /\ names = [n \in Name |-> Garbage]
    /\ deferred = FALSE
    /\ buffer = [i \in 1..Wide |-> Nul]
    /\ usb = NoUsb
    /\ rest = NoRest
    /\ page = "closed"
    /\ form = Empty
    /\ edited = {}
    /\ fresh = FALSE
-----------------------------------------------------------------------------
(* Strings in arrays *)

Cut(s, n) == SubSeq(s, 1, IF Len(s) < n THEN Len(s) ELSE n)

\* The C string an array begins with.
TextOf(b) ==
    SubSeq(b, 1, CHOOSE n \in 0..Len(b) :
                    /\ \A i \in 1..n : b[i] # Nul
                    /\ n < Len(b) => b[n + 1] = Nul)

\* Mutant of Padded: memcpy of the string instead of strncpy.
Unpadded(s, n) == [i \in 1..(IF Len(s) < n THEN Len(s) ELSE n) |-> s[i]]

\* The n bytes strncpy writes.
Padded(s, n) == [i \in 1..n |-> IF i <= Len(s) THEN s[i] ELSE Nul]

\* control_data after bytes were written to its beginning; the rest stays.
Written(bytes) == [i \in 1..Wide |-> IF i <= Len(bytes) THEN bytes[i] ELSE buffer[i]]

\* What a setter takes of a value.
Bound(f) == IF f = "ssid" THEN Narrow ELSE Wide

\* networking_get_hostname with an array of Narrow bytes, one for the Nul.
HostName == IF stored = Unset THEN Default ELSE stored
Readable == Len(HostName) < Narrow

DriverReady == boot \in {"mdns", "run"}
-----------------------------------------------------------------------------
(* networking_init and restarts *)

\* The error of the getter is ignored: the array then holds anything.
BootRead ==
    /\ boot = "read"
    /\ bootName' = IF Readable THEN HostName ELSE Garbage
    /\ names' = [names EXCEPT !["netbios"] = bootName']
    /\ boot' = "wifi"
    /\ UNCHANGED <<kept, deferred, buffer, usb, rest, browser, fresh>>

BootWifi ==
    /\ boot = "wifi"
    /\ names' = [names EXCEPT !["wifi"] = bootName]
    /\ boot' = "mdns"
    /\ UNCHANGED <<kept, bootName, deferred, buffer, usb, rest, browser, fresh>>

BootMdns ==
    /\ boot = "mdns"
    /\ names' = [names EXCEPT !["mdns"] = bootName]
    /\ boot' = "run" /\ bootName' = Garbage
    /\ UNCHANGED <<kept, deferred, buffer, usb, rest, browser, fresh>>

\* The page stays in the browser, its request fails.
Restart ==
    /\ boot' = "read" /\ bootName' = Garbage
    /\ names' = [n \in Name |-> Garbage]
    /\ deferred' = FALSE
    /\ buffer' = [i \in 1..Wide |-> Nul]
    /\ usb' = NoUsb /\ rest' = NoRest
    /\ page' = CASE page = "loading" -> "closed" [] page = "saving" -> "open" [] OTHER -> page
    /\ UNCHANGED <<kept, form, edited, fresh>>
-----------------------------------------------------------------------------
(* USB control requests *)

\* SETUP and DATA: what the host sent covers the beginning of the buffer only.
UsbSet(f, v, ends) ==
    /\ usb.step = "idle" /\ (Overlap \/ rest.step \notin {"put", "store"})
    /\ LET bytes == IF ends THEN Append(v, Nul) ELSE v
       IN  /\ Len(bytes) \in 1..Bound(f)
           /\ buffer' = Written(bytes)
    /\ f = "hostname" => \E i \in 1..Wide : buffer'[i] = Nul
    /\ usb' = [NoUsb EXCEPT !.step = IF f = "hostname" THEN "nvs" ELSE "load", !.field = f,
                            !.text = Cut(TextOf(buffer'), Bound(f)),
                            !.meant = IF ends \/ Len(v) = Bound(f) THEN v ELSE Absent]
    /\ UNCHANGED <<kept, naming, rest, browser, fresh>>

\* Mutant of UsbLoad: the configuration is not read before it is written.
UsbLoadNothing ==
    /\ usb.step = "load" /\ DriverReady
    /\ usb' = [usb EXCEPT !.step = "store"]
    /\ UNCHANGED <<kept, naming, buffer, rest, browser, fresh>>

\* wifi_set_ssid, wifi_set_password: the whole configuration is read ...
UsbLoad ==
    /\ usb.step = "load" /\ DriverReady
    /\ usb' = [usb EXCEPT !.step = "store", !.copy = config]
    /\ UNCHANGED <<kept, naming, buffer, rest, browser, fresh>>

\* ... and written back.
UsbStore ==
    /\ usb.step = "store"
    /\ config' = [usb.copy EXCEPT ![usb.field] = usb.text]
    /\ usb' = NoUsb
    /\ fresh' = FALSE
    /\ rest' = [rest EXCEPT !.fresh = FALSE]
    /\ UNCHANGED <<stored, naming, buffer, browser>>

\* The request was acknowledged whatever happens to the value.
UsbFails ==
    /\ \/ usb.step = "load" /\ ~DriverReady
       \/ usb.step \in {"store", "nvs"} /\ StoreMayFail
    /\ usb' = NoUsb
    /\ UNCHANGED <<kept, naming, buffer, rest, browser, fresh>>

\* networking_set_hostname stores the name ...
UsbNvs ==
    /\ usb.step = "nvs"
    /\ stored' = usb.text
    /\ deferred' = TRUE
    /\ usb' = [usb EXCEPT !.step = "apply"]
    /\ fresh' = FALSE
    /\ rest' = [rest EXCEPT !.fresh = FALSE]
    /\ UNCHANGED <<config, boot, bootName, names, buffer, browser>>

\* Mutant of UsbApply: mDNS keeps the old name.
UsbApplyTwo ==
    /\ usb.step = "apply"
    /\ names' = [names EXCEPT !["netbios"] = usb.text,
                              !["wifi"] = IF DriverReady THEN usb.text ELSE @]
    /\ deferred' = (boot # "run")
    /\ usb' = NoUsb
    /\ UNCHANGED <<kept, boot, bootName, buffer, rest, browser, fresh>>

\* ... and applies it where the service runs already; esp_netif refuses long names.
UsbApply ==
    /\ usb.step = "apply"
    /\ names' = [names EXCEPT !["netbios"] = usb.text,
                              !["mdns"] = IF boot = "run" THEN usb.text ELSE @,
                              !["wifi"] = IF DriverReady /\ Len(usb.text) <= Narrow
                                            THEN usb.text ELSE @]
    /\ deferred' = (boot # "run")
    /\ usb' = NoUsb
    /\ UNCHANGED <<kept, boot, bootName, buffer, rest, browser, fresh>>

\* The getters copy into control_data and send the string it begins with.
UsbGet(f) ==
    /\ usb.step = "idle" /\ DriverReady
    /\ buffer' = Written(Padded(config[f], Narrow))
    /\ usb' = [NoUsb EXCEPT !.step = "answer", !.field = f, !.text = TextOf(buffer')]
    /\ UNCHANGED <<kept, naming, rest, browser, fresh>>

UsbAnswered ==
    /\ usb.step = "answer"
    /\ usb' = NoUsb
    /\ UNCHANGED <<kept, naming, buffer, rest, browser, fresh>>

\* The few bytes of another answer go the same way.
Short ==
    /\ usb.step = "idle"
    /\ \E k \in 1..(Narrow - 1) : \E bytes \in [1..k -> Cell] : buffer' = Written(bytes)
    /\ UNCHANGED <<kept, naming, usb, rest, browser, fresh>>

\* The MAC and the IP address.
UsbAddress == Short

\* The state of the slave power, voltages and the current.
UsbMeasure == Short
-----------------------------------------------------------------------------
(* api_system_wifi_handler *)

Request(client, body) ==
    /\ rest.step = "idle" /\ boot = "run"
    /\ Overlap \/ usb.step = "idle" \/ body = NoBody
    /\ rest' = [NoRest EXCEPT !.step = IF body = NoBody THEN "read" ELSE "put",
                              !.client = client, !.body = body, !.fresh = TRUE]

\* The handler after it is done with a field of the body; only the page makes
\* use of the answer.
PutNext ==
    CASE rest.field = "ssid" -> [rest EXCEPT !.step = "put", !.field = "password"]
      [] rest.field = "password" -> [rest EXCEPT !.step = "put", !.field = "hostname"]
      [] OTHER -> IF rest.client = "api" THEN NoRest
                  ELSE [NoRest EXCEPT !.step = "read", !.fresh = TRUE]

\* A client of the REST API sets one field.
ApiPut(f, v) ==
    /\ Request("api", [NoBody EXCEPT ![f] = v])
    /\ UNCHANGED <<kept, naming, buffer, usb, browser, fresh>>

RestSkip ==
    /\ rest.step = "put" /\ rest.body[rest.field] = Absent
    /\ rest' = PutNext
    /\ UNCHANGED <<kept, naming, buffer, usb, browser, fresh>>

\* Mutant of RestLoad: one copy of the configuration serves both fields.
RestLoadOnce ==
    /\ rest.step = "put" /\ rest.field \in Wireless /\ rest.body[rest.field] # Absent
    /\ rest' = [rest EXCEPT !.step = "store",
                            !.copy = IF rest.field = "password" /\ rest.body["ssid"] # Absent
                                       THEN @ ELSE config]
    /\ UNCHANGED <<kept, naming, buffer, usb, browser, fresh>>

RestLoad ==
    /\ rest.step = "put" /\ rest.field \in Wireless /\ rest.body[rest.field] # Absent
    /\ rest' = [rest EXCEPT !.step = "store", !.copy = config]
    /\ UNCHANGED <<kept, naming, buffer, usb, browser, fresh>>

RestStore ==
    /\ rest.step = "store"
    /\ config' = [rest.copy EXCEPT ![rest.field] = Cut(rest.body[rest.field], Bound(rest.field))]
    /\ rest' = PutNext
    /\ fresh' = (fresh /\ rest.client = "page")
    /\ UNCHANGED <<stored, naming, buffer, usb, browser>>

\* A new name is used after the next restart.
RestNvs ==
    /\ rest.step = "put" /\ rest.field = "hostname" /\ rest.body["hostname"] # Absent
    /\ stored' = rest.body["hostname"]
    /\ deferred' = TRUE
    /\ rest' = PutNext
    /\ fresh' = (fresh /\ rest.client = "page")
    /\ UNCHANGED <<config, boot, bootName, names, buffer, usb, browser>>

RestFails ==
    /\ StoreMayFail
    /\ rest.step = "store" \/ (rest.step = "put" /\ rest.field = "hostname")
    /\ rest' = PutNext
    /\ UNCHANGED <<kept, naming, buffer, usb, browser, fresh>>

\* Mutant of Read: one byte of the array is kept for the Nul, as for a string.
ReadShort(f) ==
    CASE f = "hostname" -> IF Readable THEN HostName ELSE Absent
      [] OTHER -> Cut(config[f], Narrow - 1)

\* The getters: both fields with the bound of the SSID, a name that fits the array.
Read(f) ==
    CASE f = "hostname" -> IF Readable THEN HostName ELSE Absent
      [] OTHER -> Cut(config[f], Narrow)

RestRead ==
    /\ rest.step = "read"
    /\ rest' = [rest EXCEPT !.reply[rest.field] = Read(rest.field),
                            !.field = IF @ = "ssid" THEN "password" ELSE "hostname",
                            !.step = IF rest.field = "hostname" THEN "answer" ELSE "read"]
    /\ UNCHANGED <<kept, naming, buffer, usb, browser, fresh>>
-----------------------------------------------------------------------------
(* The page *)

PageOpen ==
    /\ page = "closed" /\ Request("page", NoBody)
    /\ page' = "loading"
    /\ UNCHANGED <<kept, naming, buffer, usb, form, edited, fresh>>

Edit(f, v) ==
    /\ page = "open"
    /\ form' = [form EXCEPT ![f] = v]
    /\ edited' = edited \cup {f}
    /\ UNCHANGED <<kept, naming, buffer, usb, rest, page, fresh>>

Save ==
    /\ page = "open" /\ Request("page", form)
    /\ page' = "saving"
    /\ UNCHANGED <<kept, naming, buffer, usb, form, edited, fresh>>

\* The answer to a save is shown like that to the first request.
PageAnswered ==
    /\ rest.step = "answer"
    /\ form' = [f \in Field |-> IF rest.reply[f] = Absent THEN form[f] ELSE rest.reply[f]]
    /\ edited' = {}
    /\ fresh' = rest.fresh
    /\ page' = "open"
    /\ rest' = NoRest
    /\ UNCHANGED <<kept, naming, buffer, usb>>

PageClose ==
    /\ page = "open"
    /\ page' = "closed" /\ form' = Empty /\ edited' = {} /\ fresh' = FALSE
    /\ UNCHANGED <<kept, naming, buffer, usb, rest>>
-----------------------------------------------------------------------------
networking_init == BootRead \/ BootWifi \/ BootMdns

UsbTask ==
    \/ UsbLoad \/ UsbStore \/ UsbFails \/ UsbNvs \/ UsbApply \/ UsbAnswered
    \/ UsbAddress \/ UsbMeasure
    \/ \E f \in Wireless : UsbGet(f)

HttpdTask ==
    \/ RestSkip \/ RestLoad \/ RestStore \/ RestNvs \/ RestFails \/ RestRead
    \/ PageAnswered

Next ==
    \/ networking_init \/ Restart \/ UsbTask \/ HttpdTask
    \/ \E f \in Field : \E v \in Values[f] :
          (\E ends \in BOOLEAN : UsbSet(f, v, ends)) \/ ApiPut(f, v) \/ Edit(f, v)
    \/ PageOpen \/ Save \/ PageClose

Spec == Init /\ [][Next]_vars
-----------------------------------------------------------------------------
(* Properties *)

Current == [f \in Field |-> IF f = "hostname" THEN HostName ELSE config[f]]

\* A value changes only when a client sets this field, and to the value it sent
\* when that came with its end or fills the field: bytes an earlier request left
\* in control_data never become part of it, and no setter reverts another field
\* (usb_vendor_config.c:48-107, wifi.c:143-196, urihandlers_rest.c:132-147).
KeepsWhatWasSent ==
    [][\A f \in Field : (Current[f])' # Current[f] =>
          \/ /\ usb.step \in {"store", "nvs"} /\ usb.field = f
             /\ (Current[f])' = usb.meant \/ usb.meant = Absent
          \/ /\ rest.step \in {"put", "store"} /\ rest.field = f
             /\ (Current[f])' = rest.body[f]]_vars

\* The names in use are the one stored, unless a name waits for a restart or
\* does not fit the array it is read into (networking.c:70-110).
NamesFollowStore ==
    boot = "run" /\ usb.step # "apply" /\ ~deferred /\ Readable
        => \A n \in Name : names[n] = HostName

\* A string read over USB is the one in the driver, whatever earlier requests
\* left in control_data, if it is shorter than the getter's bound
\* (usb_vendor_config.c:80-84, 104-108, wifi.c:163-211).
ReadsBack ==
    [][\A f \in Wireless : UsbGet(f) /\ Len(config[f]) < Narrow => usb'.text = config[f]]_vars

Saves == rest.client = "page" /\ rest.step \in {"put", "store"} /\ fresh

\* Saving a form that shows what is stored changes only the fields the user
\* edited, of the values the getters can carry (SystemConfig.vue:19-63,
\* urihandlers_rest.c:126-177).
Fits(f) == IF f = "hostname" THEN Readable ELSE Len(config[f]) <= Narrow
SaveKeepsFitting ==
    [][Saves => \A f \in Field \ edited : Fits(f) => (Current[f])' = Current[f]]_vars

\* ... and of any value the setters accept: a password of up to 64 characters
\* (wifi.h:66, SystemConfig.vue:128).
SaveKeeps == [][Saves => \A f \in Field \ edited : (Current[f])' = Current[f]]_vars

\* The abstract settings: the values, and what the two requests under way still have
\* to store.  A value that came without its end is what the buffer made of it.
InUsb ==
    [f \in Field |->
        IF usb.step \in {"load", "store", "nvs"} /\ usb.field = f
          THEN IF usb.meant = Absent THEN usb.text ELSE usb.meant
          ELSE Absent]

\* The REST handler goes through the fields in this order.
ToCome(f) ==
    /\ rest.step \in {"put", "store"}
    /\ rest.field = "password" => f # "ssid"
    /\ rest.field = "hostname" => f = "hostname"

InRest == [f \in Field |-> IF ToCome(f) THEN rest.body[f] ELSE Absent]

Clients == {"usb", "rest"}
Requests == [c \in Clients |-> IF c = "usb" THEN InUsb ELSE InRest]
AtFirst == [f \in Field |-> IF f = "hostname" THEN Default ELSE <<>>]

Registers == INSTANCE Settings
               WITH Client <- Clients, Value <- Text, Nothing <- Absent, Initial <- AtFirst,
                    value <- Current, asked <- Requests

\* When USB and REST do not set at once, every field is a register: what a request
\* sets is stored whole, at one moment and at most once, also next to refused
\* stores and restarts, and no other step changes it (wifi.c:143-196,
\* networking.c:92-103, urihandlers_rest.c:132-147).
ImplementsSettings == Registers!Spec
=============================================================================
